--------------------------- MODULE SpaAuthProofs ---------------------------
(***************************************************************************)
(* For every number of requests and logins, every lifetime and every       *)
(* cushion that covers the latency: the token store of the browser keeps   *)
(* its types, the token in it is the one of the user it shows, and a token *)
(* handed out of it still works.                                           *)
(***************************************************************************)
EXTENDS SpaAuth, TLAPS

\* At time t: a refresh carries a token only when it was granted, for the login
\* whose cookie it took along, and not for longer than the latency.
GoodFlight(f, t) ==
    /\ f \in Flight
    /\ f.status = 200 => /\ f.st = "answered" /\ f.token # NoToken
                         /\ f.token.login = f.cookie /\ f.cookie # 0
                         /\ t + Life <= f.token.exp + Latency
    /\ f.st # "stuck" /\ f.status # 200 => f.token = NoToken
    /\ f.st = "stuck" => f.token # NoToken

\* Logins count from 1, and the browser's count of a token's life is ahead of
\* the control plane's by the latency at most.
GoodToken(t, end) == t # NoToken => t.login # 0 /\ end <= t.exp + Latency

StoreInv ==
    /\ SpaTypeOK
    /\ \A k \in Request : GoodFlight(flight[k], now)
    /\ 0 \notin live
    /\ GoodToken(token, expiresAt)

-----------------------------------------------------------------------------
(* What a slot may become                                                  *)

LEMMA SpaConstants ==
    /\ Life \in Nat /\ Cushion \in Nat /\ Slack \in Nat /\ Latency \in Nat
    /\ Latency <= Cushion
    BY SpaAuthAssumption

LEMMA NoFlightGood ==
    ASSUME NEW t PROVE GoodFlight(NoFlight, t) /\ NoToken \in Token
<1>1. NoToken \in Token
    BY DEF NoToken, Token
<1> QED BY <1>1 DEF GoodFlight, NoFlight, Flight

LEMMA DepartGood ==
    ASSUME cookie \in Nat, NEW t
    PROVE  /\ GoodFlight(Depart, t)
           /\ Depart.st = "sent" /\ Depart.cookie = cookie
<1>1. NoFlight \in Flight /\ NoFlight.status = 0 /\ NoFlight.token = NoToken
    BY NoFlightGood DEF NoFlight, GoodFlight
<1>2. Depart \in Flight
    BY NoFlightGood DEF Depart, NoFlight, Flight
<1>3. Depart.st = "sent" /\ Depart.cookie = cookie /\ Depart.status = 0
      /\ Depart.token = NoToken
    BY <1>1 DEF Depart, Flight
<1> QED BY <1>2, <1>3 DEF GoodFlight

LEMMA AskedGood ==
    ASSUME StoreInv, NEW k \in Request
    PROVE  /\ GoodFlight(Asked(k), now)
           /\ Asked(k).st = "stuck" => Asked(k).token \in Token \ {NoToken}
           /\ Asked(k).st \in {"sent", "answered"} =>
                 \/ Asked(k) = flight[k]
                 \/ Asked(k).cookie = cookie
<1>1. GoodFlight(flight[k], now) /\ cookie \in Nat /\ token \in Token
    BY DEF StoreInv, SpaTypeOK
<1>2. CASE flight[k].st # "none"
    BY <1>1, <1>2 DEF Asked, GoodFlight, Flight
<1>3. CASE flight[k].st = "none" /\ HasLeft(Slack)
  <2> DEFINE f == [NoFlight EXCEPT !.st = "stuck", !.token = token]
  <2>1. NoFlight \in Flight /\ NoFlight.status = 0
    BY NoFlightGood DEF NoFlight, GoodFlight
  <2>4. f \in Flight
    BY <1>1 DEF NoFlight, Flight
  <2>2. f.st = "stuck" /\ f.status = 0 /\ f.token = token
    BY <1>1, <2>1 DEF Flight
  <2>3. token # NoToken /\ Asked(k) = f
    BY <1>3 DEF HasLeft, Asked
  <2> HIDE DEF f
  <2> QED BY <1>1, <2>2, <2>3, <2>4 DEF GoodFlight
<1>4. CASE flight[k].st = "none" /\ ~HasLeft(Slack)
  <2>1. Asked(k) = Depart
    BY <1>4 DEF Asked
  <2> QED BY <1>1, <2>1, DepartGood
<1> QED BY <1>2, <1>3, <1>4

LEMMA SpaInitStore == SpaInit => StoreInv
<1> SUFFICES ASSUME SpaInit PROVE StoreInv
    OBVIOUS
<1>1. cookie \in Nat
    BY DEF SpaInit
<1>2. \A k \in Request : GoodFlight(flight[k], now)
    BY <1>1, DepartGood, NoFlightGood DEF SpaInit
<1>3. flight \in [Request -> Flight]
    BY <1>2 DEF SpaInit, GoodFlight
<1>4. token \in Token /\ sent \in [Caller -> Token]
    BY NoFlightGood DEF SpaInit
<1>5. pc \in [Caller -> {"idle"} \cup Waiting \cup Handed]
      /\ \A c \in Caller : pc[c] = "idle"
    BY DEF SpaInit
<1>7. now \in Nat /\ logins \in Nat /\ live \subseteq Nat /\ expiresAt \in Nat /\ user \in Nat
    BY DEF SpaInit
<1>6. SpaTypeOK
    BY <1>1, <1>3, <1>4, <1>5, <1>7 DEF SpaInit, SpaTypeOK, Handed
<1> QED BY <1>2, <1>6 DEF SpaInit, StoreInv, GoodToken

-----------------------------------------------------------------------------
(* Types and counts, action by action                                      *)

\* A step that changes neither time, nor the requests, nor the store.
LEMMA QuietStep ==
    ASSUME StoreInv, UNCHANGED <<now, token, expiresAt, flight>>,
           SpaTypeOK', 0 \notin live'
    PROVE  StoreInv'
    BY DEF StoreInv, GoodToken

LEMMA ServeStore ==
    ASSUME StoreInv, NEW k \in Request, Serve(k) PROVE StoreInv'
<1>1. PICK status \in {0, 200, 401} :
        /\ status = 200 => flight[k].cookie \in live
        /\ flight' = [flight EXCEPT ![k] =
              [@ EXCEPT !.st = "answered", !.status = status, !.token =
                  IF status = 200
                  THEN [login |-> flight[k].cookie, exp |-> now + Life]
                  ELSE NoToken]]
    BY DEF Serve
<1> DEFINE t == IF status = 200 THEN [login |-> flight[k].cookie, exp |-> now + Life]
                ELSE NoToken
           f == [flight[k] EXCEPT !.st = "answered", !.status = status, !.token = t]
<1>2. flight[k] \in Flight /\ now \in Nat /\ 0 \notin live /\ flight[k].cookie \in Nat
    BY DEF StoreInv, SpaTypeOK, Flight
<1>3. t \in Token
    BY <1>2, NoFlightGood, SpaConstants DEF Token
<1>4. /\ f \in Flight /\ f.st = "answered" /\ f.status = status
      /\ f.token = t /\ f.cookie = flight[k].cookie
    BY <1>2, <1>3 DEF Flight
<1>5. status = 200 => t.login = flight[k].cookie /\ t.exp = now + Life /\ t # NoToken
                      /\ flight[k].cookie # 0
    BY <1>1, <1>2 DEF NoToken
<1>6. status # 200 => t = NoToken
    OBVIOUS
<1>7. flight' = [flight EXCEPT ![k] = f]
    BY <1>1
<1> HIDE DEF f, t
<1>8. GoodFlight(f, now)
    BY <1>2, <1>4, <1>5, <1>6, SpaConstants DEF GoodFlight
<1>9. now' = now /\ flight' \in [Request -> Flight]
    BY <1>4, <1>7 DEF Serve, StoreInv, SpaTypeOK
<1>10. \A j \in Request : GoodFlight(flight'[j], now')
    BY <1>7, <1>8, <1>9 DEF StoreInv, SpaTypeOK
<1>11. SpaTypeOK'
    BY <1>9 DEF Serve, StoreInv, SpaTypeOK, signals, callers, server
<1> QED BY <1>10, <1>11 DEF Serve, StoreInv, signals, callers, server

LEMMA TickStore ==
    ASSUME StoreInv, Tick PROVE StoreInv'
<1>1. now \in Nat /\ now' = now + 1
    BY DEF Tick, StoreInv, SpaTypeOK
<1>2. ASSUME NEW k \in Request PROVE GoodFlight(flight'[k], now')
  <2>1. GoodFlight(flight[k], now) /\ flight' = flight
    BY DEF StoreInv, Tick
  <2>2. CASE flight[k].status = 200
    <3>1. now < flight[k].token.exp - Life + Latency /\ flight[k].token.exp \in Nat
      BY <2>1, <2>2 DEF Tick, GoodFlight, Flight, Token
    <3> QED BY <1>1, <2>1, <3>1, SpaConstants DEF GoodFlight
  <2>3. CASE flight[k].status # 200
    BY <2>1, <2>3 DEF GoodFlight
  <2> QED BY <2>2, <2>3
<1>3. SpaTypeOK'
    BY <1>1 DEF Tick, StoreInv, SpaTypeOK, signals, callers, server
<1> QED BY <1>2, <1>3 DEF Tick, StoreInv, GoodToken, signals, server

LEMMA RefreshedStore ==
    ASSUME StoreInv, NEW k \in Slot, Refreshed(k) PROVE StoreInv'
<1>1. k \in Request /\ GoodFlight(flight[k], now) /\ flight[k].st = "answered"
    BY DEF Refreshed, Request, StoreInv
<1>2. flight' = [flight EXCEPT ![k] = NoFlight] /\ now' = now
    BY DEF Refreshed
<1>3. \A j \in Request : GoodFlight(flight'[j], now')
    BY <1>2, NoFlightGood DEF StoreInv, SpaTypeOK
<1>4. flight' \in [Request -> Flight]
    BY <1>1, <1>2, NoFlightGood DEF StoreInv, SpaTypeOK, GoodFlight
<1>5. token' \in Token /\ expiresAt' \in Nat /\ GoodToken(token', expiresAt')
  <2>1. CASE flight[k].status = 200
    BY <1>1, <2>1, SpaConstants
       DEF Refreshed, StoreToken, GoodFlight, Flight, Token, GoodToken, StoreInv, SpaTypeOK
  <2>2. CASE flight[k].status # 200
    BY <2>2 DEF Refreshed, StoreInv, SpaTypeOK
  <2> QED BY <2>1, <2>2
<1>6. flight[k].token \in Token
    BY <1>1 DEF GoodFlight, Flight
<1>7. /\ pc' = [c \in Caller |-> AfterAnswer(k, pc[c], flight[k].token)]
      /\ sent' = [c \in Caller |-> IF pc'[c] # pc[c] THEN flight[k].token ELSE sent[c]]
    BY DEF Refreshed, Wake
<1>8. \A c \in Caller :
        /\ pc'[c] \in {"idle"} \cup Waiting \cup Handed /\ sent'[c] \in Token
        /\ pc'[c] \in {"first", "second"} \cup Handed => sent'[c] # NoToken
    BY <1>6, <1>7 DEF AfterAnswer, StoreInv, SpaTypeOK, Waiting, Handed
<1>9. SpaTypeOK'
    BY <1>4, <1>5, <1>7, <1>8 DEF Refreshed, StoreInv, SpaTypeOK, server
<1> QED BY <1>3, <1>5, <1>9 DEF Refreshed, StoreInv, server


\* A page load, at page p.
LEMMA LoadStore ==
    ASSUME StoreInv, NEW p \in Page, Load(p) PROVE StoreInv'
<1>1. cookie \in Nat
    BY DEF StoreInv, SpaTypeOK
<1>2. flight' = [k \in Request |-> IF k = "boot" THEN Depart ELSE NoFlight]
    BY DEF Load
<1>3. \A k \in Request : GoodFlight(flight'[k], now')
    BY <1>1, <1>2, DepartGood, NoFlightGood
<1>4. flight' \in [Request -> Flight]
    BY <1>2, <1>3 DEF GoodFlight
<1>5. token' \in Token /\ sent' \in [Caller -> Token] /\ token' = NoToken
    BY NoFlightGood DEF Load
<1>6. /\ pc' \in [Caller -> {"idle"} \cup Waiting \cup Handed]
      /\ \A c \in Caller : pc'[c] = "idle"
    BY DEF Load
<1>7. SpaTypeOK'
    BY <1>4, <1>5, <1>6 DEF Load, StoreInv, SpaTypeOK, Handed, server
<1> QED BY <1>3, <1>5, <1>7 DEF Load, StoreInv, GoodToken, server

LEMMA AskFreshStore ==
    ASSUME StoreInv, NEW c \in Caller, NEW kind \in {"fresh", "status"}, AskFresh(c, kind)
    PROVE  StoreInv'
<1> DEFINE k == SlotOf(kind)
<1>1. k \in Request
    BY DEF SlotOf, Request, Slot
<1>2. /\ GoodFlight(Asked(k), now)
      /\ Asked(k).st = "stuck" => Asked(k).token \in Token \ {NoToken}
    BY <1>1, AskedGood
<1>3. Asked(k) \in Flight
    BY <1>2 DEF GoodFlight
<1> HIDE DEF k
<1>4. UNCHANGED <<now, signals, page, busy, leaving, server, crossed>>
    BY DEF AskFresh
<1>5. \/ flight' = flight
      \/ flight' = [flight EXCEPT ![k] = Asked(k)]
    BY DEF AskFresh, k
<1>6. /\ flight' \in [Request -> Flight]
      /\ \A j \in Request : GoodFlight(flight'[j], now')
    BY <1>1, <1>2, <1>3, <1>4, <1>5 DEF StoreInv, SpaTypeOK
<1>7. \E how \in {"fresh", "status"} \cup Handed, t \in Token :
        /\ pc' = [pc EXCEPT ![c] = how] /\ sent' = [sent EXCEPT ![c] = t]
        /\ how \in Handed => t # NoToken
  <2>1. NoToken \in Token /\ token \in Token /\ token # NoToken
    BY NoFlightGood DEF StoreInv, SpaTypeOK, AskFresh
  <2>2. CASE pc' = [pc EXCEPT ![c] = "cache"] /\ sent' = [sent EXCEPT ![c] = token]
    BY <2>1, <2>2 DEF Handed
  <2>3. CASE /\ Asked(k).st = "stuck"
             /\ pc' = [pc EXCEPT ![c] = "slot"] /\ sent' = [sent EXCEPT ![c] = Asked(k).token]
    BY <1>2, <2>3 DEF Handed
  <2>4. CASE pc' = [pc EXCEPT ![c] = kind] /\ sent' = [sent EXCEPT ![c] = NoToken]
    BY <2>1, <2>4 DEF Handed
  <2> QED BY <2>2, <2>3, <2>4 DEF AskFresh, k
<1>8. /\ pc' \in [Caller -> {"idle"} \cup Waiting \cup Handed]
      /\ sent' \in [Caller -> Token]
      /\ \A d \in Caller : pc'[d] \in {"first", "second"} \cup Handed => sent'[d] # NoToken
    BY <1>7 DEF StoreInv, SpaTypeOK, Waiting, Handed
<1>9. SpaTypeOK'
    BY <1>4, <1>6, <1>8 DEF StoreInv, SpaTypeOK, signals, server
<1> QED BY <1>4, <1>6, <1>9 DEF StoreInv, signals, server

\* A caller's other steps, a refused request apart, touch nothing but the caller.
LEMMA CallerStore ==
    ASSUME StoreInv, NEW c \in Caller, Use(c) \/ Fetch(c) \/ FetchDone(c)
    PROVE  StoreInv'
<1>1. UNCHANGED <<now, signals, page, busy, leaving, flight, server, crossed>>
    BY DEF Use, Fetch, FetchDone
<1>2. \E p \in {"idle", "first"}, t \in Token :
        /\ pc' = [pc EXCEPT ![c] = p] /\ sent' = [sent EXCEPT ![c] = t]
        /\ p = "first" => t # NoToken
  <2>1. NoToken \in Token /\ token \in Token
    BY NoFlightGood DEF StoreInv, SpaTypeOK
  <2>2. CASE pc' = [pc EXCEPT ![c] = "idle"] /\ sent' = [sent EXCEPT ![c] = NoToken]
    BY <2>1, <2>2
  <2>3. CASE Fetch(c)
    BY <2>1, <2>3 DEF Fetch
  <2> QED BY <2>2, <2>3 DEF Use, FetchDone
<1>3. /\ pc' \in [Caller -> {"idle"} \cup Waiting \cup Handed]
      /\ sent' \in [Caller -> Token]
      /\ \A d \in Caller : pc'[d] \in {"first", "second"} \cup Handed => sent'[d] # NoToken
    BY <1>2 DEF StoreInv, SpaTypeOK, Waiting, Handed
<1>4. SpaTypeOK'
    BY <1>1, <1>3 DEF StoreInv, SpaTypeOK, signals, server
<1> QED BY <1>1, <1>4, QuietStep DEF StoreInv, signals, server

LEMMA FetchRefusedStore ==
    ASSUME StoreInv, NEW c \in Caller, FetchRefused(c)
    PROVE  StoreInv'
<1> DEFINE slot == IF flight["plain"].st = "none" THEN Depart ELSE flight["plain"]
<1>1. "plain" \in Request /\ cookie \in Nat /\ GoodFlight(flight["plain"], now)
    BY DEF Request, Slot, StoreInv, SpaTypeOK
<1>2. GoodFlight(slot, now)
    BY <1>1, DepartGood
<1>3. /\ flight' = [flight EXCEPT !["plain"] = slot]
      /\ pc' = [pc EXCEPT ![c] = IF slot.st = "stuck" THEN "second" ELSE "refreshing"]
      /\ sent' = [sent EXCEPT ![c] = IF slot.st = "stuck" THEN slot.token ELSE NoToken]
      /\ UNCHANGED <<now, expiresAt, user, splashing, page, busy, leaving, server, crossed>>
      /\ token' = NoToken
    BY DEF FetchRefused
<1> HIDE DEF slot
<1>4. slot \in Flight /\ slot.token \in Token /\ (slot.st = "stuck" => slot.token # NoToken)
    BY <1>2 DEF GoodFlight, Flight
<1>5. /\ flight' \in [Request -> Flight]
      /\ \A j \in Request : GoodFlight(flight'[j], now')
    BY <1>1, <1>2, <1>3, <1>4 DEF StoreInv, SpaTypeOK
<1>6. token' \in Token /\ NoToken \in Token
    BY <1>3, NoFlightGood
<1>7. /\ pc' \in [Caller -> {"idle"} \cup Waiting \cup Handed]
      /\ sent' \in [Caller -> Token]
      /\ \A d \in Caller : pc'[d] \in {"first", "second"} \cup Handed => sent'[d] # NoToken
    BY <1>3, <1>4, <1>6 DEF StoreInv, SpaTypeOK, Waiting, Handed
<1>8. SpaTypeOK'
    BY <1>3, <1>5, <1>6, <1>7 DEF StoreInv, SpaTypeOK, server
<1> QED BY <1>3, <1>5, <1>8 DEF StoreInv, GoodToken, server

LEMMA BootedStore ==
    ASSUME StoreInv, Booted PROVE StoreInv'
<1> DEFINE f == flight["boot"]
<1>1. /\ "boot" \in Request /\ GoodFlight(f, now) /\ f.st = "answered"
      /\ flight' = [flight EXCEPT !["boot"] = NoFlight] /\ splashing' = FALSE
      /\ UNCHANGED <<now, busy, leaving, callers, server, crossed>>
    BY DEF Request, StoreInv, Booted
<1>2. f.token \in Token /\ f.token.login \in Nat /\ f.token.exp \in Nat
    BY <1>1 DEF GoodFlight, Flight, Token
<1>3. /\ flight' \in [Request -> Flight]
      /\ \A j \in Request : GoodFlight(flight'[j], now')
    BY <1>1, NoFlightGood DEF StoreInv, SpaTypeOK, GoodFlight
<1>4. /\ token' \in Token /\ expiresAt' \in Nat /\ user' \in Nat
      /\ page' \in Page /\ GoodToken(token', expiresAt')
  <2>1. CASE f.status = 200
    <3>1. /\ token' = f.token /\ expiresAt' = now + Life /\ user' = f.token.login
          /\ page' = IF page = "home" THEN "sessions" ELSE page
      BY <2>1 DEF Booted, StoreToken
    <3>2. page' \in Page /\ expiresAt' \in Nat
      BY <3>1, SpaConstants DEF StoreInv, SpaTypeOK, Page, Guarded
    <3> QED BY <1>1, <1>2, <2>1, <3>1, <3>2 DEF GoodFlight, GoodToken
  <2>2. CASE f.status # 200
    BY <2>2 DEF Booted, StoreInv, SpaTypeOK
  <2> QED BY <2>1, <2>2
<1>5. SpaTypeOK'
    BY <1>1, <1>3, <1>4 DEF StoreInv, SpaTypeOK, callers, server
<1> QED BY <1>1, <1>3, <1>4, <1>5 DEF StoreInv, server

LEMMA LoginOkStore ==
    ASSUME StoreInv, LoginOk PROVE StoreInv'
<1> DEFINE t == [login |-> logins + 1, exp |-> now + Life]
<1>1. logins \in Nat /\ now \in Nat /\ logins + 1 \in Nat \ {0}
    BY DEF StoreInv, SpaTypeOK
<1>2. t \in Token /\ t.login # 0 /\ t.exp = now + Life
    BY <1>1, SpaConstants DEF Token
<1>3. /\ token' = t /\ expiresAt' = now + Life /\ page' = "sessions"
      /\ UNCHANGED <<now, splashing, leaving, flight, callers>>
      /\ live' = live \cup {logins + 1} /\ user' = logins + 1 /\ cookie' = logins + 1
      /\ logins' = logins + 1 /\ busy' = FALSE /\ foreign' = {}
      /\ crossed' = (crossed \/ SomebodyWaits \/ leaving # "no")
    BY DEF LoginOk, NewLogin, StoreToken
<1> HIDE DEF t
<1>4. /\ crossed' \in BOOLEAN /\ expiresAt' \in Nat /\ user' \in Nat /\ cookie' \in Nat
      /\ logins' \in Nat /\ live' \subseteq Nat /\ 0 \notin live' /\ page' \in Page
    BY <1>1, <1>3, SpaConstants DEF Page, Guarded, StoreInv, SpaTypeOK
<1>5. SpaTypeOK'
    BY <1>2, <1>3, <1>4 DEF StoreInv, SpaTypeOK, callers
<1>6. expiresAt' <= token'.exp + Latency
    BY <1>1, <1>2, <1>3, SpaConstants
<1> QED BY <1>2, <1>3, <1>4, <1>5, <1>6 DEF StoreInv, GoodToken, callers

LEMMA LoggedOutStore ==
    ASSUME StoreInv, LoggedOut PROVE StoreInv'
<1>1. /\ live' \subseteq live /\ cookie' \in {0, cookie}
      /\ token' = NoToken /\ expiresAt' = 0 /\ user' = 0
      /\ UNCHANGED <<now, splashing, busy, flight, callers, logins, foreign>>
      /\ leaving' \in {"no", "second"} /\ page' \in {"home", page}
    BY DEF LoggedOut, ClearAuth
<1>2. crossed' \in BOOLEAN /\ token' \in Token
    BY <1>1, NoFlightGood DEF LoggedOut
<1>3. SpaTypeOK'
    BY <1>1, <1>2 DEF StoreInv, SpaTypeOK, callers, Page
<1> QED BY <1>1, <1>3 DEF StoreInv, GoodToken, callers

LEMMA OtherTabStore ==
    ASSUME StoreInv, OtherTab PROVE StoreInv'
<1>1. UNCHANGED <<now, signals, page, busy, leaving, flight, callers, crossed>>
    BY DEF OtherTab
<1>2. /\ cookie' \in Nat /\ logins' \in Nat /\ live' \subseteq Nat /\ foreign' \subseteq Nat
      /\ 0 \notin live'
  <2>1. cookie \in Nat /\ logins \in Nat /\ live \subseteq Nat /\ foreign \subseteq Nat
        /\ 0 \notin live
    BY DEF StoreInv, SpaTypeOK
  <2>2. logins + 1 \in Nat \ {0}
    BY <2>1
  <2>3. CASE NewLogin /\ foreign' = foreign \cup {logins + 1}
    BY <2>1, <2>2, <2>3 DEF NewLogin
  <2>4. CASE cookie' = 0 /\ live' = live \ {cookie} /\ UNCHANGED <<logins, foreign>>
    BY <2>1, <2>4
  <2> QED BY <2>3, <2>4 DEF OtherTab
<1>3. SpaTypeOK'
    BY <1>1, <1>2 DEF StoreInv, SpaTypeOK, signals, callers
<1> QED BY <1>1, <1>2, <1>3, QuietStep DEF signals

\* The pages and the form.
LEMMA PageStore ==
    ASSUME StoreInv, Submit \/ LoginFailed \/ Logout \/ Guard \/ Navigate
    PROVE  StoreInv'
<1>1. /\ UNCHANGED <<now, signals, flight, callers, server, crossed>>
      /\ busy' \in BOOLEAN /\ leaving' \in {leaving, "first"}
    BY DEF Submit, LoginFailed, Logout, Guard, Navigate, StoreInv, SpaTypeOK
<1>2. page' \in Page
  <2>1. CASE UNCHANGED page \/ Guard
    BY <2>1 DEF Guard, StoreInv, SpaTypeOK, Page
  <2>2. CASE Navigate
    BY <2>2 DEF Navigate, Links, HomeLinks, StoreInv, SpaTypeOK, Page, Guarded
  <2> QED BY <2>1, <2>2 DEF Submit, LoginFailed, Logout
<1>3. SpaTypeOK'
    BY <1>1, <1>2 DEF StoreInv, SpaTypeOK, signals, callers, server
<1> QED BY <1>1, <1>3, QuietStep DEF StoreInv, signals, server

-----------------------------------------------------------------------------
(* Every step, and what follows                                            *)

LEMMA StoreStep == StoreInv /\ [SpaNext]_spaVars => StoreInv'
<1> SUFFICES ASSUME StoreInv, [SpaNext]_spaVars PROVE StoreInv'
    OBVIOUS
<1>1. CASE Tick
    BY <1>1, TickStore
<1>2. ASSUME NEW k \in Request, Serve(k) \/ Landed(k) PROVE StoreInv'
  <2>1. CASE Landed(k) /\ k = "status" /\ RefreshRefused
    BY <2>1, LoadStore DEF RefreshRefused, Page
  <2> QED BY <1>2, <2>1, ServeStore, RefreshedStore, BootedStore DEF Landed
<1>3. ASSUME NEW c \in Caller,
             \/ Network(c) \/ Fetch(c)
             \/ AskFresh(c, "fresh") \/ AskFresh(c, "status")
      PROVE  StoreInv'
    BY <1>3, CallerStore, FetchRefusedStore, AskFreshStore DEF Network
<1>4. CASE Submit \/ LoginFailed \/ Logout \/ Guard \/ Navigate
    BY <1>4, PageStore
<1>5. CASE LoginOk
    BY <1>5, LoginOkStore
<1>6. CASE LoggedOut
    BY <1>6, LoggedOutStore
<1>7. CASE Reload
    BY <1>7, LoadStore DEF Reload, StoreInv, SpaTypeOK
<1>8. CASE OtherTab
    BY <1>8, OtherTabStore
<1>9. CASE UNCHANGED spaVars
  <2>1. UNCHANGED <<now, signals, page, busy, leaving, flight, callers, server, crossed>>
    BY <1>9 DEF spaVars
  <2> QED BY <2>1, QuietStep DEF StoreInv, SpaTypeOK, signals, callers, server
<1> QED BY <1>1, <1>2, <1>3, <1>4, <1>5, <1>6, <1>7, <1>8, <1>9 DEF SpaNext

LEMMA SpaStore == SpaSpec => []StoreInv
    BY SpaInitStore, StoreStep, PTL DEF SpaSpec

\* Every variable keeps its type, and nobody is handed the absence of a token.
THEOREM SpaTypes == SpaSpec => []SpaTypeOK
<1>1. StoreInv => SpaTypeOK
    BY DEF StoreInv
<1> QED BY <1>1, SpaStore, PTL

\* For every lifetime and every latency below the cushion: a token that
\* freshAccessToken hands out of the store is one the control plane still takes.
THEOREM SpaCachedToken == SpaSpec => CachedTokenWorks
<1>1. ASSUME StoreInv, [SpaNext]_spaVars
      PROVE  [\A c \in Caller : pc[c] = "idle" /\ pc'[c] = "cache" => Accepted(sent'[c])]_spaVars
  <2> SUFFICES ASSUME SpaNext, NEW c \in Caller, pc[c] = "idle", pc'[c] = "cache"
               PROVE  Accepted(sent'[c])
      BY <1>1
  <2> USE <1>1
  <2>1. pc \in [Caller -> {"idle"} \cup Waiting \cup Handed]
      BY DEF StoreInv, SpaTypeOK
  <2>2. pc' # pc
      OBVIOUS
  <2>3. ~\E k \in Request : Serve(k) \/ Landed(k)
    <3> SUFFICES ASSUME NEW k \in Request, Landed(k) PROVE FALSE
        BY <2>2 DEF Serve, callers
    <3>1. CASE Booted
        BY <2>2, <3>1 DEF Booted, callers
    <3>2. CASE RefreshRefused
        BY <3>2 DEF RefreshRefused, Load
    <3>3. CASE Refreshed(k)
        BY <3>3 DEF Refreshed, Wake, AfterAnswer
    <3> QED BY <3>1, <3>2, <3>3 DEF Landed
  <2>4. ~Tick /\ ~Submit /\ ~LoginOk /\ ~LoginFailed /\ ~Logout /\ ~LoggedOut
        /\ ~Guard /\ ~Navigate /\ ~OtherTab
      BY <2>2 DEF Tick, Submit, LoginOk, LoginFailed, Logout, LoggedOut, Guard,
                  Navigate, OtherTab, callers
  <2>5. ~Reload
      BY DEF Reload, Load
  <2>6. PICK d \in Caller : \/ Network(d) \/ Fetch(d)
                            \/ AskFresh(d, "fresh") \/ AskFresh(d, "status")
      BY <2>3, <2>4, <2>5 DEF SpaNext
  <2>7. ~Network(d) /\ ~Fetch(d)
      BY <2>1 DEF Network, Use, FetchDone, FetchRefused, Fetch
  <2>8. FreshEnough /\ sent' = [sent EXCEPT ![c] = token]
      BY <2>1, <2>6, <2>7 DEF AskFresh
  <2>9. /\ now \in Nat /\ token \in Token /\ expiresAt \in Nat /\ sent \in [Caller -> Token]
        /\ GoodToken(token, expiresAt)
      BY DEF StoreInv, SpaTypeOK
  <2>10. now < token.exp /\ token # NoToken
      BY <2>8, <2>9, SpaConstants DEF FreshEnough, HasLeft, GoodToken, Token
  <2> QED BY <2>8, <2>9, <2>10 DEF Accepted
<1> QED BY <1>1, SpaStore, PTL DEF SpaSpec, CachedTokenWorks

-----------------------------------------------------------------------------
(* Whose token it is                                                       *)

\* Behind the splash there is the request of bootstrap and nothing else, and
\* its cookie is still the browser's but for what another tab has done.
Dark ==
    /\ flight["boot"].st # "none" => splashing
    /\ splashing => /\ ~busy /\ leaving = "no" /\ token = NoToken
                    /\ \A k \in Slot : flight[k].st = "none"
                    /\ \A c \in Caller : pc[c] = "idle"
                    /\ cookie \in {0, flight["boot"].cookie} \cup foreign

UnderWay(k) == flight[k].st \in {"sent", "answered"}

\* The login of the user who is shown, or one that another tab has made since.
OursOrForeign(login) == login \in {user} \cup foreign

\* While a token is there, or somebody is about to bring a new one, the cookie
\* is ours or foreign, and every refresh has taken such a one along.
OneLogin ==
    /\ token # NoToken => OursOrForeign(token.login)
    /\ \/ token # NoToken
       \/ \E k \in Slot : UnderWay(k)
       \/ \E c \in Caller : pc[c] \in Waiting
       => cookie = 0 \/ OursOrForeign(cookie)
    /\ \A k \in Slot : UnderWay(k) =>
          flight[k].cookie = 0 \/ OursOrForeign(flight[k].cookie)

UserInv == Dark /\ (~crossed => OneLogin)

LEMMA UserInit == SpaInit => UserInv
<1> SUFFICES ASSUME SpaInit PROVE UserInv
    OBVIOUS
<1>1. cookie \in Nat
    BY DEF SpaInit
<1>2. /\ flight["boot"].st = "sent" /\ flight["boot"].cookie = cookie
      /\ \A k \in Slot : flight[k].st = "none"
    BY <1>1, DepartGood DEF SpaInit, Request, Slot, NoFlight
<1> QED BY <1>2 DEF SpaInit, UserInv, Dark, OneLogin, UnderWay, Waiting

\* A step after which cookie, store and requests are what they were, and which
\* starts nobody waiting, unless there is a token.
LEMMA QuietUser ==
    ASSUME UserInv,
           UNCHANGED <<cookie, foreign, signals, flight, crossed>>,
           splashing => UNCHANGED <<busy, leaving, pc>>,
           \A c \in Caller : pc'[c] \in Waiting => token # NoToken \/ pc[c] \in Waiting
    PROVE  UserInv'
<1>1. Dark'
    BY DEF UserInv, Dark, signals
<1>2. ASSUME ~crossed' PROVE OneLogin'
    BY <1>2 DEF UserInv, OneLogin, OursOrForeign, UnderWay, signals
<1> QED BY <1>1, <1>2 DEF UserInv

LEMMA ServeUser ==
    ASSUME StoreInv, UserInv, NEW k \in Request, Serve(k) PROVE UserInv'
<1>1. /\ UNCHANGED <<now, signals, page, busy, leaving, callers, server, crossed>>
      /\ flight[k].st = "sent"
      /\ flight'[k].st = "answered" /\ flight'[k].cookie = flight[k].cookie
      /\ \A j \in Request : j # k => flight'[j] = flight[j]
    BY DEF Serve, StoreInv, SpaTypeOK, Flight
<1>2. Slot \subseteq Request /\ "boot" \in Request
    BY DEF Request
<1>3. Dark'
    BY <1>1, <1>2 DEF UserInv, Dark, signals, callers, server
<1>4. ASSUME ~crossed' PROVE OneLogin'
    BY <1>1, <1>2, <1>4
       DEF UserInv, OneLogin, OursOrForeign, UnderWay, signals, callers, server
<1> QED BY <1>3, <1>4 DEF UserInv

LEMMA RefreshedUser ==
    ASSUME StoreInv, UserInv, NEW k \in Slot, Refreshed(k) PROVE UserInv'
<1>1. /\ k \in Request /\ k # "boot" /\ Slot \subseteq Request /\ "boot" \in Request
      /\ GoodFlight(flight[k], now) /\ flight[k].st = "answered"
      /\ flight' = [flight EXCEPT ![k] = NoFlight]
      /\ UNCHANGED <<now, user, splashing, page, busy, leaving, server, crossed>>
      /\ NoFlight.st = "none"
    BY DEF Refreshed, Request, Slot, StoreInv, NoFlight
<1>2. ~splashing
    BY <1>1 DEF UserInv, Dark
<1>3. /\ flight'[k].st = "none"
      /\ \A j \in Request : j # k => flight'[j] = flight[j]
    BY <1>1 DEF StoreInv, SpaTypeOK
<1>4. Dark'
    BY <1>1, <1>2, <1>3 DEF UserInv, Dark
<1>5. ASSUME ~crossed' PROVE OneLogin'
  <2>1. /\ OneLogin /\ UnderWay(k) /\ (cookie = 0 \/ OursOrForeign(cookie))
        /\ flight[k].cookie = 0 \/ OursOrForeign(flight[k].cookie)
        /\ user' = user /\ cookie' = cookie /\ foreign' = foreign
    BY <1>1, <1>5 DEF UserInv, OneLogin, UnderWay, server
  <2>2. token' # NoToken => OursOrForeign(token'.login)
    BY <1>1, <2>1 DEF Refreshed, StoreToken, GoodFlight, OneLogin
  <2>3. \A j \in Slot : UnderWay(j)' =>
          flight'[j].cookie = 0 \/ OursOrForeign(flight'[j].cookie)
    BY <1>1, <1>3, <2>1 DEF UnderWay, OneLogin
  <2> QED BY <2>1, <2>2, <2>3 DEF OneLogin, OursOrForeign
<1> QED BY <1>4, <1>5 DEF UserInv

LEMMA LoadUser ==
    ASSUME StoreInv, NEW p, Load(p) PROVE UserInv'
<1>1. cookie \in Nat /\ cookie' = cookie
    BY DEF StoreInv, SpaTypeOK, Load
<1>2. /\ flight'["boot"].cookie = cookie
      /\ \A k \in Slot : flight'[k].st = "none"
    BY <1>1, DepartGood DEF Load, Request, Slot, NoFlight
<1> QED BY <1>1, <1>2 DEF Load, UserInv, Dark, OneLogin, UnderWay, Waiting

LEMMA AskFreshUser ==
    ASSUME StoreInv, UserInv, NEW c \in Caller, NEW kind \in {"fresh", "status"},
           AskFresh(c, kind)
    PROVE  UserInv'
<1> DEFINE k == SlotOf(kind)
<1>1. /\ k \in Slot /\ k \in Request /\ k # "boot" /\ Slot \subseteq Request
      /\ "boot" \in Request
    BY DEF SlotOf, Request, Slot
<1>2. Asked(k).st \in {"sent", "answered"} =>
        Asked(k) = flight[k] \/ Asked(k).cookie = cookie
    BY <1>1, AskedGood
<1> HIDE DEF k
<1>3. /\ UNCHANGED <<now, signals, page, busy, leaving, server, crossed>>
      /\ ~splashing /\ token # NoToken
    BY DEF AskFresh
<1>4. \/ flight' = flight
      \/ flight' = [flight EXCEPT ![k] = Asked(k)]
    BY DEF AskFresh, k
<1>5. /\ \A j \in Request : j # k => flight'[j] = flight[j]
      /\ flight'[k] \in {flight[k], Asked(k)}
    BY <1>1, <1>4 DEF StoreInv, SpaTypeOK
<1>6. Dark'
    BY <1>1, <1>3, <1>5 DEF UserInv, Dark, signals
<1>7. ASSUME ~crossed' PROVE OneLogin'
  <2>1. OneLogin /\ (cookie = 0 \/ OursOrForeign(cookie))
    BY <1>3, <1>7 DEF UserInv, OneLogin
  <2>2. \A j \in Slot : UnderWay(j)' =>
          flight'[j].cookie = 0 \/ OursOrForeign(flight'[j].cookie)
    BY <1>1, <1>2, <1>5, <2>1 DEF OneLogin, UnderWay
  <2> QED BY <1>3, <2>1, <2>2 DEF OneLogin, OursOrForeign, signals, server
<1> QED BY <1>6, <1>7 DEF UserInv

LEMMA CallerUser ==
    ASSUME StoreInv, UserInv, NEW c \in Caller, Use(c) \/ Fetch(c) \/ FetchDone(c)
    PROVE  UserInv'
<1>1. UNCHANGED <<now, signals, page, busy, leaving, flight, server, crossed>>
    BY DEF Use, Fetch, FetchDone
<1>2. pc \in [Caller -> {"idle"} \cup Waiting \cup Handed]
    BY DEF StoreInv, SpaTypeOK
<1>3. ~splashing
    BY DEF Use, Fetch, FetchDone, UserInv, Dark, Handed
<1>4. \A d \in Caller : pc'[d] \in Waiting => token # NoToken \/ pc[d] \in Waiting
  <2>1. CASE Fetch(c)
    BY <2>1 DEF Fetch
  <2>2. CASE Use(c) \/ FetchDone(c)
    BY <1>2, <2>2 DEF Use, FetchDone, Waiting
  <2> QED BY <2>1, <2>2
<1> QED BY <1>1, <1>3, <1>4, QuietUser DEF signals, server

LEMMA FetchRefusedUser ==
    ASSUME StoreInv, UserInv, NEW c \in Caller, FetchRefused(c)
    PROVE  UserInv'
<1> DEFINE slot == IF flight["plain"].st = "none" THEN Depart ELSE flight["plain"]
<1>1. /\ flight' = [flight EXCEPT !["plain"] = slot]
      /\ UNCHANGED <<now, expiresAt, user, splashing, page, busy, leaving, server, crossed>>
      /\ token' = NoToken /\ pc[c] = "first"
    BY DEF FetchRefused
<1>2. slot = flight["plain"] \/ slot.cookie = cookie
    BY DepartGood DEF StoreInv, SpaTypeOK
<1> HIDE DEF slot
<1>3. /\ Slot \subseteq Request /\ "plain" \in Slot /\ "boot" \in Request
      /\ \A j \in Request : j # "plain" => flight'[j] = flight[j]
      /\ flight'["plain"] = slot
    BY <1>1 DEF Slot, Request, StoreInv, SpaTypeOK
<1>4. ~splashing
    BY <1>1 DEF UserInv, Dark
<1>5. Dark'
    BY <1>1, <1>3, <1>4 DEF UserInv, Dark
<1>6. ASSUME ~crossed' PROVE OneLogin'
  <2>1. OneLogin /\ (cookie = 0 \/ OursOrForeign(cookie))
    BY <1>1, <1>6 DEF UserInv, OneLogin, Waiting
  <2>2. \A j \in Slot : UnderWay(j)' =>
          flight'[j].cookie = 0 \/ OursOrForeign(flight'[j].cookie)
    BY <1>2, <1>3, <2>1 DEF OneLogin, UnderWay
  <2> QED BY <1>1, <2>1, <2>2 DEF OneLogin, OursOrForeign, server
<1> QED BY <1>5, <1>6 DEF UserInv

LEMMA BootedUser ==
    ASSUME StoreInv, UserInv, Booted PROVE UserInv'
<1> DEFINE f == flight["boot"]
<1>1. /\ Slot \subseteq Request /\ "boot" \in Request /\ "boot" \notin Slot
      /\ GoodFlight(f, now) /\ f.st = "answered"
      /\ flight' = [flight EXCEPT !["boot"] = NoFlight] /\ splashing' = FALSE
      /\ UNCHANGED <<now, busy, leaving, callers, server, crossed>>
      /\ NoFlight.st = "none"
    BY DEF Slot, Request, StoreInv, Booted, NoFlight
<1>2. /\ flight'["boot"].st = "none"
      /\ \A k \in Slot : flight'[k] = flight[k]
    BY <1>1 DEF StoreInv, SpaTypeOK
<1>3. Dark'
    BY <1>1, <1>2 DEF Dark
<1>4. /\ \A k \in Slot : flight'[k].st = "none"
      /\ \A c \in Caller : pc'[c] = "idle"
      /\ cookie \in {0, f.cookie} \cup foreign /\ token = NoToken
      /\ cookie' = cookie /\ foreign' = foreign
    BY <1>1, <1>2 DEF UserInv, Dark, callers, server
<1>5. token' # NoToken => token'.login = user' /\ user' = f.cookie
    BY <1>1, <1>4 DEF Booted, StoreToken, GoodFlight
<1>6. OneLogin'
    BY <1>4, <1>5 DEF OneLogin, OursOrForeign, UnderWay, Waiting
<1> QED BY <1>3, <1>6 DEF UserInv

LEMMA LoginOkUser ==
    ASSUME StoreInv, UserInv, LoginOk PROVE UserInv'
<1>1. /\ token'.login = logins + 1 /\ user' = logins + 1 /\ cookie' = logins + 1
      /\ UNCHANGED <<now, splashing, leaving, flight, callers>>
      /\ crossed' = (crossed \/ SomebodyWaits \/ leaving # "no") /\ busy
    BY DEF LoginOk, NewLogin, StoreToken
<1>2. ~splashing
    BY <1>1 DEF UserInv, Dark
<1>3. Dark'
    BY <1>1, <1>2 DEF UserInv, Dark
<1>4. ASSUME ~crossed' PROVE OneLogin'
    BY <1>1, <1>4 DEF OneLogin, OursOrForeign, UnderWay, SomebodyWaits, Request, callers
<1> QED BY <1>3, <1>4 DEF UserInv

LEMMA LoggedOutUser ==
    ASSUME StoreInv, UserInv, LoggedOut PROVE UserInv'
<1>1. /\ token' = NoToken /\ user' = 0 /\ leaving # "no"
      /\ UNCHANGED <<now, splashing, busy, flight, callers, logins>>
      /\ crossed' = (crossed \/ SomebodyWaits \/ busy)
    BY DEF LoggedOut, ClearAuth
<1>2. ~splashing
    BY <1>1 DEF UserInv, Dark
<1>3. Dark'
    BY <1>1, <1>2 DEF UserInv, Dark
<1>4. ASSUME ~crossed' PROVE OneLogin'
    BY <1>1, <1>4 DEF OneLogin, OursOrForeign, UnderWay, SomebodyWaits, Request, callers
<1> QED BY <1>3, <1>4 DEF UserInv

\* What another tab makes of the cookie is nothing, or foreign.
LEMMA OtherTabUser ==
    ASSUME UserInv, OtherTab PROVE UserInv'
<1>1. /\ UNCHANGED <<now, signals, page, busy, leaving, flight, callers, crossed>>
      /\ cookie' = 0 \/ cookie' \in foreign'
      /\ foreign \subseteq foreign'
    BY DEF OtherTab, NewLogin
<1>2. Dark'
    BY <1>1 DEF UserInv, Dark, signals, callers
<1>3. ASSUME ~crossed' PROVE OneLogin'
    BY <1>1, <1>3 DEF UserInv, OneLogin, OursOrForeign, UnderWay, signals, callers
<1> QED BY <1>2, <1>3 DEF UserInv

LEMMA UserStep == StoreInv /\ UserInv /\ [SpaNext]_spaVars => UserInv'
<1> SUFFICES ASSUME StoreInv, UserInv, [SpaNext]_spaVars PROVE UserInv'
    OBVIOUS
<1>1. ASSUME NEW k \in Request, Serve(k) \/ Landed(k) PROVE UserInv'
  <2>1. CASE RefreshRefused
    BY <2>1, LoadUser DEF RefreshRefused
  <2> QED BY <1>1, <2>1, ServeUser, RefreshedUser, BootedUser DEF Landed
<1>2. ASSUME NEW c \in Caller,
             \/ Network(c) \/ Fetch(c)
             \/ AskFresh(c, "fresh") \/ AskFresh(c, "status")
      PROVE  UserInv'
    BY <1>2, CallerUser, FetchRefusedUser, AskFreshUser DEF Network
<1>3. CASE Tick \/ Submit \/ LoginFailed \/ Logout \/ Guard \/ Navigate
  <2>1. /\ UNCHANGED <<signals, flight, callers, server, crossed>>
        /\ splashing => UNCHANGED <<busy, leaving>>
    BY <1>3 DEF Tick, Submit, LoginFailed, Logout, Guard, Navigate, UserInv, Dark
  <2> QED BY <2>1, QuietUser DEF callers, server
<1>4. CASE LoginOk
    BY <1>4, LoginOkUser
<1>5. CASE LoggedOut
    BY <1>5, LoggedOutUser
<1>6. CASE Reload
    BY <1>6, LoadUser DEF Reload
<1>7. CASE OtherTab
    BY <1>7, OtherTabUser
<1>8. CASE UNCHANGED spaVars
  <2>1. UNCHANGED <<cookie, foreign, signals, flight, crossed, busy, leaving, pc>>
    BY <1>8 DEF spaVars, callers, server
  <2> QED BY <2>1, QuietUser
<1> QED BY <1>1, <1>2, <1>3, <1>4, <1>5, <1>6, <1>7, <1>8 DEF SpaNext

\* As long as no login and no logout of this page overtakes a request under
\* way, the token that goes out with a request is of the login whose name is
\* shown, or of one that another tab has made since.
THEOREM SpaUser == SpaSpec => []TokenFollowsUser
<1>1. UserInv => TokenFollowsUser
    BY DEF UserInv, OneLogin, OursOrForeign, TokenFollowsUser
<1> QED BY <1>1, SpaStore, UserInit, UserStep, PTL DEF SpaSpec

=============================================================================
