------------------------------ MODULE SpaAuth ------------------------------
(***************************************************************************)
(* Authentication in the browser app: the access token in memory, the      *)
(* refresh cookie behind it, and everybody who reads or writes them - the  *)
(* cold-start probe, the login form, the logout button, requests through   *)
(* fetchWithAuth and the terminal page's freshAccessToken.                 *)
(*                                                                         *)
(* JavaScript runs one task at a time, so a step here is what the code     *)
(* does between two waits for the network.  A refresh request takes two:   *)
(* the control plane answers it, and later the answer is handled.          *)
(***************************************************************************)
EXTENDS Integers

CONSTANTS
    Caller,         \* requests and token reads that may be under way at once
    Life,           \* lifetime of an access token
    Cushion,        \* freshAccessToken re-uses a token with more than this left
    Slack,          \* doRefreshOnce re-uses a token with more than this left
    Latency,        \* bound: an answer is handled this soon after it was given
    MaxNow,         \* bound on the clock
    MaxLogins       \* bound: this many logins, the first before the page loads

ASSUME SpaAuthAssumption ==
    /\ Life \in Nat /\ Cushion \in Nat /\ Slack \in Nat /\ Latency \in Nat
    /\ Slack <= Cushion /\ Latency <= Cushion
    /\ MaxNow \in Nat /\ MaxLogins \in Nat \ {0}

VARIABLES
    now,            \* time, the same at both ends
    token,          \* the accessToken signal
    expiresAt,      \* the accessTokenExpiresAt signal
    user,           \* the userInfo signal: whose login it shows, 0 for null
    splashing,      \* the splashing signal
    page,           \* the route
    busy,           \* the login form waits for its answer
    leaving,        \* how far a logout has come: its first or second request
    flight,         \* flight[k]: a refresh request and its single-flight slot
    pc,             \* pc[c]: what caller c waits for
    sent,           \* sent[c]: the token c was handed, or sent
    cookie,         \* the refresh cookie: of which login, 0 for none
    live,           \* control plane: logins whose refresh token is not revoked
    logins,         \* control plane: logins so far
    foreign,        \* history: logins of other tabs since the page's own
    crossed         \* history: a login or logout ended while others waited

signals == <<token, expiresAt, user, splashing>>
server == <<cookie, live, logins, foreign>>
callers == <<pc, sent>>
spaVars == <<now, signals, page, busy, leaving, flight, callers, server, crossed>>

NoToken == [login |-> 0, exp |-> 0]
Token == [login: Nat, exp: Nat]         \* exp: when the control plane's own
                                        \* clock ends it

\* inflight, inflightWithStatus, and the request of bootstrap.
Slot == {"plain", "status"}
Request == Slot \cup {"boot"}

\* stuck: the slot keeps a promise that is already resolved, with `token`.
Flight == [st: {"none", "sent", "answered", "stuck"},
           cookie: Nat, status: {0, 200, 401}, token: Token]
NoFlight == [st |-> "none", cookie |-> 0, status |-> 0, token |-> NoToken]

\* A caller waits for a request, or was just handed a token: from the cache or
\* from a slot.
Waiting == {"first", "refreshing", "second", "fresh", "status"}
Handed == {"cache", "slot"}
Guarded == {"sessions", "terminal"}
Page == Guarded \cup {"home", "login", "help"}

SpaTypeOK ==
    /\ now \in Nat
    /\ token \in Token /\ expiresAt \in Nat /\ user \in Nat
    /\ splashing \in BOOLEAN
    /\ page \in Page /\ busy \in BOOLEAN
    /\ leaving \in {"no", "first", "second"}
    /\ flight \in [Request -> Flight]
    /\ pc \in [Caller -> {"idle"} \cup Waiting \cup Handed]
    /\ sent \in [Caller -> Token]
    /\ \A c \in Caller : pc[c] \in {"first", "second"} \cup Handed => sent[c] # NoToken
    /\ cookie \in Nat /\ live \subseteq Nat /\ logins \in Nat
    /\ foreign \subseteq Nat
    /\ crossed \in BOOLEAN

\* A refresh request leaves with the cookie of the moment.
Depart == [NoFlight EXCEPT !.st = "sent", !.cookie = cookie]

\* The page loads at any address, with or without the cookie of an earlier
\* visit, and bootstrap asks for a token at once.
SpaInit ==
    /\ now = 0 /\ logins = 1 /\ live = {1} /\ cookie \in {0, 1}
    /\ foreign = {}
    /\ token = NoToken /\ expiresAt = 0 /\ user = 0 /\ splashing = TRUE
    /\ page \in Page /\ busy = FALSE /\ leaving = "no"
    /\ flight = [k \in Request |-> IF k = "boot" THEN Depart ELSE NoFlight]
    /\ pc = [c \in Caller |-> "idle"]
    /\ sent = [c \in Caller |-> NoToken]
    /\ crossed = FALSE

-----------------------------------------------------------------------------
(* The control plane: POST /auth/refresh                                   *)

\* 401 stands for no cookie, a revoked one, or a failed look-up; 0 for a
\* request that never got there, or a status nobody looks at.
Serve(k) ==
    /\ flight[k].st = "sent"
    /\ \E status \in {0, 200, 401} :
          /\ status = 200 => flight[k].cookie \in live
          /\ flight' = [flight EXCEPT ![k] =
                [@ EXCEPT !.st = "answered", !.status = status, !.token =
                    IF status = 200
                    THEN [login |-> flight[k].cookie, exp |-> now + Life]
                    ELSE NoToken]]
    /\ UNCHANGED <<now, signals, page, busy, leaving, callers, server, crossed>>

Tick ==
    /\ now < MaxNow
    /\ \A k \in Request :
          flight[k].st = "answered" /\ flight[k].status = 200
              => now < flight[k].token.exp - Life + Latency
    /\ now' = now + 1
    /\ UNCHANGED <<signals, page, busy, leaving, flight, callers, server, crossed>>

-----------------------------------------------------------------------------
(* The token store                                                         *)

\* The body of a 200: expires_in_seconds counts from when it is read.
StoreToken(t) == token' = t /\ expiresAt' = now + Life

\* Mutant: the token stays.
ClearAuthKeepsToken ==
    user' = 0 /\ UNCHANGED <<token, expiresAt>>

ClearAuth == token' = NoToken /\ expiresAt' = 0 /\ user' = 0

HasLeft(margin) == token # NoToken /\ now < expiresAt - margin

-----------------------------------------------------------------------------
(* Single-flight refresh                                                   *)

\* What a slot is once somebody has asked it.  The fast path returns before
\* the try whose finally empties the slot, so that its promise stays there.
Asked(k) ==
    IF flight[k].st # "none" THEN flight[k]
    ELSE IF HasLeft(Slack) THEN [NoFlight EXCEPT !.st = "stuck", !.token = token]
    ELSE Depart

\* Mutant: the slot is emptied and those who wait for it are not called back.
WakesNobody(k, t) == UNCHANGED callers

\* What the answer t of slot k makes of a caller in state p.
\* Mutant: a refresh that failed is followed by the second request as well.
AfterAnyAnswer(k, p, t) ==
    CASE k = "plain" /\ p = "refreshing" -> "second"
      [] <<k, p>> \in {<<"plain", "fresh">>, <<"status", "status">>} ->
            IF t = NoToken THEN "idle" ELSE "slot"
      [] OTHER -> p

AfterAnswer(k, p, t) ==
    IF p \notin (IF k = "plain" THEN {"refreshing", "fresh"} ELSE {"status"}) THEN p
    ELSE IF t = NoToken THEN "idle"
    ELSE IF p = "refreshing" THEN "second" ELSE "slot"

\* The answer of slot k is handed to everyone who waits for it.
Wake(k, t) ==
    /\ pc' = [c \in Caller |-> AfterAnswer(k, pc[c], t)]
    /\ sent' = [c \in Caller |-> IF pc'[c] # pc[c] THEN t ELSE sent[c]]

Refreshed(k) ==
    /\ k \in Slot /\ flight[k].st = "answered"
    /\ k = "status" => flight[k].status # 401
    /\ flight' = [flight EXCEPT ![k] = NoFlight]
    /\ IF flight[k].status = 200
       THEN StoreToken(flight[k].token) ELSE UNCHANGED <<token, expiresAt>>
    /\ Wake(k, flight[k].token)
    /\ UNCHANGED <<now, user, splashing, page, busy, leaving, server, crossed>>

\* What the browser starts again from nothing when it loads page p.
Load(p) ==
    /\ token' = NoToken /\ expiresAt' = 0 /\ user' = 0 /\ splashing' = TRUE
    /\ page' = p /\ busy' = FALSE /\ leaving' = "no"
    /\ flight' = [k \in Request |-> IF k = "boot" THEN Depart ELSE NoFlight]
    /\ pc' = [c \in Caller |-> "idle"]
    /\ sent' = [c \in Caller |-> NoToken]
    /\ crossed' = FALSE /\ foreign' = {}
    /\ UNCHANGED <<now, cookie, live, logins>>

\* The reconnect loop answers a 401 with window.location.href = "/login".
RefreshRefused ==
    /\ flight["status"].st = "answered" /\ flight["status"].status = 401
    /\ Load("login")

\* Behind the splash a reload is where the page already is.
Reload == ~splashing /\ Load(page)

-----------------------------------------------------------------------------
(* freshAccessToken, freshAccessTokenWithStatus                            *)

\* Mutant: no cushion.
FreshEnoughAtAll == HasLeft(0)

FreshEnough == HasLeft(Cushion)

SlotOf(kind) == IF kind = "fresh" THEN "plain" ELSE "status"

AskFresh(c, kind) ==
    /\ page = "terminal" /\ ~splashing /\ token # NoToken /\ pc[c] = "idle"
    /\ LET k == SlotOf(kind)
           hand(how, t) == pc' = [pc EXCEPT ![c] = how] /\ sent' = [sent EXCEPT ![c] = t]
       IN \/ FreshEnough /\ hand("cache", token) /\ UNCHANGED flight
          \/ /\ ~FreshEnough
             /\ flight' = [flight EXCEPT ![k] = Asked(k)]
             /\ IF Asked(k).st = "stuck"
                THEN hand("slot", Asked(k).token) ELSE hand(kind, NoToken)
    /\ UNCHANGED <<now, signals, page, busy, leaving, server, crossed>>

\* The token leaves in the address of a WebSocket.
Use(c) ==
    /\ pc[c] \in Handed
    /\ pc' = [pc EXCEPT ![c] = "idle"] /\ sent' = [sent EXCEPT ![c] = NoToken]
    /\ UNCHANGED <<now, signals, page, busy, leaving, flight, server, crossed>>

-----------------------------------------------------------------------------
(* fetchWithAuth                                                           *)

\* The control plane's middleware takes a token until it ends.
Accepted(t) == t # NoToken /\ now < t.exp

Fetch(c) ==
    /\ page \in Guarded /\ ~splashing /\ token # NoToken
    /\ pc[c] = "idle"
    /\ pc' = [pc EXCEPT ![c] = "first"] /\ sent' = [sent EXCEPT ![c] = token]
    /\ UNCHANGED <<now, signals, page, busy, leaving, flight, server, crossed>>

\* Anything but a 401, or a network error, goes to the page as it is; so does
\* whatever the second request brings.
FetchDone(c) ==
    /\ pc[c] \in {"first", "second"}
    /\ pc' = [pc EXCEPT ![c] = "idle"] /\ sent' = [sent EXCEPT ![c] = NoToken]
    /\ UNCHANGED <<now, signals, page, busy, leaving, flight, server, crossed>>

\* The first 401 empties the store, which puts the fast path out of reach, and
\* asks the plain slot.
FetchRefused(c) ==
    /\ pc[c] = "first" /\ ~Accepted(sent[c])
    /\ token' = NoToken
    /\ LET slot == IF flight["plain"].st = "none" THEN Depart ELSE flight["plain"]
       IN /\ flight' = [flight EXCEPT !["plain"] = slot]
          /\ pc' = [pc EXCEPT ![c] = IF slot.st = "stuck" THEN "second" ELSE "refreshing"]
          /\ sent' = [sent EXCEPT ![c] =
                        IF slot.st = "stuck" THEN slot.token ELSE NoToken]
    /\ UNCHANGED <<now, expiresAt, user, splashing, page, busy, leaving, server,
                   crossed>>

-----------------------------------------------------------------------------
(* bootstrap, and main.tsx after it                                        *)

\* The finally of bootstrap ends the splash whatever came.
Booted ==
    /\ flight["boot"].st = "answered"
    /\ IF flight["boot"].status = 200
       THEN /\ StoreToken(flight["boot"].token)
            /\ user' = flight["boot"].token.login
            /\ page' = IF page = "home" THEN "sessions" ELSE page
       ELSE UNCHANGED <<token, expiresAt, user, page>>
    /\ splashing' = FALSE /\ flight' = [flight EXCEPT !["boot"] = NoFlight]
    /\ UNCHANGED <<now, busy, leaving, callers, server, crossed>>

-----------------------------------------------------------------------------
(* Login, logout and routes                                                *)

SomebodyWaits ==
    \/ \E k \in Request : flight[k].st \in {"sent", "answered"}
    \/ \E c \in Caller : pc[c] \in Waiting

Submit ==
    /\ page = "login" /\ ~splashing /\ ~busy
    /\ busy' = TRUE
    /\ UNCHANGED <<now, signals, page, leaving, flight, callers, server, crossed>>

NewLogin ==
    /\ logins < MaxLogins
    /\ logins' = logins + 1 /\ live' = live \cup {logins + 1} /\ cookie' = logins + 1

LoginOk ==
    /\ busy /\ NewLogin /\ foreign' = {}
    /\ StoreToken([login |-> logins + 1, exp |-> now + Life])
    /\ user' = logins + 1
    /\ page' = "sessions" /\ busy' = FALSE
    /\ crossed' = (crossed \/ SomebodyWaits \/ leaving # "no")
    /\ UNCHANGED <<now, splashing, leaving, flight, callers>>

LoginFailed ==
    /\ busy
    /\ busy' = FALSE
    /\ UNCHANGED <<now, signals, page, leaving, flight, callers, server, crossed>>

Logout ==
    /\ page = "sessions" /\ ~splashing /\ token # NoToken /\ leaving = "no"
    /\ leaving' = "first"
    /\ UNCHANGED <<now, signals, page, busy, flight, callers, server, crossed>>

\* The button's handler and then the route's ask twice.  An answer takes the
\* cookie away; that no answer came is swallowed.  The session row is
\* revoked if the request got there.
LoggedOut ==
    /\ leaving # "no"
    /\ \E reached \in BOOLEAN :
          /\ live' = IF reached THEN live \ {cookie} ELSE live
          /\ cookie' = IF reached THEN 0 ELSE cookie
    /\ ClearAuth
    /\ IF leaving = "first"
       THEN leaving' = "second" /\ UNCHANGED page
       ELSE leaving' = "no" /\ page' = "home"
    /\ crossed' = (crossed \/ SomebodyWaits \/ busy)
    /\ UNCHANGED <<now, splashing, busy, flight, callers, logins, foreign>>

\* All tabs of the browser have the one cookie: somebody logs in in another
\* one, or out, of which this page learns nothing.
OtherTab ==
    /\ \/ NewLogin /\ foreign' = foreign \cup {logins + 1}
       \/ /\ cookie # 0 /\ cookie' = 0
          /\ live' = live \ {cookie} /\ UNCHANGED <<logins, foreign>>
    /\ UNCHANGED <<now, signals, page, busy, leaving, flight, callers, crossed>>

\* AuthGuard's effect.
Guard ==
    /\ page \in Guarded /\ ~splashing /\ token = NoToken
    /\ page' = "login"
    /\ UNCHANGED <<now, signals, busy, leaving, flight, callers, server, crossed>>

HomeLinks == {"help", IF token # NoToken THEN "sessions" ELSE "login"}

Links(p) ==
    CASE p = "home" -> HomeLinks
      [] p = "login" -> {"home", "help"}
      [] p = "help" -> {IF token # NoToken THEN "sessions" ELSE "home"}
      [] p = "sessions" -> {"terminal", "help"}
      [] p = "terminal" -> {"sessions"}

Navigate ==
    /\ ~splashing
    /\ page \in Guarded => token # NoToken
    /\ page' \in Links(page)
    /\ UNCHANGED <<now, signals, busy, leaving, flight, callers, server, crossed>>

-----------------------------------------------------------------------------
Network(c) == FetchDone(c) \/ FetchRefused(c) \/ Use(c)

\* The answer to request k is handled.
Landed(k) ==
    \/ k = "boot" /\ Booted
    \/ k = "status" /\ RefreshRefused
    \/ k \in Slot /\ Refreshed(k)

SpaNext ==
    \/ Tick
    \/ \E k \in Request : Serve(k) \/ Landed(k)
    \/ \E c \in Caller : \/ Network(c) \/ Fetch(c)
                         \/ AskFresh(c, "fresh") \/ AskFresh(c, "status")
    \/ Submit \/ LoginOk \/ LoginFailed \/ Logout \/ LoggedOut
    \/ Guard \/ Navigate \/ Reload \/ OtherTab

SpaSpec == SpaInit /\ [][SpaNext]_spaVars

\* The browser settles every request sooner or later: it is answered and the
\* answer is handled.
SpaFairness ==
    /\ \A k \in Request : WF_spaVars(Serve(k) \/ Landed(k))
    /\ \A c \in Caller : WF_spaVars(Network(c))

-----------------------------------------------------------------------------
\* The token in the store is of the login whose name the app shows, as long as
\* no login or logout of this page overtook a request that was under way
\* (bootstrap.ts, login.tsx and clearAuth set both).  The one thing that parts
\* them otherwise is another tab: after a login there a refresh brings its
\* token (refresh.ts: doRefreshOnce) and leaves the name.
TokenFollowsUser ==
    ~crossed => token = NoToken \/ token.login \in {user} \cup foreign

\* A token handed out of the store is still good for the control plane: the
\* cushion covers that the browser starts to count when it reads the answer,
\* later than the control plane did.
CachedTokenWorks ==
    [][\A c \in Caller : pc[c] = "idle" /\ pc'[c] = "cache" => Accepted(sent'[c])]_spaVars

\* Nobody who joined a refresh is forgotten when it settles, and every request
\* ends, the retry after a 401 included.
EveryCallReturns == \A c \in Caller : pc[c] \in Waiting ~> pc[c] \notin Waiting

\* client.ts: fetchWithAuth "on 401 transparently runs a single-flight refresh".
\* The code does not keep this: it empties the store meanwhile, on which
\* AuthGuard sends the user to the login page.
RefreshIsTransparent ==
    [][(\E c \in Caller : pc[c] = "refreshing") /\ cookie \in live /\ leaving = "no"
            /\ page \in Guarded => page' # "login"]_spaVars

=============================================================================
