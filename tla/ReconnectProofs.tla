-------------------------- MODULE ReconnectProofs --------------------------
(***************************************************************************)
(* For every number of supervisors and visits, every back-off and every    *)
(* deadline: the reconnect loop keeps its types, and, while the user does  *)
(* not leave a page that waits for a token, page, bridge and loop          *)
(* implement ConnectionPhases and give up only after the deadline's time.  *)
(***************************************************************************)
EXTENDS Reconnect, TLAPS

\* A loop that is alive was made by a bridge the window has or had, and where
\* it waits agrees with its WebSocket.
ClosureFits(s) ==
    /\ sup[s].at # "none" => sup[s].visit \in 1..visit
    /\ sup[s].at = "none" => sup[s] = NoSup
    /\ sup[s].at = "nap" => sup[s].nap <= sup[s].left

\* The supervisor of the bridge has neither been stopped nor forgotten.
CurrentAlive ==
    /\ visit = None => ~onPage /\ asks = {}
    /\ \A v \in Visit : v > visit => activeSup[v] = None
    /\ \A a \in asks : a.visit <= visit
    /\ Current # None =>
          /\ sup[Current].at # "none" /\ sup[Current].visit = visit
          /\ ~sup[Current].stopped /\ sup[Current].ws # "closing"

ReconnectInv ==
    /\ ReconnectTypeOK
    /\ \A s \in Sup : ClosureFits(s)
    /\ CurrentAlive

-----------------------------------------------------------------------------
(* What the steps make of one closure                                      *)

LEMMA NoSupType == NoSup \in Closure
    BY ReconnectAssumption DEF NoSup, Closure, NoDeadline, None

\* stop forgets a loop that sleeps or has returned, and marks the others.
LEMMA StoppedClosure ==
    ASSUME NEW c \in Closure
    PROVE  /\ Stopped(c) \in Closure
           /\ Stopped(c) = NoSup \/ (Stopped(c).visit = c.visit /\ Stopped(c).stopped)
           /\ Stopped(c).at = "none" => Stopped(c) = NoSup \/ c.at = "none"
           /\ Stopped(c).at # "nap"
<1>1. CASE c.at \in {"nap", "over"}
    BY <1>1, NoSupType DEF Stopped, NoSup
<1>2. CASE c.at = "close"
  <2>1. Stopped(c) = [c EXCEPT !.stopped = TRUE, !.at = "over", !.ws = "closing"]
    BY <1>2 DEF Stopped
  <2> QED BY <1>2, <2>1 DEF Closure
<1>3. CASE c.at \notin {"nap", "over", "close"}
  <2>1. Stopped(c) = [c EXCEPT !.stopped = TRUE]
    BY <1>3 DEF Stopped
  <2> QED BY <1>3, <2>1 DEF Closure
<1> QED BY <1>1, <1>2, <1>3

LEMMA OpenedClosure ==
    ASSUME NEW c \in Closure
    PROVE  /\ Opened(c) \in Closure
           /\ Opened(c).at = "close" /\ Opened(c).ws = "open"
           /\ Opened(c).left = NoDeadline
           /\ Opened(c).visit = c.visit /\ Opened(c).stopped = c.stopped
<1>1. GiveUpAfter \in Nat /\ NoDeadline \in 0..NoDeadline
    BY ReconnectAssumption DEF NoDeadline
<1>2. 0 \in 0..GiveUpAfter
    BY ReconnectAssumption
<1> QED BY <1>1, <1>2 DEF Opened, Closure

\* Ending a supervisor keeps the rest of it.
LEMMA OverClosure ==
    ASSUME NEW c \in Closure, NEW d, d = [c EXCEPT !.at = "over"]
    PROVE  /\ d \in Closure /\ d.at = "over" /\ d.left = c.left
           /\ d.visit = c.visit /\ d.stopped = c.stopped
           /\ d.ws = c.ws /\ d.quiet = c.quiet
BY DEF Closure

\* The next round is a sleep that ends by the deadline, or the end.
LEMMA NextRoundClosure ==
    ASSUME NEW c \in Closure
    PROVE  /\ NextRound(c) \in Closure
           /\ c.stopped => NextRound(c) = NoSup
           /\ ~c.stopped =>
                /\ NextRound(c).visit = c.visit /\ ~NextRound(c).stopped
                /\ NextRound(c).ws = "none" /\ NextRound(c).quiet = c.quiet
                /\ c.left = 0 => NextRound(c).at = "over" /\ NextRound(c).left = 0
                /\ c.left # 0 => /\ NextRound(c).at = "nap"
                                 /\ NextRound(c).left = Deadline(c)
                                 /\ NextRound(c).nap <= NextRound(c).left
<1> DEFINE n == IF c.attempt + 1 \in DOMAIN Backoff THEN c.attempt + 1 ELSE c.attempt
           failed == [c EXCEPT !.ws = "none", !.attempt = n]
<1>1. Deadline(c) \in 0..NoDeadline
    BY ReconnectAssumption DEF Deadline, Closure, NoDeadline
<1>2. n \in {None} \cup DOMAIN Backoff
    BY DEF Closure
<1>3. failed \in Closure
    BY <1>2 DEF Closure
<1>7. /\ failed.visit = c.visit /\ failed.stopped = c.stopped
      /\ failed.ws = "none" /\ failed.quiet = c.quiet /\ failed.left = c.left
    BY DEF Closure
<1>4. CASE c.stopped
  <2>1. NextRound(c) = NoSup
    BY <1>4 DEF NextRound
  <2> QED BY <1>4, <2>1, NoSupType
<1>5. CASE ~c.stopped /\ c.left = 0
  <2>1. NextRound(c) = [failed EXCEPT !.at = "over"]
    BY <1>5 DEF NextRound
  <2> HIDE DEF failed
  <2>2. /\ NextRound(c) \in Closure /\ NextRound(c).at = "over"
        /\ NextRound(c).left = failed.left /\ NextRound(c).visit = failed.visit
        /\ NextRound(c).stopped = failed.stopped
        /\ NextRound(c).ws = failed.ws /\ NextRound(c).quiet = failed.quiet
    BY <1>3, <2>1, OverClosure
  <2> QED BY <1>5, <1>7, <2>2
<1>6. CASE ~c.stopped /\ c.left # 0
  <2>1. NextRound(c) = [failed EXCEPT !.at = "nap", !.left = Deadline(c),
                                      !.nap = Nap(n, Deadline(c))]
    BY <1>6 DEF NextRound
  <2>2. Nap(n, Deadline(c)) \in Nat /\ Nap(n, Deadline(c)) <= Deadline(c)
    <3>1. n \in DOMAIN Backoff
      BY ReconnectAssumption DEF Closure, None
    <3>2. Backoff[n] \in Nat
      BY <3>1, ReconnectAssumption
    <3>3. Deadline(c) \in Nat
      BY <1>1, ReconnectAssumption DEF NoDeadline
    <3> QED BY <3>2, <3>3 DEF Nap, Smaller
  <2> DEFINE d == Deadline(c)
             k == Nap(n, d)
  <2>3. /\ NextRound(c) = [failed EXCEPT !.at = "nap", !.left = d, !.nap = k]
        /\ d \in 0..NoDeadline /\ k \in Nat /\ k <= d /\ d = Deadline(c)
    BY <2>1, <2>2, <1>1
  <2> HIDE DEF failed, n, d, k
  <2>4. /\ NextRound(c) \in Closure /\ NextRound(c).at = "nap"
        /\ NextRound(c).left = d /\ NextRound(c).nap = k
        /\ NextRound(c).visit = failed.visit
        /\ NextRound(c).stopped = failed.stopped
        /\ NextRound(c).ws = failed.ws /\ NextRound(c).quiet = failed.quiet
    BY <1>3, <2>3 DEF Closure
  <2> QED BY <1>6, <1>7, <2>3, <2>4
<1> QED BY <1>4, <1>5, <1>6 DEF Closure

\* What closeActive leaves of the supervisors.
LEMMA ClosingClosures ==
    ASSUME ReconnectInv
    PROVE  /\ Closing \in [Sup -> Closure]
           /\ \A s \in Sup :
                /\ Closing[s].at # "none" => Closing[s].visit \in 1..visit
                /\ Closing[s].at = "none" => Closing[s] = NoSup
                /\ Closing[s].at = "nap" => Closing[s].nap <= Closing[s].left
<1> SUFFICES ASSUME NEW s \in Sup
             PROVE  /\ Closing[s] \in Closure
                    /\ Closing[s].at # "none" => Closing[s].visit \in 1..visit
                    /\ Closing[s].at = "none" => Closing[s] = NoSup
                    /\ Closing[s].at = "nap" => Closing[s].nap <= Closing[s].left
    BY DEF Closing
<1> DEFINE c == IF s = Current THEN Stopped(sup[s]) ELSE sup[s]
<1>1. Closing[s] = IF s = active /\ c.ws = "open" THEN [c EXCEPT !.ws = "closing"] ELSE c
    BY DEF Closing
<1>2. sup[s] \in Closure /\ ClosureFits(s)
    BY DEF ReconnectInv, ReconnectTypeOK
<1>3. c \in Closure
    BY <1>2, StoppedClosure
<1>4. /\ c.at # "none" => c.visit \in 1..visit
      /\ c.at = "none" => c = NoSup
      /\ c.at = "nap" => c.nap <= c.left
  <2>1. CASE s = Current
    <3>1. sup[s].at # "none"
      BY <2>1, ReconnectAssumption DEF ReconnectInv, CurrentAlive
    <3>2. c = Stopped(sup[s])
      BY <2>1
    <3>3. c = NoSup => c.at = "none" /\ c.ws = "none"
      BY DEF NoSup
    <3> QED BY <1>2, <3>1, <3>2, <3>3, StoppedClosure DEF ClosureFits
  <2>2. CASE s # Current
    BY <2>2, <1>2 DEF ClosureFits
  <2> QED BY <2>1, <2>2
<1>5. NoSup.ws # "open"
    BY DEF NoSup
<1> HIDE DEF c
<1> QED BY <1>1, <1>3, <1>4, <1>5 DEF Closure

-----------------------------------------------------------------------------
(* Types, for a user who may leave at any time                             *)

Badge == {"connecting", "connected", "reconnecting", "gave-up", "disconnected"}

LEMMA ReconnectInitInv == ReconnectInit => ReconnectInv
<1> SUFFICES ASSUME ReconnectInit PROVE ReconnectInv
    OBVIOUS
<1>1. NoSup.at = "none" /\ NoSup.ws = "none"
    BY DEF NoSup
<1> QED BY <1>1, NoSupType, ReconnectAssumption
        DEF ReconnectInit, ReconnectInv, ReconnectTypeOK, ClosureFits,
            CurrentAlive, Current, Visit, None

\* A step of one loop that leaves page and bridges alone.
LEMMA OneClosure ==
    ASSUME ReconnectInv, NEW s \in Sup, NEW c \in Closure,
           sup' = [sup EXCEPT ![s] = c],
           UNCHANGED <<visit, onPage, asks, activeSup>>,
           shown' \in Badge, active' \in {None} \cup Sup,
           c.at # "none" => c.visit \in 1..visit,
           c.at = "none" => c = NoSup,
           c.at = "nap" => c.nap <= c.left,
           s = Current => /\ c.at # "none" /\ c.visit = visit
                          /\ ~c.stopped /\ c.ws # "closing"
    PROVE  ReconnectInv'
<1>1. sup' \in [Sup -> Closure] /\ \A r \in Sup : sup'[r] = IF r = s THEN c ELSE sup[r]
    BY DEF ReconnectInv, ReconnectTypeOK
<1>2. Current' = Current
    BY DEF Current
<1>3. Current # None => Current \in Sup
    BY DEF Current, ReconnectInv, ReconnectTypeOK
<1>4. ReconnectTypeOK'
    BY <1>1 DEF ReconnectInv, ReconnectTypeOK, Badge
<1>5. \A r \in Sup : ClosureFits(r)'
    BY <1>1 DEF ReconnectInv, ClosureFits
<1>6. CurrentAlive'
    BY <1>1, <1>2, <1>3 DEF ReconnectInv, CurrentAlive
<1> QED BY <1>4, <1>5, <1>6 DEF ReconnectInv

\* What is known of a closure before its loop goes on.
LEMMA ClosureBefore ==
    ASSUME ReconnectInv, NEW s \in Sup
    PROVE  /\ sup[s] \in Closure /\ ClosureFits(s)
           /\ s = Current => /\ sup[s].visit = visit /\ ~sup[s].stopped
                             /\ sup[s].at # "none" /\ sup[s].ws # "closing"
           /\ shown \in Badge /\ active \in {None} \cup Sup
    BY ReconnectAssumption DEF ReconnectInv, ReconnectTypeOK, CurrentAlive, Badge

LEMMA FailedStep ==
    ASSUME ReconnectInv, NEW s \in Sup, sup[s].at \in {"token", "dial", "close"},
           Failed(s)
    PROVE  ReconnectInv'
<1> DEFINE c == NextRound(sup[s])
<1>1. sup' = [sup EXCEPT ![s] = c] /\ UNCHANGED <<visit, onPage, asks, activeSup>>
    BY DEF Failed
<1>2. shown' \in Badge /\ active' \in {None} \cup Sup
    BY ClosureBefore DEF Failed, Show, Badge
<1>3. c \in Closure /\ (c = NoSup => c.at = "none" /\ c.ws = "none")
    BY ClosureBefore, NextRoundClosure DEF NoSup
<1>4. /\ c.at # "none" => c.visit \in 1..visit
      /\ c.at = "none" => c = NoSup
      /\ c.at = "nap" => c.nap <= c.left
  <2>1. CASE sup[s].stopped
    BY <2>1, <1>3, ClosureBefore, NextRoundClosure
  <2>2. CASE ~sup[s].stopped
    BY <2>2, <1>3, ClosureBefore, NextRoundClosure DEF ClosureFits
  <2> QED BY <2>1, <2>2
<1>5. s = Current => c.at # "none" /\ c.visit = visit /\ ~c.stopped /\ c.ws # "closing"
    BY ClosureBefore, NextRoundClosure
<1> HIDE DEF c
<1> QED BY <1>1, <1>2, <1>3, <1>4, <1>5, OneClosure

LEMMA LoopTypes ==
    ASSUME ReconnectInv, NEW s \in Sup, Loop(s) \/ Lost(s) \/ Shut(s)
    PROVE  ReconnectInv'
<1> USE ClosureBefore
<1>1. CASE Woken(s)
  <2>1. CASE sup[s].left = 0
    <3> DEFINE c == [sup[s] EXCEPT !.at = "over"]
    <3>1. /\ c \in Closure /\ c.at = "over" /\ c.visit = sup[s].visit
          /\ c.stopped = sup[s].stopped /\ c.ws = sup[s].ws
      BY DEF Closure
    <3>2. sup' = [sup EXCEPT ![s] = c] /\ shown' \in Badge
      BY <1>1, <2>1 DEF Woken, Show, Badge
    <3> HIDE DEF c
    <3> QED BY <1>1, <3>1, <3>2, OneClosure DEF Woken, ClosureFits
  <2>2. CASE sup[s].left # 0
    <3> DEFINE c == [sup[s] EXCEPT !.at = "token"]
    <3>1. /\ c \in Closure /\ c.at = "token" /\ c.visit = sup[s].visit
          /\ c.stopped = sup[s].stopped /\ c.ws = sup[s].ws
      BY DEF Closure
    <3>2. sup' = [sup EXCEPT ![s] = c] /\ shown' \in Badge
      BY <1>1, <2>2 DEF Woken
    <3> HIDE DEF c
    <3> QED BY <1>1, <3>1, <3>2, OneClosure DEF Woken, ClosureFits
  <2> QED BY <2>1, <2>2
<1>2. CASE TokenRenewed(s)
  <2> DEFINE c == [sup[s] EXCEPT !.at = "dial", !.ws = "dialling"]
  <2>1. /\ c \in Closure /\ c.at = "dial" /\ c.visit = sup[s].visit
        /\ c.stopped = sup[s].stopped /\ c.ws = "dialling"
    BY DEF Closure
  <2>2. sup' = [sup EXCEPT ![s] = c]
        /\ UNCHANGED <<visit, onPage, asks, activeSup, shown, active>>
    BY <1>2 DEF TokenRenewed
  <2>3. c.visit \in 1..visit
    BY <1>2, <2>1 DEF TokenRenewed, ClosureFits
  <2>4. shown' \in Badge /\ active' \in {None} \cup Sup
    BY <2>2
  <2> HIDE DEF c
  <2> QED BY <2>1, <2>2, <2>3, <2>4, OneClosure
<1>3. CASE TokenFailed(s) \/ DialFailed(s) \/ Lost(s)
    BY <1>3, FailedStep DEF TokenFailed, DialFailed, Lost
<1>4. CASE Open(s)
  <2>1. shown' \in Badge /\ active' \in {None} \cup Sup
    BY <1>4 DEF Open, Show, Badge
  <2>2. sup' = [sup EXCEPT ![s] = Opened(sup[s])]
        /\ UNCHANGED <<visit, onPage, asks, activeSup>>
    BY <1>4 DEF Open
  <2>3. sup[s].at = "dial"
    BY <1>4 DEF Open
  <2> QED BY <2>1, <2>2, <2>3, OpenedClosure, OneClosure DEF ClosureFits
<1>5. CASE Shut(s)
  <2>1. NoSup.at = "none" /\ NoSup.ws = "none"
    BY DEF NoSup
  <2>2. s # Current
    BY <1>5 DEF Shut
  <2> QED BY <1>5, <2>1, <2>2, NoSupType, OneClosure DEF Shut
<1> QED BY <1>1, <1>2, <1>3, <1>4, <1>5 DEF Loop

\* What a new supervisor of the page's bridge starts with.
LEMMA SetSessionTypes ==
    ASSUME ReconnectInv, NEW v \in Visit, visit \in Visit, v <= visit, SetSession(v),
           UNCHANGED <<visit, onPage>>, asks' \subseteq asks
    PROVE  ReconnectInv'
<1>1. PICK s \in Free :
        /\ sup' = [Closing EXCEPT ![s] =
              [NoSup EXCEPT !.at = "dial", !.ws = "dialling",
                            !.visit = visit, !.session = v]]
        /\ activeSup' = [activeSup EXCEPT ![visit] = s] /\ active' = None
        /\ shown' = "connecting"
    BY DEF SetSession
<1> DEFINE c == [NoSup EXCEPT !.at = "dial", !.ws = "dialling",
                              !.visit = visit, !.session = v]
<1>2. /\ c \in Closure /\ c.at = "dial" /\ c.visit = visit
      /\ c.ws = "dialling" /\ ~c.stopped
    BY NoSupType DEF NoSup, Closure
<1>3. sup' = [Closing EXCEPT ![s] = c] /\ s \in Sup
    BY <1>1 DEF Free
<1> HIDE DEF c
<1>4. sup' \in [Sup -> Closure] /\ \A r \in Sup : sup'[r] = IF r = s THEN c ELSE Closing[r]
    BY <1>2, <1>3, ClosingClosures
<1>5. activeSup' \in [Visit -> {None} \cup Sup] /\ Current' = s
    BY <1>1, <1>3, ReconnectAssumption DEF Current, ReconnectInv, ReconnectTypeOK, Visit, None
<1>6. \A r \in Sup : ClosureFits(r)'
    BY <1>2, <1>4, ClosingClosures DEF ClosureFits, Visit
<1>7. ReconnectTypeOK'
    BY <1>1, <1>4, <1>5, <1>6 DEF ReconnectInv, ReconnectTypeOK, ClosureFits
<1>8. CurrentAlive'
  <2>1. \A w \in Visit : w > visit => activeSup'[w] = None
    BY <1>1 DEF ReconnectInv, CurrentAlive, ReconnectTypeOK, Visit
  <2>2. visit # None /\ \A a \in asks' : a.visit <= visit
    BY DEF ReconnectInv, CurrentAlive, Visit, None
  <2>3. /\ sup'[Current'].at # "none" /\ sup'[Current'].visit = visit
        /\ ~sup'[Current'].stopped /\ sup'[Current'].ws # "closing"
    BY <1>2, <1>3, <1>4, <1>5
  <2> QED BY <2>1, <2>2, <2>3 DEF CurrentAlive
<1> QED BY <1>6, <1>7, <1>8 DEF ReconnectInv

LEMMA CloseTypes ==
    ASSUME ReconnectInv, visit \in Visit, CloseSession,
           UNCHANGED visit, onPage' = FALSE, asks' \subseteq asks
    PROVE  ReconnectInv'
<1>1. sup' = Closing /\ active' = None /\ shown' = "disconnected"
      /\ activeSup' = [activeSup EXCEPT ![visit] = None]
    BY DEF CloseSession
<1>2. \A r \in Sup : ClosureFits(r)'
    BY <1>1, ClosingClosures DEF ClosureFits
<1>3. ReconnectTypeOK'
    BY <1>1, <1>2, ClosingClosures DEF ReconnectInv, ReconnectTypeOK, ClosureFits
<1>4. Current' = None
    BY <1>1 DEF Current, ReconnectInv, ReconnectTypeOK, Visit, None
<1>5. CurrentAlive'
    BY <1>1, <1>4 DEF ReconnectInv, CurrentAlive, ReconnectTypeOK, Visit, None
<1> QED BY <1>2, <1>3, <1>5 DEF ReconnectInv

\* Time passes for everybody who is alive.
Older(c) ==
    [c EXCEPT !.left = IF @ \in {0, NoDeadline} THEN @ ELSE @ - 1,
              !.nap = IF @ = 0 THEN 0 ELSE @ - 1,
              !.quiet = Smaller(@ + 1, GiveUpAfter)]

LEMMA OlderClosure ==
    ASSUME NEW c \in Closure, c.at = "nap" => c.nap <= c.left
    PROVE  /\ Older(c) \in Closure
           /\ Older(c).at = c.at /\ Older(c).ws = c.ws
           /\ Older(c).visit = c.visit /\ Older(c).stopped = c.stopped
           /\ Older(c).left = IF c.left \in {0, NoDeadline} THEN c.left ELSE c.left - 1
           /\ Older(c).quiet = Smaller(c.quiet + 1, GiveUpAfter)
           /\ c.at = "nap" => Older(c).nap <= Older(c).left
<1>1. GiveUpAfter \in Nat /\ NoDeadline = GiveUpAfter + 1
    BY ReconnectAssumption DEF NoDeadline
<1>2. c.left \in 0..NoDeadline /\ c.nap \in Nat /\ c.quiet \in 0..GiveUpAfter
    BY DEF Closure
<1>3. /\ (IF c.left \in {0, NoDeadline} THEN c.left ELSE c.left - 1) \in 0..NoDeadline
      /\ (IF c.nap = 0 THEN 0 ELSE c.nap - 1) \in Nat
      /\ Smaller(c.quiet + 1, GiveUpAfter) \in 0..GiveUpAfter
    BY <1>1, <1>2 DEF Smaller
<1>4. Older(c) \in Closure
    BY <1>3 DEF Older, Closure
<1>5. /\ Older(c).at = c.at /\ Older(c).ws = c.ws
      /\ Older(c).visit = c.visit /\ Older(c).stopped = c.stopped
      /\ Older(c).left = IF c.left \in {0, NoDeadline} THEN c.left ELSE c.left - 1
      /\ Older(c).quiet = Smaller(c.quiet + 1, GiveUpAfter)
      /\ Older(c).nap = IF c.nap = 0 THEN 0 ELSE c.nap - 1
    BY DEF Older, Closure
<1>6. c.at = "nap" => Older(c).nap <= Older(c).left
    BY <1>1, <1>2, <1>5
<1> QED BY <1>4, <1>5, <1>6

LEMMA TickTypes ==
    ASSUME ReconnectInv, Tick
    PROVE  ReconnectInv'
<1>1. sup' = [s \in Sup |-> IF s \in Free THEN sup[s] ELSE Older(sup[s])]
    BY DEF Tick, Older
<1>2. \A s \in Sup : /\ sup'[s] \in Closure /\ sup'[s].at = sup[s].at
                     /\ sup'[s].ws = sup[s].ws /\ sup'[s].visit = sup[s].visit
                     /\ sup'[s].stopped = sup[s].stopped
                     /\ sup[s].at = "none" => sup'[s] = sup[s]
                     /\ sup'[s].at = "nap" => sup'[s].nap <= sup'[s].left
  <2> SUFFICES ASSUME NEW s \in Sup
               PROVE  /\ sup'[s] \in Closure /\ sup'[s].at = sup[s].at
                      /\ sup'[s].ws = sup[s].ws /\ sup'[s].visit = sup[s].visit
                      /\ sup'[s].stopped = sup[s].stopped
                      /\ sup[s].at = "none" => sup'[s] = sup[s]
                      /\ sup'[s].at = "nap" => sup'[s].nap <= sup'[s].left
      OBVIOUS
  <2>1. sup'[s] = IF sup[s].at = "none" THEN sup[s] ELSE Older(sup[s])
    BY <1>1 DEF Free
  <2> QED BY <2>1, OlderClosure, ClosureBefore DEF ClosureFits
<1>3. UNCHANGED <<visit, onPage, shown, asks, activeSup, active>> /\ Current' = Current
    BY DEF Tick, Current
<1>4. \A r \in Sup : ClosureFits(r)'
    BY <1>2, <1>3 DEF ReconnectInv, ClosureFits
<1>5. sup' \in [Sup -> Closure]
    BY <1>1, <1>2
<1>6. ReconnectTypeOK'
    BY <1>2, <1>3, <1>5 DEF ReconnectInv, ReconnectTypeOK
<1>7. Current # None => Current \in Sup
    BY DEF Current, ReconnectInv, ReconnectTypeOK
<1>8. CurrentAlive'
    BY <1>2, <1>3, <1>7 DEF ReconnectInv, CurrentAlive
<1> QED BY <1>4, <1>6, <1>8 DEF ReconnectInv

LEMMA PageTypes ==
    ASSUME ReconnectInv,
           Mount \/ TabShown \/ Leave \/ RetryRelay \/ NewDocument
    PROVE  ReconnectInv'
<1>1. CASE Mount
  <2>1. visit + 1 \in Visit /\ visit' = visit + 1 /\ visit \in Nat
    BY <1>1, ReconnectAssumption DEF Mount, Visit, ReconnectInv, ReconnectTypeOK, None
  <2>2. asks' = asks \cup {[visit |-> visit + 1, redirect |-> TRUE]}
    BY <1>1 DEF Mount, Ask
  <2>10. [visit |-> visit + 1, redirect |-> TRUE] \in [visit: Visit, redirect: BOOLEAN]
    BY <2>1
  <2>9. asks' \subseteq [visit: Visit, redirect: BOOLEAN]
    BY <2>2, <2>10 DEF ReconnectInv, ReconnectTypeOK
  <2>3. ReconnectTypeOK'
    BY <1>1, <2>1, <2>9 DEF Mount, ReconnectInv, ReconnectTypeOK
  <2>4. \A s \in Sup : ClosureFits(s)'
    BY <1>1, <2>1 DEF Mount, ReconnectInv, ClosureFits
  <2>5. Current' = None
    BY <1>1, <2>1 DEF Mount, Current, ReconnectInv, CurrentAlive, None
  <2>6. \A a \in asks' : a.visit <= visit'
    BY <2>1, <2>2 DEF ReconnectInv, CurrentAlive, ReconnectTypeOK, Visit
  <2>7. \A v \in Visit : v > visit' => activeSup'[v] = None
    BY <1>1, <2>1 DEF Mount, ReconnectInv, CurrentAlive, Visit
  <2>8. CurrentAlive'
    BY <2>1, <2>5, <2>6, <2>7 DEF CurrentAlive, None
  <2> QED BY <2>3, <2>4, <2>8 DEF ReconnectInv
<1>2. CASE TabShown
  <2>1. asks' = asks \cup {[visit |-> visit, redirect |-> FALSE]}
        /\ UNCHANGED <<visit, onPage, shown, activeSup, active, sup>> /\ onPage
    BY <1>2 DEF TabShown, Ask
  <2>2. visit \in Visit
    BY <2>1 DEF ReconnectInv, ReconnectTypeOK, CurrentAlive
  <2>9. [visit |-> visit, redirect |-> FALSE] \in [visit: Visit, redirect: BOOLEAN]
    BY <2>2
  <2>3. asks' \subseteq [visit: Visit, redirect: BOOLEAN]
    BY <2>1, <2>9 DEF ReconnectInv, ReconnectTypeOK
  <2>4. ReconnectTypeOK' /\ \A s \in Sup : ClosureFits(s)'
    BY <2>1, <2>2, <2>3 DEF ReconnectInv, ReconnectTypeOK, ClosureFits
  <2>5. CurrentAlive'
    BY <2>1, <2>2 DEF ReconnectInv, CurrentAlive, Current, Visit, None
  <2> QED BY <2>4, <2>5 DEF ReconnectInv
<1>3. CASE Leave
    BY <1>3, CloseTypes DEF Leave, ReconnectInv, ReconnectTypeOK, CurrentAlive
<1>4. CASE RetryRelay
  <2> DEFINE c == [sup[Current] EXCEPT !.at = "token", !.attempt = 0,
                                       !.left = NoDeadline, !.quiet = 0]
  <2>1. Current \in Sup /\ sup[Current] \in Closure /\ ClosureFits(Current)
        /\ ~sup[Current].stopped /\ sup[Current].ws # "closing"
        /\ sup[Current].visit = visit /\ visit \in Visit
    BY <1>4 DEF RetryRelay, Current, ReconnectInv, ReconnectTypeOK, CurrentAlive
  <2>2. NoDeadline \in 0..NoDeadline /\ 0 \in 0..GiveUpAfter
    BY ReconnectAssumption DEF NoDeadline
  <2>3. /\ c \in Closure /\ c.at = "token" /\ c.visit = visit
        /\ c.ws = sup[Current].ws /\ ~c.stopped
    BY <2>1, <2>2 DEF Closure, None
  <2>4. sup' = [sup EXCEPT ![Current] = c]
        /\ UNCHANGED <<visit, onPage, asks, activeSup, active>>
    BY <1>4 DEF RetryRelay
  <2>5. shown' \in Badge /\ active' \in {None} \cup Sup
    BY <1>4, <2>1, <2>4, ClosureBefore DEF RetryRelay, Show, Badge
  <2>6. c.visit \in 1..visit
    BY <2>1, <2>3 DEF Visit
  <2> HIDE DEF c
  <2> QED BY <2>1, <2>3, <2>4, <2>5, <2>6, OneClosure
<1>5. CASE NewDocument
  <2>1. NoSup.at = "none" /\ NoSup.ws = "none"
    BY DEF NoSup
  <2>2. ReconnectTypeOK'
    BY <1>5, <2>1, NoSupType DEF NewDocument, ReconnectInv, ReconnectTypeOK
  <2>3. \A s \in Sup : ClosureFits(s)'
    BY <1>5, <2>1 DEF NewDocument, ClosureFits
  <2>4. CurrentAlive'
    BY <1>5 DEF NewDocument, ReconnectInv, ReconnectTypeOK, CurrentAlive, Current, None
  <2> QED BY <2>2, <2>3, <2>4 DEF ReconnectInv
<1> QED BY <1>1, <1>2, <1>3, <1>4, <1>5

LEMMA AnsweredTypes ==
    ASSUME ReconnectInv, NEW a \in Call, Answered(a)
    PROVE  ReconnectInv'
<1>1. a \in asks /\ asks' \subseteq asks /\ UNCHANGED visit
    BY DEF Answered, TokenCame, NoTokenCame
<1>2. visit \in Visit /\ a.visit \in Visit /\ a.visit <= visit
    BY <1>1 DEF ReconnectInv, ReconnectTypeOK, CurrentAlive
<1>3. CASE TokenCame(a)
    BY <1>1, <1>2, <1>3, SetSessionTypes DEF TokenCame
<1>4. CASE NoTokenCame(a)
  <2>1. CASE a.redirect /\ onPage
    BY <1>1, <1>2, <1>4, <2>1, CloseTypes DEF NoTokenCame
  <2>2. CASE ~(a.redirect /\ onPage)
    <3>1. UNCHANGED <<visit, onPage, shown, activeSup, active, sup>>
      BY <1>4, <2>2 DEF NoTokenCame
    <3> QED BY <1>1, <3>1
            DEF ReconnectInv, ReconnectTypeOK, ClosureFits, CurrentAlive, Current
  <2> QED BY <2>1, <2>2
<1> QED BY <1>3, <1>4 DEF Answered

LEMMA ReconnectStutter ==
    ASSUME ReconnectInv, UNCHANGED reconnectVars
    PROVE  ReconnectInv'
    BY DEF reconnectVars, ReconnectInv, ReconnectTypeOK, ClosureFits, CurrentAlive, Current

LEMMA ReconnectStep ==
    ASSUME ReconnectInv, [ReconnectNext]_reconnectVars
    PROVE  ReconnectInv'
    BY TickTypes, LoopTypes, AnsweredTypes, PageTypes, ReconnectStutter
       DEF ReconnectNext

\* Type correctness: a closure is never in a state its code has no case for,
\* its attempt number always has a back-off, and no sleep goes past the
\* deadline (reconnect.ts: the clamp).
THEOREM ReconnectTypes == ReconnectSpec => []ReconnectTypeOK
<1>1. ReconnectInit => ReconnectInv
    BY ReconnectInitInv
<1>2. ReconnectInv /\ [ReconnectNext]_reconnectVars => ReconnectInv'
    BY ReconnectStep
<1>3. ReconnectInv => ReconnectTypeOK
    BY DEF ReconnectInv
<1> QED BY <1>1, <1>2, <1>3, PTL DEF ReconnectSpec

-----------------------------------------------------------------------------
(* What the page shows, for a user who waits for the token                 *)

\* Badge p tells what loop c of the page is doing, and by the time the deadline
\* has come the loop has been without a connection for all of GiveUpAfter.
ShownFits(c, p) ==
    /\ c.at \in {"nap", "token"} => p = "reconnecting" /\ c.ws = "none"
    /\ c.at = "dial" => p \in {"connecting", "reconnecting"} /\ c.ws = "dialling"
    /\ c.at = "close" => p = "connected" /\ c.ws = "open" /\ c.left = NoDeadline
    /\ c.at = "over" => p = "gave-up" /\ c.ws = "none" /\ c.left = 0
    /\ c.left # NoDeadline => p # "connecting" /\ c.quiet + c.left >= GiveUpAfter

\* No bridge but the page's has a supervisor, and whoever waits for a token
\* waits for this visit.
PageFits ==
    /\ ~onPage => asks = {}
    /\ \A a \in asks : a.visit = visit
    /\ \A a \in asks : a.redirect => asks = {a} /\ Current = None
    /\ \A v \in Visit : activeSup[v] # None => onPage /\ v = visit
    /\ onPage /\ Current = None => shown = "connecting"
    /\ Current # None => ShownFits(sup[Current], shown)

PageInv == ReconnectInv /\ PageFits

PhaseStep == [Phases!PhaseNext]_(Phases!phaseVars)

LEMMA PageInitInv ==
    ASSUME ReconnectInit PROVE PageFits /\ Phases!PhaseInit
    BY DEF ReconnectInit, PageFits, Current, Phases!PhaseInit, Visit, None

\* A badge that stays, over a loop whose WebSocket stays, is a stutter.
LEMMA PhaseStutter ==
    ASSUME UNCHANGED <<onPage, shown, Current>>,
           Current # None => sup'[Current].ws = sup[Current].ws
    PROVE  PhaseStep
    BY DEF PhaseStep, Phases!phaseVars

LEMMA OnlyCurrentSpeaks ==
    ASSUME PageInv, NEW s \in Sup, sup[s].at # "none"
    PROVE  activeSup[sup[s].visit] = s <=> s = Current
<1>1. sup[s].visit \in Visit /\ s # None
    BY ReconnectAssumption
       DEF PageInv, ReconnectInv, ReconnectTypeOK, ClosureFits, Visit, None
<1>2. ASSUME activeSup[sup[s].visit] = s PROVE s = Current
    BY <1>1, <1>2 DEF PageInv, PageFits, Current, Visit, None
<1>3. ASSUME s = Current PROVE activeSup[sup[s].visit] = s
    BY <1>1, <1>3 DEF PageInv, ReconnectInv, CurrentAlive, Current
<1> QED BY <1>2, <1>3

LEMMA CurrentOnPage ==
    ASSUME PageInv, Current # None
    PROVE  onPage /\ visit \in Visit /\ Current \in Sup
           /\ sup[Current] \in Closure /\ sup[Current].at # "none"
           /\ ~sup[Current].stopped
    BY DEF PageInv, PageFits, ReconnectInv, ReconnectTypeOK, CurrentAlive, Current

\* A step of one loop: if it is the page's, the new badge has to fit.
LEMMA OneLoopPage ==
    ASSUME PageInv, NEW s \in Sup, NEW c, sup' = [sup EXCEPT ![s] = c],
           UNCHANGED <<visit, onPage, asks, activeSup>>,
           s # Current => shown' = shown,
           s = Current => ShownFits(c, shown')
    PROVE  PageFits'
<1>1. \A r \in Sup : sup'[r] = IF r = s THEN c ELSE sup[r]
    BY DEF PageInv, ReconnectInv, ReconnectTypeOK
<1>2. Current' = Current
    BY DEF Current
<1>3. Current # None => ShownFits(sup'[Current], shown')
    BY <1>1, CurrentOnPage DEF PageInv, PageFits
<1>4. onPage /\ Current = None => shown' = "connecting"
    BY ReconnectAssumption DEF PageInv, PageFits
<1> QED BY <1>2, <1>3, <1>4 DEF PageInv, PageFits

\* A loop that is not the page's leaves no trace there.
LEMMA OtherLoopPage ==
    ASSUME PageInv, NEW s \in Sup, s # Current, Loop(s) \/ Lost(s) \/ Shut(s)
    PROVE  PageFits' /\ PhaseStep
<1>1. PICK c : sup' = [sup EXCEPT ![s] = c]
    BY DEF Loop, Lost, Shut, Failed, Woken, TokenRenewed, TokenFailed, Open, DialFailed
<1>2. UNCHANGED <<visit, onPage, asks, activeSup>>
    BY DEF Loop, Lost, Shut, Failed, Woken, TokenRenewed, TokenFailed, Open, DialFailed
<1>3. shown' = shown
    BY OnlyCurrentSpeaks
       DEF Loop, Lost, Shut, Failed, Woken, TokenRenewed, TokenFailed, Open, DialFailed, Show
<1>4. Current' = Current
    BY <1>2 DEF Current
<1>5. Current # None => sup'[Current] = sup[Current]
    BY <1>1, CurrentOnPage DEF PageInv, ReconnectInv, ReconnectTypeOK
<1> QED BY <1>1, <1>2, <1>3, <1>4, <1>5, OneLoopPage, PhaseStutter

\* The abstract steps, in terms of the page's badge and loop.
LEMMA PhaseMoves ==
    ASSUME PageInv, Current # None, NEW c, NEW p,
           sup' = [sup EXCEPT ![Current] = c], shown' = p,
           UNCHANGED <<visit, onPage, asks, activeSup>>,
           \/ /\ shown \in {"connecting", "reconnecting"} /\ sup[Current].ws # "open"
              /\ p = "connected" /\ c.ws = "open"
           \/ /\ shown \in {"connecting", "connected", "reconnecting"}
              /\ p = "reconnecting" /\ c.ws # "open"
           \/ /\ shown = "reconnecting" /\ p = "gave-up"
              /\ sup[Current].ws # "open" /\ c.ws # "open"
           \/ /\ shown = "gave-up" /\ p = "reconnecting"
              /\ sup[Current].ws # "open" /\ c.ws # "open"
           \/ shown = p /\ c.ws = sup[Current].ws
    PROVE  PhaseStep
<1>1. Current' = Current /\ onPage /\ sup'[Current] = c
    BY CurrentOnPage DEF Current, PageInv, ReconnectInv, ReconnectTypeOK
<1> QED BY <1>1
        DEF PhaseStep, Phases!PhaseNext, Phases!phaseVars, Phases!Connected,
            Phases!Dropped, Phases!GiveUp, Phases!Retry

LEMMA CurrentFailed ==
    ASSUME PageInv, Current # None, Failed(Current),
           sup[Current].at \in {"token", "dial"}
             \/ (sup[Current].at = "close" /\ sup[Current].ws = "open")
    PROVE  PageFits' /\ PhaseStep
<1> DEFINE c == sup[Current]
           next == NextRound(c)
<1>1. c \in Closure /\ ~c.stopped /\ c.at # "none" /\ Current \in Sup
    BY CurrentOnPage
<1>2. ShownFits(c, shown)
    BY DEF PageInv, PageFits
<1>3. sup' = [sup EXCEPT ![Current] = next]
      /\ shown' = (IF c.left = 0 THEN "gave-up" ELSE "reconnecting")
      /\ UNCHANGED <<visit, onPage, asks, activeSup>>
    BY <1>1, OnlyCurrentSpeaks DEF Failed, Show
<1>4. GiveUpAfter \in Nat \ {0} /\ NoDeadline = GiveUpAfter + 1
      /\ c.left \in 0..NoDeadline /\ c.quiet \in 0..GiveUpAfter
    BY <1>1, ReconnectAssumption DEF Closure, NoDeadline
<1>5. /\ next.ws = "none" /\ next.quiet = c.quiet
      /\ c.left = 0 => next.at = "over" /\ next.left = 0
      /\ c.left # 0 => next.at = "nap" /\ next.left = Deadline(c)
    BY <1>1, NextRoundClosure
<1>6. c.left = 0 => shown = "reconnecting" /\ c.ws # "open"
    BY <1>2, <1>4 DEF ShownFits
<1>7. shown \in {"connecting", "connected", "reconnecting"}
    BY <1>2 DEF ShownFits
<1> HIDE DEF next
<1>8. ShownFits(next, shown')
  <2>1. CASE c.left = 0
    BY <1>2, <1>3, <1>4, <1>5, <2>1 DEF ShownFits
  <2>2. CASE c.left # 0
    BY <1>2, <1>3, <1>4, <1>5, <2>2 DEF ShownFits, Deadline
  <2> QED BY <2>1, <2>2
<1>9. PageFits'
    BY <1>1, <1>3, <1>8, OneLoopPage
<1>10. PhaseStep
    BY <1>3, <1>5, <1>6, <1>7, PhaseMoves
<1> QED BY <1>9, <1>10

LEMMA CurrentLoopPage ==
    ASSUME PageInv, Current # None, Loop(Current) \/ Lost(Current) \/ Shut(Current)
    PROVE  PageFits' /\ PhaseStep
<1> DEFINE c == sup[Current]
<1>1. c \in Closure /\ ~c.stopped /\ c.at # "none" /\ Current \in Sup
      /\ c.ws # "closing"
    BY CurrentOnPage DEF PageInv, ReconnectInv, CurrentAlive
<1>2. ShownFits(c, shown)
    BY DEF PageInv, PageFits
<1>3. activeSup[c.visit] = Current
    BY <1>1, OnlyCurrentSpeaks
<1>4. CASE Woken(Current)
  <2>1. CASE c.left = 0
    <3> DEFINE next == [c EXCEPT !.at = "over"]
    <3>1. next.at = "over" /\ next.ws = c.ws /\ next.left = c.left
          /\ next.quiet = c.quiet
      BY <1>1 DEF Closure
    <3>2. sup' = [sup EXCEPT ![Current] = next] /\ shown' = "gave-up"
          /\ UNCHANGED <<visit, onPage, asks, activeSup>> /\ c.at = "nap"
      BY <1>3, <1>4, <2>1 DEF Woken, Show
    <3>3. ShownFits(next, shown')
      BY <1>2, <2>1, <3>1, <3>2 DEF ShownFits
    <3>4. shown = "reconnecting" /\ c.ws = "none"
      BY <1>2, <3>2 DEF ShownFits
    <3> HIDE DEF next
    <3> QED BY <1>1, <3>1, <3>2, <3>3, <3>4, OneLoopPage, PhaseMoves
  <2>2. CASE c.left # 0
    <3> DEFINE next == [c EXCEPT !.at = "token"]
    <3>1. next.at = "token" /\ next.ws = c.ws /\ next.left = c.left
          /\ next.quiet = c.quiet
      BY <1>1 DEF Closure
    <3>2. sup' = [sup EXCEPT ![Current] = next] /\ shown' = shown
          /\ UNCHANGED <<visit, onPage, asks, activeSup>> /\ c.at = "nap"
      BY <1>4, <2>2 DEF Woken
    <3>3. ShownFits(next, shown')
      BY <1>2, <3>1, <3>2 DEF ShownFits
    <3> HIDE DEF next
    <3> QED BY <1>1, <3>1, <3>2, <3>3, OneLoopPage, PhaseMoves
  <2> QED BY <2>1, <2>2
<1>5. CASE TokenRenewed(Current)
  <2> DEFINE next == [c EXCEPT !.at = "dial", !.ws = "dialling"]
  <2>1. next.at = "dial" /\ next.ws = "dialling" /\ next.left = c.left
        /\ next.quiet = c.quiet
    BY <1>1 DEF Closure
  <2>2. sup' = [sup EXCEPT ![Current] = next] /\ shown' = shown
        /\ UNCHANGED <<visit, onPage, asks, activeSup>> /\ c.at = "token"
    BY <1>5 DEF TokenRenewed
  <2>3. ShownFits(next, shown') /\ shown = "reconnecting"
    BY <1>2, <2>1, <2>2 DEF ShownFits
  <2> HIDE DEF next
  <2> QED BY <1>1, <2>1, <2>2, <2>3, OneLoopPage, PhaseMoves
<1>6. CASE TokenFailed(Current) \/ DialFailed(Current) \/ Lost(Current)
    BY <1>6, CurrentFailed DEF TokenFailed, DialFailed, Lost
<1>7. CASE Open(Current)
  <2>1. sup' = [sup EXCEPT ![Current] = Opened(c)] /\ shown' = "connected"
        /\ UNCHANGED <<visit, onPage, asks, activeSup>>
        /\ c.at = "dial" /\ c.ws = "dialling"
    BY <1>3, <1>7 DEF Open, Show
  <2>2. Opened(c).at = "close" /\ Opened(c).ws = "open" /\ Opened(c).left = NoDeadline
    BY <1>1, OpenedClosure
  <2>3. ShownFits(Opened(c), shown')
    BY <2>1, <2>2 DEF ShownFits
  <2>4. shown \in {"connecting", "reconnecting"}
    BY <1>2, <2>1 DEF ShownFits
  <2> QED BY <1>1, <2>1, <2>2, <2>3, <2>4, OneLoopPage, PhaseMoves
<1>8. CASE Shut(Current)
    BY <1>1, <1>8 DEF Shut
<1> QED BY <1>4, <1>5, <1>6, <1>7, <1>8 DEF Loop

LEMMA TickPage ==
    ASSUME PageInv, Tick
    PROVE  PageFits' /\ PhaseStep
<1>1. UNCHANGED <<visit, onPage, shown, asks, activeSup, active>> /\ Current' = Current
    BY DEF Tick, Current
<1>2. CASE Current = None
    BY <1>1, <1>2, PhaseStutter DEF PageInv, PageFits
<1>3. CASE Current # None
  <2> DEFINE c == sup[Current]
  <2>1. c \in Closure /\ Current \in Sup /\ c.at # "none" /\ ClosureFits(Current)
    BY <1>3, CurrentOnPage DEF PageInv, ReconnectInv
  <2>2. sup'[Current] = Older(c)
    BY <2>1 DEF Tick, Older, Free
  <2>3. /\ Older(c).at = c.at /\ Older(c).ws = c.ws
        /\ Older(c).left = IF c.left \in {0, NoDeadline} THEN c.left ELSE c.left - 1
        /\ Older(c).quiet = Smaller(c.quiet + 1, GiveUpAfter)
    BY <2>1, OlderClosure DEF ClosureFits
  <2>4. ShownFits(c, shown)
    BY <1>3 DEF PageInv, PageFits
  <2>5. GiveUpAfter \in Nat \ {0} /\ NoDeadline = GiveUpAfter + 1
        /\ c.left \in 0..NoDeadline /\ c.quiet \in 0..GiveUpAfter
    BY <2>1, ReconnectAssumption DEF Closure, NoDeadline
  <2>6. ShownFits(Older(c), shown)
    BY <2>3, <2>4, <2>5 DEF ShownFits, Smaller
  <2>7. PageFits'
    BY <1>1, <1>3, <2>2, <2>6 DEF PageInv, PageFits
  <2> QED BY <1>1, <2>2, <2>3, <2>7, PhaseStutter
<1> QED BY <1>2, <1>3

\* Nothing takes the place of what is closed: the page is left.
LEMMA CloseIsDepart ==
    ASSUME PageInv, onPage, onPage' = FALSE, UNCHANGED visit, asks' = {}, CloseSession
    PROVE  PageFits' /\ PhaseStep
<1>1. visit \in Visit /\ activeSup \in [Visit -> {None} \cup Sup]
    BY DEF PageInv, ReconnectInv, ReconnectTypeOK, CurrentAlive
<1>2. \A v \in Visit : activeSup'[v] = None
    BY <1>1 DEF CloseSession, PageInv, PageFits
<1>3. Current' = None
    BY <1>1, <1>2 DEF Current
<1>4. PageFits'
    BY <1>2, <1>3 DEF PageFits
<1>5. PhaseStep
    BY DEF PhaseStep, Phases!PhaseNext, Phases!Depart, PageInv, ReconnectInv, ReconnectTypeOK
<1> QED BY <1>4, <1>5

LEMMA AnsweredPage ==
    ASSUME PageInv, NEW a \in Call, Answered(a)
    PROVE  PageFits' /\ PhaseStep
<1>1. /\ a \in asks /\ asks' = asks \ {a} /\ onPage /\ UNCHANGED visit
      /\ a.visit = visit /\ visit \in Visit
    BY DEF Answered, TokenCame, NoTokenCame, PageInv, PageFits, ReconnectInv,
           CurrentAlive, ReconnectTypeOK
<1>2. CASE TokenCame(a)
  <2>1. PICK s \in Free :
          /\ sup' = [Closing EXCEPT ![s] =
                [NoSup EXCEPT !.at = "dial", !.ws = "dialling",
                              !.visit = visit, !.session = a.visit]]
          /\ activeSup' = [activeSup EXCEPT ![visit] = s] /\ active' = None
          /\ shown' = "connecting" /\ onPage' = onPage
    BY <1>2 DEF TokenCame, SetSession
  <2> DEFINE c == [NoSup EXCEPT !.at = "dial", !.ws = "dialling",
                                !.visit = visit, !.session = a.visit]
  <2>2. c.at = "dial" /\ c.ws = "dialling" /\ c.left = NoDeadline
    BY DEF NoSup
  <2>3. s \in Sup /\ s # None /\ sup' = [Closing EXCEPT ![s] = c]
    BY <2>1, ReconnectAssumption DEF Free
  <2> HIDE DEF c
  <2>4. sup'[s] = c
    BY <2>3 DEF Closing
  <2>5. Current' = s /\ \A v \in Visit : v # visit => activeSup'[v] = None
    BY <1>1, <2>1
       DEF Current, PageInv, PageFits, ReconnectInv, ReconnectTypeOK, Visit, None
  <2>6. \A b \in asks' : ~b.redirect /\ b.visit = visit
    BY <1>1 DEF PageInv, PageFits
  <2>7. ShownFits(c, "connecting")
    BY <2>2 DEF ShownFits
  <2>8. PageFits'
    BY <1>1, <2>1, <2>3, <2>4, <2>5, <2>6, <2>7 DEF PageFits
  <2>9. PhaseStep
    BY <1>1, <2>1, <2>2, <2>4, <2>5
       DEF PhaseStep, Phases!PhaseNext, Phases!Redial, PageInv, ReconnectInv,
           ReconnectTypeOK
  <2> QED BY <2>8, <2>9
<1>3. CASE NoTokenCame(a) /\ a.redirect
  <2>1. asks' = {}
    BY <1>1, <1>3 DEF PageInv, PageFits
  <2> QED BY <1>1, <1>3, <2>1, CloseIsDepart DEF NoTokenCame
<1>4. CASE NoTokenCame(a) /\ ~a.redirect
  <2>1. UNCHANGED <<visit, onPage, shown, activeSup, active, sup>> /\ Current' = Current
    BY <1>4 DEF NoTokenCame, Current
  <2>2. \A b \in asks' : ~b.redirect
    BY <1>1, <1>4 DEF PageInv, PageFits
  <2>3. PageFits'
    BY <1>1, <2>1, <2>2 DEF PageInv, PageFits
  <2> QED BY <2>1, <2>3, PhaseStutter
<1> QED BY <1>2, <1>3, <1>4 DEF Answered

LEMMA PagePage ==
    ASSUME PageInv, Patient,
           Mount \/ TabShown \/ Leave \/ RetryRelay \/ NewDocument
    PROVE  PageFits' /\ PhaseStep
<1>1. CASE Mount
  <2>1. ~onPage /\ asks = {} /\ visit + 1 \in Visit /\ visit' = visit + 1
    BY <1>1, ReconnectAssumption
       DEF Mount, PageInv, PageFits, ReconnectInv, ReconnectTypeOK, Visit, None
  <2>2. asks' = {[visit |-> visit + 1, redirect |-> TRUE]}
    BY <1>1, <2>1 DEF Mount, Ask
  <2>3. \A v \in Visit : activeSup'[v] = None
    BY <1>1, <2>1 DEF Mount, PageInv, PageFits
  <2>4. Current' = None
    BY <2>1, <2>3 DEF Current
  <2>5. PageFits'
    BY <1>1, <2>1, <2>2, <2>3, <2>4 DEF Mount, PageFits
  <2>6. PhaseStep
    BY <1>1, <2>1, <2>4 DEF Mount, PhaseStep, Phases!PhaseNext, Phases!Arrive
  <2> QED BY <2>5, <2>6
<1>2. CASE TabShown
  <2>1. asks' = asks \cup {[visit |-> visit, redirect |-> FALSE]}
        /\ UNCHANGED <<visit, onPage, shown, activeSup, active, sup>>
        /\ onPage /\ shown # "connecting" /\ Current' = Current
    BY <1>2 DEF TabShown, Ask, Current
  <2>2. \A a \in asks' : ~a.redirect /\ a.visit = visit
    BY <2>1 DEF PageInv, PageFits
  <2>3. PageFits'
    BY <2>1, <2>2 DEF PageInv, PageFits
  <2> QED BY <2>1, <2>3, PhaseStutter
<1>3. CASE Leave
    BY <1>3, CloseIsDepart DEF Leave
<1>4. CASE RetryRelay
  <2> DEFINE c == sup[Current]
             next == [c EXCEPT !.at = "token", !.attempt = 0,
                               !.left = NoDeadline, !.quiet = 0]
  <2>1. Current # None /\ shown = "gave-up"
        /\ sup' = [sup EXCEPT ![Current] = next]
        /\ UNCHANGED <<visit, onPage, asks, activeSup>>
    BY <1>4 DEF RetryRelay
  <2>2. c \in Closure /\ Current \in Sup /\ c.at # "none" /\ ShownFits(c, shown)
    BY <2>1, CurrentOnPage DEF PageInv, PageFits
  <2>3. c.at = "over" /\ c.ws = "none"
    BY <2>1, <2>2 DEF ShownFits, Closure
  <2>4. next.at = "token" /\ next.ws = "none" /\ next.left = NoDeadline
    BY <2>2, <2>3 DEF Closure
  <2>5. shown' = "reconnecting"
    BY <1>4, <2>2, OnlyCurrentSpeaks DEF RetryRelay, Show
  <2> HIDE DEF next
  <2>6. ShownFits(next, shown')
    BY <2>4, <2>5 DEF ShownFits
  <2> QED BY <2>1, <2>2, <2>3, <2>4, <2>5, <2>6, OneLoopPage, PhaseMoves
<1>5. CASE NewDocument
  <2>1. asks' = {} /\ onPage' = FALSE /\ UNCHANGED visit
        /\ \A v \in Visit : activeSup'[v] = None
    BY <1>5 DEF NewDocument
  <2>2. Current' = None
    BY <2>1 DEF Current, PageInv, ReconnectInv, ReconnectTypeOK
  <2>3. PageFits'
    BY <2>1, <2>2 DEF PageFits
  <2>4. PhaseStep
    BY <2>1 DEF PhaseStep, Phases!PhaseNext, Phases!phaseVars, Phases!Depart,
                PageInv, ReconnectInv, ReconnectTypeOK
  <2> QED BY <2>3, <2>4
<1> QED BY <1>1, <1>2, <1>3, <1>4, <1>5

LEMMA PageStep ==
    ASSUME PageInv, Patient, [ReconnectNext]_reconnectVars
    PROVE  PageInv' /\ PhaseStep
<1>1. ReconnectInv'
    BY ReconnectStep DEF PageInv
<1>2. CASE UNCHANGED reconnectVars
  <2>1. Current' = Current
    BY <1>2 DEF reconnectVars, Current
  <2>2. PageFits'
    BY <1>2, <2>1 DEF reconnectVars, PageInv, PageFits
  <2> QED BY <1>1, <1>2, <2>1, <2>2, PhaseStutter DEF reconnectVars, PageInv
<1>3. CASE Tick
    BY <1>1, <1>3, TickPage DEF PageInv
<1>4. ASSUME NEW s \in Sup, Loop(s) \/ Lost(s) \/ Shut(s)
      PROVE  PageFits' /\ PhaseStep
    BY <1>4, CurrentLoopPage, OtherLoopPage, ReconnectAssumption
<1>5. ASSUME NEW a \in Call, Answered(a)
      PROVE  PageFits' /\ PhaseStep
    BY <1>5, AnsweredPage
<1>6. CASE Mount \/ TabShown \/ Leave \/ RetryRelay \/ NewDocument
    BY <1>1, <1>6, PagePage DEF PageInv
<1>7. PageFits' /\ PhaseStep
  <2>1. CASE ReconnectNext
    <3>1. CASE \E s \in Sup : Loop(s) \/ Lost(s) \/ Shut(s)
      BY <1>4, <3>1
    <3>2. CASE \E a \in Call : Answered(a)
      BY <1>5, <3>2
    <3> QED BY <1>3, <1>6, <2>1, <3>1, <3>2 DEF ReconnectNext, PageInv
  <2> QED BY <1>2, <2>1 DEF PageInv
<1> QED BY <1>1, <1>7 DEF PageInv

\* Pages, bridges and loops that outlive each other implement ConnectionPhases,
\* if the user leaves no page that waits for its token:
\* whatever supervisors of earlier sessions still do, the badge takes only the
\* steps ConnectionPhases allows, and "connected" means an open connection.
THEOREM ReconnectImplementsPhases ==
    ASSUME Patient
    PROVE  ReconnectSpec => PhasesShown
<1>1. ReconnectInit => PageInv /\ Phases!PhaseInit
    BY PageInitInv, ReconnectInitInv DEF PageInv
<1>2. PageInv /\ [ReconnectNext]_reconnectVars
        => PageInv' /\ [Phases!PhaseNext]_(Phases!phaseVars)
    BY PageStep DEF PhaseStep
<1> QED BY <1>1, <1>2, PTL DEF ReconnectSpec, PhasesShown, Phases!PhaseSpec

LEMMA PageSilence ==
    ASSUME PageInv
    PROVE  GaveUpAfterSilence /\ Phases!BadgeIsTrue
<1>1. ASSUME onPage, shown = "gave-up"
      PROVE  sup[Current].quiet = GiveUpAfter
  <2>1. Current # None
    BY <1>1 DEF PageInv, PageFits
  <2>2. sup[Current] \in Closure /\ sup[Current].at # "none"
        /\ ShownFits(sup[Current], shown)
    BY <2>1, CurrentOnPage DEF PageInv, PageFits
  <2>3. sup[Current].left = 0 /\ sup[Current].quiet \in 0..GiveUpAfter
    BY <1>1, <2>2 DEF ShownFits, Closure
  <2>4. sup[Current].quiet + 0 >= GiveUpAfter
    BY <2>2, <2>3, ReconnectAssumption DEF ShownFits, NoDeadline
  <2> QED BY <2>3, <2>4, ReconnectAssumption
<1>2. Phases!BadgeIsTrue
  <2>1. CASE Current = None
    BY <2>1 DEF PageInv, PageFits, Phases!BadgeIsTrue, Phases!Phase
  <2>2. CASE Current # None
    <3>1. sup[Current] \in Closure /\ sup[Current].at # "none" /\ onPage
          /\ ShownFits(sup[Current], shown)
      BY <2>2, CurrentOnPage DEF PageInv, PageFits
    <3> QED BY <2>2, <3>1
            DEF ShownFits, Closure, Phases!BadgeIsTrue, Phases!Phase
  <2> QED BY <2>1, <2>2
<1> QED BY <1>1, <1>2 DEF GaveUpAfterSilence

\* The page gives up only after the whole time without a connection, for every
\* deadline and back-off, if the user leaves no page that waits for its token
\* (reconnect.ts: giveUpAt is set by the first failure and
\* cleared by a connection and by retry).
THEOREM ReconnectGivesUpLate ==
    ASSUME Patient
    PROVE  ReconnectSpec => []GaveUpAfterSilence
<1>1. ReconnectInit => PageInv
    BY PageInitInv, ReconnectInitInv DEF PageInv
<1>2. PageInv /\ [ReconnectNext]_reconnectVars => PageInv'
    BY PageStep
<1>3. PageInv => GaveUpAfterSilence
    BY PageSilence
<1> QED BY <1>1, <1>2, <1>3, PTL DEF ReconnectSpec

\* What the badge may say of a loop, by what the loop waits for.
BadgeFor(at) ==
    CASE at = "dial" -> {"connecting", "reconnecting"}
      [] at \in {"nap", "token"} -> {"reconnecting"}
      [] at = "close" -> {"connected"}
      [] at = "over" -> {"gave-up"}
      [] OTHER -> {}

\* The badge of a page tells what the loop of that page's own bridge waits
\* for, and that loop was not stopped; before there is one, it connects.
BadgeTellsLoop ==
    onPage => IF Current = None THEN shown = "connecting"
              ELSE ~sup[Current].stopped /\ shown \in BadgeFor(sup[Current].at)

LEMMA PageBadge ==
    ASSUME PageInv PROVE BadgeTellsLoop
<1>1. CASE Current = None
    BY <1>1 DEF PageInv, PageFits, BadgeTellsLoop
<1>2. CASE Current # None
  <2>1. /\ sup[Current].at \in {"nap", "token", "dial", "close", "over"}
        /\ ~sup[Current].stopped /\ ShownFits(sup[Current], shown)
    BY <1>2, CurrentOnPage DEF PageInv, PageFits, Closure
  <2>2. shown \in BadgeFor(sup[Current].at)
    BY <2>1 DEF ShownFits, BadgeFor
  <2> QED BY <1>2, <2>1, <2>2 DEF BadgeTellsLoop
<1> QED BY <1>1, <1>2

\* If the user leaves no page that waits for its token: the badge says
\* "connected" exactly while the page's own connection is open, and in every
\* other phase it says what the loop of the page's own bridge is doing, which
\* is still running or has given up, and was never stopped.  The supervisors
\* that earlier pages left behind have no part in it.
THEOREM ReconnectBadge ==
    ASSUME Patient
    PROVE  ReconnectSpec => [](Phases!BadgeIsTrue /\ BadgeTellsLoop)
<1>1. ReconnectInit => PageInv
    BY PageInitInv, ReconnectInitInv DEF PageInv
<1>2. PageInv /\ [ReconnectNext]_reconnectVars => PageInv'
    BY PageStep
<1>3. PageInv => Phases!BadgeIsTrue /\ BadgeTellsLoop
    BY PageSilence, PageBadge
<1> QED BY <1>1, <1>2, <1>3, PTL DEF ReconnectSpec

=============================================================================
