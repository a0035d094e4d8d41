----------------------------- MODULE Reconnect -----------------------------
(***************************************************************************)
(* The terminal page's connection to the relay: the page that asks for a   *)
(* token and calls setSession, the bridge that keeps one supervisor and    *)
(* one active connection, and the supervisor's loop of dialling, waiting   *)
(* and giving up.                                                          *)
(*                                                                         *)
(* Every visit to the page installs a bridge of its own, on one and the    *)
(* same window.  A supervisor that is stopped while it waits for a token   *)
(* or for its WebSocket goes on: stop only ends a sleep and a connection.  *)
(***************************************************************************)
EXTENDS Integers, FiniteSets

CONSTANTS
    Sup,            \* supervisors there is room for at one time
    GiveUpAfter,    \* a loop dials this long, then gives up
    Backoff,        \* Backoff[n]: what it sleeps before attempt n
    MaxVisits,      \* bound on the visits to the page
    Patient         \* the user does not leave a page that waits for a token

None == 0

ASSUME ReconnectAssumption ==
    /\ None \notin Sup /\ IsFiniteSet(Sup)
    /\ GiveUpAfter \in Nat \ {0} /\ MaxVisits \in Nat \ {0}
    /\ Patient \in BOOLEAN
    /\ 1 \in DOMAIN Backoff /\ DOMAIN Backoff \subseteq Nat
    /\ \A n \in DOMAIN Backoff : Backoff[n] \in Nat

VARIABLES
    visit,          \* the visit whose bridge the window has, 0 for none
    onPage,         \* the terminal page is mounted
    shown,          \* connState: the phase the page shows
    asks,           \* connectSession calls that wait for a token
    activeSup,      \* activeSup[v]: the one of the bridge of visit v
    active,         \* the supervisor of the window's active connection
    sup             \* sup[s]: a supervisor's closure

reconnectVars == <<visit, onPage, shown, asks, activeSup, active, sup>>

Visit == 1..MaxVisits

\* at: what the loop waits for, "over" when it has returned.
\* visit, session: whose bridge it was made in, and for which visit's session.
\* ws: its WebSocket.  left, nap: time to the deadline, and to the next attempt.
\* quiet is history: time since it connected, started or was retried.
NoDeadline == GiveUpAfter + 1

Closure == [at: {"none", "nap", "token", "dial", "close", "over"},
            ws: {"none", "dialling", "open", "closing"},
            stopped: BOOLEAN, visit: {None} \cup Visit, session: {None} \cup Visit,
            attempt: {None} \cup DOMAIN Backoff, left: 0..NoDeadline, nap: Nat,
            quiet: 0..GiveUpAfter]

NoSup == [at |-> "none", ws |-> "none", stopped |-> FALSE, visit |-> None,
          session |-> None, attempt |-> 0, left |-> NoDeadline, nap |-> 0, quiet |-> 0]

\* A supervisor that was stopped and has nothing under way is forgotten.
Free == {s \in Sup : sup[s].at = "none"}

\* The supervisor of the bridge the window has.
Current == IF visit = None THEN None ELSE activeSup[visit]

ReconnectTypeOK ==
    /\ visit \in {None} \cup Visit /\ onPage \in BOOLEAN
    /\ shown \in {"connecting", "connected", "reconnecting", "gave-up", "disconnected"}
    /\ asks \subseteq [visit: Visit, redirect: BOOLEAN]
    /\ activeSup \in [Visit -> {None} \cup Sup] /\ active \in {None} \cup Sup
    /\ sup \in [Sup -> Closure]
    /\ \A s \in Sup : sup[s].at = "nap" => sup[s].nap <= sup[s].left

ReconnectInit ==
    /\ visit = None /\ onPage = FALSE /\ shown = "connecting" /\ asks = {}
    /\ activeSup = [v \in Visit |-> None] /\ active = None
    /\ sup = [s \in Sup |-> NoSup]

Smaller(a, b) == IF a < b THEN a ELSE b

Tick ==
    /\ sup' = [s \in Sup |-> IF s \in Free THEN sup[s] ELSE [sup[s] EXCEPT
          !.left = IF @ \in {0, NoDeadline} THEN @ ELSE @ - 1,
          !.nap = IF @ = 0 THEN 0 ELSE @ - 1,
          !.quiet = Smaller(@ + 1, GiveUpAfter)]]
    /\ UNCHANGED <<visit, onPage, shown, asks, activeSup, active>>

-----------------------------------------------------------------------------
(* The bridge                                                              *)

\* onStateChange: each bridge listens to the supervisor it has now, and all
\* of them talk to the page there is.
\* Mutant: any supervisor of any bridge.
ShowAnyway(s, phase) == shown' = phase

Show(s, phase) == shown' = IF activeSup[sup[s].visit] = s THEN phase ELSE shown

\* stop: a sleep never ends, a connection is closed, and the loop with it; a
\* refresh or a dial under way is left to itself.
Stopped(c) ==
    CASE c.at \in {"nap", "over"} -> NoSup
      [] c.at = "close" -> [c EXCEPT !.stopped = TRUE, !.at = "over", !.ws = "closing"]
      [] OTHER -> [c EXCEPT !.stopped = TRUE]

\* closeActive, as what it makes of the supervisors.
Closing ==
    [s \in Sup |->
        LET c == IF s = Current THEN Stopped(sup[s]) ELSE sup[s]
        IN IF s = active /\ c.ws = "open" THEN [c EXCEPT !.ws = "closing"] ELSE c]

\* setSession for the session of visit v.
SetSession(v) ==
    \E s \in Free :
        /\ sup' = [Closing EXCEPT ![s] =
              [NoSup EXCEPT !.at = "dial", !.ws = "dialling",
                            !.visit = visit, !.session = v]]
        /\ activeSup' = [activeSup EXCEPT ![visit] = s] /\ active' = None
        /\ shown' = "connecting"

\* setSession("", ...): nothing takes the place of what is closed.
CloseSession ==
    /\ sup' = Closing
    /\ activeSup' = [activeSup EXCEPT ![visit] = None] /\ active' = None
    /\ shown' = "disconnected"

-----------------------------------------------------------------------------
(* The supervisor's loop                                                   *)

\* Mutant: the deadline of an earlier failure outlives the connection.
OpenedKeepsDeadline(c) == [c EXCEPT !.at = "close", !.ws = "open", !.quiet = 0]

Opened(c) ==
    [c EXCEPT !.at = "close", !.ws = "open", !.left = NoDeadline, !.quiet = 0]

\* Mutant: the first failure sets no deadline.
DeadlineNever(c) == c.left

\* The deadline is set by the first failure after a connection or a retry.
Deadline(c) == IF c.left = NoDeadline THEN GiveUpAfter ELSE c.left

\* Mutant: the sleep goes past the deadline.
NapUnclamped(n, left) == Backoff[n]

Nap(n, left) == Smaller(Backoff[n], left)

\* The next round after an attempt failed or its connection was lost.
NextRound(c) ==
    LET n == IF c.attempt + 1 \in DOMAIN Backoff THEN c.attempt + 1 ELSE c.attempt
        failed == [c EXCEPT !.ws = "none", !.attempt = n]
    IN IF c.stopped THEN NoSup
       ELSE IF c.left = 0 THEN [failed EXCEPT !.at = "over"]
       ELSE [failed EXCEPT !.at = "nap", !.left = Deadline(c),
                           !.nap = Nap(n, Deadline(c))]

Failed(s) ==
    /\ sup' = [sup EXCEPT ![s] = NextRound(sup[s])]
    /\ Show(s, IF sup[s].left = 0 THEN "gave-up" ELSE "reconnecting")
    /\ active' = IF active = s THEN None ELSE active
    /\ UNCHANGED <<visit, onPage, asks, activeSup>>

\* The sleep is over; at the deadline so is the loop.
Woken(s) ==
    /\ sup[s].at = "nap" /\ sup[s].nap = 0
    /\ IF sup[s].left = 0
       THEN sup' = [sup EXCEPT ![s].at = "over"] /\ Show(s, "gave-up")
       ELSE sup' = [sup EXCEPT ![s].at = "token"] /\ UNCHANGED shown
    /\ UNCHANGED <<visit, onPage, asks, activeSup, active>>

TokenRenewed(s) ==
    /\ sup[s].at = "token"
    /\ sup' = [sup EXCEPT ![s].at = "dial", ![s].ws = "dialling"]
    /\ UNCHANGED <<visit, onPage, shown, asks, activeSup, active>>

TokenFailed(s) == sup[s].at = "token" /\ Failed(s)

\* onOpen, and what attemptOnce does when connect resolves.
Open(s) ==
    /\ sup[s].at = "dial" /\ sup[s].ws = "dialling"
    /\ sup' = [sup EXCEPT ![s] = Opened(sup[s])]
    /\ active' = IF sup[s].visit = visit THEN s ELSE active
    /\ Show(s, "connected")
    /\ UNCHANGED <<visit, onPage, asks, activeSup>>

DialFailed(s) == sup[s].at = "dial" /\ Failed(s)

\* onClose or onError of an open connection.
Lost(s) == sup[s].at = "close" /\ sup[s].ws = "open" /\ Failed(s)

\* The end of a close that was asked for.
Shut(s) ==
    /\ sup[s].ws = "closing"
    /\ sup' = [sup EXCEPT ![s] = NoSup]
    /\ UNCHANGED <<visit, onPage, shown, asks, activeSup, active>>

-----------------------------------------------------------------------------
(* The page                                                                *)

Room == Cardinality(asks) < Cardinality(Free)

\* connectSession begins: it waits for freshAccessToken.
Ask(v, redirect) == asks' = asks \cup {[visit |-> v, redirect |-> redirect]}

\* The page mounts, main.tsx installs a bridge, and the page's effect asks.
Mount ==
    /\ ~onPage /\ visit < MaxVisits /\ Room
    /\ visit' = visit + 1 /\ onPage' = TRUE /\ shown' = "connecting"
    /\ active' = None
    /\ Ask(visit + 1, TRUE)
    /\ UNCHANGED <<activeSup, sup>>

\* useVisibility: the tab is shown again.
TabShown ==
    /\ onPage /\ shown \in {"disconnected", "gave-up"} /\ Room
    /\ Ask(visit, FALSE)
    /\ UNCHANGED <<visit, onPage, shown, activeSup, active, sup>>

\* The token comes, to whatever page and bridge there are by now.
TokenCame(a) ==
    /\ a \in asks /\ asks' = asks \ {a}
    /\ SetSession(a.visit)
    /\ UNCHANGED <<visit, onPage>>

\* No token: the mount's call goes back to the list.
NoTokenCame(a) ==
    /\ a \in asks /\ asks' = asks \ {a}
    /\ IF a.redirect /\ onPage
       THEN onPage' = FALSE /\ CloseSession
       ELSE UNCHANGED <<onPage, shown, activeSup, active, sup>>
    /\ UNCHANGED visit

Leave ==
    /\ onPage
    /\ Patient => asks = {}
    /\ onPage' = FALSE /\ CloseSession
    /\ UNCHANGED <<visit, asks>>

\* The modal's button.
RetryRelay ==
    /\ onPage /\ shown = "gave-up" /\ Current # None
    /\ sup' = [sup EXCEPT ![Current].at = "token", ![Current].attempt = 0,
                          ![Current].left = NoDeadline, ![Current].quiet = 0]
    /\ Show(Current, "reconnecting")
    /\ UNCHANGED <<visit, onPage, asks, activeSup, active>>

\* The document is loaded anew: the modal's other button, or a refresh that a
\* supervisor was refused.
NewDocument ==
    /\ \/ onPage /\ shown = "gave-up"
       \/ \E s \in Sup : sup[s].at = "token"
    /\ onPage' = FALSE /\ shown' = "connecting" /\ asks' = {}
    /\ activeSup' = [v \in Visit |-> None] /\ active' = None
    /\ sup' = [s \in Sup |-> NoSup]
    /\ UNCHANGED visit

-----------------------------------------------------------------------------
Loop(s) ==
    Woken(s) \/ TokenRenewed(s) \/ TokenFailed(s) \/ Open(s) \/ DialFailed(s)

Answered(a) == TokenCame(a) \/ NoTokenCame(a)

Call == [visit: Visit, redirect: BOOLEAN]

ReconnectNext ==
    \/ Tick
    \/ \E s \in Sup : Loop(s) \/ Lost(s) \/ Shut(s)
    \/ \E a \in Call : Answered(a)
    \/ Mount \/ TabShown \/ Leave \/ RetryRelay \/ NewDocument

ReconnectSpec == ReconnectInit /\ [][ReconnectNext]_reconnectVars

\* Timers fire, and the browser settles every dial and every refresh.
FairReconnect ==
    /\ ReconnectSpec
    /\ WF_reconnectVars(Tick)
    /\ \A s \in Sup : WF_reconnectVars(Loop(s))
    /\ \A a \in Call : WF_reconnectVars(Answered(a))

-----------------------------------------------------------------------------
\* What the page shows of the connection of the bridge the window has.
Phases == INSTANCE ConnectionPhases WITH
    phase <- IF onPage THEN shown ELSE "none",
    link <- onPage /\ Current # None /\ sup[Current].ws = "open"

\* The detailed page, bridge and loop implement ConnectionPhases: no supervisor
\* of an earlier visit or an earlier setSession speaks to the page, and the
\* badge follows the connection (inbound.ts, the filter of onStateChange).
PhasesShown == Phases!PhaseSpec

\* The page gives up only after GiveUpAfter without a connection, however often
\* the connection came and went before (reconnect.ts: giveUpAt).
GaveUpAfterSilence ==
    onPage /\ shown = "gave-up" => sup[Current].quiet = GiveUpAfter

\* Dialling ends: with a connection, by giving up, or because the user leaves.
DialSettles ==
    onPage /\ shown \in {"connecting", "reconnecting"}
        ~> ~onPage \/ shown \in {"connected", "gave-up"}

\* The web UI design: "WSS lifecycle is bound to <TerminalPage> via useEffect;
\* route change -> cleanup -> graceful close".  The code does not keep this: a
\* connection that opens after the page was left has nobody to close it.
WireBoundToPage ==
    \A s \in Sup : sup[s].ws = "open" => onPage /\ sup[s].session = visit

=============================================================================
