-------------------------- MODULE SupervisorProofs --------------------------
(***************************************************************************)
(* For every number of sessions and connections and every limit: the       *)
(* supervisor's client slot, attempt counter, failure counter and routes.  *)
(***************************************************************************)
EXTENDS Supervisor, TLAPS

\* The failure counter is the number of refusals in a row, except that a
\* daemon told to stop no longer counts, and one below the limit unless the
\* loop has given up.
CountsRefusals ==
    /\ pc # "stopped" => authFailures = refused
    /\ pc # "gaveup" => authFailures < AuthLimit

\* A start that is about to write has a client.
WritersHaveClients ==
    \A s \in Session : start[s] = "writing" => using[s] \in Conn

SupervisorInv ==
    /\ SupervisorTypeOK
    /\ SlotFollowsLoop
    /\ DelayDefined
    /\ CountsRefusals
    /\ GivesUpOnlyAfterRefusals
    /\ WritersHaveClients

\* The part of it that is about the loop's own variables.
LoopInv ==
    /\ pc \in Pc
    /\ phase \in {"connecting", "connected", "reconnecting", "closed"}
    /\ attempt \in 0 .. MaxAttempt
    /\ authFailures \in 0 .. AuthLimit
    /\ client \in Conn \cup {NoConn}
    /\ refused \in Nat
    /\ cancelled \in BOOLEAN
    /\ SlotFollowsLoop
    /\ DelayDefined
    /\ CountsRefusals
    /\ GivesUpOnlyAfterRefusals

\* The rest: the store, the starts and the relay's end.
RestInv ==
    /\ names \subseteq Session /\ todo \subseteq Session
    /\ stored \subseteq Session /\ torn \subseteq Session
    /\ astray \subseteq Session
    /\ tokens \subseteq {"access", "refresh"}
    /\ start \in [Session -> StartStage]
    /\ using \in [Session -> Conn \cup {NoConn}]
    /\ link \in [Conn -> LinkState]
    /\ inbox \in [Conn -> Seq(Session)]
    /\ route \in [Session -> Conn \cup {NoConn}]
    /\ WritersHaveClients

LEMMA InvParts == SupervisorInv <=> LoopInv /\ RestInv
    BY DEF SupervisorInv, LoopInv, RestInv, SupervisorTypeOK

LEMMA SupervisorInitInv == SupervisorInit => SupervisorInv
<1> SUFFICES ASSUME SupervisorInit PROVE LoopInv /\ RestInv
    BY InvParts
<1>1. LoopInv
    <2>1. /\ pc = "top" /\ phase = "connecting" /\ client = NoConn
          /\ attempt = 0 /\ authFailures = 0 /\ refused = 0
          /\ cancelled \in BOOLEAN
        BY DEF SupervisorInit
    <2> QED BY <2>1, SupervisorAssumption
            DEF LoopInv, Pc, SlotFollowsLoop, DelayDefined, CountsRefusals,
                GivesUpOnlyAfterRefusals
<1>2. inbox \in [Conn -> Seq(Session)]
    BY DEF SupervisorInit
<1>3. start \in [Session -> StartStage] /\ WritersHaveClients
    BY DEF SupervisorInit, StartStage, WritersHaveClients
<1>4. RestInv
    <2>1. link \in [Conn -> LinkState]
        BY DEF SupervisorInit, LinkState
    <2>2. /\ route \in [Session -> Conn \cup {NoConn}]
          /\ using \in [Session -> Conn \cup {NoConn}]
        BY DEF SupervisorInit
    <2> QED BY <1>2, <1>3, <2>1, <2>2 DEF SupervisorInit, RestInv
<1> QED BY <1>1, <1>4

-----------------------------------------------------------------------------
(* The loop                                                                *)

\* The next attempt is a number the backoff table knows.
LEMMA NextAttemptBound ==
    ASSUME LoopInv
    PROVE  NextAttempt \in 0 .. MaxAttempt /\ NextAttempt >= 1
    BY SupervisorAssumption DEF LoopInv, NextAttempt

\* The shared error branch, which runs while nothing is published.
LEMMA FailedStep ==
    ASSUME LoopInv, NEW err, Failed(err), pc \in {"refresh", "dial"}
    PROVE  LoopInv'
<1> USE SupervisorAssumption, NextAttemptBound
        DEF LoopInv, Pc, SlotFollowsLoop, DelayDefined, CountsRefusals,
            GivesUpOnlyAfterRefusals, Failed, Counted, IsAuthError,
            AuthLimitReached
<1>1. CASE cancelled
    BY <1>1 DEF Stop
<1>2. CASE ~cancelled /\ err = "401"
    <2>1. /\ authFailures' = authFailures + 1 /\ refused' = refused + 1
          /\ authFailures = refused /\ authFailures < AuthLimit
          /\ client' = client /\ client = NoConn
        BY <1>2
    <2>2. authFailures' \in 0 .. AuthLimit /\ refused' \in Nat
        BY <2>1
    <2>3. CASE authFailures + 1 >= AuthLimit
        <3>1. /\ pc' = "gaveup" /\ phase' = "closed" /\ cancelled' = TRUE
              /\ attempt' = attempt /\ refused' = AuthLimit
            BY <1>2, <2>1, <2>3
        <3> QED BY <2>1, <2>2, <3>1
    <2>4. CASE ~(authFailures + 1 >= AuthLimit)
        <3>1. /\ pc' = "sleep" /\ phase' = "reconnecting"
              /\ cancelled' = cancelled /\ attempt' = NextAttempt
            BY <1>2, <2>4
        <3> QED BY <2>1, <2>2, <2>4, <3>1
    <2> QED BY <2>3, <2>4
<1>3. CASE ~cancelled /\ err # "401"
    BY <1>3
<1> QED BY <1>1, <1>2, <1>3

LEMMA RunLoop ==
    ASSUME LoopInv, Run
    PROVE  LoopInv'
<1> USE SupervisorAssumption
        DEF LoopInv, Pc, SlotFollowsLoop, DelayDefined, CountsRefusals,
            GivesUpOnlyAfterRefusals, unchangedWorld
<1>1. CASE \/ StartAttempt \/ Refreshed \/ Awake
           \/ ReadFile \/ ListFails \/ Listed \/ Announce \/ AllAnnounced
    BY <1>1 DEF StartAttempt, Refreshed, Awake, ReadFile, ListFails, Listed,
        Announce, AllAnnounced
<1>2. CASE RefreshFailed \/ DialFailed
    BY <1>2, FailedStep DEF RefreshFailed, DialFailed
<1>3. CASE Dialled
    BY <1>3 DEF Dialled
<1>4. CASE Install
    BY <1>4 DEF Install
<1>5. CASE WatchCancelled \/ SleepCancelled
    BY <1>5 DEF WatchCancelled, SleepCancelled, Stop
<1>6. CASE WatchLost
    BY <1>6, NextAttemptBound DEF WatchLost
<1> QED BY <1>1, <1>2, <1>3, <1>4, <1>5, <1>6 DEF Run

\* Nobody else touches the loop's variables, but anybody may cancel it.
LEMMA OthersLoop ==
    ASSUME LoopInv, Starts \/ RelayEnd \/ World
    PROVE  LoopInv'
<1>1. UNCHANGED loopVars /\ cancelled' \in BOOLEAN
    BY DEF LoopInv, Starts, RelayEnd, World, StoreOf, OpenLocal, SaveLocal,
        DeleteLocal, LoadClient, WriteOnline,
        ReadOnline, RemovePeer, AccessExpires, RefreshExpires, Cancel,
        RelayRestart, LoseLink, loopVars
<1> QED BY <1>1 DEF loopVars, LoopInv, SlotFollowsLoop, DelayDefined,
        CountsRefusals, GivesUpOnlyAfterRefusals

-----------------------------------------------------------------------------
(* The rest                                                                *)

\* A frame that is written is a frame of a session.
LEMMA WriteType ==
    ASSUME RestInv, NEW c \in Conn, NEW s \in Session, Write(c, s)
    PROVE  inbox' \in [Conn -> Seq(Session)]
    BY DEF RestInv, Write

LEMMA RunRest ==
    ASSUME LoopInv, RestInv, Run
    PROVE  RestInv'
<1> USE DEF RestInv, WritersHaveClients, unchangedWorld, startVars, relaySide
<1>1. CASE \/ StartAttempt \/ Awake \/ Listed \/ AllAnnounced
           \/ SleepCancelled \/ WatchLost
    BY <1>1 DEF StartAttempt, Awake, Listed, AllAnnounced, SleepCancelled, Stop,
        WatchLost
<1>2. CASE Refreshed
    BY <1>2 DEF Refreshed
<1>3. CASE RefreshFailed \/ DialFailed
    BY <1>3 DEF RefreshFailed, DialFailed, Failed, Stop, unchangedByFailure
<1>4. CASE Dialled
    BY <1>4 DEF Dialled, LinkState
<1>5. CASE Install \/ ReadFile \/ ListFails
    BY <1>5 DEF Install, ReadFile, ListFails
<1>6. CASE Announce
    <2>1. PICK s \in todo : Write(client, s) /\ todo' = todo \ {s}
        BY <1>6 DEF Announce
    <2>2. client \in Conn
        BY <1>6 DEF Announce, LoopInv, SlotFollowsLoop
    <2>3. inbox' \in [Conn -> Seq(Session)]
        BY <2>1, <2>2, WriteType
    <2> QED BY <1>6, <2>1, <2>3 DEF Announce
<1>7. CASE WatchCancelled
    BY <1>7 DEF WatchCancelled, LinkState
<1> QED BY <1>1, <1>2, <1>3, <1>4, <1>5, <1>6, <1>7 DEF Run

LEMMA StartsRest ==
    ASSUME LoopInv, RestInv, NEW s \in Session,
           StoreOf(s) \/ LoadClient(s) \/ WriteOnline(s)
    PROVE  RestInv'
<1> USE DEF RestInv, WritersHaveClients, StartStage, loopVars
<1>1. CASE StoreOf(s)
    <2>1. /\ \/ UNCHANGED start
             \/ \E x \in {"saving", "saved", "failed"} :
                   start' = [start EXCEPT ![s] = x]
          /\ UNCHANGED using
        BY <1>1 DEF StoreOf, OpenLocal, SaveLocal, DeleteLocal
    <2>2. start' \in [Session -> StartStage] /\ WritersHaveClients'
        BY <2>1
    <2>3. /\ UNCHANGED <<names, todo, tokens, using, link, inbox, route, astray>>
          /\ stored' \in {stored, stored \cup {s}, stored \ {s}}
          /\ torn' \in {torn, torn \cup {s}, torn \ {s}}
        BY <1>1 DEF StoreOf, OpenLocal, SaveLocal, DeleteLocal, relaySide
    <2> HIDE DEF WritersHaveClients
    <2> QED BY <2>2, <2>3
<1>2. CASE LoadClient(s)
    <2>1. /\ using' = [using EXCEPT ![s] = client]
          /\ start' = [start EXCEPT ![s] =
                          IF client = NoConn THEN "failed" ELSE "writing"]
          /\ client \in Conn \cup {NoConn}
        BY <1>2 DEF LoadClient, LoopInv
    <2>2. start' \in [Session -> StartStage]
        BY <2>1
    <2>3. using' \in [Session -> Conn \cup {NoConn}]
        BY <2>1
    <2>4. WritersHaveClients'
        BY <2>1
    <2>5. UNCHANGED <<names, todo, tokens, stored, torn, link, inbox, route, astray>>
        BY <1>2 DEF LoadClient, relaySide
    <2> HIDE DEF WritersHaveClients
    <2> QED BY <2>2, <2>3, <2>4, <2>5
<1>3. CASE WriteOnline(s)
    <2>1. Write(using[s], s) /\ using[s] \in Conn
        BY <1>3 DEF WriteOnline
    <2>2. inbox' \in [Conn -> Seq(Session)]
        BY <2>1, WriteType
    <2> QED BY <1>3, <2>2 DEF WriteOnline
<1> QED BY <1>1, <1>2, <1>3

LEMMA OthersRest ==
    ASSUME RestInv, RelayEnd \/ World
    PROVE  RestInv'
<1> USE DEF RestInv, WritersHaveClients, LinkState, loopVars, startVars, relaySide
<1>1. ASSUME NEW c \in Conn, ReadOnline(c) PROVE RestInv'
    <2>1. inbox[c] \in Seq(Session) /\ inbox[c] # <<>>
        BY <1>1 DEF ReadOnline
    <2>2. Head(inbox[c]) \in Session /\ Tail(inbox[c]) \in Seq(Session)
        BY <2>1
    <2> QED BY <1>1, <2>2 DEF ReadOnline
<1>2. ASSUME NEW c \in Conn, RemovePeer(c) PROVE RestInv'
    BY <1>2 DEF RemovePeer
<1>3. ASSUME NEW c \in Conn, LoseLink(c) PROVE RestInv'
    <2>1. PICK n \in 0 .. Len(inbox[c]) :
                inbox' = [inbox EXCEPT ![c] = SubSeq(@, 1, n)]
        BY <1>3 DEF LoseLink
    <2>2. inbox[c] \in Seq(Session)
        OBVIOUS
    <2>3. SubSeq(inbox[c], 1, n) \in Seq(Session)
        BY <2>2
    <2> QED BY <1>3, <2>1, <2>3 DEF LoseLink
<1>4. CASE RelayRestart
    BY <1>4 DEF RelayRestart
<1>5. CASE AccessExpires \/ RefreshExpires \/ Cancel
    BY <1>5 DEF AccessExpires, RefreshExpires, Cancel
<1> QED BY <1>1, <1>2, <1>3, <1>4, <1>5 DEF RelayEnd, World

LEMMA SupervisorStep ==
    SupervisorInv /\ [SupervisorNext]_supervisorVars => SupervisorInv'
<1> SUFFICES ASSUME SupervisorInv, [SupervisorNext]_supervisorVars
             PROVE  SupervisorInv'
    OBVIOUS
<1>1. LoopInv /\ RestInv
    BY InvParts
<1>2. LoopInv'
    <2>1. CASE UNCHANGED supervisorVars
        BY <1>1, <2>1 DEF supervisorVars, loopVars, LoopInv, SlotFollowsLoop,
            DelayDefined, CountsRefusals, GivesUpOnlyAfterRefusals
    <2> QED BY <1>1, <2>1, RunLoop, OthersLoop DEF SupervisorNext
<1>3. RestInv'
    <2>1. CASE UNCHANGED supervisorVars
        BY <1>1, <2>1 DEF supervisorVars, loopVars, startVars, relaySide,
            RestInv, WritersHaveClients
    <2> QED BY <1>1, <2>1, RunRest, StartsRest, OthersRest
            DEF SupervisorNext, Starts
<1> QED BY <1>2, <1>3, InvParts, PTL

-----------------------------------------------------------------------------
(* The routing table                                                       *)

\* The only connection that can be up is the one in the slot.
OneUp == \A c \in Conn : link[c] = "up" => c = client

\* The callback is through before the loop begins to watch.
CallbackThrough ==
    /\ pc \in {"announce", "watch"} => names = {}
    /\ pc = "watch" => todo = {}

Queued(s) == \E i \in 1 .. Len(inbox[client]) : inbox[client][i] = s

\* The relay has the route of s to the connection in the slot, or will have
\* it: the callback has s among the files to read or on its list, a frame is
\* under way, or StartSession is about to announce it on this connection.
OnItsWay(s) ==
    \/ route[s] = client \/ Queued(s) \/ s \in names \/ s \in todo
    \/ start[s] = "saved"
    \/ start[s] = "writing" /\ using[s] = client

RoutesOnTheWay ==
    pc \in {"list", "announce", "watch"} /\ link[client] = "up"
        => \A s \in stored \ astray : OnItsWay(s)

RouteInv == OneUp /\ CallbackThrough /\ RoutesOnTheWay

LEMMA RouteInitInv == SupervisorInit => RouteInv
<1> SUFFICES ASSUME SupervisorInit PROVE RouteInv
    OBVIOUS
<1>1. OneUp
    BY DEF SupervisorInit, OneUp
<1> QED BY <1>1 DEF SupervisorInit, RouteInv, CallbackThrough, RoutesOnTheWay

\* Connections come up in the slot only.
LEMMA RunLinks ==
    ASSUME SupervisorInv, OneUp, Run
    PROVE  OneUp'
<1> USE DEF OneUp
<1>0. LoopInv /\ RestInv
    BY InvParts
<1>1. CASE \/ StartAttempt \/ Refreshed \/ RefreshFailed \/ DialFailed \/ Install
           \/ ReadFile \/ ListFails \/ Listed \/ Announce \/ AllAnnounced
           \/ Awake \/ SleepCancelled
  <2>1. UNCHANGED <<link, client>>
    BY <1>1 DEF StartAttempt, Refreshed, RefreshFailed, DialFailed, Install,
        ReadFile, ListFails, Listed, Announce, AllAnnounced, Awake,
        SleepCancelled, Stop, Failed, unchangedWorld, unchangedByFailure
  <2> QED BY <2>1
<1>2. CASE Dialled
  <2>1. PICK c \in Conn : /\ link' = [link EXCEPT ![c] = "up"]
                          /\ client' = c
    BY <1>2 DEF Dialled
  <2>2. client \notin Conn
    BY <1>0, <1>2, SupervisorAssumption DEF Dialled, LoopInv, SlotFollowsLoop
  <2> QED BY <1>0, <2>1, <2>2 DEF RestInv
<1>3. CASE WatchCancelled
  <2>1. /\ client \in Conn
        /\ link' = [link EXCEPT ![client] = IF @ = "up" THEN "down" ELSE @]
    BY <1>0, <1>3 DEF WatchCancelled, LoopInv, SlotFollowsLoop
  <2> QED BY <1>0, <2>1 DEF RestInv
<1>4. CASE WatchLost
  <2>1. UNCHANGED link /\ link[client] # "up"
    BY <1>4 DEF WatchLost, unchangedWorld
  <2> QED BY <2>1
<1> QED BY <1>1, <1>2, <1>3, <1>4 DEF Run

LEMMA OthersLinks ==
    ASSUME SupervisorInv, OneUp, Starts \/ RelayEnd \/ World
    PROVE  OneUp'
<1>0. link \in [Conn -> LinkState]
    BY InvParts DEF RestInv
<1>1. UNCHANGED client
    BY DEF Starts, RelayEnd, World, StoreOf, OpenLocal, SaveLocal, DeleteLocal,
        LoadClient, WriteOnline, ReadOnline, RemovePeer, AccessExpires,
        RefreshExpires, Cancel, RelayRestart, LoseLink, loopVars
<1>2. \A c \in Conn : link'[c] = "up" => link[c] = "up"
    BY <1>0 DEF Starts, RelayEnd, World, StoreOf, OpenLocal, SaveLocal,
        DeleteLocal, LoadClient, WriteOnline, ReadOnline, RemovePeer,
        AccessExpires, RefreshExpires, Cancel, RelayRestart, LoseLink
<1> QED BY <1>1, <1>2 DEF OneUp

\* Nobody but the loop writes the callback's list.
LEMMA CallbackStep ==
    ASSUME CallbackThrough, SupervisorNext
    PROVE  CallbackThrough'
<1>1. CASE Run
    BY <1>1 DEF Run, CallbackThrough, StartAttempt, Refreshed, RefreshFailed,
        Dialled, DialFailed, Install, ReadFile, ListFails, Listed, Announce,
        AllAnnounced, WatchCancelled,
        WatchLost, Awake, SleepCancelled, Stop, Failed
<1>2. CASE Starts \/ RelayEnd \/ World
  <2>1. UNCHANGED <<pc, names, todo>>
    BY <1>2 DEF Starts, RelayEnd, World, StoreOf, OpenLocal, SaveLocal,
        DeleteLocal, LoadClient, WriteOnline,
        ReadOnline, RemovePeer, AccessExpires, RefreshExpires, Cancel,
        RelayRestart, LoseLink, loopVars
  <2> QED BY <2>1 DEF CallbackThrough
<1> QED BY <1>1, <1>2 DEF SupervisorNext

-----------------------------------------------------------------------------
\* A frame written to the connection in the slot is queued there, and those
\* before it still are.
LEMMA WriteQueues ==
    ASSUME RestInv, client \in Conn, link[client] = "up", UNCHANGED client,
           NEW s \in Session, NEW c \in Conn, Write(c, s)
    PROVE  /\ \A t \in Session : Queued(t) => Queued(t)'
           /\ c = client => Queued(s)'
<1>1. inbox[client] \in Seq(Session)
    BY DEF RestInv
<1> DEFINE q == inbox[client]
<1>2. CASE c = client
  <2>1. inbox'[client'] = Append(q, s)
    BY <1>2 DEF Write, RestInv
  <2>2. /\ Len(Append(q, s)) = Len(q) + 1 /\ Append(q, s)[Len(q) + 1] = s
        /\ \A i \in 1 .. Len(q) : Append(q, s)[i] = q[i]
        /\ Len(q) \in Nat
    BY <1>1
  <2> QED BY <2>1, <2>2 DEF Queued
<1>3. CASE c # client
  <2>1. inbox'[client'] = inbox[client]
    BY <1>3 DEF Write, RestInv
  <2> QED BY <1>3, <2>1 DEF Queued
<1> QED BY <1>2, <1>3

\* The first frame is the one that has been read; the others move up.
LEMMA ReadDequeues ==
    ASSUME RestInv, client \in Conn, UNCHANGED client, ReadOnline(client),
           NEW t \in Session, Queued(t)
    PROVE  t = Head(inbox[client]) \/ Queued(t)'
<1> DEFINE q == inbox[client]
<1>1. q \in Seq(Session) /\ q # <<>> /\ inbox'[client'] = Tail(q)
    BY DEF RestInv, ReadOnline
<1>2. PICK i \in 1 .. Len(q) : q[i] = t
    BY DEF Queued
<1>3. CASE i = 1
    BY <1>1, <1>2, <1>3
<1>4. CASE i # 1
  <2>1. /\ i - 1 \in 1 .. Len(Tail(q)) /\ Tail(q)[i - 1] = t
    BY <1>1, <1>2, <1>4
  <2> QED BY <1>1, <2>1 DEF Queued
<1> QED BY <1>3, <1>4

LEMMA RunRoutes ==
    ASSUME SupervisorInv, RouteInv, Run
    PROVE  RoutesOnTheWay'
<1> USE DEF RoutesOnTheWay
<1>0. LoopInv /\ RestInv
    BY InvParts
<1>1. CASE StartAttempt \/ Refreshed \/ RefreshFailed \/ Dialled \/ DialFailed
           \/ Awake \/ SleepCancelled \/ WatchCancelled \/ WatchLost
  <2>1. pc' \notin {"list", "announce", "watch"}
    BY <1>1 DEF StartAttempt, Refreshed, RefreshFailed, Dialled, DialFailed,
        Awake, SleepCancelled, WatchCancelled, WatchLost, Stop, Failed
  <2> QED BY <2>1
<1>2. CASE Install
  <2>1. names' = stored \cup torn /\ UNCHANGED stored
    BY <1>2 DEF Install, unchangedWorld, startVars
  <2> QED BY <2>1 DEF OnItsWay
<1>3. CASE ReadFile \/ Listed \/ AllAnnounced
  <2>1. /\ UNCHANGED <<client, stored, start, using, link, inbox, route, astray>>
        /\ pc \in {"list", "announce"}
        /\ names \cup todo \subseteq names' \cup todo'
    BY <1>3 DEF ReadFile, Listed, AllAnnounced, unchangedWorld, startVars, relaySide
  <2> QED BY <2>1 DEF RouteInv, OnItsWay, Queued
<1>5. CASE ListFails
  <2>1. /\ UNCHANGED <<client, stored, start, using, link, inbox, route>>
        /\ astray' = astray \cup {s \in stored : start[s] # "saved"}
    BY <1>5 DEF ListFails, startVars
  <2> QED BY <2>1 DEF OnItsWay
<1>4. CASE Announce
  <2>1. PICK s \in todo : Write(client, s) /\ todo' = todo \ {s}
    BY <1>4 DEF Announce
  <2>2. /\ UNCHANGED <<client, names, stored, start, using, link, route, astray>>
        /\ pc = "announce" /\ client \in Conn /\ todo \subseteq Session
        /\ stored \subseteq Session
    BY <1>0, <1>4 DEF Announce, startVars, LoopInv, RestInv, SlotFollowsLoop
  <2>3. ASSUME link[client] = "up", NEW t \in stored \ astray
        PROVE  OnItsWay(t)'
    <3>1. OnItsWay(t)
      BY <2>2, <2>3 DEF RouteInv
    <3>2. (Queued(t) => Queued(t)') /\ Queued(s)'
      BY <1>0, <2>1, <2>2, <2>3, WriteQueues
    <3> QED BY <2>1, <2>2, <3>1, <3>2 DEF OnItsWay
  <2> QED BY <2>2, <2>3
<1> QED BY <1>1, <1>2, <1>3, <1>4, <1>5 DEF Run

LEMMA StartsRoutes ==
    ASSUME SupervisorInv, RouteInv, NEW s \in Session,
           StoreOf(s) \/ LoadClient(s) \/ WriteOnline(s)
    PROVE  RoutesOnTheWay'
<1>0. LoopInv /\ RestInv
    BY InvParts
<1>1. UNCHANGED <<client, pc, names, todo, link, route, astray>>
    BY DEF StoreOf, OpenLocal, SaveLocal, DeleteLocal, LoadClient, WriteOnline,
        loopVars, relaySide
<1>2. SUFFICES ASSUME pc \in {"list", "announce", "watch"}, link[client] = "up",
                      NEW t \in stored' \ astray
               PROVE  OnItsWay(t)'
    BY <1>1 DEF RoutesOnTheWay
<1>3. client \in Conn /\ client # NoConn
    BY <1>0, <1>2, SupervisorAssumption DEF LoopInv, SlotFollowsLoop
<1>4. t \in stored => OnItsWay(t)
    BY <1>2 DEF RouteInv, RoutesOnTheWay
<1>5. CASE StoreOf(s)
  <2>1. UNCHANGED <<using, inbox>>
    BY <1>5 DEF StoreOf, OpenLocal, SaveLocal, DeleteLocal, relaySide
  <2>2. CASE t = s /\ t \notin stored
    <3>1. start' = [start EXCEPT ![s] = "saved"]
      BY <1>2, <1>5, <2>2 DEF StoreOf, OpenLocal, SaveLocal, DeleteLocal
    <3> QED BY <1>0, <2>2, <3>1 DEF OnItsWay, RestInv
  <2>3. CASE t = s /\ t \in stored
    <3>1. OnItsWay(t)
      BY <1>4, <2>3
    <3>2. start[s] = "saved" \/ start[s] = "writing" => start' = start
      BY <1>5 DEF StoreOf, OpenLocal, SaveLocal, DeleteLocal
    <3> QED BY <1>1, <2>1, <2>3, <3>1, <3>2 DEF OnItsWay, Queued
  <2>4. CASE t # s
    <3>1. t \in stored /\ t \in Session /\ start'[t] = start[t]
      BY <1>0, <1>2, <1>5, <2>4
         DEF StoreOf, OpenLocal, SaveLocal, DeleteLocal, RestInv
    <3> QED BY <1>1, <1>4, <2>1, <3>1 DEF OnItsWay, Queued
  <2> QED BY <2>2, <2>3, <2>4
<1>6. CASE LoadClient(s)
  <2>1. /\ using' = [using EXCEPT ![s] = client]
        /\ start' = [start EXCEPT ![s] = "writing"]
        /\ UNCHANGED <<stored, inbox>>
    BY <1>3, <1>6 DEF LoadClient, relaySide
  <2>2. CASE t = s
    BY <1>0, <1>1, <2>1, <2>2 DEF OnItsWay, RestInv
  <2>3. CASE t # s
    <3>1. /\ OnItsWay(t) /\ start'[t] = start[t] /\ using'[t] = using[t]
      BY <1>0, <1>2, <1>4, <2>1, <2>3 DEF RestInv
    <3> QED BY <1>1, <2>1, <3>1 DEF OnItsWay, Queued
  <2> QED BY <2>2, <2>3
<1>7. CASE WriteOnline(s)
  <2>1. /\ Write(using[s], s) /\ using[s] \in Conn /\ start[s] = "writing"
        /\ UNCHANGED stored /\ t \in Session
    BY <1>0, <1>2, <1>7 DEF WriteOnline, RestInv, WritersHaveClients
  <2>2. /\ Queued(t) => Queued(t)'
        /\ using[s] = client => Queued(s)'
    BY <1>0, <1>1, <1>2, <1>3, <2>1, WriteQueues
  <2>3. t # s => start'[t] = start[t] /\ using'[t] = using[t]
    BY <1>0, <1>7, <2>1 DEF WriteOnline, RestInv
  <2> QED BY <1>1, <1>2, <1>4, <2>1, <2>2, <2>3 DEF OnItsWay
<1> QED BY <1>5, <1>6, <1>7

LEMMA OthersRoutes ==
    ASSUME SupervisorInv, RouteInv, RelayEnd \/ World
    PROVE  RoutesOnTheWay'
<1>0. LoopInv /\ RestInv
    BY InvParts
<1>1. UNCHANGED <<client, pc, names, todo, stored, start, using>>
    BY DEF RelayEnd, World, ReadOnline, RemovePeer, AccessExpires,
        RefreshExpires, Cancel, RelayRestart, LoseLink, loopVars, startVars
<1>2. SUFFICES ASSUME pc \in {"list", "announce", "watch"}, link'[client] = "up",
                      NEW t \in stored \ astray'
               PROVE  OnItsWay(t)'
    BY <1>1 DEF RoutesOnTheWay
<1>3. client \in Conn /\ t \in Session
    BY <1>0, <1>2, SupervisorAssumption DEF LoopInv, SlotFollowsLoop, RestInv
<1>4. link[client] = "up"
  <2>1. CASE RelayEnd
    <3>1. PICK c \in Conn : ReadOnline(c) \/ RemovePeer(c)
      BY <2>1 DEF RelayEnd
    <3> QED BY <1>0, <1>2, <1>3, <3>1 DEF ReadOnline, RemovePeer, RestInv
  <2>2. CASE World
    <3>1. CASE RelayRestart
      BY <1>2, <1>3, <3>1 DEF RelayRestart
    <3>2. CASE \E c \in Conn : LoseLink(c)
      BY <1>0, <1>2, <1>3, <3>2 DEF LoseLink, RestInv
    <3>3. CASE AccessExpires \/ RefreshExpires \/ Cancel
      BY <1>2, <3>3 DEF AccessExpires, RefreshExpires, Cancel
    <3> QED BY <2>2, <3>1, <3>2, <3>3 DEF World
  <2> QED BY <2>1, <2>2
<1>5. t \notin astray => OnItsWay(t)
    BY <1>2, <1>4 DEF RouteInv, RoutesOnTheWay
<1>6. ASSUME NEW c \in Conn, ReadOnline(c) PROVE OnItsWay(t)'
  <2>1. /\ route' = [route EXCEPT ![Head(inbox[c])] = c]
        /\ inbox' = [inbox EXCEPT ![c] = Tail(@)]
        /\ astray' = IF c = client THEN astray \ {Head(inbox[c])}
                                   ELSE astray \cup {Head(inbox[c])}
    BY <1>6 DEF ReadOnline
  <2>2. CASE c = client
    <3>1. Queued(t) => t = Head(inbox[client]) \/ Queued(t)'
      BY <1>0, <1>1, <1>3, <1>6, <2>2, ReadDequeues
    <3>2. route[t] = client \/ t = Head(inbox[client]) => route'[t] = client
      BY <1>0, <1>3, <2>1, <2>2 DEF RestInv
    <3>3. t \in astray => t = Head(inbox[client])
      BY <1>2, <2>1, <2>2
    <3> QED BY <1>1, <1>5, <3>1, <3>2, <3>3 DEF OnItsWay
  <2>3. CASE c # client
    <3>1. t # Head(inbox[c]) /\ t \notin astray
      BY <1>2, <2>1, <2>3
    <3>2. route'[t] = route[t] /\ inbox'[client] = inbox[client]
      BY <1>0, <1>3, <2>1, <2>3, <3>1 DEF RestInv
    <3> QED BY <1>1, <1>5, <3>1, <3>2 DEF OnItsWay, Queued
  <2> QED BY <2>2, <2>3
<1>7. ASSUME NEW c \in Conn, RemovePeer(c) PROVE OnItsWay(t)'
  <2>1. /\ c # client /\ UNCHANGED <<inbox, astray>>
        /\ route[t] = client => route'[t] = client
    BY <1>3, <1>4, <1>7 DEF RemovePeer
  <2> QED BY <1>1, <1>2, <1>5, <2>1 DEF OnItsWay, Queued
<1>8. ASSUME NEW c \in Conn, LoseLink(c) PROVE OnItsWay(t)'
  <2>1. c = client
    BY <1>8 DEF LoseLink, RouteInv, OneUp
  <2>2. link'[client] = "down"
    BY <1>0, <1>8, <2>1 DEF LoseLink, RestInv
  <2> QED BY <1>2, <2>2
<1>9. CASE RelayRestart
    BY <1>2, <1>3, <1>9 DEF RelayRestart
<1>10. CASE AccessExpires \/ RefreshExpires \/ Cancel
  <2>1. UNCHANGED <<inbox, route, astray>>
    BY <1>10 DEF AccessExpires, RefreshExpires, Cancel, relaySide
  <2> QED BY <1>1, <1>2, <1>5, <2>1 DEF OnItsWay, Queued
<1> QED BY <1>6, <1>7, <1>8, <1>9, <1>10 DEF RelayEnd, World

LEMMA RouteStep ==
    SupervisorInv /\ RouteInv /\ [SupervisorNext]_supervisorVars => RouteInv'
<1> SUFFICES ASSUME SupervisorInv, RouteInv, [SupervisorNext]_supervisorVars
             PROVE  RouteInv'
    OBVIOUS
<1>1. CASE UNCHANGED supervisorVars
    BY <1>1 DEF supervisorVars, loopVars, startVars, relaySide, RouteInv, OneUp,
        CallbackThrough, RoutesOnTheWay, OnItsWay, Queued
<1>2. CASE SupervisorNext
  <2>1. OneUp'
    BY <1>2, RunLinks, OthersLinks DEF SupervisorNext, RouteInv
  <2>2. CallbackThrough'
    BY <1>2, CallbackStep DEF RouteInv
  <2>3. RoutesOnTheWay'
    BY <1>2, RunRoutes, StartsRoutes, OthersRoutes DEF SupervisorNext, Starts
  <2> QED BY <2>1, <2>2, <2>3 DEF RouteInv
<1> QED BY <1>1, <1>2

LEMMA RouteInvRestores == RouteInv => RouteRestored
<1> SUFFICES ASSUME RouteInv, pc = "watch", link[client] = "up",
                    inbox[client] = <<>>, NEW s \in stored \ astray,
                    start[s] \in {"ok", "failed"}
             PROVE  route[s] = client
    BY DEF RouteRestored
<1>1. OnItsWay(s) /\ todo = {} /\ names = {}
    BY DEF RouteInv, RoutesOnTheWay, CallbackThrough
<1>2. ~Queued(s)
    BY DEF Queued
<1> QED BY <1>1, <1>2 DEF OnItsWay

-----------------------------------------------------------------------------
\* The supervisor, the starts and the relay's end keep their types.
THEOREM SupervisorTypes == SupervisorSpec => []SupervisorTypeOK
<1>1. SupervisorInv => SupervisorTypeOK
    BY DEF SupervisorInv
<1> QED BY <1>1, SupervisorInitInv, SupervisorStep, PTL DEF SupervisorSpec

\* The slot holds a client exactly while the loop sits on a connection.
THEOREM SlotIsTheLoops == SupervisorSpec => []SlotFollowsLoop
<1>1. SupervisorInv => SlotFollowsLoop
    BY DEF SupervisorInv
<1> QED BY <1>1, SupervisorInitInv, SupervisorStep, PTL DEF SupervisorSpec

\* Every delay is looked up with an index that exists.
THEOREM DelayIsDefined == SupervisorSpec => []DelayDefined
<1>1. SupervisorInv => DelayDefined
    BY DEF SupervisorInv
<1> QED BY <1>1, SupervisorInitInv, SupervisorStep, PTL DEF SupervisorSpec

\* The daemon gives up after AuthLimit refusals in a row and never earlier.
THEOREM GivesUpAtTheLimit == SupervisorSpec => []GivesUpOnlyAfterRefusals
<1>1. SupervisorInv => GivesUpOnlyAfterRefusals
    BY DEF SupervisorInv
<1> QED BY <1>1, SupervisorInitInv, SupervisorStep, PTL DEF SupervisorSpec

\* However often the connection is lost, the relay restarts, starts race with
\* the loop, files fail to parse and late frames of dead connections come in:
\* once everything on the current connection has been read, the relay routes
\* every started session to it but those that a failing List or a late frame
\* has led astray.
THEOREM RoutesAreRestored == SupervisorSpec => []RouteRestored
<1>1. SupervisorInit => SupervisorInv /\ RouteInv
    BY SupervisorInitInv, RouteInitInv
<1>2. SupervisorInv /\ RouteInv /\ [SupervisorNext]_supervisorVars
        => (SupervisorInv /\ RouteInv)'
    BY SupervisorStep, RouteStep
<1>3. SupervisorInv /\ RouteInv => RouteRestored
    BY RouteInvRestores
<1> QED BY <1>1, <1>2, <1>3, PTL DEF SupervisorSpec

=============================================================================
