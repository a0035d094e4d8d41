---------------------------- MODULE RelayProofs ----------------------------
(***************************************************************************)
(* For every set of connections, sessions and devices, with every fault:   *)
(* the relay keeps its types and a consistent registry, and what it makes  *)
(* the control plane do is still the lease table of Lease.  Between        *)
(* devices with one tab each, it takes input from no second device, and    *)
(* connections that close leave no lease behind.                           *)
(***************************************************************************)
EXTENDS Relay, ControlPlaneProofs

\* The part of the type invariant that is the relay's own.
RegistryTypes ==
    /\ conn \in [Peer -> ConnState]
    /\ daemonOf \in [Session -> Peer \cup {NoPeer}]
    /\ watching \in [Peer -> SUBSET Session]
    /\ controller \in [Session -> Controller]
    /\ owed \in [Peer -> SUBSET [session: Session, version: Nat]]

\* What makes the registry's consistency inductive: a goroutine that is gone
\* has no call, one that is leaving only releases, and a grant that is still
\* on its way belongs to a watcher.
CallFitsConn(p) ==
    /\ conn[p] = "gone" => call[p].at = "idle"
    /\ conn[p] = "leaving" /\ call[p].at # "idle" => call[p].op = "release"
    /\ call[p].at # "idle" /\ call[p].op \in {"acquire", "renew"}
          => call[p].session \in watching[p]

RegistryInv ==
    /\ RegistryTypes
    /\ RegistryConsistent
    /\ \A p \in Peer : CallFitsConn(p)

RelayInv == ControlInv /\ RegistryInv

-----------------------------------------------------------------------------
(* What a relay step does to the control plane                             *)

\* Nothing happens to the control plane.
LEMMA ControlStutter ==
    ASSUME ControlInv, UNCHANGED controlVars
    PROVE  ControlInv' /\ LeaseStep
    BY DEF controlVars, ControlInv, ControlTypeOK, CallOK, LeaseTypeOK,
       LeaseStep, leaseVars

\* A connection comes with a token of its own.
LEMMA ConnectStep ==
    ASSUME ControlInv, NEW p \in Peer, Connect(p)
    PROVE  ControlInv' /\ LeaseStep
    BY DEF Connect, ControlInv, ControlTypeOK, CallOK, LeaseTypeOK, LeaseStep,
       leaseVars

\* A goroutine that has handled an answer.
LEMMA AnswerHandled ==
    ASSUME ControlInv, NEW p \in Peer, EndOfCall(p), unchangedDatabase
    PROVE  ControlInv' /\ LeaseStep
<1>1. authorized' \subseteq Peer
    BY DEF unchangedDatabase, ControlInv, ControlTypeOK
<1> QED BY <1>1, EndStep DEF EndOfCall, unchangedDatabase

\* A goroutine that asks.
LEMMA AskStep ==
    ASSUME ControlInv, NEW p \in Peer, NEW op \in {"watch"} \cup LeaseOps,
           NEW s \in Session, NEW v \in Nat, Begin(p, op, s, v),
           unchangedDatabase
    PROVE  ControlInv' /\ LeaseStep
    BY BeginStep DEF unchangedDatabase

LEMMA ConnectionsControl ==
    ASSUME ControlInv, RegistryTypes, NEW p \in Peer, Connections(p)
    PROVE  ControlInv' /\ LeaseStep
<1>1. CASE Connect(p)
    BY <1>1, ConnectStep
<1>2. CASE LoseConnection(p) \/ RemovePeer(p) \/ Depart(p)
    BY <1>2, ControlStutter DEF LoseConnection, RemovePeer, Depart
<1>3. CASE CloseRelease(p)
    <2>1. PICK o \in owed[p] : Begin(p, "release", o.session, o.version)
        BY <1>3 DEF CloseRelease
    <2>2. o.session \in Session /\ o.version \in Nat
        BY <2>1 DEF RegistryTypes
    <2> QED BY <1>3, <2>1, <2>2, AskStep DEF CloseRelease, LeaseOps
<1>4. CASE EndCloseRelease(p)
    BY <1>4, AnswerHandled DEF EndCloseRelease
<1> QED BY <1>1, <1>2, <1>3, <1>4 DEF Connections

LEMMA MessagesControl ==
    ASSUME ControlInv, RegistryTypes, NEW p \in Peer, ViewerMessages(p)
    PROVE  ControlInv' /\ LeaseStep
<1>1. ASSUME NEW s \in Session, AskWatch(p, s) \/ AskAcquire(p, s)
      PROVE  ControlInv' /\ LeaseStep
    BY <1>1, AskStep DEF AskWatch, AskAcquire, LeaseOps
<1>2. ASSUME NEW s \in Session, AskOwn(p, "renew", s) \/ AskOwn(p, "release", s)
      PROVE  ControlInv' /\ LeaseStep
    <2>1. controller[s].version \in Nat
        BY DEF RegistryTypes, Controller
    <2> QED BY <1>2, <2>1, AskStep DEF AskOwn, LeaseOps
<1>3. ASSUME NEW s \in Session, Resize(p, s) \/ InputExpired(p, s)
      PROVE  ControlInv' /\ LeaseStep
    BY <1>3, ControlStutter DEF Resize, InputExpired
<1>4. CASE FinishWatch(p) \/ FinishReleased(p)
    BY <1>4, AnswerHandled DEF FinishWatch, FinishReleased
<1>5. ASSUME NEW op, FinishGrant(p, op) \/ FinishRefused(p, op) \/ FinishFailed(p, op)
      PROVE  ControlInv' /\ LeaseStep
    BY <1>5, AnswerHandled DEF FinishGrant, FinishRefused, FinishFailed
<1> QED BY <1>1, <1>2, <1>3, <1>4, <1>5 DEF ViewerMessages

LEMMA CrashControl ==
    ASSUME ControlInv, Crash
    PROVE  ControlInv' /\ LeaseStep
<1>1. \A p \in Peer : call'[p] = Idle
    BY DEF Crash
<1>2. \A p \in Peer : CallOK(p)'
    BY <1>1, IdleCall DEF CallOK, ControlInv, ControlTypeOK, LeaseTypeOK,
       Crash, unchangedDatabase
<1>3. ControlTypeOK'
    BY IdleCall DEF Crash, unchangedDatabase, ControlInv, ControlTypeOK,
       LeaseTypeOK
<1> QED BY <1>2, <1>3 DEF ControlInv, Crash, unchangedDatabase, LeaseStep,
        leaseVars

\* Whatever the relay does is a step of the control plane's invariant and of
\* the lease table.
LEMMA RelayControlStep ==
    ASSUME ControlInv, RegistryTypes, [RelayNext]_relayVars
    PROVE  ControlInv' /\ LeaseStep
<1>1. CASE RelayEnvironment
    BY <1>1, EnvironmentStep DEF RelayEnvironment, Environment
<1>2. ASSUME NEW p \in Peer, Connections(p) PROVE ControlInv' /\ LeaseStep
    BY <1>2, ConnectionsControl
<1>3. ASSUME NEW p \in Viewer, ViewerMessages(p) PROVE ControlInv' /\ LeaseStep
    BY <1>3, MessagesControl, RelayAssumption
<1>4. ASSUME NEW p \in Daemon, NEW s \in Session, SessionOnline(p, s)
      PROVE  ControlInv' /\ LeaseStep
    BY <1>4, ControlStutter DEF SessionOnline
<1>5. CASE Crash
    BY <1>5, CrashControl
<1>6. CASE UNCHANGED relayVars
    BY <1>6, ControlStutter DEF relayVars
<1> QED BY <1>1, <1>2, <1>3, <1>4, <1>5, <1>6 DEF RelayNext

-----------------------------------------------------------------------------
(* What a relay step does to the registry                                  *)

\* A call that exists keeps its operation and its session, and none appears.
CallsKept ==
    \A q \in Peer :
        IF call[q].at = "idle" THEN call'[q] = call[q]
        ELSE call'[q].op = call[q].op /\ call'[q].session = call[q].session

\* Serving a call, or failing it, keeps what it asks for.
LEMMA ServeKeepsCalls ==
    ASSUME ControlInv, NEW p \in Peer, Serve(p) \/ FailCall(p)
    PROVE  CallsKept
<1>1. call \in [Peer -> Call] /\ call[p].at # "idle"
    BY DEF ControlInv, ControlTypeOK, Serve, Validate, CheckActive, Upsert,
        Renew, Release, FailCall
<1>2. ASSUME NEW o, NEW v, NEW e, Answer(p, o, v, e) PROVE CallsKept
    BY <1>1, <1>2 DEF Answer, CallsKept, Idle
<1>3. ASSUME Validate(p) PROVE CallsKept
    BY <1>1, <1>2, <1>3 DEF Validate, Reply, CallsKept, Call
<1>4. ASSUME CheckActive(p) PROVE CallsKept
    BY <1>1, <1>2, <1>4 DEF CheckActive, Reply, CallsKept, Call
<1>5. ASSUME Upsert(p) \/ Renew(p) \/ Release(p) \/ FailCall(p) PROVE CallsKept
    BY <1>2, <1>5 DEF Upsert, Renew, Release, FailCall, Reply, WriteGrant
<1> QED BY <1>3, <1>4, <1>5 DEF Serve

\* The control plane's own steps leave the registry's invariant alone.
LEMMA EnvironmentRegistry ==
    ASSUME ControlInv, RegistryInv, RelayEnvironment
    PROVE  RegistryInv'
<1>1. CallsKept
    <2>1. ASSUME NEW p \in Peer, Serve(p) \/ FailCall(p) PROVE CallsKept
        BY <2>1, ServeKeepsCalls
    <2>2. ASSUME UNCHANGED call PROVE CallsKept
        BY <2>2 DEF CallsKept
    <2> QED BY <2>1, <2>2 DEF RelayEnvironment, ClockTick, CreateSession,
            DropLease, Heartbeat, PatchSession, ExpireToken
<1>2. UNCHANGED <<conn, daemonOf, watching, controller, owed>>
    BY DEF RelayEnvironment, relayOwnVars, registryVars
<1>3. RegistryTypes' /\ RegistryConsistent'
    BY <1>2 DEF RegistryInv, RegistryTypes, RegistryConsistent
<1>4. ASSUME NEW q \in Peer PROVE CallFitsConn(q)'
    <2>1. CASE call[q].at = "idle"
        BY <1>1, <1>2, <2>1 DEF CallsKept, CallFitsConn
    <2>2. CASE call[q].at # "idle"
        BY <1>1, <1>2, <2>2 DEF CallsKept, RegistryInv, CallFitsConn
    <2> QED BY <2>1, <2>2
<1> QED BY <1>3, <1>4 DEF RegistryInv

\* A slot holds a version and an expiry.
LEMMA ControllerTypes == NoController \in Controller
    BY DEF NoController, Controller

\* Ending a call keeps every CallFitsConn when watching does not shrink and
\* nobody leaves.
LEMMA EndOfCallFits ==
    ASSUME ControlInv, RegistryInv, NEW p \in Peer, EndOfCall(p),
           \A q \in Peer : watching[q] \subseteq watching'[q],
           \A q \in Peer : conn'[q] = conn[q] \/ conn'[q] = "dead"
    PROVE  \A q \in Peer : CallFitsConn(q)'
<1> TAKE q \in Peer
<1>1. call \in [Peer -> Call]
    BY DEF ControlInv, ControlTypeOK
<1>2. CASE q = p
    BY <1>1, <1>2, IdleCall DEF EndOfCall, CallFitsConn
<1>3. CASE q # p
    BY <1>1, <1>3 DEF EndOfCall, CallFitsConn, RegistryInv
<1> QED BY <1>2, <1>3

\* Asking: the goroutine is running, and an acquire or a renew is asked for
\* by a watcher.
LEMMA AskFits ==
    ASSUME ControlInv, RegistryInv, NEW p \in Peer,
           NEW op \in {"watch"} \cup LeaseOps, NEW s \in Session, NEW v \in Nat,
           Begin(p, op, s, v),
           conn[p] \in {"open", "leaving"},
           conn[p] = "leaving" => op = "release",
           op \in {"acquire", "renew"} => s \in watching[p],
           UNCHANGED <<conn, watching>>
    PROVE  \A q \in Peer : CallFitsConn(q)'
<1> TAKE q \in Peer
<1>1. call \in [Peer -> Call]
    BY DEF ControlInv, ControlTypeOK
<1>2. CASE q = p
    BY <1>1, <1>2 DEF Begin, Idle, CallFitsConn
<1>3. CASE q # p
    BY <1>1, <1>3 DEF Begin, CallFitsConn, RegistryInv
<1> QED BY <1>2, <1>3

\* A connection that joins, dies, is purged, releases and goes.
LEMMA ConnectionsRegistry ==
    ASSUME ControlInv, RegistryInv, NEW p \in Peer, Connections(p)
    PROVE  RegistryInv'
<1>1. CASE Connect(p) \/ LoseConnection(p)
    <2>1. /\ UNCHANGED <<call, daemonOf, watching, controller, owed>>
          /\ \/ conn[p] = "gone" /\ conn' = [conn EXCEPT ![p] = "open"]
             \/ conn[p] = "open" /\ conn' = [conn EXCEPT ![p] = "dead"]
        BY <1>1 DEF Connect, LoseConnection, registryVars, controlVars
    <2>2. RegistryTypes'
        BY <2>1 DEF RegistryInv, RegistryTypes, ConnState
    <2>3. RegistryConsistent'
        <3>1. \A q \in Peer : conn[q] \in {"open", "dead"}
                                 => conn'[q] \in {"open", "dead"}
            BY <2>1 DEF RegistryInv, RegistryTypes
        <3>2. \A s \in Session : /\ daemonOf[s] \in Peer \cup {NoPeer}
                                 /\ controller[s].peer \in Peer \cup {NoPeer}
            BY DEF RegistryInv, RegistryTypes, Controller
        <3> QED BY <2>1, <3>1, <3>2 DEF RegistryInv, RegistryConsistent
    <2>4. \A q \in Peer : CallFitsConn(q)'
        BY <2>1 DEF RegistryInv, RegistryTypes, CallFitsConn
    <2> QED BY <2>2, <2>3, <2>4 DEF RegistryInv
<1>2. CASE RemovePeer(p)
    <2>1. /\ conn[p] = "dead" /\ call[p].at = "idle" /\ call' = call
          /\ conn' = [conn EXCEPT ![p] = "leaving"]
          /\ watching' = [watching EXCEPT ![p] = {}]
        BY <1>2 DEF RemovePeer, controlVars
    <2>2. RegistryTypes'
        <3>1. daemonOf' \in [Session -> Peer \cup {NoPeer}]
            BY <1>2 DEF RemovePeer, RegistryInv, RegistryTypes
        <3>2. controller' \in [Session -> Controller]
            BY <1>2, ControllerTypes DEF RemovePeer, RegistryInv, RegistryTypes
        <3>3. {[session |-> s, version |-> controller[s].version] :
                  s \in {t \in Session : controller[t].peer = p}}
                 \subseteq [session: Session, version: Nat]
            BY DEF RegistryInv, RegistryTypes, Controller
        <3>4. owed' \in [Peer -> SUBSET [session: Session, version: Nat]]
            BY <1>2, <3>3 DEF RemovePeer, RegistryInv, RegistryTypes
        <3> QED BY <2>1, <3>1, <3>2, <3>4
                DEF RegistryInv, RegistryTypes, ConnState
    <2>3. RegistryConsistent'
        <3>1. ASSUME NEW s \in Session, daemonOf'[s] # NoPeer
              PROVE  conn'[daemonOf'[s]] \in {"open", "dead"}
            <4>1. daemonOf'[s] = daemonOf[s] /\ daemonOf[s] # p
                BY <1>2, <3>1 DEF RemovePeer
            <4> QED BY <2>1, <3>1, <4>1
                    DEF RegistryInv, RegistryTypes, RegistryConsistent
        <3>2. ASSUME NEW s \in Session, controller'[s].peer # NoPeer
              PROVE  /\ conn'[controller'[s].peer] \in {"open", "dead"}
                     /\ s \in watching'[controller'[s].peer]
            <4>1. controller'[s] = controller[s] /\ controller[s].peer # p
                BY <1>2, <3>2 DEF RemovePeer, NoController
            <4>2. controller[s].peer \in Peer
                BY <3>2, <4>1 DEF RegistryInv, RegistryTypes, Controller
            <4> QED BY <2>1, <3>2, <4>1, <4>2
                    DEF RegistryInv, RegistryTypes, RegistryConsistent
        <3>3. ASSUME NEW q \in Peer, watching'[q] # {}
              PROVE  conn'[q] \in {"open", "dead"}
            BY <2>1, <3>3 DEF RegistryInv, RegistryTypes, RegistryConsistent
        <3> QED BY <3>1, <3>2, <3>3 DEF RegistryConsistent
    <2>4. \A q \in Peer : CallFitsConn(q)'
        BY <2>1 DEF RegistryInv, RegistryTypes, CallFitsConn
    <2> QED BY <2>2, <2>3, <2>4 DEF RegistryInv
<1>3. CASE CloseRelease(p)
    <2>1. PICK o \in owed[p] : /\ Begin(p, "release", o.session, o.version)
                               /\ owed' = [owed EXCEPT ![p] = @ \ {o}]
        BY <1>3 DEF CloseRelease
    <2>2. o.session \in Session /\ o.version \in Nat
        BY <2>1 DEF RegistryInv, RegistryTypes
    <2>3. conn[p] = "leaving" /\ UNCHANGED <<conn, daemonOf, watching, controller>>
        BY <1>3 DEF CloseRelease, registryVars
    <2>4. RegistryTypes' /\ RegistryConsistent'
        BY <2>1, <2>3 DEF RegistryInv, RegistryTypes, RegistryConsistent
    <2>5. \A q \in Peer : CallFitsConn(q)'
        BY <2>1, <2>2, <2>3, AskFits DEF LeaseOps
    <2> QED BY <2>4, <2>5 DEF RegistryInv
<1>4. CASE EndCloseRelease(p)
    <2>1. EndOfCall(p) /\ UNCHANGED <<conn, daemonOf, watching, controller, owed>>
        BY <1>4 DEF EndCloseRelease, relayOwnVars, registryVars
    <2>2. RegistryTypes' /\ RegistryConsistent'
        BY <2>1 DEF RegistryInv, RegistryTypes, RegistryConsistent
    <2> QED BY <2>1, <2>2, EndOfCallFits DEF RegistryInv
<1>5. CASE Depart(p)
    <2>1. /\ conn[p] = "leaving" /\ call[p].at = "idle"
          /\ conn' = [conn EXCEPT ![p] = "gone"]
          /\ UNCHANGED <<call, daemonOf, watching, controller, owed>>
        BY <1>5 DEF Depart, registryVars, controlVars
    <2>2. RegistryTypes'
        BY <2>1 DEF RegistryInv, RegistryTypes, ConnState
    <2>3. RegistryConsistent'
        BY <2>1 DEF RegistryInv, RegistryTypes, RegistryConsistent
    <2>4. \A q \in Peer : CallFitsConn(q)'
        BY <2>1 DEF RegistryInv, RegistryTypes, CallFitsConn
    <2> QED BY <2>2, <2>3, <2>4 DEF RegistryInv
<1> QED BY <1>1, <1>2, <1>3, <1>4, <1>5 DEF Connections

\* A slot that is written for a watcher, or cleared, stays a watcher's.
LEMMA SlotKept ==
    ASSUME RegistryInv, NEW p \in Peer, NEW s \in Session, NEW c \in Controller,
           controller' = [controller EXCEPT ![s] = c],
           c.peer = NoPeer \/ (c.peer = p /\ s \in watching[p]
                                  /\ conn[p] \in {"open", "dead"}),
           UNCHANGED <<conn, daemonOf, watching, owed>>
    PROVE  RegistryTypes' /\ RegistryConsistent'
<1>1. RegistryTypes'
    BY DEF RegistryInv, RegistryTypes
<1>2. ASSUME NEW t \in Session, controller'[t].peer # NoPeer
      PROVE  /\ conn'[controller'[t].peer] \in {"open", "dead"}
             /\ t \in watching'[controller'[t].peer]
    <2>1. CASE t = s
        BY <1>2, <2>1 DEF RegistryInv, RegistryTypes
    <2>2. CASE t # s
        BY <1>2, <2>2 DEF RegistryInv, RegistryTypes, RegistryConsistent
    <2> QED BY <2>1, <2>2
<1> QED BY <1>1, <1>2 DEF RegistryInv, RegistryConsistent

LEMMA ClearedSlotKept ==
    ASSUME RegistryInv, NEW p \in Peer, NEW s \in Session, ClearController(s, p),
           UNCHANGED <<conn, daemonOf, watching, owed>>
    PROVE  RegistryTypes' /\ RegistryConsistent'
<1>1. CASE controller' = controller
    BY <1>1 DEF RegistryInv, RegistryTypes, RegistryConsistent
<1>2. CASE controller' = [controller EXCEPT ![s] = NoController]
    <2>1. NoController.peer = NoPeer
        BY DEF NoController
    <2> QED BY <1>2, <2>1, ControllerTypes, SlotKept
<1> QED BY <1>1, <1>2 DEF ClearController

\* A closed socket in the registry's eyes is still a connection.
LEMMA ClosingKept ==
    ASSUME RegistryInv, NEW p \in Peer, conn[p] \in {"open", "dead"},
           CloseOnError(p), UNCHANGED <<daemonOf, watching, controller, owed>>
    PROVE  RegistryTypes' /\ RegistryConsistent'
<1>1. RegistryTypes'
    BY DEF CloseOnError, RegistryInv, RegistryTypes, ConnState
<1>2. \A q \in Peer : conn[q] \in {"open", "dead"}
                         => conn'[q] \in {"open", "dead"}
    BY DEF CloseOnError, RegistryInv, RegistryTypes
<1>3. \A s \in Session : /\ daemonOf[s] \in Peer \cup {NoPeer}
                         /\ controller[s].peer \in Peer \cup {NoPeer}
    BY DEF RegistryInv, RegistryTypes, Controller
<1> QED BY <1>1, <1>2, <1>3 DEF RegistryInv, RegistryConsistent

\* A viewer's message, and the end of what it asked for.
LEMMA MessagesRegistry ==
    ASSUME ControlInv, RegistryInv, NEW p \in Peer, ViewerMessages(p)
    PROVE  RegistryInv'
<1>1. ASSUME NEW s \in Session,
             \/ AskWatch(p, s) \/ AskAcquire(p, s)
             \/ AskOwn(p, "renew", s) \/ AskOwn(p, "release", s)
      PROVE  RegistryInv'
    <2>1. UNCHANGED <<conn, daemonOf, watching, controller, owed>>
        BY <1>1 DEF AskWatch, AskAcquire, AskOwn, relayOwnVars, registryVars
    <2>2. RegistryTypes' /\ RegistryConsistent'
        BY <2>1 DEF RegistryInv, RegistryTypes, RegistryConsistent
    <2>3. controller[s].version \in Nat /\ conn[p] = "open"
        BY <1>1 DEF RegistryInv, RegistryTypes, Controller, Reading, AskWatch,
            AskAcquire, AskOwn
    <2>4. CASE AskWatch(p, s)
        BY <2>1, <2>2, <2>3, <2>4, AskFits DEF AskWatch, RegistryInv
    <2>5. CASE AskAcquire(p, s)
        BY <2>1, <2>2, <2>3, <2>5, AskFits DEF AskAcquire, LeaseOps, RegistryInv
    <2>6. ASSUME NEW op \in {"renew", "release"}, AskOwn(p, op, s)
          PROVE  RegistryInv'
        <3>1. s \in watching[p]
            BY <2>6, RelayAssumption DEF AskOwn, RegistryInv, RegistryConsistent
        <3> QED BY <2>1, <2>2, <2>3, <2>6, <3>1, AskFits
                DEF AskOwn, LeaseOps, RegistryInv
    <2> QED BY <1>1, <2>4, <2>5, <2>6
<1>2. ASSUME NEW s \in Session, Resize(p, s) PROVE RegistryInv'
    <2>1. RegistryTypes' /\ RegistryConsistent'
        BY <1>2, ClosingKept DEF Resize, Reading, registryVars
    <2>2. \A q \in Peer : CallFitsConn(q)'
        BY <1>2 DEF Resize, CloseOnError, controlVars, registryVars,
            RegistryInv, RegistryTypes, CallFitsConn
    <2> QED BY <2>1, <2>2 DEF RegistryInv
<1>3. ASSUME NEW s \in Session, InputExpired(p, s) PROVE RegistryInv'
    <2>1. RegistryTypes' /\ RegistryConsistent'
        BY <1>3, ClearedSlotKept DEF InputExpired
    <2>2. \A q \in Peer : CallFitsConn(q)'
        BY <1>3 DEF InputExpired, controlVars, RegistryInv, CallFitsConn
    <2> QED BY <2>1, <2>2 DEF RegistryInv
<1>4. ASSUME NEW op, Answered(p, op)
      PROVE  /\ conn[p] \in {"open", "dead"} /\ call[p].session \in Session
             /\ call[p].version \in Nat /\ call[p].expires \in Nat
             /\ op \in {"acquire", "renew"} => call[p].session \in watching[p]
    BY <1>4 DEF Answered, ControlInv, ControlTypeOK, CallOK, Call, RegistryInv,
        CallFitsConn
<1>5. CASE FinishWatch(p)
    <2>1. conn[p] \in {"open", "dead"} /\ call[p].session \in Session
        BY <1>4, <1>5 DEF FinishWatch
    <2>2. conn' = conn \/ CloseOnError(p)
        BY <1>5 DEF FinishWatch
    <2>3. /\ \/ watching' = watching
             \/ watching' = [watching EXCEPT ![p] = @ \cup {call[p].session}]
          /\ UNCHANGED <<daemonOf, controller, owed>> /\ EndOfCall(p)
        BY <1>5 DEF FinishWatch
    <2>4. /\ conn' \in [Peer -> ConnState]
          /\ \A q \in Peer : conn'[q] = conn[q] \/ conn'[q] = "dead"
          /\ \A q \in Peer : conn[q] \in {"open", "dead"}
                                => conn'[q] \in {"open", "dead"}
          /\ conn'[p] \in {"open", "dead"}
        BY <2>1, <2>2 DEF CloseOnError, RegistryInv, RegistryTypes, ConnState
    <2>5. /\ watching' \in [Peer -> SUBSET Session]
          /\ \A q \in Peer : watching[q] \subseteq watching'[q]
          /\ \A q \in Peer : q # p => watching'[q] = watching[q]
        BY <2>1, <2>3 DEF RegistryInv, RegistryTypes
    <2>6. RegistryTypes'
        BY <2>3, <2>4, <2>5 DEF RegistryInv, RegistryTypes
    <2>7. \A s \in Session : /\ daemonOf[s] \in Peer \cup {NoPeer}
                             /\ controller[s].peer \in Peer \cup {NoPeer}
        BY DEF RegistryInv, RegistryTypes, Controller
    <2>8. RegistryConsistent'
        BY <2>3, <2>4, <2>5, <2>7 DEF RegistryInv, RegistryConsistent
    <2>9. \A q \in Peer : CallFitsConn(q)'
        BY <2>3, <2>4, <2>5, EndOfCallFits
    <2> QED BY <2>6, <2>8, <2>9 DEF RegistryInv
<1>6. ASSUME NEW op, FinishGrant(p, op), op \in {"acquire", "renew"}
      PROVE  RegistryInv'
    <2> DEFINE s == call[p].session
               c == [peer |-> p, version |-> call[p].version,
                     expires |-> call[p].expires]
    <2>1. /\ conn[p] \in {"open", "dead"} /\ s \in Session
          /\ s \in watching[p] /\ c \in Controller /\ c.peer = p
        BY <1>4, <1>6 DEF FinishGrant, Controller
    <2>2. /\ controller' = [controller EXCEPT ![s] = c]
          /\ UNCHANGED <<conn, daemonOf, watching, owed>> /\ EndOfCall(p)
        BY <1>6 DEF FinishGrant, SetController
    <2> HIDE DEF s, c
    <2>3. RegistryTypes' /\ RegistryConsistent'
        BY <2>1, <2>2, SlotKept
    <2> QED BY <2>2, <2>3, EndOfCallFits DEF RegistryInv
<1>7. ASSUME NEW op, FinishReleased(p) \/ FinishRefused(p, op) PROVE RegistryInv'
    <2>1. /\ UNCHANGED <<conn, daemonOf, watching, owed>> /\ EndOfCall(p)
          /\ ClearController(call[p].session, p) \/ controller' = controller
        BY <1>7 DEF FinishReleased, FinishRefused
    <2>2. call[p].session \in Session
        BY <1>4, <1>7 DEF FinishReleased, FinishRefused
    <2>3. CASE controller' = controller
        BY <2>1, <2>3, EndOfCallFits
           DEF RegistryInv, RegistryTypes, RegistryConsistent
    <2>4. CASE ClearController(call[p].session, p)
        BY <2>1, <2>2, <2>4, ClearedSlotKept, EndOfCallFits DEF RegistryInv
    <2> QED BY <2>1, <2>3, <2>4
<1>8. ASSUME NEW op, FinishFailed(p, op) PROVE RegistryInv'
    <2>1. /\ conn[p] \in {"open", "dead"} /\ CloseOnError(p) /\ EndOfCall(p)
          /\ UNCHANGED <<daemonOf, watching, controller, owed>>
        BY <1>4, <1>8 DEF FinishFailed, registryVars
    <2>2. \A q \in Peer : conn'[q] = conn[q] \/ conn'[q] = "dead"
        BY <2>1 DEF CloseOnError, RegistryInv, RegistryTypes
    <2> QED BY <2>1, <2>2, ClosingKept, EndOfCallFits DEF RegistryInv
<1> QED BY <1>1, <1>2, <1>3, <1>5, <1>6, <1>7, <1>8 DEF ViewerMessages

\* A daemon that announces a session.
LEMMA OnlineRegistry ==
    ASSUME RegistryInv, NEW p \in Peer, NEW s \in Session, SessionOnline(p, s)
    PROVE  RegistryInv'
<1>1. /\ conn[p] = "open" /\ daemonOf' = [daemonOf EXCEPT ![s] = p]
      /\ UNCHANGED <<call, conn, watching, controller, owed>>
    BY DEF SessionOnline, Reading, controlVars
<1>2. RegistryTypes'
    BY <1>1 DEF RegistryInv, RegistryTypes
<1>3. RegistryConsistent'
    BY <1>1 DEF RegistryInv, RegistryTypes, RegistryConsistent
<1> QED BY <1>1, <1>2, <1>3 DEF RegistryInv, CallFitsConn

\* A crash leaves an empty registry and no calls.
LEMMA CrashRegistry ==
    ASSUME RegistryInv, Crash
    PROVE  RegistryInv'
<1>1. RegistryTypes'
    BY ControllerTypes DEF Crash, RegistryTypes, ConnState
<1>2. RegistryConsistent'
    BY DEF Crash, RegistryConsistent, NoController
<1>3. \A q \in Peer : CallFitsConn(q)'
    BY IdleCall DEF Crash, CallFitsConn
<1> QED BY <1>1, <1>2, <1>3 DEF RegistryInv

LEMMA RelayInitInv == RelayInit => RelayInv
<1> SUFFICES ASSUME RelayInit PROVE RelayInv
    OBVIOUS
<1>1. ControlInv
    BY ControlInitInv DEF RelayInit
<1>2. RegistryTypes
    BY ControllerTypes DEF RelayInit, RegistryTypes, ConnState
<1>3. RegistryConsistent
    BY DEF RelayInit, RegistryConsistent, NoController
<1>4. \A q \in Peer : CallFitsConn(q)
    BY IdleCall DEF RelayInit, ControlInit, CallFitsConn
<1> QED BY <1>1, <1>2, <1>3, <1>4 DEF RelayInv, RegistryInv

LEMMA RelayStep == RelayInv /\ [RelayNext]_relayVars => RelayInv' /\ LeaseStep
<1> SUFFICES ASSUME RelayInv, [RelayNext]_relayVars
             PROVE  RelayInv' /\ LeaseStep
    OBVIOUS
<1>1. ControlInv /\ RegistryInv /\ RegistryTypes
    BY DEF RelayInv, RegistryInv
<1>2. ControlInv' /\ LeaseStep
    BY <1>1, RelayControlStep
<1>3. ASSUME RelayEnvironment PROVE RegistryInv'
    BY <1>1, <1>3, EnvironmentRegistry
<1>4. ASSUME NEW p \in Peer, Connections(p) PROVE RegistryInv'
    BY <1>1, <1>4, ConnectionsRegistry
<1>5. ASSUME NEW p \in Viewer, ViewerMessages(p) PROVE RegistryInv'
    BY <1>1, <1>5, MessagesRegistry, RelayAssumption
<1>6. ASSUME NEW p \in Daemon, NEW s \in Session, SessionOnline(p, s)
      PROVE  RegistryInv'
    BY <1>1, <1>6, OnlineRegistry, RelayAssumption
<1>7. ASSUME Crash PROVE RegistryInv'
    BY <1>1, <1>7, CrashRegistry
<1>8. ASSUME UNCHANGED relayVars PROVE RegistryInv'
    BY <1>1, <1>8 DEF relayVars, relayOwnVars, registryVars, controlVars,
        RegistryInv, RegistryTypes, RegistryConsistent, CallFitsConn
<1> QED BY <1>2, <1>3, <1>4, <1>5, <1>6, <1>7, <1>8 DEF RelayNext, RelayInv

-----------------------------------------------------------------------------
\* The relay and the control plane under it keep their types.
THEOREM RelayTypes == RelaySpec => []RelayTypeOK
<1>1. RelayInv => RelayTypeOK
    BY DEF RelayInv, ControlInv, RegistryInv, RegistryTypes, RelayTypeOK
<1> QED BY <1>1, RelayInitInv, RelayStep, PTL DEF RelaySpec

\* Whatever joins, leaves, crashes and answers late: the registry names live
\* connections only, and the holder of a slot watches the session.
THEOREM RelayRegistry == RelaySpec => []RegistryConsistent
<1>1. RelayInv => RegistryConsistent
    BY DEF RelayInv, RegistryInv
<1> QED BY <1>1, RelayInitInv, RelayStep, PTL DEF RelaySpec

\* What the relay makes the control plane do, crashes included, is what Lease
\* promises: no lease is taken from a device while it runs.
THEOREM RelayImplementsLease == RelaySpec => LeaseSpec
<1>1. RelayInit => LeaseInit
    BY ControlInitInv DEF RelayInit
<1>2. RelayInv /\ [RelayNext]_relayVars => [LeaseNext]_leaseVars
    BY RelayStep DEF LeaseStep
<1> QED BY <1>1, <1>2, RelayInitInv, RelayStep, PTL DEF RelaySpec, LeaseSpec

-----------------------------------------------------------------------------
(* One remote controller                                                   *)

\* A device has one tab, and no host reports the end of a session: what takes
\* a lease away behind the back of a slot is left out.
OneTabEach ==
    /\ \A p, q \in Viewer : p # q => DeviceOf[p] # DeviceOf[q]
    /\ PatchStatus \subseteq {"running"}

\* The row of s is the one p's device was granted, until e or later.
Covers(s, p, e) == lease[s].holder = DeviceOf[p] /\ lease[s].expires >= e

\* The lease of p on s may be gone, and the answer that says so is at the relay.
Released(p, s) ==
    /\ call[p].at = "reply" /\ call[p].op = "release" /\ call[p].session = s
    /\ call[p].outcome \in {"released", "error"}

\* Only viewers ask; nothing ends later than a TTL from now; nothing is dropped.
HoldBounds ==
    /\ \A p \in Peer : call[p].at # "idle" \/ owed[p] # {} => p \in Viewer
    /\ \A s \in Session : /\ controller[s].peer \in Viewer \cup {NoPeer}
                          /\ controller[s].expires <= clock + TTL
                          /\ drops[s] = 0
    /\ \A p \in Peer : call[p].at = "reply" /\ call[p].outcome = "granted"
                          => call[p].expires <= clock + TTL

\* A grant on its way to its slot is still the row.
GrantOK(p) ==
    call[p].at = "reply" /\ call[p].outcome = "granted" /\ clock < call[p].expires
        => Covers(call[p].session, p, call[p].expires)

\* A call that is about to write will not shorten what the slot promises.
NowOK(p) ==
    call[p].at \in {"check", "write"} /\ controller[call[p].session].peer = p
        => controller[call[p].session].expires <= call[p].now + TTL

\* A slot that still runs is the row, unless its release is being answered.
SlotOK(s) ==
    LET p == controller[s].peer IN
    p # NoPeer /\ conn[p] = "open" /\ clock < controller[s].expires /\ ~Released(p, s)
        => Covers(s, p, controller[s].expires)

HoldInv ==
    /\ HoldBounds
    /\ \A p \in Peer : GrantOK(p) /\ NowOK(p)
    /\ \A s \in Session : SlotOK(s)

\* The numbers and the ranges the steps below count on.
LEMMA HoldNumbers ==
    ASSUME RelayInv
    PROVE  /\ clock \in Nat /\ TTL \in Nat \ {0}
           /\ \A s \in Session : /\ lease[s].expires \in Nat
                                 /\ controller[s] \in Controller
                                 /\ controller[s].expires \in Nat
           /\ \A p \in Peer : /\ call[p].now \in Nat /\ call[p].now <= clock
                              /\ call[p].expires \in Nat /\ call[p].version \in Nat
                              /\ call[p].at # "idle" => call[p].session \in Session
           /\ call \in [Peer -> Call] /\ controller \in [Session -> Controller]
           /\ lease \in [Session -> Row] /\ conn \in [Peer -> ConnState]
           /\ NoPeer \notin Peer /\ Viewer \subseteq Peer
    BY LeaseAssumption, RelayAssumption
       DEF RelayInv, ControlInv, ControlTypeOK, CallOK, LeaseTypeOK, Row, Call,
           RegistryInv, RegistryTypes, Controller

LEMMA HoldInit == RelayInit => HoldInv
<1> SUFFICES ASSUME RelayInit PROVE HoldInv
    OBVIOUS
<1>1. /\ clock = 0 /\ TTL \in Nat
      /\ \A p \in Peer : call[p] = Idle /\ owed[p] = {}
      /\ \A s \in Session : controller[s] = NoController /\ drops[s] = 0
    BY LeaseAssumption DEF RelayInit, ControlInit, LeaseInit
<1>2. /\ Idle.at = "idle" /\ Idle.outcome = "none"
      /\ NoController.peer = NoPeer /\ NoController.expires = 0
    BY DEF Idle, NoController
<1> QED BY <1>1, <1>2 DEF HoldInv, HoldBounds, GrantOK, NowOK, SlotOK

\* A step that writes no row and fills no slot.
QuietCall(q) ==
    /\ call'[q].at # "idle" \/ owed'[q] # {} => q \in Viewer
    /\ call'[q].at = "reply" /\ call'[q].outcome = "granted" => call'[q] = call[q]
    /\ call'[q].at \in {"check", "write"} =>
          /\ call'[q].session = call[q].session
          /\ \/ call[q].at \in {"check", "write"} /\ call'[q].now = call[q].now
             \/ call'[q].now = clock
    /\ \A s \in Session : Released(q, s) =>
          Released(q, s)' \/ conn'[q] # "open" \/ controller'[s].peer # q
    /\ conn'[q] = "open" => conn[q] = "open" \/ \A s \in Session : controller[s].peer # q

\* When every goroutine is quiet nothing can go wrong.
LEMMA QuietHold ==
    ASSUME RelayInv, HoldInv, UNCHANGED <<clock, lease, drops>>,
           \A s \in Session : controller'[s] \in {controller[s], NoController},
           \A q \in Peer : QuietCall(q), RelayInv'
    PROVE  HoldInv'
<1>1. NoController.peer = NoPeer /\ NoController.expires = 0
    BY DEF NoController
<1>2. HoldBounds'
  <2>1. \A p \in Peer : call'[p].at = "reply" /\ call'[p].outcome = "granted"
                          => call'[p].expires <= clock' + TTL
    BY DEF QuietCall, HoldInv, HoldBounds
  <2>2. \A s \in Session : /\ controller'[s].peer \in Viewer \cup {NoPeer}
                           /\ controller'[s].expires <= clock' + TTL
                           /\ drops'[s] = 0
    BY <1>1, HoldNumbers DEF HoldInv, HoldBounds
  <2> QED BY <2>1, <2>2 DEF QuietCall, HoldBounds
<1>3. ASSUME NEW p \in Peer PROVE GrantOK(p)'
    BY DEF GrantOK, HoldInv, QuietCall, Covers
<1>4. ASSUME NEW p \in Peer PROVE NowOK(p)'
  <2> SUFFICES ASSUME call'[p].at \in {"check", "write"},
                      controller'[call'[p].session].peer = p
               PROVE  controller'[call'[p].session].expires <= call'[p].now + TTL
      BY DEF NowOK
  <2>0. call'[p].at # "idle" => call'[p].session \in Session
      BY DEF RelayInv, ControlInv, CallOK
  <2>1. call'[p].session = call[p].session /\ call'[p].session \in Session
      BY <2>0 DEF QuietCall
  <2>2. controller'[call'[p].session] = controller[call[p].session]
      BY <1>1, <2>1, HoldNumbers
  <2>3. CASE call[p].at \in {"check", "write"} /\ call'[p].now = call[p].now
      BY <2>1, <2>2, <2>3 DEF HoldInv, NowOK
  <2>4. CASE call'[p].now = clock
      BY <2>1, <2>2, <2>4 DEF HoldInv, HoldBounds
  <2> QED BY <2>3, <2>4 DEF QuietCall
<1>5. ASSUME NEW s \in Session PROVE SlotOK(s)'
  <2> SUFFICES ASSUME controller'[s].peer # NoPeer, conn'[controller'[s].peer] = "open",
                      clock' < controller'[s].expires, ~Released(controller[s].peer, s)'
               PROVE  Covers(s, controller[s].peer, controller[s].expires)'
      BY DEF SlotOK
  <2>1. controller'[s] = controller[s] /\ controller[s].peer # NoPeer
      BY <1>1
  <2>2. PICK p \in Peer : p = controller[s].peer
      BY <2>1, HoldNumbers DEF Controller
  <2>3. conn'[p] = "open" /\ ~Released(p, s)' /\ controller'[s].peer = p
      BY <2>1, <2>2
  <2>4. QuietCall(p) /\ clock < controller[s].expires
      BY <2>1
  <2>5. conn[p] = "open" /\ ~Released(p, s)
      BY <2>2, <2>3, <2>4 DEF QuietCall
  <2>6. Covers(s, p, controller[s].expires)
      BY <2>1, <2>2, <2>4, <2>5 DEF HoldInv, SlotOK
  <2> QED BY <2>1, <2>2, <2>6 DEF Covers
<1> QED BY <1>2, <1>3, <1>4, <1>5 DEF HoldInv

\* A goroutine whose call does not move.
LEMMA SameCallQuiet ==
    ASSUME HoldInv, NEW q \in Peer, call'[q] = call[q],
           owed'[q] # {} => owed[q] # {} \/ q \in Viewer,
           conn'[q] = "open" => conn[q] = "open" \/ \A s \in Session : controller[s].peer # q
    PROVE  QuietCall(q)
    BY DEF QuietCall, HoldInv, HoldBounds, Released

\* A goroutine that asks: nothing was being answered.
LEMMA AskQuiet ==
    ASSUME RelayInv, NEW q \in Viewer, NEW op, NEW s, NEW v, Begin(q, op, s, v),
           conn'[q] = conn[q]
    PROVE  QuietCall(q)
<1>1. call[q].at = "idle" /\ call'[q].at = "validate" /\ call'[q].outcome = "none"
    BY HoldNumbers DEF Begin, Idle
<1> QED BY <1>1 DEF QuietCall, Released

\* A call that is answered with anything but a grant, before it has written
\* or by a failure.
LEMMA ReplyQuiet ==
    ASSUME RelayInv, HoldInv, NEW q \in Peer, NEW o, Reply(q, o), o # "granted",
           call[q].at # "idle", call[q].at # "reply" \/ o = "error",
           conn'[q] = conn[q], owed'[q] = owed[q]
    PROVE  QuietCall(q)
<1>1. /\ call'[q].at = "reply" /\ call'[q].outcome = o
      /\ call'[q].op = call[q].op /\ call'[q].session = call[q].session
    BY HoldNumbers DEF Reply, Answer, Idle
<1>2. q \in Viewer
    BY DEF HoldInv, HoldBounds
<1> QED BY <1>1, <1>2 DEF QuietCall, Released

\* An answer that has been handled, with what must become of a release.
LEMMA EndQuiet ==
    ASSUME RelayInv, HoldInv, NEW q \in Peer, EndOfCall(q), owed'[q] = owed[q],
           \A s \in Session : Released(q, s) =>
               conn'[q] # "open" \/ controller'[s].peer # q,
           conn'[q] = "open" => conn[q] = "open"
    PROVE  QuietCall(q)
<1>1. call'[q].at = "idle" /\ call'[q].outcome = "none"
    BY HoldNumbers DEF EndOfCall, Idle
<1> QED BY <1>1 DEF QuietCall, HoldInv, HoldBounds

\* The step moves the call of p only, and p's part of it is quiet.
LEMMA OneCallHold ==
    ASSUME RelayInv, RelayInv', HoldInv, NEW p \in Peer, QuietCall(p),
           \A q \in Peer : q # p => call'[q] = call[q],
           UNCHANGED <<clock, lease, drops>>,
           \A s \in Session : controller'[s] \in {controller[s], NoController},
           \A q \in Peer : q # p => conn'[q] = conn[q] /\ owed'[q] = owed[q]
    PROVE  HoldInv'
<1>1. \A q \in Peer : QuietCall(q)
    BY SameCallQuiet
<1> QED BY <1>1, QuietHold

-----------------------------------------------------------------------------
\* A grant is written over the caller's own row, or over a row that is free.
LEMMA GrantHold ==
    ASSUME RelayInv, RelayInv', HoldInv, OneTabEach, NEW p \in Peer,
           call[p].at = "write", UpsertMatches(p) \/ RenewMatches(p), WriteGrant(p),
           UNCHANGED <<clock, drops, relayOwnVars>>
    PROVE  HoldInv'
<1> DEFINE s == call[p].session
           e == call[p].now + TTL
           v == lease[s].version + 1
<1>1. /\ s \in Session /\ p \in Viewer /\ call[p].now \in Nat /\ call[p].now <= clock
      /\ clock \in Nat /\ TTL \in Nat /\ e \in Nat /\ e <= clock + TTL
    BY HoldNumbers DEF HoldInv, HoldBounds
<1>2. /\ lease' = [lease EXCEPT ![s] = [holder |-> DeviceOf[p], version |-> v, expires |-> e]]
      /\ Answer(p, "granted", v, WholeSeconds(e))
    BY DEF WriteGrant
<1>3. WholeSeconds(e) \in Nat /\ WholeSeconds(e) <= e
    BY <1>1, WholeSecondsBound
<1>4. /\ call'[p].at = "reply" /\ call'[p].outcome = "granted" /\ call'[p].session = s
      /\ call'[p].expires = WholeSeconds(e)
      /\ \A q \in Peer : q # p => call'[q] = call[q]
    BY <1>2, HoldNumbers DEF Answer, Idle
<1>5. /\ lease'[s].holder = DeviceOf[p] /\ lease'[s].expires = e
      /\ \A t \in Session : t # s => lease'[t] = lease[t]
    BY <1>1, <1>2, HoldNumbers
<1>6. UNCHANGED <<conn, controller, owed>>
    BY DEF relayOwnVars, registryVars
<1> HIDE DEF s, e, v
\* Whoever else the row was promised to, the promise is over.
<1>7. ASSUME NEW q \in Viewer, q # p, NEW x \in Nat, clock < x
      PROVE  ~Covers(s, q, x)
    <2>1. DeviceOf[q] # DeviceOf[p]
        BY <1>1, <1>7 DEF OneTabEach
    <2>2. lease[s].expires <= call[p].now \/ lease[s].holder = DeviceOf[p]
        BY DEF UpsertMatches, RenewMatches, OwnVersion, s
    <2>3. lease[s].expires \in Nat
        BY <1>1, HoldNumbers
    <2> QED BY <1>1, <1>7, <2>1, <2>2, <2>3 DEF Covers
<1>8. HoldBounds'
    <2>1. \A q \in Peer : call'[q].at # "idle" \/ owed'[q] # {} => q \in Viewer
        BY <1>1, <1>4, <1>6 DEF HoldInv, HoldBounds
    <2>2. \A q \in Peer : call'[q].at = "reply" /\ call'[q].outcome = "granted"
                            => call'[q].expires <= clock' + TTL
        BY <1>1, <1>3, <1>4 DEF HoldInv, HoldBounds
    <2> QED BY <1>6, <2>1, <2>2 DEF HoldInv, HoldBounds
<1>9. ASSUME NEW q \in Peer PROVE GrantOK(q)'
    <2>1. CASE q = p
        BY <1>3, <1>4, <1>5, <2>1 DEF GrantOK, Covers
    <2>2. CASE q # p
        <3> SUFFICES ASSUME call[q].at = "reply", call[q].outcome = "granted",
                            clock < call[q].expires
                     PROVE  Covers(call[q].session, q, call[q].expires)'
            BY <1>4, <2>2 DEF GrantOK
        <3>1. Covers(call[q].session, q, call[q].expires) /\ q \in Viewer
            BY DEF HoldInv, GrantOK, HoldBounds
        <3>2. call[q].session # s /\ call[q].session \in Session
            BY <1>7, <2>2, <3>1, HoldNumbers
        <3> QED BY <1>4, <1>5, <2>2, <3>1, <3>2 DEF Covers
    <2> QED BY <2>1, <2>2
<1>10. ASSUME NEW q \in Peer PROVE NowOK(q)'
    BY <1>4, <1>6 DEF NowOK, HoldInv
<1>11. ASSUME NEW t \in Session PROVE SlotOK(t)'
    <2> SUFFICES ASSUME controller[t].peer # NoPeer, conn[controller[t].peer] = "open",
                        clock < controller[t].expires, ~Released(controller[t].peer, t)'
                 PROVE  Covers(t, controller[t].peer, controller[t].expires)'
        BY <1>6 DEF SlotOK
    <2>1. PICK r \in Viewer : r = controller[t].peer
        BY DEF HoldInv, HoldBounds
    <2>2. r \in Peer /\ controller[t].expires \in Nat
        BY RelayAssumption, HoldNumbers
    <2>3. ~Released(r, t)
        BY <1>4, <1>6, <2>1, <2>2 DEF Released
    <2>4. Covers(t, r, controller[t].expires)
        BY <2>1, <2>3 DEF HoldInv, SlotOK
    <2>5. CASE t # s
        BY <1>5, <1>6, <2>1, <2>4, <2>5 DEF Covers
    <2>6. CASE t = s
        <3>1. r = p
            BY <1>7, <2>2, <2>4, <2>6
        <3>2. controller[s].expires <= e
            BY <1>1, <2>1, <2>6, <3>1 DEF HoldInv, NowOK, s, e
        <3> QED BY <1>5, <1>6, <2>1, <2>6, <3>1, <3>2 DEF Covers
    <2> QED BY <2>5, <2>6
<1> QED BY <1>8, <1>9, <1>10, <1>11 DEF HoldInv

\* A row goes because the caller's own version of it is released.
LEMMA ReleaseHold ==
    ASSUME RelayInv, RelayInv', HoldInv, OneTabEach, NEW p \in Peer,
           call[p].at = "write", call[p].op = "release", OwnVersion(p),
           lease' = [lease EXCEPT ![call[p].session] = NoLease], Reply(p, "released"),
           UNCHANGED <<clock, drops, relayOwnVars>>
    PROVE  HoldInv'
<1> DEFINE s == call[p].session
<1>1. /\ s \in Session /\ p \in Viewer /\ lease[s].holder = DeviceOf[p]
    BY HoldNumbers DEF HoldInv, HoldBounds, OwnVersion
<1>2. /\ call'[p].at = "reply" /\ call'[p].outcome = "released"
      /\ call'[p].op = "release" /\ call'[p].session = s
      /\ \A q \in Peer : q # p => call'[q] = call[q]
    BY HoldNumbers DEF Reply, Answer, Idle
<1>3. \A t \in Session : t # s => lease'[t] = lease[t]
    BY <1>1, HoldNumbers
<1>4. UNCHANGED <<conn, controller, owed>>
    BY DEF relayOwnVars, registryVars
<1> HIDE DEF s
<1>5. \A q \in Viewer, x \in Nat : q # p => ~Covers(s, q, x)
    BY <1>1 DEF OneTabEach, Covers
<1>6. HoldBounds'
    BY <1>1, <1>2, <1>4 DEF HoldInv, HoldBounds
<1>7. ASSUME NEW q \in Peer PROVE GrantOK(q)'
    <2>1. CASE q = p
        BY <1>2, <2>1 DEF GrantOK
    <2>2. CASE q # p
        <3> SUFFICES ASSUME call[q].at = "reply", call[q].outcome = "granted",
                            clock < call[q].expires
                     PROVE  Covers(call[q].session, q, call[q].expires)'
            BY <1>2, <2>2 DEF GrantOK
        <3>1. Covers(call[q].session, q, call[q].expires) /\ q \in Viewer
            BY DEF HoldInv, GrantOK, HoldBounds
        <3>2. call[q].session # s /\ call[q].session \in Session
            BY <1>5, <2>2, <3>1, HoldNumbers
        <3> QED BY <1>2, <1>3, <2>2, <3>1, <3>2 DEF Covers
    <2> QED BY <2>1, <2>2
<1>8. ASSUME NEW q \in Peer PROVE NowOK(q)'
    BY <1>2, <1>4 DEF NowOK, HoldInv
<1>9. ASSUME NEW t \in Session PROVE SlotOK(t)'
    <2> SUFFICES ASSUME controller[t].peer # NoPeer, conn[controller[t].peer] = "open",
                        clock < controller[t].expires, ~Released(controller[t].peer, t)'
                 PROVE  Covers(t, controller[t].peer, controller[t].expires)'
        BY <1>4 DEF SlotOK
    <2>1. PICK r \in Viewer : r = controller[t].peer
        BY DEF HoldInv, HoldBounds
    <2>2. r \in Peer /\ controller[t].expires \in Nat
        BY RelayAssumption, HoldNumbers
    <2>3. ~Released(r, t)
        BY <1>2, <1>4, <2>1, <2>2 DEF Released
    <2>4. Covers(t, r, controller[t].expires)
        BY <2>1, <2>3 DEF HoldInv, SlotOK
    <2>5. t # s
        BY <1>2, <1>4, <1>5, <2>1, <2>2, <2>4 DEF Released
    <2> QED BY <1>3, <1>4, <2>1, <2>4, <2>5 DEF Covers
<1> QED BY <1>6, <1>7, <1>8, <1>9 DEF HoldInv

\* The grant arrives at its slot: it is still the row.
LEMMA FinishGrantHold ==
    ASSUME RelayInv, RelayInv', HoldInv, NEW p \in Viewer, NEW op, FinishGrant(p, op)
    PROVE  HoldInv'
<1> DEFINE s == call[p].session
           c == [peer |-> p, version |-> call[p].version, expires |-> call[p].expires]
<1>1. /\ p \in Peer /\ s \in Session /\ call[p].at = "reply"
      /\ call[p].outcome = "granted" /\ call[p].expires <= clock + TTL
    BY HoldNumbers, RelayAssumption DEF FinishGrant, Answered, HoldInv, HoldBounds
<1>2. /\ controller' = [controller EXCEPT ![s] = c] /\ call' = [call EXCEPT ![p] = Idle]
      /\ UNCHANGED <<clock, lease, drops, conn, owed>>
    BY DEF FinishGrant, EndOfCall, SetController, unchangedDatabase
<1>3. c.peer = p /\ c.expires = call[p].expires
    OBVIOUS
<1> HIDE DEF s, c
<1>4. /\ call'[p].at = "idle" /\ call'[p].outcome = "none"
      /\ \A q \in Peer : q # p => call'[q] = call[q]
      /\ controller'[s] = c /\ \A t \in Session : t # s => controller'[t] = controller[t]
    BY <1>1, <1>2, HoldNumbers DEF Idle
<1>5. HoldBounds'
    <2>1. \A t \in Session : /\ controller'[t].peer \in Viewer \cup {NoPeer}
                             /\ controller'[t].expires <= clock' + TTL
                             /\ drops'[t] = 0
        BY <1>1, <1>2, <1>3, <1>4 DEF HoldInv, HoldBounds
    <2>2. \A q \in Peer : /\ call'[q].at # "idle" \/ owed'[q] # {} => q \in Viewer
                          /\ call'[q].at = "reply" /\ call'[q].outcome = "granted"
                                => call'[q].expires <= clock' + TTL
        BY <1>2, <1>4 DEF HoldInv, HoldBounds
    <2> QED BY <2>1, <2>2 DEF HoldBounds
<1>6. ASSUME NEW q \in Peer PROVE GrantOK(q)'
    BY <1>2, <1>4 DEF GrantOK, HoldInv, Covers
<1>7. ASSUME NEW q \in Peer PROVE NowOK(q)'
    <2>1. CASE q = p
        BY <1>4, <2>1 DEF NowOK
    <2>2. CASE q # p
        <3>1. call[q].at # "idle" => call[q].session \in Session
            BY HoldNumbers
        <3>2. call'[q] = call[q] /\ NowOK(q)
            BY <1>4, <2>2 DEF HoldInv
        <3> QED BY <1>3, <1>4, <2>2, <3>1, <3>2 DEF NowOK
    <2> QED BY <2>1, <2>2
<1>8. ASSUME NEW t \in Session PROVE SlotOK(t)'
    <2>1. CASE t = s
        <3>1. clock < call[p].expires => Covers(s, p, call[p].expires)
            BY <1>1 DEF HoldInv, GrantOK, s
        <3> QED BY <1>2, <1>3, <1>4, <2>1, <3>1 DEF SlotOK, Covers
    <2>2. CASE t # s
        <3> SUFFICES ASSUME controller[t].peer # NoPeer, conn[controller[t].peer] = "open",
                            clock < controller[t].expires,
                            ~(controller[t].peer # p /\ Released(controller[t].peer, t))
                     PROVE  Covers(t, controller[t].peer, controller[t].expires)
            BY <1>2, <1>4, <2>2 DEF SlotOK, Covers, Released, HoldInv, HoldBounds
        <3>1. ~Released(p, t)
            BY <1>1 DEF Released
        <3> QED BY <3>1 DEF HoldInv, SlotOK
    <2> QED BY <2>1, <2>2
<1> QED BY <1>5, <1>6, <1>7, <1>8 DEF HoldInv

\* Time only ends promises.
LEMMA TickHold ==
    ASSUME RelayInv, RelayInv', HoldInv, ClockTick, UNCHANGED relayOwnVars
    PROVE  HoldInv'
<1>1. /\ clock' = clock + 1 /\ clock \in Nat /\ TTL \in Nat
      /\ UNCHANGED <<lease, drops, call, conn, controller, owed>>
    BY HoldNumbers DEF ClockTick, Tick, relayOwnVars, registryVars
<1>2. HoldBounds'
    <2>1. \A s \in Session : controller[s].expires <= clock + 1 + TTL
        BY <1>1, HoldNumbers DEF HoldInv, HoldBounds
    <2>2. \A p \in Peer : call[p].at = "reply" /\ call[p].outcome = "granted"
                            => call[p].expires <= clock + 1 + TTL
        BY <1>1, HoldNumbers DEF HoldInv, HoldBounds
    <2> QED BY <1>1, <2>1, <2>2 DEF HoldInv, HoldBounds
<1>3. \A x \in Nat : clock + 1 < x => clock < x
    BY <1>1
<1>4. \A p \in Peer : GrantOK(p)' /\ NowOK(p)'
    BY <1>1, <1>3, HoldNumbers DEF HoldInv, GrantOK, NowOK, Covers
<1>5. ASSUME NEW s \in Session PROVE SlotOK(s)'
    <2>1. SlotOK(s) /\ (clock + 1 < controller[s].expires => clock < controller[s].expires)
        BY <1>3, HoldNumbers DEF HoldInv
    <2> QED BY <1>1, <2>1 DEF SlotOK, Released, Covers
<1> QED BY <1>2, <1>4, <1>5 DEF HoldInv

\* A relay that starts anew promises nothing.
LEMMA CrashHold ==
    ASSUME RelayInv, HoldInv, Crash
    PROVE  HoldInv'
<1>1. /\ \A p \in Peer : call'[p] = Idle /\ owed'[p] = {}
      /\ \A s \in Session : controller'[s] = NoController
      /\ UNCHANGED <<clock, drops>> /\ clock \in Nat /\ TTL \in Nat
    BY HoldNumbers DEF Crash, unchangedDatabase
<1>2. /\ Idle.at = "idle" /\ Idle.outcome = "none"
      /\ NoController.peer = NoPeer /\ NoController.expires = 0
    BY DEF Idle, NoController
<1>3. HoldBounds'
    BY <1>1, <1>2 DEF HoldInv, HoldBounds
<1> QED BY <1>1, <1>2, <1>3 DEF HoldInv, GrantOK, NowOK, SlotOK

\* One step of serving a call, or its failure.
LEMMA ServeHold ==
    ASSUME RelayInv, RelayInv', HoldInv, OneTabEach, NEW p \in Peer,
           Serve(p) \/ FailCall(p), UNCHANGED relayOwnVars
    PROVE  HoldInv'
<1>1. UNCHANGED <<clock, drops, conn, controller, owed>>
    BY DEF Serve, Validate, CheckActive, Upsert, Renew, Release, FailCall,
        relayOwnVars, registryVars
<1>2. ASSUME QuietCall(p), UNCHANGED lease, \A q \in Peer : q # p => call'[q] = call[q]
      PROVE  HoldInv'
    BY <1>1, <1>2, OneCallHold
<1>3. ASSUME NEW o, Reply(p, o), o # "granted", call[p].at # "idle",
             call[p].at # "reply" \/ o = "error", UNCHANGED lease
      PROVE  HoldInv'
    <2>1. QuietCall(p)
        BY <1>1, <1>3, ReplyQuiet
    <2>2. \A q \in Peer : q # p => call'[q] = call[q]
        BY <1>3, HoldNumbers DEF Reply, Answer
    <2> QED BY <1>2, <1>3, <2>1, <2>2
<1>4. ASSUME Validate(p) PROVE HoldInv'
    <2>1. ASSUME Reply(p, Refusal(p)) PROVE HoldInv'
        <3>1. Refusal(p) # "granted"
            BY DEF Refusal
        <3> QED BY <1>3, <1>4, <2>1, <3>1 DEF Validate
    <2>2. ASSUME Reply(p, "authorized") PROVE HoldInv'
        BY <1>3, <1>4, <2>2 DEF Validate
    <2>3. ASSUME call' = [call EXCEPT ![p].now = clock,
                    ![p].at = IF call[p].op = "acquire" THEN "check" ELSE "write"]
          PROVE  HoldInv'
        <3>1. /\ call'[p].at \in {"check", "write"} /\ call'[p].now = clock
              /\ call'[p].session = call[p].session
              /\ \A q \in Peer : q # p => call'[q] = call[q]
            BY <2>3, HoldNumbers DEF Call
        <3>2. call[p].at = "validate" /\ p \in Viewer
            BY <1>4 DEF Validate, HoldInv, HoldBounds
        <3>3. QuietCall(p)
            BY <1>1, <3>1, <3>2 DEF QuietCall, Released
        <3> QED BY <1>2, <1>4, <3>1, <3>3 DEF Validate
    <2> QED BY <1>4, <2>1, <2>2, <2>3 DEF Validate
<1>5. ASSUME CheckActive(p) PROVE HoldInv'
    <2>1. ASSUME Reply(p, "already_controlled") PROVE HoldInv'
        BY <1>3, <1>5, <2>1 DEF CheckActive
    <2>2. ASSUME call' = [call EXCEPT ![p].at = "write"] PROVE HoldInv'
        <3>1. /\ call'[p].at = "write" /\ call'[p].now = call[p].now
              /\ call'[p].session = call[p].session
              /\ \A q \in Peer : q # p => call'[q] = call[q]
            BY <2>2, HoldNumbers DEF Call
        <3>2. call[p].at = "check" /\ p \in Viewer
            BY <1>5 DEF CheckActive, HoldInv, HoldBounds
        <3>3. QuietCall(p)
            BY <1>1, <3>1, <3>2 DEF QuietCall, Released
        <3> QED BY <1>2, <1>5, <3>1, <3>3 DEF CheckActive
    <2> QED BY <1>5, <2>1, <2>2 DEF CheckActive
<1>6. ASSUME Upsert(p) \/ Renew(p) PROVE HoldInv'
    BY <1>3, <1>6, GrantHold DEF Upsert, Renew
<1>7. ASSUME Release(p) PROVE HoldInv'
    BY <1>3, <1>7, ReleaseHold DEF Release
<1>8. ASSUME FailCall(p) PROVE HoldInv'
    BY <1>3, <1>8 DEF FailCall
<1> QED BY <1>4, <1>5, <1>6, <1>7, <1>8 DEF Serve

\* A step of a connection that moves no call.
LEMMA NoCallHold ==
    ASSUME RelayInv, RelayInv', HoldInv, NEW p \in Peer, UNCHANGED <<clock, lease, drops, call>>,
           \A s \in Session : controller'[s] \in {controller[s], NoController},
           \A q \in Peer : q # p => conn'[q] = conn[q] /\ owed'[q] = owed[q],
           owed'[p] # {} => owed[p] # {} \/ p \in Viewer,
           conn'[p] = "open" => conn[p] = "open" \/ \A s \in Session : controller[s].peer # p
    PROVE  HoldInv'
<1>1. QuietCall(p)
    BY SameCallQuiet
<1> QED BY <1>1, OneCallHold

\* The control plane and the hosts.
LEMMA EnvironmentHold ==
    ASSUME RelayInv, RelayInv', HoldInv, OneTabEach, RelayEnvironment
    PROVE  HoldInv'
<1>1. UNCHANGED relayOwnVars
    BY DEF RelayEnvironment
<1>2. ASSUME UNCHANGED <<clock, lease, drops, call>> PROVE HoldInv'
    <2>1. UNCHANGED <<conn, controller, owed>>
        BY <1>1 DEF relayOwnVars, registryVars
    <2>2. \A q \in Peer : QuietCall(q)
        BY <1>2, <2>1, SameCallQuiet
    <2> QED BY <1>2, <2>1, <2>2, QuietHold
<1>3. ASSUME NEW s \in Session, DropLease(s) PROVE FALSE
    BY <1>3 DEF DropLease, HoldInv, HoldBounds
<1>4. ASSUME NEW s \in Session, NEW st \in PatchStatus, PatchSession(s, st) PROVE HoldInv'
    BY <1>2, <1>4 DEF PatchSession, OneTabEach
<1>5. ASSUME NEW s \in Session, CreateSession(s) \/ Heartbeat(s) PROVE HoldInv'
    BY <1>2, <1>5 DEF CreateSession, Heartbeat
<1>6. ASSUME NEW p \in Peer, ExpireToken(p) PROVE HoldInv'
    BY <1>2, <1>6 DEF ExpireToken
<1> QED BY <1>1, <1>3, <1>4, <1>5, <1>6, TickHold, ServeHold DEF RelayEnvironment

\* A connection that comes, dies, is purged, releases and goes.
LEMMA ConnectionsHold ==
    ASSUME RelayInv, RelayInv', HoldInv, NEW p \in Peer, Connections(p)
    PROVE  HoldInv'
<1>1. /\ NoPeer \notin Peer /\ conn \in [Peer -> ConnState]
      /\ owed \in [Peer -> SUBSET [session: Session, version: Nat]]
    BY HoldNumbers DEF RelayInv, RegistryInv, RegistryTypes
<1>2. CASE Connect(p)
    <2>1. \A s \in Session : controller[s].peer # p
        BY <1>1, <1>2 DEF Connect, RelayInv, RegistryInv, RegistryConsistent
    <2> QED BY <1>1, <1>2, <2>1, NoCallHold DEF Connect, registryVars
<1>3. CASE LoseConnection(p) \/ Depart(p)
    BY <1>1, <1>3, NoCallHold DEF LoseConnection, Depart, registryVars, controlVars
<1>4. CASE RemovePeer(p)
    <2>1. /\ conn'[p] = "leaving" /\ UNCHANGED <<clock, lease, drops, call>>
          /\ \A q \in Peer : q # p => conn'[q] = conn[q] /\ owed'[q] = owed[q]
        BY <1>1, <1>4 DEF RemovePeer, controlVars
    <2>2. \A s \in Session : controller'[s] \in {controller[s], NoController}
        BY <1>4 DEF RemovePeer
    <2>3. owed'[p] # {} => p \in Viewer
        <3>1. owed'[p] = {[session |-> s, version |-> controller[s].version] :
                             s \in {t \in Session : controller[t].peer = p}}
            BY <1>1, <1>4 DEF RemovePeer
        <3>2. \A t \in Session : controller[t].peer = p => p \in Viewer
            BY <1>1 DEF HoldInv, HoldBounds
        <3> QED BY <3>1, <3>2
    <2> QED BY <2>1, <2>2, <2>3, NoCallHold
<1>5. CASE CloseRelease(p)
    <2>1. PICK o \in owed[p] : /\ Begin(p, "release", o.session, o.version)
                               /\ owed' = [owed EXCEPT ![p] = @ \ {o}]
        BY <1>5 DEF CloseRelease
    <2>2. UNCHANGED <<conn, controller, clock, lease, drops>> /\ p \in Viewer
        BY <1>5, <2>1 DEF CloseRelease, registryVars, unchangedDatabase, HoldInv, HoldBounds
    <2>3. QuietCall(p)
        BY <2>1, <2>2, AskQuiet
    <2>4. \A q \in Peer : q # p => call'[q] = call[q]
        BY <2>1, HoldNumbers DEF Begin
    <2> QED BY <1>1, <2>1, <2>2, <2>3, <2>4, OneCallHold
<1>6. CASE EndCloseRelease(p)
    <2>1. /\ EndOfCall(p) /\ conn[p] = "leaving"
          /\ UNCHANGED <<conn, controller, owed, clock, lease, drops>>
        BY <1>6 DEF EndCloseRelease, relayOwnVars, registryVars, unchangedDatabase
    <2>2. QuietCall(p)
        BY <2>1, EndQuiet
    <2>3. \A q \in Peer : q # p => call'[q] = call[q]
        BY <2>1, HoldNumbers DEF EndOfCall
    <2> QED BY <2>1, <2>2, <2>3, OneCallHold
<1> QED BY <1>2, <1>3, <1>4, <1>5, <1>6 DEF Connections

\* A viewer that asks, and an answer that is handled.
LEMMA MessagesHold ==
    ASSUME RelayInv, RelayInv', HoldInv, NEW p \in Viewer, ViewerMessages(p)
    PROVE  HoldInv'
<1>1. p \in Peer /\ NoPeer \notin Peer /\ conn \in [Peer -> ConnState]
    BY HoldNumbers DEF RelayInv, RegistryInv, RegistryTypes
<1>2. ASSUME NEW s \in Session, NEW op, NEW v, Begin(p, op, s, v), unchangedDatabase,
             UNCHANGED relayOwnVars
      PROVE  HoldInv'
    <2>1. UNCHANGED <<conn, controller, owed, clock, lease, drops>>
        BY <1>2 DEF relayOwnVars, registryVars, unchangedDatabase
    <2>2. QuietCall(p)
        BY <1>2, <2>1, AskQuiet
    <2>3. \A q \in Peer : q # p => call'[q] = call[q]
        BY <1>2, HoldNumbers DEF Begin
    <2> QED BY <1>1, <2>1, <2>2, <2>3, OneCallHold
<1>3. ASSUME EndOfCall(p), UNCHANGED <<owed, clock, lease, drops>>,
             conn' = conn \/ CloseOnError(p),
             controller' = controller \/ ClearController(call[p].session, p),
             \A s \in Session : Released(p, s) =>
                 CloseOnError(p) \/ ClearController(call[p].session, p)
      PROVE  HoldInv'
    <2>1. /\ \A q \in Peer : q # p => conn'[q] = conn[q] /\ call'[q] = call[q]
          /\ conn'[p] = "open" => conn[p] = "open"
          /\ CloseOnError(p) => conn'[p] = "dead"
        BY <1>1, <1>3, HoldNumbers DEF CloseOnError, EndOfCall
    <2>2. \A s \in Session : controller'[s] \in {controller[s], NoController}
        BY <1>3, HoldNumbers DEF ClearController
    <2>3. ASSUME NEW s \in Session, Released(p, s)
          PROVE  conn'[p] # "open" \/ controller'[s].peer # p
        <3>1. call[p].session = s /\ NoController.peer # p
            BY <1>1, <2>3 DEF Released, NoController
        <3>2. ClearController(s, p) => controller'[s].peer # p
            BY <3>1, HoldNumbers DEF ClearController
        <3> QED BY <1>3, <2>1, <2>3, <3>1, <3>2
    <2>4. QuietCall(p)
        BY <1>1, <1>3, <2>1, <2>3, EndQuiet
    <2> QED BY <1>1, <1>3, <2>1, <2>2, <2>4, OneCallHold
<1>4. ASSUME NEW s \in Session,
             \/ AskWatch(p, s) \/ AskAcquire(p, s)
             \/ AskOwn(p, "renew", s) \/ AskOwn(p, "release", s)
      PROVE  HoldInv'
    BY <1>2, <1>4 DEF AskWatch, AskAcquire, AskOwn
<1>5. ASSUME NEW s \in Session, Resize(p, s) PROVE HoldInv'
    BY <1>1, <1>5, NoCallHold DEF Resize, CloseOnError, controlVars, registryVars
<1>6. ASSUME NEW s \in Session, InputExpired(p, s) PROVE HoldInv'
    <2>1. \A t \in Session : controller'[t] \in {controller[t], NoController}
        BY <1>6, HoldNumbers DEF InputExpired, ClearController
    <2> QED BY <1>1, <1>6, <2>1, NoCallHold DEF InputExpired, controlVars
<1>7. ASSUME FinishWatch(p) PROVE HoldInv'
    BY <1>3, <1>7 DEF FinishWatch, Answered, unchangedDatabase, Released
<1>8. ASSUME FinishReleased(p) PROVE HoldInv'
    BY <1>3, <1>8 DEF FinishReleased, unchangedDatabase
<1>9. ASSUME NEW op, FinishRefused(p, op) PROVE HoldInv'
    BY <1>3, <1>9 DEF FinishRefused, unchangedDatabase, Released, Refusals
<1>10. ASSUME NEW op, FinishFailed(p, op) PROVE HoldInv'
    BY <1>3, <1>10 DEF FinishFailed, unchangedDatabase, registryVars
<1> QED BY <1>4, <1>5, <1>6, <1>7, <1>8, <1>9, <1>10, FinishGrantHold DEF ViewerMessages

LEMMA HoldStep ==
    ASSUME OneTabEach
    PROVE  RelayInv /\ HoldInv /\ [RelayNext]_relayVars => HoldInv'
<1> SUFFICES ASSUME RelayInv, HoldInv, [RelayNext]_relayVars PROVE HoldInv'
    OBVIOUS
<1>1. RelayInv'
    BY RelayStep
<1>2. ASSUME NEW p \in Viewer, ViewerMessages(p) PROVE HoldInv'
    BY <1>1, <1>2, MessagesHold
<1>3. ASSUME NEW p \in Daemon, NEW s \in Session, SessionOnline(p, s) PROVE HoldInv'
    BY <1>1, <1>3, NoCallHold, RelayAssumption DEF SessionOnline, controlVars
<1>4. ASSUME UNCHANGED relayVars PROVE HoldInv'
    BY <1>4 DEF relayVars, relayOwnVars, registryVars, controlVars, HoldInv, HoldBounds,
        GrantOK, NowOK, SlotOK, Released, Covers
<1> QED BY <1>1, <1>2, <1>3, <1>4, EnvironmentHold, ConnectionsHold, CrashHold DEF RelayNext

\* Between viewers that are one tab each, as long as no host reports an end:
\* whatever fails, expires, crashes and answers late, the relay takes input
\* from nobody while the database holds the lease for another device.
THEOREM RelayTypist ==
    ASSUME OneTabEach
    PROVE  RelaySpec => []TypistHoldsLease
<1>1. RelayInv /\ HoldInv => TypistHoldsLease
    <2> SUFFICES ASSUME RelayInv, HoldInv, NEW s \in Session, NEW p \in Viewer,
                        NEW d \in Device, Accepts(p, s), clock < controller[s].expires,
                        HeldBy(s, d)
                 PROVE  d = DeviceOf[p]
        BY DEF TypistHoldsLease
    <2>1. p # NoPeer /\ controller[s].peer = p /\ conn[p] = "open" /\ ~Released(p, s)
        BY RelayAssumption DEF Accepts, Reading, Released
    <2>2. Covers(s, p, controller[s].expires)
        BY <2>1 DEF HoldInv, SlotOK
    <2> QED BY <2>2 DEF Covers, HeldBy
<1>2. RelaySpec => [](RelayInv /\ HoldInv)
    BY RelayInitInv, RelayStep, HoldInit, HoldStep, PTL DEF RelaySpec
<1> QED BY <1>1, <1>2, PTL

-----------------------------------------------------------------------------
(* Nothing is left behind                                                  *)

\* p's device holds the row of s, and for a whole second at least.
Owns(p, s) == lease[s].holder = DeviceOf[p] /\ clock < WholeSeconds(lease[s].expires)

\* What p has for the row of s: it is in the slot, on its way to the slot, or,
\* once the slots are gone, on the list of releases or in the release itself.
InSlot(p, s) ==
    controller[s] = [peer |-> p, version |-> lease[s].version,
                     expires |-> WholeSeconds(lease[s].expires)]

Granted(p) ==
    /\ call[p].at = "reply" /\ call[p].outcome = "granted"
    /\ call[p].op \in {"acquire", "renew"}

OnItsWay(p, s) == Granted(p) /\ call[p].session = s

OnTheList(p, s) == [session |-> s, version |-> lease[s].version] \in owed[p]

BeingServed(p) == call[p].at \in {"validate", "check", "write"}

BeingReleased(p, s) ==
    /\ BeingServed(p) /\ call[p].op = "release"
    /\ call[p].session = s /\ call[p].version = lease[s].version

RowIsKnown(p) ==
    \A s \in Session : Owns(p, s) =>
        \/ InSlot(p, s)
        \/ OnItsWay(p, s)
        \/ conn[p] = "leaving" /\ (OnTheList(p, s) \/ BeingReleased(p, s))

\* A grant on its way says what the row says.
GrantIsRow(p) ==
    Granted(p) => LET row == lease[call[p].session] IN
        /\ row.holder = DeviceOf[p]
        /\ row.version = call[p].version
        /\ WholeSeconds(row.expires) = call[p].expires

\* Who asks to renew or release, now or later, quotes the version of the row.
QuotesRow(p) ==
    /\ \A s \in Session :
          /\ BeingServed(p) /\ call[p].op \in {"renew", "release"}
          /\ call[p].session = s /\ Owns(p, s)
          => call[p].version = lease[s].version
    /\ \A o \in owed[p] : Owns(p, o.session) => o.version = lease[o.session].version

\* An answer that clears the slot tells the truth.
EndIsTrue(p) ==
    /\ call[p].at = "reply" /\ call[p].op \in {"renew", "release"}
    /\ call[p].outcome \in ClearingRefusals \cup {"released"}
    => ~Owns(p, call[p].session)

\* No token expires and no session ends; a row belongs to a viewer, and a list
\* of releases to a connection that is leaving.
SoundRows ==
    /\ authorized = Peer
    /\ \A p \in Peer : call[p].at \in {"check", "write"} => Controllable(call[p].session)
    /\ \A s \in Session : lease[s].holder # NoDevice =>
          /\ Controllable(s) /\ lease[s].version \in Nat \ {0}
          /\ \E p \in Viewer : lease[s].holder = DeviceOf[p]
    /\ \A p \in Peer : owed[p] # {} => conn[p] = "leaving"

Tidy(p) == RowIsKnown(p) /\ GrantIsRow(p) /\ QuotesRow(p) /\ EndIsTrue(p)

CloseInv == AnswersInTime /\ SoundRows /\ \A p \in Viewer : Tidy(p)

\* The numbers the steps below count on.
LEMMA RowNumbers ==
    ASSUME RelayInv, NEW s \in Session
    PROVE  /\ WholeSeconds(lease[s].expires) \in Nat
           /\ WholeSeconds(lease[s].expires) <= lease[s].expires
           /\ clock \in Nat /\ lease[s].expires \in Nat /\ lease[s].version \in Nat
           /\ lease[s] \in Row
<1>1. clock \in Nat /\ lease[s] \in Row
    BY DEF RelayInv, ControlInv, ControlTypeOK, LeaseTypeOK
<1>2. lease[s].expires \in Nat /\ lease[s].version \in Nat
    BY <1>1 DEF Row
<1> QED BY <1>1, <1>2, WholeSecondsBound

LEMMA CloseInit == RelayInit /\ RelayInv => CloseInv
<1> SUFFICES ASSUME RelayInit, RelayInv PROVE CloseInv
    OBVIOUS
<1>1. /\ authorized = Peer
      /\ \A p \in Peer : call[p] = Idle /\ owed[p] = {}
      /\ \A s \in Session : lease[s] = NoLease
    BY DEF RelayInit, ControlInit, LeaseInit
<1>2. Idle.at = "idle" /\ NoLease.holder = NoDevice
    BY DEF Idle, NoLease
<1>3. \A p \in Viewer : p \in Peer /\ DeviceOf[p] # NoDevice
    BY RelayAssumption, ControlAssumption, LeaseAssumption
<1>4. AnswersInTime /\ SoundRows
    BY <1>1, <1>2 DEF AnswersInTime, SoundRows
<1>5. ASSUME NEW p \in Viewer PROVE Tidy(p)
    BY <1>1, <1>2, <1>3, <1>5 DEF Tidy, RowIsKnown, GrantIsRow, QuotesRow, EndIsTrue, Owns, Granted, BeingServed
<1> QED BY <1>4, <1>5 DEF CloseInv

\* A viewer that has no part in the step: its own row stays, and so does its
\* slot.
LEMMA TidyFrame ==
    ASSUME RelayInv, NEW p \in Viewer, Tidy(p),
           conn'[p] = conn[p], call'[p] = call[p], owed'[p] = owed[p],
           clock' = clock \/ clock' = clock + 1,
           \A s \in Session : Owns(p, s)' =>
               /\ lease'[s] = lease[s]
               /\ controller[s].peer = p => controller'[s] = controller[s],
           Granted(p) => lease'[call[p].session] = lease[call[p].session]
    PROVE  Tidy(p)'
<1>1. ASSUME NEW s \in Session, Owns(p, s)'
      PROVE  Owns(p, s) /\ lease'[s] = lease[s]
                        /\ (controller[s].peer = p => controller'[s] = controller[s])
    <2>1. lease'[s] = lease[s] /\ WholeSeconds(lease[s].expires) \in Nat /\ clock \in Nat
        BY <1>1, RowNumbers
    <2>2. WholeSeconds(lease[s].expires)' = WholeSeconds(lease[s].expires)
        BY <2>1 DEF WholeSeconds
    <2>3. clock' < WholeSeconds(lease[s].expires) => clock < WholeSeconds(lease[s].expires)
        BY <2>1
    <2> QED BY <1>1, <2>1, <2>2, <2>3 DEF Owns
<1>2. RowIsKnown(p)'
    <2> SUFFICES ASSUME NEW s \in Session, Owns(p, s)'
                 PROVE  \/ InSlot(p, s)'
                        \/ OnItsWay(p, s)'
                        \/ conn'[p] = "leaving" /\ (OnTheList(p, s)' \/ BeingReleased(p, s)')
        BY DEF RowIsKnown
    <2>1. Owns(p, s) /\ lease'[s] = lease[s]
        BY <1>1
    <2>2. InSlot(p, s) => InSlot(p, s)'
        <3>1. InSlot(p, s) => controller[s].peer = p
            BY DEF InSlot
        <3> QED BY <1>1, <2>1, <3>1 DEF InSlot, WholeSeconds
    <2>3. /\ OnItsWay(p, s) => OnItsWay(p, s)'
          /\ OnTheList(p, s) => OnTheList(p, s)'
          /\ BeingReleased(p, s) => BeingReleased(p, s)'
        BY <2>1 DEF OnItsWay, Granted, OnTheList, BeingReleased, BeingServed
    <2> QED BY <2>1, <2>2, <2>3 DEF Tidy, RowIsKnown
<1>3. GrantIsRow(p)'
    BY DEF Tidy, GrantIsRow, Granted, WholeSeconds
<1>4. QuotesRow(p)'
    <2>1. \A o \in owed[p] : o.session \in Session
        BY RelayAssumption DEF RelayInv, RegistryInv, RegistryTypes
    <2> QED BY <1>1, <2>1 DEF Tidy, QuotesRow, BeingServed
<1>5. EndIsTrue(p)'
    <2>1. call[p].at = "reply" => call[p].session \in Session
        BY RelayAssumption DEF RelayInv, ControlInv, CallOK
    <2> QED BY <1>1, <2>1 DEF Tidy, EndIsTrue
<1> QED BY <1>2, <1>3, <1>4, <1>5 DEF Tidy

\* A step of one goroutine, which leaves the rows and the slots of the other
\* viewers alone.
LEMMA ActorClose ==
    ASSUME RelayInv, CloseInv, NEW p \in Peer, AnswersInTime', SoundRows',
           p \in Viewer => Tidy(p)', UNCHANGED clock,
           \A q \in Peer : q # p => /\ conn'[q] = conn[q] /\ call'[q] = call[q]
                                    /\ owed'[q] = owed[q],
           \A q \in Viewer : q # p =>
               /\ \A s \in Session : Owns(q, s)' =>
                      /\ lease'[s] = lease[s]
                      /\ controller[s].peer = q => controller'[s] = controller[s]
               /\ Granted(q) => lease'[call[q].session] = lease[call[q].session]
    PROVE  CloseInv'
<1>1. ASSUME NEW q \in Viewer, q # p PROVE Tidy(q)'
    BY <1>1, TidyFrame, RelayAssumption DEF CloseInv
<1> QED BY <1>1 DEF CloseInv

\* The step leaves the rows alone, and all slots but p's.
LEMMA QuietClose ==
    ASSUME RelayInv, CloseInv, NEW p \in Peer, AnswersInTime', UNCHANGED <<clock, lease, status>>,
           authorized' = Peer, p \in Viewer => Tidy(p)',
           \A q \in Peer : q # p => /\ conn'[q] = conn[q] /\ call'[q] = call[q]
                                    /\ owed'[q] = owed[q],
           \A s \in Session : controller[s].peer # p => controller'[s] = controller[s],
           owed'[p] # {} => conn'[p] = "leaving",
           call'[p].at \in {"check", "write"} => Controllable(call'[p].session)
    PROVE  CloseInv'
<1>1. SoundRows'
    <2>1. \A q \in Peer : owed'[q] # {} => conn'[q] = "leaving"
        BY DEF CloseInv, SoundRows
    <2>2. \A q \in Peer : call'[q].at \in {"check", "write"} => Controllable(call'[q].session)
        BY DEF CloseInv, SoundRows
    <2> QED BY <2>1, <2>2 DEF CloseInv, SoundRows, Controllable
<1>2. \A q \in Viewer, s \in Session :
          q # p /\ controller[s].peer = q => controller'[s] = controller[s]
    OBVIOUS
<1> QED BY <1>1, <1>2, ActorClose

-----------------------------------------------------------------------------
\* A goroutine that asks, for its own row with the version of the row.
LEMMA AskTidy ==
    ASSUME RelayInv, CloseInv, NEW p \in Viewer, NEW op, NEW s \in Session, NEW v,
           Begin(p, op, s, v),
           op \in {"renew", "release"} /\ Owns(p, s) => v = lease[s].version,
           UNCHANGED <<clock, lease, controller>>, conn'[p] = conn[p],
           \/ owed'[p] = owed[p]
           \/ op = "release" /\ owed'[p] = owed[p] \ {[session |-> s, version |-> v]}
    PROVE  Tidy(p)'
<1>1. /\ call[p].at = "idle" /\ call'[p].at = "validate" /\ call'[p].op = op
      /\ call'[p].session = s /\ call'[p].version = v
    BY HoldNumbers DEF Begin, Idle
<1>2. \A t \in Session : Owns(p, t)' = Owns(p, t)
    BY DEF Owns, WholeSeconds
<1>3. RowIsKnown(p)'
    <2> SUFFICES ASSUME NEW t \in Session, Owns(p, t)
                 PROVE  \/ InSlot(p, t)'
                        \/ OnItsWay(p, t)'
                        \/ conn'[p] = "leaving" /\ (OnTheList(p, t)' \/ BeingReleased(p, t)')
        BY <1>2 DEF RowIsKnown
    <2>1. InSlot(p, t) \/ (conn[p] = "leaving" /\ OnTheList(p, t))
        BY <1>1 DEF CloseInv, Tidy, RowIsKnown, OnItsWay, Granted, BeingReleased, BeingServed
    <2>2. InSlot(p, t) => InSlot(p, t)'
        BY DEF InSlot, WholeSeconds
    <2>3. OnTheList(p, t) => OnTheList(p, t)' \/ BeingReleased(p, t)'
        BY <1>1 DEF OnTheList, BeingReleased, BeingServed
    <2> QED BY <2>1, <2>2, <2>3
<1>4. GrantIsRow(p)' /\ EndIsTrue(p)'
    BY <1>1 DEF GrantIsRow, Granted, EndIsTrue
<1>5. QuotesRow(p)'
    <2>1. \A o \in owed'[p] : o \in owed[p] /\ o.session \in Session
        BY RelayAssumption DEF RelayInv, RegistryInv, RegistryTypes
    <2> QED BY <1>1, <1>2, <2>1 DEF CloseInv, Tidy, QuotesRow, BeingServed
<1> QED BY <1>3, <1>4, <1>5 DEF Tidy

\* An answer that was not a grant has been handled.
LEMMA EndTidy ==
    ASSUME RelayInv, CloseInv, NEW p \in Viewer, EndOfCall(p), call[p].at = "reply",
           ~Granted(p), UNCHANGED <<clock, lease, owed>>,
           conn'[p] = conn[p] \/ conn[p] # "leaving",
           \/ UNCHANGED controller
           \/ ClearController(call[p].session, p) /\ ~Owns(p, call[p].session)
    PROVE  Tidy(p)'
<1>1. call'[p].at = "idle" /\ p \in Peer
    BY HoldNumbers DEF EndOfCall, Idle
<1>2. \A t \in Session : Owns(p, t)' = Owns(p, t)
    BY DEF Owns, WholeSeconds
<1>3. RowIsKnown(p)'
    <2> SUFFICES ASSUME NEW t \in Session, Owns(p, t)
                 PROVE  InSlot(p, t)' \/ (conn'[p] = "leaving" /\ OnTheList(p, t)')
        BY <1>2 DEF RowIsKnown
    <2>1. InSlot(p, t) \/ (conn[p] = "leaving" /\ OnTheList(p, t))
        BY DEF CloseInv, Tidy, RowIsKnown, OnItsWay, Granted, BeingReleased, BeingServed
    <2>2. controller'[t] = controller[t]
        BY HoldNumbers DEF ClearController
    <2>3. InSlot(p, t) => InSlot(p, t)'
        BY <2>2 DEF InSlot, WholeSeconds
    <2>4. OnTheList(p, t) => OnTheList(p, t)'
        BY DEF OnTheList
    <2> QED BY <2>1, <2>3, <2>4
<1>4. GrantIsRow(p)' /\ EndIsTrue(p)'
    BY <1>1 DEF GrantIsRow, Granted, EndIsTrue
<1>5. QuotesRow(p)'
    <2>1. \A o \in owed[p] : o.session \in Session
        BY RelayAssumption DEF RelayInv, RegistryInv, RegistryTypes
    <2> QED BY <1>1, <1>2, <2>1 DEF CloseInv, Tidy, QuotesRow, BeingServed
<1> QED BY <1>3, <1>4, <1>5 DEF Tidy

\* A grant is stored.
LEMMA GrantedTidy ==
    ASSUME RelayInv, CloseInv, NEW p \in Viewer, NEW op \in {"acquire", "renew"},
           FinishGrant(p, op)
    PROVE  Tidy(p)'
<1>0. PICK s \in Session : s = call[p].session
    BY HoldNumbers DEF FinishGrant, Answered
<1>1. /\ call[p].at = "reply" /\ Granted(p) /\ conn[p] # "leaving"
      /\ EndOfCall(p) /\ UNCHANGED <<clock, lease, conn, owed>>
      /\ SetController(s, p, call[p].version, call[p].expires)
    BY <1>0 DEF FinishGrant, Answered, Granted, unchangedDatabase
<1>2. call'[p].at = "idle" /\ p \in Peer
    BY <1>1, HoldNumbers DEF EndOfCall, Idle
<1>3. \A t \in Session : Owns(p, t)' = Owns(p, t)
    BY <1>1 DEF Owns, WholeSeconds
<1>4. InSlot(p, s)'
    <2>1. /\ lease[s].version = call[p].version
          /\ WholeSeconds(lease[s].expires) = call[p].expires
        BY <1>0, <1>1 DEF CloseInv, Tidy, GrantIsRow
    <2>2. controller'[s] = [peer |-> p, version |-> call[p].version, expires |-> call[p].expires]
        BY <1>1, HoldNumbers DEF SetController
    <2> QED BY <1>1, <2>1, <2>2 DEF InSlot, WholeSeconds
<1>5. ASSUME NEW t \in Session, t # s, Owns(p, t) PROVE InSlot(p, t)'
    <2>1. InSlot(p, t)
        BY <1>0, <1>1, <1>5 DEF CloseInv, Tidy, RowIsKnown, OnItsWay
    <2>2. controller'[t] = controller[t]
        BY <1>1, <1>5, HoldNumbers DEF SetController
    <2> QED BY <1>1, <2>1, <2>2 DEF InSlot, WholeSeconds
<1>6. RowIsKnown(p)'
    BY <1>3, <1>4, <1>5 DEF RowIsKnown
<1>7. GrantIsRow(p)' /\ EndIsTrue(p)'
    BY <1>2 DEF GrantIsRow, Granted, EndIsTrue
<1>8. QuotesRow(p)'
    <2>1. \A o \in owed[p] : o.session \in Session
        BY <1>2 DEF RelayInv, RegistryInv, RegistryTypes
    <2> QED BY <1>1, <1>2, <1>3, <2>1 DEF CloseInv, Tidy, QuotesRow, BeingServed
<1> QED BY <1>6, <1>7, <1>8 DEF Tidy

\* A call is answered without a grant: who renews or releases had no row.
LEMMA ReplyTidy ==
    ASSUME RelayInv, CloseInv, NEW p \in Viewer, NEW o, Reply(p, o), o # "granted",
           call[p].at \notin {"idle", "reply"},
           UNCHANGED <<clock, lease, controller, conn, owed>>,
           call[p].op \in {"renew", "release"} => ~Owns(p, call[p].session)
    PROVE  Tidy(p)'
<1>1. /\ call'[p].at = "reply" /\ call'[p].outcome = o
      /\ call'[p].op = call[p].op /\ call'[p].session = call[p].session
    BY HoldNumbers DEF Reply, Answer, Idle
<1>2. \A t : Owns(p, t)' = Owns(p, t)
    BY DEF Owns, WholeSeconds
<1>3. RowIsKnown(p)'
    <2> SUFFICES ASSUME NEW t \in Session, Owns(p, t)
                 PROVE  InSlot(p, t)' \/ (conn'[p] = "leaving" /\ OnTheList(p, t)')
        BY <1>2 DEF RowIsKnown
    <2>1. InSlot(p, t) \/ (conn[p] = "leaving" /\ OnTheList(p, t))
        BY DEF CloseInv, Tidy, RowIsKnown, OnItsWay, Granted, BeingReleased, BeingServed
    <2> QED BY <2>1 DEF InSlot, OnTheList, WholeSeconds
<1>4. GrantIsRow(p)'
    BY <1>1 DEF GrantIsRow, Granted
<1>5. QuotesRow(p)'
    BY <1>1, <1>2 DEF CloseInv, Tidy, QuotesRow, BeingServed
<1>6. EndIsTrue(p)'
    <2>1. PICK t \in Session : t = call[p].session
        BY HoldNumbers
    <2>2. call'[p].op \in {"renew", "release"} => ~Owns(p, t)'
        BY <1>1, <1>2, <2>1
    <2> QED BY <1>1, <2>1, <2>2 DEF EndIsTrue, Owns, WholeSeconds
<1> QED BY <1>3, <1>4, <1>5, <1>6 DEF Tidy

\* A call goes on to its next statement.
LEMMA MoveTidy ==
    ASSUME RelayInv, CloseInv, NEW p \in Viewer, call[p].at \in {"validate", "check"},
           call'[p].at \in {"check", "write"}, call'[p].op = call[p].op,
           call'[p].session = call[p].session, call'[p].version = call[p].version,
           UNCHANGED <<clock, lease, controller, conn, owed>>
    PROVE  Tidy(p)'
<1>1. \A t \in Session : Owns(p, t)' = Owns(p, t)
    BY DEF Owns, WholeSeconds
<1>2. RowIsKnown(p)'
    <2> SUFFICES ASSUME NEW t \in Session, Owns(p, t)
                 PROVE  \/ InSlot(p, t)'
                        \/ conn'[p] = "leaving" /\ (OnTheList(p, t)' \/ BeingReleased(p, t)')
        BY <1>1 DEF RowIsKnown
    <2>1. InSlot(p, t) \/ (conn[p] = "leaving" /\ (OnTheList(p, t) \/ BeingReleased(p, t)))
        BY DEF CloseInv, Tidy, RowIsKnown, OnItsWay, Granted
    <2>2. BeingReleased(p, t) => BeingReleased(p, t)'
        BY DEF BeingReleased, BeingServed
    <2> QED BY <2>1, <2>2 DEF InSlot, OnTheList, WholeSeconds
<1>3. GrantIsRow(p)' /\ EndIsTrue(p)'
    BY DEF GrantIsRow, Granted, EndIsTrue
<1>4. QuotesRow(p)'
    <2>1. \A o \in owed[p] : o.session \in Session
        BY RelayAssumption DEF RelayInv, RegistryInv, RegistryTypes
    <2> QED BY <1>1, <2>1 DEF CloseInv, Tidy, QuotesRow, BeingServed
<1> QED BY <1>2, <1>3, <1>4 DEF Tidy

-----------------------------------------------------------------------------
\* A grant is written over the caller's own row, or over a row that is over.
LEMMA GrantClose ==
    ASSUME RelayInv, CloseInv, OneTabEach, NEW p \in Viewer, AnswersInTime',
           call[p].at = "write", call[p].op \in {"acquire", "renew"},
           UpsertMatches(p) \/ RenewMatches(p), WriteGrant(p),
           UNCHANGED <<clock, status, authorized, relayOwnVars>>
    PROVE  CloseInv'
<1>1. PICK s \in Session : s = call[p].session
    BY HoldNumbers
<1>2. PICK v \in Nat : v = lease[s].version + 1
    BY RowNumbers
<1>3. PICK e \in Nat : e = call[p].now + TTL
    BY HoldNumbers
<1>4. /\ p \in Peer /\ UNCHANGED <<conn, controller, owed>>
      /\ lease' = [lease EXCEPT ![s] = [holder |-> DeviceOf[p], version |-> v, expires |-> e]]
      /\ Answer(p, "granted", v, WholeSeconds(e))
    BY <1>1, <1>2, <1>3, HoldNumbers DEF WriteGrant, relayOwnVars, registryVars
<1>5. /\ call'[p].at = "reply" /\ call'[p].outcome = "granted" /\ call'[p].session = s
      /\ call'[p].op = call[p].op /\ call'[p].version = v /\ call'[p].expires = WholeSeconds(e)
      /\ \A q \in Peer : q # p => call'[q] = call[q]
    BY <1>1, <1>4, HoldNumbers DEF Answer, Idle
<1>6. /\ lease'[s].holder = DeviceOf[p] /\ lease'[s].version = v /\ lease'[s].expires = e
      /\ \A t \in Session : t # s => lease'[t] = lease[t]
    BY <1>4, HoldNumbers
<1>7. conn[p] # "leaving" /\ owed[p] = {}
    BY <1>4 DEF RelayInv, RegistryInv, CallFitsConn, CloseInv, SoundRows
<1>8. Tidy(p)'
    <2>1. ASSUME NEW t \in Session, Owns(p, t)' PROVE InSlot(p, t)' \/ OnItsWay(p, t)'
        <3>1. CASE t = s
            BY <1>5, <3>1 DEF OnItsWay, Granted
        <3>2. CASE t # s
            <4>1. Owns(p, t)
                BY <1>6, <2>1, <3>2 DEF Owns, WholeSeconds
            <4>2. InSlot(p, t)
                BY <1>7, <4>1 DEF CloseInv, Tidy, RowIsKnown, OnItsWay, Granted
            <4> QED BY <1>4, <1>6, <3>2, <4>2 DEF InSlot, WholeSeconds
        <3> QED BY <3>1, <3>2
    <2>2. RowIsKnown(p)'
        BY <2>1 DEF RowIsKnown
    <2>3. GrantIsRow(p)'
        BY <1>5, <1>6 DEF GrantIsRow, WholeSeconds
    <2>4. QuotesRow(p)' /\ EndIsTrue(p)'
        BY <1>4, <1>5, <1>7 DEF QuotesRow, EndIsTrue, ClearingRefusals, BeingServed
    <2> QED BY <2>2, <2>3, <2>4 DEF Tidy
<1>9. ASSUME NEW q \in Viewer, q # p
      PROVE  /\ \A t \in Session : Owns(q, t)' => lease'[t] = lease[t]
             /\ Granted(q) => lease'[call[q].session] = lease[call[q].session]
    <2>1. DeviceOf[q] # DeviceOf[p]
        BY <1>9 DEF OneTabEach
    <2>2. \A t \in Session : Owns(q, t)' => lease'[t] = lease[t]
        BY <1>6, <2>1 DEF Owns
    <2>3. ASSUME Granted(q) PROVE lease'[call[q].session] = lease[call[q].session]
        <3>1. PICK t \in Session : t = call[q].session
            BY <2>3, HoldNumbers DEF Granted
        <3>2. /\ lease[t].holder = DeviceOf[q] /\ WholeSeconds(lease[t].expires) = call[q].expires
              /\ clock < call[q].expires
            BY <2>3, <3>1, RelayAssumption
               DEF CloseInv, Tidy, GrantIsRow, Granted, AnswersInTime
        <3>3. ASSUME t = s PROVE FALSE
            <4>1. lease[s].expires <= call[p].now
                BY <1>1, <2>1, <3>2, <3>3 DEF UpsertMatches, RenewMatches, OwnVersion
            <4>2. clock < lease[s].expires
                <5>1. clock < WholeSeconds(lease[s].expires)
                    BY <3>2, <3>3
                <5> QED BY <5>1, RowNumbers
            <4> QED BY <1>4, <4>1, <4>2, HoldNumbers
        <3> QED BY <1>6, <3>1, <3>3
    <2> QED BY <2>2, <2>3
<1>10. SoundRows'
    <2>1. \A t \in Session : lease'[t].holder # NoDevice =>
              /\ Controllable(t)' /\ lease'[t].version \in Nat \ {0}
              /\ \E q \in Viewer : lease'[t].holder = DeviceOf[q]
        <3>1. ASSUME NEW t \in Session, t # s, lease'[t].holder # NoDevice
              PROVE  /\ Controllable(t)' /\ lease'[t].version \in Nat \ {0}
                     /\ \E q \in Viewer : lease'[t].holder = DeviceOf[q]
            BY <1>6, <3>1 DEF CloseInv, SoundRows, Controllable
        <3>2. v \in Nat \ {0}
            BY <1>2, RowNumbers
        <3>3. Controllable(s)'
            BY <1>1, <1>4 DEF CloseInv, SoundRows, Controllable
        <3> QED BY <1>6, <3>1, <3>2, <3>3
    <2>2. \A q \in Peer : call'[q].at \in {"check", "write"} => Controllable(call'[q].session)
        BY <1>5 DEF CloseInv, SoundRows
    <2> QED BY <1>4, <2>1, <2>2 DEF CloseInv, SoundRows, Controllable
<1> QED BY <1>4, <1>5, <1>8, <1>9, <1>10, ActorClose

\* The caller's own row goes.
LEMMA ReleaseClose ==
    ASSUME RelayInv, CloseInv, OneTabEach, NEW p \in Viewer, AnswersInTime',
           call[p].at = "write", call[p].op = "release", OwnVersion(p),
           lease' = [lease EXCEPT ![call[p].session] = NoLease], Reply(p, "released"),
           UNCHANGED <<clock, status, authorized, relayOwnVars>>
    PROVE  CloseInv'
<1>1. PICK s \in Session : s = call[p].session
    BY HoldNumbers
<1>2. /\ p \in Peer /\ UNCHANGED <<conn, controller, owed>> /\ lease[s].holder = DeviceOf[p]
    BY <1>1, HoldNumbers DEF relayOwnVars, registryVars, OwnVersion
<1>3. /\ call'[p].at = "reply" /\ call'[p].outcome = "released" /\ call'[p].session = s
      /\ \A q \in Peer : q # p => call'[q] = call[q]
    BY <1>1, HoldNumbers DEF Reply, Answer, Idle
<1>4. /\ lease'[s].holder = NoDevice /\ \A t \in Session : t # s => lease'[t] = lease[t]
      /\ \A q \in Peer : DeviceOf[q] # NoDevice
    BY <1>1, HoldNumbers, ControlAssumption, LeaseAssumption DEF NoLease
<1>5. ASSUME NEW q \in Viewer, NEW t \in Session, Owns(q, t)'
      PROVE  t # s /\ lease'[t] = lease[t] /\ Owns(q, t)
    <2>1. t # s
        BY <1>4, <1>5, RelayAssumption DEF Owns
    <2> QED BY <1>4, <1>5, <2>1 DEF Owns, WholeSeconds
<1>6. Tidy(p)'
    <2>1. ASSUME NEW t \in Session, Owns(p, t)'
          PROVE  InSlot(p, t)' \/ (conn'[p] = "leaving" /\ OnTheList(p, t)')
        <3>1. t # s /\ lease'[t] = lease[t] /\ Owns(p, t)
            BY <1>5, <2>1
        <3>2. InSlot(p, t) \/ (conn[p] = "leaving" /\ OnTheList(p, t))
            BY <1>1, <3>1 DEF CloseInv, Tidy, RowIsKnown, OnItsWay, Granted, BeingReleased, BeingServed
        <3> QED BY <1>2, <3>1, <3>2 DEF InSlot, OnTheList, WholeSeconds
    <2>2. RowIsKnown(p)'
        BY <2>1 DEF RowIsKnown
    <2>3. GrantIsRow(p)'
        BY <1>3 DEF GrantIsRow, Granted
    <2>4. QuotesRow(p)'
        <3>1. \A o \in owed[p] : o.session \in Session
            BY <1>2 DEF RelayInv, RegistryInv, RegistryTypes
        <3>2. \A o \in owed[p] : Owns(p, o.session)' => o.version = lease'[o.session].version
            BY <1>2, <1>5, <3>1 DEF CloseInv, Tidy, QuotesRow, BeingServed
        <3> QED BY <1>2, <1>3, <3>2 DEF QuotesRow, BeingServed
    <2>5. EndIsTrue(p)'
        BY <1>2, <1>3, <1>4 DEF EndIsTrue, Owns
    <2> QED BY <2>2, <2>3, <2>4, <2>5 DEF Tidy
<1>7. ASSUME NEW q \in Viewer, q # p, Granted(q)
      PROVE  lease'[call[q].session] = lease[call[q].session]
    <2>1. PICK t \in Session : t = call[q].session
        BY <1>7, HoldNumbers DEF Granted
    <2>2. lease[t].holder = DeviceOf[q]
        BY <1>7, <2>1 DEF CloseInv, Tidy, GrantIsRow
    <2>3. t # s
        BY <1>2, <1>7, <2>2 DEF OneTabEach
    <2> QED BY <1>4, <2>1, <2>3
<1>8. SoundRows'
    <2>1. \A q \in Peer : call'[q].at \in {"check", "write"} => Controllable(call'[q].session)
        BY <1>3 DEF CloseInv, SoundRows
    <2>2. \A t \in Session : lease'[t].holder # NoDevice =>
              /\ Controllable(t) /\ lease'[t].version \in Nat \ {0}
              /\ \E q \in Viewer : lease'[t].holder = DeviceOf[q]
        BY <1>4 DEF CloseInv, SoundRows
    <2> QED BY <1>2, <2>1, <2>2 DEF CloseInv, SoundRows, Controllable
<1> QED BY <1>2, <1>3, <1>5, <1>6, <1>7, <1>8, ActorClose

\* The control plane answers or goes on.
LEMMA ServeClose ==
    ASSUME RelayInv, HoldInv, CloseInv, OneTabEach, NEW p \in Peer, AnswersInTime',
           Serve(p), UNCHANGED relayOwnVars
    PROVE  CloseInv'
<1>1. /\ p \in Viewer /\ UNCHANGED <<clock, status, authorized, conn, controller, owed>>
      /\ call[p].at \notin {"idle", "reply"}
    BY DEF Serve, Validate, CheckActive, Upsert, Renew, Release, relayOwnVars, registryVars,
           HoldInv, HoldBounds
<1>2. PICK s \in Session : s = call[p].session
    BY <1>1, HoldNumbers
<1>3. authorized' = Peer
    BY <1>1 DEF CloseInv, SoundRows
\* Whoever holds the row finds it when it renews or releases.
<1>4. ASSUME call[p].op \in {"renew", "release"}, Owns(p, s)
      PROVE  /\ Refusal(p) = "none" /\ OwnVersion(p)
             /\ lease[s].expires > call[p].now
    <2>1. call[p].version = lease[s].version
        BY <1>1, <1>2, <1>4, HoldNumbers DEF Call, CloseInv, Tidy, QuotesRow, BeingServed
    <2>2. lease[s].holder = DeviceOf[p] /\ DeviceOf[p] # NoDevice
        BY <1>4, ControlAssumption, LeaseAssumption DEF Owns
    <2>3. Controllable(s) /\ lease[s].version # 0
        BY <2>2 DEF CloseInv, SoundRows
    <2>4. Refusal(p) = "none"
        BY <1>1, <1>2, <1>3, <2>1, <2>3 DEF Refusal, Controllable
    <2>5. OwnVersion(p)
        BY <1>2, <2>1, <2>2 DEF OwnVersion
    <2>6. clock < WholeSeconds(lease[s].expires) /\ call[p].now <= clock /\ call[p].now \in Nat
        BY <1>4, HoldNumbers DEF Owns
    <2>7. lease[s].expires > call[p].now
        BY <2>6, RowNumbers
    <2> QED BY <2>4, <2>5, <2>7
<1>5. ASSUME NEW o, Reply(p, o), o # "granted", UNCHANGED lease,
             call[p].op \in {"renew", "release"} => ~Owns(p, s)
      PROVE  CloseInv'
    <2>1. Tidy(p)'
        BY <1>1, <1>2, <1>5, ReplyTidy
    <2>2. call'[p].at = "reply" /\ \A q \in Peer : q # p => call'[q] = call[q]
        BY <1>5, HoldNumbers DEF Reply, Answer, Idle
    <2>3. owed'[p] # {} => conn'[p] = "leaving"
        BY <1>1 DEF CloseInv, SoundRows
    <2> QED BY <1>1, <1>3, <1>5, <2>1, <2>2, <2>3, QuietClose
<1>6. ASSUME call'[p].at \in {"check", "write"}, call'[p].op = call[p].op,
             call'[p].session = call[p].session, call'[p].version = call[p].version,
             call[p].at \in {"validate", "check"}, Controllable(s),
             \A q \in Peer : q # p => call'[q] = call[q], UNCHANGED lease
      PROVE  CloseInv'
    <2>1. Tidy(p)'
        BY <1>1, <1>6, MoveTidy
    <2>2. owed'[p] # {} => conn'[p] = "leaving"
        BY <1>1 DEF CloseInv, SoundRows
    <2> QED BY <1>1, <1>2, <1>3, <1>6, <2>1, <2>2, QuietClose
<1>7. CASE Validate(p)
    <2>1. CASE Refusal(p) # "none" /\ Reply(p, Refusal(p))
        <3>1. Refusal(p) # "granted"
            BY DEF Refusal
        <3> QED BY <1>4, <1>5, <1>7, <2>1, <3>1 DEF Validate
    <2>2. CASE call[p].op = "watch" /\ Reply(p, "authorized")
        BY <1>5, <1>7, <2>2 DEF Validate
    <2>3. CASE /\ Refusal(p) = "none" /\ call[p].op \in LeaseOps
               /\ call' = [call EXCEPT ![p].now = clock,
                     ![p].at = IF call[p].op = "acquire" THEN "check" ELSE "write"]
        <3>1. /\ call'[p].at = (IF call[p].op = "acquire" THEN "check" ELSE "write")
              /\ call'[p].op = call[p].op /\ call'[p].session = call[p].session
              /\ call'[p].version = call[p].version
              /\ \A q \in Peer : q # p => call'[q] = call[q]
            BY <2>3, HoldNumbers DEF Call
        <3>2. Controllable(s)
            BY <1>2, <2>3 DEF Refusal
        <3> QED BY <1>6, <1>7, <3>1, <3>2 DEF Validate
    <2> QED BY <1>7, <2>1, <2>2, <2>3 DEF Validate
<1>8. CASE CheckActive(p)
    <2>1. call[p].at = "check" /\ Controllable(s)
        BY <1>2, <1>8 DEF CheckActive, CloseInv, SoundRows
    <2>2. CASE lease[s].holder # DeviceOf[p] /\ Reply(p, "already_controlled")
        <3>1. ~Owns(p, s)
            BY <2>2 DEF Owns
        <3> QED BY <1>5, <1>8, <2>1, <2>2, <3>1 DEF CheckActive
    <2>3. CASE call' = [call EXCEPT ![p].at = "write"]
        <3>1. /\ call'[p].at = "write" /\ call'[p].op = call[p].op
              /\ call'[p].session = call[p].session /\ call'[p].version = call[p].version
              /\ \A q \in Peer : q # p => call'[q] = call[q]
            BY <2>3, HoldNumbers DEF Call
        <3> QED BY <1>6, <1>8, <2>1, <3>1 DEF CheckActive
    <2> QED BY <1>2, <1>8, <2>2, <2>3 DEF CheckActive
<1>9. CASE Upsert(p)
    BY <1>1, <1>5, <1>9, GrantClose DEF Upsert
<1>10. CASE Renew(p)
    BY <1>1, <1>2, <1>4, <1>5, <1>10, GrantClose DEF Renew, RenewMatches
<1>11. CASE Release(p)
    BY <1>1, <1>2, <1>4, <1>5, <1>11, ReleaseClose DEF Release
<1> QED BY <1>7, <1>8, <1>9, <1>10, <1>11 DEF Serve

\* Time passes, or a session is born or reported alive.
LEMMA TimeClose ==
    ASSUME RelayInv, CloseInv, AnswersInTime', ClockTick, UNCHANGED relayOwnVars
    PROVE  CloseInv'
<1>1. clock' = clock + 1 /\ UNCHANGED <<lease, status, authorized, call, conn, controller, owed>>
    BY DEF ClockTick, Tick, relayOwnVars, registryVars
<1>2. SoundRows'
    BY <1>1 DEF CloseInv, SoundRows, Controllable
<1>3. \A p \in Viewer : Tidy(p)'
    BY <1>1, TidyFrame DEF CloseInv
<1> QED BY <1>2, <1>3 DEF CloseInv

LEMMA StatusClose ==
    ASSUME RelayInv, CloseInv, AnswersInTime', UNCHANGED <<clock, lease, authorized, call>>,
           \A s \in Session : Controllable(s) => Controllable(s)', UNCHANGED relayOwnVars
    PROVE  CloseInv'
<1>1. UNCHANGED <<conn, controller, owed>>
    BY DEF relayOwnVars, registryVars
<1>2. SoundRows'
    <2>1. \A p \in Peer : call[p].at \in {"check", "write"} =>
              Controllable(call[p].session)'
        <3> SUFFICES ASSUME NEW p \in Peer, call[p].at \in {"check", "write"}
                     PROVE  Controllable(call[p].session)'
            OBVIOUS
        <3>1. PICK s \in Session : s = call[p].session
            BY HoldNumbers
        <3>2. Controllable(s)'
            BY <3>1 DEF CloseInv, SoundRows
        <3> QED BY <3>1, <3>2 DEF Controllable
    <2> QED BY <1>1, <2>1 DEF CloseInv, SoundRows
<1>3. \A p \in Viewer : Tidy(p)'
    BY <1>1, TidyFrame DEF CloseInv
<1> QED BY <1>2, <1>3 DEF CloseInv

LEMMA EnvironmentClose ==
    ASSUME RelayInv, HoldInv, CloseInv, OneTabEach, GoesWell, RelayEnvironment
    PROVE  CloseInv'
<1>1. UNCHANGED relayOwnVars /\ AnswersInTime'
    BY DEF RelayEnvironment, GoesWell
<1>2. status \in [Session -> SessionStatus]
    BY DEF RelayInv, ControlInv, ControlTypeOK
<1>3. ASSUME NEW s \in Session, DropLease(s) PROVE FALSE
    BY <1>3 DEF DropLease, HoldInv, HoldBounds
<1>4. ASSUME NEW s \in Session, NEW st \in PatchStatus, PatchSession(s, st) PROVE CloseInv'
    <2>1. \A t \in Session : Controllable(t) => Controllable(t)'
        BY <1>2, <1>4 DEF PatchSession, OneTabEach, Controllable
    <2> QED BY <1>1, <1>4, <2>1, StatusClose DEF PatchSession
<1>5. ASSUME NEW s \in Session, CreateSession(s) \/ Heartbeat(s) PROVE CloseInv'
    <2>1. \A t \in Session : Controllable(t) => Controllable(t)'
        BY <1>2, <1>5 DEF CreateSession, Heartbeat, Controllable
    <2> QED BY <1>1, <1>5, <2>1, StatusClose DEF CreateSession, Heartbeat
<1>6. ASSUME NEW p \in Peer, FailCall(p) PROVE FALSE
    <2>1. call'[p].outcome = "error"
        BY <1>6, HoldNumbers DEF FailCall, Reply, Answer, Idle
    <2> QED BY <2>1 DEF GoesWell
<1>7. ASSUME NEW p \in Peer, ExpireToken(p) PROVE FALSE
    BY <1>7 DEF ExpireToken, GoesWell
<1> QED BY <1>1, <1>3, <1>4, <1>5, <1>6, <1>7, TimeClose, ServeClose DEF RelayEnvironment

\* A relay that crashes with all its goroutines through with their clean-up
\* leaves nothing behind either.
LEMMA CrashClose ==
    ASSUME RelayInv, CloseInv, GoesWell, Crash
    PROVE  CloseInv'
<1>1. /\ \A p \in Peer : call'[p] = Idle /\ owed'[p] = {} /\ conn'[p] = "gone"
      /\ UNCHANGED <<clock, lease, status, authorized>>
    BY DEF Crash, unchangedDatabase
<1>2. Idle.at = "idle"
    BY DEF Idle
<1>3. ASSUME NEW p \in Viewer, NEW s \in Session PROVE ~Owns(p, s)'
    <2>1. p \in Peer /\ NoPeer \notin Peer
        BY RelayAssumption
    <2>2. conn[p] \in {"gone", "leaving"} /\ owed[p] = {} /\ call[p].at = "idle"
        BY <1>1, <2>1 DEF GoesWell, CloseInv, SoundRows, RelayInv, RegistryInv, CallFitsConn
    <2>3. ~InSlot(p, s)
        <3>1. InSlot(p, s) => controller[s].peer = p
            BY DEF InSlot
        <3> QED BY <2>1, <2>2, <3>1 DEF RelayInv, RegistryInv, RegistryConsistent
    <2>4. ~Owns(p, s)
        BY <2>2, <2>3 DEF CloseInv, Tidy, RowIsKnown, OnItsWay, Granted, OnTheList,
            BeingReleased, BeingServed
    <2> QED BY <1>1, <2>4 DEF Owns, WholeSeconds
<1>4. ASSUME NEW p \in Viewer PROVE Tidy(p)'
    <2>1. p \in Peer
        BY RelayAssumption
    <2> QED BY <1>1, <1>2, <1>3, <2>1 DEF Tidy, RowIsKnown, GrantIsRow, QuotesRow, EndIsTrue,
        Granted, BeingServed
<1>5. SoundRows'
    BY <1>1, <1>2 DEF CloseInv, SoundRows, Controllable
<1> QED BY <1>4, <1>5 DEF CloseInv, GoesWell

-----------------------------------------------------------------------------
\* A step that moves neither a row nor a call, and no slot but p's.
LEMMA NoCallClose ==
    ASSUME RelayInv, CloseInv, NEW p \in Peer, AnswersInTime',
           UNCHANGED <<clock, lease, status, call>>, authorized' = Peer,
           \A q \in Peer : q # p => conn'[q] = conn[q] /\ owed'[q] = owed[q],
           \A s \in Session : controller[s].peer # p => controller'[s] = controller[s],
           owed'[p] # {} => conn'[p] = "leaving",
           p \in Viewer => /\ RowIsKnown(p)'
                           /\ \A o \in owed'[p] : /\ o.session \in Session
                                                  /\ Owns(p, o.session) =>
                                                       o.version = lease[o.session].version
    PROVE  CloseInv'
<1>1. p \in Viewer => Tidy(p)'
    <2> SUFFICES ASSUME p \in Viewer PROVE Tidy(p)'
        OBVIOUS
    <2>1. \A t \in Session : Owns(p, t)' = Owns(p, t)
        BY DEF Owns, WholeSeconds
    <2>2. GrantIsRow(p)'
        BY DEF CloseInv, Tidy, GrantIsRow, Granted, WholeSeconds
    <2>3. QuotesRow(p)'
        BY <2>1 DEF CloseInv, Tidy, QuotesRow, BeingServed
    <2>4. EndIsTrue(p)'
        <3>1. call[p].at = "reply" => call[p].session \in Session
            BY HoldNumbers
        <3> QED BY <2>1, <3>1 DEF CloseInv, Tidy, EndIsTrue
    <2> QED BY <2>2, <2>3, <2>4 DEF Tidy
<1>2. call'[p].at \in {"check", "write"} => Controllable(call'[p].session)
    BY DEF CloseInv, SoundRows
<1> QED BY <1>1, <1>2, QuietClose

LEMMA ConnectionsClose ==
    ASSUME RelayInv, HoldInv, CloseInv, NEW p \in Peer, AnswersInTime', Connections(p)
    PROVE  CloseInv'
<1>1. /\ conn \in [Peer -> ConnState]
      /\ owed \in [Peer -> SUBSET [session: Session, version: Nat]]
      /\ authorized = Peer
    BY DEF RelayInv, RegistryInv, RegistryTypes, CloseInv, SoundRows
<1>2. ASSUME NEW q \in Viewer, UNCHANGED <<lease, controller>>,
             NEW s \in Session, InSlot(q, s)
      PROVE  InSlot(q, s)'
    BY <1>2 DEF InSlot, WholeSeconds
<1>3. CASE Connect(p) \/ LoseConnection(p) \/ Depart(p)
    <2>1. /\ UNCHANGED <<clock, lease, status, call, controller, owed>> /\ authorized' = Peer
          /\ conn[p] # "leaving" \/ owed[p] = {}
          /\ conn[p] = "leaving" => call[p].at = "idle"
        BY <1>1, <1>3 DEF Connect, LoseConnection, Depart, controlVars, registryVars
    <2>2. owed'[p] = {}
        BY <2>1 DEF CloseInv, SoundRows
    <2>3. ASSUME p \in Viewer PROVE RowIsKnown(p)'
        <3> SUFFICES ASSUME NEW s \in Session, Owns(p, s)'
                     PROVE  InSlot(p, s)' \/ OnItsWay(p, s)'
            BY DEF RowIsKnown
        <3>1. Owns(p, s)
            BY <2>1 DEF Owns, WholeSeconds
        <3>2. InSlot(p, s) \/ OnItsWay(p, s)
            BY <2>1, <2>2, <2>3, <3>1
               DEF CloseInv, Tidy, RowIsKnown, OnTheList, BeingReleased, BeingServed
        <3> QED BY <1>2, <2>1, <2>3, <3>2 DEF OnItsWay, Granted
    <2>4. \A q \in Peer : q # p => conn'[q] = conn[q] /\ owed'[q] = owed[q]
        BY <1>1, <1>3, <2>1 DEF Connect, LoseConnection, Depart
    <2> QED BY <2>1, <2>2, <2>3, <2>4, NoCallClose
<1>4. CASE RemovePeer(p)
    <2>1. /\ UNCHANGED <<clock, lease, status, call, authorized>> /\ conn'[p] = "leaving"
          /\ owed'[p] = {[session |-> s, version |-> controller[s].version] :
                            s \in {t \in Session : controller[t].peer = p}}
          /\ call[p].at = "idle" /\ conn[p] = "dead"
          /\ \A q \in Peer : q # p => conn'[q] = conn[q] /\ owed'[q] = owed[q]
          /\ \A s \in Session : controller[s].peer # p => controller'[s] = controller[s]
        BY <1>1, <1>4 DEF RemovePeer, controlVars
    <2>2. ASSUME p \in Viewer, NEW s \in Session, Owns(p, s) PROVE InSlot(p, s)
        BY <2>1, <2>2 DEF CloseInv, Tidy, RowIsKnown, OnItsWay, Granted
    <2>3. ASSUME p \in Viewer PROVE RowIsKnown(p)'
        <3> SUFFICES ASSUME NEW s \in Session, Owns(p, s)' PROVE OnTheList(p, s)'
            BY <2>1 DEF RowIsKnown
        <3>1. InSlot(p, s)
            BY <2>1, <2>2, <2>3 DEF Owns, WholeSeconds
        <3>2. controller[s].peer = p /\ controller[s].version = lease[s].version
            BY <3>1 DEF InSlot
        <3> QED BY <2>1, <3>2 DEF OnTheList
    <2>4. ASSUME p \in Viewer, NEW o \in owed'[p]
          PROVE  /\ o.session \in Session
                 /\ Owns(p, o.session) => o.version = lease[o.session].version
        <3>1. PICK s \in Session : o = [session |-> s, version |-> controller[s].version]
            BY <2>1, <2>4
        <3>2. o.session = s /\ o.version = controller[s].version
            BY <3>1
        <3>3. Owns(p, s) => controller[s].version = lease[s].version
            <4>1. InSlot(p, s) => controller[s].version = lease[s].version
                BY DEF InSlot
            <4> QED BY <2>2, <2>4, <4>1
        <3> QED BY <3>2, <3>3
    <2> QED BY <1>1, <2>1, <2>3, <2>4, NoCallClose
<1>5. CASE CloseRelease(p)
    <2>1. PICK o \in owed[p] : /\ Begin(p, "release", o.session, o.version)
                               /\ owed' = [owed EXCEPT ![p] = @ \ {o}]
        BY <1>5 DEF CloseRelease
    <2>2. /\ UNCHANGED <<conn, controller, clock, lease, status, authorized>> /\ p \in Viewer
          /\ conn[p] = "leaving"
        BY <1>5, <2>1 DEF CloseRelease, registryVars, unchangedDatabase, HoldInv, HoldBounds
    <2>3. /\ o.session \in Session
          /\ o = [session |-> o.session, version |-> o.version]
        BY <1>1, <2>1
    <2>4. owed'[p] = owed[p] \ {[session |-> o.session, version |-> o.version]}
        BY <1>1, <2>1, <2>3
    <2>5. Owns(p, o.session) => o.version = lease[o.session].version
        BY <2>1, <2>2 DEF CloseInv, Tidy, QuotesRow
    <2>6. Tidy(p)'
        BY <2>1, <2>2, <2>3, <2>4, <2>5, AskTidy
    <2>7. /\ call'[p].at = "validate"
          /\ \A q \in Peer : q # p => call'[q] = call[q] /\ owed'[q] = owed[q]
        BY <1>1, <2>1, HoldNumbers DEF Begin, Idle
    <2> QED BY <1>1, <2>2, <2>6, <2>7, QuietClose
<1>6. CASE EndCloseRelease(p)
    <2>1. /\ UNCHANGED <<conn, controller, owed, clock, lease, status, authorized>>
          /\ EndOfCall(p) /\ call[p].at = "reply" /\ conn[p] = "leaving"
        BY <1>6 DEF EndCloseRelease, relayOwnVars, registryVars, unchangedDatabase
    <2>2. p \in Viewer /\ ~Granted(p)
        BY <2>1 DEF HoldInv, HoldBounds, Granted, RelayInv, RegistryInv, CallFitsConn
    <2>3. Tidy(p)'
        BY <2>1, <2>2, EndTidy
    <2>4. call'[p].at = "idle" /\ \A q \in Peer : q # p => call'[q] = call[q]
        BY <2>1, HoldNumbers DEF EndOfCall, Idle
    <2> QED BY <1>1, <2>1, <2>3, <2>4, QuietClose
<1> QED BY <1>3, <1>4, <1>5, <1>6 DEF Connections

\* A viewer that asks, and an answer that is handled.
LEMMA MessagesClose ==
    ASSUME RelayInv, HoldInv, CloseInv, OneTabEach, NEW p \in Viewer, AnswersInTime',
           ViewerMessages(p)
    PROVE  CloseInv'
<1>1. /\ p \in Peer /\ NoPeer \notin Peer /\ conn \in [Peer -> ConnState]
      /\ authorized = Peer /\ controller \in [Session -> Controller]
    BY HoldNumbers DEF RelayInv, RegistryInv, RegistryTypes, CloseInv, SoundRows
<1>2. ASSUME NEW s \in Session, NEW op, NEW v, Begin(p, op, s, v), unchangedDatabase,
             UNCHANGED relayOwnVars,
             op \in {"renew", "release"} /\ Owns(p, s) => v = lease[s].version
      PROVE  CloseInv'
    <2>1. UNCHANGED <<conn, controller, owed, clock, lease, status, authorized>>
        BY <1>2 DEF relayOwnVars, registryVars, unchangedDatabase
    <2>2. Tidy(p)'
        BY <1>2, <2>1, AskTidy
    <2>3. call'[p].at = "validate" /\ \A q \in Peer : q # p => call'[q] = call[q]
        BY <1>1, <1>2, HoldNumbers DEF Begin, Idle
    <2>4. owed'[p] # {} => conn'[p] = "leaving"
        BY <1>1, <2>1 DEF CloseInv, SoundRows
    <2> QED BY <1>1, <2>1, <2>2, <2>3, <2>4, QuietClose
<1>3. ASSUME EndOfCall(p), unchangedDatabase, UNCHANGED owed, call[p].at = "reply",
             conn[p] # "leaving", ~Granted(p), conn' = conn \/ CloseOnError(p),
             \/ UNCHANGED controller
             \/ ClearController(call[p].session, p) /\ ~Owns(p, call[p].session)
      PROVE  CloseInv'
    <2>1. UNCHANGED <<clock, lease, status, authorized>>
        BY <1>3 DEF unchangedDatabase
    <2>2. /\ call'[p].at = "idle"
          /\ \A q \in Peer : q # p => conn'[q] = conn[q] /\ call'[q] = call[q]
        BY <1>1, <1>3, HoldNumbers DEF CloseOnError, EndOfCall, Idle
    <2>3. Tidy(p)'
        BY <1>3, <2>1, EndTidy
    <2>4. \A s \in Session : controller[s].peer # p => controller'[s] = controller[s]
        <3>1. call[p].session \in Session
            BY <1>1, <1>3, HoldNumbers
        <3> QED BY <1>1, <1>3, <3>1 DEF ClearController
    <2>5. owed'[p] = {}
        BY <1>1, <1>3 DEF CloseInv, SoundRows
    <2> QED BY <1>1, <1>3, <2>1, <2>2, <2>3, <2>4, <2>5, QuietClose
<1>4. ASSUME NEW s \in Session, AskWatch(p, s) \/ AskAcquire(p, s) PROVE CloseInv'
    BY <1>2, <1>4 DEF AskWatch, AskAcquire
<1>5. ASSUME NEW s \in Session, AskOwn(p, "renew", s) \/ AskOwn(p, "release", s)
      PROVE  CloseInv'
    <2>1. call[p].at = "idle" /\ conn[p] = "open"
        BY <1>5 DEF AskOwn, Reading
    <2>2. ASSUME Owns(p, s) PROVE controller[s].version = lease[s].version
        <3>1. InSlot(p, s)
            BY <2>1, <2>2 DEF CloseInv, Tidy, RowIsKnown, OnItsWay, Granted
        <3> QED BY <3>1 DEF InSlot
    <2> QED BY <1>2, <1>5, <2>2 DEF AskOwn
<1>6. ASSUME NEW s \in Session, Resize(p, s) \/ InputExpired(p, s) PROVE CloseInv'
    <2>1. /\ UNCHANGED <<clock, lease, status, authorized, call, owed>> /\ conn[p] = "open"
          /\ call[p].at = "idle" /\ conn'[p] \in {"open", "dead"}
          /\ \A q \in Peer : q # p => conn'[q] = conn[q]
        BY <1>1, <1>6 DEF Resize, InputExpired, Reading, CloseOnError, controlVars
    <2>2. owed[p] = {}
        BY <1>1, <2>1 DEF CloseInv, SoundRows
    <2>3. ASSUME NEW t \in Session, Owns(p, t) PROVE InSlot(p, t) /\ controller'[t] = controller[t]
        <3>1. InSlot(p, t)
            BY <2>1, <2>3 DEF CloseInv, Tidy, RowIsKnown, OnItsWay, Granted
        <3>2. ~(clock > controller[t].expires)
            <4>1. controller[t].expires = WholeSeconds(lease[t].expires)
                BY <3>1 DEF InSlot
            <4> QED BY <2>3, <4>1, RowNumbers DEF Owns
        <3>3. CASE Resize(p, s)
            BY <3>1, <3>3 DEF Resize, registryVars
        <3>4. CASE InputExpired(p, s)
            BY <1>1, <3>1, <3>2, <3>4 DEF InputExpired, ClearController
        <3> QED BY <1>6, <3>1, <3>3, <3>4
    <2>4. RowIsKnown(p)'
        <3> SUFFICES ASSUME NEW t \in Session, Owns(p, t)' PROVE InSlot(p, t)'
            BY DEF RowIsKnown
        <3>1. Owns(p, t)
            BY <2>1 DEF Owns, WholeSeconds
        <3> QED BY <2>1, <2>3, <3>1 DEF InSlot, WholeSeconds
    <2>5. \A t \in Session : controller[t].peer # p => controller'[t] = controller[t]
        BY <1>1, <1>6 DEF Resize, InputExpired, ClearController, registryVars
    <2> QED BY <1>1, <2>1, <2>2, <2>4, <2>5, NoCallClose
<1>7. ASSUME FinishWatch(p) PROVE CloseInv'
    BY <1>3, <1>7 DEF FinishWatch, Answered, Granted
<1>8. ASSUME FinishReleased(p) PROVE CloseInv'
    <2>1. ~Owns(p, call[p].session)
        BY <1>8 DEF FinishReleased, Answered, CloseInv, Tidy, EndIsTrue
    <2> QED BY <1>3, <1>8, <2>1 DEF FinishReleased, Answered, Granted
<1>9. ASSUME NEW op \in LeaseOps, FinishRefused(p, op) PROVE CloseInv'
    <2>1. op # "acquire" /\ call[p].outcome \in ClearingRefusals => ~Owns(p, call[p].session)
        BY <1>9 DEF FinishRefused, Answered, CloseInv, Tidy, EndIsTrue, LeaseOps
    <2>2. ~Granted(p)
        BY <1>9 DEF FinishRefused, Refusals, Granted
    <2> QED BY <1>3, <1>9, <2>1, <2>2 DEF FinishRefused, Answered
<1>10. ASSUME NEW op, FinishFailed(p, op) PROVE CloseInv'
    BY <1>3, <1>10 DEF FinishFailed, Answered, Granted, registryVars
<1>11. ASSUME NEW op \in {"acquire", "renew"}, FinishGrant(p, op) PROVE CloseInv'
    <2>1. PICK s \in Session : s = call[p].session
        BY <1>1, <1>11, HoldNumbers DEF FinishGrant, Answered
    <2>2. /\ UNCHANGED <<clock, lease, status, authorized, conn, owed>> /\ Granted(p)
          /\ EndOfCall(p) /\ SetController(s, p, call[p].version, call[p].expires)
        BY <1>11, <2>1 DEF FinishGrant, Answered, Granted, unchangedDatabase
    <2>3. call'[p].at = "idle" /\ \A q \in Peer : q # p => call'[q] = call[q]
        BY <1>1, <2>2, HoldNumbers DEF EndOfCall, Idle
    <2>4. lease[s].holder = DeviceOf[p]
        BY <2>1, <2>2 DEF CloseInv, Tidy, GrantIsRow
    <2>5. ASSUME NEW q \in Viewer, q # p, NEW t \in Session, Owns(q, t)'
          PROVE  controller'[t] = controller[t]
        <3>1. t # s
            BY <2>2, <2>4, <2>5 DEF Owns, OneTabEach
        <3> QED BY <1>1, <2>2, <3>1 DEF SetController
    <2>6. SoundRows'
        BY <2>2, <2>3 DEF CloseInv, SoundRows, Controllable
    <2>7. Tidy(p)'
        BY <1>11, GrantedTidy
    <2> QED BY <1>1, <2>2, <2>3, <2>5, <2>6, <2>7, ActorClose
<1> QED BY <1>4, <1>5, <1>6, <1>7, <1>8, <1>9, <1>10, <1>11 DEF ViewerMessages

LEMMA CloseStays == CloseInv /\ UNCHANGED relayVars => CloseInv'
    BY DEF relayVars, relayOwnVars, registryVars, controlVars, CloseInv, AnswersInTime,
        SoundRows, Controllable, Tidy, RowIsKnown, GrantIsRow, QuotesRow, EndIsTrue, Owns,
        InSlot, Granted, OnItsWay, OnTheList, BeingServed, BeingReleased, WholeSeconds

LEMMA CloseStep ==
    ASSUME OneTabEach
    PROVE  RelayInv /\ HoldInv /\ CloseInv /\ RelayNext /\ GoesWell => CloseInv'
<1> SUFFICES ASSUME RelayInv, HoldInv, CloseInv, RelayNext, GoesWell
             PROVE  CloseInv'
    OBVIOUS
<1>1. AnswersInTime'
    BY DEF GoesWell
<1>2. ASSUME NEW p \in Daemon, NEW s \in Session, SessionOnline(p, s)
      PROVE  CloseInv'
    <2>1. UNCHANGED <<clock, lease, status, authorized, call, conn, controller, owed>>
        BY <1>2 DEF SessionOnline, controlVars
    <2> QED BY <1>1, <2>1 DEF CloseInv,
        SoundRows, Controllable, Tidy, RowIsKnown, GrantIsRow, QuotesRow, EndIsTrue, Owns,
        InSlot, Granted, OnItsWay, OnTheList, BeingServed, BeingReleased, WholeSeconds
<1> QED BY <1>1, <1>2, EnvironmentClose, ConnectionsClose, MessagesClose, CrashClose
       DEF RelayNext

\* Between devices with one tab each, while no call fails, no answer is late,
\* no token expires, no session ends and no relay crashes: whatever
\* connections come and go, and in whatever order renewals, releases and
\* answers cross, a device whose connections are gone holds no lease for
\* another second.
THEOREM RelayClose ==
    ASSUME OneTabEach
    PROVE  RecordedSpec => []ClosedLeavesNoLease
<1>1. RelayInv /\ (smooth => CloseInv) => ClosedLeavesNoLease
    <2> SUFFICES ASSUME RelayInv, CloseInv, NEW s \in Session, NEW d \in Device,
                        \A p \in Viewer : DeviceOf[p] = d => conn[p] = "gone",
                        lease[s].holder = d, WholeSeconds(lease[s].expires) > clock
                 PROVE  FALSE
        BY DEF ClosedLeavesNoLease
    <2>1. PICK p \in Viewer : d = DeviceOf[p]
        BY LeaseAssumption DEF CloseInv, SoundRows
    <2>2. conn[p] = "gone" /\ p \in Peer /\ NoPeer \notin Peer
        BY <2>1, RelayAssumption
    <2>3. Owns(p, s)
        BY <2>1, RowNumbers DEF Owns
    <2>4. InSlot(p, s) \/ OnItsWay(p, s)
        BY <2>2, <2>3 DEF CloseInv, Tidy, RowIsKnown
    <2>5. InSlot(p, s) => controller[s].peer = p
        BY DEF InSlot
    <2> QED BY <2>2, <2>4, <2>5
           DEF RelayInv, RegistryInv, RegistryConsistent, CallFitsConn, OnItsWay, Granted
<1>2. RecordedInit => RelayInv /\ HoldInv /\ (smooth => CloseInv)
    BY RelayInitInv, HoldInit, CloseInit DEF RecordedInit
<1>3. RelayInv /\ HoldInv /\ (smooth => CloseInv) /\ [RecordedNext]_recordedVars
          => (RelayInv /\ HoldInv /\ (smooth => CloseInv))'
    <2>1. [RecordedNext]_recordedVars => [RelayNext]_relayVars
        BY DEF RecordedNext, recordedVars
    <2>2. RelayInv /\ HoldInv /\ [RecordedNext]_recordedVars => RelayInv' /\ HoldInv'
        BY <2>1, RelayStep, HoldStep
    <2>3. RelayInv /\ HoldInv /\ (smooth => CloseInv) /\ RecordedNext => (smooth' => CloseInv')
        BY CloseStep DEF RecordedNext
    <2>4. (smooth => CloseInv) /\ UNCHANGED recordedVars => (smooth' => CloseInv')
        BY CloseStays DEF recordedVars
    <2> QED BY <2>2, <2>3, <2>4
<1> QED BY <1>1, <1>2, <1>3, PTL DEF RecordedSpec

=============================================================================
