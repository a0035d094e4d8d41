------------------------------- MODULE Relay -------------------------------
(***************************************************************************)
(* termix-relay: one goroutine per connection reads a message, handles it  *)
(* to the end and reads the next.  The goroutines share a registry of      *)
(* daemons, watchers and controllers, behind a lock held for one registry  *)
(* call at a time, and ask the control plane about everything else; while  *)
(* a goroutine waits for that answer all the others run.                   *)
(***************************************************************************)
EXTENDS ControlPlane

CONSTANTS
    Daemon,         \* the connections that come from host daemons
    Viewer,         \* the connections that come from browsers
    NoPeer,         \* nobody
    Faults          \* which faults this instance has: see RelayEnvironment

ASSUME RelayAssumption ==
    /\ Peer = Daemon \cup Viewer
    /\ NoPeer \notin Peer
    /\ Faults \subseteq {"call", "token", "crash"}

VARIABLES
    conn,           \* conn[p]: the connection and its goroutine
    daemonOf,       \* daemonOf[s]: registry.daemons
    watching,       \* watching[p]: registry.watching, and watchers its inverse
    controller,     \* controller[s]: registry.controllers, or NoController
    owed            \* owed[p]: releases a closed connection still has to send

registryVars == <<daemonOf, watching, controller>>
relayOwnVars == <<conn, registryVars, owed>>
relayVars == <<controlVars, relayOwnVars>>

NoController == [peer |-> NoPeer, version |-> 0, expires |-> 0]
Controller == [peer: Peer \cup {NoPeer}, version: Nat, expires: Nat]

\* open: in use.  dead: the socket is gone or a handler failed, and the
\* goroutine has not run its deferred clean-up.  leaving: the registry is
\* purged and the releases are being sent.  gone: no goroutine.
ConnState == {"open", "dead", "leaving", "gone"}

RelayTypeOK ==
    /\ ControlTypeOK
    /\ conn \in [Peer -> ConnState]
    /\ daemonOf \in [Session -> Peer \cup {NoPeer}]
    /\ watching \in [Peer -> SUBSET Session]
    /\ controller \in [Session -> Controller]
    /\ owed \in [Peer -> SUBSET [session: Session, version: Nat]]

RelayInit ==
    /\ ControlInit
    /\ conn = [p \in Peer |-> "gone"]
    /\ daemonOf = [s \in Session |-> NoPeer]
    /\ watching = [p \in Peer |-> {}]
    /\ controller = [s \in Session |-> NoController]
    /\ owed = [p \in Peer |-> {}]

-----------------------------------------------------------------------------
(* Pieces of the handlers                                                  *)

\* The goroutine of p is about to read its next message.
Reading(p) == conn[p] = "open" /\ call[p].at = "idle"

\* The goroutine of p has the answer to the call op.
Answered(p, op) ==
    /\ conn[p] \in {"open", "dead"}
    /\ call[p].at = "reply" /\ call[p].op = op

EndOfCall(p) == call' = [call EXCEPT ![p] = Idle]

\* A handler that returns an error ends the connection.
CloseOnError(p) == conn' = [conn EXCEPT ![p] = "dead"]

SetController(s, p, v, e) ==
    controller' = [controller EXCEPT ![s] =
                      [peer |-> p, version |-> v, expires |-> e]]

\* Clears the slot only if p is still in it.
ClearController(s, p) ==
    controller' = IF controller[s].peer = p
                  THEN [controller EXCEPT ![s] = NoController]
                  ELSE controller

ClearingRefusals == {"stale_lease", "unauthorized", "not_found",
                     "session_not_controllable"}

\* A peer that the relay would forward input of session s from: p holds the
\* slot and the relay's clock has not passed its expiry.
Accepts(p, s) ==
    /\ Reading(p)
    /\ controller[s].peer = p
    /\ clock <= controller[s].expires

unchangedDatabase == UNCHANGED <<clock, lease, status, drops, authorized>>

-----------------------------------------------------------------------------
(* Connections                                                             *)

Connect(p) ==
    /\ conn[p] = "gone"
    /\ conn' = [conn EXCEPT ![p] = "open"]
    /\ authorized' = authorized \cup {p}
    /\ UNCHANGED <<clock, lease, status, drops, call, registryVars, owed>>

\* The other end closes, or the network does.
LoseConnection(p) ==
    /\ conn[p] = "open"
    /\ conn' = [conn EXCEPT ![p] = "dead"]
    /\ UNCHANGED <<controlVars, registryVars, owed>>

\* Mutant: the slots of a closed connection stay.
RemovePeerKeepsSlots(p) ==
    /\ conn[p] = "dead" /\ call[p].at = "idle"
    /\ daemonOf' = [s \in Session |->
                       IF daemonOf[s] = p THEN NoPeer ELSE daemonOf[s]]
    /\ watching' = [watching EXCEPT ![p] = {}]
    /\ conn' = [conn EXCEPT ![p] = "leaving"]
    /\ UNCHANGED <<controlVars, controller, owed>>

\* Mutant: the slots are cleared and nothing is released for them.
RemovePeerReleasesNothing(p) ==
    /\ conn[p] = "dead" /\ call[p].at = "idle"
    /\ daemonOf' = [s \in Session |->
                       IF daemonOf[s] = p THEN NoPeer ELSE daemonOf[s]]
    /\ watching' = [watching EXCEPT ![p] = {}]
    /\ controller' = [s \in Session |-> IF controller[s].peer = p
                                        THEN NoController ELSE controller[s]]
    /\ conn' = [conn EXCEPT ![p] = "leaving"]
    /\ UNCHANGED <<controlVars, owed>>

\* The deferred function of serveConn, first part: registry.removePeer.
RemovePeer(p) ==
    /\ conn[p] = "dead" /\ call[p].at = "idle"
    /\ daemonOf' = [s \in Session |->
                       IF daemonOf[s] = p THEN NoPeer ELSE daemonOf[s]]
    /\ watching' = [watching EXCEPT ![p] = {}]
    /\ controller' = [s \in Session |-> IF controller[s].peer = p
                                        THEN NoController ELSE controller[s]]
    /\ owed' = [owed EXCEPT ![p] =
                   {[session |-> s, version |-> controller[s].version] :
                       s \in {t \in Session : controller[t].peer = p}}]
    /\ conn' = [conn EXCEPT ![p] = "leaving"]
    /\ UNCHANGED controlVars

\* Second part: one ReleaseControl after the other, answers ignored.
CloseRelease(p) ==
    /\ conn[p] = "leaving"
    /\ \E o \in owed[p] :
          /\ Begin(p, "release", o.session, o.version)
          /\ owed' = [owed EXCEPT ![p] = @ \ {o}]
    /\ unchangedDatabase
    /\ UNCHANGED <<conn, registryVars>>

EndCloseRelease(p) ==
    /\ conn[p] = "leaving" /\ call[p].at = "reply"
    /\ EndOfCall(p)
    /\ unchangedDatabase
    /\ UNCHANGED relayOwnVars

Depart(p) ==
    /\ conn[p] = "leaving" /\ call[p].at = "idle" /\ owed[p] = {}
    /\ conn' = [conn EXCEPT ![p] = "gone"]
    /\ UNCHANGED <<controlVars, registryVars, owed>>

-----------------------------------------------------------------------------
(* Messages of a daemon and of a watcher                                   *)

\* session.online: the last daemon to announce the session gets its traffic.
SessionOnline(p, s) ==
    /\ Reading(p)
    /\ status[s] # "absent"
    /\ daemonOf' = [daemonOf EXCEPT ![s] = p]
    /\ UNCHANGED <<controlVars, conn, watching, controller, owed>>

\* session.watch, up to the AuthorizeWatch call and after it.
AskWatch(p, s) ==
    /\ Reading(p)
    /\ Begin(p, "watch", s, 0)
    /\ unchangedDatabase
    /\ UNCHANGED relayOwnVars

\* The last write of the handler is the snapshot request to the daemon: when
\* the daemon's socket is already dead it may fail, and then the viewer pays.
FinishWatch(p) ==
    /\ Answered(p, "watch")
    /\ EndOfCall(p)
    /\ LET s == call[p].session IN
       \/ /\ call[p].outcome # "authorized" \/ daemonOf[s] = NoPeer
          /\ CloseOnError(p)
          /\ UNCHANGED watching
       \/ /\ call[p].outcome = "authorized" /\ daemonOf[s] # NoPeer
          /\ watching' = [watching EXCEPT ![p] = @ \cup {s}]
          /\ \/ UNCHANGED conn
             \/ conn[daemonOf[s]] # "open" /\ CloseOnError(p)
    /\ unchangedDatabase
    /\ UNCHANGED <<daemonOf, controller, owed>>

\* client.resize fails, and closes the viewer's connection, when the viewer
\* does not watch the session or the daemon cannot be written to.
Resize(p, s) ==
    /\ Reading(p)
    /\ \/ s \notin watching[p]
       \/ daemonOf[s] = NoPeer
       \/ daemonOf[s] # NoPeer /\ conn[daemonOf[s]] # "open"
    /\ CloseOnError(p)
    /\ UNCHANGED <<controlVars, registryVars, owed>>

-----------------------------------------------------------------------------
(* Control messages.  A message that fails the checks in front of the call *)
(* is answered with control.denied and changes nothing.                    *)

AskAcquire(p, s) ==
    /\ Reading(p)
    /\ s \in watching[p]
    /\ daemonOf[s] # NoPeer
    /\ CallAllowed("acquire", s)
    /\ Begin(p, "acquire", s, 0)
    /\ unchangedDatabase
    /\ UNCHANGED relayOwnVars

\* control.renew and control.release must quote the version of the slot.
AskOwn(p, op, s) ==
    /\ Reading(p)
    /\ controller[s].peer = p
    /\ CallAllowed(op, s)
    /\ Begin(p, op, s, controller[s].version)
    /\ unchangedDatabase
    /\ UNCHANGED relayOwnVars

\* A grant goes into the slot whatever the slot holds by now.
FinishGrant(p, op) ==
    /\ Answered(p, op)
    /\ call[p].outcome = "granted"
    /\ EndOfCall(p)
    /\ SetController(call[p].session, p, call[p].version, call[p].expires)
    /\ unchangedDatabase
    /\ UNCHANGED <<conn, daemonOf, watching, owed>>

FinishReleased(p) ==
    /\ Answered(p, "release")
    /\ call[p].outcome = "released"
    /\ EndOfCall(p)
    /\ ClearController(call[p].session, p)
    /\ unchangedDatabase
    /\ UNCHANGED <<conn, daemonOf, watching, owed>>

\* writeDeniedError: a refused renew or release clears the slot for the
\* reasons that mean the lease is lost; a refused acquire never does.
FinishRefused(p, op) ==
    /\ Answered(p, op)
    /\ call[p].outcome \in Refusals
    /\ EndOfCall(p)
    /\ IF op # "acquire" /\ call[p].outcome \in ClearingRefusals
       THEN ClearController(call[p].session, p)
       ELSE UNCHANGED controller
    /\ unchangedDatabase
    /\ UNCHANGED <<conn, daemonOf, watching, owed>>

\* Mutant: the viewer stays connected after a call that failed.
FinishFailedStaysOpen(p, op) ==
    /\ Answered(p, op)
    /\ call[p].outcome = "error"
    /\ EndOfCall(p)
    /\ unchangedDatabase
    /\ UNCHANGED relayOwnVars

\* Any other error is the handler's error.
FinishFailed(p, op) ==
    /\ Answered(p, op)
    /\ call[p].outcome = "error"
    /\ EndOfCall(p)
    /\ CloseOnError(p)
    /\ unchangedDatabase
    /\ UNCHANGED <<registryVars, owed>>

\* A terminal input frame that is accepted changes nothing here; one that
\* comes after the slot's expiry clears the slot.
InputExpired(p, s) ==
    /\ Reading(p)
    /\ controller[s].peer = p
    /\ clock > controller[s].expires
    /\ ClearController(s, p)
    /\ UNCHANGED <<controlVars, conn, daemonOf, watching, owed>>

-----------------------------------------------------------------------------
\* The relay process dies: every connection, goroutine, call and registry
\* entry with it.  The database keeps what was written.
Crash ==
    /\ conn' = [p \in Peer |-> "gone"]
    /\ call' = [p \in Peer |-> Idle]
    /\ daemonOf' = [s \in Session |-> NoPeer]
    /\ watching' = [p \in Peer |-> {}]
    /\ controller' = [s \in Session |-> NoController]
    /\ owed' = [p \in Peer |-> {}]
    /\ unchangedDatabase

RelayEnvironment ==
    /\ \/ ClockTick
       \/ \E s \in Session : \/ CreateSession(s) \/ DropLease(s) \/ Heartbeat(s)
                             \/ \E st \in PatchStatus : PatchSession(s, st)
       \/ \E p \in Peer : \/ Serve(p)
                          \/ "call" \in Faults /\ FailCall(p)
                          \/ "token" \in Faults /\ ExpireToken(p)
    /\ UNCHANGED relayOwnVars

Connections(p) ==
    \/ Connect(p) \/ LoseConnection(p) \/ RemovePeer(p)
    \/ CloseRelease(p) \/ EndCloseRelease(p) \/ Depart(p)

ViewerMessages(p) ==
    \/ \E s \in Session : \/ AskWatch(p, s) \/ Resize(p, s)
                          \/ AskAcquire(p, s) \/ InputExpired(p, s)
                          \/ AskOwn(p, "renew", s) \/ AskOwn(p, "release", s)
    \/ FinishWatch(p) \/ FinishReleased(p)
    \/ FinishGrant(p, "acquire") \/ FinishGrant(p, "renew")
    \/ \E op \in LeaseOps : FinishRefused(p, op) \/ FinishFailed(p, op)

RelayNext ==
    \/ RelayEnvironment
    \/ \E p \in Peer : Connections(p)
    \/ \E p \in Viewer : ViewerMessages(p)
    \/ \E p \in Daemon, s \in Session : SessionOnline(p, s)
    \/ "crash" \in Faults /\ Crash

RelaySpec == RelayInit /\ [][RelayNext]_relayVars

-----------------------------------------------------------------------------
\* The registry names live connections only, and a controller is always a
\* watcher of its session: input needs an earlier session.watch, whatever
\* joins, leaves and answers come in between.
RegistryConsistent ==
    /\ \A s \in Session :
          /\ daemonOf[s] # NoPeer => conn[daemonOf[s]] \in {"open", "dead"}
          /\ LET p == controller[s].peer IN
             p # NoPeer => conn[p] \in {"open", "dead"} /\ s \in watching[p]
    /\ \A p \in Peer : watching[p] # {} => conn[p] \in {"open", "dead"}

\* While the relay takes input from p, no other device holds the lease.  The
\* instant of the expiry itself is left out: the relay still forwards then,
\* and the database already treats the lease as over.
TypistHoldsLease ==
    \A s \in Session, p \in Viewer, d \in Device :
        Accepts(p, s) /\ clock < controller[s].expires /\ HeldBy(s, d)
            => d = DeviceOf[p]

\* Weaker: another device may hold the lease only while the answer that tells
\* it so is still on its way.
OneRemoteController ==
    \A s \in Session, p \in Viewer, d \in Device :
        /\ Accepts(p, s) /\ clock < controller[s].expires
        /\ HeldBy(s, d) /\ d # DeviceOf[p]
        => \E q \in Viewer : DeviceOf[q] = d /\ call[q].at # "idle"

-----------------------------------------------------------------------------
(* History, read by ClosedLeavesNoLease only.                              *)

VARIABLE smooth     \* nothing has gone wrong so far

recordedVars == <<relayVars, smooth>>

\* An answer that grants a lease is at the relay before the lease ends.
AnswersInTime ==
    \A p \in Peer : call[p].at = "reply" /\ call[p].outcome = "granted"
                      => clock < call[p].expires

\* No call fails, no answer is late, no token expires and no session ends; a
\* goroutine goes when it is through, which a crash does not wait for.
GoesWell ==
    /\ AnswersInTime'
    /\ authorized' = Peer
    /\ \A s \in Session : drops'[s] = 0
    /\ \A p \in Peer :
          /\ call'[p].outcome # "error"
          /\ conn'[p] = "gone" /\ conn[p] # "gone"
                => conn[p] = "leaving" /\ owed[p] = {} /\ call[p].at = "idle"

RecordedInit == RelayInit /\ smooth = TRUE
RecordedNext == RelayNext /\ smooth' = (smooth /\ GoesWell)
RecordedSpec == RecordedInit /\ [][RecordedNext]_recordedVars

\* A device whose connections have all closed blocks nobody: its leases went
\* with the connections, if nothing has gone wrong.  What is left of a second
\* is left out, because the slot ends at the whole second and is then no
\* longer released.
ClosedLeavesNoLease ==
    smooth =>
        \A s \in Session, d \in Device :
            (\A p \in Viewer : DeviceOf[p] = d => conn[p] = "gone")
                => ~(lease[s].holder = d /\ WholeSeconds(lease[s].expires) > clock)

=============================================================================
