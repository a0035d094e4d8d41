---------------------------- MODULE ControlPlane ----------------------------
(***************************************************************************)
(* The control plane as the relay sees it: the gRPC lease service          *)
(* (relaycontrol over control.LeaseService over the control_leases         *)
(* queries) and the host-session handlers of the REST API that share its   *)
(* tables.  A call is served in the steps between which the database is    *)
(* open to everybody else:                                                 *)
(*                                                                         *)
(*    validate -> (acquire only) check -> write -> reply                   *)
(*                                                                         *)
(* The clock is read once, at the end of validation, and the statement of  *)
(* the write step still uses that reading.                                 *)
(***************************************************************************)
EXTENDS Lease

CONSTANTS
    Peer,           \* callers: the relay's connections, one call at a time each
    DeviceOf,       \* DeviceOf[p]: the device in the access token of p
    NoSession,      \* the session of a call that does not exist
    Second,         \* ticks per second: a reply carries whole seconds
    MaxVersion,     \* bound: no write is started on a row of this version
    MaxDrops,       \* bound on lease deletions that wait behind a status PATCH
    PatchStatus     \* the statuses hosts PATCH in this instance

ASSUME ControlAssumption ==
    /\ DeviceOf \in [Peer -> Device]
    /\ NoSession \notin Session
    /\ Second \in Nat \ {0}
    /\ MaxVersion \in Nat
    /\ MaxDrops \in Nat
    /\ PatchStatus \subseteq {"running", "exited"}

VARIABLES
    status,         \* status[s]: the session row's status column
    drops,          \* drops[s]: PATCH handlers between their two statements
    authorized,     \* the peers whose access token has not expired yet
    call            \* call[p]: the RPC of p in progress

controlVars == <<clock, lease, status, drops, authorized, call>>

\* "running" stands for running and idle, "exited" for every status that
\* isControllableStatus refuses once the session has started.
SessionStatus == {"absent", "starting", "running", "exited"}

Controllable(s) == status[s] = "running"

LeaseOps == {"acquire", "renew", "release"}
Refusals == {"unauthorized", "invalid_request", "not_found",
             "session_not_controllable", "already_controlled", "stale_lease"}
Outcomes == {"none", "authorized", "granted", "released", "error"} \cup Refusals

Call == [at:      {"idle", "validate", "check", "write", "reply"},
         op:      {"none", "watch"} \cup LeaseOps,
         session: Session \cup {NoSession},
         version: Nat,      \* sent by renew and release, returned by a grant
         now:     Nat,      \* the clock reading of this call
         outcome: Outcomes,
         expires: Nat]      \* returned by a grant

Idle == [at |-> "idle", op |-> "none", session |-> NoSession, version |-> 0,
         now |-> 0, outcome |-> "none", expires |-> 0]

ControlTypeOK ==
    /\ LeaseTypeOK
    /\ status \in [Session -> SessionStatus]
    /\ drops \in [Session -> 0 .. MaxDrops]
    /\ authorized \subseteq Peer
    /\ call \in [Peer -> Call]

ControlInit ==
    /\ LeaseInit
    /\ status = [s \in Session |-> "absent"]
    /\ drops = [s \in Session |-> 0]
    /\ authorized = Peer
    /\ call = [p \in Peer |-> Idle]

-----------------------------------------------------------------------------
(* Calls                                                                   *)

\* The RFC 3339 text of an expiry has no fraction: the relay gets it rounded
\* down to a whole second.
WholeSeconds(t) == t - (t % Second)

Begin(p, op, s, v) ==
    /\ call[p].at = "idle"
    /\ call' = [call EXCEPT ![p] = [Idle EXCEPT !.at = "validate", !.op = op,
                                                !.session = s, !.version = v]]

Answer(p, outcome, v, e) ==
    call' = [call EXCEPT ![p] = [Idle EXCEPT
                !.at = "reply", !.op = call[p].op, !.session = call[p].session,
                !.outcome = outcome, !.version = v, !.expires = e]]

Reply(p, outcome) == Answer(p, outcome, 0, 0)

\* actorFromToken, then the request check, then validateSessionAndDevice.
\* The lookup of the device always succeeds: nothing in the repository
\* disables a device, and the token names a registered one.
Refusal(p) ==
    LET c == call[p] IN
    IF p \notin authorized THEN "unauthorized"
    ELSE IF c.op \in {"renew", "release"} /\ c.version = 0 THEN "invalid_request"
    ELSE IF status[c.session] = "absent" THEN "not_found"
    ELSE IF c.op \in LeaseOps /\ ~Controllable(c.session)
         THEN "session_not_controllable"
    ELSE "none"

Validate(p) ==
    /\ call[p].at = "validate"
    /\ \/ /\ Refusal(p) # "none"
          /\ Reply(p, Refusal(p))
       \/ /\ Refusal(p) = "none"
          /\ call[p].op = "watch"
          /\ Reply(p, "authorized")
       \/ /\ Refusal(p) = "none"
          /\ call[p].op \in LeaseOps
          /\ call' = [call EXCEPT ![p].now = clock,
                ![p].at = IF call[p].op = "acquire" THEN "check" ELSE "write"]
    /\ UNCHANGED <<clock, lease, status, drops, authorized>>

\* GetActiveControlLease: is the row, by this call's clock reading, running
\* for another device?
CheckActive(p) ==
    LET c == call[p] IN
    /\ c.at = "check"
    /\ IF lease[c.session].expires > c.now
             /\ lease[c.session].holder # DeviceOf[p]
       THEN Reply(p, "already_controlled")
       ELSE call' = [call EXCEPT ![p].at = "write"]
    /\ UNCHANGED <<clock, lease, status, drops, authorized>>

\* Mutant: the upsert trusts the check that came before it.
UpsertMatchesAlways(p) == TRUE

\* The conditions of the three statements.
UpsertMatches(p) ==
    LET row == lease[call[p].session] IN
    row.expires <= call[p].now \/ row.holder = DeviceOf[p]

OwnVersion(p) ==
    LET row == lease[call[p].session] IN
    row.holder = DeviceOf[p] /\ row.version = call[p].version

RenewMatches(p) ==
    OwnVersion(p) /\ lease[call[p].session].expires > call[p].now

\* Mutant: a grant is added to the old expiry.
WriteGrantOnTop(p) ==
    LET s == call[p].session
        v == lease[s].version + 1
        e == lease[s].expires + TTL
    IN /\ lease' = [lease EXCEPT ![s] = [holder |-> DeviceOf[p],
                                         version |-> v, expires |-> e]]
       /\ Answer(p, "granted", v, WholeSeconds(e))

\* Both grants write the next version and an expiry of one TTL from the
\* clock reading of the call, and return the row.
WriteGrant(p) ==
    LET s == call[p].session
        v == lease[s].version + 1
        e == call[p].now + TTL
    IN /\ lease' = [lease EXCEPT ![s] = [holder |-> DeviceOf[p],
                                         version |-> v, expires |-> e]]
       /\ Answer(p, "granted", v, WholeSeconds(e))

Upsert(p) ==
    /\ call[p].at = "write" /\ call[p].op = "acquire"
    /\ \/ UpsertMatches(p) /\ WriteGrant(p)
       \/ ~UpsertMatches(p) /\ Reply(p, "already_controlled") /\ UNCHANGED lease
    /\ UNCHANGED <<clock, status, drops, authorized>>

Renew(p) ==
    /\ call[p].at = "write" /\ call[p].op = "renew"
    /\ \/ RenewMatches(p) /\ WriteGrant(p)
       \/ ~RenewMatches(p) /\ Reply(p, "stale_lease") /\ UNCHANGED lease
    /\ UNCHANGED <<clock, status, drops, authorized>>

Release(p) ==
    /\ call[p].at = "write" /\ call[p].op = "release"
    /\ \/ /\ OwnVersion(p)
          /\ lease' = [lease EXCEPT ![call[p].session] = NoLease]
          /\ Reply(p, "released")
       \/ ~OwnVersion(p) /\ Reply(p, "stale_lease") /\ UNCHANGED lease
    /\ UNCHANGED <<clock, status, drops, authorized>>

\* The call fails for the caller: a database error before the write, or a
\* broken connection before or after it (then the write stays).
FailCall(p) ==
    /\ call[p].at # "idle" /\ call[p].outcome # "error"
    /\ Reply(p, "error")
    /\ UNCHANGED <<clock, lease, status, drops, authorized>>

Serve(p) == Validate(p) \/ CheckActive(p) \/ Upsert(p) \/ Renew(p) \/ Release(p)

-----------------------------------------------------------------------------
(* The host's REST calls on the session row                                *)

CreateSession(s) ==
    /\ status[s] = "absent"
    /\ status' = [status EXCEPT ![s] = "starting"]
    /\ UNCHANGED <<clock, lease, drops, authorized, call>>

\* PatchHostSession, first statement.  Leaving the controllable statuses
\* obliges the handler to delete the lease row, in a statement of its own.
PatchSession(s, st) ==
    /\ status[s] # "absent"
    /\ st = "exited" => drops[s] < MaxDrops
    /\ status' = [status EXCEPT ![s] = st]
    /\ drops' = IF st = "exited" THEN [drops EXCEPT ![s] = @ + 1] ELSE drops
    /\ UNCHANGED <<clock, lease, authorized, call>>

\* PatchHostSession, second statement; a failure is only logged.
DropLease(s) ==
    /\ drops[s] > 0
    /\ drops' = [drops EXCEPT ![s] = @ - 1]
    /\ lease' = [lease EXCEPT ![s] = NoLease] \/ UNCHANGED lease
    /\ UNCHANGED <<clock, status, authorized, call>>

\* Mutant: the status of a heartbeat is not validated.
HeartbeatUnchecked(s) ==
    /\ status[s] # "absent"
    /\ status' = [status EXCEPT ![s] = "alive"]
    /\ UNCHANGED <<clock, lease, drops, authorized, call>>

\* TouchSessionHeartbeat sets the status it is sent whatever the row says.
Heartbeat(s) ==
    /\ status[s] # "absent"
    /\ status' = [status EXCEPT ![s] = "running"]
    /\ UNCHANGED <<clock, lease, drops, authorized, call>>

-----------------------------------------------------------------------------
ClockTick ==
    /\ Tick
    /\ UNCHANGED <<status, drops, authorized, call>>

\* The relay keeps the access token of the handshake for the life of the
\* connection, so it expires under it.
ExpireToken(p) ==
    /\ p \in authorized
    /\ authorized' = authorized \ {p}
    /\ UNCHANGED <<clock, lease, status, drops, call>>

\* What the control plane and its hosts do on their own.
Environment ==
    \/ ClockTick
    \/ \E s \in Session : \/ CreateSession(s) \/ DropLease(s) \/ Heartbeat(s)
                          \/ \E st \in PatchStatus : PatchSession(s, st)
    \/ \E p \in Peer : Serve(p) \/ FailCall(p) \/ ExpireToken(p)

\* Bound: a grant is asked for only while the row's version is small.
CallAllowed(op, s) == op \in {"acquire", "renew"} => lease[s].version < MaxVersion

\* The most general caller: any operation on any session with any version.
BeginCall(p) ==
    /\ \E s \in Session, op \in LeaseOps \cup {"watch"}, v \in 0 .. MaxVersion :
          /\ CallAllowed(op, s)
          /\ op \notin {"renew", "release"} => v = 0
          /\ Begin(p, op, s, v)
    /\ UNCHANGED <<clock, lease, status, drops, authorized>>

EndCall(p) ==
    /\ call[p].at = "reply"
    /\ call' = [call EXCEPT ![p] = Idle]
    /\ UNCHANGED <<clock, lease, status, drops, authorized>>

NewToken(p) ==
    /\ p \notin authorized
    /\ authorized' = authorized \cup {p}
    /\ UNCHANGED <<clock, lease, status, drops, call>>

ControlNext ==
    \/ Environment
    \/ \E p \in Peer : BeginCall(p) \/ EndCall(p) \/ NewToken(p)

ControlSpec == ControlInit /\ [][ControlNext]_controlVars

=============================================================================
