----------------------------- MODULE SpaControl -----------------------------
(***************************************************************************)
(* Control of a session as one browser sees it: the state the page shows,  *)
(* the lease version it quotes, the timer that renews, and the messages    *)
(* under way to and from the relay, which handles them one by one.  The    *)
(* relay and the control plane behind it are one here: Relay and           *)
(* ControlPlane take them apart.                                           *)
(***************************************************************************)
EXTENDS Integers, Sequences

CONSTANTS
    TTL,            \* lifetime of a grant
    Lead, Floor,    \* the renewal is due Lead before the end, not before Floor
    Skew,           \* by how much the browser's clock may be behind
    Versions,       \* bound: lease versions are counted modulo this
    MaxWire         \* bound on the messages under way when the user sends one,
                    \* or the relay answers one

ASSUME SpaControlAssumption ==
    /\ TTL \in Nat \ {0} /\ Floor \in Nat \ {0} /\ Lead \in Nat \ {0}
    /\ Floor < TTL /\ Skew \subseteq Nat /\ 0 \in Skew
    /\ Versions \in Nat \ {0} /\ MaxWire \in Nat \ {0}

VARIABLES
    state,          \* control.ts: state
    leaseVersion,   \* control.ts: leaseVersion, 0 for null
    timer,          \* time until the renewal, Off without one
    toRelay,        \* messages on their way to the relay
    toBrowser,      \* and back
    slot,           \* the version in the relay's slot, 0 when it is not ours
    lease,          \* the row: who holds it, its version, and the time it has left
    late,           \* history: time passed while something was due, or by a
                    \* clock that is behind
    untold          \* history: what the relay's last word left unsaid of the
                    \* slot, see QuietMeansAgreed

controlVars ==
    <<state, leaseVersion, timer, toRelay, toBrowser, slot, lease, late, untold>>

Off == 0 - 1

Ask == [type: {"acquire", "renew", "release", "input"}, version: 0..Versions]
ToPage == [type: {"granted", "denied", "revoked"}, version: 0..Versions, left: 0..TTL]

NoLease == [holder |-> "none", version |-> 0, left |-> 0]

Msg(type, v) == [type |-> type, version |-> v]
Reply(type) == [type |-> type, version |-> 0, left |-> 0]

SpaControlTypeOK ==
    /\ state \in {"none", "requesting", "granted", "denied", "revoked"}
    /\ leaseVersion \in 0..Versions
    /\ (leaseVersion # 0) <=> (state = "granted")
    /\ timer \in Nat \cup {Off}
    /\ toRelay \in Seq(Ask) /\ toBrowser \in Seq(ToPage)
    /\ slot \in 0..Versions
    /\ lease \in [holder: {"none", "us", "other"}, version: 0..Versions, left: 0..TTL]
    /\ late \in BOOLEAN /\ untold \in {"nothing", "kept", "emptied"}

SpaControlInit ==
    /\ state = "none" /\ leaseVersion = 0 /\ timer = Off
    /\ toRelay = <<>> /\ toBrowser = <<>>
    /\ slot = 0 /\ lease = NoLease
    /\ late = FALSE /\ untold = "nothing"

Quiet == toRelay = <<>> /\ toBrowser = <<>>

browserVars == <<state, leaseVersion, timer>>
relayVars == <<slot, lease, untold>>

-----------------------------------------------------------------------------
(* control.ts                                                              *)

Send(m) == toRelay' = Append(toRelay, m)

\* The user is not faster than the wire.
UserSends(m) == Len(toRelay) < MaxWire /\ Send(m)

\* The page has the button unless control is granted.
RequestControl ==
    /\ state # "granted"
    /\ UserSends(Msg("acquire", 0))
    /\ state' = "requesting"
    /\ UNCHANGED <<leaseVersion, timer, toBrowser, relayVars, late>>

\* Mutant: the page keeps quoting the version it gave back.
ReleaseKeepsVersion ==
    /\ state = "granted"
    /\ UserSends(Msg("release", leaseVersion))
    /\ state' = "none" /\ timer' = Off
    /\ UNCHANGED <<leaseVersion, toBrowser, relayVars, late>>

ReleaseControl ==
    /\ state = "granted"
    /\ UserSends(Msg("release", leaseVersion))
    /\ state' = "none" /\ leaseVersion' = 0 /\ timer' = Off
    /\ UNCHANGED <<toBrowser, relayVars, late>>

\* canSendInput is the gate of every key.
Type ==
    /\ state = "granted"
    /\ UserSends(Msg("input", 0))
    /\ UNCHANGED <<browserVars, toBrowser, relayVars, late>>

RenewDue ==
    /\ timer = 0
    /\ Send(Msg("renew", leaseVersion))
    /\ timer' = Off
    /\ UNCHANGED <<state, leaseVersion, toBrowser, relayVars, late>>

\* Mutant: Lead and Floor are taken for a minimum of both.
DelayAtMostFloor(left, skew) == left + skew

\* What is left of the lease by the browser's clock, less the lead.
Delay(left, skew) ==
    IF left + skew - Lead > Floor THEN left + skew - Lead ELSE Floor

\* Mutant: only the transition to granted arms the timer.
ScheduleFirstRenew(left) ==
    IF state = "granted" THEN UNCHANGED <<timer, late>>
    ELSE \E skew \in Skew : /\ timer' = Delay(left, skew)
                            /\ late' = (late \/ skew # 0)

ScheduleRenew(left) ==
    \E skew \in Skew : /\ timer' = Delay(left, skew)
                       /\ late' = (late \/ skew # 0)

\* Mutant: a renewal leaves the version of the first grant.
GrantedVersionOnce(v) == IF state = "granted" THEN leaseVersion ELSE v

GrantedVersion(v) == v

HandleEnvelope ==
    /\ toBrowser # <<>>
    /\ toBrowser' = Tail(toBrowser)
    /\ LET m == Head(toBrowser) IN
       \/ /\ m.type = "granted"
          /\ state' = "granted" /\ leaseVersion' = GrantedVersion(m.version)
          /\ ScheduleRenew(m.left)
       \/ /\ m.type # "granted"
          /\ state' = m.type /\ leaseVersion' = 0 /\ timer' = Off
          /\ UNCHANGED late
    /\ UNCHANGED <<toRelay, relayVars>>

\* The connection ends and the next one starts; the lease goes with the
\* relay's clean-up, or stays until it runs out.
ConnectionDropped ==
    /\ state' = "none" /\ leaseVersion' = 0 /\ timer' = Off
    /\ toRelay' = <<>> /\ toBrowser' = <<>> /\ slot' = 0
    /\ \/ UNCHANGED lease
       \/ /\ lease.holder = "us" /\ slot = lease.version
          /\ lease' = NoLease
    /\ untold' = "nothing" /\ UNCHANGED late

-----------------------------------------------------------------------------
(* The relay and the control plane                                         *)

NextVersion == (lease.version % Versions) + 1

Granted(who) == lease' = [holder |-> who, version |-> NextVersion, left |-> TTL]

Answers(m) == Len(toBrowser) < MaxWire /\ toBrowser' = Append(toBrowser, m)

\* writeControlDenied, and writeDeniedError without clearing.
Refuse ==
    /\ Answers(Reply("denied"))
    /\ untold' = IF slot = 0 THEN "nothing" ELSE "kept"
    /\ UNCHANGED <<slot, lease>>

\* writeDeniedError with clearing: the slot goes as well.
RefuseAndClear ==
    /\ Answers(Reply("denied"))
    /\ slot' = 0 /\ untold' = "nothing" /\ UNCHANGED lease

\* The slot goes and the page hears nothing of it.
Emptied == slot' = 0 /\ untold' = IF slot = 0 THEN untold ELSE "emptied"

Grant ==
    /\ Granted("us") /\ slot' = NextVersion /\ untold' = "nothing"
    /\ Answers([type |-> "granted", version |-> NextVersion, left |-> TTL])

Running == lease.holder # "none" /\ lease.left > 0

\* The daemon may be offline, the session over, the token expired.
HandleAcquire(m) ==
    /\ m.type = "acquire"
    /\ \/ ~(Running /\ lease.holder = "other") /\ Grant
       \/ Refuse

\* Refused at the slot, or by the control plane, on which the slot goes too:
\* the lease is gone, or the session is over, or the token has expired.
HandleRenew(m) ==
    /\ m.type = "renew"
    /\ \/ slot # m.version /\ Refuse
       \/ /\ slot = m.version /\ Running
          /\ lease.holder = "us" /\ lease.version = m.version
          /\ Grant
       \/ slot = m.version /\ RefuseAndClear

HandleRelease(m) ==
    /\ m.type = "release"
    /\ \/ slot # m.version /\ Refuse
       \/ /\ slot = m.version
          /\ lease.holder = "us" /\ lease.version = m.version
          /\ lease' = NoLease /\ slot' = 0 /\ untold' = "nothing"
          /\ Answers(Reply("revoked"))
       \/ slot = m.version /\ RefuseAndClear

\* The error that answers input out of turn does not reach control.ts.
HandleInput(m) ==
    /\ m.type = "input"
    /\ IF lease.left = 0 THEN Emptied ELSE UNCHANGED <<slot, untold>>
    /\ UNCHANGED <<lease, toBrowser>>

RelayHandles ==
    /\ toRelay # <<>>
    /\ toRelay' = Tail(toRelay)
    /\ LET m == Head(toRelay) IN
       HandleAcquire(m) \/ HandleRenew(m) \/ HandleRelease(m) \/ HandleInput(m)
    /\ UNCHANGED <<browserVars, late>>

\* Another tab of this device takes the slot over, another device takes a
\* lease that has run out or was released.
RivalAcquires ==
    /\ Emptied
    /\ \/ lease.holder = "us" /\ Granted("us")
       \/ ~Running /\ Granted("other")
    /\ UNCHANGED <<browserVars, toRelay, toBrowser, late>>

RivalReleases ==
    /\ lease.holder = "other" \/ (lease.holder = "us" /\ slot = 0)
    /\ lease' = NoLease
    /\ UNCHANGED <<browserVars, toRelay, toBrowser, slot, late, untold>>

Tick ==
    /\ lease' = [lease EXCEPT !.left = IF @ = 0 THEN 0 ELSE @ - 1]
    /\ timer' = IF timer \in {Off, 0} THEN timer ELSE timer - 1
    /\ <<lease', timer'>> # <<lease, timer>>
    /\ late' = (late \/ ~Quiet \/ timer = 0)
    /\ UNCHANGED <<state, leaseVersion, toRelay, toBrowser, slot, untold>>

-----------------------------------------------------------------------------
SpaControlNext ==
    \/ RequestControl \/ ReleaseControl \/ Type \/ RenewDue
    \/ HandleEnvelope \/ ConnectionDropped
    \/ RelayHandles \/ RivalAcquires \/ RivalReleases \/ Tick

SpaControlSpec == SpaControlInit /\ [][SpaControlNext]_controlVars

\* Messages arrive, the relay handles them, timers fire.
ControlFairness ==
    /\ WF_controlVars(RelayHandles) /\ WF_controlVars(HandleEnvelope)
    /\ WF_controlVars(RenewDue) /\ WF_controlVars(Tick)

FairControl == SpaControlSpec /\ ControlFairness

-----------------------------------------------------------------------------
\* With nothing under way, page and relay agree on the version, nobody waits
\* for an answer, and they disagree on who has control in two cases only:
\*   - after the last answer the slot was emptied without a word, because it
\*     had expired or another tab or device took it (server.go: forwardInput,
\*     setController): the page goes on to show control;
\*   - the last answer refused the page something and left it the slot
\*     (server.go: 358-361, the release of a version that a renewal in flight
\*     has replaced; an acquire that is refused while one was granted): the
\*     page shows control as denied and the relay still has it in the slot.
QuietMeansAgreed ==
    Quiet => /\ state # "requesting"
             /\ state = "granted"
                   => slot = leaseVersion \/ (slot = 0 /\ untold = "emptied")
             /\ state # "granted"
                   => slot = 0 \/ (state = "denied" /\ untold = "kept")

\* While messages and timers are prompt, a lease never runs out under a page
\* that has it: the renewal is early enough.
RenewedInTime ==
    ~late /\ state = "granted" /\ slot # 0 => lease.left > 0

\* A page that lost control to somebody, or to time, finds out.
LearnsOfLoss ==
    state = "granted" /\ slot = 0 ~> state # "granted" \/ slot # 0

=============================================================================
