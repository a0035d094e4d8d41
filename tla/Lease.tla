------------------------------- MODULE Lease -------------------------------
(***************************************************************************)
(* What the control plane promises about the control_leases table: one     *)
(* lease row per session, granted to one device for at most TTL ticks.     *)
(* A row that is still running is never handed to another device; every    *)
(* write of a living row raises its version.  How calls, retries and       *)
(* stale clocks reach these rows is the business of ControlPlane.          *)
(***************************************************************************)
EXTENDS Integers

CONSTANTS
    Session,    \* the sessions (primary key of control_leases)
    Device,     \* the devices that may hold a lease
    NoDevice,   \* no holder: there is no row
    TTL,        \* lifetime of a grant, in ticks (30 s in the code)
    MaxClock    \* bound on the clock

ASSUME LeaseAssumption ==
    /\ TTL \in Nat \ {0}
    /\ MaxClock \in Nat
    /\ NoDevice \notin Device

VARIABLES
    clock,      \* time of the control plane's host
    lease       \* lease[s]: the row of session s, or NoLease

leaseVars == <<clock, lease>>

\* A missing row reads as version 0 of nobody, expired since the beginning,
\* so that inserting is writing version 1 over it.
NoLease == [holder |-> NoDevice, version |-> 0, expires |-> 0]

Row == [holder: Device \cup {NoDevice}, version: Nat, expires: Nat]

LeaseTypeOK ==
    /\ clock \in Nat
    /\ lease \in [Session -> Row]

HeldBy(s, d) == lease[s].holder = d /\ lease[s].expires > clock

Free(s) == lease[s].expires <= clock

-----------------------------------------------------------------------------
LeaseInit ==
    /\ clock = 0
    /\ lease = [s \in Session |-> NoLease]

\* Device d obtains or extends the lease of s.  The new expiry is at most a
\* TTL away: a grant computed from an older clock ends earlier.
Grant(s, d) ==
    /\ Free(s) \/ HeldBy(s, d)
    /\ \E e \in 0 .. clock + TTL :
          lease' = [lease EXCEPT ![s] = [holder  |-> d,
                                         version |-> lease[s].version + 1,
                                         expires |-> e]]
    /\ UNCHANGED clock

\* The row goes away: its holder releases it, or the session ended.
Remove(s) ==
    /\ lease' = [lease EXCEPT ![s] = NoLease]
    /\ UNCHANGED clock

Tick ==
    /\ clock < MaxClock
    /\ clock' = clock + 1
    /\ UNCHANGED lease

LeaseNext ==
    \/ \E s \in Session : Remove(s) \/ \E d \in Device : Grant(s, d)
    \/ Tick

LeaseSpec == LeaseInit /\ [][LeaseNext]_leaseVars

-----------------------------------------------------------------------------
\* A crashed holder blocks the others for one TTL at most: no row, whoever
\* wrote it and however late, outlives the present by more than a TTL.
ExpiryWithinTTL == \A s \in Session : lease[s].expires <= clock + TTL

\* A running lease changes hands only by going away first: the device that
\* holds it is never replaced by another one in a single write.
NeverStolen ==
    [][\A s \in Session, d, e \in Device :
          HeldBy(s, d) /\ lease'[s].holder = e => d = e]_leaseVars

\* Every write of a row that stays raises its version by one, so a renewal
\* or a release that quotes an older version finds nothing to change.
VersionsAdvance ==
    [][\A s \in Session :
          \/ lease'[s] = lease[s]
          \/ lease'[s] = NoLease
          \/ lease'[s].version = lease[s].version + 1]_leaseVars

=============================================================================
