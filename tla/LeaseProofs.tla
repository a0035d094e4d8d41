---------------------------- MODULE LeaseProofs ----------------------------
(* What the lease table promises, for every set of sessions and devices    *)
(* and every TTL.                                                          *)
EXTENDS Lease, TLAPS

\* The strengthening: the types, and no expiry further away than a TTL.
LeaseInv == LeaseTypeOK /\ ExpiryWithinTTL

LEMMA LeaseInitInv == LeaseInit => LeaseInv
    BY LeaseAssumption DEF LeaseInit, LeaseInv, LeaseTypeOK, ExpiryWithinTTL,
       NoLease, Row

\* One grant, described once for the theorems below.
LEMMA GrantStep ==
    ASSUME LeaseInv, NEW s \in Session, NEW d \in Device, Grant(s, d)
    PROVE  /\ LeaseInv'
           /\ lease'[s].holder = d
           /\ lease'[s].version = lease[s].version + 1
           /\ \A t \in Session : t # s => lease'[t] = lease[t]
<1>1. PICK e \in 0 .. clock + TTL :
         lease' = [lease EXCEPT ![s] = [holder  |-> d,
                                        version |-> lease[s].version + 1,
                                        expires |-> e]]
    BY DEF Grant
<1>2. /\ clock \in Nat /\ clock' = clock /\ lease \in [Session -> Row]
      /\ TTL \in Nat /\ lease[s].version \in Nat
    BY LeaseAssumption DEF LeaseInv, LeaseTypeOK, Grant, Row
<1>3. e \in Nat /\ e <= clock + TTL
    BY <1>2
<1> DEFINE row == [holder |-> d, version |-> lease[s].version + 1, expires |-> e]
<1>4. row \in Row
    BY <1>2, <1>3 DEF Row
<1>5. lease' \in [Session -> Row] /\ lease'[s] = row
    BY <1>1, <1>2, <1>4
<1>6. \A t \in Session : t # s => lease'[t] = lease[t]
    BY <1>1, <1>2
<1>7. ExpiryWithinTTL'
    BY <1>2, <1>3, <1>5, <1>6 DEF LeaseInv, ExpiryWithinTTL
<1> QED BY <1>2, <1>5, <1>6, <1>7 DEF LeaseInv, LeaseTypeOK

LEMMA LeaseInvStep == LeaseInv /\ [LeaseNext]_leaseVars => LeaseInv'
<1> SUFFICES ASSUME LeaseInv, [LeaseNext]_leaseVars PROVE LeaseInv'
    OBVIOUS
<1> USE LeaseAssumption DEF LeaseInv, LeaseTypeOK, ExpiryWithinTTL
<1>1. ASSUME NEW s \in Session, Remove(s) PROVE LeaseInv'
    BY <1>1 DEF Remove, NoLease, Row
<1>2. CASE Tick
    <2>1. \A s \in Session : lease[s].expires \in Nat
        BY DEF Row
    <2> QED BY <1>2, <2>1 DEF Tick
<1>3. CASE UNCHANGED leaseVars
    BY <1>3 DEF leaseVars
<1> QED BY <1>1, <1>2, <1>3, GrantStep DEF LeaseNext

-----------------------------------------------------------------------------
\* A crashed holder blocks the others for at most one TTL.
THEOREM LeaseExpiry == LeaseSpec => []ExpiryWithinTTL
<1>1. LeaseInv => ExpiryWithinTTL
    BY DEF LeaseInv
<1> QED BY <1>1, LeaseInitInv, LeaseInvStep, PTL DEF LeaseSpec

\* A lease that is running never passes from one device to another.
THEOREM LeaseNeverStolen == LeaseSpec => NeverStolen
<1>1. ASSUME LeaseInv, [LeaseNext]_leaseVars,
             NEW s \in Session, NEW d \in Device, NEW e \in Device,
             HeldBy(s, d), lease'[s].holder = e
      PROVE  d = e
    <2>1. /\ clock \in Nat /\ lease \in [Session -> Row]
          /\ lease[s].expires \in Nat
        BY <1>1 DEF LeaseInv, LeaseTypeOK, Row
    <2>2. ASSUME NEW t \in Session, NEW c \in Device, Grant(t, c) PROVE d = e
        <3>1. CASE t = s
            <4>1. HeldBy(s, c)
                BY <1>1, <2>1, <2>2, <3>1 DEF Grant, Free, HeldBy
            <4>2. c = e
                BY <1>1, <2>2, <3>1, GrantStep
            <4> QED BY <1>1, <4>1, <4>2 DEF HeldBy
        <3>2. CASE t # s
            BY <1>1, <2>2, <3>2, GrantStep DEF HeldBy
        <3> QED BY <3>1, <3>2
    <2>3. ASSUME NEW t \in Session, Remove(t) PROVE d = e
        <3>1. CASE t = s
            BY <1>1, <2>1, <2>3, <3>1, LeaseAssumption DEF Remove, NoLease
        <3>2. CASE t # s
            BY <1>1, <2>1, <2>3, <3>2 DEF Remove, HeldBy
        <3> QED BY <3>1, <3>2
    <2>4. CASE Tick \/ UNCHANGED leaseVars
        BY <1>1, <2>4 DEF Tick, leaseVars, HeldBy
    <2> QED BY <1>1, <2>2, <2>3, <2>4 DEF LeaseNext
<1>2. LeaseInv /\ [LeaseNext]_leaseVars =>
         [\A s \in Session, d, e \in Device :
             HeldBy(s, d) /\ lease'[s].holder = e => d = e]_leaseVars
    BY <1>1
<1> QED BY <1>2, LeaseInitInv, LeaseInvStep, PTL DEF LeaseSpec, NeverStolen

\* Every write of a row that stays raises its version by one.
THEOREM LeaseVersionsAdvance == LeaseSpec => VersionsAdvance
<1>1. ASSUME LeaseInv, [LeaseNext]_leaseVars, NEW s \in Session
      PROVE  \/ lease'[s] = lease[s]
             \/ lease'[s] = NoLease
             \/ lease'[s].version = lease[s].version + 1
    <2>1. ASSUME NEW t \in Session, NEW d \in Device, Grant(t, d)
          PROVE  \/ lease'[s] = lease[s]
                 \/ lease'[s].version = lease[s].version + 1
        BY <1>1, <2>1, GrantStep
    <2>2. ASSUME NEW t \in Session, Remove(t)
          PROVE  lease'[s] = lease[s] \/ lease'[s] = NoLease
        BY <1>1, <2>2 DEF Remove, LeaseInv, LeaseTypeOK
    <2>3. CASE Tick \/ UNCHANGED leaseVars
        BY <2>3 DEF Tick, leaseVars
    <2> QED BY <1>1, <2>1, <2>2, <2>3 DEF LeaseNext
<1>2. LeaseInv /\ [LeaseNext]_leaseVars =>
         [\A s \in Session :
             \/ lease'[s] = lease[s]
             \/ lease'[s] = NoLease
             \/ lease'[s].version = lease[s].version + 1]_leaseVars
    BY <1>1
<1> QED BY <1>2, LeaseInitInv, LeaseInvStep, PTL DEF LeaseSpec, VersionsAdvance

=============================================================================
