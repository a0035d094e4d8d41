------------------------- MODULE ControlPlaneProofs -------------------------
(***************************************************************************)
(* For every set of sessions, devices and callers and every TTL: the       *)
(* control plane keeps its types and implements the Lease specification.   *)
(* The argument needs one fact more than the types, that no call carries a *)
(* clock reading from the future.                                          *)
(***************************************************************************)
EXTENDS ControlPlane, LeaseProofs

\* What a call in progress looks like: it names a session, it has not read
\* a time that lies ahead.
CallOK(p) ==
    /\ call[p].at # "idle" => call[p].session \in Session
    /\ call[p].now <= clock

ControlInv ==
    /\ ControlTypeOK
    /\ \A p \in Peer : CallOK(p)

\* A step of the lease table as Lease allows it, or none.
LeaseStep == [LeaseNext]_leaseVars

-----------------------------------------------------------------------------
\* Rounding an expiry down to whole seconds keeps it a natural number and
\* never moves it forward.
LEMMA WholeSecondsBound ==
    ASSUME NEW t \in Nat
    PROVE  WholeSeconds(t) \in Nat /\ WholeSeconds(t) <= t
<1>1. Second \in Nat /\ Second > 0
    BY ControlAssumption
<1>2. t % Second \in Nat /\ t % Second <= t
    BY <1>1, SMT
<1> QED
    BY <1>2 DEF WholeSeconds

-----------------------------------------------------------------------------
(* Steps on the calls                                                      *)

\* The empty call is a call.
LEMMA IdleCall == Idle \in Call /\ Idle.now = 0 /\ Idle.at = "idle"
    BY DEF Idle, Call, LeaseOps, Outcomes

\* Replacing one call by a well-formed one keeps the invariant when nothing
\* else changes but rows that stay rows.
LEMMA CallUpdate ==
    ASSUME ControlInv, NEW p \in Peer, NEW c \in Call,
           call' = [call EXCEPT ![p] = c],
           c.at # "idle" => c.session \in Session,
           c.now <= clock,
           LeaseTypeOK', clock' = clock, status' = status, drops' = drops,
           authorized' \subseteq Peer
    PROVE  ControlInv'
<1>1. ControlTypeOK'
    BY DEF ControlInv, ControlTypeOK
<1>2. ASSUME NEW q \in Peer PROVE CallOK(q)'
    <2>1. CASE q = p
        BY <2>1 DEF ControlInv, ControlTypeOK, CallOK
    <2>2. CASE q # p
        BY <2>2 DEF ControlInv, ControlTypeOK, CallOK
    <2> QED BY <2>1, <2>2
<1> QED BY <1>1, <1>2 DEF ControlInv

\* Starting a call.
LEMMA BeginStep ==
    ASSUME ControlInv, NEW p \in Peer, NEW op \in {"watch"} \cup LeaseOps,
           NEW s \in Session, NEW v \in Nat, Begin(p, op, s, v),
           UNCHANGED <<clock, lease, status, drops, authorized>>
    PROVE  ControlInv' /\ LeaseStep
<1> DEFINE c == [Idle EXCEPT !.at = "validate", !.op = op,
                             !.session = s, !.version = v]
<1>1. c \in Call /\ c.now = 0 /\ c.session = s
    BY DEF Idle, Call, LeaseOps, Outcomes
<1>2. call' = [call EXCEPT ![p] = c]
    BY DEF Begin
<1>3. /\ LeaseTypeOK' /\ authorized' \subseteq Peer
      /\ clock' = clock /\ status' = status /\ drops' = drops
      /\ 0 <= clock
    BY DEF ControlInv, ControlTypeOK, LeaseTypeOK
<1> HIDE DEF c
<1>4. ControlInv'
    BY <1>1, <1>2, <1>3, CallUpdate, Zenon
<1> QED BY <1>4 DEF LeaseStep, leaseVars

\* Taking note of the answer.
LEMMA EndStep ==
    ASSUME ControlInv, NEW p \in Peer, call' = [call EXCEPT ![p] = Idle],
           UNCHANGED <<clock, lease, status, drops>>,
           authorized' \subseteq Peer
    PROVE  ControlInv' /\ LeaseStep
<1>1. /\ LeaseTypeOK' /\ 0 <= clock
      /\ clock' = clock /\ status' = status /\ drops' = drops
    BY DEF ControlInv, ControlTypeOK, LeaseTypeOK
<1>2. ControlInv'
    BY <1>1, IdleCall, CallUpdate, Zenon
<1> QED BY <1>2 DEF LeaseStep, leaseVars

\* Answering a call of a session with natural numbers.
LEMMA AnswerStep ==
    ASSUME ControlInv, NEW p \in Peer, NEW outcome \in Outcomes,
           NEW v \in Nat, NEW e \in Nat, Answer(p, outcome, v, e),
           call[p].at # "idle", LeaseTypeOK',
           UNCHANGED <<clock, status, drops, authorized>>
    PROVE  ControlInv'
<1> DEFINE c == [Idle EXCEPT
                    !.at = "reply", !.op = call[p].op,
                    !.session = call[p].session,
                    !.outcome = outcome, !.version = v, !.expires = e]
<1>1. call[p] \in Call /\ call[p].session \in Session /\ clock \in Nat
    BY DEF ControlInv, ControlTypeOK, CallOK, LeaseTypeOK
<1>2. c \in Call /\ c.now = 0 /\ c.session \in Session
    BY <1>1 DEF Idle, Call
<1>3. call' = [call EXCEPT ![p] = c]
    BY DEF Answer
<1>4. /\ authorized' \subseteq Peer /\ 0 <= clock
      /\ clock' = clock /\ status' = status /\ drops' = drops
    BY <1>1 DEF ControlInv, ControlTypeOK
<1> HIDE DEF c
<1> QED BY <1>2, <1>3, <1>4, CallUpdate, Zenon

-----------------------------------------------------------------------------
(* Steps of the lease table                                                *)

\* Writing a grant is a Grant of Lease: its reading of the clock is not
\* ahead, so a row that looked over to the call is over.
LEMMA WriteGrantStep ==
    ASSUME ControlInv, NEW p \in Peer, call[p].at # "idle",
           UpsertMatches(p) \/ RenewMatches(p), WriteGrant(p),
           UNCHANGED <<clock, status, drops, authorized>>
    PROVE  ControlInv' /\ LeaseStep
<1> DEFINE s == call[p].session
           v == lease[s].version + 1
           e == call[p].now + TTL
           d == DeviceOf[p]
           row == [holder |-> d, version |-> v, expires |-> e]
<1>1. /\ s \in Session /\ d \in Device /\ clock \in Nat /\ TTL \in Nat
      /\ lease \in [Session -> Row] /\ lease[s] \in Row
      /\ call[p].now \in Nat /\ call[p].now <= clock
    BY LeaseAssumption, ControlAssumption
       DEF ControlInv, ControlTypeOK, CallOK, LeaseTypeOK, Call
<1>2. lease[s].expires \in Nat /\ lease[s].version \in Nat
    BY <1>1 DEF Row
<1>3. v \in Nat /\ e \in Nat /\ e <= clock + TTL /\ row \in Row
    BY <1>1, <1>2 DEF Row
<1>4. lease' = [lease EXCEPT ![s] = row] /\ Answer(p, "granted", v, WholeSeconds(e))
    BY DEF WriteGrant
<1>5. LeaseTypeOK'
    BY <1>1, <1>3, <1>4 DEF LeaseTypeOK
<1>6. WholeSeconds(e) \in Nat /\ "granted" \in Outcomes
    BY <1>3, WholeSecondsBound DEF Outcomes
<1>7. ControlInv'
    BY <1>3, <1>4, <1>5, <1>6, AnswerStep
<1>8. Free(s) \/ HeldBy(s, d)
    <2>1. lease[s].expires <= call[p].now \/ lease[s].holder = d
        BY DEF UpsertMatches, RenewMatches, OwnVersion
    <2> QED BY <2>1, <1>1, <1>2 DEF Free, HeldBy
<1>9. Grant(s, d)
    <2>1. e \in 0 .. clock + TTL
        BY <1>1, <1>3
    <2> QED BY <2>1, <1>4, <1>8 DEF Grant
<1> QED BY <1>1, <1>7, <1>9 DEF LeaseStep, LeaseNext

\* The steps in which a call is served.
LEMMA ServeStep ==
    ASSUME ControlInv, NEW p \in Peer, Serve(p)
    PROVE  ControlInv' /\ LeaseStep
<1> DEFINE s == call[p].session
<1>1. /\ call[p] \in Call /\ LeaseTypeOK /\ clock \in Nat
      /\ call \in [Peer -> Call] /\ Refusals \subseteq Outcomes
      /\ "authorized" \in Outcomes /\ "released" \in Outcomes
    BY DEF ControlInv, ControlTypeOK, LeaseTypeOK, Outcomes
<1>2. ASSUME NEW o \in Outcomes, call[p].at # "idle", Reply(p, o),
             UNCHANGED <<clock, lease, status, drops, authorized>>
      PROVE  ControlInv' /\ LeaseStep
    <2>1. LeaseTypeOK' /\ UNCHANGED <<clock, status, drops, authorized>>
        BY <1>1, <1>2 DEF LeaseTypeOK
    <2>2. ControlInv'
        BY <1>2, <2>1, AnswerStep DEF Reply
    <2> QED BY <1>2, <2>2 DEF LeaseStep, leaseVars
<1>3. ASSUME Validate(p) PROVE ControlInv' /\ LeaseStep
    <2>1. ASSUME Refusal(p) # "none", Reply(p, Refusal(p))
          PROVE  ControlInv' /\ LeaseStep
        <3>1. Refusal(p) \in Refusals
            BY <2>1 DEF Refusal, Refusals
        <3> QED BY <1>1, <1>2, <1>3, <2>1, <3>1 DEF Validate
    <2>2. ASSUME Reply(p, "authorized") PROVE ControlInv' /\ LeaseStep
        BY <1>1, <1>2, <1>3, <2>2 DEF Validate
    <2>3. ASSUME call' = [call EXCEPT ![p].now = clock,
                    ![p].at = IF call[p].op = "acquire" THEN "check" ELSE "write"]
          PROVE  ControlInv' /\ LeaseStep
        <3> DEFINE a == IF call[p].op = "acquire" THEN "check" ELSE "write"
                   c == [call[p] EXCEPT !.now = clock, !.at = a]
        <3>1. call' = [call EXCEPT ![p] = c] /\ a \in {"check", "write"}
            BY <1>1, <2>3 DEF Call
        <3> HIDE DEF a
        <3>2. s \in Session
            BY <1>3 DEF Validate, ControlInv, CallOK
        <3>3. c.now = clock /\ clock <= clock /\ c.session = s
            BY <1>1 DEF Call
        <3>4. c \in Call
            BY <1>1, <3>1 DEF Call
        <3>5. c \in Call /\ c.session \in Session /\ c.now <= clock
            BY <3>2, <3>3, <3>4
        <3>6. /\ LeaseTypeOK' /\ authorized' \subseteq Peer
              /\ clock' = clock /\ status' = status /\ drops' = drops
            BY <1>1, <1>3 DEF Validate, ControlInv, ControlTypeOK, LeaseTypeOK
        <3> HIDE DEF c
        <3>7. ControlInv'
            BY <3>1, <3>5, <3>6, CallUpdate, Zenon
        <3> QED BY <1>3, <3>7 DEF Validate, LeaseStep, leaseVars
    <2> QED BY <1>3, <2>1, <2>2, <2>3 DEF Validate
<1>4. ASSUME CheckActive(p) PROVE ControlInv' /\ LeaseStep
    <2>1. ASSUME Reply(p, "already_controlled") PROVE ControlInv' /\ LeaseStep
        BY <1>1, <1>2, <1>4, <2>1 DEF CheckActive, Refusals
    <2>2. ASSUME call' = [call EXCEPT ![p].at = "write"]
          PROVE  ControlInv' /\ LeaseStep
        <3> DEFINE c == [call[p] EXCEPT !.at = "write"]
        <3>1. call' = [call EXCEPT ![p] = c]
            BY <1>1, <2>2 DEF Call
        <3>2. s \in Session /\ call[p].now <= clock
            BY <1>4 DEF CheckActive, ControlInv, CallOK
        <3>3. c \in Call /\ c.session \in Session /\ c.now <= clock
            BY <1>1, <3>2 DEF Call
        <3>4. /\ LeaseTypeOK' /\ authorized' \subseteq Peer
              /\ clock' = clock /\ status' = status /\ drops' = drops
            BY <1>1, <1>4 DEF CheckActive, ControlInv, ControlTypeOK, LeaseTypeOK
        <3> HIDE DEF c
        <3>5. ControlInv'
            BY <3>1, <3>3, <3>4, CallUpdate, Zenon
        <3> QED BY <1>4, <3>5 DEF CheckActive, LeaseStep, leaseVars
    <2> QED BY <1>4, <2>1, <2>2 DEF CheckActive
<1>5. ASSUME Upsert(p) PROVE ControlInv' /\ LeaseStep
    <2>1. ASSUME UpsertMatches(p), WriteGrant(p) PROVE ControlInv' /\ LeaseStep
        BY <1>5, <2>1, WriteGrantStep DEF Upsert
    <2>2. ASSUME Reply(p, "already_controlled"), UNCHANGED lease
          PROVE  ControlInv' /\ LeaseStep
        BY <1>1, <1>2, <1>5, <2>2 DEF Upsert, Refusals
    <2> QED BY <1>5, <2>1, <2>2 DEF Upsert
<1>6. ASSUME Renew(p) PROVE ControlInv' /\ LeaseStep
    <2>1. ASSUME RenewMatches(p), WriteGrant(p) PROVE ControlInv' /\ LeaseStep
        BY <1>6, <2>1, WriteGrantStep DEF Renew
    <2>2. ASSUME Reply(p, "stale_lease"), UNCHANGED lease
          PROVE  ControlInv' /\ LeaseStep
        BY <1>1, <1>2, <1>6, <2>2 DEF Renew, Refusals
    <2> QED BY <1>6, <2>1, <2>2 DEF Renew
<1>7. ASSUME Release(p) PROVE ControlInv' /\ LeaseStep
    <2>1. ASSUME lease' = [lease EXCEPT ![s] = NoLease], Reply(p, "released")
          PROVE  ControlInv' /\ LeaseStep
        <3>1. NoLease \in Row
            BY DEF NoLease, Row
        <3>2. s \in Session
            BY <1>7 DEF Release, ControlInv, CallOK
        <3>3. /\ LeaseTypeOK' /\ call[p].at # "idle"
              /\ UNCHANGED <<clock, status, drops, authorized>>
            BY <1>1, <1>7, <2>1, <3>1 DEF LeaseTypeOK, Release
        <3>4. ControlInv'
            BY <1>1, <2>1, <3>3, AnswerStep DEF Reply
        <3>5. Remove(s)
            BY <2>1, <3>3 DEF Remove
        <3> QED BY <3>2, <3>4, <3>5 DEF LeaseStep, LeaseNext
    <2>2. ASSUME Reply(p, "stale_lease"), UNCHANGED lease
          PROVE  ControlInv' /\ LeaseStep
        BY <1>1, <1>2, <1>7, <2>2 DEF Release, Refusals
    <2> QED BY <1>7, <2>1, <2>2 DEF Release
<1> QED BY <1>3, <1>4, <1>5, <1>6, <1>7 DEF Serve

-----------------------------------------------------------------------------
(* The steps of everybody else                                             *)

\* A call that fails leaves the table alone.
LEMMA FailCallStep ==
    ASSUME ControlInv, NEW p \in Peer, FailCall(p)
    PROVE  ControlInv' /\ LeaseStep
<1>1. LeaseTypeOK' /\ "error" \in Outcomes /\ call[p].at # "idle"
    BY DEF ControlInv, ControlTypeOK, LeaseTypeOK, FailCall, Outcomes
<1>2. ControlInv'
    BY <1>1, AnswerStep DEF FailCall, Reply
<1> QED BY <1>2 DEF FailCall, LeaseStep, leaseVars

\* The session rows, the tokens and the clock.
LEMMA HostStep ==
    ASSUME ControlInv,
           \/ \E s \in Session : \/ CreateSession(s) \/ DropLease(s) \/ Heartbeat(s)
                                 \/ \E st \in PatchStatus : PatchSession(s, st)
           \/ \E p \in Peer : ExpireToken(p) \/ NewToken(p)
           \/ ClockTick
    PROVE  ControlInv' /\ LeaseStep
<1>1. /\ LeaseTypeOK /\ status \in [Session -> SessionStatus]
      /\ drops \in [Session -> 0 .. MaxDrops] /\ authorized \subseteq Peer
      /\ call \in [Peer -> Call] /\ \A q \in Peer : CallOK(q)
      /\ MaxDrops \in Nat /\ PatchStatus \subseteq {"running", "exited"}
    BY ControlAssumption DEF ControlInv, ControlTypeOK
<1>2. ASSUME NEW s \in Session, CreateSession(s) \/ Heartbeat(s)
      PROVE  ControlInv' /\ LeaseStep
    BY <1>1, <1>2 DEF CreateSession, Heartbeat, ControlInv, ControlTypeOK,
        CallOK, LeaseTypeOK, SessionStatus, LeaseStep, leaseVars
<1>3. ASSUME NEW s \in Session, NEW st \in PatchStatus, PatchSession(s, st)
      PROVE  ControlInv' /\ LeaseStep
    <2>1. status' \in [Session -> SessionStatus]
        BY <1>1, <1>3 DEF PatchSession, SessionStatus
    <2>2. drops' \in [Session -> 0 .. MaxDrops]
        BY <1>1, <1>3 DEF PatchSession
    <2> QED BY <1>1, <1>3, <2>1, <2>2 DEF PatchSession, ControlInv,
            ControlTypeOK, CallOK, LeaseTypeOK, LeaseStep, leaseVars
<1>4. ASSUME NEW s \in Session, DropLease(s) PROVE ControlInv' /\ LeaseStep
    <2>1. drops' \in [Session -> 0 .. MaxDrops]
        BY <1>1, <1>4 DEF DropLease
    <2>2. LeaseTypeOK' /\ LeaseStep
        BY <1>1, <1>4 DEF DropLease, LeaseTypeOK, NoLease, Row, LeaseStep,
            LeaseNext, Remove, leaseVars
    <2> QED BY <1>1, <1>4, <2>1, <2>2 DEF DropLease, ControlInv, ControlTypeOK,
            CallOK
<1>5. ASSUME NEW p \in Peer, ExpireToken(p) \/ NewToken(p)
      PROVE  ControlInv' /\ LeaseStep
    BY <1>1, <1>5 DEF ExpireToken, NewToken, ControlInv, ControlTypeOK,
        CallOK, LeaseTypeOK, LeaseStep, leaseVars
<1>6. ASSUME ClockTick PROVE ControlInv' /\ LeaseStep
    <2>1. clock \in Nat /\ clock' = clock + 1 /\ LeaseTypeOK'
        BY <1>1, <1>6 DEF ClockTick, Tick, LeaseTypeOK
    <2>2. ASSUME NEW q \in Peer PROVE CallOK(q)'
        <3>1. call[q].now \in Nat
            BY <1>1 DEF Call
        <3> QED BY <1>1, <1>6, <2>1, <3>1 DEF ClockTick, CallOK
    <2> QED BY <1>1, <1>6, <2>1, <2>2 DEF ClockTick, ControlInv, ControlTypeOK,
            LeaseStep, LeaseNext
<1> QED BY <1>2, <1>3, <1>4, <1>5, <1>6

LEMMA EnvironmentStep ==
    ASSUME ControlInv, Environment
    PROVE  ControlInv' /\ LeaseStep
    BY ServeStep, FailCallStep, HostStep DEF Environment

\* The start.
LEMMA ControlInitInv == ControlInit => ControlInv /\ LeaseInit
    BY IdleCall, LeaseAssumption, ControlAssumption
       DEF ControlInit, ControlInv, ControlTypeOK, CallOK, LeaseInit,
           LeaseTypeOK, NoLease, Row, SessionStatus

LEMMA ControlStep == ControlInv /\ [ControlNext]_controlVars => ControlInv' /\ LeaseStep
<1> SUFFICES ASSUME ControlInv, [ControlNext]_controlVars
             PROVE  ControlInv' /\ LeaseStep
    OBVIOUS
<1>1. ASSUME NEW p \in Peer, BeginCall(p) PROVE ControlInv' /\ LeaseStep
    <2>1. PICK s \in Session, op \in LeaseOps \cup {"watch"}, v \in 0 .. MaxVersion :
              Begin(p, op, s, v)
        BY <1>1 DEF BeginCall
    <2>2. v \in Nat
        BY ControlAssumption
    <2> QED BY <1>1, <2>1, <2>2, BeginStep DEF BeginCall
<1>2. ASSUME NEW p \in Peer, EndCall(p) PROVE ControlInv' /\ LeaseStep
    <2>1. authorized' \subseteq Peer
        BY <1>2 DEF EndCall, ControlInv, ControlTypeOK
    <2> QED BY <1>2, <2>1, EndStep DEF EndCall
<1>3. CASE UNCHANGED controlVars
    BY <1>3 DEF controlVars, ControlInv, ControlTypeOK, CallOK, LeaseTypeOK,
        LeaseStep, leaseVars
<1> QED BY <1>1, <1>2, <1>3, EnvironmentStep, HostStep DEF ControlNext

-----------------------------------------------------------------------------
\* The control plane keeps its types, whoever calls it with whatever.
THEOREM ControlTypes == ControlSpec => []ControlTypeOK
<1>1. ControlInv => ControlTypeOK
    BY DEF ControlInv
<1> QED BY <1>1, ControlInitInv, ControlStep, PTL DEF ControlSpec

\* The three statements and the clock reading they share implement the lease
\* table of Lease: every step of every call is one of its steps or none.
THEOREM ControlImplementsLease == ControlSpec => LeaseSpec
<1>1. ControlInv /\ [ControlNext]_controlVars => [LeaseNext]_leaseVars
    BY ControlStep DEF LeaseStep
<1> QED BY <1>1, ControlInitInv, ControlStep, PTL DEF ControlSpec, LeaseSpec

\* Whatever callers and hosts do, a lease blocks the others for at most one
\* TTL from now, also when its holder is never heard of again.
THEOREM ControlExpiry == ControlSpec => []ExpiryWithinTTL
    BY ControlImplementsLease, LeaseExpiry, PTL

=============================================================================
