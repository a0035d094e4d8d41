--------------------------- MODULE BrowserProofs ---------------------------
(***************************************************************************)
(* Three parts of a page, for every number of messages, requests and       *)
(* sizes: what it believes about its control of the session, its screen    *)
(* (the grid, and what of the output is lost), and the list of sessions.   *)
(***************************************************************************)
EXTENDS SpaControl, Viewer, SessionList, SequenceTheorems, TLAPS

(* Queues                                                                  *)

LEMMA Queued ==
    ASSUME NEW S, NEW q \in Seq(S), NEW m \in S
    PROVE  /\ Append(q, m) \in Seq(S) /\ Append(q, m) # <<>>
           /\ Len(Append(q, m)) = Len(q) + 1
           /\ \A i \in 1..Len(q) : Append(q, m)[i] = q[i]
           /\ Append(q, m)[Len(q) + 1] = m
           /\ Len(q) \in Nat
    OBVIOUS

LEMMA Taken ==
    ASSUME NEW S, NEW q \in Seq(S), q # <<>>
    PROVE  /\ Tail(q) \in Seq(S) /\ Head(q) \in S /\ Head(q) = q[1]
           /\ Len(q) \in Nat \ {0} /\ Len(Tail(q)) = Len(q) - 1
           /\ \A i \in 1..(Len(q) - 1) : Tail(q)[i] = q[i + 1]
           /\ Tail(q) = <<>> <=> Len(q) = 1
<1>1. /\ Tail(q) \in Seq(S) /\ Head(q) \in S /\ Len(Tail(q)) = Len(q) - 1
      /\ \A i \in 1..Len(Tail(q)) : Tail(q)[i] = q[i + 1]
    BY HeadTailProperties
<1>2. Head(q) = q[1] /\ Len(q) \in Nat \ {0}
    BY EmptySeq
<1>3. Tail(q) = <<>> <=> Len(Tail(q)) = 0
    BY <1>1, EmptySeq
<1> QED BY <1>1, <1>2, <1>3

-----------------------------------------------------------------------------
(* Control: types                                                          *)

\* An answer carries a version only when it grants, and grants for the TTL.
Reading == {m \in ToPage : IF m.type = "granted" THEN m.version # 0 /\ m.left = TTL
                                                 ELSE m.version = 0}

ControlTypes == SpaControlTypeOK /\ toBrowser \in Seq(Reading)

LEMMA ControlConstants ==
    /\ TTL \in Nat \ {0} /\ Floor \in Nat \ {0} /\ Lead \in Nat \ {0}
    /\ Floor < TTL /\ Skew \subseteq Nat /\ Versions \in Nat \ {0}
    BY SpaControlAssumption

LEMMA Messages ==
    /\ \A type \in {"acquire", "renew", "release", "input"}, v \in 0..Versions :
          Msg(type, v) \in Ask /\ Msg(type, v).type = type
    /\ \A type \in {"denied", "revoked"} :
          Reply(type) \in Reading /\ Reply(type).type = type
    /\ Reading \subseteq ToPage
    BY ControlConstants DEF Msg, Reply, Ask, ToPage, Reading

LEMMA GrantedMessage ==
    ASSUME ControlTypes
    PROVE  /\ NextVersion \in 1..Versions
           /\ [type |-> "granted", version |-> NextVersion, left |-> TTL] \in Reading
<1>1. lease.version \in 0..Versions
    BY DEF ControlTypes, SpaControlTypeOK
<1>2. NextVersion \in 1..Versions
    BY <1>1, ControlConstants DEF NextVersion
<1> QED BY <1>2, ControlConstants DEF Reading, ToPage

LEMMA DelayShort ==
    ASSUME NEW left \in 0..TTL, NEW skew \in Nat
    PROVE  /\ Delay(left, skew) \in Nat
           /\ skew = 0 => Delay(left, skew) < TTL
    BY ControlConstants DEF Delay

\* What the relay's step comes to: a message of the page is taken; input is
\* not answered, the rest is, and only a grant puts a version in the slot.
RelayStep ==
    /\ toRelay # <<>> /\ toRelay' = Tail(toRelay)
    /\ UNCHANGED <<browserVars, late>>
    /\ \/ /\ Head(toRelay).type = "input"
          /\ UNCHANGED <<lease, toBrowser>>
          /\ Emptied \/ UNCHANGED <<slot, untold>>
       \/ /\ Head(toRelay).type # "input"
          /\ \/ /\ lease' = [holder |-> "us", version |-> NextVersion, left |-> TTL]
                /\ slot' = NextVersion /\ untold' = "nothing"
                /\ toBrowser' = Append(toBrowser,
                      [type |-> "granted", version |-> NextVersion, left |-> TTL])
             \/ /\ toBrowser' = Append(toBrowser, Reply("denied"))
                /\ \/ slot' = 0 /\ untold' = "nothing"
                   \/ slot # 0 /\ slot' = slot /\ untold' = "kept"
                /\ UNCHANGED lease
             \/ /\ toBrowser' = Append(toBrowser, Reply("revoked"))
                /\ slot' = 0 /\ untold' = "nothing" /\ lease' = NoLease

LEMMA RelaySteps == RelayHandles => RelayStep
<1> SUFFICES ASSUME RelayHandles PROVE RelayStep
    OBVIOUS
<1> DEFINE m == Head(toRelay)
<1>1. CASE HandleAcquire(m)
    BY <1>1 DEF RelayHandles, RelayStep, HandleAcquire, Grant, Granted, Refuse, Answers
<1>2. CASE HandleRenew(m)
    BY <1>2 DEF RelayHandles, RelayStep, HandleRenew, Grant, Granted, Refuse,
                RefuseAndClear, Answers
<1>3. CASE HandleRelease(m)
    BY <1>3 DEF RelayHandles, RelayStep, HandleRelease, Refuse, RefuseAndClear,
                Answers
<1>4. CASE HandleInput(m)
    BY <1>4 DEF RelayHandles, RelayStep, HandleInput
<1> QED BY <1>1, <1>2, <1>3, <1>4 DEF RelayHandles

LEMMA ControlTypesInit == SpaControlInit => ControlTypes
<1> SUFFICES ASSUME SpaControlInit PROVE ControlTypes
    OBVIOUS
<1>1. NoLease \in [holder: {"none", "us", "other"}, version: 0..Versions, left: 0..TTL]
    BY ControlConstants DEF NoLease
<1>2. <<>> \in Seq(Ask) /\ <<>> \in Seq(ToPage) /\ <<>> \in Seq(Reading)
    BY EmptySeq
<1>3. 0 \in 0..Versions
    BY ControlConstants
<1> QED BY <1>1, <1>2, <1>3 DEF SpaControlInit, ControlTypes, SpaControlTypeOK

\* The user's steps, and the timer's.
LEMMA PageTypes ==
    ASSUME ControlTypes,
           RequestControl \/ ReleaseControl \/ Type \/ RenewDue
    PROVE  ControlTypes'
<1>1. leaseVersion \in 0..Versions /\ 0 \in 0..Versions
    BY ControlConstants DEF ControlTypes, SpaControlTypeOK
<1>2. PICK m \in Ask : toRelay' = Append(toRelay, m)
    BY <1>1, Messages DEF RequestControl, ReleaseControl, Type, RenewDue, UserSends, Send
<1>3. toRelay' \in Seq(Ask)
    BY <1>2, Queued DEF ControlTypes, SpaControlTypeOK
<1>4. UNCHANGED <<toBrowser, slot, lease, late, untold>>
    BY DEF RequestControl, ReleaseControl, Type, RenewDue, relayVars
<1>5. /\ state' \in {"none", "requesting", "granted", "denied", "revoked"}
      /\ leaseVersion' \in 0..Versions /\ ((leaseVersion' # 0) <=> (state' = "granted"))
      /\ timer' \in Nat \cup {Off}
    BY <1>1 DEF RequestControl, ReleaseControl, Type, RenewDue, browserVars,
                ControlTypes, SpaControlTypeOK
<1> QED BY <1>3, <1>4, <1>5 DEF ControlTypes, SpaControlTypeOK

LEMMA EnvelopeTypes ==
    ASSUME ControlTypes, HandleEnvelope PROVE ControlTypes'
<1>1. /\ toBrowser # <<>> /\ toBrowser' = Tail(toBrowser)
      /\ UNCHANGED <<toRelay, slot, lease, untold>>
    BY DEF HandleEnvelope, relayVars
<1>2. /\ Head(toBrowser) \in Reading
      /\ toBrowser' \in Seq(Reading) /\ toBrowser' \in Seq(ToPage)
    BY <1>1, Taken DEF ControlTypes, SpaControlTypeOK
<1>3. /\ state' \in {"none", "requesting", "granted", "denied", "revoked"}
      /\ leaseVersion' \in 0..Versions /\ ((leaseVersion' # 0) <=> (state' = "granted"))
  <2>1. CASE Head(toBrowser).type = "granted"
    BY <1>2, <2>1 DEF HandleEnvelope, GrantedVersion, Reading, ToPage
  <2>2. CASE Head(toBrowser).type # "granted"
    BY <1>2, <2>2, ControlConstants DEF HandleEnvelope, Reading, ToPage
  <2> QED BY <2>1, <2>2
<1>4. timer' \in Nat \cup {Off} /\ late' \in BOOLEAN
  <2>1. CASE \E skew \in Skew : /\ timer' = Delay(Head(toBrowser).left, skew)
                                /\ late' = (late \/ skew # 0)
    BY <1>2, <2>1, DelayShort, ControlConstants DEF Reading, ToPage
  <2>2. CASE timer' = Off /\ late' = late
    BY <2>2 DEF ControlTypes, SpaControlTypeOK
  <2> QED BY <2>1, <2>2 DEF HandleEnvelope, ScheduleRenew
<1> QED BY <1>1, <1>2, <1>3, <1>4 DEF ControlTypes, SpaControlTypeOK

LEMMA DroppedTypes ==
    ASSUME ControlTypes, ConnectionDropped PROVE ControlTypes'
<1>1. NoLease \in [holder: {"none", "us", "other"}, version: 0..Versions, left: 0..TTL]
    BY ControlConstants DEF NoLease
<1>2. <<>> \in Seq(Ask) /\ <<>> \in Seq(ToPage) /\ <<>> \in Seq(Reading)
    BY EmptySeq
<1>3. lease' \in {lease, NoLease}
    BY DEF ConnectionDropped
<1> QED BY <1>1, <1>2, <1>3, ControlConstants
        DEF ConnectionDropped, ControlTypes, SpaControlTypeOK

LEMMA RelayTypes ==
    ASSUME ControlTypes, RelayHandles PROVE ControlTypes'
<1>1. RelayStep
    BY RelaySteps
<1>2. toRelay' \in Seq(Ask)
    BY <1>1, Taken DEF RelayStep, ControlTypes, SpaControlTypeOK
<1>3. \/ toBrowser' = toBrowser
      \/ \E m \in Reading : toBrowser' = Append(toBrowser, m)
    BY <1>1, Messages, GrantedMessage DEF RelayStep
<1>4. toBrowser' \in Seq(Reading)
    BY <1>3, Queued DEF ControlTypes
<1>6. toBrowser' \in Seq(ToPage)
    BY <1>4, Messages, SeqMonotonic
<1>5. /\ slot' \in 0..Versions
      /\ lease' \in [holder: {"none", "us", "other"}, version: 0..Versions, left: 0..TTL]
    BY <1>1, GrantedMessage, ControlConstants
       DEF RelayStep, Emptied, NoLease, ControlTypes, SpaControlTypeOK
<1>7. untold' \in {"nothing", "kept", "emptied"}
    BY <1>1 DEF RelayStep, Emptied, ControlTypes, SpaControlTypeOK
<1> QED BY <1>1, <1>2, <1>4, <1>5, <1>6, <1>7 DEF RelayStep, browserVars, ControlTypes, SpaControlTypeOK

\* The rivals and the clock.
LEMMA RivalTypes ==
    ASSUME ControlTypes, RivalAcquires \/ RivalReleases \/ Tick PROVE ControlTypes'
<1> DEFINE Row == [holder: {"none", "us", "other"}, version: 0..Versions, left: 0..TTL]
<1>1. lease \in Row /\ NextVersion \in 0..Versions /\ timer \in Nat \cup {Off}
    BY GrantedMessage DEF ControlTypes, SpaControlTypeOK
<1>2. lease' \in Row
  <2>1. CASE RivalAcquires
    BY <1>1, <2>1, ControlConstants DEF RivalAcquires, Granted
  <2>2. CASE RivalReleases
    BY <2>2, ControlConstants DEF RivalReleases, NoLease
  <2>3. CASE Tick
    <3>1. lease.left \in 0..TTL
      BY <1>1
    <3>2. (IF lease.left = 0 THEN 0 ELSE lease.left - 1) \in 0..TTL
      BY <3>1, ControlConstants
    <3> QED BY <1>1, <2>3, <3>2 DEF Tick
  <2> QED BY <2>1, <2>2, <2>3
<1>3. timer' \in Nat \cup {Off}
    BY <1>1 DEF RivalAcquires, RivalReleases, Tick, browserVars, Off
<1>6. late' \in BOOLEAN
    BY DEF RivalAcquires, RivalReleases, Tick, ControlTypes, SpaControlTypeOK
<1>4. slot' \in 0..Versions /\ untold' \in {"nothing", "kept", "emptied"}
    BY ControlConstants DEF RivalAcquires, Emptied, RivalReleases, Tick, ControlTypes, SpaControlTypeOK
<1>5. UNCHANGED <<state, leaseVersion, toRelay, toBrowser>>
    BY DEF RivalAcquires, RivalReleases, Tick, browserVars
<1> HIDE DEF Row
<1> QED BY <1>2, <1>3, <1>4, <1>5, <1>6 DEF ControlTypes, SpaControlTypeOK, Row

LEMMA ControlTypesStep == ControlTypes /\ [SpaControlNext]_controlVars => ControlTypes'
<1> SUFFICES ASSUME ControlTypes, [SpaControlNext]_controlVars PROVE ControlTypes'
    OBVIOUS
<1>1. CASE UNCHANGED controlVars
    BY <1>1 DEF controlVars, ControlTypes, SpaControlTypeOK
<1> QED BY <1>1, PageTypes, EnvelopeTypes, DroppedTypes, RelayTypes, RivalTypes
        DEF SpaControlNext

LEMMA ControlTyped == SpaControlSpec => []ControlTypes
    BY ControlTypesInit, ControlTypesStep, PTL DEF SpaControlSpec

\* Every variable of the page's control and of the relay's side of it keeps
\* its type; the page quotes a version exactly while control is granted.
THEOREM ControlTypesHold == SpaControlSpec => []SpaControlTypeOK
<1>1. ControlTypes => SpaControlTypeOK
    BY DEF ControlTypes
<1> QED BY <1>1, ControlTyped, PTL

-----------------------------------------------------------------------------
(* Control: page and relay agree                                           *)

\* Where the page will be when it has read what is under way to it.
Expected ==
    IF toBrowser = <<>> THEN [state |-> state, version |-> leaseVersion]
    ELSE [state |-> toBrowser[Len(toBrowser)].type,
          version |-> toBrowser[Len(toBrowser)].version]

\* A message is under way that the relay will answer.
AnswerDue == \E i \in 1..Len(toRelay) : toRelay[i].type # "input"

AgreeInv ==
    /\ Expected.state = "granted" =>
          slot = Expected.version \/ (slot = 0 /\ untold = "emptied")
    /\ Expected.state = "requesting" => AnswerDue
    /\ Expected.state = "none" /\ slot # 0 => AnswerDue
    /\ Expected.state = "denied" /\ slot # 0 => untold = "kept"
    /\ Expected.state = "revoked" => slot = 0
    /\ state = "granted" /\ timer = Off => AnswerDue \/ toBrowser # <<>>

\* The user's steps, and the timer's, add a message; the state they leave
\* waits for an answer to it, or has nothing to wait for.
LEMMA AskedDue ==
    ASSUME ControlTypes, NEW m \in Ask, toRelay' = Append(toRelay, m),
           AnswerDue \/ m.type # "input"
    PROVE  AnswerDue'
    BY Queued DEF AnswerDue, ControlTypes, SpaControlTypeOK

LEMMA PageAgrees ==
    ASSUME ControlTypes, AgreeInv,
           RequestControl \/ ReleaseControl \/ Type \/ RenewDue
    PROVE  AgreeInv'
<1>1. leaseVersion \in 0..Versions /\ 0 \in 0..Versions
    BY ControlConstants DEF ControlTypes, SpaControlTypeOK
<1>2. UNCHANGED <<toBrowser, slot, untold>>
    BY DEF RequestControl, ReleaseControl, Type, RenewDue, relayVars
<1>3. CASE Type
  <2>1. Msg("input", 0) \in Ask /\ toRelay' = Append(toRelay, Msg("input", 0))
    BY <1>1, <1>3, Messages DEF Type, UserSends, Send
  <2>2. AnswerDue => AnswerDue'
    BY <2>1, AskedDue
  <2> QED BY <1>2, <1>3, <2>2 DEF Type, AgreeInv, Expected, browserVars
<1>4. CASE RequestControl \/ ReleaseControl \/ RenewDue
  <2>1. PICK m \in Ask : toRelay' = Append(toRelay, m) /\ m.type # "input"
    BY <1>1, <1>4, Messages DEF RequestControl, ReleaseControl, RenewDue, UserSends, Send
  <2>2. AnswerDue'
    BY <2>1, AskedDue
  <2>3. CASE RenewDue
    BY <1>2, <2>2, <2>3 DEF RenewDue, AgreeInv, Expected
  <2>4. CASE RequestControl
    BY <1>2, <2>2, <2>4 DEF RequestControl, AgreeInv, Expected
  <2>5. CASE ReleaseControl
    BY <1>2, <2>2, <2>5 DEF ReleaseControl, AgreeInv, Expected
  <2> QED BY <1>4, <2>3, <2>4, <2>5
<1> QED BY <1>3, <1>4

LEMMA EnvelopeAgrees ==
    ASSUME ControlTypes, AgreeInv, HandleEnvelope PROVE AgreeInv'
<1> DEFINE m == Head(toBrowser)
<1>1. /\ toBrowser # <<>> /\ toBrowser' = Tail(toBrowser)
      /\ UNCHANGED <<toRelay, slot, lease, untold>>
    BY DEF HandleEnvelope, relayVars
<1>2. /\ m \in Reading /\ m = toBrowser[1]
      /\ toBrowser' \in Seq(Reading)
      /\ Len(toBrowser) \in Nat \ {0} /\ Len(toBrowser') = Len(toBrowser) - 1
      /\ \A i \in 1..(Len(toBrowser) - 1) : toBrowser'[i] = toBrowser[i + 1]
      /\ toBrowser' = <<>> <=> Len(toBrowser) = 1
    BY <1>1, Taken DEF ControlTypes
<1>3. state' = m.type /\ leaseVersion' = m.version
  <2>1. CASE m.type = "granted"
    BY <2>1 DEF HandleEnvelope, GrantedVersion
  <2>2. CASE m.type # "granted"
    BY <1>2, <2>2 DEF HandleEnvelope, Reading
  <2> QED BY <2>1, <2>2
<1>4. Expected' = Expected
  <2>1. CASE Len(toBrowser) = 1
    BY <1>1, <1>2, <1>3, <2>1 DEF Expected
  <2>2. CASE Len(toBrowser) # 1
    <3>1. toBrowser'[Len(toBrowser')] = toBrowser[Len(toBrowser)] /\ toBrowser' # <<>>
      BY <1>2, <2>2
    <3> QED BY <1>1, <3>1 DEF Expected
  <2> QED BY <2>1, <2>2
<1>5. ~(state' = "granted" /\ timer' = Off)
  <2>1. CASE m.type = "granted"
    <3>1. PICK skew \in Skew : timer' = Delay(m.left, skew)
      BY <2>1 DEF HandleEnvelope, ScheduleRenew
    <3>2. timer' \in Nat
      BY <1>2, <3>1, DelayShort, ControlConstants DEF Reading, ToPage
    <3> QED BY <3>2 DEF Off
  <2> QED BY <1>3, <2>1
<1> QED BY <1>1, <1>4, <1>5 DEF AgreeInv, AnswerDue

\* A message the relay has answered is the last the page will read.
LEMMA LastWord ==
    ASSUME ControlTypes, NEW m \in Reading, toBrowser' = Append(toBrowser, m)
    PROVE  /\ Expected'.state = m.type /\ Expected'.version = m.version
           /\ toBrowser' # <<>>
<1>1. toBrowser' # <<>> /\ toBrowser'[Len(toBrowser')] = m
    BY Queued DEF ControlTypes
<1> QED BY <1>1 DEF Expected

LEMMA RelayAgrees ==
    ASSUME ControlTypes, AgreeInv, RelayHandles PROVE AgreeInv'
<1>1. RelayStep
    BY RelaySteps
<1>2. CASE Head(toRelay).type = "input"
  <2>1. AnswerDue => AnswerDue'
    <3> SUFFICES ASSUME AnswerDue PROVE AnswerDue'
        OBVIOUS
    <3>1. PICK i \in 1..Len(toRelay) : toRelay[i].type # "input"
      BY DEF AnswerDue
    <3>2. /\ Head(toRelay) = toRelay[1] /\ Len(toRelay) \in Nat
          /\ toRelay' = Tail(toRelay) /\ Len(toRelay') = Len(toRelay) - 1
          /\ \A j \in 1..(Len(toRelay) - 1) : Tail(toRelay)[j] = toRelay[j + 1]
      BY <1>1, Taken DEF RelayStep, ControlTypes, SpaControlTypeOK
    <3>3. i - 1 \in 1..Len(toRelay') /\ toRelay'[i - 1] = toRelay[i]
      BY <1>2, <3>1, <3>2
    <3> QED BY <3>1, <3>3 DEF AnswerDue
  <2>2. /\ Expected' = Expected
        /\ Emptied \/ UNCHANGED <<slot, untold>>
    BY <1>1, <1>2 DEF RelayStep, Expected, browserVars
  <2> QED BY <1>1, <1>2, <2>1, <2>2 DEF RelayStep, Emptied, AgreeInv, browserVars
<1>3. CASE Head(toRelay).type # "input"
  <2> DEFINE g == [type |-> "granted", version |-> NextVersion, left |-> TTL]
  <2>1. CASE slot' = NextVersion /\ toBrowser' = Append(toBrowser, g)
    <3>1. Expected'.state = "granted" /\ Expected'.version = NextVersion /\ toBrowser' # <<>>
      BY <2>1, GrantedMessage, LastWord
    <3> QED BY <2>1, <3>1 DEF AgreeInv
  <2>2. CASE /\ toBrowser' = Append(toBrowser, Reply("denied"))
             /\ slot' # 0 => untold' = "kept"
    <3>1. Expected'.state = "denied" /\ toBrowser' # <<>>
      BY <2>2, Messages, LastWord
    <3> QED BY <2>2, <3>1 DEF AgreeInv
  <2>3. CASE toBrowser' = Append(toBrowser, Reply("revoked")) /\ slot' = 0
    <3>1. Expected'.state = "revoked" /\ toBrowser' # <<>>
      BY <2>3, Messages, LastWord
    <3> QED BY <2>3, <3>1 DEF AgreeInv
  <2> QED BY <1>1, <1>3, <2>1, <2>2, <2>3 DEF RelayStep
<1> QED BY <1>2, <1>3

LEMMA RivalAgrees ==
    ASSUME ControlTypes, AgreeInv, RivalAcquires \/ RivalReleases \/ Tick
    PROVE  AgreeInv'
<1>1. /\ UNCHANGED <<state, leaseVersion, toRelay, toBrowser>>
      /\ Emptied \/ UNCHANGED <<slot, untold>>
      /\ timer' = Off => timer = Off
    BY DEF RivalAcquires, RivalReleases, Tick, browserVars, ControlTypes,
           SpaControlTypeOK, Off
<1> QED BY <1>1 DEF Emptied, AgreeInv, Expected, AnswerDue

LEMMA AgreeInit == SpaControlInit => AgreeInv
    BY DEF SpaControlInit, AgreeInv, Expected

LEMMA AgreeStep == ControlTypes /\ AgreeInv /\ [SpaControlNext]_controlVars => AgreeInv'
<1> SUFFICES ASSUME ControlTypes, AgreeInv, [SpaControlNext]_controlVars PROVE AgreeInv'
    OBVIOUS
<1>1. CASE UNCHANGED controlVars
    BY <1>1 DEF controlVars, AgreeInv, Expected, AnswerDue
<1>2. CASE ConnectionDropped
    BY <1>2 DEF ConnectionDropped, AgreeInv, Expected
<1> QED BY <1>1, <1>2, PageAgrees, EnvelopeAgrees, RelayAgrees, RivalAgrees
        DEF SpaControlNext

LEMMA ControlAgrees == SpaControlSpec => []AgreeInv
    BY AgreeInit, AgreeStep, ControlTyped, PTL DEF SpaControlSpec

\* However grants, refusals and releases cross on the wire, and whoever else
\* asks: when nothing is under way any more, the version the page quotes is
\* the one in the relay's slot and no button waits for an answer, unless the
\* slot was emptied without a word or left with a page that was refused.
THEOREM ControlAgreement == SpaControlSpec => []QuietMeansAgreed
<1>1. ControlTypes /\ AgreeInv => QuietMeansAgreed
  <2> SUFFICES ASSUME ControlTypes, AgreeInv, Quiet PROVE QuietMeansAgreed
      BY DEF QuietMeansAgreed
  <2>1. ~AnswerDue
      BY EmptySeq DEF Quiet, AnswerDue
  <2>2. state \in {"none", "requesting", "granted", "denied", "revoked"}
      BY DEF ControlTypes, SpaControlTypeOK
  <2> QED BY <2>1, <2>2 DEF Quiet, AgreeInv, Expected, QuietMeansAgreed
<1> QED BY <1>1, ControlTyped, ControlAgrees, PTL

-----------------------------------------------------------------------------
(* Control: the renewal is in time                                         *)

GrantComes == \E i \in 1..Len(toBrowser) : toBrowser[i].type = "granted"

\* A version in the slot is the row's.  While nothing was late, a grant that
\* is still under way is a fresh one, and the timer ends before the lease.
TimeInv ==
    /\ slot # 0 => lease.holder = "us" /\ lease.version = slot
    /\ ~late => timer < TTL
    /\ ~late /\ slot # 0 /\ GrantComes => lease.left = TTL
    /\ ~late /\ slot # 0 /\ state = "granted" => lease.left > 0 /\ timer < lease.left

LEMMA TimeInit == SpaControlInit => TimeInv
    BY ControlConstants DEF SpaControlInit, TimeInv, Off

LEMMA EnvelopeTime ==
    ASSUME ControlTypes, TimeInv, HandleEnvelope PROVE TimeInv'
<1> DEFINE m == Head(toBrowser)
<1>1. /\ toBrowser # <<>> /\ toBrowser' = Tail(toBrowser)
      /\ UNCHANGED <<toRelay, slot, lease, untold>>
    BY DEF HandleEnvelope, relayVars
<1>2. /\ m \in Reading /\ m = toBrowser[1]
      /\ Len(toBrowser) \in Nat \ {0} /\ Len(toBrowser') = Len(toBrowser) - 1
      /\ \A i \in 1..(Len(toBrowser) - 1) : toBrowser'[i] = toBrowser[i + 1]
    BY <1>1, Taken DEF ControlTypes
<1>3. GrantComes' => GrantComes
  <2> SUFFICES ASSUME NEW i \in 1..Len(toBrowser'), toBrowser'[i].type = "granted"
               PROVE  GrantComes
      BY DEF GrantComes
  <2>1. i + 1 \in 1..Len(toBrowser) /\ toBrowser[i + 1].type = "granted"
      BY <1>2
  <2> QED BY <2>1 DEF GrantComes
<1>4. CASE m.type = "granted"
  <2>1. PICK skew \in Skew : timer' = Delay(m.left, skew) /\ late' = (late \/ skew # 0)
    BY <1>4 DEF HandleEnvelope, ScheduleRenew
  <2>2. GrantComes
    BY <1>2, <1>4 DEF GrantComes
  <2>3. m.left = TTL
    BY <1>2, <1>4 DEF Reading
  <2>6. TTL \in 0..TTL /\ skew \in Nat
    BY ControlConstants
  <2>7. skew = 0 => timer' < TTL
    BY <2>1, <2>3, <2>6, DelayShort
  <2>4. ~late' => ~late /\ timer' < TTL
    BY <2>1, <2>7
  <2>5. ~late' /\ slot # 0 => lease.left = TTL /\ TTL > 0
    BY <2>2, <2>4, ControlConstants DEF TimeInv
  <2> QED BY <1>1, <2>4, <2>5 DEF TimeInv
<1>5. CASE m.type # "granted"
  <2>1. timer' = Off /\ late' = late /\ state' = m.type
    BY <1>5 DEF HandleEnvelope
  <2>2. Off < TTL
    BY ControlConstants DEF Off
  <2> QED BY <1>1, <1>3, <1>5, <2>1, <2>2 DEF TimeInv
<1> QED BY <1>4, <1>5

LEMMA RelayTime ==
    ASSUME ControlTypes, TimeInv, RelayHandles PROVE TimeInv'
<1>1. RelayStep
    BY RelaySteps
<1>2. UNCHANGED <<state, timer, late>>
    BY <1>1 DEF RelayStep, browserVars
<1> DEFINE g == [type |-> "granted", version |-> NextVersion, left |-> TTL]
<1>3. CASE /\ lease' = [holder |-> "us", version |-> NextVersion, left |-> TTL]
           /\ slot' = NextVersion
  <2>1. lease'.holder = "us" /\ lease'.version = slot' /\ lease'.left = TTL /\ TTL > 0
    BY <1>3, ControlConstants
  <2> QED BY <1>2, <2>1 DEF TimeInv
<1>4. CASE slot' = 0
    BY <1>2, <1>4 DEF TimeInv
<1>5. CASE lease' = lease /\ slot' = slot /\ toBrowser' = toBrowser
    BY <1>2, <1>5 DEF TimeInv, GrantComes
<1>6. CASE lease' = lease /\ slot' = slot /\ toBrowser' = Append(toBrowser, Reply("denied"))
  <2>1. GrantComes' => GrantComes
    <3>1. Reply("denied") \in Reading /\ Reply("denied").type = "denied"
      BY Messages
    <3>2. /\ Len(toBrowser') = Len(toBrowser) + 1 /\ Len(toBrowser) \in Nat
          /\ \A i \in 1..Len(toBrowser) : toBrowser'[i] = toBrowser[i]
          /\ toBrowser'[Len(toBrowser) + 1].type = "denied"
      BY <1>6, <3>1, Queued DEF ControlTypes
    <3> QED BY <3>2 DEF GrantComes
  <2> QED BY <1>2, <1>6, <2>1 DEF TimeInv
<1> QED BY <1>1, <1>3, <1>4, <1>5, <1>6 DEF RelayStep, Emptied

LEMMA TickTime ==
    ASSUME ControlTypes, AgreeInv, TimeInv, Tick PROVE TimeInv'
<1>1. /\ lease \in [holder: {"none", "us", "other"}, version: 0..Versions, left: 0..TTL]
      /\ timer \in Nat \cup {Off}
    BY DEF ControlTypes, SpaControlTypeOK
<1>2. /\ lease'.holder = lease.holder /\ lease'.version = lease.version
      /\ lease'.left = IF lease.left = 0 THEN 0 ELSE lease.left - 1
      /\ lease.left \in 0..TTL
    BY <1>1 DEF Tick
<1>3. UNCHANGED <<state, leaseVersion, toRelay, toBrowser, slot>>
      /\ (late' <=> late \/ ~Quiet \/ timer = 0)
      /\ timer' = IF timer \in {Off, 0} THEN timer ELSE timer - 1
    BY DEF Tick
<1>4. CASE late'
    BY <1>2, <1>3, <1>4 DEF TimeInv
<1>5. CASE ~late'
  <2>1. ~late /\ Quiet /\ timer # 0 /\ ~GrantComes'
    BY <1>3, <1>5, EmptySeq DEF Quiet, GrantComes
  <2>2. timer' < TTL
    BY <1>1, <1>3, <2>1, ControlConstants DEF TimeInv, Off
  <2>3. ASSUME slot # 0, state = "granted" PROVE lease'.left > 0 /\ timer' < lease'.left
    <3>1. lease.left > 0 /\ timer < lease.left
      BY <2>1, <2>3 DEF TimeInv
    <3>2. timer # Off
      BY <2>1, <2>3, EmptySeq DEF AgreeInv, AnswerDue, Quiet
    <3>3. timer \in Nat \ {0} /\ timer' = timer - 1
      BY <1>1, <1>3, <2>1, <3>2
    <3> QED BY <1>2, <3>1, <3>3
  <2> QED BY <1>2, <1>3, <2>1, <2>2, <2>3 DEF TimeInv
<1> QED BY <1>4, <1>5

\* A step of the page, or a rival's.
LEMMA OtherTime ==
    ASSUME ControlTypes, TimeInv,
           \/ RequestControl \/ ReleaseControl \/ Type \/ RenewDue
           \/ ConnectionDropped \/ RivalAcquires \/ RivalReleases
    PROVE  TimeInv'
<1>1. late' = late /\ Off < TTL
    BY ControlConstants DEF RequestControl, ReleaseControl, Type, RenewDue,
       ConnectionDropped, RivalAcquires, RivalReleases, Off
<1>2. CASE RivalAcquires \/ ConnectionDropped
    BY <1>1, <1>2 DEF RivalAcquires, Emptied, ConnectionDropped, TimeInv, browserVars
<1>3. CASE RivalReleases
    BY <1>1, <1>3 DEF RivalReleases, TimeInv, browserVars, GrantComes
<1>4. CASE RequestControl \/ ReleaseControl \/ Type
    BY <1>1, <1>4 DEF RequestControl, ReleaseControl, Type, TimeInv, relayVars, browserVars,
                      GrantComes
<1>5. CASE RenewDue
  <2>1. lease.left \in 0..TTL
    BY DEF ControlTypes, SpaControlTypeOK
  <2>2. lease.left > 0 => Off < lease.left
    BY <2>1 DEF Off
  <2> QED BY <1>1, <1>5, <2>2 DEF RenewDue, TimeInv, relayVars, GrantComes
<1> QED BY <1>2, <1>3, <1>4, <1>5

LEMMA TimeStep ==
    ControlTypes /\ AgreeInv /\ TimeInv /\ [SpaControlNext]_controlVars => TimeInv'
<1>1. UNCHANGED controlVars /\ TimeInv => TimeInv'
    BY DEF controlVars, TimeInv, GrantComes
<1> QED BY <1>1, EnvelopeTime, RelayTime, TickTime, OtherTime DEF SpaControlNext

\* While messages and timers are prompt and the clocks agree, a lease does not
\* run out under a page that has it, for every TTL, lead and floor below it.
THEOREM ControlInTime == SpaControlSpec => []RenewedInTime
<1>1. TimeInv => RenewedInTime
    BY DEF TimeInv, RenewedInTime
<1> QED BY <1>1, TimeInit, TimeStep, ControlTyped, ControlAgrees, PTL DEF SpaControlSpec

-----------------------------------------------------------------------------
(* The list                                                                *)

LEMMA Removed ==
    ASSUME NEW S, NEW q \in Seq(S), NEW i \in 1..Len(q)
    PROVE  /\ RemoveAt(q, i) \in Seq(S) /\ Len(RemoveAt(q, i)) = Len(q) - 1
           /\ \A j \in 1..(Len(q) - 1) :
                 RemoveAt(q, i)[j] = IF j < i THEN q[j] ELSE q[j + 1]
<1>1. Len(q) \in Nat /\ \A j \in 1..Len(q) : q[j] \in S
    BY LenProperties, ElementOfSeq
<1> DEFINE a == SubSeq(q, 1, i - 1)
           b == SubSeq(q, i + 1, Len(q))
<1>2. /\ a \in Seq(S) /\ Len(a) = i - 1
      /\ \A j \in 1..(i - 1) : a[j] = q[j]
  <2>1. /\ a \in Seq(S) /\ Len(a) = IF 1 <= i - 1 THEN i - 1 - 1 + 1 ELSE 0
        /\ \A j \in 1..(i - 1 - 1 + 1) : a[j] = q[1 + j - 1]
    BY <1>1, SubSeqProperties
  <2> HIDE DEF a
  <2> QED BY <1>1, <2>1
<1>3. /\ b \in Seq(S) /\ Len(b) = Len(q) - i
      /\ \A j \in 1..(Len(q) - i) : b[j] = q[i + j]
  <2>1. /\ b \in Seq(S) /\ Len(b) = IF i + 1 <= Len(q) THEN Len(q) - (i + 1) + 1 ELSE 0
        /\ \A j \in 1..(Len(q) - (i + 1) + 1) : b[j] = q[i + 1 + j - 1]
    BY <1>1, SubSeqProperties
  <2> HIDE DEF b
  <2> QED BY <1>1, <2>1
<1>4. RemoveAt(q, i) = a \o b
    BY DEF RemoveAt
<1> HIDE DEF a, b
<1>5. /\ a \o b \in Seq(S) /\ Len(a \o b) = Len(a) + Len(b)
      /\ \A j \in 1..(Len(a) + Len(b)) :
            (a \o b)[j] = IF j <= Len(a) THEN a[j] ELSE b[j - Len(a)]
    BY <1>2, <1>3, ConcatProperties
<1>6. ASSUME NEW j \in 1..(Len(q) - 1)
      PROVE  RemoveAt(q, i)[j] = IF j < i THEN q[j] ELSE q[j + 1]
  <2>1. CASE j < i
    BY <1>1, <1>2, <1>3, <1>4, <1>5, <2>1
  <2>2. CASE ~(j < i)
    <3>1. j - (i - 1) \in 1..(Len(q) - i) /\ i + (j - (i - 1)) = j + 1
      BY <1>1, <2>2
    <3>2. b[j - (i - 1)] = q[j + 1]
      BY <1>3, <3>1
    <3> QED BY <1>1, <1>2, <1>3, <1>4, <1>5, <2>2, <3>2
  <2> QED BY <2>1, <2>2
<1> QED BY <1>1, <1>2, <1>3, <1>4, <1>5, <1>6

\* A silent request shows no success.  As long as no newer one has ended, the
\* newest request is for the active tab, and its answer no older than it is.
ListInv ==
    /\ SessionListTypeOK
    /\ \A i \in 1..Len(calls) : calls[i].silent => ~calls[i].showSuccess
    /\ calls # <<>> /\ ~calls[Len(calls)].late =>
          /\ calls[Len(calls)].filter = filter
          /\ calls[Len(calls)].step = "answered" => calls[Len(calls)].at >= asked
    /\ ListMatchesTab

LEMMA ListInit == SessionListInit => ListInv
<1> SUFFICES ASSUME SessionListInit PROVE ListInv
    OBVIOUS
<1>1. calls \in Seq(Call) /\ Len(calls) = 0 /\ MaxCalls \in Nat /\ MaxChanges \in Nat
    BY EmptySeq, SessionListAssumption DEF SessionListInit
<1>2. {refreshing, refreshDone, spinner, spinnerTimer} \subseteq BOOLEAN
      /\ ~(refreshing /\ refreshDone) /\ {snackbar, stale, doubt} \subseteq BOOLEAN
    BY DEF SessionListInit
<1>3. changes \in 0..MaxChanges /\ asked \in 0..changes /\ Len(calls) <= MaxCalls
    BY <1>1 DEF SessionListInit
<1>4. SessionListTypeOK
    BY <1>1, <1>2, <1>3 DEF SessionListInit, SessionListTypeOK, Filter
<1> QED BY <1>1, <1>4 DEF SessionListInit, ListInv, ListMatchesTab

LEMMA FetchList ==
    ASSUME ListInv, NEW silent \in BOOLEAN, NEW show \in BOOLEAN,
           silent => ~show, Fetch(silent, show, filter'),
           filter' \in Filter, mounted' \in BOOLEAN, spinnerTimer' \in BOOLEAN
    PROVE  ListInv'
<1> DEFINE c == [step |-> "asked", filter |-> filter', silent |-> silent,
                 showSuccess |-> show, at |-> 0, late |-> FALSE]
<1>1. c \in Call
    BY SessionListAssumption DEF Call
<1>2. /\ calls \in Seq(Call) /\ calls' = Append(calls, c) /\ Len(calls) < MaxCalls
      /\ asked' = changes
      /\ UNCHANGED <<items, changes, spinner, snackbar, stale, doubt>>
      /\ IF silent THEN UNCHANGED <<refreshing, refreshDone>>
         ELSE refreshing' = TRUE /\ refreshDone' = FALSE
    BY DEF ListInv, SessionListTypeOK, Fetch, Busy
<1>3. /\ c.step = "asked" /\ c.filter = filter' /\ c.silent = silent
      /\ c.showSuccess = show
    OBVIOUS
<1> HIDE DEF c
<1>4. /\ calls' \in Seq(Call) /\ calls' # <<>> /\ Len(calls') = Len(calls) + 1
      /\ \A i \in 1..Len(calls) : calls'[i] = calls[i]
      /\ calls'[Len(calls')] = c /\ Len(calls) \in Nat
    BY <1>1, <1>2, Queued
<1>5. Len(calls') <= MaxCalls
    BY <1>2, <1>4, SessionListAssumption
<1>6. SessionListTypeOK'
  <2>1. asked' \in 0..changes'
    BY <1>2 DEF ListInv, SessionListTypeOK
  <2>2. {refreshing', refreshDone'} \subseteq BOOLEAN /\ ~(refreshing' /\ refreshDone')
    BY <1>2 DEF ListInv, SessionListTypeOK
  <2> QED BY <1>2, <1>4, <1>5, <2>1, <2>2 DEF ListInv, SessionListTypeOK
<1>7. \A i \in 1..Len(calls') : calls'[i].silent => ~calls'[i].showSuccess
    BY <1>3, <1>4 DEF ListInv
<1> QED BY <1>3, <1>4, <1>6, <1>7 DEF ListInv, ListMatchesTab

LEMMA AnswerList ==
    ASSUME ListInv, NEW i \in DOMAIN calls, Answer(i) PROVE ListInv'
<1>1. calls \in Seq(Call) /\ i \in 1..Len(calls) /\ changes \in 0..MaxChanges /\ changes \in Nat
    BY SessionListAssumption, LenProperties DEF ListInv, SessionListTypeOK
<1>2. calls[i] \in Call
    BY <1>1, ElementOfSeq
<1>3. PICK c \in Call :
        /\ calls' = [calls EXCEPT ![i] = c]
        /\ c.filter = calls[i].filter /\ c.silent = calls[i].silent
        /\ c.showSuccess = calls[i].showSuccess /\ c.late = calls[i].late
        /\ c.step = "answered" => c.at = changes
  <2>1. CASE calls' = [calls EXCEPT ![i].step = "answered", ![i].at = changes]
    <3> DEFINE c == [calls[i] EXCEPT !.step = "answered", !.at = changes]
    <3>1. calls' = [calls EXCEPT ![i] = c]
      BY <1>1, <2>1, LenProperties
    <3>2. c \in Call
      BY <1>1, <1>2 DEF Call
    <3>3. /\ c.filter = calls[i].filter /\ c.silent = calls[i].silent
          /\ c.showSuccess = calls[i].showSuccess /\ c.late = calls[i].late
          /\ c.at = changes
      BY <1>2 DEF Call
    <3> QED BY <3>1, <3>2, <3>3
  <2>2. CASE calls' = [calls EXCEPT ![i].step = "failed"]
    <3> DEFINE c == [calls[i] EXCEPT !.step = "failed"]
    <3>1. calls' = [calls EXCEPT ![i] = c]
      BY <2>2
    <3>2. c \in Call
      BY <1>1, <1>2 DEF Call
    <3>3. /\ c.filter = calls[i].filter /\ c.silent = calls[i].silent
          /\ c.showSuccess = calls[i].showSuccess /\ c.late = calls[i].late
          /\ c.step = "failed"
      BY <1>2 DEF Call
    <3> QED BY <3>1, <3>2, <3>3
  <2> QED BY <2>1, <2>2 DEF Answer
<1>4. /\ calls' \in Seq(Call) /\ Len(calls') = Len(calls)
      /\ \A j \in 1..Len(calls) : calls'[j] = IF j = i THEN c ELSE calls[j]
      /\ Len(calls) \in 1..Len(calls) /\ calls # <<>> /\ calls' # <<>>
    BY <1>1, <1>3, ExceptSeq, EmptySeq
<1>5. UNCHANGED <<mounted, filter, items, changes, signVars, stale, doubt, asked>>
    BY DEF Answer
<1>6. SessionListTypeOK'
    BY <1>4, <1>5 DEF ListInv, SessionListTypeOK, signVars
<1>7. \A j \in 1..Len(calls') : calls'[j].silent => ~calls'[j].showSuccess
    BY <1>1, <1>3, <1>4 DEF ListInv
<1>8. asked \in Nat /\ asked <= changes
    BY <1>1 DEF ListInv, SessionListTypeOK
<1>9. ~calls'[Len(calls')].late =>
        /\ calls'[Len(calls')].filter = filter'
        /\ calls'[Len(calls')].step = "answered" => calls'[Len(calls')].at >= asked'
  <2>1. CASE i = Len(calls)
    <3>1. calls'[Len(calls')] = c
      BY <1>4, <2>1
    <3>2. c.step = "answered" => c.at >= asked
      BY <1>1, <1>3, <1>8
    <3> QED BY <1>3, <1>4, <1>5, <2>1, <3>1, <3>2 DEF ListInv
  <2>2. CASE i # Len(calls)
    <3>1. calls'[Len(calls')] = calls[Len(calls)]
      BY <1>4, <2>2
    <3> QED BY <1>4, <1>5, <3>1 DEF ListInv
  <2> QED BY <2>1, <2>2
<1> QED BY <1>4, <1>6, <1>7, <1>9 DEF ListInv, ListMatchesTab

LEMMA LandList ==
    ASSUME ListInv, NEW i \in DOMAIN calls, Land(i) PROVE ListInv'
<1>1. calls \in Seq(Call) /\ i \in 1..Len(calls) /\ Len(calls) \in Nat
    BY LenProperties DEF ListInv, SessionListTypeOK
<1>2. \A j \in 1..Len(calls) : calls[j] \in Call
    BY <1>1, ElementOfSeq
<1> DEFINE c == calls[i]
           q == [j \in 1..Len(calls) |-> [calls[j] EXCEPT !.late = @ \/ j < i]]
<1>3. \A j \in 1..Len(calls) :
        /\ q[j] \in Call
        /\ q[j].step = calls[j].step /\ q[j].filter = calls[j].filter
        /\ q[j].silent = calls[j].silent /\ q[j].showSuccess = calls[j].showSuccess
        /\ q[j].at = calls[j].at /\ (q[j].late <=> calls[j].late \/ j < i)
  <2> SUFFICES ASSUME NEW j \in 1..Len(calls)
               PROVE  /\ q[j] \in Call
                      /\ q[j].step = calls[j].step /\ q[j].filter = calls[j].filter
                      /\ q[j].silent = calls[j].silent
                      /\ q[j].showSuccess = calls[j].showSuccess
                      /\ q[j].at = calls[j].at /\ (q[j].late <=> calls[j].late \/ j < i)
      OBVIOUS
  <2>1. calls[j] \in Call /\ (calls[j].late \/ j < i) \in BOOLEAN
      BY <1>2 DEF Call
  <2>2. q[j] = [calls[j] EXCEPT !.late = calls[j].late \/ j < i]
      OBVIOUS
  <2> HIDE DEF q
  <2> QED BY <2>1, <2>2 DEF Call
<1>4. q \in Seq(Call) /\ Len(q) = Len(calls)
  <2>1. q \in [1..Len(calls) -> Call]
    BY <1>3
  <2> HIDE DEF q
  <2> QED BY <1>1, <2>1, SeqDef, LenProperties
<1>5. /\ UNCHANGED <<mounted, filter, changes, spinnerTimer, asked>>
      /\ spinner' = FALSE /\ calls' = RemoveAt(q, i)
      /\ refreshing' = (refreshing /\ c.silent)
      /\ refreshDone' = (refreshDone \/ (c.step = "answered" /\ c.showSuccess))
      /\ \/ /\ c.step = "answered" /\ items' = [of |-> c.filter, at |-> c.at]
            /\ stale' = FALSE /\ doubt' = c.late /\ UNCHANGED snackbar
         \/ /\ c.step = "failed" /\ snackbar' = (snackbar \/ ~c.silent)
            /\ doubt' = TRUE /\ UNCHANGED <<items, stale>>
    BY DEF Land, Loaded, LoadFailed, Free
<1> HIDE DEF q
<1>6. /\ calls' \in Seq(Call) /\ Len(calls') = Len(calls) - 1
      /\ \A j \in 1..(Len(calls) - 1) : calls'[j] = IF j < i THEN q[j] ELSE q[j + 1]
    BY <1>1, <1>4, <1>5, Removed
<1>7. c \in Call /\ (c.silent => ~c.showSuccess)
    BY <1>1, <1>2 DEF ListInv
<1>8. SessionListTypeOK'
  <2>1. Len(calls') <= MaxCalls
    BY <1>1, <1>6, SessionListAssumption DEF ListInv, SessionListTypeOK
  <2>2. items' \in [of : Filter, at : 0..MaxChanges] \cup {NoItems}
    BY <1>5, <1>7 DEF ListInv, SessionListTypeOK, Call
  <2>3. {refreshing', refreshDone', snackbar', stale', doubt'} \subseteq BOOLEAN
        /\ ~(refreshing' /\ refreshDone')
    BY <1>5, <1>7 DEF ListInv, SessionListTypeOK, Call
  <2> QED BY <1>5, <1>6, <2>1, <2>2, <2>3 DEF ListInv, SessionListTypeOK
<1>9. \A j \in 1..Len(calls') : calls'[j].silent => ~calls'[j].showSuccess
  <2> SUFFICES ASSUME NEW j \in 1..Len(calls') PROVE calls'[j].silent => ~calls'[j].showSuccess
      OBVIOUS
  <2>1. j \in 1..Len(calls) /\ j + 1 \in 1..Len(calls)
      BY <1>1, <1>6
  <2> QED BY <1>1, <1>3, <1>6, <2>1 DEF ListInv
<1>10. ASSUME calls' # <<>>, ~calls'[Len(calls')].late
       PROVE  /\ calls'[Len(calls')].filter = filter'
              /\ calls'[Len(calls')].step = "answered" => calls'[Len(calls')].at >= asked'
  <2>1. Len(calls') \in 1..(Len(calls) - 1)
    BY <1>1, <1>6, <1>10, EmptySeq
  <2>2. CASE i = Len(calls)
    <3>1. Len(calls') < i /\ calls'[Len(calls')] = q[Len(calls')] /\ Len(calls') \in 1..Len(calls)
      BY <1>1, <1>6, <2>1, <2>2
    <3> QED BY <1>3, <1>10, <3>1
  <2>3. CASE i # Len(calls)
    <3>1. calls'[Len(calls')] = q[Len(calls)] /\ Len(calls) \in 1..Len(calls)
      BY <1>1, <1>6, <2>1, <2>3
    <3>2. calls # <<>>
      BY <1>1, EmptySeq
    <3> QED BY <1>3, <1>5, <1>10, <3>1, <3>2 DEF ListInv
  <2> QED BY <2>2, <2>3
<1>11. ListMatchesTab'
  <2> SUFFICES ASSUME calls' = <<>>, ~doubt' PROVE items'.of = filter' /\ items'.at >= asked'
      BY DEF ListMatchesTab
  <2>1. i = Len(calls) /\ calls # <<>>
      BY <1>1, <1>6, EmptySeq
  <2>2. c.step = "answered" /\ items' = [of |-> c.filter, at |-> c.at] /\ ~c.late
      BY <1>5
  <2> QED BY <1>5, <2>1, <2>2 DEF ListInv
<1> QED BY <1>8, <1>9, <1>10, <1>11 DEF ListInv

LEMMA ListStep == ListInv /\ [SessionListNext]_listVars => ListInv'
<1> SUFFICES ASSUME ListInv, [SessionListNext]_listVars PROVE ListInv'
    OBVIOUS
<1>1. CASE Mount \/ RefreshClicked \/ BecomesVisible \/ \E f \in Filter : SetFilter(f)
  <2>1. PICK silent \in BOOLEAN, show \in BOOLEAN :
          Fetch(silent, show, filter') /\ (silent => ~show)
    BY <1>1 DEF Mount, RefreshClicked, BecomesVisible, SetFilter
  <2>2. filter' \in Filter /\ mounted' \in BOOLEAN /\ spinnerTimer' \in BOOLEAN
    BY <1>1 DEF Mount, RefreshClicked, BecomesVisible, SetFilter, ListInv, SessionListTypeOK
  <2> QED BY <2>1, <2>2, FetchList
<1>2. CASE SessionsChange
  <2>1. changes' \in 0..MaxChanges /\ asked' \in 0..changes'
    BY <1>2, SessionListAssumption DEF SessionsChange, ListInv, SessionListTypeOK
  <2> QED BY <1>2, <2>1 DEF SessionsChange, ListInv, SessionListTypeOK, ListMatchesTab, signVars
<1>3. CASE SpinnerDue \/ TickFades \/ SnackbarFades \/ GrowsStale
  <2>1. UNCHANGED <<mounted, filter, items, calls, changes, doubt, asked, refreshing>>
    BY <1>3 DEF SpinnerDue, TickFades, SnackbarFades, GrowsStale, signVars
  <2>2. /\ {refreshDone', spinner', spinnerTimer', snackbar', stale'} \subseteq BOOLEAN
        /\ refreshDone' => refreshDone
    <3> USE DEF ListInv, SessionListTypeOK
    <3>1. CASE SpinnerDue
      BY <3>1 DEF SpinnerDue
    <3>2. CASE TickFades
      BY <3>2 DEF TickFades
    <3>3. CASE SnackbarFades
      BY <3>3 DEF SnackbarFades
    <3>4. CASE GrowsStale
      BY <3>4 DEF GrowsStale, signVars
    <3> QED BY <1>3, <3>1, <3>2, <3>3, <3>4
  <2> QED BY <2>1, <2>2 DEF ListInv, SessionListTypeOK, ListMatchesTab
<1>4. CASE UNCHANGED listVars
  <2>1. UNCHANGED <<mounted, filter, items, calls, changes, doubt, asked, refreshing,
                    refreshDone, spinner, spinnerTimer, snackbar, stale>>
    BY <1>4 DEF listVars
  <2> QED BY <2>1 DEF ListInv, SessionListTypeOK, ListMatchesTab
<1> QED BY <1>1, <1>2, <1>3, <1>4, AnswerList, LandList DEF SessionListNext

LEMMA ListHolds == SessionListSpec => []ListInv
    BY ListInit, ListStep, PTL DEF SessionListSpec

\* Every variable of the list keeps its type, and the button is never busy
\* and ticked at once.
THEOREM ListTypes == SessionListSpec => []SessionListTypeOK
<1>1. ListInv => SessionListTypeOK
    BY DEF ListInv
<1> QED BY <1>1, ListHolds, PTL

\* For any number of overlapping requests: when none is left, the list is the
\* active tab's and as new as the last request, unless the last one to end
\* failed or was overtaken.
THEOREM ListFollowsTab == SessionListSpec => []ListMatchesTab
<1>1. ListInv => ListMatchesTab
    BY DEF ListInv
<1> QED BY <1>1, ListHolds, PTL

-----------------------------------------------------------------------------
(* The screen                                                              *)

\* What the daemon writes: sizes, snapshots and outputs there are.
Written == {m \in Message : /\ m.type = "ready" => m.n \in Size
                            /\ m.type = "chunk" => m.n \in 0..MaxOutput
                            /\ m.type = "output" => m.n \in 1..MaxOutput}

\* A grid nobody was told of is the window's, and the bridge remembers it.
Remembered == ~uiMode => lastGrid = grid

ScreenInv ==
    /\ ViewerTypeOK /\ stream \in Seq(Written) /\ requests <= events
    /\ FallbackIsTold /\ Remembered

LEMMA ViewerConstants ==
    /\ MaxOutput \in Nat /\ GridFloor \in Nat \ {0} /\ MaxEvents \in Nat
    /\ PaneSizes \subseteq Nat \ {0} /\ Size \subseteq Nat /\ Containers \subseteq Nat
    BY ViewerAssumption DEF Size

LEMMA Grids == \A c \in Containers : PickGrid(c) \in Nat \ {0}
    BY ViewerConstants DEF PickGrid

LEMMA Idles ==
    /\ Idle \in Job
    /\ [p \in Publisher |-> Idle] \in [Publisher -> Job]
    BY ViewerConstants DEF Idle, Job

LEMMA WrittenMessages ==
    /\ \A n \in Size : OnWire("ready", n) \in Written
    /\ \A n \in 0..MaxOutput : OnWire("chunk", n) \in Written
    /\ \A n \in 1..MaxOutput : OnWire("output", n) \in Written
    /\ Written \subseteq Message
    BY ViewerConstants DEF OnWire, Written, Message

LEMMA ScreenInit == ViewerInit => ScreenInv
<1> SUFFICES ASSUME ViewerInit PROVE ScreenInv
    OBVIOUS
<1>1. /\ stream \in Seq(Written) /\ stream \in Seq(Message) /\ screen \in Seq(1..MaxOutput)
      /\ job \in [Publisher -> Job] /\ grid \in Nat \ {0} /\ grid = PickGrid(container)
    BY EmptySeq, Idles, Grids DEF ViewerInit
<1>2. seen \in [last : Size, next : Size]
    BY DEF ViewerInit, Size
<1>3. /\ produced \in 0..MaxOutput /\ piped \in 0..produced
      /\ requests \in 0..MaxEvents /\ events \in 0..MaxEvents /\ requests <= events
      /\ lastGrid \in Nat \ {0} /\ told \in Nat
    BY <1>1, ViewerConstants DEF ViewerInit
<1>4. ViewerTypeOK
    BY <1>1, <1>2, <1>3 DEF ViewerInit, ViewerTypeOK
<1> QED BY <1>1, <1>3, <1>4 DEF ViewerInit, ScreenInv, FallbackIsTold, Remembered

\* The window's side of the page, as long as nobody changes it.
LEMMA QuietWindow ==
    ASSUME ScreenInv, UNCHANGED <<uiMode, grid, container, debounce, lastGrid, told, open>>
    PROVE  FallbackIsTold' /\ Remembered'
    BY DEF ScreenInv, FallbackIsTold, Remembered

LEMMA ToWatchersTyped ==
    ASSUME ScreenInv, NEW m \in Written, ToWatchers(m)
    PROVE  stream' \in Seq(Written)
    BY Queued DEF ScreenInv, ToWatchers

LEMMA WrittenAreMessages == \A q \in Seq(Written) : q \in Seq(Message)
    BY WrittenMessages, SeqMonotonic

\* The host's steps: what they may change keeps its type.
HostKept ==
    /\ UNCHANGED <<open, uiVars, layoutVars>>
    /\ produced' \in 0..MaxOutput /\ piped' \in 0..produced'
    /\ pane' \in PaneSizes
    /\ job' \in [Publisher -> Job]
    /\ seen' \in [last : Size, next : Size]
    /\ link' \in BOOLEAN /\ stream' \in Seq(Written)
    /\ raced' \subseteq 1..MaxOutput /\ blind' \subseteq 0..MaxOutput /\ unsaid' \in BOOLEAN
    /\ events' \in 0..MaxEvents /\ requests' \in 0..events'

LEMMA HostKeeps ==
    ASSUME ScreenInv, HostKept PROVE ScreenInv'
<1>1. requests' \in 0..MaxEvents /\ requests' <= events'
    BY ViewerConstants DEF HostKept
<1>2. stream' \in Seq(Message)
    BY WrittenAreMessages DEF HostKept
<1>3. FallbackIsTold' /\ Remembered'
    BY QuietWindow DEF HostKept, uiVars, layoutVars
<1> QED BY <1>1, <1>2, <1>3 DEF HostKept, ScreenInv, ViewerTypeOK, uiVars, layoutVars

\* The values before a step, as its proof needs them.
LEMMA ScreenBefore ==
    ASSUME ScreenInv
    PROVE  /\ produced \in 0..MaxOutput /\ piped \in 0..produced
           /\ pane \in PaneSizes
           /\ job \in [Publisher -> Job] /\ seen \in [last : Size, next : Size]
           /\ link \in BOOLEAN /\ stream \in Seq(Written)
           /\ raced \subseteq 1..MaxOutput /\ blind \subseteq 0..MaxOutput /\ unsaid \in BOOLEAN
           /\ events \in 0..MaxEvents /\ requests \in 0..events
    BY ViewerConstants DEF ScreenInv, ViewerTypeOK

LEMMA OutputScreen ==
    ASSUME ScreenInv, PaneWrites \/ PublishOutput PROVE ScreenInv'
<1>1. CASE PaneWrites
  <2>1. produced' \in 0..MaxOutput /\ piped' \in 0..produced'
    BY <1>1, ScreenBefore, ViewerConstants DEF PaneWrites
  <2> QED BY <1>1, <2>1, HostKeeps, ScreenBefore DEF PaneWrites, HostKept
<1>2. CASE PublishOutput
  <2>1. piped' \in 0..produced /\ piped' \in 1..MaxOutput
    BY <1>2, ScreenBefore, ViewerConstants DEF PublishOutput
  <2>2. stream' \in Seq(Written)
    BY <1>2, <2>1, ToWatchersTyped, WrittenMessages, ScreenBefore DEF PublishOutput
  <2>3. raced' \subseteq 1..MaxOutput
    BY <1>2, <2>1, ScreenBefore DEF PublishOutput
  <2> QED BY <1>2, <2>1, <2>2, <2>3, HostKeeps, ScreenBefore DEF PublishOutput, HostKept
<1> QED BY <1>1, <1>2

LEMMA ResizeScreen ==
    ASSUME ScreenInv, HostResizes PROVE ScreenInv'
<1>1. events' \in 0..MaxEvents /\ requests' \in 0..events'
    BY ScreenBefore, ViewerConstants DEF HostResizes, Event
<1> QED BY <1>1, HostKeeps, ScreenBefore DEF HostResizes, HostKept

\* What a failed capture notes.
LEMMA FailedTyped ==
    ASSUME ScreenInv, CaptureFails
    PROVE  blind' \subseteq 0..MaxOutput /\ unsaid' \in BOOLEAN /\ job' = job
<1>1. 0..produced \subseteq 0..MaxOutput
    BY ScreenBefore, ViewerConstants
<1> QED BY <1>1, ScreenBefore DEF CaptureFails

LEMMA WatchJobScreen ==
    ASSUME ScreenInv, SnapshotRequest \/ QuerySize PROVE ScreenInv'
<1> DEFINE j == job["watch"]
           a == [Idle EXCEPT !.step = "size", !.upTo = produced]
           b(size) == [j EXCEPT !.step = "ready", !.size = size]
<1>1. "watch" \in Publisher /\ j \in Job
    BY ScreenBefore DEF Publisher
<1>2. CASE SnapshotRequest
  <2>1. /\ requests' \in 0..events /\ events' = events
        /\ blind' \subseteq 0..MaxOutput /\ unsaid' \in BOOLEAN
    BY <1>2, FailedTyped, ScreenBefore, ViewerConstants DEF SnapshotRequest
  <2>2. a \in Job
    BY ScreenBefore, ViewerConstants DEF Idle, Job
  <2>3. job' = job \/ job' = [job EXCEPT !["watch"] = a]
    BY <1>2 DEF SnapshotRequest, CaptureFails
  <2> HIDE DEF a
  <2> QED BY <1>1, <1>2, <2>1, <2>2, <2>3, HostKeeps, ScreenBefore
          DEF SnapshotRequest, HostKept
<1>3. CASE QuerySize
  <2>1. \A size \in {pane, 0} : b(size) \in Job
    BY <1>1, ScreenBefore DEF Job
  <2>2. \E size \in {pane, 0} : job' = [job EXCEPT !["watch"] = b(size)]
    BY <1>1, <1>3, ScreenBefore DEF QuerySize
  <2> HIDE DEF b
  <2> QED BY <1>1, <1>3, <2>1, <2>2, HostKeeps, ScreenBefore DEF QuerySize, HostKept
<1> QED BY <1>2, <1>3

LEMMA SendScreen ==
    ASSUME ScreenInv, NEW p \in Publisher, SendReady(p) \/ SendChunk(p) PROVE ScreenInv'
<1>1. job[p] \in Job /\ job[p].size \in Size /\ job[p].upTo \in 0..MaxOutput
    BY ScreenBefore DEF Job, Size
<1>2. [job[p] EXCEPT !.step = "chunk"] \in Job
    BY <1>1 DEF Job
<1>3. stream' \in Seq(Written)
    BY <1>1, ToWatchersTyped, WrittenMessages, ScreenBefore DEF SendReady, SendChunk
<1>4. job' \in [Publisher -> Job]
  <2>1. \/ job' = [job EXCEPT ![p] = [job[p] EXCEPT !.step = "chunk"]]
        \/ job' = [job EXCEPT ![p] = Idle]
    BY ScreenBefore DEF SendReady, SendChunk
  <2> QED BY <1>2, <2>1, Idles, ScreenBefore
<1>5. unsaid' \in BOOLEAN
    BY ScreenBefore DEF SendReady, SendChunk
<1> QED BY <1>3, <1>4, <1>5, HostKeeps, ScreenBefore DEF SendReady, SendChunk, HostKept

LEMMA MonitorScreen ==
    ASSUME ScreenInv, MonitorTick PROVE ScreenInv'
<1>1. "monitor" \in Publisher /\ [step |-> "ready", upTo |-> produced, size |-> pane] \in Job
    BY ScreenBefore DEF Publisher, Job
<1>2. job' \in [Publisher -> Job]
    BY <1>1, ScreenBefore DEF MonitorTick
<1>3. seen' \in [last : Size, next : Size]
    BY ScreenBefore DEF MonitorTick, Size
<1> QED BY <1>2, <1>3, HostKeeps, ScreenBefore DEF MonitorTick, HostKept

LEMMA LinkScreen ==
    ASSUME ScreenInv, CutLink \/ Reannounce PROVE ScreenInv'
<1>1. CASE CutLink
  <2>1. events' \in 0..MaxEvents /\ requests' \in 0..events'
    BY <1>1, ScreenBefore, ViewerConstants DEF CutLink, Event
  <2>2. job' \in [Publisher -> Job]
    BY <1>1, Idles, ScreenBefore DEF CutLink
  <2>3. stream' \in Seq(Written)
    <3>1. PICK n \in 0..Len(stream) : stream' = SubSeq(stream, 1, n)
      BY <1>1 DEF CutLink
    <3>2. n \in Int /\ \A i \in 1..n : stream[i] \in Written
      BY ScreenBefore, ElementOfSeq, LenProperties
    <3> QED BY <3>1, <3>2, SubSeqProperties
  <2> QED BY <1>1, <2>1, <2>2, <2>3, HostKeeps, ScreenBefore DEF CutLink, HostKept
<1>2. CASE Reannounce
  <2>1. "announce" \in Publisher /\ [step |-> "chunk", upTo |-> produced, size |-> 0] \in Job
    BY ScreenBefore DEF Publisher, Job
  <2>2. job' \in [Publisher -> Job] /\ blind' \subseteq 0..MaxOutput /\ unsaid' \in BOOLEAN
    BY <1>2, <2>1, FailedTyped, ScreenBefore DEF Reannounce
  <2> QED BY <1>2, <2>2, HostKeeps, ScreenBefore DEF Reannounce, HostKept
<1> QED BY <1>1, <1>2

LEMMA OtherScreen ==
    ASSUME ScreenInv, OtherWatches PROVE ScreenInv'
<1>1. events' \in 0..MaxEvents /\ requests' \in 0..events'
    BY ScreenBefore, ViewerConstants DEF OtherWatches, Event
<1> QED BY <1>1, HostKeeps, ScreenBefore DEF OtherWatches, HostKept

\* The connection.
LEMMA WatchScreen ==
    ASSUME ScreenInv, Watch \/ WatchEnds PROVE ScreenInv'
<1>1. /\ events' \in 0..MaxEvents /\ requests' \in 0..MaxEvents /\ requests' <= events'
    BY ScreenBefore, ViewerConstants DEF Watch, WatchEnds, Event, hostVars
<1>2. stream' \in Seq(Written) /\ stream' \in Seq(Message)
    BY EmptySeq DEF Watch, WatchEnds
<1>3. FallbackIsTold' /\ Remembered'
  <2>1. CASE Watch
    BY <2>1 DEF Watch, ScreenInv, FallbackIsTold, Remembered
  <2>2. CASE WatchEnds
    BY <2>2 DEF WatchEnds, ScreenInv, FallbackIsTold, Remembered, uiVars, layoutVars
  <2> QED BY <2>1, <2>2
<1>4. /\ UNCHANGED <<produced, piped, pane, job, seen, link, screen, grid, uiMode,
                     bridgeMode, container, debounce, lastGrid, raced, blind, unsaid>>
      /\ open' \in BOOLEAN /\ pending' \in BOOLEAN /\ told' \in Nat
    BY DEF Watch, WatchEnds, hostVars, uiVars, layoutVars, ScreenInv, ViewerTypeOK
<1> QED BY <1>1, <1>2, <1>3, <1>4 DEF ScreenInv, ViewerTypeOK

LEMMA SessionScreen ==
    ASSUME ScreenInv, SetSession PROVE ScreenInv'
<1>1. events' \in 0..MaxEvents /\ requests' \in 0..MaxEvents /\ requests' <= events'
    BY ScreenBefore, ViewerConstants DEF SetSession, NewSession, Event
<1>2. stream' \in Seq(Written) /\ stream' \in Seq(Message)
    BY EmptySeq DEF SetSession
<1>3. FallbackIsTold' /\ Remembered'
    BY DEF SetSession, ScreenInv, FallbackIsTold, Remembered, layoutVars
<1>4. /\ produced' \in 0..MaxOutput /\ piped' \in 0..produced'
      /\ job' \in [Publisher -> Job]
    BY Idles, ViewerConstants DEF SetSession, NewSession
<1>5. seen' \in [last : Size, next : Size] /\ pane' \in PaneSizes
    BY DEF SetSession, NewSession, Size
<1>6. /\ UNCHANGED <<screen, pending, grid, uiMode, container, debounce, lastGrid, told>>
      /\ link' = TRUE /\ open' = FALSE /\ bridgeMode' = FALSE /\ raced' = {}
      /\ blind' = {} /\ unsaid' = FALSE
    BY DEF SetSession, NewSession, layoutVars
<1> QED BY <1>1, <1>2, <1>3, <1>4, <1>5, <1>6 DEF ScreenInv, ViewerTypeOK

LEMMA DeliverScreen ==
    ASSUME ScreenInv, Deliver PROVE ScreenInv'
<1> DEFINE m == Head(stream)
<1>1. m \in Written /\ stream' \in Seq(Written) /\ stream' \in Seq(Message)
    BY Taken, ScreenBefore, WrittenAreMessages DEF Deliver
<1>2. UNCHANGED <<hostVars, open, layoutVars, raced, blind, unsaid, events>>
    BY DEF Deliver
<1>3. /\ grid' \in Nat \ {0} /\ {uiMode', bridgeMode'} \subseteq BOOLEAN
      /\ bridgeMode' => uiMode'
      /\ uiMode' \/ UNCHANGED <<uiMode, grid>>
  <2>1. CASE m.type = "ready" /\ AdoptSize(m.n)
    <3>1. m.n \in Nat
      BY <1>1 DEF Written, Message
    <3>2. CASE m.n > 0
      <4>1. bridgeMode' = TRUE /\ uiMode' = TRUE /\ grid' = m.n
        BY <2>1, <3>2 DEF AdoptSize
      <4>2. grid' \in Nat \ {0}
        BY <3>1, <3>2, <4>1
      <4> QED BY <4>1, <4>2
    <3>3. CASE ~(m.n > 0)
      BY <2>1, <3>3 DEF AdoptSize, ScreenInv, ViewerTypeOK
    <3> QED BY <3>2, <3>3
  <2>2. CASE UNCHANGED <<grid, uiMode, bridgeMode>>
    BY <2>2 DEF ScreenInv, ViewerTypeOK
  <2> QED BY <2>1, <2>2 DEF Deliver, OnSnapshotReady
<1>4. screen' \in Seq(1..MaxOutput) /\ pending' \in BOOLEAN
  <2>1. screen \in Seq(1..MaxOutput) /\ pending \in BOOLEAN /\ MaxOutput \in Nat
    BY ViewerConstants DEF ScreenInv, ViewerTypeOK
  <2>2. CASE m.type = "ready" /\ OnSnapshotReady(m.n)
    BY <2>2, EmptySeq DEF OnSnapshotReady
  <2>3. CASE m.type = "chunk" /\ DrawSnapshot(m.n)
    <3>1. m.n \in 0..MaxOutput
      BY <1>1, <2>3 DEF Written
    <3>2. [k \in 1..m.n |-> k] \in [1..m.n -> 1..MaxOutput] /\ m.n \in Nat
      BY <2>1, <3>1
    <3>3. [k \in 1..m.n |-> k] \in Seq(1..MaxOutput)
      BY <3>2, SeqDef
    <3> QED BY <2>3, <3>3 DEF DrawSnapshot
  <2>4. CASE m.type = "output" /\ DrawOutput(m.n)
    <3>1. m.n \in 1..MaxOutput
      BY <1>1, <2>4 DEF Written
    <3> QED BY <2>1, <2>4, <3>1, Queued DEF DrawOutput
  <2> QED BY <2>2, <2>3, <2>4 DEF Deliver
<1>5. FallbackIsTold' /\ Remembered'
    BY <1>2, <1>3 DEF ScreenInv, FallbackIsTold, Remembered, layoutVars
<1> QED BY <1>1, <1>2, <1>3, <1>4, <1>5 DEF ScreenInv, ViewerTypeOK, hostVars, layoutVars

LEMMA WindowScreen ==
    ASSUME ScreenInv, Layout \/ Recompute PROVE ScreenInv'
<1>1. /\ UNCHANGED <<hostVars, open, stream, screen, pending, uiMode, bridgeMode,
                     raced, blind, unsaid>>
      /\ container' \in Containers /\ debounce' \in BOOLEAN
    BY DEF Layout, Recompute, uiVars, ScreenInv, ViewerTypeOK
<1>2. events' \in 0..MaxEvents /\ requests <= events'
    BY ScreenBefore, ViewerConstants DEF Layout, Recompute, Event
<1>3. /\ grid' \in Nat \ {0} /\ lastGrid' \in Nat \ {0} /\ told' \in Nat
      /\ FallbackIsTold' /\ Remembered'
  <2>1. CASE Layout
    BY <2>1 DEF Layout, uiVars, ScreenInv, ViewerTypeOK, FallbackIsTold, Remembered
  <2>2. CASE Recompute
    <3>1. PickGrid(container) \in Nat \ {0} /\ container' = container
      BY <2>2, Grids DEF Recompute, ScreenInv, ViewerTypeOK
    <3>2. CASE uiMode \/ PickGrid(container) = grid
      BY <2>2, <3>1, <3>2
         DEF Recompute, ScreenInv, ViewerTypeOK, FallbackIsTold, Remembered
    <3>3. CASE ~(uiMode \/ PickGrid(container) = grid)
      BY <2>2, <3>1, <3>3
         DEF Recompute, RequestResize, ScreenInv, ViewerTypeOK, FallbackIsTold, Remembered
    <3> QED BY <3>2, <3>3
  <2> QED BY <2>1, <2>2
<1> QED BY <1>1, <1>2, <1>3 DEF ScreenInv, ViewerTypeOK, hostVars

LEMMA ScreenStep == ScreenInv /\ [ViewerNext]_viewerVars => ScreenInv'
<1>1. ScreenInv /\ UNCHANGED viewerVars => ScreenInv'
    BY DEF viewerVars, hostVars, uiVars, layoutVars, ScreenInv, ViewerTypeOK,
           FallbackIsTold, Remembered
<1> QED BY <1>1, OutputScreen, ResizeScreen, WatchJobScreen, SendScreen, MonitorScreen,
           LinkScreen, OtherScreen, WatchScreen, SessionScreen, DeliverScreen, WindowScreen
        DEF ViewerNext

LEMMA ScreenHolds == ViewerSpec => []ScreenInv
    BY ScreenInit, ScreenStep, PTL DEF ViewerSpec

\* Every variable of the screen and of the publishers keeps its type; the
\* bridge knows a size only if the terminal does.
THEOREM ViewerTypes == ViewerSpec => []ViewerTypeOK
<1>1. ScreenInv => ViewerTypeOK
    BY DEF ScreenInv
<1> QED BY <1>1, ScreenHolds, PTL

\* Whatever size the window takes and however connections come and go: a
\* terminal that was never told a size has the window's, and the daemon it is
\* connected to has heard of it.
THEOREM ViewerFallback == ViewerSpec => []FallbackIsTold
<1>1. ScreenInv => FallbackIsTold
    BY DEF ScreenInv
<1> QED BY <1>1, ScreenHolds, PTL

-----------------------------------------------------------------------------
(* The screen: nothing else is lost                                        *)

\* The terminal waits for a snapshot once it has read what is before the
\* i-th message.
ShutAt(i) ==
    \/ pending /\ \A g \in 1 .. i - 1 : stream[g].type # "chunk"
    \/ \E h \in 1 .. i - 1 : /\ stream[h].type = "ready"
                             /\ \A g \in h + 1 .. i - 1 : stream[g].type # "chunk"

\* The i-th message brings output k to the screen, and a message that takes
\* it away.
Draws(i, k) ==
    \/ stream[i].type = "chunk" /\ k <= stream[i].n
    \/ stream[i].type = "output" /\ stream[i].n = k /\ ~ShutAt(i)

Clears(m, k) == m.type = "ready" \/ (m.type = "chunk" /\ m.n < k)

\* Output k will be on the screen when what is under way has been read.
WillShow(k) ==
    \/ /\ k \in ToSet(screen)
       /\ \A j \in 1 .. Len(stream) : ~Clears(stream[j], k)
    \/ \E i \in 1 .. Len(stream) :
          Draws(i, k) /\ \A j \in i + 1 .. Len(stream) : ~Clears(stream[j], k)

\* A publisher has it in a capture that is still to be sent.
Captured(k) == \E p \in Publisher : job[p].step # "idle" /\ k <= job[p].upTo

\* A capture still to be sent that does not have k was overtaken by it.
OlderIsRaced ==
    \A p \in Publisher : job[p].step # "idle" =>
        \A k \in 1 .. piped : job[p].upTo < k => k \in raced

\* The fence is shut for what comes next, and nobody is about to send the
\* snapshot that opens it.
Stranded ==
    /\ ShutAt(Len(stream) + 1)
    /\ \A p \in Publisher : job[p].step # "chunk"

\* Whoever shut the fence opens it, unless a capture failed.
FenceWillOpen == open /\ link /\ Stranded => 0 \in blind

\* While no snapshot is asked for or missing, every output that went out is
\* raced, in a capture that failed or in one still to be sent, or on its way
\* to the screen.
NoneForgotten ==
    open /\ link /\ requests = 0 /\ ~Stranded
        => \A k \in 1 .. piped :
              k \in raced \cup blind \/ Captured(k) \/ WillShow(k)

LossInv == OlderIsRaced /\ FenceWillOpen /\ NoneForgotten

\* What is under way, message by message.
LEMMA OnTheStream ==
    ASSUME ScreenInv
    PROVE  /\ Len(stream) \in Nat /\ piped \in Nat
           /\ \A i \in 1 .. Len(stream) :
                 /\ stream[i].type \in {"ready", "chunk", "output"}
                 /\ stream[i].n \in Nat
           /\ \A p \in Publisher : job[p].upTo \in Nat
<1>1. Len(stream) \in Nat /\ \A i \in 1 .. Len(stream) : stream[i] \in Written
    BY ScreenBefore, ElementOfSeq, LenProperties
<1>2. \A m \in Written : m.type \in {"ready", "chunk", "output"} /\ m.n \in Nat
    BY DEF Written, Message
<1>3. \A p \in Publisher : job[p].upTo \in Nat
    BY ScreenBefore, ViewerConstants DEF Job
<1> QED BY <1>1, <1>2, <1>3, ScreenBefore, ViewerConstants

\* A message that is sent comes last and changes nothing before it.
LEMMA SentLast ==
    ASSUME ScreenInv, NEW m \in Written, stream' = Append(stream, m),
           UNCHANGED <<screen, pending>>
    PROVE  /\ \A k \in Nat : ~Clears(m, k) /\ WillShow(k) => WillShow(k)'
           /\ \A k \in Nat : m.type = "chunk" /\ k <= m.n => WillShow(k)'
           /\ m.type = "output" /\ ~ShutAt(Len(stream) + 1) => WillShow(m.n)'
           /\ m.type = "output" =>
                 (ShutAt(Len(stream) + 1)' <=> ShutAt(Len(stream) + 1))
           /\ m.type = "chunk" => ~ShutAt(Len(stream) + 1)'
<1> DEFINE t == stream'
<1>0. PICK l \in Nat : l = Len(stream)
    BY OnTheStream
<1>1. /\ l = Len(stream) /\ Len(t) = l + 1 /\ t[l + 1] = m
      /\ \A i \in 1 .. l : t[i] = stream[i]
    BY <1>0, Queued, ScreenBefore
<1>2. ASSUME NEW i \in 1 .. l + 1 PROVE ShutAt(i)' <=> ShutAt(i)
  <2>1. \A g \in 1 .. i - 1 : t[g] = stream[g]
    BY <1>1
  <2> QED BY <1>1, <2>1 DEF ShutAt
<1>3. ASSUME NEW i \in 1 .. l, NEW k \in Nat PROVE Draws(i, k)' <=> Draws(i, k)
    BY <1>1, <1>2 DEF Draws
<1>4. ASSUME NEW k \in Nat, ~Clears(m, k), WillShow(k) PROVE WillShow(k)'
  <2>1. CASE k \in ToSet(screen) /\ \A j \in 1 .. l : ~Clears(stream[j], k)
    <3>1. \A j \in 1 .. l + 1 : ~Clears(t[j], k)
      BY <1>1, <1>4, <2>1
    <3> QED BY <1>1, <2>1, <3>1 DEF WillShow
  <2>2. ASSUME NEW i \in 1 .. l, Draws(i, k),
               \A j \in i + 1 .. l : ~Clears(stream[j], k)
        PROVE  WillShow(k)'
    <3>1. \A j \in i + 1 .. l + 1 : ~Clears(t[j], k)
      BY <1>1, <1>4, <2>2
    <3>2. i \in 1 .. Len(t) /\ Draws(i, k)'
      BY <1>1, <1>3, <2>2
    <3> QED BY <1>1, <3>1, <3>2 DEF WillShow
  <2> QED BY <1>1, <1>4, <2>1, <2>2 DEF WillShow
<1>5. ASSUME NEW k \in Nat, Draws(l + 1, k)' PROVE WillShow(k)'
  <2>1. l + 1 \in 1 .. Len(t) /\ (l + 1) + 1 .. Len(t) = {}
    BY <1>1
  <2> QED BY <1>1, <1>5, <2>1 DEF WillShow
<1>6. ASSUME NEW k \in Nat, m.type = "chunk", k <= m.n PROVE WillShow(k)'
    BY <1>1, <1>5, <1>6 DEF Draws
<1>7. ASSUME m.type = "output", ~ShutAt(l + 1) PROVE WillShow(m.n)'
  <2>1. m.n \in Nat
    BY DEF Written, Message
  <2>2. ~ShutAt(l + 1)'
    BY <1>1, <1>2, <1>7
  <2> QED BY <1>1, <1>5, <1>7, <2>1, <2>2 DEF Draws
<1>8. ASSUME m.type # "ready", ShutAt(l + 2)' PROVE m.type # "chunk" /\ ShutAt(l + 1)
    BY <1>1, <1>8 DEF ShutAt
<1>9. ASSUME m.type = "output", ShutAt(l + 1) PROVE ShutAt(l + 2)'
  <2>1. (l + 1) - 1 = l /\ (l + 2) - 1 = l + 1
    OBVIOUS
  <2>2. ShutAt(l + 2)' =
           \/ pending' /\ \A g \in 1 .. l + 1 : t[g].type # "chunk"
           \/ \E h \in 1 .. l + 1 : /\ t[h].type = "ready"
                                    /\ \A g \in h + 1 .. l + 1 : t[g].type # "chunk"
    BY <2>1 DEF ShutAt
  <2>3. CASE pending /\ \A g \in 1 .. l : stream[g].type # "chunk"
    <3>1. pending' /\ \A g \in 1 .. l + 1 : t[g].type # "chunk"
      BY <1>1, <1>9, <2>3
    <3> QED BY <2>2, <3>1
  <2>4. ASSUME NEW h \in 1 .. l, stream[h].type = "ready",
               \A g \in h + 1 .. l : stream[g].type # "chunk"
        PROVE  ShutAt(l + 2)'
    <3>1. \A g \in h + 1 .. l + 1 : t[g].type # "chunk"
      BY <1>1, <1>9, <2>4
    <3>2. h \in 1 .. l + 1 /\ t[h].type = "ready"
      BY <1>1, <2>4
    <3> QED BY <2>2, <3>1, <3>2
  <2>5. \/ pending /\ \A g \in 1 .. l : stream[g].type # "chunk"
        \/ \E h \in 1 .. l : /\ stream[h].type = "ready"
                             /\ \A g \in h + 1 .. l : stream[g].type # "chunk"
    BY <1>9, <2>1 DEF ShutAt
  <2> QED BY <2>3, <2>4, <2>5
<1> QED BY <1>1, <1>4, <1>6, <1>7, <1>8, <1>9

\* A message that is read moves the others up, and does to the screen what
\* was expected of it.
LEMMA ReadFirst ==
    ASSUME ScreenInv, Deliver
    PROVE  /\ \A k \in Nat \ {0} : WillShow(k) => WillShow(k)'
           /\ ShutAt(Len(stream) + 1)' <=> ShutAt(Len(stream) + 1)
<1> DEFINE t == stream'
<1>0. PICK l \in Nat : l = Len(stream)
    BY OnTheStream
<1>1. /\ l = Len(stream) /\ l >= 1 /\ Len(t) = l - 1
      /\ \A i \in 1 .. l - 1 : t[i] = stream[i + 1]
      /\ Head(stream) = stream[1]
    BY <1>0, Taken, ScreenBefore DEF Deliver
<1> DEFINE m == stream[1]
<1>2. /\ m.type = "ready" => pending' = TRUE
      /\ m.type = "chunk" =>
            pending' = FALSE /\ \A k \in 1 .. m.n : k \in ToSet(screen')
      /\ m.type = "output" =>
            /\ pending' = pending
            /\ ToSet(screen) \subseteq ToSet(screen')
            /\ ~pending => m.n \in ToSet(screen')
  <2>1. m.n \in Nat /\ m.type \in {"ready", "chunk", "output"}
    BY <1>1, OnTheStream
  <2>2. CASE m.type = "ready"
    BY <1>1, <2>2 DEF Deliver, OnSnapshotReady
  <2>3. CASE m.type = "chunk"
    <3>1. screen' = [k \in 1 .. m.n |-> k] /\ pending' = FALSE
      BY <1>1, <2>3 DEF Deliver, DrawSnapshot
    <3> QED BY <2>1, <2>3, <3>1 DEF ToSet
  <2>4. CASE m.type = "output"
    <3>1. /\ screen' = IF pending THEN screen ELSE Append(screen, m.n)
          /\ pending' = pending
      BY <1>1, <2>4 DEF Deliver, DrawOutput
    <3>2. ~pending => ToSet(screen) \cup {m.n} \subseteq ToSet(screen')
      <4>1. screen \in Seq(1 .. MaxOutput) /\ m.n \in 1 .. MaxOutput
        BY <1>1, <2>4, ScreenBefore, Taken
           DEF ScreenInv, ViewerTypeOK, Written, Deliver
      <4>2. /\ Len(Append(screen, m.n)) = Len(screen) + 1 /\ Len(screen) \in Nat
            /\ \A i \in 1 .. Len(screen) : Append(screen, m.n)[i] = screen[i]
            /\ Append(screen, m.n)[Len(screen) + 1] = m.n
            /\ DOMAIN screen = 1 .. Len(screen)
            /\ DOMAIN Append(screen, m.n) = 1 .. Len(screen) + 1
        BY <4>1
      <4> QED BY <3>1, <4>2 DEF ToSet
    <3> QED BY <2>4, <3>1, <3>2
  <2> QED BY <2>1, <2>2, <2>3, <2>4
<1> HIDE DEF m
<1>3. ASSUME NEW i \in 1 .. l, ShutAt(i)' PROVE ShutAt(i + 1)
  <2>1. \A g \in 1 .. i - 1 : t[g] = stream[g + 1]
    BY <1>1
  <2>2. CASE pending' /\ \A g \in 1 .. i - 1 : t[g].type # "chunk"
    <3>1. \A g \in 2 .. i : stream[g].type # "chunk"
      BY <2>1, <2>2
    <3>2. m.type # "chunk" /\ m = stream[1]
      BY <1>2, <2>2 DEF m
    <3>4. m.type \in {"ready", "chunk", "output"}
      BY <1>1, OnTheStream DEF m
    <3>3. m.type = "ready" \/ pending
      BY <1>2, <2>2, <3>2, <3>4
    <3> QED BY <3>1, <3>2, <3>3 DEF ShutAt
  <2>3. ASSUME NEW h \in 1 .. i - 1, t[h].type = "ready",
               \A g \in h + 1 .. i - 1 : t[g].type # "chunk"
        PROVE  ShutAt(i + 1)
    <3>1. h + 1 \in 1 .. i /\ stream[h + 1].type = "ready"
      BY <2>1, <2>3
    <3>2. \A g \in (h + 1) + 1 .. i : stream[g].type # "chunk"
      BY <2>1, <2>3
    <3> QED BY <3>1, <3>2 DEF ShutAt
  <2> QED BY <1>3, <2>2, <2>3 DEF ShutAt
<1>4. ASSUME NEW k \in Nat, NEW i \in 1 .. l - 1, Draws(i + 1, k)
      PROVE  Draws(i, k)'
    BY <1>1, <1>3, <1>4 DEF Draws
<1>5. ASSUME NEW k \in Nat \ {0}, WillShow(k) PROVE WillShow(k)'
  <2>1. CASE k \in ToSet(screen) /\ \A j \in 1 .. l : ~Clears(stream[j], k)
    <3>1. \A j \in 1 .. l - 1 : ~Clears(t[j], k)
      BY <1>1, <2>1
    <3>2. k \in ToSet(screen')
      <4>1. ~Clears(m, k) /\ m.n \in Nat /\ m.type \in {"ready", "chunk", "output"}
        BY <1>1, <2>1, OnTheStream DEF m
      <4> QED BY <1>2, <2>1, <4>1 DEF Clears
    <3> QED BY <1>1, <3>1, <3>2 DEF WillShow
  <2>2. ASSUME Draws(1, k), \A j \in 1 + 1 .. l : ~Clears(stream[j], k)
        PROVE  WillShow(k)'
    <3>1. \A j \in 1 .. l - 1 : ~Clears(t[j], k)
      BY <1>1, <2>2
    <3>2. ~ShutAt(1) => ~pending
      BY DEF ShutAt
    <3>3. k \in ToSet(screen')
      BY <1>2, <2>2, <3>2 DEF Draws, m
    <3> QED BY <1>1, <3>1, <3>3 DEF WillShow
  <2>3. ASSUME NEW i \in 2 .. l, Draws(i, k), \A j \in i + 1 .. l : ~Clears(stream[j], k)
        PROVE  WillShow(k)'
    <3>1. PICK h \in 1 .. l - 1 : h + 1 = i
      BY <2>3
    <3>2. Draws(h, k)' /\ h \in 1 .. Len(t)
      BY <1>1, <1>4, <2>3, <3>1
    <3>3. \A j \in h + 1 .. l - 1 : ~Clears(t[j], k)
      BY <1>1, <2>3, <3>1
    <3> QED BY <1>1, <3>2, <3>3 DEF WillShow
  <2>4. \A i \in 1 .. l : i = 1 \/ i \in 2 .. l
    OBVIOUS
  <2> QED BY <1>1, <1>5, <2>1, <2>2, <2>3, <2>4 DEF WillShow
<1>6. ASSUME ShutAt(l)' PROVE ShutAt(l + 1)
    BY <1>1, <1>3, <1>6
<1>7. ASSUME ShutAt(l + 1) PROVE ShutAt(l)'
  <2>1. m.type \in {"ready", "chunk", "output"} /\ m = stream[1]
    BY <1>1, OnTheStream DEF m
  <2>2. CASE \/ pending /\ \A g \in 1 .. l : stream[g].type # "chunk"
             \/ m.type = "ready" /\ \A g \in 2 .. l : stream[g].type # "chunk"
    <3>1. pending'
      BY <1>1, <1>2, <2>1, <2>2
    <3>2. \A g \in 1 .. l - 1 : t[g].type # "chunk"
      BY <1>1, <2>2
    <3> QED BY <3>1, <3>2 DEF ShutAt
  <2>3. ASSUME NEW h \in 2 .. l, stream[h].type = "ready",
               \A g \in h + 1 .. l : stream[g].type # "chunk"
        PROVE  ShutAt(l)'
    <3>1. h - 1 \in 1 .. l - 1 /\ t[h - 1].type = "ready"
      BY <1>1, <2>3
    <3>2. \A g \in (h - 1) + 1 .. l - 1 : t[g].type # "chunk"
      BY <1>1, <2>3
    <3> QED BY <3>1, <3>2 DEF ShutAt
  <2>4. \A h \in 1 .. l : h = 1 \/ h \in 2 .. l
    OBVIOUS
  <2>5. \/ pending /\ \A g \in 1 .. l : stream[g].type # "chunk"
        \/ \E h \in 1 .. l : /\ stream[h].type = "ready"
                             /\ \A g \in h + 1 .. l : stream[g].type # "chunk"
    <3>1. (l + 1) - 1 = l
      OBVIOUS
    <3> QED BY <1>7, <3>1 DEF ShutAt
  <2>6. CASE \E h \in 1 .. l : /\ stream[h].type = "ready"
                              /\ \A g \in h + 1 .. l : stream[g].type # "chunk"
    <3>1. PICK h \in 1 .. l : /\ stream[h].type = "ready"
                              /\ \A g \in h + 1 .. l : stream[g].type # "chunk"
      BY <2>6
    <3>2. CASE h = 1
      <4>1. 1 + 1 .. l = 2 .. l
        OBVIOUS
      <4> QED BY <2>1, <2>2, <3>1, <3>2, <4>1
    <3> QED BY <2>3, <2>4, <3>1, <3>2
  <2> QED BY <2>2, <2>5, <2>6
<1> QED BY <1>1, <1>5, <1>6, <1>7

LEMMA LossInit == ViewerInit => LossInv
<1> SUFFICES ASSUME ViewerInit PROVE LossInv
    OBVIOUS
<1>1. open = FALSE /\ \A p \in Publisher : job[p].step = "idle"
    BY DEF ViewerInit, Idle
<1> QED BY <1>1 DEF LossInv, OlderIsRaced, FenceWillOpen, NoneForgotten

\* Nobody captures, sends or reads.
LEMMA QuietLoss ==
    ASSUME LossInv, requests' = 0 => requests = 0,
           UNCHANGED <<stream, screen, pending, job, piped, open, link, raced, blind>>
    PROVE  LossInv'
    BY DEF LossInv, OlderIsRaced, FenceWillOpen, NoneForgotten, Stranded, ShutAt,
           Draws, WillShow, Captured

\* Captures only begin, and a new one has everything that went out.
CapturesBegin ==
    \A p \in Publisher :
        /\ job[p].step # "idle" =>
              job'[p].step # "idle" /\ job'[p].upTo = job[p].upTo
        /\ job[p].step = "idle" /\ job'[p].step # "idle" => piped <= job'[p].upTo
        /\ job[p].step = "chunk" <=> job'[p].step = "chunk"

LEMMA BeginLoss ==
    ASSUME ScreenInv, LossInv, CapturesBegin,
           \/ requests' = requests
           \/ \E p \in Publisher : job'[p].step # "idle" /\ piped <= job'[p].upTo,
           \A p \in Publisher : job'[p].upTo \in Nat,
           UNCHANGED <<stream, screen, pending, piped, open, link, raced, blind>>
    PROVE  LossInv'
<1>1. piped \in Nat /\ \A p \in Publisher : job[p].upTo \in Nat
    BY OnTheStream
<1>2. OlderIsRaced'
  <2> SUFFICES ASSUME NEW p \in Publisher, job'[p].step # "idle",
                      NEW k \in 1 .. piped, job'[p].upTo < k
               PROVE  k \in raced
    BY DEF OlderIsRaced
  <2>1. job[p].step # "idle" /\ job[p].upTo < k
    BY <1>1 DEF CapturesBegin
  <2> QED BY <2>1 DEF LossInv, OlderIsRaced
<1>3. (Stranded' <=> Stranded) /\ FenceWillOpen'
  <2>1. Stranded' <=> Stranded
    BY DEF Stranded, ShutAt, CapturesBegin
  <2> QED BY <2>1 DEF LossInv, FenceWillOpen
<1>4. NoneForgotten'
  <2>1. \A k \in 1 .. piped : Captured(k) => Captured(k)'
    BY DEF Captured, CapturesBegin
  <2>2. \A k \in 1 .. piped : WillShow(k) => WillShow(k)'
    BY DEF WillShow, Draws, ShutAt
  <2>3. ASSUME NEW p \in Publisher, job'[p].step # "idle", piped <= job'[p].upTo,
               NEW k \in 1 .. piped
        PROVE  Captured(k)'
    <3>1. k <= job'[p].upTo
      BY <1>1, <2>3
    <3> QED BY <2>3, <3>1 DEF Captured
  <2> QED BY <1>3, <2>1, <2>2, <2>3 DEF LossInv, NoneForgotten
<1> QED BY <1>2, <1>3, <1>4 DEF LossInv

LEMMA PublishLoss ==
    ASSUME ScreenInv, LossInv, PublishOutput PROVE LossInv'
<1>0. PICK n \in 1 .. MaxOutput : n = piped'
    BY ScreenBefore, ViewerConstants DEF PublishOutput
<1>1. piped' = n /\ n = piped + 1 /\ piped \in Nat
    BY <1>0, ScreenBefore, ViewerConstants DEF PublishOutput
<1>2. UNCHANGED <<job, link, requests, open, screen, pending, blind>>
    BY DEF PublishOutput, uiVars
<1>3. raced \subseteq raced' /\ (StaleCapture(n) => n \in raced')
    BY <1>1 DEF PublishOutput
<1>4. \A p \in Publisher : job[p].upTo \in Nat
    BY OnTheStream
<1>5. OlderIsRaced'
  <2> SUFFICES ASSUME NEW p \in Publisher, job[p].step # "idle",
                      NEW k \in 1 .. n, job[p].upTo < k
               PROVE  k \in raced'
    BY <1>1, <1>2 DEF OlderIsRaced
  <2>1. CASE k = n
    BY <1>3, <2>1 DEF StaleCapture
  <2>2. CASE k # n
    <3>1. k \in 1 .. piped
      BY <1>1, <2>2
    <3> QED BY <1>3, <3>1 DEF LossInv, OlderIsRaced
  <2> QED BY <2>1, <2>2
<1>6. CASE open /\ link
  <2>1. PICK m \in Written : m = OnWire("output", n)
    BY <1>0, WrittenMessages
  <2>2. /\ stream' = Append(stream, m) /\ m.type = "output" /\ m.n = n
        /\ \A k \in Nat : ~Clears(m, k)
    BY <1>1, <1>6, <2>1 DEF PublishOutput, ToWatchers, OnWire, Clears
  <2>3. /\ \A k \in Nat : WillShow(k) => WillShow(k)'
        /\ ~ShutAt(Len(stream) + 1) => WillShow(m.n)'
        /\ Stranded' <=> Stranded
    BY <1>2, <2>2, SentLast DEF Stranded
  <2>4. FenceWillOpen'
    BY <1>2, <1>6, <2>3 DEF LossInv, FenceWillOpen
  <2>5. ASSUME requests = 0, ~Stranded, NEW k \in 1 .. piped, k \notin raced' \cup blind
        PROVE  Captured(k)' \/ WillShow(k)'
    <3>1. Captured(k) \/ WillShow(k)
      BY <1>1, <1>3, <1>6, <2>5 DEF LossInv, NoneForgotten
    <3> QED BY <1>2, <2>3, <3>1 DEF Captured
  <2>6. ASSUME ~Stranded, n \notin raced' PROVE Captured(n)' \/ WillShow(n)'
    <3>1. CASE \E p \in Publisher : job[p].step # "idle"
      <4>1. PICK p \in Publisher : job[p].step # "idle"
        BY <3>1
      <4>2. n <= job[p].upTo
        BY <1>1, <1>3, <1>4, <2>6, <4>1 DEF StaleCapture
      <4>3. Captured(n)
        BY <4>1, <4>2 DEF Captured
      <4> QED BY <1>2, <4>1, <4>2 DEF Captured
    <3>2. CASE ~\E p \in Publisher : job[p].step # "idle"
      <4>1. ~ShutAt(Len(stream) + 1)
        BY <2>6, <3>2 DEF Stranded
      <4>2. WillShow(m.n)'
        BY <2>3, <4>1
      <4> QED BY <2>2, <4>2
    <3> QED BY <3>1, <3>2
  <2>7. NoneForgotten'
    BY <1>1, <1>2, <2>3, <2>5, <2>6 DEF NoneForgotten
  <2> QED BY <1>5, <2>4, <2>7 DEF LossInv
<1>7. CASE ~(open /\ link)
    BY <1>2, <1>5, <1>7 DEF LossInv, FenceWillOpen, NoneForgotten
<1> QED BY <1>6, <1>7

\* Where a capture fails nothing is forgotten: it is noted.
LEMMA FailedLoss ==
    ASSUME ScreenInv, LossInv, CaptureFails,
           UNCHANGED <<stream, screen, pending, piped, open, raced>>
    PROVE  LossInv'
<1>1. /\ job' = job /\ 0 \in blind'
      /\ \A k \in 1 .. piped : k \in blind'
    BY ScreenBefore, ViewerConstants DEF CaptureFails
<1> QED BY <1>1 DEF LossInv, OlderIsRaced, FenceWillOpen, NoneForgotten

\* The capture of a watch, its size, and the capture of a new size.
LEMMA CaptureLoss ==
    ASSUME ScreenInv, LossInv, SnapshotRequest \/ QuerySize \/ MonitorTick
    PROVE  LossInv'
<1>1. /\ UNCHANGED <<stream, screen, pending, piped, open, link, raced>>
      /\ job \in [Publisher -> Job] /\ piped <= produced
      /\ produced \in Nat
      /\ {"watch", "monitor"} \subseteq Publisher
    BY ScreenBefore, ViewerConstants
       DEF SnapshotRequest, QuerySize, MonitorTick, uiVars, Publisher
<1>2. \A p \in Publisher : job'[p].upTo \in Nat
  <2>1. ScreenInv'
    BY WatchJobScreen, MonitorScreen
  <2>2. job' \in [Publisher -> Job]
    BY <2>1 DEF ScreenInv, ViewerTypeOK
  <2> QED BY <2>2, ViewerConstants DEF Job
<1>3. CASE SnapshotRequest /\ ~CaptureFails
  <2>1. /\ job["watch"].step = "idle" /\ blind' = blind
        /\ job'["watch"].step = "size" /\ job'["watch"].upTo = produced
        /\ \A p \in Publisher \ {"watch"} : job'[p] = job[p]
    <3> DEFINE new == [Idle EXCEPT !.step = "size", !.upTo = produced]
    <3>1. /\ job["watch"] = Idle /\ blind' = blind
          /\ job' = [job EXCEPT !["watch"] = new]
      BY <1>3 DEF SnapshotRequest
    <3>2. Idle.step = "idle" /\ new.step = "size" /\ new.upTo = produced
      BY DEF Idle
    <3> QED BY <1>1, <3>1, <3>2
  <2>2. CapturesBegin
    BY <1>1, <2>1 DEF CapturesBegin
  <2> QED BY <1>1, <1>2, <2>1, <2>2, BeginLoss
<1>4. CASE QuerySize
  <2>1. /\ job["watch"].step = "size"
        /\ job'["watch"].step = "ready" /\ job'["watch"].upTo = job["watch"].upTo
        /\ \A p \in Publisher \ {"watch"} : job'[p] = job[p]
    BY <1>1, <1>4 DEF QuerySize, Job
  <2>2. CapturesBegin
    BY <2>1 DEF CapturesBegin
  <2>3. requests' = requests /\ blind' = blind
    BY <1>4 DEF QuerySize
  <2> QED BY <1>1, <1>2, <2>2, <2>3, BeginLoss
<1>5. CASE MonitorTick
  <2>1. /\ job["monitor"].step = "idle" /\ requests' = requests /\ blind' = blind
        /\ \/ job' = job
           \/ /\ job'["monitor"].step = "ready" /\ job'["monitor"].upTo = produced
              /\ \A p \in Publisher \ {"monitor"} : job'[p] = job[p]
    BY <1>1, <1>5 DEF MonitorTick, Idle
  <2>2. CapturesBegin
    BY <1>1, <2>1 DEF CapturesBegin
  <2> QED BY <1>1, <1>2, <2>1, <2>2, BeginLoss
<1>6. CASE SnapshotRequest /\ CaptureFails
    BY <1>1, <1>6, FailedLoss
<1> QED BY <1>3, <1>4, <1>5, <1>6

\* A size that is sent shuts the fence; its publisher holds everything that
\* it may hide, or what it hides is raced.
LEMMA ReadyLoss ==
    ASSUME ScreenInv, LossInv, NEW p \in Publisher, SendReady(p) PROVE LossInv'
<1>1. /\ UNCHANGED <<piped, requests, open, link, raced, blind, screen, pending>>
      /\ job[p].step = "ready" /\ job \in [Publisher -> Job]
    BY ScreenBefore DEF SendReady, uiVars
<1>2. \A q \in Publisher : job[q].upTo \in Nat
    BY OnTheStream
<1>3. CASE ~link
  <2>1. \A q \in Publisher : job'[q].step # "idle" => job'[q] = job[q]
    BY <1>1, <1>3 DEF SendReady, Idle
  <2> QED BY <1>1, <1>3, <2>1 DEF LossInv, OlderIsRaced, FenceWillOpen, NoneForgotten
<1>4. CASE link
  <2>1. /\ job' = [job EXCEPT ![p].step = "chunk"]
        /\ ToWatchers(OnWire("ready", job[p].size))
    BY <1>4 DEF SendReady
  <2>2. /\ job'[p].step = "chunk" /\ job'[p].upTo = job[p].upTo
        /\ \A q \in Publisher \ {p} : job'[q] = job[q]
    BY <1>1, <2>1 DEF Job
  <2>3. OlderIsRaced'
    BY <1>1, <2>2 DEF LossInv, OlderIsRaced
  <2>4. FenceWillOpen'
    BY <2>2 DEF FenceWillOpen, Stranded
  <2>5. ASSUME open, requests = 0, NEW k \in 1 .. piped, k \notin raced
        PROVE  Captured(k)'
    <3>1. k <= job[p].upTo
      BY <1>1, <1>2, <2>5 DEF LossInv, OlderIsRaced
    <3> QED BY <2>2, <3>1 DEF Captured
  <2>6. NoneForgotten'
    BY <1>1, <2>5 DEF NoneForgotten
  <2> QED BY <2>3, <2>4, <2>6 DEF LossInv
<1> QED BY <1>3, <1>4

\* A snapshot that is sent opens the fence and shows what its capture has.
LEMMA ChunkLoss ==
    ASSUME ScreenInv, LossInv, NEW p \in Publisher, SendChunk(p) PROVE LossInv'
<1>1. /\ UNCHANGED <<piped, requests, open, link, raced, screen, pending>>
      /\ job[p].step = "chunk" /\ job \in [Publisher -> Job]
      /\ job' = [job EXCEPT ![p] = Idle]
    BY ScreenBefore DEF SendChunk, uiVars
<1>2. job[p].upTo \in 0 .. MaxOutput /\ piped \in Nat
    BY <1>1, OnTheStream DEF Job
<1>3. \A q \in Publisher : job'[q].step # "idle" => job'[q] = job[q]
    BY <1>1 DEF Idle
<1>4. OlderIsRaced'
    BY <1>1, <1>3 DEF LossInv, OlderIsRaced
<1>5. CASE open
  <2>1. PICK m \in Written : m = OnWire("chunk", job[p].upTo)
    BY <1>2, WrittenMessages
  <2>2. m.type = "chunk" /\ m.n = job[p].upTo /\ stream' = Append(stream, m)
    BY <1>5, <2>1 DEF SendChunk, ToWatchers, OnWire
  <2>3. /\ \A k \in Nat : k <= m.n => WillShow(k)'
        /\ ~ShutAt(Len(stream) + 1)'
    BY <1>1, <2>2, SentLast
  <2>4. FenceWillOpen'
    BY <2>3 DEF FenceWillOpen, Stranded
  <2>5. ASSUME NEW k \in 1 .. piped, k \notin raced PROVE WillShow(k)'
    <3>1. k <= job[p].upTo /\ k \in Nat
      BY <1>1, <1>2, <2>5 DEF LossInv, OlderIsRaced
    <3> QED BY <2>2, <2>3, <3>1
  <2>6. NoneForgotten'
    BY <1>1, <2>5 DEF NoneForgotten
  <2> QED BY <1>4, <2>4, <2>6 DEF LossInv
<1>6. CASE ~open
    BY <1>1, <1>4, <1>6 DEF LossInv, FenceWillOpen, NoneForgotten
<1> QED BY <1>5, <1>6

\* What is lost with a link comes again with the next announcement, or its
\* capture fails.
LEMMA LinkLoss ==
    ASSUME ScreenInv, LossInv, CutLink \/ Reannounce PROVE LossInv'
<1>1. UNCHANGED <<piped, open, raced>> /\ job \in [Publisher -> Job]
    BY ScreenBefore DEF CutLink, Reannounce
<1>2. CASE CutLink
  <2>1. link' = FALSE
    BY <1>2 DEF CutLink
  <2>2. \A p \in Publisher : job'[p].step # "idle" => job'[p] = job[p]
    BY <1>2 DEF CutLink, Idle
  <2> QED BY <1>1, <2>1, <2>2 DEF LossInv, OlderIsRaced, FenceWillOpen, NoneForgotten
<1>3. CASE Reannounce /\ ~CaptureFails
  <2>1. /\ "announce" \in Publisher
        /\ job'["announce"].step = "chunk" /\ job'["announce"].upTo = produced
        /\ \A p \in Publisher \ {"announce"} : job'[p] = job[p]
    BY <1>1, <1>3 DEF Reannounce, Publisher
  <2>2. \A k \in 1 .. piped : k <= produced /\ ~(produced < k)
    BY ScreenBefore, ViewerConstants
  <2>3. OlderIsRaced'
    BY <1>1, <2>1, <2>2 DEF LossInv, OlderIsRaced
  <2>4. FenceWillOpen'
    BY <2>1 DEF FenceWillOpen, Stranded
  <2>5. NoneForgotten'
    BY <1>1, <2>1, <2>2 DEF NoneForgotten, Captured
  <2> QED BY <2>3, <2>4, <2>5 DEF LossInv
<1>4. CASE Reannounce /\ CaptureFails
    BY <1>4, FailedLoss DEF Reannounce, uiVars
<1> QED BY <1>2, <1>3, <1>4

LEMMA ConnectionLoss ==
    ASSUME ScreenInv, LossInv, Watch \/ WatchEnds \/ SetSession PROVE LossInv'
<1>1. CASE Watch
  <2>1. /\ UNCHANGED <<piped, job, raced>> /\ requests' = requests + 1
        /\ requests \in Nat /\ pending' = FALSE /\ stream' = <<>>
    BY <1>1, ScreenBefore, ViewerConstants DEF Watch
  <2>2. Len(stream') = 0
    BY <2>1
  <2>3. ~ShutAt(Len(stream) + 1)'
    BY <2>1, <2>2 DEF ShutAt
  <2>4. requests' # 0
    BY <2>1
  <2> QED BY <2>1, <2>3, <2>4
          DEF LossInv, OlderIsRaced, FenceWillOpen, NoneForgotten, Stranded
<1>2. CASE WatchEnds
    BY <1>2 DEF WatchEnds, hostVars, LossInv, OlderIsRaced, FenceWillOpen, NoneForgotten
<1>3. CASE SetSession
  <2>1. open' = FALSE /\ \A p \in Publisher : job'[p].step = "idle"
    BY <1>3 DEF SetSession, NewSession, Idle
  <2> QED BY <2>1 DEF LossInv, OlderIsRaced, FenceWillOpen, NoneForgotten
<1> QED BY <1>1, <1>2, <1>3

LEMMA DeliverLoss ==
    ASSUME ScreenInv, LossInv, Deliver PROVE LossInv'
<1>1. UNCHANGED <<piped, job, requests, open, link, raced, blind>> /\ piped \in Nat
    BY OnTheStream DEF Deliver, hostVars
<1>2. /\ \A k \in 1 .. piped : WillShow(k) => WillShow(k)'
      /\ Stranded' <=> Stranded
    BY <1>1, ReadFirst DEF Stranded
<1> QED BY <1>1, <1>2 DEF LossInv, OlderIsRaced, FenceWillOpen, NoneForgotten, Captured

LEMMA OtherLoss ==
    ASSUME ScreenInv, LossInv,
           \/ PaneWrites \/ HostResizes \/ OtherWatches \/ Layout \/ Recompute
           \/ UNCHANGED viewerVars
    PROVE  LossInv'
<1>1. /\ UNCHANGED <<stream, screen, pending, job, piped, open, link, raced, blind>>
      /\ requests' = requests \/ requests' = requests + 1
    BY DEF PaneWrites, HostResizes, OtherWatches, Layout, Recompute, viewerVars,
           hostVars, uiVars
<1>2. requests' = 0 => requests = 0
    BY <1>1, ScreenBefore, ViewerConstants
<1> QED BY <1>1, <1>2, QuietLoss

LEMMA LossStep == ScreenInv /\ LossInv /\ [ViewerNext]_viewerVars => LossInv'
    BY PublishLoss, CaptureLoss, ReadyLoss, ChunkLoss, LinkLoss, ConnectionLoss,
       DeliverLoss, OtherLoss DEF ViewerNext

\* However often connections and links are lost, watches start and several
\* publishers send their snapshots: an output that is missing from a screen
\* that has read everything went out while an older capture was still to be
\* sent, or the capture that was to bring it failed; and only such a failure
\* leaves the screen behind its fence.
THEOREM ViewerLoss == ViewerSpec => []NothingElseLost
<1>1. ScreenInv /\ LossInv => NothingElseLost
  <2> SUFFICES ASSUME ScreenInv, LossInv, AllDrawn
               PROVE  IF pending THEN 0 \in blind
                      ELSE \A k \in 1 .. produced : k \in ToSet(screen) \cup raced \cup blind
    BY DEF NothingElseLost
  <2>1. /\ open /\ link /\ requests = 0 /\ piped = produced /\ Len(stream) = 0
        /\ \A p \in Publisher : job[p].step = "idle"
    BY DEF AllDrawn, Idle
  <2>2. CASE pending
    <3>1. Stranded
      BY <2>1, <2>2 DEF Stranded, ShutAt
    <3> QED BY <2>1, <2>2, <3>1 DEF LossInv, FenceWillOpen
  <2>3. CASE ~pending
    <3>1. ~Stranded
      BY <2>1, <2>3 DEF Stranded, ShutAt
    <3>2. \A k \in 1 .. produced : k \in raced \cup blind \/ Captured(k) \/ WillShow(k)
      BY <2>1, <3>1 DEF LossInv, NoneForgotten
    <3>3. \A k \in 1 .. produced : ~Captured(k)
      BY <2>1 DEF Captured
    <3>4. \A k \in 1 .. produced : WillShow(k) => k \in ToSet(screen)
      BY <2>1 DEF WillShow
    <3> QED BY <2>3, <3>2, <3>3, <3>4
  <2> QED BY <2>2, <2>3
<1>2. ViewerSpec => []LossInv
    BY ScreenHolds, LossInit, LossStep, PTL DEF ViewerSpec
<1> QED BY <1>1, <1>2, ScreenHolds, PTL

-----------------------------------------------------------------------------
(* The screen: its grid follows the pane                                   *)

Resizes(m) == m.type = "ready" /\ m.n \notin {0, pane}

\* The grid will be the pane's when what is under way has been read.
WillFit ==
    \/ uiMode /\ grid = pane /\ \A j \in 1 .. Len(stream) : ~Resizes(stream[j])
    \/ \E i \in 1 .. Len(stream) :
          /\ stream[i].type = "ready" /\ stream[i].n = pane
          /\ \A j \in i + 1 .. Len(stream) : ~Resizes(stream[j])

\* A publisher is about to say the size.
SizeComes ==
    job["watch"].step = "size" \/ \E p \in Publisher : job[p].step = "ready"

\* When the monitor has seen the pane's size, it is on its way to the viewers,
\* unless it is unsaid.
SizeKnown ==
    /\ ~link => unsaid
    /\ open /\ link /\ requests = 0 /\ ~unsaid /\ seen.last = pane
         => SizeComes \/ WillFit

LEMMA SentFits ==
    ASSUME ScreenInv, NEW m \in Written, stream' = Append(stream, m),
           UNCHANGED <<pane, uiMode, grid>>
    PROVE  /\ ~Resizes(m) /\ WillFit => WillFit'
           /\ m.type = "ready" /\ m.n = pane => WillFit'
<1> DEFINE t == stream'
<1>0. PICK l \in Nat : l = Len(stream)
    BY OnTheStream
<1>1. /\ l = Len(stream) /\ Len(t) = l + 1 /\ t[l + 1] = m
      /\ \A i \in 1 .. l : t[i] = stream[i]
    BY <1>0, Queued, ScreenBefore
<1>2. pane' = pane
    OBVIOUS
<1>3. ASSUME ~Resizes(m), WillFit PROVE WillFit'
  <2>1. CASE uiMode /\ grid = pane /\ \A j \in 1 .. l : ~Resizes(stream[j])
    <3>1. \A j \in 1 .. l + 1 : ~Resizes(stream[j])'
      BY <1>1, <1>2, <1>3, <2>1 DEF Resizes
    <3> QED BY <1>1, <2>1, <3>1 DEF WillFit
  <2>2. ASSUME NEW i \in 1 .. l, stream[i].type = "ready", stream[i].n = pane,
               \A j \in i + 1 .. l : ~Resizes(stream[j])
        PROVE  WillFit'
    <3>1. \A j \in i + 1 .. l + 1 : ~Resizes(stream[j])'
      BY <1>1, <1>2, <1>3, <2>2 DEF Resizes
    <3>2. i \in 1 .. l + 1 /\ t[i].type = "ready" /\ t[i].n = pane
      BY <1>1, <2>2
    <3> QED BY <1>1, <3>1, <3>2 DEF WillFit
  <2> QED BY <1>1, <1>3, <2>1, <2>2 DEF WillFit
<1>4. ASSUME m.type = "ready", m.n = pane PROVE WillFit'
  <2>1. l + 1 \in 1 .. Len(t) /\ (l + 1) + 1 .. Len(t) = {}
    BY <1>1
  <2> QED BY <1>1, <1>4, <2>1 DEF WillFit
<1> QED BY <1>3, <1>4

LEMMA ReadFits ==
    ASSUME ScreenInv, Deliver, WillFit
    PROVE  WillFit'
<1> DEFINE t == stream'
<1>0. PICK l \in Nat : l = Len(stream)
    BY OnTheStream
<1>1. /\ l = Len(stream) /\ l >= 1 /\ Len(t) = l - 1
      /\ \A i \in 1 .. l - 1 : t[i] = stream[i + 1]
      /\ Head(stream) = stream[1]
    BY <1>0, Taken, ScreenBefore DEF Deliver
<1>2. UNCHANGED pane /\ pane \in Nat \ {0}
    BY ScreenBefore, ViewerConstants DEF Deliver, hostVars
<1> DEFINE m == stream[1]
<1>4. /\ m.type = "ready" /\ m.n = pane => uiMode' = TRUE /\ grid' = pane
      /\ ~Resizes(m) /\ uiMode /\ grid = pane => uiMode' = TRUE /\ grid' = pane
  <2>1. m.type \in {"ready", "chunk", "output"} /\ m.n \in Nat
    BY <1>1, OnTheStream
  <2>2. m.type = "ready" => AdoptSize(m.n)
    BY <1>1 DEF Deliver, OnSnapshotReady
  <2>3. m.type # "ready" => UNCHANGED <<uiMode, grid>>
    BY <1>1 DEF Deliver
  <2>4. /\ m.n > 0 /\ AdoptSize(m.n) => uiMode' = TRUE /\ grid' = m.n
        /\ ~(m.n > 0) /\ AdoptSize(m.n) => UNCHANGED <<uiMode, grid>>
    BY DEF AdoptSize
  <2>5. m.n = pane => m.n > 0
    BY <1>2
  <2>6. m.type = "ready" /\ ~Resizes(m) => m.n = pane \/ ~(m.n > 0)
    BY <2>1 DEF Resizes
  <2>7. uiMode = TRUE \/ ~uiMode
    OBVIOUS
  <2>8. uiMode \in BOOLEAN
    BY DEF ScreenInv, ViewerTypeOK
  <2> HIDE DEF m
  <2> QED BY <2>2, <2>3, <2>4, <2>5, <2>6, <2>8
<1> HIDE DEF m
<1>5. CASE uiMode /\ grid = pane /\ \A j \in 1 .. l : ~Resizes(stream[j])
  <2>1. \A j \in 1 .. l - 1 : ~Resizes(stream[j])'
    BY <1>1, <1>2, <1>5 DEF Resizes
  <2>2. ~Resizes(m)
    BY <1>1, <1>5 DEF m
  <2> QED BY <1>1, <1>2, <1>4, <1>5, <2>1, <2>2 DEF WillFit
<1>6. ASSUME stream[1].type = "ready", stream[1].n = pane,
             \A j \in 1 + 1 .. l : ~Resizes(stream[j])
      PROVE  WillFit'
  <2>1. \A j \in 1 .. l - 1 : ~Resizes(stream[j])'
    BY <1>1, <1>2, <1>6 DEF Resizes
  <2>2. uiMode' = TRUE /\ grid' = pane
    BY <1>4, <1>6 DEF m
  <2> QED BY <1>1, <1>2, <2>1, <2>2 DEF WillFit
<1>7. ASSUME NEW i \in 2 .. l, stream[i].type = "ready", stream[i].n = pane,
             \A j \in i + 1 .. l : ~Resizes(stream[j])
      PROVE  WillFit'
  <2>1. PICK h \in 1 .. l - 1 : h + 1 = i
    BY <1>7
  <2>2. h \in 1 .. Len(t) /\ t[h].type = "ready" /\ t[h].n = pane'
    BY <1>1, <1>2, <1>7, <2>1
  <2>3. \A j \in h + 1 .. Len(stream') : ~Resizes(stream[j])'
    BY <1>1, <1>2, <1>7, <2>1 DEF Resizes
  <2> QED BY <2>2, <2>3 DEF WillFit
<1>8. \A i \in 1 .. l : i = 1 \/ i \in 2 .. l
    OBVIOUS
<1> QED BY <1>1, <1>5, <1>6, <1>7, <1>8 DEF WillFit

LEMMA FitInit == ViewerInit => SizeKnown
    BY DEF ViewerInit, SizeKnown

\* Nobody says a size or reads one, and the pane stays.
LEMMA QuietFit ==
    ASSUME SizeKnown, UNCHANGED <<stream, pane, seen, uiMode, job, open, link, unsaid>>,
           requests' = 0 => requests = 0, uiMode => grid' = grid
    PROVE  SizeKnown'
    BY DEF SizeKnown, SizeComes, WillFit, Resizes

LEMMA OtherFit ==
    ASSUME ScreenInv, SizeKnown,
           \/ PaneWrites \/ OtherWatches \/ Layout \/ Recompute \/ UNCHANGED viewerVars
    PROVE  SizeKnown'
<1>1. /\ UNCHANGED <<stream, pane, seen, uiMode, job, open, link, unsaid>>
      /\ requests' = requests \/ requests' = requests + 1
      /\ uiMode => grid' = grid
    BY DEF PaneWrites, OtherWatches, Layout, Recompute, viewerVars, hostVars, uiVars
<1>2. requests' = 0 => requests = 0
    BY <1>1, ScreenBefore, ViewerConstants
<1> QED BY <1>1, <1>2, QuietFit

LEMMA OutputFit ==
    ASSUME ScreenInv, SizeKnown, PublishOutput PROVE SizeKnown'
<1>1. UNCHANGED <<pane, seen, uiMode, grid, job, open, link, unsaid, requests>>
    BY DEF PublishOutput, uiVars
<1>2. CASE stream' = stream
    BY <1>1, <1>2, QuietFit
<1>3. CASE stream' # stream
  <2>1. PICK n \in 1 .. MaxOutput : n = piped'
    BY ScreenBefore, ViewerConstants DEF PublishOutput
  <2>2. PICK m \in Written : m = OnWire("output", n)
    BY <2>1, WrittenMessages
  <2>3. stream' = Append(stream, m) /\ ~Resizes(m)
    BY <1>3, <2>1, <2>2 DEF PublishOutput, ToWatchers, OnWire, Resizes
  <2>4. WillFit => WillFit'
    BY <1>1, <2>3, SentFits
  <2> QED BY <1>1, <2>4 DEF SizeKnown, SizeComes
<1> QED BY <1>2, <1>3

\* A publisher that begins to say the size is one that will.
LEMMA SizeBegins ==
    ASSUME ScreenInv, SizeKnown, SnapshotRequest \/ QuerySize \/ MonitorTick
    PROVE  SizeKnown'
<1>1. /\ UNCHANGED <<pane, uiMode, grid, open, link, stream>>
      /\ {"watch", "monitor"} \subseteq Publisher
      /\ job \in [Publisher -> Job]
    BY ScreenBefore DEF SnapshotRequest, QuerySize, MonitorTick, uiVars, Publisher
<1>2. CASE unsaid'
    BY <1>1, <1>2 DEF SizeKnown
<1>3. CASE (SnapshotRequest \/ QuerySize) /\ ~unsaid'
  <2>1. SizeComes' /\ unsaid' = unsaid
    BY <1>1, <1>3
       DEF SnapshotRequest, QuerySize, CaptureFails, SizeComes, Idle, Job
  <2> QED BY <1>1, <2>1 DEF SizeKnown
<1>4. CASE MonitorTick /\ job' = job /\ seen'.last = seen.last /\ unsaid' = unsaid
  <2>1. requests' = requests
    BY <1>4 DEF MonitorTick
  <2> QED BY <1>1, <1>4, <2>1 DEF SizeKnown, SizeComes, WillFit, Resizes
<1>5. CASE MonitorTick /\ job'["monitor"].step = "ready" /\ unsaid' = unsaid
  <2>1. SizeComes'
    BY <1>1, <1>5 DEF SizeComes
  <2> QED BY <1>1, <1>5, <2>1 DEF SizeKnown
<1>6. MonitorTick =>
        \/ unsaid'
        \/ unsaid' = unsaid /\ job' = job /\ seen'.last = seen.last
        \/ unsaid' = unsaid /\ job'["monitor"].step = "ready"
    BY <1>1, ScreenBefore DEF MonitorTick
<1> QED BY <1>2, <1>3, <1>4, <1>5, <1>6

\* A size that is sent is the pane's, or the pane's is unsaid.
LEMMA ReadyFit ==
    ASSUME ScreenInv, SizeKnown, NEW p \in Publisher, SendReady(p)
    PROVE  SizeKnown'
<1>1. /\ UNCHANGED <<pane, seen, uiMode, grid, open, link, requests>>
      /\ job[p].step = "ready" /\ job[p].size \in Size
    BY ScreenBefore DEF SendReady, uiVars, Job, Size
<1>2. CASE ~link
    BY <1>1, <1>2 DEF SendReady, SizeKnown
<1>3. CASE link /\ open /\ job[p].size = pane
  <2>1. PICK m \in Written : m = OnWire("ready", job[p].size)
    BY <1>1, WrittenMessages
  <2>2. stream' = Append(stream, m) /\ m.type = "ready" /\ m.n = pane
    BY <1>3, <2>1 DEF SendReady, ToWatchers, OnWire
  <2>3. WillFit'
    BY <1>1, <2>2, SentFits
  <2> QED BY <1>1, <1>3, <2>3 DEF SizeKnown
<1>4. CASE link /\ ~(open /\ job[p].size = pane)
  <2>1. unsaid' = (job[p].size # pane)
    BY <1>4 DEF SendReady
  <2>2. CASE ~open
    BY <1>1, <1>4, <2>2 DEF SizeKnown
  <2>3. CASE job[p].size # pane
    BY <2>1, <2>3 DEF SizeKnown
  <2> QED BY <1>4, <2>2, <2>3
<1> QED BY <1>2, <1>3, <1>4

LEMMA ChunkFit ==
    ASSUME ScreenInv, SizeKnown, NEW p \in Publisher, SendChunk(p) PROVE SizeKnown'
<1>1. /\ UNCHANGED <<pane, seen, uiMode, grid, open, link, unsaid, requests>>
      /\ job[p].step = "chunk" /\ job[p].upTo \in 0 .. MaxOutput
      /\ \A q \in Publisher \ {p} : job'[q] = job[q]
      /\ "watch" \in Publisher
    BY ScreenBefore DEF SendChunk, uiVars, Job, Publisher
<1>2. SizeComes => SizeComes'
    BY <1>1 DEF SizeComes
<1>3. CASE open
  <2>1. PICK m \in Written : m = OnWire("chunk", job[p].upTo)
    BY <1>1, WrittenMessages
  <2>2. stream' = Append(stream, m) /\ ~Resizes(m)
    BY <1>3, <2>1 DEF SendChunk, ToWatchers, OnWire, Resizes
  <2>3. WillFit => WillFit'
    BY <1>1, <2>2, SentFits
  <2> QED BY <1>1, <1>2, <2>3 DEF SizeKnown
<1>4. CASE ~open
    BY <1>1, <1>4 DEF SizeKnown
<1> QED BY <1>3, <1>4

\* Where the size becomes unknown, and where nobody looks.
LEMMA ConnectionFit ==
    ASSUME ScreenInv, SizeKnown,
           \/ HostResizes \/ CutLink \/ Reannounce \/ Watch \/ WatchEnds \/ SetSession
    PROVE  SizeKnown'
<1>1. CASE HostResizes
  <2>1. /\ seen' = seen /\ pane' # pane /\ link' = link
        /\ unsaid \/ pane # seen.last => unsaid'
    BY <1>1 DEF HostResizes
  <2> QED BY <2>1 DEF SizeKnown
<1>2. CASE CutLink
    BY <1>2 DEF CutLink, SizeKnown
<1>3. CASE Reannounce
  <2>1. unsaid'
    <3>1. unsaid
      BY <1>3 DEF Reannounce, SizeKnown
    <3>2. unsaid' = unsaid \/ unsaid' = TRUE
      BY <1>3 DEF Reannounce, CaptureFails
    <3> QED BY <3>1, <3>2
  <2> QED BY <2>1 DEF SizeKnown
<1>4. CASE Watch
  <2>1. requests \in Nat
    BY ScreenBefore, ViewerConstants
  <2>2. requests' = requests + 1 /\ UNCHANGED <<link, unsaid>>
    BY <1>4 DEF Watch
  <2>3. requests' # 0
    BY <2>1, <2>2
  <2> QED BY <2>2, <2>3 DEF SizeKnown
<1>5. CASE WatchEnds
    BY <1>5 DEF WatchEnds, hostVars, SizeKnown
<1>6. CASE SetSession
    BY <1>6 DEF SetSession, NewSession, SizeKnown
<1> QED BY <1>1, <1>2, <1>3, <1>4, <1>5, <1>6

LEMMA DeliverFit ==
    ASSUME ScreenInv, SizeKnown, Deliver PROVE SizeKnown'
<1>1. UNCHANGED <<pane, seen, job, open, link, unsaid, requests>>
    BY DEF Deliver, hostVars
<1>2. WillFit => WillFit'
    BY ReadFits
<1> QED BY <1>1, <1>2 DEF SizeKnown, SizeComes

LEMMA FitStep == ScreenInv /\ SizeKnown /\ [ViewerNext]_viewerVars => SizeKnown'
    BY OtherFit, OutputFit, SizeBegins, ReadyFit, ChunkFit, ConnectionFit, DeliverFit
       DEF ViewerNext

\* Once everything has arrived and the monitor has seen the pane's size, the
\* terminal has it, whichever publishers said which sizes and in whatever
\* order, unless the pane's size is unsaid: an older size or none was the last
\* to go out, a capture failed, the daemon was cut off, or the host resized
\* twice before the monitor looked.
THEOREM ViewerGrid == ViewerSpec => []GridFollowsPane
<1>1. ScreenInv /\ SizeKnown => GridFollowsPane
  <2> SUFFICES ASSUME ScreenInv, SizeKnown, AllDrawn, seen.last = pane, ~unsaid
               PROVE  grid = pane
    BY DEF GridFollowsPane
  <2>1. /\ open /\ link /\ requests = 0 /\ stream = <<>>
        /\ \A p \in Publisher : job[p].step = "idle"
        /\ "watch" \in Publisher
    BY DEF AllDrawn, Idle, Publisher
  <2>2. WillFit /\ Len(stream) = 0
    BY <2>1 DEF SizeKnown, SizeComes
  <2> QED BY <2>2 DEF WillFit
<1>2. ViewerSpec => []SizeKnown
    BY ScreenHolds, FitInit, FitStep, ScreenInit, ScreenStep, PTL DEF ViewerSpec
<1> QED BY <1>1, <1>2, ScreenHolds, PTL

=============================================================================
