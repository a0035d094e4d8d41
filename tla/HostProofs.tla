----------------------------- MODULE HostProofs -----------------------------
(***************************************************************************)
(* For every number of sessions and crashes and every set of faults: the   *)
(* host reports only sessions as exited whose pane is gone, and never      *)
(* polls one that EndSession is taking down.                               *)
(***************************************************************************)
EXTENDS HostSessions, TLAPS

\* StartSession of s is over: it will not touch the pane again.
Started(s) == starting[s] \in {"done", "failed"}

\* The store, EndSession and the reaper know only sessions whose start is
\* over, and so does a row that says exited.
KnownIsStarted(s) ==
    /\ InStore(s) \/ ending[s] # "idle" \/ s \in reap.todo \/ reap.session = s
          => Started(s)
    /\ row[s] = "exited" => Started(s)

\* Whoever is about to report s as exited has seen to its pane.
GoneBeforePatch(s) ==
    /\ ending[s] = "patch" => pane[s] # "live" \/ s \in spared
    /\ reap.at = "patch" /\ reap.session = s => pane[s] # "live"

\* The reaper calls the control plane about a session it has.
ReapHasSession ==
    reap.at \in {"heartbeat", "patch", "delete"} => reap.session \in Session

HostInv ==
    /\ HostTypeOK
    /\ ReapHasSession
    /\ \A s \in Session : KnownIsStarted(s) /\ GoneBeforePatch(s)
    /\ ExitedMeansGone
    /\ EndedUnwatched

LEMMA HostInitInv == HostInit => HostInv
    BY HostAssumption
       DEF HostInit, HostInv, HostTypeOK, ReapHasSession, KnownIsStarted,
           GoneBeforePatch, ExitedMeansGone, EndedUnwatched, Started, InStore,
           NotReaping, StartStage, EndStage, ReapStage

-----------------------------------------------------------------------------
(* One lemma per flow                                                      *)

\* A start that is under way is known to nobody else, so what it does to its
\* pane, row, file and goroutines cannot contradict anybody.
LEMMA StartStep ==
    ASSUME HostInv, NEW s \in Session, StartSession(s)
    PROVE  HostInv'
<1> USE DEF HostInv, HostTypeOK, ReapHasSession, KnownIsStarted,
            GoneBeforePatch, ExitedMeansGone, EndedUnwatched, Started,
            InStore, StartStage, goroutines, worldVars, daemonVars, At, Then,
            SetRow, SetFile, Patched, PatchFailed, NotFound
<1>1. CASE CreateRow(s)
    BY <1>1 DEF CreateRow
<1>2. CASE Launch(s)
    BY <1>2 DEF Launch
<1>3. CASE MarkFailed(s)
    BY <1>3 DEF MarkFailed
<1>4. CASE StartWatching(s)
    BY <1>4 DEF StartWatching
<1>5. CASE PatchRunning(s)
    BY <1>5 DEF PatchRunning
<1>6. CASE OpenFile(s)
    BY <1>6 DEF OpenFile
<1>7. CASE WriteFile(s)
    BY <1>7 DEF WriteFile
<1> QED BY <1>1, <1>2, <1>3, <1>4, <1>5, <1>6, <1>7 DEF StartSession

\* EndSession kills before it reports, or notes that tmux refused.
LEMMA EndStep ==
    ASSUME HostInv, NEW s \in Session, EndSession(s)
    PROVE  HostInv'
<1> USE DEF HostInv, HostTypeOK, ReapHasSession, KnownIsStarted,
            GoneBeforePatch, ExitedMeansGone, EndedUnwatched, Started,
            InStore, EndStage, goroutines, worldVars, daemonVars, EndAt,
            EndThen, SetRow, SetFile, DropFile, Patched, PatchFailed, NotFound
<1>1. CASE BeginEnd(s)
    BY <1>1 DEF BeginEnd
<1>2. CASE KillPane(s)
    BY <1>2 DEF KillPane
<1>3. CASE PatchEnded(s)
    BY <1>3 DEF PatchEnded
<1>4. CASE DeleteEnded(s)
    BY <1>4 DEF DeleteEnded
<1> QED BY <1>1, <1>2, <1>3, <1>4 DEF EndSession

\* What a call about a session, and what the reaper after it, can do.
RowMayBecome(s, st) ==
    /\ row' \in [Session -> {"absent", "starting", "running", "exited", "failed"}]
    /\ \A t \in Session : row'[t] = row[t] \/ (t = s /\ row'[t] = st)

ReapMovesOn ==
    /\ reap' \in [at: ReapStage, todo: SUBSET Session,
                  session: Session \cup {NoSession}]
    /\ reap'.todo = reap.todo
    /\ \/ reap'.at = "next" /\ reap'.session = NoSession
       \/ reap'.at = "delete" /\ reap'.session = reap.session

LEMMA ReapCalls ==
    ASSUME HostInv, NEW st \in {"running", "exited"}, reap.session \in Session,
           RowMayBecome(reap.session, st), ReapMovesOn, Started(reap.session),
           st = "exited" => pane[reap.session] # "live",
           UNCHANGED <<pane, file, goroutines, starting, ending, spared, daemonVars>>
    PROVE  HostInv'
<1> USE DEF HostInv, goroutines, daemonVars
<1>1. HostTypeOK' /\ ReapHasSession' /\ EndedUnwatched'
    BY DEF HostTypeOK, ReapHasSession, EndedUnwatched, RowMayBecome, ReapMovesOn
<1>2. ExitedMeansGone'
    BY DEF ExitedMeansGone, RowMayBecome
<1>3. ASSUME NEW t \in Session PROVE KnownIsStarted(t)'
    BY HostAssumption DEF KnownIsStarted, RowMayBecome, ReapMovesOn, Started, InStore
<1>4. ASSUME NEW t \in Session PROVE GoneBeforePatch(t)'
    BY DEF GoneBeforePatch, ReapMovesOn
<1> QED BY <1>1, <1>2, <1>3, <1>4

\* The reaper reports what it has probed, however long ago: a pane that is
\* gone does not come back.
LEMMA ReapStep ==
    ASSUME HostInv, Reap
    PROVE  HostInv'
<1> USE HostAssumption
        DEF HostInv, HostTypeOK, ReapHasSession, KnownIsStarted,
            GoneBeforePatch, ExitedMeansGone, EndedUnwatched, Started,
            InStore, ReapStage, goroutines, worldVars, daemonVars, ReapAt,
            ReapThen, NextRow, NotReaping, SetRow, SetFile, DropFile, Patched,
            PatchFailed, NotFound
<1>1. CASE BeginReap
    BY <1>1 DEF BeginReap
<1>2. ASSUME NEW s \in Session, Probe(s) PROVE HostInv'
    BY <1>2 DEF Probe
<1>3. CASE Heartbeat
    <2>1. reap.session \in Session /\ Started(reap.session)
        BY <1>3 DEF Heartbeat
    <2>2. RowMayBecome(reap.session, "running")
        BY <1>3, <2>1 DEF Heartbeat, RowMayBecome
    <2>3. ReapMovesOn
        BY <1>3 DEF Heartbeat, ReapMovesOn
    <2> QED BY <1>3, <2>1, <2>2, <2>3, ReapCalls DEF Heartbeat
<1>4. CASE PatchGone
    <2>1. /\ reap.session \in Session /\ Started(reap.session)
          /\ pane[reap.session] # "live"
        BY <1>4 DEF PatchGone
    <2>2. RowMayBecome(reap.session, "exited")
        BY <1>4, <2>1 DEF PatchGone, RowMayBecome
    <2>3. NextRow \/ ReapThen("delete")
        BY <1>4 DEF PatchGone
    <2>4. ReapMovesOn
        BY <2>3 DEF ReapMovesOn
    <2> QED BY <1>4, <2>1, <2>2, <2>4, ReapCalls DEF PatchGone
<1>5. CASE DeleteGone
    BY <1>5 DEF DeleteGone
<1>6. CASE EndReap
    BY <1>6 DEF EndReap
<1> QED BY <1>1, <1>2, <1>3, <1>4, <1>5, <1>6 DEF Reap

\* Crashes only make a start fail and the flows forget.
LEMMA WorldStep ==
    ASSUME HostInv,
           (\E s \in Session : PaneExits(s) \/ Forget(s)) \/ Crash \/ Boot
    PROVE  HostInv'
<1> USE HostAssumption
        DEF HostInv, HostTypeOK, ReapHasSession, KnownIsStarted,
            GoneBeforePatch, ExitedMeansGone, EndedUnwatched, Started,
            InStore, goroutines, worldVars, daemonVars, SetRow
<1>1. ASSUME NEW s \in Session, PaneExits(s) PROVE HostInv'
    BY <1>1 DEF PaneExits
<1>2. ASSUME NEW s \in Session, Forget(s) PROVE HostInv'
    BY <1>2 DEF Forget
<1>3. CASE Crash
    BY <1>3 DEF Crash, NotReaping, StartStage, EndStage, ReapStage
<1>4. CASE Boot
    BY <1>4 DEF Boot
<1> QED BY <1>1, <1>2, <1>3, <1>4

LEMMA HostInvStep == HostInv /\ [HostNext]_hostVars => HostInv'
<1> SUFFICES ASSUME HostInv, [HostNext]_hostVars PROVE HostInv'
    OBVIOUS
<1>1. CASE UNCHANGED hostVars
    BY <1>1 DEF hostVars, worldVars, goroutines, daemonVars, HostInv,
        HostTypeOK, ReapHasSession, KnownIsStarted, GoneBeforePatch,
        ExitedMeansGone, EndedUnwatched, Started, InStore
<1> QED BY <1>1, StartStep, EndStep, ReapStep, WorldStep DEF HostNext

-----------------------------------------------------------------------------
\* The host's flows keep their types.
THEOREM HostTypes == HostSpec => []HostTypeOK
<1>1. HostInv => HostTypeOK
    BY DEF HostInv
<1> QED BY <1>1, HostInitInv, HostInvStep, PTL DEF HostSpec

\* No interleaving of the three flows, no fault but a tmux that refuses to
\* kill, and no crash makes the control plane show a living session as exited.
THEOREM HostReportsTheDead == HostSpec => []ExitedMeansGone
<1>1. HostInv => ExitedMeansGone
    BY DEF HostInv
<1> QED BY <1>1, HostInitInv, HostInvStep, PTL DEF HostSpec

\* While EndSession is taking a session down nothing polls it.
THEOREM HostStopsPolling == HostSpec => []EndedUnwatched
<1>1. HostInv => EndedUnwatched
    BY DEF HostInv
<1> QED BY <1>1, HostInitInv, HostInvStep, PTL DEF HostSpec

=============================================================================
