---------------------------- MODULE HostSessions ----------------------------
(***************************************************************************)
(* The life of a session on its host: session.Manager with the tmux server *)
(* on one side and the control plane on the other.  Three flows work on    *)
(* the same sessions and share no lock: the StartSession RPC, the          *)
(* EndSession RPC and the reaper.  What they keep in step is the tmux pane, *)
(* the session row of the control plane, the file in the local store, and  *)
(* two goroutines of the daemon: the reader of the output pipe and the     *)
(* pane-size monitor.  The daemon may die at any point of any flow.        *)
(***************************************************************************)
EXTENDS Naturals, FiniteSets

CONSTANTS
    Session,        \* the sessions users start
    NoSession,      \* no session
    Faults,         \* which operations may fail in this instance
    MaxCrashes      \* bound on the daemon's deaths

Fault == {"create", "launch", "pipe", "patch", "save", "torn", "kill", "probe",
          "delete", "forget", "login"}

ASSUME HostAssumption ==
    /\ NoSession \notin Session
    /\ Faults \subseteq Fault
    /\ MaxCrashes \in Nat

VARIABLES
    pane,           \* pane[s]: the tmux session
    row,            \* row[s]: status of the control plane's session row
    file,           \* file[s]: the file of s in the local store
    piped,          \* the sessions whose output a goroutine reads
    monitored,      \* the sessions whose pane size a goroutine polls
    starting,       \* starting[s]: how far StartSession has come
    ending,         \* ending[s]: how far EndSession has come
    spared,         \* history: the sessions whose pane tmux failed to kill
    reap,           \* the reaper's sweep
    daemon,         \* "up" or "down"
    crashes         \* how often the daemon died

goroutines == <<piped, monitored>>
worldVars == <<pane, row, file>>
daemonVars == <<daemon, crashes>>
hostVars == <<worldVars, goroutines, starting, ending, spared, reap, daemonVars>>

StartStage == {"new", "launch", "giveup", "watch", "patch", "save",
               "write", "done", "failed"}
EndStage == {"idle", "kill", "patch", "delete"}
ReapStage == {"idle", "next", "heartbeat", "patch", "delete"}

NotReaping == [at |-> "idle", todo |-> {}, session |-> NoSession]

HostTypeOK ==
    /\ pane \in [Session -> {"none", "live", "dead"}]
    /\ row \in [Session -> {"absent", "starting", "running", "exited", "failed"}]
    /\ file \in [Session -> {"none", "torn", "whole"}]
    /\ piped \subseteq Session
    /\ monitored \subseteq Session
    /\ starting \in [Session -> StartStage]
    /\ ending \in [Session -> EndStage]
    /\ spared \subseteq Session
    /\ reap \in [at: ReapStage, todo: SUBSET Session,
                 session: Session \cup {NoSession}]
    /\ daemon \in {"up", "down"}
    /\ crashes \in 0 .. MaxCrashes

HostInit ==
    /\ pane = [s \in Session |-> "none"]
    /\ row = [s \in Session |-> "absent"]
    /\ file = [s \in Session |-> "none"]
    /\ piped = {} /\ monitored = {}
    /\ starting = [s \in Session |-> "new"]
    /\ ending = [s \in Session |-> "idle"] /\ spared = {}
    /\ reap = NotReaping
    /\ daemon = "up" /\ crashes = 0

SetRow(s, st) == row' = [row EXCEPT ![s] = st]
SetFile(s, f) == file' = [file EXCEPT ![s] = f]

InStore(s) == file[s] = "whole"

\* store.Delete; a failure is only logged.
DropFile(s) ==
    \/ SetFile(s, "none")
    \/ "delete" \in Faults /\ UNCHANGED file

\* updateHostSession: done, or failed before or after the row was written.
\* A row the control plane does not have is reported as session_not_found.
Patched(s, st) == row[s] # "absent" /\ SetRow(s, st)
PatchFailed(s, st) ==
    /\ "patch" \in Faults
    /\ UNCHANGED row \/ Patched(s, st)
NotFound(s) == row[s] = "absent" /\ UNCHANGED row

-----------------------------------------------------------------------------
(* StartSession                                                            *)

At(s, stage) == daemon = "up" /\ starting[s] = stage
Then(s, stage) == starting' = [starting EXCEPT ![s] = stage]

CreateRow(s) ==
    /\ At(s, "new")
    /\ \/ SetRow(s, "starting") /\ Then(s, "launch")
       \/ /\ "create" \in Faults
          /\ SetRow(s, "starting") \/ UNCHANGED row
          /\ Then(s, "failed")
    /\ UNCHANGED <<pane, file, goroutines, ending, spared, reap, daemonVars>>

\* tmux new-session, the liveness probe and set-option.  The last two may
\* fail when the pane exists.
Launch(s) ==
    /\ At(s, "launch")
    /\ \/ pane' = [pane EXCEPT ![s] = "live"] /\ Then(s, "watch")
       \/ /\ "launch" \in Faults
          /\ \E p \in {"none", "dead", "live"} : pane' = [pane EXCEPT ![s] = p]
          /\ Then(s, "giveup")
    /\ UNCHANGED <<row, file, goroutines, ending, spared, reap, daemonVars>>

\* Mutant: a status the schema does not have.
MarkCrashed(s) ==
    /\ At(s, "giveup")
    /\ Patched(s, "crashed") \/ PatchFailed(s, "crashed") \/ NotFound(s)
    /\ Then(s, "failed")
    /\ UNCHANGED <<pane, file, goroutines, ending, spared, reap, daemonVars>>

MarkFailed(s) ==
    /\ At(s, "giveup")
    /\ Patched(s, "failed") \/ PatchFailed(s, "failed") \/ NotFound(s)
    /\ Then(s, "failed")
    /\ UNCHANGED <<pane, file, goroutines, ending, spared, reap, daemonVars>>

\* startOutputPipe, whose failure is tolerated, and startPaneSizeMonitor.
StartWatching(s) ==
    /\ At(s, "watch")
    /\ \/ piped' = piped \cup {s}
       \/ ("pipe" \in Faults \/ pane[s] # "live") /\ UNCHANGED piped
    /\ monitored' = monitored \cup {s}
    /\ Then(s, "patch")
    /\ UNCHANGED <<worldVars, ending, spared, reap, daemonVars>>

\* When the control plane does not confirm "running" the call fails, and
\* leaves the pane and both goroutines behind.
PatchRunning(s) ==
    /\ At(s, "patch")
    /\ \/ Patched(s, "running") /\ Then(s, "save")
       \/ (PatchFailed(s, "running") \/ NotFound(s)) /\ Then(s, "failed")
    /\ UNCHANGED <<pane, file, goroutines, ending, spared, reap, daemonVars>>

\* store.Save creates or truncates the file and writes into it: until the
\* second step the file does not parse, and after a crash or a full disk it
\* never does.
OpenFile(s) ==
    /\ At(s, "save")
    /\ \/ SetFile(s, "torn") /\ Then(s, "write")
       \/ "save" \in Faults /\ UNCHANGED file /\ Then(s, "failed")
    /\ UNCHANGED <<pane, row, goroutines, ending, spared, reap, daemonVars>>

WriteFile(s) ==
    /\ At(s, "write")
    /\ \/ SetFile(s, "whole") /\ Then(s, "done")
       \/ "torn" \in Faults /\ UNCHANGED file /\ Then(s, "failed")
    /\ UNCHANGED <<pane, row, goroutines, ending, spared, reap, daemonVars>>

StartSession(s) ==
    \/ CreateRow(s) \/ Launch(s) \/ MarkFailed(s)
    \/ StartWatching(s) \/ PatchRunning(s)
    \/ OpenFile(s) \/ WriteFile(s)

-----------------------------------------------------------------------------
(* EndSession                                                              *)

EndAt(s, stage) == daemon = "up" /\ ending[s] = stage
EndThen(s, stage) == ending' = [ending EXCEPT ![s] = stage]

\* Mutant: the monitor is left alone.
BeginEndUnstopped(s) ==
    /\ EndAt(s, "idle")
    /\ InStore(s)
    /\ EndThen(s, "kill")
    /\ UNCHANGED <<worldVars, goroutines, starting, spared, reap, daemonVars>>

\* Load the file and stop the monitor; without a file the call ends here.
BeginEnd(s) ==
    /\ EndAt(s, "idle")
    /\ InStore(s)
    /\ monitored' = monitored \ {s}
    /\ EndThen(s, "kill")
    /\ UNCHANGED <<worldVars, piped, starting, spared, reap, daemonVars>>

\* A failure of tmux is logged, and the flow goes on.
KillPane(s) ==
    /\ EndAt(s, "kill")
    /\ \/ pane' = [pane EXCEPT ![s] = "dead"] /\ UNCHANGED spared
       \/ "kill" \in Faults /\ UNCHANGED pane /\ spared' = spared \cup {s}
    /\ EndThen(s, "patch")
    /\ UNCHANGED <<row, file, goroutines, starting, reap, daemonVars>>

PatchEnded(s) ==
    /\ EndAt(s, "patch")
    /\ \/ (Patched(s, "exited") \/ NotFound(s)) /\ EndThen(s, "delete")
       \/ PatchFailed(s, "exited") /\ EndThen(s, "idle")
    /\ UNCHANGED <<pane, file, goroutines, starting, spared, reap, daemonVars>>

DeleteEnded(s) ==
    /\ EndAt(s, "delete")
    /\ DropFile(s)
    /\ EndThen(s, "idle")
    /\ UNCHANGED <<pane, row, goroutines, starting, spared, reap, daemonVars>>

EndSession(s) == BeginEnd(s) \/ KillPane(s) \/ PatchEnded(s) \/ DeleteEnded(s)

-----------------------------------------------------------------------------
(* Reap: at boot and every 30 s                                            *)

ReapAt(stage) == daemon = "up" /\ reap.at = stage
ReapThen(stage) == reap' = [reap EXCEPT !.at = stage]
NextRow == reap' = [reap EXCEPT !.at = "next", !.session = NoSession]

\* store.List: one file that does not parse fails all of it.
BeginReap ==
    /\ ReapAt("idle")
    /\ \A s \in Session : file[s] # "torn"
    /\ reap' = [at |-> "next", todo |-> {s \in Session : InStore(s)},
                session |-> NoSession]
    /\ UNCHANGED <<worldVars, goroutines, starting, ending, spared, daemonVars>>

\* Mutant: a probe that fails counts as a missing pane.
ProbeFailsAsMissing(s) ==
    /\ ReapAt("next") /\ s \in reap.todo
    /\ \E stage \in IF pane[s] = "live" /\ "probe" \notin Faults
                    THEN {"heartbeat"} ELSE {"patch"} :
          reap' = [at |-> stage, todo |-> reap.todo \ {s}, session |-> s]
    /\ UNCHANGED <<worldVars, goroutines, starting, ending, spared, daemonVars>>

\* tmux has-session: the pane lives, is missing, or tmux cannot tell, and
\* then the row waits for the next sweep.
Probe(s) ==
    /\ ReapAt("next") /\ s \in reap.todo
    /\ \/ reap' = [at      |-> IF pane[s] = "live" THEN "heartbeat" ELSE "patch",
                   todo    |-> reap.todo \ {s},
                   session |-> s]
       \/ "probe" \in Faults /\ reap' = [reap EXCEPT !.todo = @ \ {s}]
    /\ UNCHANGED <<worldVars, goroutines, starting, ending, spared, daemonVars>>

\* heartbeatHostSession writes "running"; session_not_found drops the file,
\* also when it only means that the host has logged in as another device.
Heartbeat ==
    /\ ReapAt("heartbeat")
    /\ LET s == reap.session IN
       \/ (Patched(s, "running") \/ PatchFailed(s, "running")) /\ NextRow
       \/ NotFound(s) /\ ReapThen("delete")
       \/ "login" \in Faults /\ UNCHANGED row /\ ReapThen("delete")
    /\ UNCHANGED <<pane, file, goroutines, starting, ending, spared, daemonVars>>

\* Mutant: the file stays after the PATCH.
PatchGoneKeepsFile ==
    /\ ReapAt("patch")
    /\ LET s == reap.session IN
       Patched(s, "exited") \/ PatchFailed(s, "exited") \/ NotFound(s)
    /\ NextRow
    /\ UNCHANGED <<pane, file, goroutines, starting, ending, spared, daemonVars>>

PatchGone ==
    /\ ReapAt("patch")
    /\ LET s == reap.session IN
       \/ (Patched(s, "exited") \/ NotFound(s)) /\ ReapThen("delete")
       \/ PatchFailed(s, "exited") /\ NextRow
    /\ UNCHANGED <<pane, file, goroutines, starting, ending, spared, daemonVars>>

DeleteGone ==
    /\ ReapAt("delete")
    /\ DropFile(reap.session)
    /\ NextRow
    /\ UNCHANGED <<pane, row, goroutines, starting, ending, spared, daemonVars>>

\* The sweep is over, or there are no credentials to call with.
EndReap ==
    /\ \/ ReapAt("next") /\ reap.todo = {}
       \/ "patch" \in Faults /\ (ReapAt("heartbeat") \/ ReapAt("patch"))
    /\ reap' = NotReaping
    /\ UNCHANGED <<worldVars, goroutines, starting, ending, spared, daemonVars>>

Reap ==
    \/ BeginReap \/ Heartbeat \/ PatchGone \/ DeleteGone \/ EndReap
    \/ \E s \in Session : Probe(s)

-----------------------------------------------------------------------------
(* Everything else                                                         *)

\* The tool exits, or the user kills its tmux session.
PaneExits(s) ==
    /\ pane[s] = "live"
    /\ pane' = [pane EXCEPT ![s] = "dead"]
    /\ UNCHANGED <<row, file, goroutines, starting, ending, spared, reap, daemonVars>>

\* The control plane's database loses the row.
Forget(s) ==
    /\ "forget" \in Faults /\ row[s] # "absent"
    /\ SetRow(s, "absent")
    /\ UNCHANGED <<pane, file, goroutines, starting, ending, spared, reap, daemonVars>>

\* The daemon's goroutines and RPCs die with it; tmux, the store and the
\* control plane stay.
Crash ==
    /\ daemon = "up" /\ crashes < MaxCrashes
    /\ daemon' = "down" /\ crashes' = crashes + 1
    /\ piped' = {} /\ monitored' = {}
    /\ starting' = [s \in Session |->
                       IF starting[s] \in {"new", "done"} THEN starting[s] ELSE "failed"]
    /\ ending' = [s \in Session |-> "idle"]
    /\ reap' = NotReaping
    /\ UNCHANGED <<worldVars, spared>>

\* Boot looks at the store through the reaper and the relay callback only:
\* neither goroutine is started for the sessions that are still running.
Boot ==
    /\ daemon = "down" /\ daemon' = "up"
    /\ UNCHANGED <<worldVars, goroutines, starting, ending, spared, reap, crashes>>

HostNext ==
    \/ \E s \in Session : \/ StartSession(s) \/ EndSession(s)
                          \/ PaneExits(s) \/ Forget(s)
    \/ Reap
    \/ Crash \/ Boot

HostSpec == HostInit /\ [][HostNext]_hostVars

\* The goroutines are scheduled, a dead daemon is started again by the next
\* CLI call, and tmux and the control plane, asked again and again about a
\* session, answer at some time.  EndSession needs no fairness.
HostFairness ==
    /\ WF_hostVars(Boot)
    /\ WF_hostVars(Reap)
    /\ \A s \in Session :
          /\ WF_hostVars(StartSession(s))
          /\ SF_hostVars(Probe(s) /\ reap'.session = s)
          /\ SF_hostVars(PatchGone /\ reap.session = s /\ reap'.at = "delete")
          /\ SF_hostVars(DeleteGone /\ reap.session = s /\ file'[s] = "none")

FairHost == HostSpec /\ HostFairness

-----------------------------------------------------------------------------
\* Nothing works on s.
Quiet(s) ==
    /\ starting[s] \in {"done", "failed"} /\ ending[s] = "idle"
    /\ reap.session # s

\* A session the control plane shows as exited has no pane any more: neither
\* a probe that failed nor a slow flow ever reports a living tool as gone.
\* Only EndSession does, after a tmux that refused to kill.
ExitedMeansGone ==
    \A s \in Session : row[s] = "exited" => pane[s] # "live" \/ s \in spared

\* What EndSession has been through is no longer polled: no monitor starts
\* or survives behind its back.
EndedUnwatched == \A s \in Session : ending[s] # "idle" => s \notin monitored

\* A session whose pane is gone leaves the store in the end, whatever fails
\* in between, as long as the store can be read in the end.
GoneSessionsReaped ==
    <>[](\A s \in Session : file[s] # "torn")
        => \A s \in Session : InStore(s) /\ pane[s] = "dead" ~> ~InStore(s)

\* "If the daemon restarts while tmux session still exists, it can recover
\* and resume relay": a running session's output is read whenever the daemon
\* is up.
RunningIsStreamed ==
    \A s \in Session :
        /\ daemon = "up" /\ Quiet(s) /\ starting[s] = "done"
        /\ InStore(s) /\ pane[s] = "live"
        => s \in piped

=============================================================================
