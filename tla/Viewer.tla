------------------------------- MODULE Viewer -------------------------------
(***************************************************************************)
(* One browser watching one session: what the pane has printed, what the   *)
(* three publishers of the daemon (the read loop that serves a watch, the  *)
(* monitor of the pane size, the re-announcement) send, and what xterm     *)
(* shows and in which grid.  The relay hands on what the daemon writes in  *)
(* the order it was written.  A size is one number; 0 is an unknown size.  *)
(***************************************************************************)
EXTENDS Integers, SequencesExt

CONSTANTS
    MaxOutput,          \* bound on what the pane prints
    PaneSizes,          \* sizes the host terminal gives the pane
    Containers,         \* grids that fit the window
    GridFloor,          \* ui/terminal.ts: COLS_FLOOR, ROWS_FLOOR
    MaxEvents           \* bound on watches, resizes, cuts and changes of page

ASSUME ViewerAssumption ==
    /\ MaxOutput \in Nat /\ GridFloor \in Nat \ {0}
    /\ PaneSizes \subseteq Nat \ {0} /\ PaneSizes # {}
    /\ Containers \subseteq Nat /\ Containers # {}
    /\ MaxEvents \in Nat

Publisher == {"watch", "monitor", "announce"}

VARIABLES
    produced, piped,    \* output of the pane, and how much of it went out
    pane,               \* its size
    job,                \* what each publisher has captured and not yet sent
    seen,               \* the monitor: last stable size, and one to confirm
    link,               \* the daemon is connected to the relay
    requests,           \* watches the daemon has not served
    open, stream,       \* the browser's connection and what is under way on it
    screen, pending,    \* what xterm shows; watcher.ts: snapshotPending
    grid,               \* ui/terminal.ts: lastCols, lastRows
    uiMode, bridgeMode, \* authoritativeMode there, and in inbound.ts
    container, debounce,\* the window, and the timer of recompute
    lastGrid, told,     \* inbound.ts: lastGrid, and what the daemon last heard
    raced, blind,       \* history: see NothingElseLost,
    unsaid,             \* and GridFollowsPane
    events              \* events so far, against their bound

hostVars == <<produced, piped, pane, job, seen, link, requests>>
uiVars == <<screen, pending, grid, uiMode, bridgeMode>>
layoutVars == <<container, debounce, lastGrid, told>>
viewerVars == <<hostVars, open, stream, uiVars, layoutVars, raced, blind, unsaid, events>>

Idle == [step |-> "idle", upTo |-> 0, size |-> 0]
Job == [step : {"idle", "size", "ready", "chunk"}, upTo : 0..MaxOutput,
        size : PaneSizes \cup {0}]

Message == [type : {"ready", "chunk", "output"}, n : Nat]
OnWire(type, n) == [type |-> type, n |-> n]

Size == PaneSizes \cup {0}

ViewerTypeOK ==
    /\ produced \in 0..MaxOutput /\ piped \in 0..produced
    /\ pane \in PaneSizes
    /\ job \in [Publisher -> Job]
    /\ seen \in [last : Size, next : Size]
    /\ link \in BOOLEAN /\ requests \in 0..MaxEvents
    /\ open \in BOOLEAN /\ stream \in Seq(Message)
    /\ screen \in Seq(1..MaxOutput) /\ pending \in BOOLEAN
    /\ grid \in Nat \ {0}
    /\ uiMode \in BOOLEAN /\ bridgeMode \in BOOLEAN /\ (bridgeMode => uiMode)
    /\ container \in Containers /\ debounce \in BOOLEAN
    /\ lastGrid \in Nat \ {0} /\ told \in Nat
    /\ raced \subseteq 1..MaxOutput /\ blind \subseteq 0..MaxOutput
    /\ unsaid \in BOOLEAN
    /\ events \in 0..MaxEvents

PickGrid(c) == IF c > GridFloor THEN c ELSE GridFloor

Event == events < MaxEvents /\ events' = events + 1

-----------------------------------------------------------------------------
(* The session and the page as they are when a visit begins; the monitor   *)
(* starts without a size when its first query fails.                       *)

NewSession ==
    /\ produced' = 0 /\ piped' = 0
    /\ pane' \in PaneSizes
    /\ job' = [p \in Publisher |-> Idle]
    /\ \E last \in {pane', 0} : seen' = [last |-> last, next |-> 0]
    /\ link' = TRUE /\ requests' = 0

ViewerInit ==
    /\ produced = 0 /\ piped = 0
    /\ pane \in PaneSizes
    /\ job = [p \in Publisher |-> Idle]
    /\ \E last \in {pane, 0} : seen = [last |-> last, next |-> 0]
    /\ link = TRUE /\ requests = 0
    /\ open = FALSE /\ stream = <<>>
    /\ screen = <<>> /\ pending = FALSE
    /\ container \in Containers /\ grid = PickGrid(container)
    /\ uiMode = FALSE /\ bridgeMode = FALSE
    /\ debounce = FALSE /\ lastGrid = grid /\ told = 0
    /\ raced = {} /\ blind = {} /\ unsaid = FALSE
    /\ events = 0

-----------------------------------------------------------------------------
(* The host                                                                *)

\* What the relay gets reaches those who watch.
ToWatchers(m) == stream' = IF open THEN Append(stream, m) ELSE stream

PaneWrites ==
    /\ produced < MaxOutput
    /\ produced' = produced + 1
    /\ UNCHANGED <<piped, pane, job, seen, link, requests, open, stream,
                   uiVars, layoutVars, raced, blind, unsaid, events>>

\* A capture older than this output has yet to be sent.
StaleCapture(k) ==
    \E p \in Publisher : job[p].step # "idle" /\ job[p].upTo < k

PublishOutput ==
    /\ piped < produced
    /\ piped' = piped + 1
    /\ IF link THEN ToWatchers(OnWire("output", piped')) ELSE UNCHANGED stream
    /\ raced' = IF StaleCapture(piped') THEN raced \cup {piped'} ELSE raced
    /\ UNCHANGED <<produced, pane, job, seen, link, requests, open,
                   uiVars, layoutVars, blind, unsaid, events>>

\* A second resize that comes before the monitor has seen the first.
HostResizes ==
    /\ Event
    /\ pane' \in PaneSizes \ {pane}
    /\ unsaid' = (unsaid \/ pane # seen.last)
    /\ UNCHANGED <<produced, piped, job, seen, link, requests, open, stream,
                   uiVars, layoutVars, raced, blind>>

\* A capture that fails: nothing is sent, and nobody tries again.
CaptureFails ==
    /\ blind' = blind \cup 0..produced
    /\ unsaid' = TRUE
    /\ UNCHANGED job

SnapshotRequest ==
    /\ requests > 0 /\ link
    /\ job["watch"] = Idle
    /\ requests' = requests - 1
    /\ \/ /\ job' = [job EXCEPT !["watch"] =
                        [Idle EXCEPT !.step = "size", !.upTo = produced]]
          /\ UNCHANGED <<blind, unsaid>>
       \/ CaptureFails
    /\ UNCHANGED <<produced, piped, pane, seen, link, open, stream,
                   uiVars, layoutVars, raced, events>>

\* The pane's size at that time, or 0 when the query fails.
QuerySize ==
    /\ job["watch"].step = "size"
    /\ \E size \in {pane, 0} :
          job' = [job EXCEPT !["watch"].step = "ready", !["watch"].size = size]
    /\ UNCHANGED <<produced, piped, pane, seen, link, requests, open, stream,
                   uiVars, layoutVars, raced, blind, unsaid, events>>

SendReady(p) ==
    /\ job[p].step = "ready"
    /\ \/ /\ link
          /\ ToWatchers(OnWire("ready", job[p].size))
          /\ job' = [job EXCEPT ![p].step = "chunk"]
          /\ unsaid' = (job[p].size # pane)
       \/ /\ ~link
          /\ job' = [job EXCEPT ![p] = Idle]
          /\ UNCHANGED <<stream, unsaid>>
    /\ UNCHANGED <<produced, piped, pane, seen, link, requests, open,
                   uiVars, layoutVars, raced, blind, events>>

SendChunk(p) ==
    /\ job[p].step = "chunk"
    /\ ToWatchers(OnWire("chunk", job[p].upTo))
    /\ job' = [job EXCEPT ![p] = Idle]
    /\ blind' = blind \ 0..job[p].upTo
    /\ UNCHANGED <<produced, piped, pane, seen, link, requests, open,
                   uiVars, layoutVars, raced, unsaid, events>>

\* The monitor publishes before it looks again; a query that fails is a tick
\* without effect.  A new size counts as seen also when its capture fails.
MonitorTick ==
    /\ job["monitor"] = Idle
    /\ \/ /\ pane = seen.last /\ seen.next # 0
          /\ seen' = [seen EXCEPT !.next = 0]
          /\ UNCHANGED <<job, unsaid>>
       \/ /\ pane # seen.last /\ pane = seen.next
          /\ seen' = [last |-> pane, next |-> 0]
          /\ \/ /\ job' = [job EXCEPT !["monitor"] =
                              [step |-> "ready", upTo |-> produced, size |-> pane]]
                /\ UNCHANGED unsaid
             \/ unsaid' = TRUE /\ UNCHANGED job
       \/ /\ pane # seen.last /\ pane # seen.next
          /\ seen' = [seen EXCEPT !.next = pane]
          /\ UNCHANGED <<job, unsaid>>
    /\ UNCHANGED <<produced, piped, pane, link, requests, open, stream,
                   uiVars, layoutVars, raced, blind, events>>

\* The daemon loses the relay, and what it wrote last; what a publisher was
\* about to write fails with it, save a re-push that has not begun.
CutLink ==
    /\ link /\ Event
    /\ link' = FALSE /\ requests' = 0
    /\ \E n \in 0..Len(stream) : stream' = SubSeq(stream, 1, n)
    /\ job' = [p \in Publisher |->
                 IF p = "monitor" /\ job[p].step = "ready" THEN job[p] ELSE Idle]
    /\ unsaid' = TRUE
    /\ UNCHANGED <<produced, piped, pane, seen, open,
                   uiVars, layoutVars, raced, blind>>

\* Mutant: the sessions are announced, and no snapshot follows.
AnnounceOnly ==
    /\ ~link /\ link' = TRUE
    /\ UNCHANGED <<produced, piped, pane, job, seen, requests, open, stream,
                   uiVars, layoutVars, raced, blind, unsaid, events>>

\* Connected again: a snapshot without a size, or none when the list of the
\* sessions, the announcement or the capture fails.
Reannounce ==
    /\ ~link /\ link' = TRUE
    /\ \/ /\ job' = [job EXCEPT !["announce"] =
                       [step |-> "chunk", upTo |-> produced, size |-> 0]]
          /\ UNCHANGED <<blind, unsaid>>
       \/ CaptureFails
    /\ UNCHANGED <<produced, piped, pane, seen, requests, open, stream,
                   uiVars, layoutVars, raced, events>>

-----------------------------------------------------------------------------
(* The browser's connection                                                *)

\* A connection that opens brings a watcher of its own; the screen is what
\* it was.
Watch ==
    /\ ~open /\ link /\ Event
    /\ open' = TRUE /\ stream' = <<>> /\ pending' = FALSE
    /\ requests' = requests + 1
    /\ told' = lastGrid
    /\ UNCHANGED <<produced, piped, pane, job, seen, link, screen, grid,
                   uiMode, bridgeMode, container, debounce, lastGrid,
                   raced, blind, unsaid>>

WatchEnds ==
    /\ open
    /\ open' = FALSE /\ stream' = <<>>
    /\ UNCHANGED <<hostVars, uiVars, layoutVars, raced, blind, unsaid, events>>

\* Another browser starts to watch: its snapshot goes to every watcher.
OtherWatches ==
    /\ link /\ Event
    /\ requests' = requests + 1
    /\ UNCHANGED <<produced, piped, pane, job, seen, link, open, stream,
                   uiVars, layoutVars, raced, blind, unsaid>>

\* Another session on the same page: setSession closes the connection and
\* clears the bridge's mode; the terminal, its mode and its grid stay.
SetSession ==
    /\ open /\ Event
    /\ NewSession
    /\ open' = FALSE /\ stream' = <<>>
    /\ bridgeMode' = FALSE
    /\ raced' = {} /\ blind' = {} /\ unsaid' = FALSE
    /\ UNCHANGED <<screen, pending, grid, uiMode, layoutVars>>

-----------------------------------------------------------------------------
(* inbound.ts onText and onBinary, watcher.ts, ui/terminal.ts              *)

\* Mutant: a size of 0 is taken for a size.
AdoptAnySize(size) ==
    /\ bridgeMode' = TRUE
    /\ IF size > 0 THEN uiMode' = TRUE /\ grid' = size ELSE UNCHANGED <<uiMode, grid>>

\* Mutant: the first size that arrives is kept.
AdoptOnce(size) ==
    IF size > 0 /\ ~uiMode THEN bridgeMode' = TRUE /\ uiMode' = TRUE /\ grid' = size
    ELSE UNCHANGED <<bridgeMode, uiMode, grid>>

AdoptSize(size) ==
    IF size > 0 THEN bridgeMode' = TRUE /\ uiMode' = TRUE /\ grid' = size
    ELSE UNCHANGED <<bridgeMode, uiMode, grid>>

OnSnapshotReady(size) ==
    /\ screen' = <<>>
    /\ pending' = TRUE
    /\ AdoptSize(size)

\* Mutant: the fence stays shut.
DrawBehindFence(n) ==
    screen' = [k \in 1..n |-> k] /\ UNCHANGED pending

\* A snapshot clears the screen before it draws, and is its own last chunk.
DrawSnapshot(n) ==
    screen' = [k \in 1..n |-> k] /\ pending' = FALSE

DrawOutput(k) ==
    /\ screen' = IF pending THEN screen ELSE Append(screen, k)
    /\ UNCHANGED pending

Deliver ==
    /\ stream # <<>>
    /\ stream' = Tail(stream)
    /\ LET m == Head(stream) IN
       \/ m.type = "ready" /\ OnSnapshotReady(m.n)
       \/ /\ m.type = "chunk" /\ DrawSnapshot(m.n)
          /\ UNCHANGED <<grid, uiMode, bridgeMode>>
       \/ /\ m.type = "output" /\ DrawOutput(m.n)
          /\ UNCHANGED <<grid, uiMode, bridgeMode>>
    /\ UNCHANGED <<hostVars, open, layoutVars, raced, blind, unsaid, events>>

-----------------------------------------------------------------------------
(* The window                                                              *)

Layout ==
    /\ Event
    /\ container' \in Containers \ {container}
    /\ debounce' = TRUE
    /\ UNCHANGED <<hostVars, open, stream, uiVars, lastGrid, told, raced, blind, unsaid>>

\* Mutant: without a connection there is nothing to remember.
ResizeIfOpen(size) ==
    IF open /\ ~bridgeMode THEN lastGrid' = size /\ told' = size
    ELSE UNCHANGED <<lastGrid, told>>

RequestResize(size) ==
    /\ lastGrid' = size
    /\ told' = IF open /\ ~bridgeMode THEN size ELSE told

Recompute ==
    /\ debounce /\ debounce' = FALSE
    /\ IF uiMode \/ PickGrid(container) = grid
       THEN UNCHANGED <<grid, lastGrid, told>>
       ELSE grid' = PickGrid(container) /\ RequestResize(grid')
    /\ UNCHANGED <<hostVars, open, stream, screen, pending, uiMode, bridgeMode,
                   container, raced, blind, unsaid, events>>

-----------------------------------------------------------------------------
ViewerNext ==
    \/ PaneWrites \/ PublishOutput \/ HostResizes
    \/ SnapshotRequest \/ QuerySize \/ MonitorTick
    \/ \E p \in Publisher : SendReady(p) \/ SendChunk(p)
    \/ CutLink \/ Reannounce
    \/ Watch \/ WatchEnds \/ OtherWatches \/ SetSession
    \/ Deliver \/ Layout \/ Recompute

ViewerSpec == ViewerInit /\ [][ViewerNext]_viewerVars

\* Publishers go on, messages arrive, the supervisor reconnects; a capture may
\* fail each time.
ViewerFairness ==
    /\ WF_viewerVars(Deliver) /\ WF_viewerVars(Reannounce)
    /\ \A p \in Publisher : WF_viewerVars(SendReady(p)) /\ WF_viewerVars(SendChunk(p))
    /\ WF_viewerVars(QuerySize) /\ WF_viewerVars(SnapshotRequest)

FairViewer == ViewerSpec /\ ViewerFairness

-----------------------------------------------------------------------------
\* Nothing is under way between the pane and the screen.
AllDrawn ==
    /\ open /\ link /\ stream = <<>> /\ requests = 0 /\ piped = produced
    /\ \A p \in Publisher : job[p] = Idle

\* Once everything has arrived, an output is missing from the screen only if
\* it went out while a snapshot taken before it was still to be sent (raced:
\* the fence drops it, or the snapshot draws over it), or if the capture that
\* was to bring it failed, for a watch or after a cut, and no later one was
\* sent (blind).  Such a failure is also the only reason why a screen still
\* waits behind its fence.  Neither a lost link, nor a new watch, nor another
\* watcher's snapshot loses anything else.
NothingElseLost ==
    AllDrawn => IF pending THEN 0 \in blind
                ELSE 1..produced \subseteq ToSet(screen) \cup raced \cup blind

\* Once everything has arrived and the monitor has seen the pane's size, the
\* terminal has that size, whichever publishers said which sizes, unless the
\* pane's is unsaid: the last size sent was an older one or none (a watch's
\* query failed, or the monitor overtook it), a capture that was to bring it
\* failed, the daemon was cut off and has sent none since, or the host resized
\* twice before the monitor looked.
GridFollowsPane ==
    AllDrawn /\ seen.last = pane /\ ~unsaid => grid = pane

\* A terminal that was never told a size follows its window, and the daemon
\* hears of it, be it with the watch that follows.
FallbackIsTold ==
    ~uiMode => /\ ~debounce => grid = PickGrid(container)
               /\ open => told = grid

\* A screen that waits for its snapshot gets one, or loses its connection, or
\* the capture that was to bring it has failed.
FenceOpens == pending /\ open ~> ~pending \/ ~open \/ 0 \in blind

=============================================================================
