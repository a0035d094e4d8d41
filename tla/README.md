# Termix in TLA+

Termix runs AI coding tools in tmux sessions of a host and shows them to
browsers. This directory holds TLA+ models of its concurrent core, TLC
configurations that check them on small instances, and TLAPS proofs of what
holds for every instance. Every definition is translated from the code; the
table `map` of PROJECT.json names the lines. Paths below are relative to the
repository, and `web` stands for `web/app/src`.

## The system

| part | state it keeps | operations | hard behaviour |
|---|---|---|---|
| control plane: leases (`go/internal/control`, `relaycontrol`, `sql/queries/control_leases.sql`) | table `control_leases` | acquire, renew, release, get active | several statements per call, one clock reading per call, retries after lost answers |
| control plane: REST API (`controlapi`, `persistence`) | sessions, devices, refresh tokens | create, PATCH, heartbeat, list, login, refresh, logout | PATCH drops leases in a second statement |
| relay (`go/internal/relay`) | registry: daemons, watchers, controllers; one goroutine per connection | online, watch, resize, acquire, renew, release, forward | answers of the control plane come while other goroutines change the registry; connections die anywhere |
| relay supervisor (`relayclient/supervisor.go`) | phase, attempt, auth failures, client slot | refresh, dial, install, re-announce, watch, sleep | reconnects racing StartSession; give-up; shutdown |
| relay client (`relayclient/client.go`) | socket, snapshot generations | announce, publish, snapshot, input | three publishers on one socket |
| session manager (`session`) | local store, per-session goroutines | StartSession, EndSession, Reap, re-announce, pane monitor | flows without a common lock, each step able to fail; crashes |
| host daemon (`hostdaemon`, `daemonipc`) | socket, lifetime | boot, reaper schedule, shutdown | two daemons starting at once |
| credentials (`credentials`) | credentials file | EnsureFresh, RefreshNow, login | the file is shared with other processes |
| browser: session control (`web/session/control.ts`) | state, lease version, renewal timer | request, release, renew, envelopes | grants, refusals and releases cross on the wire |
| browser: screen (`web/session/watcher.ts`, `web/ui/terminal.ts`, `web/bridge/inbound.ts`) | snapshot fence, grid, two mode flags | watch, snapshot, output, resize | snapshots and live output are told apart by order only |
| browser: reconnect (`web/bridge/reconnect.ts`) | one closure per setSession: attempt, deadline | dial, sleep, give up, retry, stop | closures outlive the page that made them |
| browser: tokens (`web/auth`, `web/api/client.ts`) | access token, name, two single-flight slots | probe, login, logout, refresh, fetch | everybody writes the same store |
| browser: pages (`web/pages`, `web/routes`) | route, list of sessions, signs of progress | navigate, guard, list | overlapping requests with shared flags |

A viewer's `control.acquire` goes from the browser to the relay and from there
to the control plane; the answer fills the relay's controller slot, and from
then on the relay forwards the viewer's input to the host's daemon until the
slot's expiry. The browser renews before that. A host daemon keeps one
connection to the relay and announces its sessions on it; what it publishes,
the relay hands on to the watchers. It tells the control plane about its
sessions by REST, and the control plane's PATCH handler drops the lease of a
session that has ended.

What makes the parts correct:

* leases: one device per session at a time; nobody is blocked for longer than a
  TTL; a renewal or release with an old version does nothing;
* relay: input only from the device that holds the lease; the registry names
  live connections; a device that goes away takes its leases with it;
* supervisor: the relay's routing table follows the connection; the loop never
  hangs, stops when told, and gives up on refusals only;
* session manager: a session shown as exited has no pane; an ended session
  leaves the store; no goroutine outlives or misses its session;
* browser: page and relay agree on who has control once their messages have
  arrived, but for two known cases; the lease is renewed in time; the screen loses
  nothing but what the fence is known to drop and what a failed capture was to
  bring; the badge tells the truth about the connection, and
  the dialling ends; the name shown is the one whose token is sent, a cached
  token works, and nobody who waits for a refresh is forgotten; the list shown
  is that of the active tab.

## Modules

| module | what it models |
|---|---|
| `Lease` | What `control_leases` promises: an abstract table whose rows are granted, removed and expire. |
| `ControlPlane` | The lease service behind gRPC and the REST handlers on the session row. A call is `validate`, `check` (acquire), `write`, `reply`; `now` is the clock reading it carries along. Implements `Lease`. |
| `Relay` | EXTENDS `ControlPlane` and replaces its most general caller by the relay's goroutines: an `Ask...` action begins a call, a `Finish...` action handles its answer. |
| `Supervisor` | `Supervisor.Run` as a program counter, with the reconnect callback that reads the store file by file, StartSession's save and its announcement on the shared client slot, and the relay's routing table at the other end of re-used connections. |
| `HostSessions` | StartSession, EndSession and Reap as three program counters over pane, row, file and the two goroutines of a session; crash and boot. |
| `Viewer` | One browser watching one session: the pane and its monitor, the daemon's three publishers, the relay's forwarding, the fence of watcher.ts and the grid of ui/terminal.ts. |
| `SpaControl` | control.ts with its timer, the messages to and from the relay, the relay's slot and lease in one piece, another tab and another device. |
| `ConnectionPhases` | What the terminal page's badge promises about its connection. |
| `Reconnect` | Every closure of `createReconnectSupervisor` that is still alive, the bridges' setSession and closeActive, the terminal page's effects. Implements `ConnectionPhases`. |
| `SpaAuth` | The token store, `inflight`, `inflightWithStatus` and the cold-start probe, fetchWithAuth, freshAccessToken, login, logout, the route guard, the control plane's refresh tokens, and other tabs with the same cookie. |
| `SessionList` | The requests, tabs, timers and signs of progress of pages/sessions.tsx. |
| `LeaseProofs`, `ControlPlaneProofs`, `RelayProofs`, `SupervisorProofs`, `HostProofs`, `ReconnectProofs`, `SpaAuthProofs`, `BrowserProofs` | Theorems; `BrowserProofs` those of SpaControl, SessionList and Viewer. |
| `MC...` | Instances for TLC. |

Composition: `Relay` contains `ControlPlane`, and what it does to the table is
proved to be `Lease`. `SpaControl` is the other side of `Relay`: its slot and row
are the relay's and the control plane's seen as one, because `Relay` has already
taken them apart. `Reconnect` gets tokens from `SpaAuth`'s freshAccessToken and
sees only that they come or do not. `Viewer` begins where `Reconnect` ends, with
an open connection.

Correspondence worth knowing:

* A missing lease row is version 0 of nobody, expired since the beginning, so
  the upsert's insert branch is its update branch.
* `status` merges running and idle (both controllable) and all statuses after
  the end of a session. The reply carries the expiry in whole seconds
  (`WholeSeconds`), because RFC 3339 text without a fraction does.
* In `Relay`, `controller[s]` is `registry.controllers`; `owed[p]` is the list
  that `removePeer` returned and whose releases are still to be sent. A failed
  registry check is answered with `control.denied` and changes nothing, so the
  checks are the guards of the `Ask...` actions. Forwarding changes no state of
  the relay; what it forwards is in `Viewer`.
* In `Supervisor`, a connection is re-used once neither end has it any more, and
  the relay reads what a connection carried before it was lost whenever it gets
  to it. `names` are the files that `List` has globbed and not yet read; one that
  does not parse (`torn`: a save under way, or one cut short by a crash) or is
  gone by then fails the whole callback. What a failed List or a late frame means
  for the relay's forwarding is here and not in `Viewer`: there the relay always
  knows the session, and a watch always reaches the daemon.
* In `HostSessions`, `Faults` names the operations that may fail. The store's
  Save is two steps, because the file is truncated before it is written.
* In `SpaAuth`, `Reconnect`, `SpaControl` and `SessionList` a step is what
  JavaScript does between two waits. A refresh is answered by the control plane
  in one step and handled in another. A stopped supervisor stays in `Reconnect`
  until nothing of it is under way.
* In `SpaControl`, a refusal by the relay's slot check (`Refuse`) leaves the slot,
  one by the control plane after a renew or a release (`RefuseAndClear`) empties it:
  all the reasons the control plane gives for those two are among the ones that
  clear.
* In `Viewer`, an output is a number, a snapshot the count of outputs it shows,
  a size one number, 0 for a query that failed. The monitor pushes a size it has
  seen twice, and takes it for known also when the capture for the push fails.
  Every capture may fail, on which nothing is sent and nobody tries again.
* Time is counted down (`left`, `nap`, `lease.left`) where only durations matter,
  so that clocks need no bound.
* History variables, read by properties only: `refused` (refusals in a row,
  counted by the dial), `spared` (kill-session failed), `crossed` (a login or
  logout ended while others waited), `foreign` (logins of other tabs), `astray`
  (sessions that a failed List passed over, or whose route a late frame of an
  older connection took), `quiet` (time without a connection), `smooth` (nothing
  has gone wrong at the relay), `late` (time passed while a message or a timer
  was due, or the browser's clock is behind), `untold` (what the relay's last
  answer left unsaid of the slot: emptied since, or kept although it refused),
  `raced` and `blind` (outputs that went out between a capture and its sending,
  or that a failed capture was to bring), `unsaid` (the size the pane has is not
  the last one sent), `doubt`, `asked`.

## Runs

| run | instance | shows |
|---|---|---|
| `control_plane` | 1 session, 2 peers on 2 devices, TTL 1, clock up to 2, versions up to 2 | types, the TTL bound, and that calls implement `Lease` |
| `relay` | 1 host, a tab, a phone, TTL 2, whole seconds of 2 ticks, clock up to 3; three situations, below | the one who types holds the lease; closed connections leave no lease; a consistent registry under every fault |
| `supervisor` | 2 sessions, 2 connections of 2 frames each, limit 3; two emphases, below | slot, delay, give-up, routing table; reconnecting and stopping |
| `host_sessions` | 2 sessions, 1 crash, every fault | exited means gone; ended is not polled |
| `host_reap` | 2 sessions, 1 crash, failing PATCHes, probes and deletes | ended sessions are reaped |
| `spa_auth` | 2 callers with 1 login, 1 caller with 3 logins, here or in another tab; lifetime 2, cushion 1, latency 1 | name and token go together; cached tokens work; every call returns |
| `reconnect` | 3 closures, 2 visits, deadline 2, back-off 1, 2 | `ConnectionPhases`; giving up late enough; dialling ends |
| `browser` | three parts of a page, below | control, screen and list |
| `relay_tabs` | two tabs of a laptop, a phone | disagreement: two remote controllers |
| `host_restart` | 2 sessions, 1 crash | disagreement: no output after a restart |
| `wire_bound` | 3 closures, 2 visits, pages left during a dial | disagreement: a connection outlives its page |
| `refresh_401` | 1 caller | disagreement: a refresh that works sends the user to the login page |

`relay` looks at three situations, which its first state chooses between:
`exclusive`, two viewers that compete while the host stays and sessions go on;
`close`, two viewers and a host that come and go while all goes well; `faults`, one
viewer among failing calls, expiring tokens, ended sessions and crashes of the
relay. The first is restricted because its property is: a session that ends and
is revived by a heartbeat loses its row while the relay's slot stays, so another
device may acquire under it until the slot expires. With two connections of one
device even a weaker property fails (`relay_tabs`).

The history variable `smooth` says whether all has gone well (`GoesWell`), and
`ClosedLeavesNoLease` speaks of that time only. The clean-up of a connection is
best effort, as the code calls it: a failed call, an expired token, an ended
session or a crash leaves the lease to run out. So does an answer that is read
after the grant it brings has ended (`AnswersInTime`): it is stored over the slot
that another device has got in the meantime, and when that device goes, nothing
is released for it.

`supervisor` has two emphases. In `loop` one session stands by, stored, torn or
absent, while everything happens to the loop: tokens expire, dials are refused,
the daemon is cancelled. In `routes` both sessions are started, saved, deleted
and announced in every order with the reconnects, while tokens stay good, no dial
is refused and nobody cancels. The theorems have no such split.

`browser` checks `SpaControl`, `Viewer` and `SessionList` in one run: they share no
state, and each behaviour is one of the three. The screen comes three times:
`output` and `push` have a pane that prints and keeps its size, which the monitor
knows or has yet to push (with one event less), `grid` has a pane that prints
nothing while pane and window are resized. The theorems look at all of it at once.

Why the bounds are enough. One session is enough for the leases and the relay:
sessions share nothing but connections, whose clean-up goes over all of them.
Two devices are the holder and the one that wants to be it; a third tab gives
the second connection of one device. The clock passes the expiry of a grant and
a call can straddle it. Two versions let an old one meet a new row. Two
connections let the clean-up of an old one meet the use of a new one. Two
sessions let the reaper's sweep over one meet a start or an end of the other.
Two callers are one to start a refresh and one to join it; a second and a third
login need one request to overtake (both at once only make liveness slow to
check, and safety is proved for any number), and are two accounts in two tabs;
the clock passes the life of a token. Three closures are that of the page, that
of an earlier visit and that of an earlier setSession. Two messages each way let
a grant cross a release. Two pane sizes and two windows, one of them below the
floor, are a size and another. Two requests overlap in every order. `MaxClock`,
`MaxVersion`, `MaxDrops`, `MaxAttempt`, `MaxCrashes`, `MaxNow`, `MaxInbox`,
`MaxLogins`, `MaxVisits`, `Versions` (a modulus), `MaxWire`, `MaxOutput`,
`MaxEvents`, `MaxCalls` and `MaxChanges` are the only bounds on counters and
queues; `MaxAttempt` saturates, as the delay does in the code.

Deadlock is checked in `spa_auth` and `reconnect`. Elsewhere a bounded clock, a
stopped daemon or a spent bound ends a behaviour.

## Fairness

* `FairSupervisor`: every goroutine is scheduled (weak fairness of the loop, of
  each connection's reader and of each StartSession). A refresh and a dial that
  are tried again and again succeed at some time (strong fairness): a control
  plane or relay that never answers refutes any liveness.
* `FairHost`: the reaper's ticker and every RPC in progress go on (weak
  fairness), a dead daemon is started again by the next CLI call (weak fairness
  of `Boot`), and the probe, the PATCH and the delete of a session succeed at
  some time if they are tried again and again (strong fairness). EndSession gets
  none.
* `SpaFairness`: the browser settles every request, with an answer or an error.
* `FairReconnect`: timers fire, and every dial and refresh is settled. Users,
  lost connections and successful dials get none.
* `ControlFairness`, `ViewerFairness`, `ListFairness`: messages arrive and are
  handled in order, timers fire, the daemon's publishers and its reconnect go
  on, the oldest request ends. Users, rivals and the pane get none. That the
  publishers go on does not mean that they succeed: a fair step of theirs may be a
  capture that fails.

## Where code and texts disagree

Four runs each find one property, quoted from a text of the repository,
violated; PROJECT.json quotes the texts.

* `relay_tabs`: a grant is stored in the registry in the order in which the
  goroutines come back, and a refused acquire leaves the slot alone, so two
  tabs and a phone can end with two devices whose input is accepted.
* `host_restart`: only StartSession starts the reader of a pane's output.
* `wire_bound`: `stop` leaves a dial alone; when it opens, nobody closes it.
* `refresh_401`: fetchWithAuth empties the token store before it waits, and
  AuthGuard acts on the empty store.

Met while modelling, and not a run:

* The refresher's `ErrReLoginRequired` has no "401" in its text, so
  `relayclient/supervisor.go:332` does not take a dead refresh token for a refusal
  and retries it forever; the reconnect design
  (`docs/superpowers/specs/2026-05-08-relay-reconnect-and-status-design.md:444`)
  lets it end in a shutdown.
* A daemon that dies between the truncation and the write of `session/store.go:29`
  leaves a file on which `List` (line 62) fails, and with it every sweep and
  every re-announcement. `GoneSessionsReaped` excludes a store with such a file.
  A save that is under way does the same to the re-announcement: the running
  sessions stay without a route on a connection that is up, until the next one.
  The comment at `session/manager.go:675` says that "one bad session must not stall
  re-announcement of the rest"; one bad file does (`astray`).
* A session that ends by itself is reaped without stopping its monitor
  (`session/manager.go:646`). `EndedUnwatched` speaks of those EndSession ended.
* `web/auth/refresh.ts:60`: the fast path returns outside the `try` whose `finally`
  empties the slot, so the slot keeps a token with 5 to 60 s left and hands it
  out afterwards. The model has such slots (`stuck`), and `CachedTokenWorks` speaks
  of the cache only.
* A login or logout that overtakes a request under way leaves one login's name
  with another's token (`crossed`). So does a login in another tab, which has the
  same cookie: the next refresh brings its token and leaves the name (`foreign`).
* A user who releases control while a renewal is under way ends with control
  denied: the relay grants the renewal and refuses the release for its old version
  (`relay/server.go:358`). The slot stays the page's, which no longer renews it,
  until it expires (`untold` = "kept").
* A slot that expires, or that another tab or device takes, is emptied without a
  word to the page that had it (`untold` = "emptied"); it finds out by its next
  renewal (`LearnsOfLoss`).
* An answer of the session list that was overtaken overwrites the newer one
  (`doubt`). A request that fails within 200 ms does not stop the timer of the
  spinner, which then appears for nothing.
* The fence drops output that went out between the capture and the sending of a
  snapshot (`raced`): it is in neither, although the comment at watcher.ts:12-16
  says that what is dropped belongs to the snapshot.
* A capture that fails is not tried again (`relayclient/client.go:360`,
  `session/manager.go:697`): output that it was to bring stays missing, and a screen
  that had a snapshot.ready before the cut stays behind its fence, with the
  connection open (`blind`).
* The re-announcement sends a snapshot without a size, so a resize during a cut
  stays unknown (`unsaid`). So does a size whose capture failed, because the monitor
  has noted it by then (`session/manager.go:1059`), and one that an older size
  overtakes: a watch reads the size and writes it later, when the monitor's push may
  be out; and a pane resized from A to B and back while the push of B waits leaves
  the terminal at B.
* setSession clears the bridge's `authoritativeMode` (`web/bridge/inbound.ts:66`) and
  not the terminal's own flag (`web/ui/terminal.ts:146`).
* A user who leaves a page that waits for its token breaks
  `ConnectionPhases` (`Patient` = FALSE): the closure of the page that is gone
  reports to the one that came. `RetryRelay` is modelled for a loop that has
  returned, which with `Patient` is always so when the button is there.

## Proofs

`LeaseProofs`: the invariant is the type invariant with `ExpiryWithinTTL`; the two
action properties follow from a case split on the step.

`ControlPlaneProofs`: the invariant `ControlInv` is the types and `CallOK`: a call
names a session and its clock reading is not ahead of the clock. Without it a
write could not be a `Grant`: the two granting statements compare the row with
the reading of the call, and a row that had expired at an earlier reading is
still expired. Each action of `ControlNext` is then a step of `LeaseNext` or
leaves clock and lease alone (`ControlImplementsLease`), and the TTL bound of
`LeaseProofs` carries over (`ControlExpiry`).

`RelayProofs`: the lemmas up to `RelayControlStep` reduce every relay action to a
step of the control plane, so `RelayImplementsLease` follows from the lemmas of
`ControlPlaneProofs`. `RegistryConsistent` is not inductive: a grant that is
still on its way is put into the slot without looking at the registry again.
`CallFitsConn` adds why that is safe: watchers are only removed by the goroutine
that waits for the answer, a goroutine that is gone waits for none, and one that
is leaving only releases.

`RelayTypist` proves `TypistHoldsLease` for any number of sessions and devices
with one tab each, under every fault, as long as no host reports an end
(`OneTabEach`; without either half it is false, see above). `HoldInv` is the
argument: a slot that runs is covered by the row (`SlotOK`) unless its release
is being answered; a grant on its way is still the row (`GrantOK`); and a call
that is about to write has a reading so late that it cannot shorten what the
slot promises (`NowOK`). Another device's write finds a row that runs past its
own clock reading and is refused. Most actions write no row and fill no slot;
`QuietHold` settles them together, and ticks, grants, releases, answers and
crashes have a lemma each.

`RelayClose` proves `ClosedLeavesNoLease` for the same devices, with every
fault: what holds while all has gone well is `CloseInv`. A row and its owner
meet in four places (`RowIsKnown`): the row is in the owner's slot, in a grant
on its way there, on the list of a connection that is leaving, or in the release
under way. What moves it on must carry the right version, so `QuotesRow` says it
of every renewal and release, those on the list included, and `EndIsTrue` says
that an answer that empties the slot tells the truth; `GrantIsRow` says that a
grant on its way is the row, to the version, which is where `AnswersInTime` is
needed. `TidyFrame` keeps all of it for whoever has no part in a step, so each
action is looked at for its own viewer only.

`SupervisorProofs`: `CountsRefusals` ties the loop's own failure counter to the
history variable; the invariant is split into the part the loop writes
(`LoopInv`) and the rest, so that each action is looked at for one of them.
`RoutesAreRestored` needs more: once nothing is left to read it is too late to
say who would announce a session. `RoutesOnTheWay` says it at every moment: the
relay has the route, or the reconnect callback has the session on its list or
among the files it has still to read, or a frame is queued, or StartSession is
about to announce it or has not asked for the slot yet, or it is astray. `OneUp`
keeps the connections apart: no other one than the slot's is up. The theorem has
no assumption on the network: what a late frame takes is in `astray`.

`HostProofs`: `KnownIsStarted` says that the store, EndSession and the reaper know
only sessions whose start is over, so no pane comes to life behind a flow that
has seen it dead; `GoneBeforePatch` says that whoever is about to report a
session as exited has seen to its pane. `ExitedMeansGone` follows.

`ReconnectProofs`: `ReconnectInv` adds to the types that a closure belongs to a
visit there has been, sleeps no longer than to its deadline, and that the
bridge's current one has not been stopped; it holds for every user. For the
refinement, `PageFits` says that no bridge but the page's has a supervisor and
that whoever waits for a token waits for this visit, so everybody else's reports
change nothing; `ShownFits` says what the badge may show for what the current
loop waits for, and that silence and the time to the deadline add up to
`GiveUpAfter`. `ReconnectImplementsPhases` then maps every step to a step of
`ConnectionPhases` or none, and `ReconnectGivesUpLate` reads the silence off the
deadline. `ReconnectBadge` reads off the same invariant what the badge says of
the loop (`BadgeTellsLoop`). All but the types assume `Patient`: the user leaves
no page that waits for its token. The code does not enforce it.

`SpaAuthProofs`: `StoreInv` says that the browser's count of a token's life is
ahead of the control plane's by at most `Latency`, in the store and in the
answers under way; `Latency <= Cushion` then gives `SpaCachedToken`. `UserInv` says
that behind the splash there is the probe and nothing else (`Dark`), and, while
nothing has crossed, that the token, the name, the cookie and every refresh under
way are the page's own login's or one of another tab's (`OneLogin`).

`BrowserProofs`, control: an agreement about an empty wire is not inductive.
`Expected` is the state the page will be in when it has read what is under way
to it, and `AgreeInv` says that this state fits the relay's slot, up to what
`untold` names, or that a message is under way that the relay will answer
(`AnswerDue`). `TimeInv` says that the version in the slot is the row's, and
that the timer ends before the lease while nothing was late. List: `ListInv`
says which of the requests under way decides what will be shown. Screen:
`ScreenInv` ties the bridge's memory of the size to the terminal's grid, and the
daemon's to both.

What the screen will show is again a question about a queue. `WillShow(k)` says
that output k is on the screen, or in a message under way that the fence will
let through (`ShutAt`), and that no message behind it takes it away. `LossInv`
says that every output that went out is raced or blind, in a capture that is
still to be sent, or will be shown (`NoneForgotten`); that a capture without an
output that has gone out makes it raced (`OlderIsRaced`); and that a fence that
nobody is about to open (`Stranded`) is one whose capture failed
(`FenceWillOpen`), without which an output might wait for nothing. `SizeKnown`
does the same for the size: while it is not unsaid, the grid is the pane's or
will be (`WillFit`), or a publisher is about to say it (`SizeComes`).
`ViewerLoss` and `ViewerGrid` read the two off an empty queue and assume nothing
of host or network.

The theorems assume what the modules state about their constants
(`LeaseAssumption`, `ControlAssumption`, `RelayAssumption`, `SupervisorAssumption`,
`HostAssumption`, `ReconnectAssumption`, `SpaAuthAssumption`,
`SpaControlAssumption`, `SessionListAssumption`, `ViewerAssumption`), which TLC
evaluates on its instances, and where it is said above `OneTabEach` or
`Patient`. Both describe an environment, and without them TLC finds the
properties violated. The inductive
invariants are state predicates like any other: `CloseInv`, `RouteInv`, `LossInv` and
`SizeKnown` hold on the instances of the runs when TLC gets them for INVARIANTS.

What stays with TLC: liveness (`KeepsReconnecting`, `StopsWhenCancelled`,
`GoneSessionsReaped`, `EveryCallReturns`, `DialSettles`, `LearnsOfLoss`, `FenceOpens`,
`ButtonComesBack`), because ENABLED and so fairness is out of the prover's reach.
Every invariant, action property and refinement of a passing run is a theorem.
No module declares a RECURSIVE operator and nothing is proved by induction over
data, which the prover could not do either.

## Not modelled

* The daemon socket: `daemonipc` probes, removes and binds it in separate steps,
  which two daemons that start together can interleave. It keeps no state after
  that.
* The credentials file that the daemon's refresher and `termix login` share: two
  processes on one file, and nothing in the code that would order them.
  `Supervisor` sees the outcome of a refresh.
* A call that reaches the control plane after its caller has given it up, and
  clocks of relay and control plane that differ; the browser's clock may differ
  (`Skew`).
* The relay client's generations (no reader in the browser) and captureStable
  (no caller); snapshots of more than one chunk (the daemon sends one).
* Lists, status computed on reading (disconnected after 90 s), the REST twins of
  the lease calls (they share the lease service), doctor, configuration.
* Accounts and password hashing: request and response over single rows. Refresh
  tokens appear in `SpaAuth` as logins that are live or revoked.
* Wire formats, rendering, widgets, translations, the debug overlay, deployment
  and generated code: data or layout, no state that several actors share.
