----------------------------- MODULE Supervisor -----------------------------
(***************************************************************************)
(* The host daemon's relay supervisor: one loop that refreshes the access  *)
(* token, dials the relay, publishes the new client to the rest of the     *)
(* daemon, re-announces the stored sessions and waits for the connection   *)
(* to die.  StartSession announces its session through the same client     *)
(* slot, and at the other end the relay reads session.online frames into   *)
(* its routing table, one goroutine per connection.                        *)
(***************************************************************************)
EXTENDS Integers, Sequences

CONSTANTS
    Session,        \* sessions of this host
    Conn,           \* connections: re-used once both ends are through with one
    NoConn,         \* no connection
    AuthLimit,      \* persistentAuthFailures
    MaxAttempt      \* bound: the attempt counter saturates here

ASSUME SupervisorAssumption ==
    /\ NoConn \notin Conn
    /\ AuthLimit \in Nat \ {0}
    /\ MaxAttempt \in Nat \ {0}

VARIABLES
    pc,             \* where the loop of Run is
    phase,          \* RelayState.Phase
    attempt,        \* RelayState.Attempt
    authFailures,   \* RelayState.AuthFailures
    client,         \* the atomic client slot
    names,          \* files that the callback's List has still to read
    todo,           \* sessions the reconnect callback has still to announce
    cancelled,      \* the daemon's context is done
    tokens,         \* which tokens still work: a subset of {"access", "refresh"}
    stored,         \* the sessions in the local store, all of them running
    torn,           \* those whose file is there and does not parse
    start,          \* start[s]: how far the StartSession of s has come
    using,          \* using[s]: the client that StartSession of s has loaded
    link,           \* link[c]: the connection between the two ends
    inbox,          \* inbox[c]: session.online frames the relay has to read
    route,          \* route[s]: the relay's registry.daemons
    refused,        \* history: dials refused in a row as unauthorized
    astray          \* history: see RouteRestored

loopVars == <<pc, phase, attempt, authFailures, client, names, todo, refused>>
startVars == <<stored, torn, start, using>>
relaySide == <<inbox, route, astray>>
supervisorVars == <<loopVars, cancelled, tokens, startVars, link, relaySide>>

Pc == {"top", "refresh", "dial", "install", "list", "announce", "watch", "sleep",
       "stopped", "gaveup"}
StartStage == {"new", "saving", "saved", "writing", "ok", "failed"}

\* up: usable.  down: dead, and the relay's goroutine has not noticed yet.
\* free: the relay has no goroutine for it (any more).
LinkState == {"up", "down", "free"}

SupervisorTypeOK ==
    /\ pc \in Pc
    /\ phase \in {"connecting", "connected", "reconnecting", "closed"}
    /\ attempt \in 0 .. MaxAttempt
    /\ authFailures \in 0 .. AuthLimit
    /\ client \in Conn \cup {NoConn}
    /\ names \subseteq Session /\ todo \subseteq Session
    /\ stored \subseteq Session /\ torn \subseteq Session
    /\ cancelled \in BOOLEAN
    /\ tokens \subseteq {"access", "refresh"}
    /\ start \in [Session -> StartStage]
    /\ using \in [Session -> Conn \cup {NoConn}]
    /\ link \in [Conn -> LinkState]
    /\ inbox \in [Conn -> Seq(Session)]
    /\ route \in [Session -> Conn \cup {NoConn}]
    /\ refused \in Nat /\ astray \subseteq Session

\* The daemon boots with whatever sessions an earlier one left in the store,
\* and whatever files its death left half written.
SupervisorInit ==
    /\ pc = "top" /\ phase = "connecting"
    /\ attempt = 0 /\ authFailures = 0 /\ refused = 0
    /\ client = NoConn /\ names = {} /\ todo = {}
    /\ cancelled = FALSE
    /\ tokens \in SUBSET {"access", "refresh"}
    /\ stored \in SUBSET Session /\ torn \in SUBSET (Session \ stored)
    /\ start = [s \in Session |-> IF s \in stored THEN "ok"
                                  ELSE IF s \in torn THEN "failed" ELSE "new"]
    /\ using = [s \in Session |-> NoConn]
    /\ link = [c \in Conn |-> "free"]
    /\ inbox = [c \in Conn |-> <<>>]
    /\ route = [s \in Session |-> NoConn] /\ astray = {}

-----------------------------------------------------------------------------
(* The loop of Run                                                         *)

\* Mutant: the failure is not counted.
NextAttemptUncounted == attempt

NextAttempt == IF attempt < MaxAttempt THEN attempt + 1 ELSE attempt

unchangedWorld == UNCHANGED <<cancelled, tokens, startVars, link, relaySide>>

\* terminalClosed
Stop ==
    /\ pc' = "stopped" /\ phase' = "closed"
    /\ UNCHANGED <<attempt, authFailures, client, names, todo>>

\* Mutant: an unreachable relay counts as a refusal.
IsAuthErrorAny(err) == err \in {"401", "transport"}

\* Only an error text with 401 or unauthorized in it counts.  The refresher
\* reports a rejected refresh token as ErrReLoginRequired, whose text has
\* neither.
IsAuthError(err) == err = "401"

\* Mutant: one failure too many.
AuthLimitPassed(n) == n > AuthLimit

AuthLimitReached(n) == n >= AuthLimit

Counted(err) == refused' = IF err = "401" THEN refused + 1 ELSE 0

\* Mutant: the context is not looked at.
FailedUncancelled(err) ==
    /\ pc' = "sleep" /\ phase' = "reconnecting"
    /\ attempt' = NextAttempt
    /\ authFailures' = 0
    /\ Counted(err)
    /\ UNCHANGED <<client, names, todo, cancelled>>

\* The error branch that EnsureFresh and the dial share.
Failed(err) ==
    /\ \/ cancelled /\ Stop /\ UNCHANGED cancelled
       \/ /\ ~cancelled /\ IsAuthError(err)
          /\ authFailures' = authFailures + 1
          /\ IF AuthLimitReached(authFailures + 1)
             THEN /\ pc' = "gaveup" /\ phase' = "closed"
                  /\ cancelled' = TRUE
                  /\ UNCHANGED attempt
             ELSE /\ pc' = "sleep" /\ phase' = "reconnecting"
                  /\ attempt' = NextAttempt
                  /\ UNCHANGED cancelled
          /\ UNCHANGED <<client, names, todo>>
       \/ /\ ~cancelled /\ ~IsAuthError(err)
          /\ pc' = "sleep" /\ phase' = "reconnecting"
          /\ attempt' = NextAttempt
          /\ authFailures' = 0
          /\ UNCHANGED <<client, names, todo, cancelled>>
    /\ Counted(err)

unchangedByFailure == UNCHANGED <<tokens, startVars, link, relaySide>>

StartAttempt ==
    /\ pc = "top"
    /\ pc' = "refresh" /\ phase' = "connecting"
    /\ UNCHANGED <<attempt, authFailures, client, names, todo, refused>>
    /\ unchangedWorld

\* EnsureFresh: a fresh access token is used as it is, another one is traded
\* in with the refresh token.
Refreshed ==
    /\ pc = "refresh" /\ tokens # {}
    /\ pc' = "dial"
    /\ tokens' = tokens \cup {"access"}
    /\ UNCHANGED <<phase, attempt, authFailures, client, names, todo, refused,
                   cancelled, startVars, link, relaySide>>

RefreshFailed ==
    /\ pc = "refresh" /\ "access" \notin tokens
    /\ \/ "refresh" \in tokens /\ Failed("transport")
       \/ "refresh" \notin tokens /\ Failed("relogin")
    /\ unchangedByFailure

\* A connection of its own for every dial; a dial under a context that is
\* done fails.
Dialled ==
    /\ pc = "dial" /\ "access" \in tokens /\ ~cancelled
    /\ \E c \in Conn :
          /\ link[c] = "free" /\ \A s \in Session : using[s] # c
          /\ link' = [link EXCEPT ![c] = "up"]
          /\ client' = c
    /\ pc' = "install" /\ astray' = {}
    /\ UNCHANGED <<phase, attempt, authFailures, names, todo, refused,
                   cancelled, tokens, startVars, inbox, route>>

\* A refusal is the answer of whatever stands in front of the relay: the
\* relay itself accepts every handshake.
DialFailed ==
    /\ pc = "dial"
    /\ \/ Failed("transport")
       \/ Failed("401")
    /\ unchangedByFailure

\* The state turns connected, after the new client was published, and the
\* callback begins: store.List takes the names of the files there are.
Install ==
    /\ pc = "install"
    /\ pc' = "list" /\ phase' = "connected"
    /\ authFailures' = 0 /\ refused' = 0
    /\ names' = stored \cup torn
    /\ UNCHANGED <<attempt, client, todo>>
    /\ unchangedWorld

\* It reads one file after the other.
ReadFile ==
    /\ pc = "list"
    /\ \E s \in names \cap stored : names' = names \ {s} /\ todo' = todo \cup {s}
    /\ UNCHANGED <<pc, phase, attempt, authFailures, client, refused>>
    /\ unchangedWorld

\* One file that is gone by now, or does not parse, fails all of it, on which
\* the callback is over.  StartSession announces what it has yet to announce.
ListFails ==
    /\ pc = "list" /\ ~(names \subseteq stored)
    /\ pc' = "watch" /\ names' = {} /\ todo' = {}
    /\ astray' = astray \cup {s \in stored : start[s] # "saved"}
    /\ UNCHANGED <<phase, attempt, authFailures, client, refused,
                   cancelled, tokens, startVars, link, inbox, route>>

Listed ==
    /\ pc = "list" /\ names = {}
    /\ pc' = "announce"
    /\ UNCHANGED <<phase, attempt, authFailures, client, names, todo, refused>>
    /\ unchangedWorld

\* session.online on connection c: lost when c is down.
Write(c, s) ==
    inbox' = IF link[c] = "up" THEN [inbox EXCEPT ![c] = Append(@, s)] ELSE inbox

\* ReannounceAllSessions: an error is logged and the loop goes on.
Announce ==
    /\ pc = "announce"
    /\ \E s \in todo : Write(client, s) /\ todo' = todo \ {s}
    /\ UNCHANGED <<pc, phase, attempt, authFailures, client, names, refused,
                   cancelled, tokens, startVars, link, route, astray>>

AllAnnounced ==
    /\ pc = "announce" /\ todo = {}
    /\ pc' = "watch"
    /\ UNCHANGED <<phase, attempt, authFailures, client, names, todo, refused>>
    /\ unchangedWorld

\* Mutant: the slot keeps the closed client.
WatchCancelledKeepsSlot ==
    /\ pc = "watch" /\ cancelled
    /\ pc' = "stopped" /\ phase' = "closed"
    /\ link' = [link EXCEPT ![client] = IF @ = "up" THEN "down" ELSE @]
    /\ UNCHANGED <<attempt, authFailures, client, names, todo, refused,
                   cancelled, tokens, startVars, relaySide>>

\* The select of Run, first case: close the connection and leave.
WatchCancelled ==
    /\ pc = "watch" /\ cancelled
    /\ pc' = "stopped" /\ phase' = "closed"
    /\ client' = NoConn
    /\ link' = [link EXCEPT ![client] = IF @ = "up" THEN "down" ELSE @]
    /\ UNCHANGED <<attempt, authFailures, names, todo, refused,
                   cancelled, tokens, startVars, relaySide>>

\* Mutant: a connection the relay has already given up is not noticed.
WatchLostTooLate ==
    /\ pc = "watch" /\ link[client] = "down"
    /\ pc' = "sleep" /\ phase' = "reconnecting"
    /\ client' = NoConn
    /\ attempt' = NextAttempt
    /\ UNCHANGED <<authFailures, names, todo, refused>>
    /\ unchangedWorld

\* Second case: the client's read loop has ended.
WatchLost ==
    /\ pc = "watch" /\ link[client] # "up"
    /\ pc' = "sleep" /\ phase' = "reconnecting"
    /\ client' = NoConn
    /\ attempt' = NextAttempt
    /\ UNCHANGED <<authFailures, names, todo, refused>>
    /\ unchangedWorld

\* backoffSleep: the end of the delay may win against a context that is done.
Awake ==
    /\ pc = "sleep"
    /\ pc' = "top"
    /\ UNCHANGED <<phase, attempt, authFailures, client, names, todo, refused>>
    /\ unchangedWorld

SleepCancelled ==
    /\ pc = "sleep" /\ cancelled
    /\ Stop
    /\ UNCHANGED refused
    /\ unchangedWorld

Run ==
    \/ StartAttempt \/ Refreshed \/ RefreshFailed \/ Dialled \/ DialFailed
    \/ Install \/ ReadFile \/ ListFails \/ Listed \/ Announce \/ AllAnnounced
    \/ WatchCancelled \/ WatchLost \/ Awake \/ SleepCancelled

-----------------------------------------------------------------------------
(* StartSession, from the moment its tmux session runs                     *)

\* os.WriteFile truncates the file and then writes it.
OpenLocal(s) ==
    /\ start[s] = "new"
    /\ \/ start' = [start EXCEPT ![s] = "saving"] /\ torn' = torn \cup {s}
       \/ start' = [start EXCEPT ![s] = "failed"] /\ UNCHANGED torn
    /\ UNCHANGED <<loopVars, cancelled, tokens, stored, using, link, relaySide>>

\* A write that fails leaves the file as it is, and ends the call.
SaveLocal(s) ==
    /\ start[s] = "saving"
    /\ \/ /\ start' = [start EXCEPT ![s] = "saved"]
          /\ stored' = stored \cup {s} /\ torn' = torn \ {s}
       \/ start' = [start EXCEPT ![s] = "failed"] /\ UNCHANGED <<stored, torn>>
    /\ UNCHANGED <<loopVars, cancelled, tokens, using, link, relaySide>>

\* EndSession or the reaper is through with the session.
DeleteLocal(s) ==
    /\ s \in stored
    /\ stored' = stored \ {s}
    /\ UNCHANGED <<loopVars, cancelled, tokens, torn, start, using, link, relaySide>>

\* AnnounceSession loads the slot once; empty means ErrNotConnected, which
\* fails the call although the session runs.
LoadClient(s) ==
    /\ start[s] = "saved"
    /\ using' = [using EXCEPT ![s] = client]
    /\ start' = [start EXCEPT ![s] = IF client = NoConn THEN "failed" ELSE "writing"]
    /\ UNCHANGED <<loopVars, cancelled, tokens, stored, torn, link, relaySide>>

\* A write on a dead connection fails, or is lost unnoticed.
WriteOnline(s) ==
    /\ start[s] = "writing"
    /\ Write(using[s], s)
    /\ \/ start' = [start EXCEPT ![s] = "ok"]
       \/ link[using[s]] # "up" /\ start' = [start EXCEPT ![s] = "failed"]
    /\ using' = [using EXCEPT ![s] = NoConn]
    /\ UNCHANGED <<loopVars, cancelled, tokens, stored, torn, link, route, astray>>

-----------------------------------------------------------------------------
(* The relay's end and the rest of the world                               *)

\* The goroutine of c reads the next frame: the last reader wins the route,
\* also when the daemon has another connection by now.
ReadOnline(c) ==
    /\ inbox[c] # <<>>
    /\ route' = [route EXCEPT ![Head(inbox[c])] = c]
    /\ inbox' = [inbox EXCEPT ![c] = Tail(@)]
    /\ astray' = IF c = client THEN astray \ {Head(inbox[c])}
                               ELSE astray \cup {Head(inbox[c])}
    /\ UNCHANGED <<loopVars, cancelled, tokens, startVars, link>>

\* Mutant: the routes go whoever they point to by now.
RemovePeerAllRoutes(c) ==
    /\ link[c] = "down" /\ inbox[c] = <<>>
    /\ link' = [link EXCEPT ![c] = "free"]
    /\ route' = [s \in Session |-> NoConn]
    /\ UNCHANGED <<loopVars, cancelled, tokens, startVars, inbox, astray>>

\* The goroutine of c has read everything: removePeer.
RemovePeer(c) ==
    /\ link[c] = "down" /\ inbox[c] = <<>>
    /\ link' = [link EXCEPT ![c] = "free"]
    /\ route' = [s \in Session |-> IF route[s] = c THEN NoConn ELSE route[s]]
    /\ UNCHANGED <<loopVars, cancelled, tokens, startVars, inbox, astray>>

\* What the relay has received it reads all the same.
LoseLink(c) ==
    /\ link[c] = "up"
    /\ link' = [link EXCEPT ![c] = "down"]
    /\ \E n \in 0 .. Len(inbox[c]) : inbox' = [inbox EXCEPT ![c] = SubSeq(@, 1, n)]
    /\ UNCHANGED <<loopVars, cancelled, tokens, startVars, route, astray>>

\* The relay process dies and comes back empty.
RelayRestart ==
    /\ link' = [c \in Conn |-> "free"]
    /\ inbox' = [c \in Conn |-> <<>>]
    /\ route' = [s \in Session |-> NoConn]
    /\ UNCHANGED <<loopVars, cancelled, tokens, startVars, astray>>

AccessExpires ==
    /\ "access" \in tokens
    /\ tokens' = tokens \ {"access"}
    /\ UNCHANGED <<loopVars, cancelled, startVars, link, relaySide>>

RefreshExpires ==
    /\ "refresh" \in tokens
    /\ tokens' = tokens \ {"refresh"}
    /\ UNCHANGED <<loopVars, cancelled, startVars, link, relaySide>>

\* The Shutdown RPC or a signal.
Cancel ==
    /\ ~cancelled
    /\ cancelled' = TRUE
    /\ UNCHANGED <<loopVars, tokens, startVars, link, relaySide>>

StoreOf(s) == OpenLocal(s) \/ SaveLocal(s) \/ DeleteLocal(s)

Starts == \E s \in Session : StoreOf(s) \/ LoadClient(s) \/ WriteOnline(s)

RelayEnd == \E c \in Conn : ReadOnline(c) \/ RemovePeer(c)

World ==
    \/ AccessExpires \/ RefreshExpires \/ Cancel \/ RelayRestart
    \/ \E c \in Conn : LoseLink(c)

SupervisorNext == Run \/ Starts \/ RelayEnd \/ World

SupervisorSpec == SupervisorInit /\ [][SupervisorNext]_supervisorVars

\* Every goroutine is scheduled, and a control plane and a relay that are
\* asked again and again answer at some time.
SupervisorFairness ==
    /\ WF_supervisorVars(Run)
    /\ SF_supervisorVars(Refreshed)
    /\ SF_supervisorVars(Dialled)
    /\ \A c \in Conn : WF_supervisorVars(ReadOnline(c) \/ RemovePeer(c))
    /\ \A s \in Session : WF_supervisorVars(LoadClient(s) \/ WriteOnline(s))

FairSupervisor == SupervisorSpec /\ SupervisorFairness

-----------------------------------------------------------------------------
\* Publishers never get a client of a supervisor that is down, and while the
\* loop sits on a connection the slot holds it.
SlotFollowsLoop ==
    client # NoConn <=> pc \in {"install", "list", "announce", "watch"}

\* The delay before the next attempt is looked up at attempt - 1, an index
\* that exists only once a failure was counted.
DelayDefined == pc = "sleep" => attempt >= 1

\* The daemon shuts itself down on auth failures only after AuthLimit dials
\* in a row were refused as unauthorized: neither a connection nor any other
\* failure lies between them.
GivesUpOnlyAfterRefusals == pc = "gaveup" => refused = AuthLimit

\* Re-announcing restores the routing table: when the connection is up, the
\* callback is through and the relay has read all of it, every stored session
\* whose start is over is routed to this connection, whatever reconnects,
\* starts and late clean-ups of older connections came in between.  Two things
\* lead a session astray until a frame of this connection brings it back: it
\* was in the store when List failed (manager.go: ReannounceAllSessions), or
\* the relay read a late frame of an older connection after that.
RouteRestored ==
    /\ pc = "watch" /\ link[client] = "up" /\ inbox[client] = <<>>
    => \A s \in stored \ astray :
          start[s] \in {"ok", "failed"} => route[s] = client

\* The daemon never hangs between two connections: again and again it is
\* connected, unless it has stopped or lost its refresh token.
KeepsReconnecting ==
    []<>(\/ pc \in {"stopped", "gaveup"} \/ "refresh" \notin tokens
         \/ client # NoConn /\ link[client] = "up")

\* A cancelled daemon's supervisor ends.
StopsWhenCancelled == cancelled ~> pc \in {"stopped", "gaveup"}

=============================================================================
