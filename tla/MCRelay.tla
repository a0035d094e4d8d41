------------------------------ MODULE MCRelay ------------------------------
(***************************************************************************)
(* Host daemons, tabs of a laptop and a phone around one session.  Each    *)
(* situation has faults of its own; one run looks at the first three,      *)
(* between which its first state chooses:                                  *)
(*   "exclusive"  two viewers compete while the daemon stays;              *)
(*   "close"      two viewers come and go, and all goes well;              *)
(*   "faults"     one viewer, with calls that fail, tokens that expire,    *)
(*                sessions that end and a relay that crashes;              *)
(*   "tabs"       two tabs of one device and a phone, all connected.       *)
(***************************************************************************)
EXTENDS Relay

CONSTANTS host, tab1, tab2, phone, desk, laptop, mobile

VARIABLE situation

MCDeviceOf == [p \in Peer |-> IF p = host THEN desk
                              ELSE IF p = phone THEN mobile ELSE laptop]

\* A reachable start: the session runs, its daemon has announced it and all
\* the viewers watch it.
WatchedInit ==
    /\ LeaseInit
    /\ status = [s \in Session |-> "running"]
    /\ drops = [s \in Session |-> 0]
    /\ authorized = Peer
    /\ call = [p \in Peer |-> Idle]
    /\ conn = [p \in Peer |-> "open"]
    /\ daemonOf = [s \in Session |-> host]
    /\ watching = [p \in Peer |-> IF p \in Viewer THEN Session ELSE {}]
    /\ controller = [s \in Session |-> NoController]
    /\ owed = [p \in Peer |-> {}]
    /\ smooth = TRUE

MCNext == RecordedNext /\ UNCHANGED situation

WatchedSpec ==
    WatchedInit /\ situation = "tabs" /\ [][MCNext]_<<recordedVars, situation>>

SituationsInit ==
    \/ situation = "exclusive" /\ WatchedInit
    \/ situation \in {"close", "faults"} /\ RecordedInit

\* What may happen next in each situation.
Alone == conn'[phone] = "gone" /\ phone \in authorized'
NoFaults ==
    /\ authorized' = Peer
    /\ \A s \in Session : status'[s] # "exited" /\ drops'[s] = 0
    /\ \A p \in Peer : conn[p] # "gone" /\ conn'[p] = "gone"
          => conn[p] = "leaving" /\ owed[p] = {} /\ call[p] = Idle

SituationsNext ==
    /\ MCNext
    /\ \/ situation = "exclusive" /\ NoFaults /\ conn'[host] = "open"
       \/ situation = "close" /\ smooth'
       \/ situation = "faults" /\ Alone

SituationsSpec == SituationsInit /\ [][SituationsNext]_<<recordedVars, situation>>

=============================================================================
