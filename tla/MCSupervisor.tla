---------------------------- MODULE MCSupervisor ----------------------------
(* One host with two sessions; two connections are enough for an old one   *)
(* to be cleaned up while a new one is in use.  A behaviour has one of two *)
(* emphases: in "loop" one session stands by while everything happens to   *)
(* the loop, in "routes" both are started and stored and one ends, while   *)
(* tokens stay good, nobody cancels and no dial is refused.  Sessions and  *)
(* unused connections are alike, so that s1 starts and c1 is used first.   *)
EXTENDS Supervisor

CONSTANTS
    s1, s2, c1, c2,
    MaxInbox        \* bound: frames a connection holds

VARIABLE emphasis

MCVars == <<supervisorVars, emphasis>>

S1First == start[s2] # "new" => start[s1] # "new"
C1First ==
    client = NoConn /\ client' = c2
    => link[c1] # "free" \/ \E s \in Session : using[s] = c1

MCInit ==
    /\ SupervisorInit /\ S1First
    /\ emphasis \in {"loop", "routes"}
    /\ IF emphasis = "loop" THEN stored \cup torn \subseteq {s1}
                            ELSE tokens = {"access", "refresh"}

MCNext ==
    /\ SupervisorNext
    /\ UNCHANGED emphasis /\ S1First' /\ C1First
    /\ \A c \in Conn : Len(inbox'[c]) <= MaxInbox
    /\ IF emphasis = "loop"
       THEN UNCHANGED start
       ELSE /\ UNCHANGED <<tokens, cancelled>> /\ refused' = 0
            /\ s2 \in stored => s2 \in stored'

MCSpec == MCInit /\ [][MCNext]_MCVars /\ SupervisorFairness

=============================================================================
