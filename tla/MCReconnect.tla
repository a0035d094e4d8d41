---------------------------- MODULE MCReconnect ----------------------------
(* Two visits, room for three supervisors, and a back-off that grows.      *)
EXTENDS Reconnect

MCBackoff == [n \in 1..2 |-> n]

=============================================================================
