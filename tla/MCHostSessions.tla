--------------------------- MODULE MCHostSessions ---------------------------
(* Two sessions of one host.                                               *)
EXTENDS HostSessions

CONSTANTS s1, s2

=============================================================================
