--------------------------- MODULE MCControlPlane ---------------------------
(* A caller on a laptop and one on a phone, one session.                   *)
EXTENDS ControlPlane

CONSTANTS tab1, tab2, phone, laptop, mobile

MCDeviceOf == [p \in Peer |-> IF p = phone THEN mobile ELSE laptop]

=============================================================================
