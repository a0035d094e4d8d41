-------------------------- MODULE ConnectionPhases --------------------------
(***************************************************************************)
(* What the terminal page promises its user about the connection to the    *)
(* relay: the badge tells the truth, a lost connection is dialled again,    *)
(* and giving up ends the dialling until the user asks for more.           *)
(***************************************************************************)

VARIABLES
    phase,          \* what the badge shows, "none" with no terminal page
    link            \* the page has a connection that is open

Phase == {"none", "connecting", "connected", "reconnecting", "gave-up"}

phaseVars == <<phase, link>>

PhaseInit == phase = "none" /\ link = FALSE

Arrive == phase = "none" /\ phase' = "connecting" /\ link' = FALSE

Depart == phase # "none" /\ phase' = "none" /\ link' = FALSE

\* A new connection instead of the one the page has, or gave up on.
Redial == phase # "none" /\ phase' = "connecting" /\ link' = FALSE

Connected ==
    /\ phase \in {"connecting", "reconnecting"} /\ ~link
    /\ phase' = "connected" /\ link' = TRUE

\* The connection is lost, or an attempt failed.
Dropped ==
    /\ phase \in {"connecting", "connected", "reconnecting"}
    /\ phase' = "reconnecting" /\ link' = FALSE

GiveUp == phase = "reconnecting" /\ phase' = "gave-up" /\ UNCHANGED link

Retry == phase = "gave-up" /\ phase' = "reconnecting" /\ UNCHANGED link

PhaseNext ==
    Arrive \/ Depart \/ Redial \/ Connected \/ Dropped \/ GiveUp \/ Retry

PhaseSpec == PhaseInit /\ [][PhaseNext]_phaseVars

\* The badge says "connected" exactly while there is a connection.
BadgeIsTrue == phase \in Phase /\ (link <=> phase = "connected")

=============================================================================
