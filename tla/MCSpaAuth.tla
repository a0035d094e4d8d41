----------------------------- MODULE MCSpaAuth -----------------------------
(***************************************************************************)
(* Two situations in one run, which the first state chooses between:       *)
(*   "requests"  two callers, and nobody logs in a second time;            *)
(*   "accounts"  one caller, and a second login, here or in another tab.   *)
(***************************************************************************)
EXTENDS SpaAuth

CONSTANTS c1, c2

VARIABLE situation

SituationsInit == SpaInit /\ situation \in {"requests", "accounts"}

SituationsNext ==
    /\ SpaNext
    /\ UNCHANGED situation
    /\ situation = "requests" => logins' = 1
    /\ situation = "accounts" => pc'[c2] = "idle"

SituationsSpec ==
    /\ SituationsInit /\ [][SituationsNext]_<<spaVars, situation>>
    /\ SpaFairness

=============================================================================
