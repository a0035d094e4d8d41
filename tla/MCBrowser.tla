------------------------------ MODULE MCBrowser ------------------------------
(***************************************************************************)
(* One run for three parts of a page that share no state: the control of a *)
(* session, its screen, and the list of sessions.  A behaviour is one of   *)
(* the part its first state names; the other two stay where they start.    *)
(* The screen comes three times, to keep what the pane prints apart from   *)
(* what is done to its size: with a pane and a window that keep their      *)
(* sizes, which the monitor knows ("output") or has yet to push ("push",   *)
(* with one event less), and with a pane that prints nothing ("grid").     *)
(***************************************************************************)
EXTENDS SpaControl, Viewer, SessionList

VARIABLE part

browserVarsAll == <<part, controlVars, viewerVars, listVars>>

\* The sizes of a pane and a window that nobody resizes.
SizesRest == pane = 3 /\ container = 3

BrowserInit ==
    /\ part \in {"control", "output", "push", "grid", "list"}
    /\ SpaControlInit /\ ViewerInit /\ SessionListInit
    /\ part # "grid" => SizesRest
    /\ part \in {"control", "output", "list"} => seen.last = pane
    /\ part = "push" => seen.last = 0

ScreenNext ==
    /\ ViewerNext
    /\ part \in {"output", "push"} => SizesRest'
    /\ part = "push" => events' < MaxEvents
    /\ part = "grid" => produced' = 0

BrowserNext ==
    /\ UNCHANGED part
    /\ \/ part = "control" /\ SpaControlNext /\ UNCHANGED <<viewerVars, listVars>>
       \/ /\ part \in {"output", "push", "grid"} /\ ScreenNext
          /\ UNCHANGED <<controlVars, listVars>>
       \/ part = "list" /\ SessionListNext /\ UNCHANGED <<controlVars, viewerVars>>

BrowserSpec ==
    /\ BrowserInit /\ [][BrowserNext]_browserVarsAll
    /\ ControlFairness /\ ViewerFairness /\ ListFairness
=============================================================================
