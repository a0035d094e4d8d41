----------------------------- MODULE SessionList -----------------------------
(***************************************************************************)
(* The list of sessions a browser shows: requests that end in any order,   *)
(* the filter that may have changed under them, and the signs of progress  *)
(* (busy button, tick, spinner, snackbar) with their timers.  A list is    *)
(* the filter it was asked for and the sessions as they were then; a       *)
(* refresh of the access token inside a request is part of the request.    *)
(***************************************************************************)
EXTENDS Integers, SequencesExt

CONSTANTS
    MaxCalls,       \* bound on the requests under way
    MaxChanges      \* bound on the changes to the sessions

ASSUME SessionListAssumption == MaxCalls \in Nat \ {0} /\ MaxChanges \in Nat

VARIABLES
    mounted,        \* the page is shown
    filter,         \* the tab that is active
    items,          \* the list shown, NoItems before the first
    calls,          \* requests under way, the oldest first
    changes,        \* changes to the sessions so far
    refreshing, refreshDone,    \* the refresh button: busy, or ticked
    spinner, spinnerTimer,      \* the page's spinner, and the 200 ms before it
    snackbar,       \* a warning is shown
    stale,          \* the last list is more than 5 s old
    doubt,          \* history: the last to end failed, or a newer one had ended
    asked           \* history: the changes when the last request was made

listVars == <<mounted, filter, items, calls, changes, refreshing, refreshDone,
              spinner, spinnerTimer, snackbar, stale, doubt, asked>>
signVars == <<refreshing, refreshDone, spinner, spinnerTimer, snackbar>>

Filter == {"running", "all"}
NoItems == [of |-> "none", at |-> 0]
Call == [step : {"asked", "answered", "failed"}, filter : Filter,
         silent : BOOLEAN, showSuccess : BOOLEAN, at : 0..MaxChanges, late : BOOLEAN]

SessionListTypeOK ==
    /\ mounted \in BOOLEAN /\ filter \in Filter
    /\ items \in [of : Filter, at : 0..MaxChanges] \cup {NoItems}
    /\ calls \in Seq(Call) /\ Len(calls) <= MaxCalls
    /\ changes \in 0..MaxChanges /\ asked \in 0..changes
    /\ {refreshing, refreshDone, spinner, spinnerTimer} \subseteq BOOLEAN
    /\ ~(refreshing /\ refreshDone)
    /\ {snackbar, stale, doubt} \subseteq BOOLEAN

SessionListInit ==
    /\ mounted = FALSE /\ filter = "running" /\ items = NoItems /\ calls = <<>>
    /\ changes = 0 /\ asked = 0
    /\ refreshing = FALSE /\ refreshDone = FALSE
    /\ spinner = FALSE /\ spinnerTimer = FALSE
    /\ snackbar = FALSE /\ stale = TRUE /\ doubt = FALSE

-----------------------------------------------------------------------------
(* sessions.tsx fetch, up to its await                                     *)

\* Mutant: the tick of an earlier refresh stays on the busy button.
BusyKeepsTick(silent) ==
    refreshing' = (~silent \/ refreshing) /\ UNCHANGED refreshDone

Busy(silent) ==
    IF silent THEN UNCHANGED <<refreshing, refreshDone>>
    ELSE refreshing' = TRUE /\ refreshDone' = FALSE

Fetch(silent, showSuccess, nextFilter) ==
    /\ Len(calls) < MaxCalls
    /\ calls' = Append(calls, [step |-> "asked", filter |-> nextFilter,
                               silent |-> silent, showSuccess |-> showSuccess,
                               at |-> 0, late |-> FALSE])
    /\ asked' = changes
    /\ Busy(silent)
    /\ UNCHANGED <<items, changes, spinner, snackbar, stale, doubt>>

Mount ==
    /\ ~mounted /\ mounted' = TRUE
    /\ spinnerTimer' = TRUE
    /\ Fetch(FALSE, FALSE, filter)
    /\ UNCHANGED filter

\* The button is disabled while it is busy.
RefreshClicked ==
    /\ mounted /\ ~refreshing
    /\ Fetch(FALSE, TRUE, filter)
    /\ UNCHANGED <<mounted, filter, spinnerTimer>>

\* Mutant: the request is made for the filter as it was.
SetFilterLate(next) ==
    /\ mounted /\ filter # next
    /\ filter' = next
    /\ Fetch(FALSE, FALSE, filter)
    /\ UNCHANGED <<mounted, spinnerTimer>>

SetFilter(next) ==
    /\ mounted /\ filter # next
    /\ filter' = next
    /\ Fetch(FALSE, FALSE, next)
    /\ UNCHANGED <<mounted, spinnerTimer>>

BecomesVisible ==
    /\ mounted /\ stale
    /\ Fetch(TRUE, FALSE, filter)
    /\ UNCHANGED <<mounted, filter, spinnerTimer>>

-----------------------------------------------------------------------------
(* The server, and what fetch does with its answer                         *)

SessionsChange ==
    /\ changes < MaxChanges
    /\ changes' = changes + 1
    /\ UNCHANGED <<mounted, filter, items, calls, signVars, stale, doubt, asked>>

Answer(i) ==
    /\ calls[i].step = "asked"
    /\ \/ calls' = [calls EXCEPT ![i].step = "answered", ![i].at = changes]
       \/ calls' = [calls EXCEPT ![i].step = "failed"]
    /\ UNCHANGED <<mounted, filter, items, changes, signVars, stale, doubt, asked>>

\* Mutant: a request that fails leaves the button busy.
FreeIfLoaded(c) ==
    /\ refreshing' = (refreshing /\ (c.silent \/ c.step = "failed"))
    /\ refreshDone' = (refreshDone \/ (c.step = "answered" /\ c.showSuccess))

\* The first request to end frees the button for all of them.
Free(c) ==
    /\ refreshing' = (refreshing /\ c.silent)
    /\ refreshDone' = (refreshDone \/ (c.step = "answered" /\ c.showSuccess))

Loaded(c) ==
    /\ c.step = "answered"
    /\ items' = [of |-> c.filter, at |-> c.at]
    /\ stale' = FALSE
    /\ doubt' = c.late
    /\ UNCHANGED snackbar

LoadFailed(c) ==
    /\ c.step = "failed"
    /\ snackbar' = (snackbar \/ ~c.silent)
    /\ doubt' = TRUE
    /\ UNCHANGED <<items, stale>>

\* The requests it overtakes are marked.
Land(i) ==
    /\ Loaded(calls[i]) \/ LoadFailed(calls[i])
    /\ Free(calls[i])
    /\ spinner' = FALSE
    /\ calls' = RemoveAt([j \in 1..Len(calls) |->
                    [calls[j] EXCEPT !.late = @ \/ j < i]], i)
    /\ UNCHANGED <<mounted, filter, changes, spinnerTimer, asked>>

-----------------------------------------------------------------------------
(* Timers                                                                  *)

SpinnerDue ==
    /\ spinnerTimer /\ spinnerTimer' = FALSE
    /\ spinner' = (items = NoItems)
    /\ UNCHANGED <<mounted, filter, items, calls, changes, refreshing, refreshDone,
                   snackbar, stale, doubt, asked>>

TickFades ==
    /\ refreshDone /\ refreshDone' = FALSE
    /\ UNCHANGED <<mounted, filter, items, calls, changes, refreshing, spinner,
                   spinnerTimer, snackbar, stale, doubt, asked>>

SnackbarFades ==
    /\ snackbar /\ snackbar' = FALSE
    /\ UNCHANGED <<mounted, filter, items, calls, changes, refreshing, refreshDone,
                   spinner, spinnerTimer, stale, doubt, asked>>

GrowsStale ==
    /\ ~stale /\ stale' = TRUE
    /\ UNCHANGED <<mounted, filter, items, calls, changes, signVars, doubt, asked>>

-----------------------------------------------------------------------------
SessionListNext ==
    \/ Mount \/ RefreshClicked \/ (\E f \in Filter : SetFilter(f)) \/ BecomesVisible
    \/ SessionsChange \/ (\E i \in DOMAIN calls : Answer(i) \/ Land(i))
    \/ SpinnerDue \/ TickFades \/ SnackbarFades \/ GrowsStale

SessionListSpec == SessionListInit /\ [][SessionListNext]_listVars

\* Every request ends: the oldest does.
ListFairness ==
    WF_listVars(calls # <<>> /\ Answer(1)) /\ WF_listVars(calls # <<>> /\ Land(1))

FairSessionList == SessionListSpec /\ ListFairness

-----------------------------------------------------------------------------
\* With no request under way the list is the one of the active tab, and not
\* older than the last request, unless that request failed or an older one
\* ended after it (doubt).
ListMatchesTab ==
    mounted /\ calls = <<>> /\ ~doubt => items.of = filter /\ items.at >= asked

\* The refresh button does not stay busy, whatever the requests bring.
ButtonComesBack == refreshing ~> ~refreshing

=============================================================================
