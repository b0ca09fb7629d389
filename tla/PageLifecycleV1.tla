--------------------------- MODULE PageLifecycleV1 ---------------------------
(***************************************************************************)
(* WpePageLifecycleV1 (wpewebkitview.cpp): the delegate used when WPE      *)
(* WebKit has no page lifecycle of its own.  Every call acts at once, on   *)
(* the activity flags of the view backend and on the suspended flag of the *)
(* view, and whenIdle runs its callback immediately.                       *)
(***************************************************************************)
EXTENDS PageLifecycle

CONSTANT MaxRequests    \* bound: requests of the controller after createView

ASSUME MaxRequestsAssumption == MaxRequests \in Nat

VARIABLES
    visible,      \* wpe_view_activity_state_visible
    focused,      \* wpe_view_activity_state_focused
    suspended,    \* webkit_web_view_is_suspended
    ready,        \* has the viewReady callback run
    closing,      \* webkit_web_view_try_close was called
    requests      \* requests made so far

flagVars == <<visible, focused, suspended>>
vars == <<delegateVars, flagVars, ready, closing, requests>>

(* createView sets the visible and focused flags before setState(HIDDEN).  *)
Init ==
    /\ DelegateInit
    /\ visible = TRUE
    /\ focused = TRUE
    /\ suspended = FALSE
    /\ ready = FALSE
    /\ closing = FALSE
    /\ requests = 0

show == visible' = TRUE /\ UNCHANGED <<focused, suspended>>
hide == visible' = FALSE /\ focused' = FALSE /\ UNCHANGED suspended
focus == focused' = TRUE /\ UNCHANGED <<visible, suspended>>
blur == focused' = FALSE /\ UNCHANGED <<visible, suspended>>
resume == suspended' = FALSE /\ UNCHANGED <<visible, focused>>

(* A visible page is hidden before it is suspended; an early hide() leaves *)
(* nothing of the flags, so both cases end in the same flags.              *)
freeze ==
    /\ suspended' = TRUE
    /\ IF visible \/ focused
       THEN visible' = FALSE /\ focused' = FALSE
       ELSE UNCHANGED <<visible, focused>>

(* The calls of one turn.  hide clears what blur would have cleared before *)
(* it, and show-focus ends with both flags set.                            *)
Act(calls) ==
    CASE calls = <<"show", "focus">> -> visible' = TRUE /\ focused' = TRUE /\ UNCHANGED suspended
      [] calls = <<"show">> -> show
      [] calls \in {<<"hide">>, <<"blur", "hide">>} -> hide
      [] calls = <<"focus">> -> focus
      [] calls = <<"blur">> -> blur
      [] calls = <<"freeze">> -> freeze
      [] calls = <<"resume">> -> resume
      [] OTHER -> UNCHANGED flagVars

setState(s) ==
    /\ target = NONE
    /\ ready
    /\ requests < MaxRequests
    /\ requests' = requests + 1
    /\ AcceptState(s)
    /\ UNCHANGED <<flagVars, ready, closing>>

ChangeState ==
    /\ changeState
    /\ Act(turnCalls)
    /\ UNCHANGED <<ready, closing, requests>>

whenIdle ==
    /\ target = NONE
    /\ ~ready
    /\ ready' = TRUE
    /\ UNCHANGED <<delegateVars, flagVars, closing, requests>>

(* WpeWebKitBrowser closes a page after setState(TERMINATED) only. *)
tryClose ==
    /\ target = NONE
    /\ currState = "TERMINATED"
    /\ closing' = TRUE
    /\ UNCHANGED <<delegateVars, flagVars, ready, requests>>

MemorySavingTimeout ==
    /\ target = NONE
    /\ ready
    /\ onMemorySavingTimerTimeout
    /\ UNCHANGED <<flagVars, ready, closing, requests>>

Next ==
    \/ \E s \in PageState : setState(s)
    \/ ChangeState
    \/ whenIdle
    \/ tryClose
    \/ MemorySavingTimeout

(* createView and the loop of setState run to their end, due timers fire.   *)
Fairness ==
    /\ WF_vars(ChangeState)
    /\ WF_vars(whenIdle)
    /\ WF_vars(MemorySavingTimeout)

Spec == Init /\ [][Next]_vars
FairSpec == Spec /\ Fairness

-----------------------------------------------------------------------------
(* Type invariant. *)
TypeOK ==
    /\ DelegateTypeOK
    /\ visible \in BOOLEAN
    /\ focused \in BOOLEAN
    /\ suspended \in BOOLEAN
    /\ ready \in BOOLEAN
    /\ closing \in BOOLEAN
    /\ requests \in 0..MaxRequests

(***************************************************************************)
(* The page seen by the document walks the lifecycle diagram.              *)
(***************************************************************************)
PageSeen ==
    CASE currState = "INITIALIZING" -> "INITIALIZING"
      [] currState # "INITIALIZING" /\ suspended -> "FROZEN"
      [] currState # "INITIALIZING" /\ ~suspended /\ ~visible -> "HIDDEN"
      [] currState # "INITIALIZING" /\ ~suspended /\ visible /\ focused -> "ACTIVE"
      [] OTHER -> "PASSIVE"

Abstract == INSTANCE Page WITH
    wanted <- IF target = NONE THEN currState ELSE target,
    page <- PageSeen

ImplementsPage == Abstract!Spec

(***************************************************************************)
(* The delegate settles: the loop in setState serves every request (a      *)
(* missing hop in nextState would leave it turning for ever), and memory   *)
(* saving ends by itself, whether the page is shown again or stays hidden  *)
(* until every event was sent (onMemorySavingTimerTimeout).                *)
(***************************************************************************)
DelegateSettles ==
    /\ \A s \in PageState : target = s ~> currState = s
    /\ timer ~> ~timer
=============================================================================
