---------------------------- MODULE PageLifecycle ----------------------------
(***************************************************************************)
(* WpeWebKitView::setState and the base class WpePageLifecycleDelegate     *)
(* (wpewebkitview.cpp): the loop that walks a page from its state to the   *)
(* requested one, the engine calls each hop makes, and the timer that asks *)
(* a hidden page to give memory back.  PageLifecycleV1 and PageLifecycleV2 *)
(* say what the engine calls do.                                           *)
(*                                                                         *)
(* Everything here runs on the main thread.  The loop of setState is one   *)
(* step per turn (ChangeState); target is the request being served, so     *)
(* every other main thread action waits for MainIdle.                      *)
(***************************************************************************)
EXTENDS Naturals, Sequences

CONSTANT MaxMemorySavingIterations    \* launch option maxMemorySavingIterations

ASSUME MaxIterationsAssumption == MaxMemorySavingIterations \in Nat

NONE == "none"

PageState == {"INITIALIZING", "ACTIVE", "PASSIVE", "HIDDEN", "FROZEN", "TERMINATED"}

(* The next hop on the way from current to target. *)
nextState(current, target_) ==
    CASE current = "INITIALIZING" /\ target_ \in {"FROZEN", "TERMINATED"} -> "HIDDEN"
      [] current = "ACTIVE" /\ target_ \in {"HIDDEN", "FROZEN", "TERMINATED"} -> "PASSIVE"
      [] current = "PASSIVE" /\ target_ \in {"FROZEN", "TERMINATED"} -> "HIDDEN"
      [] current = "HIDDEN" /\ target_ = "ACTIVE" -> "PASSIVE"
      [] current = "FROZEN" /\ target_ \in {"PASSIVE", "ACTIVE", "TERMINATED"} -> "HIDDEN"
      [] OTHER -> target_

Call == {"show", "hide", "focus", "blur", "freeze", "resume"}

(* Faulty form of callsOf: a new page is hidden without losing the focus.  *)
callsOfNoBlur(from, to) ==
    CASE to = "ACTIVE" -> IF from = "INITIALIZING" THEN <<"show", "focus">> ELSE <<"focus">>
      [] to = "PASSIVE" /\ from = "ACTIVE" -> <<"blur">>
      [] to = "PASSIVE" /\ from \in {"HIDDEN", "INITIALIZING"} -> <<"show">>
      [] to = "HIDDEN" /\ from \in {"INITIALIZING", "PASSIVE"} -> <<"hide">>
      [] to = "HIDDEN" /\ from = "FROZEN" -> <<"resume">>
      [] to = "FROZEN" -> <<"freeze">>
      [] OTHER -> <<>>

(* The virtual calls changeState(to) makes when m_currState is from. *)
callsOf(from, to) ==
    CASE to = "ACTIVE" -> IF from = "INITIALIZING" THEN <<"show", "focus">> ELSE <<"focus">>
      [] to = "PASSIVE" /\ from = "ACTIVE" -> <<"blur">>
      [] to = "PASSIVE" /\ from \in {"HIDDEN", "INITIALIZING"} -> <<"show">>
      [] to = "HIDDEN" /\ from = "INITIALIZING" -> <<"blur", "hide">>
      [] to = "HIDDEN" /\ from = "PASSIVE" -> <<"hide">>
      [] to = "HIDDEN" /\ from = "FROZEN" -> <<"resume">>
      [] to = "FROZEN" -> <<"freeze">>
      [] OTHER -> <<>>

-----------------------------------------------------------------------------
VARIABLES
    currState,    \* m_currState
    target,       \* the argument of the setState being served, or NONE
    timer,        \* is m_memorySavingTimerSource attached
    iteration     \* m_memorySavingTimerIteration

delegateVars == <<currState, target, timer, iteration>>

(* Set in createView: setState(HIDDEN) is the first request. *)
DelegateInit ==
    /\ currState = "INITIALIZING"
    /\ target = "HIDDEN"
    /\ timer = FALSE
    /\ iteration = 0

(* Faulty form of AcceptState: TERMINATED is not final. *)
AcceptStateAnyTime(s) ==
    /\ s \notin {currState, "INITIALIZING"}
    /\ target' = s
    /\ UNCHANGED <<currState, timer, iteration>>

(* setState: the three early returns, then the loop starts. *)
AcceptState(s) ==
    /\ s # currState
    /\ s # "INITIALIZING"
    /\ currState # "TERMINATED"
    /\ target' = s
    /\ UNCHANGED <<currState, timer, iteration>>

EntersHidden(from, to) == to = "HIDDEN" /\ from \in {"INITIALIZING", "PASSIVE"}
LeavesHidden(from, to) == to = "PASSIVE" /\ from \in {"INITIALIZING", "HIDDEN"}

enableMemorySaving ==
    IF timer \/ MaxMemorySavingIterations = 0
    THEN UNCHANGED <<timer, iteration>>
    ELSE timer' = TRUE /\ iteration' = 0

disableMemorySaving ==
    timer' = FALSE /\ UNCHANGED iteration

(* One turn of the loop: changeState to the next hop. *)
changeState ==
    LET hop == nextState(currState, target)
    IN  /\ target # NONE
        /\ currState' = hop
        /\ target' = IF hop = target THEN NONE ELSE target
        /\ \/ EntersHidden(currState, hop) /\ enableMemorySaving
           \/ LeavesHidden(currState, hop) /\ disableMemorySaving
           \/ /\ ~EntersHidden(currState, hop) /\ ~LeavesHidden(currState, hop)
              /\ UNCHANGED <<timer, iteration>>

(* The calls that turn makes, in order. *)
turnCalls == callsOf(currState, nextState(currState, target))

(* Faulty form of the timer callback: it does not count.                    *)
timeoutNeverCounts ==
    /\ timer
    /\ timer' = (currState \in {"HIDDEN", "FROZEN"} /\ iteration < MaxMemorySavingIterations)
    /\ UNCHANGED <<currState, target, iteration>>

(***************************************************************************)
(* The timer callback: a page that left HIDDEN and FROZEN stops the timer, *)
(* another one gets a memory pressure event and the timer is set again     *)
(* until the configured number of events was sent.                         *)
(***************************************************************************)
onMemorySavingTimerTimeout ==
    /\ timer
    /\ IF currState \in {"HIDDEN", "FROZEN"}
       THEN /\ iteration' = iteration + 1
            /\ timer' = (iteration + 1 < MaxMemorySavingIterations)
       ELSE /\ iteration' = 0
            /\ timer' = FALSE
    /\ UNCHANGED <<currState, target>>

-----------------------------------------------------------------------------
DelegateTypeOK ==
    /\ currState \in PageState
    /\ target \in PageState \cup {NONE}
    /\ timer \in BOOLEAN
    /\ iteration \in Nat
=============================================================================
