--------------------------- MODULE PageLifecycleV2 ---------------------------
(***************************************************************************)
(* WpePageLifecycleV2 (wpewebkitview.cpp): every engine call is queued and *)
(* handed to the engine one at a time.  The engine performs it some time   *)
(* later, then the completion handler takes it off the queue and an idle   *)
(* source starts the next.  When the queue is drained, the callback of     *)
(* whenIdle reports the new view ready.                                    *)
(*                                                                         *)
(* The engine is external: engine holds the flags its calls change and     *)
(* engineOp the progress of the call it was handed.                        *)
(***************************************************************************)
EXTENDS PageLifecycle

CONSTANTS
    EngineMayFail,    \* may the engine refuse or fail a call
    MaxRequests       \* bound: requests of the controller after createView

ASSUME EngineMayFailAssumption == EngineMayFail \in BOOLEAN
ASSUME MaxRequestsAssumption == MaxRequests \in Nat

VARIABLES
    queue,        \* m_stateChangeQueue, the names of the calls
    inProgress,   \* m_asyncStateChangeInProgress
    scheduled,    \* m_sourceId: an idle source will run processNextItem
    ready,        \* the viewReady callback: "unset", "registered" or "signalled"
    alive,        \* m_token: the delegate has not been destroyed
    engine,       \* the flags of the page in the engine
    engineOp,     \* the engine's call: "none", "running", "succeeded" or "failed"
    closing,      \* webkit_web_view_try_close was called
    requests      \* requests made so far

asyncVars == <<queue, inProgress, scheduled, ready>>
engineVars == <<engine, engineOp, closing>>
vars == <<delegateVars, asyncVars, alive, engineVars, requests>>

-----------------------------------------------------------------------------
Flags(v, f, s) == [visible |-> v, focused |-> f, suspended |-> s]

(* The flags that make up a page state; a terminated page stays hidden. *)
FlagsOf(s) == Flags(s \in {"ACTIVE", "PASSIVE"}, s = "ACTIVE", s = "FROZEN")

(* What the engine does for a call. *)
Perform(call, e) ==
    CASE call = "show"   -> [e EXCEPT !.visible = TRUE]
      [] call = "hide"   -> [e EXCEPT !.visible = FALSE]
      [] call = "focus"  -> [e EXCEPT !.focused = TRUE]
      [] call = "blur"   -> [e EXCEPT !.focused = FALSE]
      [] call = "freeze" -> [e EXCEPT !.suspended = TRUE]
      [] call = "resume" -> [e EXCEPT !.suspended = FALSE]
      [] OTHER -> e

Init ==
    /\ DelegateInit
    /\ queue = <<>>
    /\ inProgress = FALSE
    /\ scheduled = FALSE
    /\ ready = "unset"
    /\ alive = TRUE
    /\ engine \in {FlagsOf(s) : s \in {"ACTIVE", "PASSIVE", "HIDDEN"}}
    /\ engineOp = "none"
    /\ closing = FALSE
    /\ requests = 0

(* The main thread is back in its loop: no setState or createView on the stack. *)
MainIdle == alive /\ target = NONE /\ ready # "unset"

-----------------------------------------------------------------------------
(* Faulty form: the ready callback does not count as work. *)
scheduleNextItemProcessingQueueOnly(q) ==
    scheduled' = (scheduled \/ q # <<>>)

(* scheduleNextItemProcessing, called with q left in the queue. *)
scheduleNextItemProcessing(q) ==
    scheduled' = (scheduled \/ q # <<>> \/ ready = "registered")

enqueueAsyncChange(calls) ==
    /\ queue' = queue \o calls
    /\ IF calls = <<>> THEN UNCHANGED scheduled
                       ELSE scheduleNextItemProcessing(queue')

(* WpeWebKitView::setState is called with s, which it accepts. *)
setState(s) ==
    /\ MainIdle
    /\ requests < MaxRequests
    /\ requests' = requests + 1
    /\ AcceptState(s)
    /\ UNCHANGED <<asyncVars, alive, engineVars>>

(* A turn of its loop: the calls of the hop are queued. *)
ChangeState ==
    /\ alive
    /\ changeState
    /\ enqueueAsyncChange(turnCalls)
    /\ UNCHANGED <<inProgress, ready, alive, engineVars, requests>>

(* Faulty form of whenIdle: the callback runs at once. *)
whenIdleAtOnce ==
    /\ alive
    /\ target = NONE
    /\ ready = "unset"
    /\ ready' = "signalled"
    /\ UNCHANGED <<delegateVars, queue, inProgress, scheduled, alive, engineVars, requests>>

(* The end of createView: the view is ready once the first hide is done. *)
whenIdle ==
    /\ alive
    /\ target = NONE
    /\ ready = "unset"
    /\ ready' = "registered"
    /\ scheduled' = TRUE
    /\ UNCHANGED <<delegateVars, queue, inProgress, alive, engineVars, requests>>

(* WpeWebKitBrowser closes a page after setState(TERMINATED) only. *)
tryClose ==
    /\ MainIdle
    /\ currState = "TERMINATED"
    /\ requests < MaxRequests
    /\ requests' = requests + 1
    /\ enqueueAsyncChange(<<"tryClose">>)
    /\ UNCHANGED <<delegateVars, inProgress, ready, alive, engineVars>>

(* Faulty form of popFront: the next item is not scheduled. *)
popFrontOnly ==
    /\ queue' = Tail(queue)
    /\ inProgress' = FALSE
    /\ UNCHANGED scheduled

(* The front item leaves the queue and the next one is scheduled. *)
popFront ==
    /\ queue' = Tail(queue)
    /\ inProgress' = FALSE
    /\ scheduleNextItemProcessing(queue')

(***************************************************************************)
(* The idle source fires: m_sourceId is cleared and processNextItem runs.  *)
(* Scheduling again when the item is dropped starts from m_sourceId = 0.   *)
(***************************************************************************)
RunFront ==
    /\ Head(queue) # "tryClose"
    /\ inProgress' = TRUE
    /\ engineOp' = "running"
    /\ scheduled' = FALSE
    /\ UNCHANGED <<queue, closing>>

DropFront ==
    /\ Head(queue) = "tryClose" \/ EngineMayFail
    /\ closing' = (closing \/ Head(queue) = "tryClose")
    /\ queue' = Tail(queue)
    /\ scheduled' = (Tail(queue) # <<>> \/ ready = "registered")
    /\ UNCHANGED <<inProgress, engineOp>>

(* Faulty form: m_asyncStateChangeInProgress is not looked at. *)
processNextItemWhileBusy ==
    /\ scheduled
    /\ target = NONE /\ ready # "unset"
    /\ queue # <<>>
    /\ RunFront \/ DropFront
    /\ UNCHANGED <<delegateVars, ready, alive, engine, requests>>

processNextItem ==
    /\ scheduled
    /\ target = NONE /\ ready # "unset"
    /\ \/ /\ inProgress
          /\ scheduled' = FALSE
          /\ UNCHANGED <<queue, inProgress, ready, engineOp, closing>>
       \/ /\ ~inProgress /\ queue = <<>>
          /\ scheduled' = FALSE
          /\ ready' = "signalled"
          /\ UNCHANGED <<queue, inProgress, engineOp, closing>>
       \/ /\ ~inProgress /\ queue # <<>>
          /\ RunFront \/ DropFront
          /\ UNCHANGED ready
    /\ UNCHANGED <<delegateVars, alive, engine, requests>>

(* The engine performs the call it was handed, or fails to; a call whose   *)
(* view was destroyed is cancelled.                                        *)
EngineWorks ==
    /\ engineOp = "running"
    /\ \/ /\ alive
          /\ engine' = Perform(Head(queue), engine)
          /\ engineOp' = "succeeded"
       \/ /\ EngineMayFail \/ ~alive
          /\ UNCHANGED engine
          /\ engineOp' = "failed"
    /\ UNCHANGED <<delegateVars, asyncVars, alive, closing, requests>>

(* Faulty form: the handler does not check the token of its delegate. *)
CompletionHandlerNoToken ==
    /\ engineOp \in {"succeeded", "failed"}
    /\ alive => target = NONE /\ ready # "unset"
    /\ engineOp' = "none"
    /\ popFront
    /\ UNCHANGED <<delegateVars, ready, alive, engine, closing, requests>>

(* The completion handler; the result is logged and otherwise ignored. *)
CompletionHandler ==
    /\ engineOp \in {"succeeded", "failed"}
    /\ alive => target = NONE /\ ready # "unset"
    /\ engineOp' = "none"
    /\ IF alive THEN popFront ELSE UNCHANGED <<queue, inProgress, scheduled>>
    /\ UNCHANGED <<delegateVars, ready, alive, engine, closing, requests>>

MemorySavingTimeout ==
    /\ target = NONE /\ ready # "unset"
    /\ onMemorySavingTimerTimeout
    /\ UNCHANGED <<asyncVars, alive, engineVars, requests>>

(* The view is destroyed: its idle source and its timer go with it. *)
Destroy ==
    /\ MainIdle
    /\ alive' = FALSE
    /\ scheduled' = FALSE
    /\ timer' = FALSE
    /\ UNCHANGED <<currState, target, iteration, queue, inProgress, ready,
                   engineVars, requests>>

Next ==
    \/ \E s \in PageState : setState(s)
    \/ ChangeState
    \/ whenIdle
    \/ tryClose
    \/ processNextItem
    \/ EngineWorks
    \/ CompletionHandler
    \/ MemorySavingTimeout
    \/ Destroy

(***************************************************************************)
(* The main loop dispatches what is ready and the engine answers what it   *)
(* was asked.  Nobody is obliged to ask for a state, close or destroy.     *)
(***************************************************************************)
Fairness ==
    /\ WF_vars(ChangeState)
    /\ WF_vars(whenIdle)
    /\ WF_vars(processNextItem)
    /\ WF_vars(EngineWorks)
    /\ WF_vars(CompletionHandler)

Spec == Init /\ [][Next]_vars
FairSpec == Spec /\ Fairness

-----------------------------------------------------------------------------
EngineFlags == [visible : BOOLEAN, focused : BOOLEAN, suspended : BOOLEAN]

(* Type invariant. *)
TypeOK ==
    /\ DelegateTypeOK
    /\ queue \in Seq(Call \cup {"tryClose"})
    /\ inProgress \in BOOLEAN
    /\ scheduled \in BOOLEAN
    /\ ready \in {"unset", "registered", "signalled"}
    /\ alive \in BOOLEAN
    /\ engine \in EngineFlags
    /\ engineOp \in {"none", "running", "succeeded", "failed"}
    /\ closing \in BOOLEAN
    /\ requests \in 0..MaxRequests

(***************************************************************************)
(* No lost wake-up: while there is work, queued calls or an unreported     *)
(* ready callback, either the idle source is attached or a call is in the  *)
(* engine whose completion attaches it (scheduleNextItemProcessing).       *)
(***************************************************************************)
NoLostWakeup ==
    alive /\ (queue # <<>> \/ ready = "registered") => scheduled \/ inProgress

(***************************************************************************)
(* One call at a time: m_asyncStateChangeInProgress says exactly when the  *)
(* engine owes a completion, and the item its handler will pop is the      *)
(* front of a queue that is not empty.                                     *)
(***************************************************************************)
OneCallInFlight ==
    alive => /\ inProgress <=> engineOp # "none"
             /\ inProgress => queue # <<>> /\ Head(queue) # "tryClose"

(***************************************************************************)
(* When every queued call was performed the page is in the state the       *)
(* delegate reports: the queue keeps up however requests and completions   *)
(* interleave.                                                             *)
(***************************************************************************)
PageAgrees ==
    alive /\ queue = <<>> /\ MainIdle => engine = FlagsOf(currState)

(***************************************************************************)
(* The engine is never asked into a state outside the page lifecycle: a    *)
(* frozen page is not visible and a focused page is.                       *)
(***************************************************************************)
EngineLegal ==
    /\ engine.suspended => ~engine.visible
    /\ engine.focused => engine.visible

(***************************************************************************)
(* A page is asked to close (its unload handlers run) only once it is      *)
(* hidden and thawed, even when it was frozen or active a moment before.   *)
(***************************************************************************)
ClosesHiddenPage ==
    closing => engine = FlagsOf("HIDDEN")

(***************************************************************************)
(* The memory saving timer belongs to a page that is not shown, and it     *)
(* sends at most the configured number of events.                          *)
(***************************************************************************)
MemorySavingBounded ==
    timer => /\ currState \notin {"INITIALIZING", "ACTIVE", "PASSIVE"}
             /\ iteration < MaxMemorySavingIterations

(***************************************************************************)
(* "signal view is ready after transition to hidden is completed"          *)
(* (createView): the callback runs when the engine has done every call.    *)
(***************************************************************************)
ReadyWhenSettled ==
    [][ready # "signalled" /\ ready' = "signalled"
         => queue = <<>> /\ engine = FlagsOf(currState)]_vars

(***************************************************************************)
(* A destroyed delegate is not touched again: not by its idle source, its  *)
(* timer or a completion that arrives late (m_token).                      *)
(***************************************************************************)
DeadDelegateUntouched ==
    [][~alive => UNCHANGED <<delegateVars, asyncVars>>]_vars

(***************************************************************************)
(* The page seen by the document walks the lifecycle diagram.              *)
(***************************************************************************)
PageSeen ==
    CASE engine.suspended -> "FROZEN"
      [] ~engine.suspended /\ ~engine.visible -> "HIDDEN"
      [] ~engine.suspended /\ engine.visible /\ engine.focused -> "ACTIVE"
      [] OTHER -> "PASSIVE"

Abstract == INSTANCE Page WITH
    wanted <- IF target = NONE THEN currState ELSE target,
    page <- PageSeen

ImplementsPage == Abstract!Spec

(***************************************************************************)
(* The strengthening behind PageAgrees, EngineLegal and ClosesHiddenPage.  *)
(* Every call moves the page from one state to another; the queue is a     *)
(* chain of such moves that starts at the page in the engine and ends at   *)
(* m_currState.  The two calls createView queues are met by an engine in   *)
(* any state, so blur and hide may also find their work done.              *)
(***************************************************************************)
PageBefore(call) ==
    CASE call = "show" -> "HIDDEN"
      [] call = "focus" -> "PASSIVE"
      [] call = "blur" -> "ACTIVE"
      [] call = "hide" -> "PASSIVE"
      [] call = "resume" -> "FROZEN"
      [] OTHER -> "HIDDEN"

PageAfter(call) ==
    CASE call = "show" -> "PASSIVE"
      [] call = "focus" -> "ACTIVE"
      [] call = "blur" -> "PASSIVE"
      [] call = "freeze" -> "FROZEN"
      [] OTHER -> "HIDDEN"

ThenHide == Len(queue) > 1 /\ queue[2] = "hide"

FrontFits ==
    IF engineOp = "succeeded"
    THEN \/ engine = FlagsOf(PageAfter(queue[1]))
         \/ queue[1] = "blur" /\ engine = FlagsOf("HIDDEN") /\ ThenHide
    ELSE \/ engine = FlagsOf(PageBefore(queue[1]))
         \/ queue[1] = "hide" /\ engine = FlagsOf("HIDDEN")
         \/ /\ queue[1] = "blur"
            /\ engine \in {FlagsOf("PASSIVE"), FlagsOf("HIDDEN")}
            /\ ThenHide

Linked ==
    \A i, j \in 1..Len(queue) :
        j = i + 1 => FlagsOf(PageAfter(queue[i])) = FlagsOf(PageBefore(queue[j]))

CloseLast ==
    \A i, j \in 1..Len(queue) :
        i <= j /\ queue[i] = "tryClose" => queue[j] = "tryClose" /\ currState = "TERMINATED"

QueueChained ==
    alive =>
        /\ queue # <<>> => /\ FrontFits
                           /\ FlagsOf(PageAfter(queue[Len(queue)])) = FlagsOf(currState)
        /\ Linked
        /\ CloseLast
        /\ queue = <<>> /\ currState # "INITIALIZING" => engine = FlagsOf(currState)

(***************************************************************************)
(* What a handler may rely on when it starts: which requests are being     *)
(* served, that nothing runs before createView has made its first call,    *)
(* and that nothing is left attached to a destroyed delegate.              *)
(***************************************************************************)
HandlersSafe ==
    /\ target # NONE => /\ target \notin {currState, "INITIALIZING"}
                        /\ currState # "TERMINATED"
    /\ currState = "INITIALIZING" => /\ target = "HIDDEN"
                                     /\ queue = <<>> /\ ready = "unset"
    /\ ready = "unset" => alive /\ ~inProgress
    /\ ~alive => ~scheduled /\ ~timer /\ target = NONE /\ ready # "unset"

(* The inductive invariant, whatever the engine does with its calls. *)
IInv ==
    /\ TypeOK
    /\ HandlersSafe
    /\ NoLostWakeup
    /\ OneCallInFlight
    /\ MemorySavingBounded

(* ... and what it adds when the engine performs every call. *)
EngineInv ==
    /\ QueueChained
    /\ EngineLegal
    /\ ClosesHiddenPage
    /\ closing => /\ currState = "TERMINATED"
                  /\ \A i \in 1..Len(queue) : queue[i] = "tryClose"
    /\ engineOp # "failed" \/ ~alive
    /\ currState = "INITIALIZING" =>
          engine \in {FlagsOf(s) : s \in {"ACTIVE", "PASSIVE", "HIDDEN"}}

(***************************************************************************)
(* Work is finished again and again: the requests bound is eventually      *)
(* used up, and then the queue drains and the view is reported ready, also *)
(* when the engine refuses or fails calls.                                 *)
(***************************************************************************)
Drains == []<>(alive => queue = <<>> /\ ready = "signalled")
=============================================================================
