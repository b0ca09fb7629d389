------------------------ MODULE PageLifecycleV2Proofs ------------------------
(***************************************************************************)
(* Proofs about the queue of WpePageLifecycleV2, for every number of       *)
(* requests and memory saving iterations.                                  *)
(***************************************************************************)
EXTENDS PageLifecycleV2, TLAPS, SequenceTheorems

(***************************************************************************)
(* nextState never leaves the diagram: these are all the hops the loop of  *)
(* setState can take.                                                      *)
(***************************************************************************)
Hop(c, h) ==
    \/ c = "INITIALIZING" /\ h = "HIDDEN"
    \/ c = "ACTIVE" /\ h = "PASSIVE"
    \/ c = "PASSIVE" /\ h \in {"ACTIVE", "HIDDEN"}
    \/ c = "HIDDEN" /\ h \in {"PASSIVE", "FROZEN", "TERMINATED"}
    \/ c = "FROZEN" /\ h = "HIDDEN"

LEMMA HopsOfNextState ==
    ASSUME NEW c \in PageState, NEW t \in PageState,
           c # t, t # "INITIALIZING", c # "TERMINATED",
           c = "INITIALIZING" => t = "HIDDEN"
    PROVE  /\ Hop(c, nextState(c, t))
           /\ nextState(c, t) # t => nextState(c, t) # "TERMINATED"
  BY DEF PageState, nextState, Hop

(***************************************************************************)
(* The calls of a hop: none for the last hop to TERMINATED, blur and hide  *)
(* for the first one, and otherwise one call that leads from the one state *)
(* to the other.                                                           *)
(***************************************************************************)
LEMMA CallsOfHop ==
    ASSUME NEW c, NEW h, Hop(c, h)
    PROVE  \/ h = "TERMINATED" /\ c = "HIDDEN" /\ callsOf(c, h) = <<>>
           \/ c = "INITIALIZING" /\ callsOf(c, h) = <<"blur", "hide">>
           \/ \E call \in Call :
                 /\ callsOf(c, h) = <<call>>
                 /\ c # "INITIALIZING" /\ h # "TERMINATED"
                 /\ PageBefore(call) = c
                 /\ PageAfter(call) = h
  BY DEF Hop, callsOf, Call, PageBefore, PageAfter

LEMMA FlagsType == \A s : FlagsOf(s) \in EngineFlags
  BY DEF FlagsOf, Flags, EngineFlags

LEMMA InitIInv == Init => IInv
<1> SUFFICES ASSUME Init PROVE IInv
  OBVIOUS
<1>1. engine \in EngineFlags
  BY FlagsType DEF Init
<1>2. TypeOK
  <2>1. requests \in 0..MaxRequests /\ iteration \in Nat
    BY MaxRequestsAssumption DEF Init, DelegateInit
  <2>2. queue \in Seq(Call \cup {"tryClose"})
    BY EmptySeq DEF Init
  <2> QED
    BY <1>1, <2>1, <2>2 DEF Init, DelegateInit, TypeOK, DelegateTypeOK, PageState
<1>3. HandlersSafe /\ NoLostWakeup /\ OneCallInFlight /\ MemorySavingBounded
  BY DEF Init, DelegateInit, NONE, HandlersSafe, NoLostWakeup, OneCallInFlight,
         MemorySavingBounded
<1> QED
  BY <1>2, <1>3 DEF IInv

(***************************************************************************)
(* Queueing the calls of a hop keeps the type of the queue, and it         *)
(* schedules processing whenever it leaves something in the queue that     *)
(* was not there.                                                          *)
(***************************************************************************)
LEMMA EnqueueType ==
    ASSUME TypeOK, NEW c, NEW h, Hop(c, h)
    PROVE  /\ callsOf(c, h) \in Seq(Call \cup {"tryClose"})
           /\ queue \o callsOf(c, h) \in Seq(Call \cup {"tryClose"})
           /\ callsOf(c, h) = <<>> => queue \o callsOf(c, h) = queue
           /\ callsOf(c, h) # <<>> => queue \o callsOf(c, h) # <<>>
           /\ queue # <<>> => /\ queue \o callsOf(c, h) # <<>>
                              /\ Head(queue \o callsOf(c, h)) = Head(queue)
<1> DEFINE Item == Call \cup {"tryClose"}
           calls == callsOf(c, h)
<1>1. calls \in Seq(Item)
  <2>1. "blur" \in Item /\ "hide" \in Item
    BY DEF Call
  <2>2. CASE calls = <<>>
    BY <2>2, EmptySeq
  <2>3. CASE calls = <<"blur", "hide">>
    BY <2>1, <2>3
  <2>4. ASSUME NEW call \in Call, calls = <<call>>
        PROVE  calls \in Seq(Item)
    <3>1. call \in Item
      OBVIOUS
    <3> HIDE DEF calls, Item
    <3> QED
      BY <2>4, <3>1
  <2> QED
    BY <2>2, <2>3, <2>4, CallsOfHop
<1>2. queue \in Seq(Item)
  BY DEF TypeOK
<1> HIDE DEF calls, Item
<1>3. /\ queue \o calls \in Seq(Item)
      /\ Len(queue \o calls) = Len(queue) + Len(calls)
      /\ \A i \in 1..Len(queue) : (queue \o calls)[i] = queue[i]
  BY <1>1, <1>2, ConcatProperties
<1>4. calls = <<>> => queue \o calls = queue
  BY <1>1, <1>2, ConcatEmptySeq
<1>5. calls # <<>> => queue \o calls # <<>>
  BY <1>1, <1>2, <1>3, EmptySeq, LenProperties
<1>6. ASSUME queue # <<>>
      PROVE  queue \o calls # <<>> /\ Head(queue \o calls) = Head(queue)
  BY <1>1, <1>2, <1>3, <1>6
<1> QED
  BY <1>1, <1>3, <1>4, <1>5, <1>6 DEF calls, Item

(***************************************************************************)
(* The inductive step, one action at a time.  Every action but the turn of *)
(* the setState loop either leaves the queue alone, appends the close, or  *)
(* takes the front item off.                                               *)
(***************************************************************************)
LEMMA NextSetState ==
    ASSUME IInv, NEW s \in PageState, setState(s)
    PROVE  IInv'
<1> USE DEF IInv, setState, AcceptState, MainIdle, asyncVars, engineVars
<1>1. TypeOK'
  BY MaxRequestsAssumption DEF TypeOK, DelegateTypeOK
<1>2. HandlersSafe'
  BY DEF HandlersSafe
<1>3. NoLostWakeup' /\ OneCallInFlight' /\ MemorySavingBounded'
  BY DEF NoLostWakeup, OneCallInFlight, MemorySavingBounded
<1> QED
  BY <1>1, <1>2, <1>3

LEMMA NextChangeState ==
    ASSUME IInv, ChangeState
    PROVE  IInv'
<1> DEFINE hop == nextState(currState, target)
           calls == callsOf(currState, hop)
<1>1. /\ alive /\ alive' /\ target # NONE
      /\ currState' = hop
      /\ target' = IF hop = target THEN NONE ELSE target
      /\ queue' = queue \o calls
      /\ IF calls = <<>> THEN UNCHANGED scheduled ELSE scheduleNextItemProcessing(queue')
      /\ UNCHANGED <<inProgress, ready, alive, engine, engineOp, closing, requests>>
  BY DEF ChangeState, changeState, enqueueAsyncChange, turnCalls, engineVars
<1>2. /\ currState \in PageState /\ target \in PageState
      /\ currState # target /\ target # "INITIALIZING"
      /\ currState # "TERMINATED"
      /\ currState = "INITIALIZING" => target = "HIDDEN"
  BY <1>1 DEF IInv, TypeOK, DelegateTypeOK, HandlersSafe, NONE
<1>3. /\ Hop(currState, hop)
      /\ hop # target => hop # "TERMINATED"
  BY <1>2, HopsOfNextState
<1>4. /\ queue' \in Seq(Call \cup {"tryClose"})
      /\ calls = <<>> => queue' = queue
      /\ calls # <<>> => queue' # <<>>
      /\ queue # <<>> => queue' # <<>> /\ Head(queue') = Head(queue)
  BY <1>1, <1>3, EnqueueType DEF IInv
<1>5. /\ timer' \in BOOLEAN /\ iteration' \in Nat
      /\ MemorySavingBounded'
  <2>1. CASE EntersHidden(currState, hop)
    <3>1. enableMemorySaving /\ currState' = "HIDDEN"
      BY <1>1, <2>1 DEF ChangeState, changeState, EntersHidden, LeavesHidden
    <3>2. CASE timer \/ MaxMemorySavingIterations = 0
      <4>1. UNCHANGED <<timer, iteration>>
        BY <3>1, <3>2 DEF enableMemorySaving
      <4> QED
        BY <3>1, <4>1 DEF IInv, TypeOK, DelegateTypeOK, MemorySavingBounded
    <3>3. CASE ~(timer \/ MaxMemorySavingIterations = 0)
      <4>1. timer' = TRUE /\ iteration' = 0
        BY <3>1, <3>3 DEF enableMemorySaving
      <4> QED
        BY <3>1, <3>3, <4>1, MaxIterationsAssumption DEF MemorySavingBounded
    <3> QED
      BY <3>2, <3>3
  <2>2. CASE LeavesHidden(currState, hop)
    <3>1. disableMemorySaving
      BY <2>2 DEF ChangeState, changeState, EntersHidden, LeavesHidden
    <3> QED
      BY <1>1, <2>2, <3>1
      DEF disableMemorySaving, IInv, TypeOK, DelegateTypeOK, MemorySavingBounded
  <2>3. CASE ~EntersHidden(currState, hop) /\ ~LeavesHidden(currState, hop)
    <3>1. UNCHANGED <<timer, iteration>>
      BY <2>3 DEF ChangeState, changeState
    <3>2. currState \in {"ACTIVE", "PASSIVE"} \/ hop \in {"HIDDEN", "FROZEN", "TERMINATED"}
      BY <1>3, <2>3 DEF Hop, EntersHidden, LeavesHidden
    <3> QED
      BY <1>1, <3>1, <3>2 DEF IInv, TypeOK, DelegateTypeOK, MemorySavingBounded
  <2> QED
    BY <2>1, <2>2, <2>3
<1> HIDE DEF calls
<1>6. hop \in PageState /\ hop # "INITIALIZING" /\ hop # NONE
  BY <1>3 DEF Hop, PageState, NONE
<1> HIDE DEF hop
<1>7. scheduled' \in BOOLEAN
  BY <1>1 DEF scheduleNextItemProcessing, IInv, TypeOK
<1>8. TypeOK'
  BY <1>1, <1>4, <1>5, <1>6, <1>7 DEF IInv, TypeOK, DelegateTypeOK
<1>9. HandlersSafe'
  BY <1>1, <1>2, <1>3, <1>6 DEF IInv, HandlersSafe
<1>10. NoLostWakeup'
  BY <1>1, <1>4 DEF IInv, NoLostWakeup, scheduleNextItemProcessing
<1>11. OneCallInFlight'
  BY <1>1, <1>4 DEF IInv, OneCallInFlight
<1> QED
  BY <1>5, <1>8, <1>9, <1>10, <1>11 DEF IInv

LEMMA NextWhenIdle ==
    ASSUME IInv, whenIdle
    PROVE  IInv'
<1> USE DEF IInv, whenIdle, delegateVars, engineVars
<1>1. TypeOK'
  BY DEF TypeOK, DelegateTypeOK
<1>2. HandlersSafe'
  BY DEF HandlersSafe, NONE
<1>3. NoLostWakeup' /\ OneCallInFlight' /\ MemorySavingBounded'
  BY DEF NoLostWakeup, OneCallInFlight, MemorySavingBounded
<1> QED
  BY <1>1, <1>2, <1>3

LEMMA NextTryClose ==
    ASSUME IInv, tryClose
    PROVE  IInv'
<1> DEFINE Item == Call \cup {"tryClose"}
<1>1. queue \in Seq(Item) /\ <<"tryClose">> \in Seq(Item)
  <2>1. "tryClose" \in Item
    OBVIOUS
  <2> HIDE DEF Item
  <2>2. <<"tryClose">> \in Seq(Item)
    BY <2>1
  <2> QED
    BY <2>2 DEF IInv, TypeOK, Item
<1>2. queue' = queue \o <<"tryClose">>
  BY DEF tryClose, enqueueAsyncChange
<1> HIDE DEF Item
<1>3. /\ queue' \in Seq(Item)
      /\ Len(queue') = Len(queue) + 1
      /\ \A i \in 1..Len(queue) : queue'[i] = queue[i]
  BY <1>1, <1>2, ConcatProperties
<1>4. /\ queue' # <<>>
      /\ queue # <<>> => Head(queue') = Head(queue)
  BY <1>1, <1>3
<1>5. scheduled'
  BY <1>4 DEF tryClose, enqueueAsyncChange, scheduleNextItemProcessing
<1>6. TypeOK'
  BY <1>3, <1>5, MaxRequestsAssumption
  DEF tryClose, IInv, TypeOK, DelegateTypeOK, delegateVars, engineVars, Item
<1>7. HandlersSafe'
  BY DEF tryClose, IInv, HandlersSafe, MainIdle, delegateVars
<1>8. NoLostWakeup' /\ OneCallInFlight' /\ MemorySavingBounded'
  BY <1>4, <1>5 DEF tryClose, IInv, NoLostWakeup, OneCallInFlight, MemorySavingBounded,
                    delegateVars, engineVars
<1> QED
  BY <1>6, <1>7, <1>8 DEF IInv

LEMMA TailOfQueue ==
    ASSUME TypeOK, queue # <<>>
    PROVE  /\ Tail(queue) \in Seq(Call \cup {"tryClose"})
           /\ Head(queue) \in Call \cup {"tryClose"}
           /\ Head(queue) = queue[1]
           /\ Len(Tail(queue)) = Len(queue) - 1
           /\ \A i \in 1..Len(Tail(queue)) : Tail(queue)[i] = queue[i + 1]
           /\ Len(queue) \in Nat \ {0}
<1> DEFINE Item == Call \cup {"tryClose"}
<1>1. queue \in Seq(Item)
  BY DEF TypeOK
<1> HIDE DEF Item
<1>2. /\ Head(queue) \in Item
      /\ Tail(queue) \in Seq(Item)
      /\ Len(Tail(queue)) = Len(queue) - 1
      /\ \A i \in 1..Len(Tail(queue)) : Tail(queue)[i] = queue[i + 1]
  BY <1>1, HeadTailProperties
<1>3. Head(queue) = queue[1]
  BY <1>1
<1>4. Len(queue) \in Nat \ {0}
  BY <1>1, EmptySeq
<1> QED
  BY <1>2, <1>3, <1>4 DEF Item

LEMMA NextProcess ==
    ASSUME IInv, processNextItem
    PROVE  IInv'
<1>1. /\ alive /\ alive' /\ scheduled /\ target = NONE /\ ready # "unset"
      /\ UNCHANGED <<currState, target, timer, iteration, engine, requests>>
  BY DEF IInv, HandlersSafe, TypeOK, processNextItem, delegateVars
<1>2. MemorySavingBounded'
  BY <1>1 DEF IInv, MemorySavingBounded
<1>3. CASE /\ inProgress
           /\ scheduled' = FALSE
           /\ UNCHANGED <<queue, inProgress, ready, engineOp, closing>>
  <2>1. TypeOK'
    BY <1>1, <1>3 DEF IInv, TypeOK, DelegateTypeOK
  <2>2. HandlersSafe' /\ NoLostWakeup' /\ OneCallInFlight'
    BY <1>1, <1>3 DEF IInv, HandlersSafe, NoLostWakeup, OneCallInFlight
  <2> QED
    BY <1>2, <2>1, <2>2 DEF IInv
<1>4. CASE /\ ~inProgress /\ queue = <<>>
           /\ scheduled' = FALSE
           /\ ready' = "signalled"
           /\ UNCHANGED <<queue, inProgress, engineOp, closing>>
  <2>1. TypeOK'
    BY <1>1, <1>4 DEF IInv, TypeOK, DelegateTypeOK
  <2>2. HandlersSafe' /\ NoLostWakeup' /\ OneCallInFlight'
    BY <1>1, <1>4 DEF IInv, HandlersSafe, NoLostWakeup, OneCallInFlight
  <2> QED
    BY <1>2, <2>1, <2>2 DEF IInv
<1>5. CASE ~inProgress /\ queue # <<>> /\ RunFront /\ UNCHANGED ready
  <2>1. TypeOK'
    BY <1>1, <1>5 DEF IInv, TypeOK, DelegateTypeOK, RunFront
  <2>2. currState # "INITIALIZING"
    BY <1>1 DEF IInv, HandlersSafe, NONE
  <2>3. HandlersSafe' /\ NoLostWakeup' /\ OneCallInFlight'
    BY <1>1, <1>5, <2>2 DEF IInv, HandlersSafe, NoLostWakeup, OneCallInFlight, RunFront
  <2> QED
    BY <1>2, <2>1, <2>3 DEF IInv
<1>6. CASE ~inProgress /\ queue # <<>> /\ DropFront /\ UNCHANGED ready
  <2>1. queue' \in Seq(Call \cup {"tryClose"})
    BY <1>6, TailOfQueue DEF IInv, DropFront
  <2>2. TypeOK'
    BY <1>1, <1>6, <2>1 DEF IInv, TypeOK, DelegateTypeOK, DropFront
  <2>3. currState # "INITIALIZING"
    BY <1>1 DEF IInv, HandlersSafe, NONE
  <2>4. HandlersSafe' /\ NoLostWakeup' /\ OneCallInFlight'
    BY <1>1, <1>6, <2>3 DEF IInv, HandlersSafe, NoLostWakeup, OneCallInFlight, DropFront
  <2> QED
    BY <1>2, <2>2, <2>4 DEF IInv
<1> QED
  BY <1>3, <1>4, <1>5, <1>6 DEF processNextItem

LEMMA NextEngineWorks ==
    ASSUME IInv, EngineWorks
    PROVE  IInv'
<1> USE DEF IInv, EngineWorks, delegateVars, asyncVars
<1>1. engine' \in EngineFlags
  BY DEF TypeOK, EngineFlags, Perform
<1>2. TypeOK'
  BY <1>1 DEF TypeOK, DelegateTypeOK
<1>3. HandlersSafe' /\ NoLostWakeup' /\ MemorySavingBounded' /\ OneCallInFlight'
  BY DEF HandlersSafe, NoLostWakeup, OneCallInFlight, MemorySavingBounded
<1> QED
  BY <1>2, <1>3

LEMMA NextCompletion ==
    ASSUME IInv, CompletionHandler
    PROVE  IInv'
<1>1. CASE alive
  <2>1. queue # <<>> /\ queue' = Tail(queue) /\ inProgress
    BY <1>1 DEF IInv, OneCallInFlight, CompletionHandler, popFront
  <2>2. queue' \in Seq(Call \cup {"tryClose"})
    BY <2>1, TailOfQueue DEF IInv
  <2>3. inProgress' = FALSE /\ scheduled' = (scheduled \/ queue' # <<>> \/ ready = "registered")
    BY <1>1 DEF CompletionHandler, popFront, scheduleNextItemProcessing
  <2>4. TypeOK'
    BY <2>2, <2>3 DEF IInv, TypeOK, DelegateTypeOK, CompletionHandler, delegateVars
  <2>5. HandlersSafe'
    BY <1>1, <2>1, <2>3 DEF IInv, HandlersSafe, CompletionHandler, delegateVars
  <2>6. NoLostWakeup' /\ OneCallInFlight' /\ MemorySavingBounded'
    BY <1>1, <2>3 DEF IInv, NoLostWakeup, OneCallInFlight, MemorySavingBounded,
                      CompletionHandler, delegateVars
  <2> QED
    BY <2>4, <2>5, <2>6 DEF IInv
<1>2. CASE ~alive
  <2>1. UNCHANGED <<queue, inProgress, scheduled>>
    BY <1>2 DEF CompletionHandler
  <2>2. TypeOK'
    BY <2>1 DEF IInv, TypeOK, DelegateTypeOK, CompletionHandler, delegateVars
  <2>3. HandlersSafe' /\ NoLostWakeup' /\ OneCallInFlight' /\ MemorySavingBounded'
    BY <1>2, <2>1 DEF IInv, HandlersSafe, NoLostWakeup, OneCallInFlight, MemorySavingBounded,
                      CompletionHandler, delegateVars
  <2> QED
    BY <2>2, <2>3 DEF IInv
<1> QED
  BY <1>1, <1>2

LEMMA NextTimeout ==
    ASSUME IInv, MemorySavingTimeout
    PROVE  IInv'
<1> USE DEF IInv, MemorySavingTimeout, onMemorySavingTimerTimeout, asyncVars, engineVars
<1>1. iteration' \in Nat /\ timer' \in BOOLEAN
  <2>1. iteration' \in Nat
    BY DEF TypeOK, DelegateTypeOK
  <2> DEFINE again == iteration + 1 < MaxMemorySavingIterations
  <2>2. again \in BOOLEAN
    OBVIOUS
  <2>3. timer' = again \/ timer' = FALSE
    OBVIOUS
  <2> HIDE DEF again
  <2> QED
    BY <2>1, <2>2, <2>3
<1>2. TypeOK'
  BY <1>1 DEF TypeOK, DelegateTypeOK
<1>3. MemorySavingBounded'
  BY DEF MemorySavingBounded
<1>4. HandlersSafe' /\ NoLostWakeup' /\ OneCallInFlight'
  BY DEF HandlersSafe, NoLostWakeup, OneCallInFlight
<1> QED
  BY <1>2, <1>3, <1>4

LEMMA NextDestroy ==
    ASSUME IInv, Destroy
    PROVE  IInv'
<1> USE DEF IInv, Destroy, MainIdle, engineVars
<1>1. TypeOK'
  BY DEF TypeOK, DelegateTypeOK
<1>2. HandlersSafe' /\ NoLostWakeup' /\ OneCallInFlight' /\ MemorySavingBounded'
  BY DEF HandlersSafe, NoLostWakeup, OneCallInFlight, MemorySavingBounded
<1> QED
  BY <1>1, <1>2

LEMMA NextIInv == IInv /\ [Next]_vars => IInv'
<1> SUFFICES ASSUME IInv, [Next]_vars PROVE IInv'
  OBVIOUS
<1>1. CASE UNCHANGED vars
  BY <1>1 DEF vars, delegateVars, asyncVars, engineVars, IInv, TypeOK, DelegateTypeOK,
              HandlersSafe, NoLostWakeup, OneCallInFlight, MemorySavingBounded
<1>2. CASE Next
  BY <1>2, NextSetState, NextChangeState, NextWhenIdle, NextTryClose, NextProcess,
     NextEngineWorks, NextCompletion, NextTimeout, NextDestroy DEF Next
<1> QED
  BY <1>1, <1>2

(***************************************************************************)
(* Type correctness of WpePageLifecycleV2 for every number of requests.    *)
(***************************************************************************)
THEOREM TypeCorrect == Spec => []TypeOK
<1>1. IInv => TypeOK
  BY DEF IInv
<1> QED
  BY InitIInv, NextIInv, <1>1, PTL DEF Spec

(***************************************************************************)
(* scheduleNextItemProcessing loses no wake-up: whatever the engine does   *)
(* and however requests and completions interleave, pending work is always *)
(* attached to an idle source or to a call in the engine.                  *)
(***************************************************************************)
THEOREM NoWakeupIsLost == Spec => []NoLostWakeup
<1>1. IInv => NoLostWakeup
  BY DEF IInv
<1> QED
  BY InitIInv, NextIInv, <1>1, PTL DEF Spec

(***************************************************************************)
(* The completion handler always pops the call that completed, never an    *)
(* empty queue.                                                            *)
(***************************************************************************)
THEOREM PopsItsOwnCall == Spec => []OneCallInFlight
<1>1. IInv => OneCallInFlight
  BY DEF IInv
<1> QED
  BY InitIInv, NextIInv, <1>1, PTL DEF Spec

(***************************************************************************)
(* A destroyed delegate is never touched: no idle source, timer, request   *)
(* or late completion changes it.                                          *)
(***************************************************************************)
THEOREM DeadDelegateSafe == Spec => DeadDelegateUntouched
<1>1. IInv /\ [Next]_vars => [~alive => UNCHANGED <<delegateVars, asyncVars>>]_vars
  <2> SUFFICES ASSUME IInv, Next, ~alive
               PROVE  UNCHANGED <<delegateVars, asyncVars>>
    BY DEF vars
  <2>1. ~scheduled /\ ~timer
    BY DEF IInv, HandlersSafe
  <2>2. ASSUME NEW s \in PageState PROVE ~setState(s)
    BY DEF setState, MainIdle
  <2>3. ~ChangeState /\ ~whenIdle /\ ~tryClose /\ ~Destroy
    BY DEF ChangeState, whenIdle, tryClose, Destroy, MainIdle
  <2>4. ~processNextItem /\ ~MemorySavingTimeout
    BY <2>1 DEF processNextItem, MemorySavingTimeout, onMemorySavingTimerTimeout
  <2>5. EngineWorks \/ CompletionHandler
    BY <2>2, <2>3, <2>4 DEF Next
  <2> QED
    BY <2>5 DEF EngineWorks, CompletionHandler, asyncVars
<1> QED
  BY InitIInv, NextIInv, <1>1, PTL DEF Spec, DeadDelegateUntouched

-----------------------------------------------------------------------------
(***************************************************************************)
(* From here on the engine performs every call.  First the flags of every  *)
(* page state and of what a call makes of them, field by field.            *)
(***************************************************************************)
LEMMA FlagsValues ==
    /\ FlagsOf("ACTIVE") = Flags(TRUE, TRUE, FALSE)
    /\ FlagsOf("PASSIVE") = Flags(TRUE, FALSE, FALSE)
    /\ FlagsOf("HIDDEN") = Flags(FALSE, FALSE, FALSE)
    /\ FlagsOf("TERMINATED") = Flags(FALSE, FALSE, FALSE)
    /\ FlagsOf("FROZEN") = Flags(FALSE, FALSE, TRUE)
    /\ FlagsOf("INITIALIZING") = Flags(FALSE, FALSE, FALSE)
<1>1. FlagsOf("ACTIVE") = Flags(TRUE, TRUE, FALSE)
  <2>1. ("ACTIVE" \in {"ACTIVE", "PASSIVE"}) = TRUE /\ ("ACTIVE" = "ACTIVE") = TRUE /\ ("ACTIVE" = "FROZEN") = FALSE
    OBVIOUS
  <2> QED
    BY ONLY <2>1, Zenon DEF FlagsOf
<1>2. FlagsOf("PASSIVE") = Flags(TRUE, FALSE, FALSE)
  BY DEF FlagsOf, Flags
<1>3. FlagsOf("HIDDEN") = Flags(FALSE, FALSE, FALSE)
  <2>1. /\ ("HIDDEN" \in {"ACTIVE", "PASSIVE"}) = FALSE
        /\ ("HIDDEN" = "ACTIVE") = FALSE
        /\ ("HIDDEN" = "FROZEN") = FALSE
    OBVIOUS
  <2> QED
    BY ONLY <2>1, Zenon DEF FlagsOf
<1>4. FlagsOf("TERMINATED") = Flags(FALSE, FALSE, FALSE)
  <2>1. /\ ("TERMINATED" \in {"ACTIVE", "PASSIVE"}) = FALSE
        /\ ("TERMINATED" = "ACTIVE") = FALSE
        /\ ("TERMINATED" = "FROZEN") = FALSE
    OBVIOUS
  <2> QED
    BY ONLY <2>1, Zenon DEF FlagsOf
<1>5. FlagsOf("FROZEN") = Flags(FALSE, FALSE, TRUE)
  <2>1. /\ ("FROZEN" \in {"ACTIVE", "PASSIVE"}) = FALSE
        /\ ("FROZEN" = "ACTIVE") = FALSE
        /\ ("FROZEN" = "FROZEN") = TRUE
    OBVIOUS
  <2> QED
    BY ONLY <2>1, Zenon DEF FlagsOf
<1>6. FlagsOf("INITIALIZING") = Flags(FALSE, FALSE, FALSE)
  <2>1. /\ ("INITIALIZING" \in {"ACTIVE", "PASSIVE"}) = FALSE
        /\ ("INITIALIZING" = "ACTIVE") = FALSE
        /\ ("INITIALIZING" = "FROZEN") = FALSE
    OBVIOUS
  <2> QED
    BY ONLY <2>1, Zenon DEF FlagsOf
<1> QED
  BY <1>1, <1>2, <1>3, <1>4, <1>5, <1>6

(* What a call changes. *)
LEMMA PerformValues == 
    ASSUME NEW v \in BOOLEAN, NEW f \in BOOLEAN, NEW s \in BOOLEAN
    PROVE
    /\ Perform("show", Flags(v, f, s)) = Flags(TRUE, f, s)
    /\ Perform("hide", Flags(v, f, s)) = Flags(FALSE, f, s)
    /\ Perform("focus", Flags(v, f, s)) = Flags(v, TRUE, s)
    /\ Perform("blur", Flags(v, f, s)) = Flags(v, FALSE, s)
    /\ Perform("freeze", Flags(v, f, s)) = Flags(v, f, TRUE)
    /\ Perform("resume", Flags(v, f, s)) = Flags(v, f, FALSE)
<1>1. Perform("show", Flags(v, f, s)) = Flags(TRUE, f, s)
  BY DEF Perform, Flags
<1>2. Perform("hide", Flags(v, f, s)) = Flags(FALSE, f, s)
  BY DEF Perform, Flags
<1>3. Perform("focus", Flags(v, f, s)) = Flags(v, TRUE, s)
  BY DEF Perform, Flags
<1>4. Perform("blur", Flags(v, f, s)) = Flags(v, FALSE, s)
  BY DEF Perform, Flags
<1>5. Perform("freeze", Flags(v, f, s)) = Flags(v, f, TRUE)
  BY DEF Perform, Flags
<1>6. Perform("resume", Flags(v, f, s)) = Flags(v, f, FALSE)
  BY DEF Perform, Flags
<1> QED
  BY <1>1, <1>2, <1>3, <1>4, <1>5, <1>6
(***************************************************************************)
(* A call leads from the flags of the state before it to those of the      *)
(* state after it; hide and blur also leave a page alone that has nothing  *)
(* to clear.                                                               *)
(***************************************************************************)
LEMMA PerformMoves ==
    /\ \A call \in Call : Perform(call, FlagsOf(PageBefore(call))) = FlagsOf(PageAfter(call))
    /\ Perform("hide", FlagsOf("HIDDEN")) = FlagsOf("HIDDEN")
    /\ Perform("blur", FlagsOf("HIDDEN")) = FlagsOf("HIDDEN")
    /\ Perform("blur", FlagsOf("PASSIVE")) = FlagsOf("PASSIVE")
<1>1. ASSUME NEW call \in Call
      PROVE  Perform(call, FlagsOf(PageBefore(call))) = FlagsOf(PageAfter(call))
  BY FlagsValues, PerformValues DEF Call, PageBefore, PageAfter
<1> QED
  BY <1>1, FlagsValues, PerformValues

(* The fields of a record of flags. *)
LEMMA FieldsOfFlags ==
    ASSUME NEW v \in BOOLEAN, NEW f \in BOOLEAN, NEW z \in BOOLEAN
    PROVE  /\ Flags(v, f, z) \in EngineFlags
           /\ Flags(v, f, z).visible = v
           /\ Flags(v, f, z).focused = f
           /\ Flags(v, f, z).suspended = z
  BY DEF Flags, EngineFlags

(* The flags of a page state are legal, and a terminated page is hidden.   *)
LEMMA FlagsLegal ==
    ASSUME NEW e, NEW s \in PageState, e = FlagsOf(s)
    PROVE  /\ e \in EngineFlags
           /\ e.suspended => ~e.visible
           /\ e.focused => e.visible
<1>2. CASE s = "ACTIVE"
  BY FieldsOfFlags, <1>2, FlagsValues
<1>3. CASE s = "PASSIVE"
  BY FieldsOfFlags, <1>3, FlagsValues
<1>4. CASE s \in {"INITIALIZING", "HIDDEN", "TERMINATED"}
  BY FieldsOfFlags, <1>4, FlagsValues
<1>5. CASE s = "FROZEN"
  BY FieldsOfFlags, <1>5, FlagsValues
<1> QED
  BY <1>2, <1>3, <1>4, <1>5 DEF PageState

LEMMA InitEngineInv == Init => EngineInv
<1> SUFFICES ASSUME Init PROVE EngineInv
  OBVIOUS
<1>1. queue = <<>> /\ Len(queue) = 0
  BY EmptySeq DEF Init
<1>2. QueueChained
  BY <1>1 DEF Init, DelegateInit, QueueChained, Linked, CloseLast
<1>3. PICK s \in {"ACTIVE", "PASSIVE", "HIDDEN"} : engine = FlagsOf(s)
  BY DEF Init
<1>4. s \in PageState
  BY DEF PageState
<1>5. EngineLegal
  BY <1>3, <1>4, FlagsLegal, Zenon DEF EngineLegal
<1> QED
  BY <1>2, <1>5 DEF Init, EngineInv, ClosesHiddenPage

(***************************************************************************)
(* Queueing a call that starts where the chain ends extends the chain.     *)
(***************************************************************************)
LEMMA AppendCall ==
    ASSUME IInv, EngineInv, alive, alive',
           NEW call \in Call \cup {"tryClose"}, NEW s,
           currState # "INITIALIZING",
           FlagsOf(PageBefore(call)) = FlagsOf(currState),
           FlagsOf(PageAfter(call)) = FlagsOf(s),
           IF call = "tryClose" THEN currState = "TERMINATED" /\ s = currState
                                ELSE currState # "TERMINATED",
           queue' = queue \o <<call>>, currState' = s,
           UNCHANGED <<engine, engineOp>>
    PROVE  QueueChained'
<1> DEFINE Item == Call \cup {"tryClose"}
           n == Len(queue)
<1>1. /\ queue' \in Seq(Item)
      /\ n \in Nat
      /\ Len(queue') = n + 1
      /\ \A i \in 1..n : queue'[i] = queue[i]
      /\ queue'[n + 1] = call
  <2>1. queue \in Seq(Item) /\ call \in Item
    BY DEF IInv, TypeOK
  <2> HIDE DEF Item
  <2>2. <<call>> \in Seq(Item) /\ Len(<<call>>) = 1 /\ <<call>>[1] = call
    BY <2>1
  <2>3. n \in Nat
    BY <2>1, LenProperties
  <2>4. /\ queue \o <<call>> \in Seq(Item)
        /\ Len(queue \o <<call>>) = n + 1
        /\ \A i \in 1..n + 1 : (queue \o <<call>>)[i] = IF i <= n THEN queue[i] ELSE <<call>>[i - n]
    BY <2>1, <2>2, ConcatProperties
  <2> HIDE DEF n
  <2>5. (queue \o <<call>>)[n + 1] = call
    BY <2>2, <2>3, <2>4
  <2> QED
    BY <2>3, <2>4, <2>5
<1>2. queue # <<>> <=> n > 0
  BY EmptySeq DEF IInv, TypeOK
<1> HIDE DEF n
<1>3. queue' # <<>>
  BY <1>1, EmptySeq
<1>4. FrontFits'
  <2>1. CASE queue = <<>>
    <3>1. engineOp' = "none" /\ engine' = FlagsOf(currState) /\ queue'[1] = call
      BY <1>1, <1>2, <2>1 DEF IInv, OneCallInFlight, TypeOK, EngineInv, QueueChained
    <3> QED
      BY <3>1 DEF FrontFits
  <2>2. CASE queue # <<>>
    <3>1. FrontFits /\ queue'[1] = queue[1] /\ n >= 1
      BY <1>1, <1>2, <2>2 DEF EngineInv, QueueChained
    <3>2. ThenHide => ThenHide'
      BY <1>1 DEF ThenHide, n
    <3> QED
      BY <3>1, <3>2 DEF FrontFits
  <2> QED
    BY <2>1, <2>2
<1>5. Linked'
  <2> SUFFICES ASSUME NEW i \in 1..n + 1, NEW j \in 1..n + 1, j = i + 1
               PROVE  FlagsOf(PageAfter(queue'[i])) = FlagsOf(PageBefore(queue'[j]))
    BY <1>1 DEF Linked
  <2>1. CASE j <= n
    BY <1>1, <2>1 DEF EngineInv, QueueChained, Linked, n
  <2>2. CASE j = n + 1
    <3>1. i = n /\ n > 0
      BY <1>1, <2>2
    <3>2. FlagsOf(PageAfter(queue[n])) = FlagsOf(currState)
      BY <1>2, <3>1 DEF EngineInv, QueueChained, n
    <3> QED
      BY <1>1, <2>2, <3>1, <3>2
  <2> QED
    BY <1>1, <2>1, <2>2
<1>6. CloseLast'
  <2>1. \A i \in 1..n : queue[i] = "tryClose" => currState = "TERMINATED"
    BY <1>1 DEF EngineInv, QueueChained, CloseLast, n
  <2> SUFFICES ASSUME NEW i \in 1..n + 1, NEW j \in 1..n + 1, i <= j, queue'[i] = "tryClose"
               PROVE  queue'[j] = "tryClose" /\ currState' = "TERMINATED"
    BY <1>1 DEF CloseLast
  <2>2. call = "tryClose" /\ currState = "TERMINATED"
    BY <1>1, <2>1
  <2>3. CASE j <= n
    BY <1>1, <2>2, <2>3 DEF EngineInv, QueueChained, CloseLast, n
  <2>4. CASE j = n + 1
    BY <1>1, <2>2, <2>4
  <2> QED
    BY <1>1, <2>3, <2>4
<1> QED
  BY <1>1, <1>3, <1>4, <1>5, <1>6 DEF QueueChained

(***************************************************************************)
(* Taking the front call off when it was performed leaves a chain.         *)
(***************************************************************************)
LEMMA PopCall ==
    ASSUME IInv, EngineInv, alive, queue # <<>>,
           engineOp = "succeeded" \/ (engineOp = "none" /\ queue[1] = "tryClose"),
           queue' = Tail(queue), engineOp' = "none",
           UNCHANGED <<currState, engine, alive>>
    PROVE  QueueChained'
<1> DEFINE n == Len(queue)
<1>1. /\ n \in Nat \ {0}
      /\ queue' \in Seq(Call \cup {"tryClose"})
      /\ Len(queue') = n - 1
      /\ \A i \in 1..n - 1 : queue'[i] = queue[i + 1]
  BY TailOfQueue DEF IInv
<1>2. /\ FrontFits /\ Linked /\ CloseLast
      /\ FlagsOf(PageAfter(queue[n])) = FlagsOf(currState)
  BY DEF EngineInv, QueueChained
<1>3. \/ engine = FlagsOf(PageAfter(queue[1]))
      \/ engine = FlagsOf("HIDDEN") /\ n > 1 /\ queue[2] = "hide" /\ queue[1] = "blur"
  BY <1>2 DEF FrontFits, ThenHide, PageBefore, PageAfter
<1> HIDE DEF n
<1>4. CASE n = 1
  <2>1. queue' = <<>>
    BY <1>1, <1>4, EmptySeq
  <2>2. engine' = FlagsOf(currState')
    BY <1>1, <1>2, <1>3, <1>4
  <2>3. Linked' /\ CloseLast'
    BY <1>1, <1>4 DEF Linked, CloseLast
  <2> QED
    BY <2>1, <2>2, <2>3 DEF QueueChained
<1>5. CASE n > 1
  <2>1. /\ Len(queue') >= 1
        /\ queue'[1] = queue[2] /\ queue'[n - 1] = queue[n]
    BY <1>1, <1>5
  <2>2. FlagsOf(PageAfter(queue[1])) = FlagsOf(PageBefore(queue[2]))
    BY <1>1, <1>2, <1>5 DEF Linked, n
  <2>3. FrontFits'
    BY <1>3, <2>1, <2>2 DEF FrontFits
  <2>4. Linked'
    BY <1>1, <1>2 DEF Linked, n
  <2>5. CloseLast'
    BY <1>1, <1>2 DEF CloseLast, n
  <2>6. queue' # <<>>
    BY <1>1, <1>5, EmptySeq
  <2>7. FlagsOf(PageAfter(queue'[Len(queue')])) = FlagsOf(currState')
    BY <1>1, <1>2, <2>1
  <2> QED
    BY <2>3, <2>4, <2>5, <2>6, <2>7 DEF QueueChained
<1> QED
  BY <1>1, <1>4, <1>5
(***************************************************************************)
(* The chain needs only the queue, the engine and m_currState.             *)
(***************************************************************************)
LEMMA SameChain ==
    ASSUME EngineInv,
           UNCHANGED <<queue, currState, engine, engineOp, closing, alive>>
    PROVE  EngineInv'
  BY DEF EngineInv, QueueChained, EngineLegal, ClosesHiddenPage, Linked, CloseLast,
         FrontFits, ThenHide

(***************************************************************************)
(* A turn of the loop of setState extends the chain by the call of its     *)
(* hop.  The two calls of the first hop start the chain, from an engine in *)
(* any state.                                                              *)
(***************************************************************************)
LEMMA ChangeStateChained ==
    ASSUME IInv, EngineInv, ChangeState
    PROVE  EngineInv'
<1> DEFINE hop == nextState(currState, target)
           calls == callsOf(currState, hop)
<1>1. /\ alive /\ alive' /\ target # NONE
      /\ currState' = hop
      /\ queue' = queue \o calls
      /\ UNCHANGED <<engine, engineOp, closing>>
  BY DEF ChangeState, changeState, enqueueAsyncChange, turnCalls, engineVars
<1>2. /\ currState \in PageState /\ target \in PageState
      /\ currState # target /\ target # "INITIALIZING"
      /\ currState # "TERMINATED"
      /\ currState = "INITIALIZING" => target = "HIDDEN" /\ queue = <<>>
      /\ currState = "INITIALIZING" => ~inProgress
  BY <1>1 DEF IInv, TypeOK, DelegateTypeOK, HandlersSafe, NONE
<1>3. Hop(currState, hop)
  BY <1>2, HopsOfNextState
<1>4. ~closing
  BY <1>2 DEF EngineInv
<1>5. hop # "INITIALIZING"
  BY <1>3 DEF Hop
<1> HIDE DEF hop
<1>6. QueueChained'
  <2>1. CASE hop = "TERMINATED" /\ currState = "HIDDEN" /\ calls = <<>>
    <3>1. queue' = queue
      BY <1>1, <1>3, <2>1, EnqueueType DEF IInv
    <3>2. FlagsOf(currState') = FlagsOf(currState)
      BY <1>1, <2>1, FlagsValues
    <3>3. FrontFits' = FrontFits /\ Linked' = Linked
      BY <1>1, <3>1 DEF FrontFits, ThenHide, Linked
    <3>4. CloseLast'
      BY <1>1, <1>2, <3>1, <2>1 DEF EngineInv, QueueChained, CloseLast
    <3> QED
      BY <1>1, <2>1, <3>1, <3>2, <3>3, <3>4 DEF EngineInv, QueueChained
  <2>2. CASE currState = "INITIALIZING" /\ calls = <<"blur", "hide">>
    <3>1. queue' = <<"blur", "hide">> /\ hop = "HIDDEN"
      <4>1. queue = <<>>
        BY <1>2, <2>2
      <4> QED
        BY <1>1, <1>3, <2>2, <4>1 DEF Hop
    <3>2. PICK s \in {"ACTIVE", "PASSIVE", "HIDDEN"} : engine = FlagsOf(s)
      BY <2>2 DEF EngineInv
    <3>3. engineOp' = "none"
      BY <1>1, <1>2, <2>2 DEF IInv, TypeOK, OneCallInFlight
    <3>4. /\ Len(queue') = 2 /\ queue'[1] = "blur" /\ queue'[2] = "hide"
          /\ queue' # <<>>
      BY <3>1
    <3>5. FrontFits'
      BY <1>1, <3>2, <3>3, <3>4 DEF FrontFits, ThenHide, PageBefore
    <3>6. Linked' /\ CloseLast'
      BY <3>4 DEF Linked, CloseLast, PageAfter, PageBefore
    <3>7. FlagsOf(PageAfter(queue'[Len(queue')])) = FlagsOf(currState')
      BY <1>1, <3>1, <3>4 DEF PageAfter
    <3> QED
      BY <3>4, <3>5, <3>6, <3>7 DEF QueueChained
  <2>3. ASSUME NEW call \in Call, calls = <<call>>,
               currState # "INITIALIZING", hop # "TERMINATED",
               PageBefore(call) = currState, PageAfter(call) = hop
        PROVE  QueueChained'
    <3>1. call # "tryClose"
      BY DEF Call
    <3>2. queue' = queue \o <<call>>
      BY <1>1, <2>3
    <3> HIDE DEF calls
    <3> QED
      BY <1>1, <1>2, <2>3, <3>1, <3>2, AppendCall
  <2> QED
    BY <1>3, <2>1, <2>2, <2>3, CallsOfHop
<1> HIDE DEF calls
<1>7. EngineLegal' /\ ClosesHiddenPage' /\ (engineOp' # "failed" \/ ~alive')
  BY <1>1, <1>4 DEF EngineInv, EngineLegal, ClosesHiddenPage
<1> QED
  BY <1>1, <1>4, <1>5, <1>6, <1>7 DEF EngineInv

LEMMA TryCloseChained ==
    ASSUME IInv, EngineInv, tryClose
    PROVE  EngineInv'
<1>1. /\ alive /\ alive' /\ currState = "TERMINATED"
      /\ queue' = queue \o <<"tryClose">>
      /\ UNCHANGED <<currState, engine, engineOp, closing>>
  BY DEF tryClose, MainIdle, enqueueAsyncChange, delegateVars, engineVars
<1>2. /\ FlagsOf(PageBefore("tryClose")) = FlagsOf(currState)
      /\ FlagsOf(PageAfter("tryClose")) = FlagsOf(currState)
  BY <1>1, FlagsValues DEF PageBefore, PageAfter
<1>3. QueueChained'
  BY <1>1, <1>2, AppendCall
<1>4. ASSUME closing
      PROVE  \A i \in 1..Len(queue') : queue'[i] = "tryClose"
  <2> DEFINE Item == Call \cup {"tryClose"}
  <2>1. queue \in Seq(Item) /\ "tryClose" \in Item
    BY DEF IInv, TypeOK
  <2> HIDE DEF Item
  <2>2. <<"tryClose">> \in Seq(Item) /\ Len(<<"tryClose">>) = 1 /\ <<"tryClose">>[1] = "tryClose"
    BY <2>1
  <2>3. /\ Len(queue') = Len(queue) + 1
        /\ \A i \in 1..Len(queue) + 1 :
              queue'[i] = IF i <= Len(queue) THEN queue[i] ELSE <<"tryClose">>[i - Len(queue)]
    BY <1>1, <2>1, <2>2, ConcatProperties
  <2>4. Len(queue) \in Nat
    BY <2>1, LenProperties
  <2>5. \A i \in 1..Len(queue) : queue[i] = "tryClose"
    BY <1>4 DEF EngineInv
  <2> QED
    BY <2>2, <2>3, <2>4, <2>5
<1>5. EngineLegal' /\ ClosesHiddenPage' /\ (engineOp' # "failed" \/ ~alive')
  BY <1>1 DEF EngineInv, EngineLegal, ClosesHiddenPage
<1> QED
  BY <1>1, <1>3, <1>4, <1>5 DEF EngineInv
(***************************************************************************)
(* The idle source hands the front call to the engine, or closes a page    *)
(* that the chain shows to be hidden.                                      *)
(***************************************************************************)
LEMMA ProcessChained ==
    ASSUME IInv, EngineInv, ~EngineMayFail, processNextItem
    PROVE  EngineInv'
<1>1. /\ alive /\ alive' /\ target = NONE /\ ready # "unset"
      /\ UNCHANGED <<currState, engine>>
  BY DEF IInv, HandlersSafe, TypeOK, processNextItem, delegateVars
<1>2. currState # "INITIALIZING"
  BY <1>1 DEF IInv, HandlersSafe
<1>3. CASE UNCHANGED <<queue, inProgress, engineOp, closing>>
  BY <1>1, <1>3, SameChain
<1>4. CASE ~inProgress /\ queue # <<>> /\ RunFront
  <2>1. engineOp = "none" /\ engineOp' = "running" /\ UNCHANGED <<queue, closing>>
    BY <1>1, <1>4 DEF IInv, TypeOK, OneCallInFlight, RunFront
  <2> QED
    BY <1>1, <2>1 DEF EngineInv, QueueChained, EngineLegal, ClosesHiddenPage, Linked,
                      CloseLast, FrontFits, ThenHide
<1>5. CASE ~inProgress /\ queue # <<>> /\ DropFront
  <2>1. /\ queue[1] = "tryClose" /\ queue' = Tail(queue) /\ closing'
        /\ engineOp = "none" /\ engineOp' = "none"
    BY <1>1, <1>5, TailOfQueue DEF IInv, TypeOK, OneCallInFlight, DropFront
  <2>2. QueueChained'
    BY <1>1, <1>5, <2>1, PopCall
  <2>3. engine = FlagsOf("HIDDEN")
    BY <1>1, <1>5, <2>1, FlagsValues
    DEF EngineInv, QueueChained, FrontFits, PageBefore
  <2>4. /\ currState = "TERMINATED"
        /\ \A i \in 1..Len(queue') : queue'[i] = "tryClose"
    <3>1. /\ Len(queue) \in Nat \ {0}
          /\ Len(queue') = Len(queue) - 1
          /\ \A i \in 1..Len(queue') : queue'[i] = queue[i + 1]
      BY <1>5, <2>1, TailOfQueue DEF IInv
    <3>2. \A j \in 1..Len(queue) : queue[j] = "tryClose" /\ currState = "TERMINATED"
      BY <1>1, <2>1, <3>1 DEF EngineInv, QueueChained, CloseLast
    <3> QED
      BY <3>1, <3>2
  <2>5. EngineLegal' /\ ClosesHiddenPage'
    BY <1>1, <2>3 DEF EngineInv, EngineLegal, ClosesHiddenPage
  <2> QED
    BY <1>1, <1>2, <2>1, <2>2, <2>4, <2>5 DEF EngineInv
<1> QED
  BY <1>3, <1>4, <1>5 DEF processNextItem

(***************************************************************************)
(* What the engine does for the front call: an edge of the lifecycle       *)
(* diagram, or nothing for a hide or blur that finds its work done.        *)
(***************************************************************************)
LEMMA EngineStep ==
    ASSUME IInv, EngineInv, ~EngineMayFail, EngineWorks, alive
    PROVE  /\ queue # <<>> /\ queue[1] \in Call
           /\ engineOp' = "succeeded"
           /\ \/ /\ engine = FlagsOf(PageBefore(queue[1]))
                 /\ engine' = FlagsOf(PageAfter(queue[1]))
              \/ /\ engine' = engine
                 /\ engine = FlagsOf(PageAfter(queue[1])) /\ queue[1] \in {"blur", "hide"}
              \/ /\ engine' = engine
                 /\ engine = FlagsOf("HIDDEN") /\ queue[1] = "blur" /\ ThenHide
<1>1. /\ queue # <<>> /\ Head(queue) = queue[1] /\ queue[1] \in Call
      /\ engineOp = "running"
  <2>1. engineOp = "running" /\ queue # <<>> /\ Head(queue) # "tryClose"
    BY DEF EngineWorks, IInv, OneCallInFlight
  <2> QED
    BY <2>1, TailOfQueue DEF IInv
<1>2. engine' = Perform(queue[1], engine) /\ engineOp' = "succeeded"
  BY <1>1 DEF EngineWorks
<1>3. FrontFits /\ engineOp # "succeeded"
  BY <1>1 DEF EngineInv, QueueChained
<1>4. CASE engine = FlagsOf(PageBefore(queue[1]))
  BY <1>1, <1>2, <1>4, PerformMoves
<1>5. CASE queue[1] = "hide" /\ engine = FlagsOf("HIDDEN")
  BY <1>1, <1>2, <1>5, PerformMoves DEF PageAfter
<1>6. CASE queue[1] = "blur" /\ engine = FlagsOf("HIDDEN") /\ ThenHide
  BY <1>1, <1>2, <1>6, PerformMoves
<1>7. CASE queue[1] = "blur" /\ engine = FlagsOf("PASSIVE")
  BY <1>1, <1>2, <1>7, PerformMoves DEF PageAfter
<1> QED
  BY <1>3, <1>4, <1>5, <1>6, <1>7 DEF FrontFits

LEMMA EngineWorksChained ==
    ASSUME IInv, EngineInv, ~EngineMayFail, EngineWorks
    PROVE  EngineInv'
<1>1. UNCHANGED <<currState, queue, alive, closing, ready, inProgress>>
  BY DEF EngineWorks, delegateVars, asyncVars
<1>2. CASE ~alive
  <2>1. engine' = engine
    BY <1>2 DEF EngineWorks
  <2> QED
    BY <1>1, <1>2, <2>1 DEF EngineInv, QueueChained, EngineLegal, ClosesHiddenPage
<1>3. CASE alive
  <2>1. /\ queue # <<>> /\ queue[1] \in Call /\ engineOp' = "succeeded"
        /\ \/ engine' = FlagsOf(PageAfter(queue[1]))
           \/ engine' = FlagsOf("HIDDEN") /\ queue[1] = "blur" /\ ThenHide
    BY <1>3, EngineStep
  <2>2. QueueChained'
    <3>1. FrontFits'
      BY <1>1, <2>1 DEF FrontFits, ThenHide
    <3>2. Linked' /\ CloseLast'
      BY <1>1, <1>3 DEF EngineInv, QueueChained, Linked, CloseLast
    <3> QED
      BY <1>1, <1>3, <2>1, <3>1, <3>2 DEF EngineInv, QueueChained
  <2>3. EngineLegal'
    <3>1. PageAfter(queue[1]) \in PageState /\ "HIDDEN" \in PageState
      BY DEF PageAfter, PageState
    <3>2. PICK s \in PageState : engine' = FlagsOf(s)
      BY <2>1, <3>1
    <3> QED
      BY <3>2, FlagsLegal, Zenon DEF EngineLegal
  <2>4. ~closing
    <3>1. queue[1] # "tryClose" /\ Len(queue) \in Nat \ {0}
      BY <2>1, TailOfQueue DEF IInv, Call
    <3> QED
      BY <3>1 DEF EngineInv
  <2>5. currState # "INITIALIZING"
    BY <2>1 DEF IInv, HandlersSafe
  <2> QED
    BY <1>1, <1>3, <2>1, <2>2, <2>3, <2>4, <2>5 DEF EngineInv, ClosesHiddenPage
<1> QED
  BY <1>2, <1>3

LEMMA CompletionChained ==
    ASSUME IInv, EngineInv, CompletionHandler
    PROVE  EngineInv'
<1>1. /\ engineOp \in {"succeeded", "failed"} /\ engineOp' = "none"
      /\ UNCHANGED <<currState, alive, engine, closing>>
  BY DEF CompletionHandler, delegateVars
<1>2. CASE ~alive
  <2>1. queue' = queue
    BY <1>2 DEF CompletionHandler
  <2> QED
    BY <1>1, <1>2, <2>1 DEF EngineInv, QueueChained, EngineLegal, ClosesHiddenPage
<1>3. CASE alive
  <2>1. engineOp = "succeeded" /\ queue # <<>> /\ queue[1] # "tryClose"
    <3>1. queue # <<>> /\ Head(queue) # "tryClose"
      BY <1>1, <1>3 DEF IInv, OneCallInFlight
    <3> QED
      BY <1>1, <1>3, <3>1, TailOfQueue DEF IInv, EngineInv
  <2>2. queue' = Tail(queue)
    BY <1>3 DEF CompletionHandler, popFront
  <2>3. QueueChained'
    BY <1>1, <1>3, <2>1, <2>2, PopCall
  <2>4. ~closing
    <3>1. Len(queue) \in Nat \ {0}
      BY <2>1, TailOfQueue DEF IInv
    <3> QED
      BY <2>1, <3>1 DEF EngineInv
  <2>5. EngineLegal'
    BY <1>1 DEF EngineInv, EngineLegal
  <2> QED
    BY <1>1, <2>3, <2>4, <2>5 DEF EngineInv, ClosesHiddenPage
<1> QED
  BY <1>2, <1>3

LEMMA DestroyChained ==
    ASSUME EngineInv, Destroy
    PROVE  EngineInv'
  BY DEF Destroy, engineVars, EngineInv, QueueChained, EngineLegal, ClosesHiddenPage

LEMMA NextEngineInv ==
    ASSUME ~EngineMayFail
    PROVE  IInv /\ EngineInv /\ [Next]_vars => EngineInv'
<1> SUFFICES ASSUME IInv, EngineInv, [Next]_vars PROVE EngineInv'
  OBVIOUS
<1>1. CASE UNCHANGED vars
  BY <1>1, SameChain DEF vars, delegateVars, asyncVars, engineVars
<1>2. ASSUME NEW s \in PageState, setState(s) PROVE EngineInv'
  BY <1>2, SameChain DEF setState, AcceptState, asyncVars, engineVars
<1>3. CASE whenIdle
  BY <1>3, SameChain DEF whenIdle, delegateVars, engineVars
<1>4. CASE MemorySavingTimeout
  BY <1>4, SameChain DEF MemorySavingTimeout, onMemorySavingTimerTimeout, asyncVars, engineVars
<1> QED
  BY <1>1, <1>2, <1>3, <1>4, ChangeStateChained, TryCloseChained, ProcessChained,
     EngineWorksChained, CompletionChained, DestroyChained DEF Next

(***************************************************************************)
(* When the engine performs every call, the page is in the state the       *)
(* delegate reports whenever its queue is empty, the engine is only asked  *)
(* for states of the page lifecycle, and a page closes hidden and thawed.  *)
(***************************************************************************)
THEOREM PageFollowsDelegate ==
    ~EngineMayFail => (Spec => [](PageAgrees /\ EngineLegal /\ ClosesHiddenPage))
<1> SUFFICES ASSUME ~EngineMayFail
             PROVE  Spec => [](PageAgrees /\ EngineLegal /\ ClosesHiddenPage)
  OBVIOUS
<1>1. IInv /\ EngineInv => PageAgrees /\ EngineLegal /\ ClosesHiddenPage
  BY DEF IInv, HandlersSafe, EngineInv, QueueChained, PageAgrees, MainIdle
<1> QED
  BY InitIInv, InitEngineInv, NextIInv, NextEngineInv, <1>1, PTL DEF Spec

(***************************************************************************)
(* The view is reported ready only when the engine has done every call.    *)
(***************************************************************************)
THEOREM ReadyMeansSettled == ~EngineMayFail => (Spec => ReadyWhenSettled)
<1> SUFFICES ASSUME ~EngineMayFail PROVE Spec => ReadyWhenSettled
  OBVIOUS
<1>1. IInv /\ EngineInv /\ [Next]_vars
      => [ready # "signalled" /\ ready' = "signalled"
            => queue = <<>> /\ engine = FlagsOf(currState)]_vars
  <2> SUFFICES ASSUME IInv, EngineInv, Next, ready # "signalled", ready' = "signalled"
               PROVE  queue = <<>> /\ engine = FlagsOf(currState)
    BY DEF vars
  <2>1. processNextItem
    BY DEF Next, setState, ChangeState, whenIdle, tryClose, EngineWorks, CompletionHandler,
           MemorySavingTimeout, Destroy, asyncVars
  <2>2. queue = <<>> /\ alive /\ ready # "unset"
    BY <2>1 DEF processNextItem, IInv, HandlersSafe
  <2>3. currState # "INITIALIZING"
    BY <2>2 DEF IInv, HandlersSafe
  <2> QED
    BY <2>2, <2>3 DEF EngineInv, QueueChained
<1> QED
  BY InitIInv, InitEngineInv, NextIInv, NextEngineInv, <1>1, PTL DEF Spec, ReadyWhenSettled
(* The page a document in each state sees. *)
LEMMA SeenInState ==
    ASSUME NEW s \in {"ACTIVE", "PASSIVE", "HIDDEN", "FROZEN"}, engine = FlagsOf(s)
    PROVE  PageSeen = s
<1>1. /\ Flags(TRUE, TRUE, FALSE).visible /\ Flags(TRUE, TRUE, FALSE).focused
      /\ ~Flags(TRUE, TRUE, FALSE).suspended
      /\ Flags(TRUE, FALSE, FALSE).visible /\ ~Flags(TRUE, FALSE, FALSE).focused
      /\ ~Flags(TRUE, FALSE, FALSE).suspended
      /\ ~Flags(FALSE, FALSE, FALSE).visible /\ ~Flags(FALSE, FALSE, FALSE).suspended
      /\ Flags(FALSE, FALSE, TRUE).suspended
  BY FieldsOfFlags
<1> QED
  BY <1>1, FlagsValues DEF PageSeen

LEMMA SeenInStateNext ==
    ASSUME NEW s \in {"ACTIVE", "PASSIVE", "HIDDEN", "FROZEN"}, engine' = FlagsOf(s)
    PROVE  PageSeen' = s
<1>1. /\ Flags(TRUE, TRUE, FALSE).visible /\ Flags(TRUE, TRUE, FALSE).focused
      /\ ~Flags(TRUE, TRUE, FALSE).suspended
      /\ Flags(TRUE, FALSE, FALSE).visible /\ ~Flags(TRUE, FALSE, FALSE).focused
      /\ ~Flags(TRUE, FALSE, FALSE).suspended
      /\ ~Flags(FALSE, FALSE, FALSE).visible /\ ~Flags(FALSE, FALSE, FALSE).suspended
      /\ Flags(FALSE, FALSE, TRUE).suspended
  BY FieldsOfFlags
<1> QED
  BY <1>1, FlagsValues DEF PageSeen

(***************************************************************************)
(* A request is an Ask of the abstract page, a call the engine performs is *)
(* a Move along its diagram, and every other step leaves it alone.         *)
(***************************************************************************)
LEMMA StepOfPage ==
    ASSUME ~EngineMayFail, IInv, EngineInv, [Next]_vars
    PROVE  [Abstract!Next]_(Abstract!vars)
<1> DEFINE wanted == IF target = NONE THEN currState ELSE target
<1>1. ASSUME UNCHANGED <<currState, target, engine>>
      PROVE  UNCHANGED Abstract!vars
  BY <1>1 DEF Abstract!vars, PageSeen
<1>2. ASSUME NEW s \in PageState, setState(s)
      PROVE  Abstract!Ask(s) /\ s \in Abstract!PageLifecycleState \ {"INITIALIZING"}
  <2>1. s # NONE
    BY DEF PageState, NONE
  <2> QED
    BY <1>2, <2>1
    DEF setState, AcceptState, MainIdle, engineVars, Abstract!Ask, Abstract!PageLifecycleState,
        PageState, PageSeen
<1>3. CASE ChangeState
  <2>1. wanted' = wanted /\ engine' = engine
    BY <1>3 DEF ChangeState, changeState, engineVars
  <2> QED
    BY <2>1 DEF Abstract!vars, PageSeen
<1>4. CASE EngineWorks
  <2>1. UNCHANGED <<currState, target>>
    BY <1>4 DEF EngineWorks, delegateVars
  <2>2. CASE engine' = engine
    BY <1>1, <2>1, <2>2
  <2>3. CASE engine' # engine
    <3>1. alive
      BY <1>4, <2>3 DEF EngineWorks
    <3> DEFINE before == PageBefore(queue[1])
               after == PageAfter(queue[1])
    <3>2. /\ queue[1] \in Call
          /\ engine = FlagsOf(before) /\ engine' = FlagsOf(after)
      BY <1>4, <2>3, <3>1, EngineStep
    <3>3. /\ before \in {"ACTIVE", "PASSIVE", "HIDDEN", "FROZEN"}
          /\ after \in {"ACTIVE", "PASSIVE", "HIDDEN", "FROZEN"}
          /\ <<before, after>> \in Abstract!Edges
      BY <3>2 DEF Call, PageBefore, PageAfter, Abstract!Edges
    <3> HIDE DEF before, after
    <3>4. PageSeen = before /\ PageSeen' = after
      BY <3>2, <3>3, SeenInState, SeenInStateNext
    <3>5. Abstract!Move(after)
      BY <2>1, <3>3, <3>4 DEF Abstract!Move
    <3> QED
      BY <3>3, <3>5 DEF Abstract!Next
  <2> QED
    BY <2>2, <2>3
<1>5. CASE UNCHANGED vars
  BY <1>1, <1>5 DEF vars, delegateVars, engineVars
<1>6. CASE whenIdle \/ tryClose \/ processNextItem \/ CompletionHandler
           \/ MemorySavingTimeout \/ Destroy
  <2>1. UNCHANGED <<currState, target, engine>>
    BY <1>6 DEF whenIdle, tryClose, processNextItem, CompletionHandler, MemorySavingTimeout,
                onMemorySavingTimerTimeout, Destroy, delegateVars, engineVars
  <2> QED
    BY <1>1, <2>1
<1> QED
  BY <1>2, <1>3, <1>4, <1>5, <1>6 DEF Next, Abstract!Next

(***************************************************************************)
(* WpePageLifecycleV2 keeps the promise of Page: whatever the controller   *)
(* asks and whenever it asks, the document only sees the edges of the page *)
(* lifecycle diagram, and nothing is accepted after TERMINATED.            *)
(***************************************************************************)
THEOREM Implementation == ~EngineMayFail => (Spec => ImplementsPage)
<1> SUFFICES ASSUME ~EngineMayFail PROVE Spec => ImplementsPage
  OBVIOUS
<1>1. Init => Abstract!Init
  <2> SUFFICES ASSUME Init PROVE Abstract!Init
    OBVIOUS
  <2>1. PICK s \in {"ACTIVE", "PASSIVE", "HIDDEN"} : engine = FlagsOf(s)
    BY DEF Init
  <2>2. PageSeen = s
    BY <2>1, SeenInState
  <2> QED
    BY <2>2 DEF Init, DelegateInit, NONE, Abstract!Init
<1>2. IInv /\ EngineInv /\ [Next]_vars => [Abstract!Next]_(Abstract!vars)
  BY StepOfPage
<1> QED
  BY InitIInv, InitEngineInv, NextIInv, NextEngineInv, <1>1, <1>2, PTL
  DEF Spec, ImplementsPage, Abstract!Spec

=============================================================================
