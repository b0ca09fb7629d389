------------------------ MODULE PageLifecycleV1Proofs ------------------------
(***************************************************************************)
(* Proofs about WpePageLifecycleV1, for every number of requests and of    *)
(* memory saving iterations: its calls leave the flags of the view in the  *)
(* combination the delegate's state stands for, so the document walks the  *)
(* page lifecycle diagram.                                                 *)
(***************************************************************************)
EXTENDS PageLifecycleV1, TLAPS

(* The flags each state stands for: a terminated page stays hidden. *)
FlagsFit ==
    /\ currState = "INITIALIZING" => visible /\ focused /\ ~suspended
    /\ currState = "ACTIVE" => visible /\ focused /\ ~suspended
    /\ currState = "PASSIVE" => visible /\ ~focused /\ ~suspended
    /\ currState \in {"HIDDEN", "TERMINATED"} => ~visible /\ ~focused /\ ~suspended
    /\ currState = "FROZEN" => ~visible /\ ~focused /\ suspended

(***************************************************************************)
(* What the loop of setState serves: createView's request comes first, and *)
(* no request names INITIALIZING, the state in force, or follows           *)
(* TERMINATED.                                                             *)
(***************************************************************************)
RequestFits ==
    /\ currState = "INITIALIZING" => target = "HIDDEN"
    /\ target # NONE => target \notin {"INITIALIZING", currState}
    /\ currState = "TERMINATED" => target = NONE

(* The memory saving timer stops after the configured number of events. *)
TimerBounded == timer => iteration < MaxMemorySavingIterations

IInv == TypeOK /\ FlagsFit /\ RequestFits /\ TimerBounded

-----------------------------------------------------------------------------
(***************************************************************************)
(* A turn of the loop takes one of these hops, with these calls.           *)
(***************************************************************************)
Hops(c, h, calls) ==
    \/ c = "INITIALIZING" /\ h = "HIDDEN" /\ calls = <<"blur", "hide">>
    \/ c = "ACTIVE" /\ h = "PASSIVE" /\ calls = <<"blur">>
    \/ c = "PASSIVE" /\ h = "ACTIVE" /\ calls = <<"focus">>
    \/ c = "PASSIVE" /\ h = "HIDDEN" /\ calls = <<"hide">>
    \/ c = "HIDDEN" /\ h = "PASSIVE" /\ calls = <<"show">>
    \/ c = "HIDDEN" /\ h = "FROZEN" /\ calls = <<"freeze">>
    \/ c = "HIDDEN" /\ h = "TERMINATED" /\ calls = <<>>
    \/ c = "FROZEN" /\ h = "HIDDEN" /\ calls = <<"resume">>

LEMMA HopOfTurn ==
    ASSUME IInv, target # NONE
    PROVE  LET hop == nextState(currState, target)
           IN  /\ Hops(currState, hop, turnCalls)
               /\ hop # target => hop # "TERMINATED"
<1>1. /\ currState \in PageState /\ target \in PageState
      /\ target # "INITIALIZING" /\ target # currState
      /\ currState # "TERMINATED"
      /\ currState = "INITIALIZING" => target = "HIDDEN"
  BY DEF IInv, TypeOK, DelegateTypeOK, RequestFits
<1> DEFINE hop == nextState(currState, target)
<1>2. /\ \/ currState = "INITIALIZING" /\ hop = "HIDDEN"
         \/ currState = "ACTIVE" /\ hop = "PASSIVE"
         \/ currState = "PASSIVE" /\ hop \in {"ACTIVE", "HIDDEN"}
         \/ currState = "HIDDEN" /\ hop \in {"PASSIVE", "FROZEN", "TERMINATED"}
         \/ currState = "FROZEN" /\ hop = "HIDDEN"
      /\ hop # target => hop # "TERMINATED"
  BY <1>1 DEF PageState, nextState
<1>3. turnCalls = callsOf(currState, hop)
  BY DEF turnCalls
<1> HIDE DEF hop
<1>4. Hops(currState, hop, turnCalls)
  BY <1>2, <1>3 DEF Hops, callsOf
<1> QED
  BY <1>2, <1>4 DEF hop

(* The calls of a turn move the flags from one state's to the next one's. *)
LEMMA TurnMovesFlags ==
    ASSUME IInv, ChangeState
    PROVE  FlagsFit'
<1> DEFINE hop == nextState(currState, target)
<1>1. /\ target # NONE /\ currState' = hop
      /\ Act(turnCalls)
  BY DEF ChangeState, changeState
<1>2. Hops(currState, hop, turnCalls)
  BY <1>1, HopOfTurn
<1> HIDE DEF hop
<1>3. FlagsFit /\ visible \in BOOLEAN /\ focused \in BOOLEAN /\ suspended \in BOOLEAN
  BY DEF IInv, TypeOK
<1>4. CASE turnCalls = <<"blur", "hide">> \/ turnCalls = <<"hide">>
  <2>1. hide
    BY <1>1, <1>4 DEF Act
  <2>2. currState \in {"INITIALIZING", "PASSIVE"} /\ hop = "HIDDEN"
    BY <1>2, <1>4 DEF Hops
  <2> QED
    BY <1>1, <1>3, <2>1, <2>2 DEF hide, FlagsFit
<1>5. CASE turnCalls = <<"blur">>
  <2>1. blur
    BY <1>1, <1>5 DEF Act
  <2>2. currState = "ACTIVE" /\ hop = "PASSIVE"
    BY <1>2, <1>5 DEF Hops
  <2> QED
    BY <1>1, <1>3, <2>1, <2>2 DEF blur, FlagsFit
<1>6. CASE turnCalls = <<"focus">>
  <2>1. focus
    BY <1>1, <1>6 DEF Act
  <2>2. currState = "PASSIVE" /\ hop = "ACTIVE"
    BY <1>2, <1>6 DEF Hops
  <2> QED
    BY <1>1, <1>3, <2>1, <2>2 DEF focus, FlagsFit
<1>7. CASE turnCalls = <<"show">>
  <2>1. show
    BY <1>1, <1>7 DEF Act
  <2>2. currState = "HIDDEN" /\ hop = "PASSIVE"
    BY <1>2, <1>7 DEF Hops
  <2> QED
    BY <1>1, <1>3, <2>1, <2>2 DEF show, FlagsFit
<1>8. CASE turnCalls = <<"freeze">>
  <2>1. freeze
    BY <1>1, <1>8 DEF Act
  <2>2. currState = "HIDDEN" /\ hop = "FROZEN"
    BY <1>2, <1>8 DEF Hops
  <2> QED
    BY <1>1, <1>3, <2>1, <2>2 DEF freeze, FlagsFit
<1>9. CASE turnCalls = <<"resume">>
  <2>1. resume
    BY <1>1, <1>9 DEF Act
  <2>2. currState = "FROZEN" /\ hop = "HIDDEN"
    BY <1>2, <1>9 DEF Hops
  <2> QED
    BY <1>1, <1>3, <2>1, <2>2 DEF resume, FlagsFit
<1>10. CASE turnCalls = <<>>
  <2>1. UNCHANGED flagVars
    BY <1>1, <1>10 DEF Act
  <2>2. currState = "HIDDEN" /\ hop = "TERMINATED"
    BY <1>2, <1>10 DEF Hops
  <2> QED
    BY <1>1, <1>3, <2>1, <2>2 DEF flagVars, FlagsFit
<1> QED
  BY <1>2, <1>4, <1>5, <1>6, <1>7, <1>8, <1>9, <1>10 DEF Hops

(* The turn keeps the types of the flags, whatever it calls. *)
LEMMA TurnKeepsTypes ==
    ASSUME TypeOK, NEW calls, Act(calls)
    PROVE  visible' \in BOOLEAN /\ focused' \in BOOLEAN /\ suspended' \in BOOLEAN
<1>1. visible \in BOOLEAN /\ focused \in BOOLEAN /\ suspended \in BOOLEAN
  BY DEF TypeOK
<1>2. visible' \in BOOLEAN
  BY <1>1 DEF Act, show, hide, focus, blur, freeze, resume, flagVars
<1>3. focused' \in BOOLEAN
  BY <1>1 DEF Act, show, hide, focus, blur, freeze, resume, flagVars
<1>4. suspended' \in BOOLEAN
  BY <1>1 DEF Act, show, hide, focus, blur, freeze, resume, flagVars
<1> QED
  BY <1>2, <1>3, <1>4

LEMMA TurnKeepsTimer ==
    ASSUME TypeOK, TimerBounded, changeState
    PROVE  timer' \in BOOLEAN /\ iteration' \in Nat /\ TimerBounded'
<1>1. CASE UNCHANGED <<timer, iteration>>
  BY <1>1 DEF TypeOK, DelegateTypeOK, TimerBounded
<1>2. CASE enableMemorySaving
  <2>1. CASE timer \/ MaxMemorySavingIterations = 0
    BY <1>1, <1>2, <2>1 DEF enableMemorySaving
  <2>2. CASE ~(timer \/ MaxMemorySavingIterations = 0)
    <3>1. timer' = TRUE /\ iteration' = 0
      BY <1>2, <2>2 DEF enableMemorySaving
    <3> QED
      BY <2>2, <3>1, MaxIterationsAssumption DEF TimerBounded
  <2> QED
    BY <2>1, <2>2
<1>3. CASE disableMemorySaving
  BY <1>3 DEF disableMemorySaving, TypeOK, DelegateTypeOK, TimerBounded
<1> QED
  BY <1>1, <1>2, <1>3 DEF changeState

-----------------------------------------------------------------------------
LEMMA InitIInv == Init => IInv
<1> SUFFICES ASSUME Init PROVE IInv
  OBVIOUS
<1>1. TypeOK
  <2>1. 0 \in 0..MaxRequests
    BY MaxRequestsAssumption
  <2>2. DelegateTypeOK
    BY DEF Init, DelegateInit, DelegateTypeOK, PageState
  <2> QED
    BY <2>1, <2>2 DEF Init, TypeOK
<1>2. FlagsFit /\ RequestFits /\ TimerBounded
  BY DEF Init, DelegateInit, FlagsFit, RequestFits, TimerBounded, NONE
<1> QED
  BY <1>1, <1>2 DEF IInv

LEMMA SetStateKeeps ==
    ASSUME IInv, NEW s \in PageState, setState(s)
    PROVE  IInv'
<1> USE DEF IInv, setState, AcceptState, flagVars
<1>1. TypeOK'
  BY MaxRequestsAssumption DEF TypeOK, DelegateTypeOK
<1>2. RequestFits'
  BY DEF RequestFits, NONE
<1>3. FlagsFit' /\ TimerBounded'
  BY DEF FlagsFit, TimerBounded
<1> QED
  BY <1>1, <1>2, <1>3

LEMMA ChangeStateKeeps ==
    ASSUME IInv, ChangeState
    PROVE  IInv'
<1> DEFINE hop == nextState(currState, target)
<1>1. /\ target # NONE /\ currState' = hop
      /\ target' = IF hop = target THEN NONE ELSE target
      /\ changeState /\ Act(turnCalls)
      /\ UNCHANGED <<ready, closing, requests>>
  BY DEF ChangeState, changeState
<1>2. Hops(currState, hop, turnCalls) /\ (hop # target => hop # "TERMINATED")
  BY <1>1, HopOfTurn
<1> HIDE DEF hop
<1>3. hop \in PageState \ {"INITIALIZING"}
  BY <1>2 DEF Hops, PageState
<1>4. visible' \in BOOLEAN /\ focused' \in BOOLEAN /\ suspended' \in BOOLEAN
  BY <1>1, TurnKeepsTypes DEF IInv
<1>5. timer' \in BOOLEAN /\ iteration' \in Nat /\ TimerBounded'
  BY <1>1, TurnKeepsTimer DEF IInv
<1>6. TypeOK'
  BY <1>1, <1>3, <1>4, <1>5 DEF IInv, TypeOK, DelegateTypeOK
<1>7. RequestFits'
  BY <1>1, <1>2, <1>3 DEF IInv, RequestFits
<1> QED
  BY <1>5, <1>6, <1>7, TurnMovesFlags DEF IInv

LEMMA TimeoutKeeps ==
    ASSUME IInv, MemorySavingTimeout
    PROVE  IInv'
<1>1. /\ onMemorySavingTimerTimeout
      /\ UNCHANGED <<currState, target, visible, focused, suspended, ready, closing, requests>>
  BY DEF MemorySavingTimeout, onMemorySavingTimerTimeout, flagVars
<1>2. timer' \in BOOLEAN /\ iteration' \in Nat /\ TimerBounded'
  <2>1. CASE currState \in {"HIDDEN", "FROZEN"}
    <3>1. iteration' = iteration + 1 /\ timer' = (iteration + 1 < MaxMemorySavingIterations)
      BY <1>1, <2>1 DEF onMemorySavingTimerTimeout
    <3>2. timer' \in BOOLEAN
      BY <3>1
    <3>3. iteration' \in Nat
      BY <3>1 DEF IInv, TypeOK, DelegateTypeOK
    <3>4. TimerBounded'
      BY <3>1 DEF TimerBounded
    <3> QED
      BY <3>2, <3>3, <3>4
  <2>2. CASE currState \notin {"HIDDEN", "FROZEN"}
    <3>1. iteration' = 0 /\ timer' = FALSE
      BY <1>1, <2>2 DEF onMemorySavingTimerTimeout
    <3> QED
      BY <3>1 DEF TimerBounded
  <2> QED
    BY <2>1, <2>2
<1>3. TypeOK'
  BY <1>1, <1>2 DEF IInv, TypeOK, DelegateTypeOK
<1> QED
  BY <1>1, <1>2, <1>3 DEF IInv, FlagsFit, RequestFits

LEMMA NextIInv == IInv /\ [Next]_vars => IInv'
<1> SUFFICES ASSUME IInv, [Next]_vars PROVE IInv'
  OBVIOUS
<1>1. CASE whenIdle \/ tryClose \/ UNCHANGED vars
  <2>1. UNCHANGED <<delegateVars, flagVars, requests>>
    BY <1>1 DEF whenIdle, tryClose, vars
  <2>2. ready' \in BOOLEAN /\ closing' \in BOOLEAN
    BY <1>1 DEF whenIdle, tryClose, vars, IInv, TypeOK
  <2>3. TypeOK'
    BY <2>1, <2>2 DEF IInv, TypeOK, DelegateTypeOK, delegateVars, flagVars
  <2> QED
    BY <2>1, <2>3 DEF IInv, FlagsFit, RequestFits, TimerBounded, delegateVars, flagVars
<1> QED
  BY <1>1, SetStateKeeps, ChangeStateKeeps, TimeoutKeeps DEF Next

-----------------------------------------------------------------------------
(***************************************************************************)
(* Every variable of the delegate of an engine without a page lifecycle    *)
(* keeps its type (WpePageLifecycleV1).                                    *)
(***************************************************************************)
THEOREM DirectTypeCorrect == Spec => []TypeOK
<1>1. IInv => TypeOK
  BY DEF IInv
<1> QED
  BY InitIInv, NextIInv, <1>1, PTL DEF Spec

(* The document of a delegate in state s sees s, a terminated one a hidden page. *)
LEMMA SeenByDocument ==
    ASSUME IInv
    PROVE  PageSeen = IF currState = "TERMINATED" THEN "HIDDEN" ELSE currState
  BY DEF IInv, FlagsFit, TypeOK, DelegateTypeOK, PageState, PageSeen

LEMMA SeenByDocumentNext ==
    ASSUME IInv'
    PROVE  PageSeen' = IF currState' = "TERMINATED" THEN "HIDDEN" ELSE currState'
  BY DEF IInv, FlagsFit, TypeOK, DelegateTypeOK, PageState, PageSeen

(***************************************************************************)
(* A request is an Ask of the abstract page, a turn of the loop a Move     *)
(* along its diagram (or a stutter, into TERMINATED), and every other step *)
(* leaves the page alone.                                                  *)
(***************************************************************************)
LEMMA StepOfPage ==
    ASSUME IInv, [Next]_vars
    PROVE  [Abstract!Next]_(Abstract!vars)
<1> DEFINE wanted == IF target = NONE THEN currState ELSE target
<1>1. IInv'
  BY NextIInv
<1>2. ASSUME NEW s \in PageState, setState(s)
      PROVE  Abstract!Ask(s) /\ s \in Abstract!PageLifecycleState \ {"INITIALIZING"}
  <2>1. s # NONE
    BY DEF PageState, NONE
  <2> QED
    BY <1>2, <2>1
    DEF setState, AcceptState, flagVars, Abstract!Ask, Abstract!PageLifecycleState,
        PageState, PageSeen
<1>3. CASE ChangeState
  <2> DEFINE hop == nextState(currState, target)
  <2>1. /\ target # NONE /\ currState' = hop
        /\ target' = IF hop = target THEN NONE ELSE target
    BY <1>3 DEF ChangeState, changeState
  <2>2. wanted' = wanted
    BY <2>1
  <2>3. Hops(currState, hop, turnCalls)
    BY <2>1, HopOfTurn
  <2> HIDE DEF hop
  <2>4. CASE hop = "TERMINATED"
    <3>1. PageSeen' = PageSeen
      BY <1>1, <2>1, <2>3, <2>4, SeenByDocument, SeenByDocumentNext DEF Hops
    <3> QED
      BY <2>2, <3>1 DEF Abstract!vars
  <2>5. CASE hop # "TERMINATED"
    <3>1. PageSeen = currState /\ PageSeen' = hop
      BY <1>1, <2>1, <2>3, <2>5, SeenByDocument, SeenByDocumentNext DEF Hops
    <3>2. <<currState, hop>> \in Abstract!Edges
      BY <2>3, <2>5 DEF Hops, Abstract!Edges
    <3>3. hop \in {"ACTIVE", "PASSIVE", "HIDDEN", "FROZEN"}
      BY <2>3, <2>5 DEF Hops
    <3>4. Abstract!Move(hop)
      BY <2>2, <3>1, <3>2 DEF Abstract!Move
    <3> QED
      BY <3>3, <3>4 DEF Abstract!Next
  <2> QED
    BY <2>4, <2>5
<1>4. CASE whenIdle \/ tryClose \/ MemorySavingTimeout \/ UNCHANGED vars
  <2>1. UNCHANGED <<currState, target, visible, focused, suspended>>
    BY <1>4 DEF whenIdle, tryClose, MemorySavingTimeout, onMemorySavingTimerTimeout, vars,
                delegateVars, flagVars
  <2> QED
    BY <2>1 DEF Abstract!vars, PageSeen
<1> QED
  BY <1>2, <1>3, <1>4 DEF Next, Abstract!Next

(***************************************************************************)
(* WpePageLifecycleV1 keeps the promise of Page as well: acting at once on *)
(* the flags of the view, it shows the document only the edges of the page *)
(* lifecycle diagram, and accepts nothing after TERMINATED.                *)
(***************************************************************************)
THEOREM DirectImplementation == Spec => ImplementsPage
<1>1. Init => Abstract!Init
  BY InitIInv, SeenByDocument DEF Init, DelegateInit, NONE, Abstract!Init
<1>2. IInv /\ [Next]_vars => [Abstract!Next]_(Abstract!vars)
  BY StepOfPage
<1> QED
  BY InitIInv, NextIInv, <1>1, <1>2, PTL DEF Spec, ImplementsPage, Abstract!Spec

=============================================================================
