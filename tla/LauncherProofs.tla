---------------------------- MODULE LauncherProofs ----------------------------
(***************************************************************************)
(* Proofs about the launcher process, for every set of notifications that  *)
(* Firebolt may send and any number of events.                             *)
(***************************************************************************)
EXTENDS Launcher, TLAPS, SequenceTheorems

-----------------------------------------------------------------------------
(* Why the application may stop: every timer, every close task and every   *)
(* request to terminate that is still on its way has its cause in "did".   *)
Asks(seq) == \E i \in DOMAIN seq : seq[i] = "TERMINATING"

AsksToEnd(event) == event.kind = "states" /\ Asks(event.changes)

(* The cause of a task is among the things that happened.                  *)
HasCause(t, happened) ==
    /\ t = Close("ERROR") => "crashed" \in happened
    /\ t = Close("UNLOAD") => happened \ {"minimized"} # {}
    /\ AsksToEnd(t) => "terminating" \in happened

Caused ==
    /\ timers > 0 => did \ {"minimized"} # {}
    /\ \A i \in DOMAIN tasks : HasCause(tasks[i], did)
    /\ Asks(changes) => "terminating" \in did
    /\ posting # <<>> => HasCause(posting[1], did)

-----------------------------------------------------------------------------
(* What the notifications still on their way amount to: the newest of a    *)
(* kind has the value Firebolt delivered last.                             *)
Value(event) ==
    IF event.kind = "focus" THEN event.focused ELSE event.changes[Len(event.changes)]

None(q, kind) == \A i \in DOMAIN q : q[i].kind # kind

Newest(q, kind, value) ==
    \A i \in DOMAIN q :
        q[i].kind = kind /\ (\A j \in DOMAIN q : j > i => q[j].kind # kind) => Value(q[i]) = value

Posted(kind) == posting # <<>> /\ posting[1].kind = kind

FocusFollows ==
    /\ Posted("focus") => Value(posting[1]) = last.focused
    /\ ~Posted("focus") => Newest(tasks, "focus", last.focused)
    /\ ~Posted("focus") /\ None(tasks, "focus") => isFocused = last.focused

(* The page is open to Firebolt.                                           *)
Open == hasFirebolt /\ mainView = "open" /\ page # "TERMINATED"

StatesFollow ==
    /\ Posted("states") => Value(posting[1]) = last.state
    /\ ~Posted("states") => Newest(tasks, "states", last.state)
    /\ ~Posted("states") /\ None(tasks, "states") /\ changes # <<>> =>
          changes[Len(changes)] = last.state
    /\ ~Posted("states") /\ None(tasks, "states") /\ changes = <<>> /\ Open =>
          lifecycleState = IF last.state = NONE THEN "INITIALIZING" ELSE last.state

(* Before Firebolt says anything, and before the application is launched.  *)
NothingSaid ==
    last.state = NONE =>
      /\ ~Posted("states") /\ None(tasks, "states") /\ changes = <<>>
      /\ Open => page = "HIDDEN"
NotLaunched ==
    phase = "starting" =>
      mainView = "none" /\ link = "down" /\ last.state = NONE /\ lifecycleState = "INITIALIZING"

PageFits ==
    Open /\ lifecycleState # "INITIALIZING" => page = toPageState(lifecycleState, isFocused)

Following ==
    /\ NotLaunched /\ NothingSaid
    /\ token => FocusFollows /\ StatesFollow
    /\ PageFits

IInv == TypeOK /\ Caused /\ StopsInOrder /\ Following
-----------------------------------------------------------------------------
(* What a task of a kind is made of.                                       *)
LEMMA TaskShape ==
    ASSUME NEW t \in Task
    PROVE  /\ t.kind \in {"launched", "close", "focus", "states"}
           /\ t.kind = "launched" => t = Launched
           /\ t.kind = "close" => t.reason \in CloseReason /\ t = Close(t.reason)
           /\ t.kind = "focus" => t.focused \in BOOLEAN /\ t \in Event
           /\ t.kind = "states" => t.changes \in Batch /\ t \in Event
           /\ t \in Event => t.kind \in {"focus", "states"}
<1>0. \A e \in Event : e.kind \in {"focus", "states"}
  BY DEF Event, Focus, States
<1>1. CASE t = Launched
  BY <1>0, <1>1 DEF Launched
<1>2. ASSUME NEW r \in CloseReason, t = Close(r) PROVE t.kind = "close" /\ t.reason = r
  BY <1>2 DEF Close
<1>3. ASSUME NEW f \in BOOLEAN, t = Focus(f) PROVE t.kind = "focus" /\ t.focused = f
  BY <1>3 DEF Focus
<1>4. ASSUME NEW b \in Batch, t = States(b) PROVE t.kind = "states" /\ t.changes = b
  BY <1>4 DEF States
<1>5. \/ t = Launched \/ \E r \in CloseReason : t = Close(r)
      \/ \E f \in BOOLEAN : t = Focus(f) \/ \E b \in Batch : t = States(b)
  BY DEF Task, Event
<1>6. CASE \E r \in CloseReason : t = Close(r)
  BY <1>0, <1>2, <1>6
<1>7. CASE \E f \in BOOLEAN : t = Focus(f)
  BY <1>3, <1>7 DEF Event
<1>8. CASE \E b \in Batch : t = States(b)
  BY <1>4, <1>8 DEF Event
<1> QED
  BY <1>1, <1>5, <1>6, <1>7, <1>8

LEMMA BatchShape ==
    ASSUME NEW b \in Batch
    PROVE  /\ b \in Seq(LifecycleState) /\ b # <<>> /\ Len(b) \in Nat \ {0}
           /\ DOMAIN b = 1..Len(b) /\ b[Len(b)] \in LifecycleState
<1>1. b \in Seq(LifecycleState) /\ b # <<>>
  BY BatchAssumption
<1> QED
  BY <1>1

(* What is at the head of a queue, and what is left behind it.             *)
LEMMA HeadTail ==
    ASSUME NEW S, NEW q \in Seq(S), q # <<>>
    PROVE  /\ Head(q) \in S /\ Head(q) = q[1] /\ Tail(q) \in Seq(S)
           /\ Len(q) \in Nat \ {0} /\ DOMAIN q = 1..Len(q)
           /\ Len(Tail(q)) = Len(q) - 1 /\ DOMAIN Tail(q) = 1..Len(q) - 1
           /\ \A i \in 1..Len(q) - 1 : Tail(q)[i] = q[i + 1]
  OBVIOUS

LEMMA AppendTo ==
    ASSUME NEW S, NEW q \in Seq(S), NEW t \in S
    PROVE  /\ Append(q, t) \in Seq(S) /\ DOMAIN q = 1..Len(q) /\ Len(q) \in Nat
           /\ DOMAIN Append(q, t) = 1..Len(q) + 1 /\ Append(q, t)[Len(q) + 1] = t
           /\ \A i \in 1..Len(q) : Append(q, t)[i] = q[i]
  OBVIOUS

-----------------------------------------------------------------------------
(* Type correctness.                                                       *)
LEMMA InitType == Init => TypeOK
<1> SUFFICES ASSUME Init PROVE TypeOK
  OBVIOUS
<1>1. tasks \in Seq(Task) /\ changes \in Seq(LifecycleState)
  BY EmptySeq DEF Init
<1>2. last \in [state : LifecycleState \cup {NONE}, focused : BOOLEAN]
  BY DEF Init
<1>3. posting \in {<<>>} \cup {<<e>> : e \in Event} /\ signals = {} /\ did = {} /\ told = {}
  BY DEF Init
<1>4. published \in 0..MaxPublished /\ pageEvents \in 0..MaxPageEvents /\ timers \in Nat
  BY BoundsAssumption DEF Init
<1>5. lifecycleState \in LifecycleState /\ page \in PageState
  BY DEF Init, LifecycleState, PageState
<1> QED
  BY <1>1, <1>2, <1>3, <1>4, <1>5 DEF Init, TypeOK

LEMMA PageStates ==
    ASSUME NEW s \in LifecycleState, NEW f \in BOOLEAN
    PROVE  /\ toPageState(s, f) \in PageState
           /\ toPageState(s, f) = "TERMINATED" <=> s = "TERMINATING"
           /\ toPageState(s, f) = "INITIALIZING" <=> s = "INITIALIZING"
           /\ s # "ACTIVE" => \A g \in BOOLEAN : toPageState(s, f) = toPageState(s, g)
  BY DEF toPageState, LifecycleState, PageState

LEMMA SetStateType ==
    ASSUME NEW s \in PageState, setState(s), page \in PageState, timers \in Nat
    PROVE  page' \in PageState /\ timers' \in Nat
  BY DEF setState

LEMMA TypeKept == TypeOK /\ [Next]_vars => TypeOK'
<1> SUFFICES ASSUME TypeOK, [Next]_vars PROVE TypeOK'
  OBVIOUS
<1> USE DEF controllerVars, browserVars, fireboltVars, historyVars
<1>1. CASE Launch
  BY <1>1 DEF TypeOK, Launch, launch, PageState
<1>2. CASE ViewReady
  <2>1. Append(tasks, Launched) \in Seq(Task)
    BY AppendTo DEF TypeOK, Task
  <2> QED
    BY <1>2, <2>1 DEF TypeOK, ViewReady, post
<1>3. CASE onBrowserLaunched
  <2>1. page' \in PageState /\ timers' \in Nat
    BY <1>3, SetStateType DEF TypeOK, onBrowserLaunched, PageState
  <2>2. tasks' \in Seq(Task)
    BY <1>3, HeadTail DEF TypeOK, onBrowserLaunched
  <2> QED
    BY <1>3, <2>1, <2>2 DEF TypeOK, onBrowserLaunched
<1>4. CASE onFocusedChanged
  <2>1. Head(tasks) \in Task /\ tasks' \in Seq(Task) /\ Head(tasks).focused \in BOOLEAN
    BY <1>4, HeadTail, TaskShape DEF TypeOK, onFocusedChanged
  <2>2. page' \in PageState /\ timers' \in Nat
    BY <1>4, SetStateType DEF TypeOK, onFocusedChanged, PageState
  <2> QED
    BY <1>4, <2>1, <2>2 DEF TypeOK, onFocusedChanged
<1>5. CASE onLifecycleStateChanged
  <2>1. Head(tasks) \in Task /\ tasks' \in Seq(Task)
    BY <1>5, HeadTail DEF TypeOK, onLifecycleStateChanged
  <2>2. changes' \in Seq(LifecycleState)
    BY <1>5, <2>1, TaskShape, BatchShape DEF onLifecycleStateChanged
  <2> QED
    BY <1>5, <2>1, <2>2 DEF TypeOK, onLifecycleStateChanged
<1>6. CASE TakeChange
  <2>1. Head(changes) \in LifecycleState /\ changes' \in Seq(LifecycleState)
    BY <1>6, HeadTail DEF TypeOK, TakeChange
  <2>2. page' \in PageState /\ timers' \in Nat
    BY <1>6, <2>1, PageStates, SetStateType DEF TypeOK, TakeChange
  <2> QED
    BY <1>6, <2>1, <2>2 DEF TypeOK, TakeChange
<1>7. CASE DropTask
  <2>1. tasks' \in Seq(Task)
    BY <1>7, HeadTail DEF TypeOK, DropTask
  <2> QED
    BY <1>7, <2>1 DEF TypeOK, DropTask
<1>8. CASE onBrowserClose
  <2>1. Head(tasks) \in Task /\ tasks' \in Seq(Task) /\ Head(tasks).reason \in CloseReason
    BY <1>8, HeadTail, TaskShape DEF TypeOK, onBrowserClose
  <2>2. unloading' \in BOOLEAN
    BY <1>8 DEF TypeOK, onBrowserClose
  <2>3. told' \subseteq {"DEACTIVATE", "UNLOAD"}
    BY <1>8, <2>1 DEF TypeOK, onBrowserClose, CloseReason
  <2>4. phase' \in {"starting", "running", "quit", "draining", "exited"} /\ token' \in BOOLEAN
    BY <1>8 DEF TypeOK, onBrowserClose, quit
  <2>5. did' \subseteq {"failed", "closed", "crashed", "minimized", "signalled", "terminating",
                        "refused"}
    BY <1>8 DEF TypeOK, onBrowserClose
  <2>6. link' \in {"down", "up", "closed"}
    BY <1>8 DEF TypeOK, onBrowserClose
  <2>7. UNCHANGED <<changes, lifecycleState, isFocused, mainView, page, viewReady, timers, job,
                    posting, published, last, signals, pageEvents, hasFirebolt>>
    BY <1>8 DEF onBrowserClose
  <2> QED
    BY <2>1, <2>2, <2>3, <2>4, <2>5, <2>6, <2>7 DEF TypeOK
<1>9. CASE ForceClose
  <2>1. Append(tasks, Close("UNLOAD")) \in Seq(Task)
    BY AppendTo DEF TypeOK, Task, CloseReason
  <2> QED
    BY <1>9, <2>1 DEF TypeOK, ForceClose, post
<1>10. ASSUME NEW what \in {"closed", "crashed", "minimized"}, NEW reason \in CloseReason,
              PageEvent(what, reason)
       PROVE  TypeOK'
  <2>1. Append(tasks, Close(reason)) \in Seq(Task)
    BY AppendTo DEF TypeOK, Task
  <2> QED
    BY <1>10, <2>1, BoundsAssumption DEF TypeOK, PageEvent, post
<1>11. ASSUME NEW s \in {"SIGTERM", "SIGINT"}, Signal(s) PROVE TypeOK'
  <2>1. page' \in PageState /\ timers' \in Nat
    BY <1>11, SetStateType DEF TypeOK, Signal, PageState
  <2> QED
    BY <1>11, <2>1 DEF TypeOK, Signal, LifecycleState
<1>12. CASE LoopEnds
  BY <1>12 DEF TypeOK, LoopEnds
<1>13. CASE DrainEnds
  BY <1>13 DEF TypeOK, DrainEnds
<1>14. CASE FireboltConnected
  BY <1>14, BoundsAssumption DEF TypeOK, FireboltConnected
<1>15. CASE FireboltDisconnected
  BY <1>15 DEF TypeOK, FireboltDisconnected
<1>16. CASE Subscribe
  BY <1>16 DEF TypeOK, Subscribe
<1>17. ASSUME NEW e \in Event, Publish(e) PROVE TypeOK'
  <2>1. e \in Task
    BY DEF Task
  <2>2. last' \in [state : LifecycleState \cup {NONE}, focused : BOOLEAN]
    <3>1. CASE e.kind = "focus"
      BY <1>17, <2>1, <3>1, TaskShape DEF TypeOK, Publish
    <3>2. CASE e.kind # "focus"
      <4>1. e.changes[Len(e.changes)] \in LifecycleState
        BY <2>1, <3>2, TaskShape, BatchShape
      <4> QED
        BY <1>17, <3>2, <4>1 DEF TypeOK, Publish
    <3> QED
      BY <3>1, <3>2
  <2> QED
    BY <1>17, <2>2, BoundsAssumption DEF TypeOK, Publish
<1>18. CASE InvokeTask
  <2>1. posting[1] \in Task
    <3>1. PICK e \in Event : posting = <<e>>
      BY <1>18 DEF TypeOK, InvokeTask
    <3> QED
      BY <3>1 DEF Task
  <2>2. tasks' \in Seq(Task)
    <3>1. CASE tasks' = Append(tasks, posting[1])
      BY <2>1, <3>1, AppendTo DEF TypeOK
    <3> QED
      BY <1>18, <3>1 DEF TypeOK, InvokeTask, post
  <2> QED
    BY <1>18, <2>2 DEF TypeOK, InvokeTask
<1>19. CASE UNCHANGED vars
  BY <1>19 DEF TypeOK, vars
<1> QED
  BY <1>1, <1>2, <1>3, <1>4, <1>5, <1>6, <1>7, <1>8, <1>9, <1>10, <1>11, <1>12, <1>13, <1>14,
     <1>15, <1>16, <1>17, <1>18, <1>19
     DEF Next, Turn, closeCallback, webProcessTerminated, windowMinimize, CloseReason
-----------------------------------------------------------------------------
(* The application stops in order.                                         *)
LEMMA CauseStays ==
    ASSUME NEW t, NEW d, NEW e, d \subseteq e, HasCause(t, d)
    PROVE  HasCause(t, e)
  BY DEF HasCause

(* A queue that gets a task with a cause, or that loses one, is caused.    *)
LEMMA QueueCaused ==
    ASSUME NEW q \in Seq(Task), NEW d, NEW e, d \subseteq e,
           \A i \in DOMAIN q : HasCause(q[i], d)
    PROVE  /\ \A i \in DOMAIN q : HasCause(q[i], e)
           /\ \A t \in Task : HasCause(t, e) =>
                 \A i \in DOMAIN Append(q, t) : HasCause(Append(q, t)[i], e)
           /\ q # <<>> => /\ HasCause(Head(q), e)
                          /\ \A i \in DOMAIN Tail(q) : HasCause(Tail(q)[i], e)
<1>1. \A i \in DOMAIN q : HasCause(q[i], e)
  BY CauseStays
<1>2. ASSUME NEW t \in Task, HasCause(t, e), NEW i \in DOMAIN Append(q, t)
      PROVE  HasCause(Append(q, t)[i], e)
  <2>1. CASE i = Len(q) + 1
    BY <1>2, <2>1, AppendTo
  <2>2. CASE i # Len(q) + 1
    <3>1. i \in DOMAIN q /\ Append(q, t)[i] = q[i]
      BY <2>2, AppendTo
    <3> QED
      BY <1>1, <3>1
  <2> QED
    BY <2>1, <2>2
<1>3. ASSUME q # <<>>
      PROVE  HasCause(Head(q), e) /\ \A i \in DOMAIN Tail(q) : HasCause(Tail(q)[i], e)
  <2>1. 1 \in DOMAIN q /\ Head(q) = q[1]
    BY <1>3, HeadTail
  <2>2. \A i \in DOMAIN Tail(q) : i + 1 \in DOMAIN q /\ Tail(q)[i] = q[i + 1]
    BY <1>3, HeadTail
  <2> QED
    BY <1>1, <2>1, <2>2
<1> QED
  BY <1>1, <1>2, <1>3

(* Only a request for TERMINATED starts a timer.                           *)
LEMMA TimersKept ==
    ASSUME NEW s, s # "TERMINATED", setState(s)
    PROVE  timers' = timers
  BY DEF setState

SafeInv == TypeOK /\ Caused /\ StopsInOrder

(* A step that starts no timer, queues nothing and stops nothing.          *)
LEMMA QuietStep ==
    ASSUME SafeInv, did \subseteq did', told \subseteq told', timers' <= timers,
           tasks' = tasks \/ (tasks # <<>> /\ tasks' = Tail(tasks)),
           UNCHANGED <<changes, link, phase, posting>>,
           timers' \in Nat
    PROVE  Caused' /\ StopsInOrder'
<1>1. tasks \in Seq(Task) /\ \A i \in DOMAIN tasks : HasCause(tasks[i], did)
  BY DEF SafeInv, TypeOK, Caused
<1>2. \A i \in DOMAIN tasks' : HasCause(tasks'[i], did')
  BY <1>1, QueueCaused
<1>3. posting' # <<>> => HasCause(posting'[1], did')
  BY CauseStays DEF SafeInv, Caused
<1>4. timers' > 0 => did' \ {"minimized"} # {}
  <2>1. timers \in Nat /\ (timers > 0 => did \ {"minimized"} # {})
    BY DEF SafeInv, Caused, TypeOK
  <2> QED
    BY <2>1
<1>5. Asks(changes') => "terminating" \in did'
  BY DEF SafeInv, Caused
<1>6. StopsInOrder'
  BY DEF SafeInv, StopsInOrder
<1> QED
  BY <1>2, <1>3, <1>4, <1>5, <1>6 DEF Caused

(* A step that queues a task with a cause.                                 *)
LEMMA QueueingStep ==
    ASSUME SafeInv, NEW t \in Task, tasks' = Append(tasks, t), did \subseteq did',
           HasCause(t, did'), timers' \in Nat, timers' <= timers,
           UNCHANGED <<changes, link, phase, told>>, posting' \in {posting, <<>>}
    PROVE  Caused' /\ StopsInOrder'
<1>1. tasks \in Seq(Task) /\ \A i \in DOMAIN tasks : HasCause(tasks[i], did)
  BY DEF SafeInv, TypeOK, Caused
<1>2. \A i \in DOMAIN tasks' : HasCause(tasks'[i], did')
  BY <1>1, QueueCaused
<1>3. posting' # <<>> => HasCause(posting'[1], did')
  BY CauseStays DEF SafeInv, Caused
<1>4. timers' > 0 => did' \ {"minimized"} # {}
  <2>1. timers \in Nat /\ (timers > 0 => did \ {"minimized"} # {})
    BY DEF SafeInv, Caused, TypeOK
  <2> QED
    BY <2>1
<1>5. Asks(changes') => "terminating" \in did'
  BY DEF SafeInv, Caused
<1>6. StopsInOrder'
  BY DEF SafeInv, StopsInOrder
<1> QED
  BY <1>2, <1>3, <1>4, <1>5, <1>6 DEF Caused

LEMMA SafeKept == SafeInv /\ TypeOK' /\ [Next]_vars => SafeInv'
<1> SUFFICES ASSUME SafeInv, TypeOK', [Next]_vars PROVE Caused' /\ StopsInOrder'
  BY DEF SafeInv
<1> USE DEF controllerVars, browserVars, fireboltVars, historyVars
<1>0. /\ timers \in Nat /\ timers' \in Nat
      /\ tasks \in Seq(Task) /\ \A i \in DOMAIN tasks : HasCause(tasks[i], did)
  BY DEF SafeInv, TypeOK, Caused
<1>1. CASE Launch
  <2>1. \A i \in DOMAIN tasks' : HasCause(tasks'[i], did')
    BY <1>0, <1>1, QueueCaused DEF Launch
  <2>2. did \subseteq did' /\ UNCHANGED <<timers, changes, posting, link, told>>
    BY <1>1 DEF Launch
  <2>3. posting' # <<>> => HasCause(posting'[1], did')
    BY <2>2, CauseStays DEF SafeInv, Caused
  <2>4. Caused'
    BY <2>1, <2>2, <2>3 DEF SafeInv, Caused
  <2>5. phase' \in {"quit", "draining", "exited"} => "failed" \in did'
    BY <1>1 DEF Launch
  <2> QED
    BY <2>2, <2>4, <2>5 DEF SafeInv, StopsInOrder
<1>2. CASE ViewReady
  <2>1. Launched \in Task /\ HasCause(Launched, did')
    BY DEF Task, Launched, HasCause, Close, AsksToEnd
  <2> QED
    BY <1>0, <1>2, <2>1, QueueingStep DEF ViewReady, post
<1>3. CASE onBrowserLaunched
  <2>1. timers' = timers
    BY <1>3, TimersKept DEF onBrowserLaunched
  <2> QED
    BY <1>0, <1>3, <2>1, QuietStep DEF onBrowserLaunched
<1>4. CASE onFocusedChanged
  <2>1. timers' = timers
    BY <1>4, TimersKept DEF onFocusedChanged
  <2> QED
    BY <1>0, <1>4, <2>1, QuietStep DEF onFocusedChanged
<1>5. CASE onLifecycleStateChanged
  <2>1. HasCause(Head(tasks), did) /\ \A i \in DOMAIN tasks' : HasCause(tasks'[i], did')
    BY <1>0, <1>5, QueueCaused DEF onLifecycleStateChanged
  <2>2. Asks(changes') => "terminating" \in did'
    BY <1>5, <2>1 DEF onLifecycleStateChanged, HasCause, AsksToEnd
  <2> QED
    BY <1>5, <2>1, <2>2 DEF onLifecycleStateChanged, SafeInv, Caused, StopsInOrder
<1>6. CASE TakeChange
  <2>1. changes \in Seq(LifecycleState) /\ changes # <<>> /\ changes' = Tail(changes)
    BY <1>6 DEF SafeInv, TypeOK, TakeChange
  <2>2. Asks(changes') => Asks(changes)
    BY <2>1, HeadTail DEF Asks
  <2>3. timers' > timers => Asks(changes)
    <3>1. Head(changes) \in LifecycleState /\ isFocused \in BOOLEAN
      BY <2>1, HeadTail DEF SafeInv, TypeOK
    <3>2. Head(changes) = "TERMINATING" => Asks(changes)
      BY <2>1, HeadTail DEF Asks
    <3>3. Head(changes) # "TERMINATING" => timers' = timers
      BY <1>6, <3>1, PageStates, TimersKept DEF TakeChange
    <3> QED
      BY <1>0, <3>2, <3>3
  <2>4. timers' > 0 => did' \ {"minimized"} # {}
    BY <1>0, <1>6, <2>3 DEF SafeInv, Caused, TakeChange
  <2> QED
    BY <1>6, <2>2, <2>4 DEF TakeChange, SafeInv, Caused, StopsInOrder
<1>7. CASE DropTask
  BY <1>0, <1>7, QuietStep DEF DropTask
<1>8. CASE onBrowserClose
  <2>1. Head(tasks) \in Task /\ HasCause(Head(tasks), did)
    BY <1>0, <1>8, HeadTail, QueueCaused DEF onBrowserClose
  <2>2. /\ Head(tasks) = Close(Head(tasks).reason)
        /\ Head(tasks).reason \in {"DEACTIVATE", "UNLOAD", "ERROR"}
    BY <1>8, <2>1, TaskShape DEF onBrowserClose, CloseReason
  <2>3. did \subseteq did' /\ told \subseteq told'
    BY <1>8 DEF onBrowserClose
  <2>4. \A i \in DOMAIN tasks' : HasCause(tasks'[i], did')
    BY <1>0, <1>8, <2>3, QueueCaused DEF onBrowserClose
  <2>5. posting' # <<>> => HasCause(posting'[1], did')
    BY <1>8, <2>3, CauseStays DEF onBrowserClose, SafeInv, Caused
  <2>6. Caused'
    BY <1>8, <2>3, <2>4, <2>5 DEF onBrowserClose, SafeInv, Caused
  <2>7. CASE UNCHANGED <<phase, token, link, did>>
    BY <2>3, <2>6, <2>7 DEF SafeInv, StopsInOrder
  <2>8. CASE did' = IF Head(tasks).reason = "DEACTIVATE" THEN did \cup {"refused"} ELSE did
    <3>1. did' \ {"minimized"} # {}
      BY <2>1, <2>2, <2>8 DEF HasCause
    <3>2. told' # {} \/ "crashed" \in did'
      BY <1>8, <2>1, <2>2, <2>3 DEF onBrowserClose, HasCause
    <3> QED
      BY <2>6, <3>1, <3>2 DEF StopsInOrder
  <2> QED
    BY <1>8, <2>7, <2>8 DEF onBrowserClose
<1>9. CASE ForceClose
  <2>1. did \ {"minimized"} # {}
    BY <1>0, <1>9 DEF ForceClose, SafeInv, Caused
  <2>2. Close("UNLOAD") \in Task /\ HasCause(Close("UNLOAD"), did)
    BY <2>1 DEF Task, CloseReason, Close, HasCause, AsksToEnd
  <2> QED
    BY <1>0, <1>9, <2>2, QueueingStep DEF ForceClose, post
<1>10. ASSUME NEW what \in {"closed", "crashed", "minimized"}, NEW reason \in CloseReason,
              <<what, reason>> \in {<<"closed", "UNLOAD">>, <<"crashed", "ERROR">>,
                                    <<"minimized", "DEACTIVATE">>},
              PageEvent(what, reason)
       PROVE  Caused' /\ StopsInOrder'
  <2>1. did' = did \cup {what}
    BY <1>10 DEF PageEvent
  <2>2. Close(reason) \in Task /\ HasCause(Close(reason), did')
    BY <1>10, <2>1 DEF Task, Close, HasCause, AsksToEnd
  <2>3. /\ tasks' = Append(tasks, Close(reason))
        /\ UNCHANGED <<timers, changes, link, phase, told, posting>>
    BY <1>10 DEF PageEvent, post
  <2>4. timers' <= timers /\ did \subseteq did' /\ posting' \in {posting, <<>>}
    BY <1>0, <2>1, <2>3
  <2> QED
    BY <1>0, <2>2, <2>3, <2>4, QueueingStep
<1>11. ASSUME NEW s \in {"SIGTERM", "SIGINT"}, Signal(s) PROVE Caused' /\ StopsInOrder'
  <2>1. /\ did' = did \cup {"signalled"}
        /\ UNCHANGED <<tasks, changes, posting, link, phase, told>>
    BY <1>11 DEF Signal
  <2>2. \A i \in DOMAIN tasks' : HasCause(tasks'[i], did')
    BY <1>0, <2>1, QueueCaused
  <2>3. posting' # <<>> => HasCause(posting'[1], did')
    BY <2>1, CauseStays DEF SafeInv, Caused
  <2>4. "signalled" \in did' \ {"minimized"}
    BY <2>1
  <2>5. Caused'
    BY <2>1, <2>2, <2>3, <2>4 DEF SafeInv, Caused
  <2>6. StopsInOrder'
    BY <2>1, <2>4 DEF SafeInv, StopsInOrder
  <2> QED
    BY <2>5, <2>6
<1>12. CASE LoopEnds
  BY <1>12 DEF LoopEnds, SafeInv, Caused, StopsInOrder
<1>13. CASE DrainEnds
  BY <1>13 DEF DrainEnds, SafeInv, Caused, StopsInOrder
<1>14. CASE FireboltConnected
  BY <1>14 DEF FireboltConnected, SafeInv, Caused, StopsInOrder
<1>15. CASE FireboltDisconnected
  BY <1>15 DEF FireboltDisconnected, SafeInv, Caused, StopsInOrder
<1>16. CASE Subscribe
  BY <1>0, <1>16, QuietStep DEF Subscribe
<1>17. ASSUME NEW e \in Event, Publish(e) PROVE Caused' /\ StopsInOrder'
  <2>1. did \subseteq did' /\ UNCHANGED <<timers, tasks, changes, link, phase, told>>
    BY <1>17 DEF Publish
  <2>2. \A i \in DOMAIN tasks' : HasCause(tasks'[i], did')
    BY <1>0, <2>1, QueueCaused
  <2>3. posting' = <<e>> /\ e \in Task /\ e.kind \in {"focus", "states"}
    BY <1>17, TaskShape DEF Publish, Task
  <2>4. AsksToEnd(e) => "terminating" \in did'
    <3>1. ASSUME AsksToEnd(e) PROVE "terminating" \in did'
      <4>1. e.kind = "states" /\ DOMAIN e.changes = 1..Len(e.changes)
        BY <2>3, <3>1, TaskShape, BatchShape DEF AsksToEnd
      <4> QED
        BY <1>17, <3>1, <4>1 DEF Publish, AsksToEnd, Asks
    <3> QED
      BY <3>1
  <2>5. HasCause(posting'[1], did')
    BY <2>3, <2>4 DEF HasCause, Close
  <2> QED
    BY <2>1, <2>2, <2>5 DEF SafeInv, Caused, StopsInOrder
<1>18. CASE InvokeTask
  <2>1. PICK e \in Event : posting = <<e>>
    BY <1>18 DEF SafeInv, TypeOK, InvokeTask
  <2>2. e \in Task /\ HasCause(e, did)
    BY <2>1 DEF Task, SafeInv, Caused
  <2>3. CASE tasks' = Append(tasks, e)
    BY <1>0, <1>18, <2>2, <2>3, QueueingStep DEF InvokeTask
  <2>4. CASE UNCHANGED tasks
    BY <1>18, <2>4 DEF InvokeTask, SafeInv, Caused, StopsInOrder
  <2> QED
    BY <1>18, <2>1, <2>3, <2>4 DEF InvokeTask, post
<1>19. CASE UNCHANGED vars
  BY <1>0, <1>19, QuietStep DEF vars
<1> QED
  BY <1>1, <1>2, <1>3, <1>4, <1>5, <1>6, <1>7, <1>8, <1>9, <1>10, <1>11, <1>12, <1>13, <1>14,
     <1>15, <1>16, <1>17, <1>18, <1>19
     DEF Next, Turn, closeCallback, webProcessTerminated, windowMinimize, CloseReason
-----------------------------------------------------------------------------
(* The page follows Firebolt.  A queue whose newest event of a kind has a  *)
(* value, and what an event at its end, or one taken off its head, changes.*)
LEMMA NewestAppend ==
    ASSUME NEW q \in Seq(Task), NEW t \in Task, NEW kind
    PROVE  /\ t.kind = kind =>
                Newest(Append(q, t), kind, Value(t)) /\ ~None(Append(q, t), kind)
           /\ t.kind # kind =>
                /\ \A v : Newest(q, kind, v) => Newest(Append(q, t), kind, v)
                /\ None(Append(q, t), kind) <=> None(q, kind)
<1> DEFINE r == Append(q, t)
<1>1. /\ DOMAIN q = 1..Len(q) /\ Len(q) \in Nat
      /\ DOMAIN r = 1..Len(q) + 1 /\ r[Len(q) + 1] = t
      /\ \A i \in 1..Len(q) : r[i] = q[i]
  BY AppendTo
<1>2. ASSUME t.kind = kind PROVE Newest(r, kind, Value(t)) /\ ~None(r, kind)
  <2>1. ASSUME NEW i \in DOMAIN r, r[i].kind = kind,
               \A j \in DOMAIN r : j > i => r[j].kind # kind
        PROVE  Value(r[i]) = Value(t)
    <3>1. i = Len(q) + 1
      BY <1>1, <1>2, <2>1
    <3> QED
      BY <1>1, <3>1
  <2>2. ~None(r, kind)
    BY <1>1, <1>2 DEF None
  <2> QED
    BY <2>1, <2>2 DEF Newest
<1>3. ASSUME t.kind # kind, NEW v, Newest(q, kind, v) PROVE Newest(r, kind, v)
  <2>1. ASSUME NEW i \in DOMAIN r, r[i].kind = kind,
               \A j \in DOMAIN r : j > i => r[j].kind # kind
        PROVE  Value(r[i]) = v
    <3>1. i \in DOMAIN q /\ r[i] = q[i]
      BY <1>1, <1>3, <2>1
    <3>2. \A j \in DOMAIN q : j > i => q[j].kind # kind
      BY <1>1, <2>1
    <3> QED
      BY <1>3, <2>1, <3>1, <3>2 DEF Newest
  <2> QED
    BY <2>1 DEF Newest
<1>4. ASSUME t.kind # kind PROVE None(r, kind) <=> None(q, kind)
  BY <1>1, <1>4 DEF None
<1> QED
  BY <1>2, <1>3, <1>4

LEMMA NewestTail ==
    ASSUME NEW q \in Seq(Task), q # <<>>, NEW kind
    PROVE  /\ None(q, kind) => None(Tail(q), kind)
           /\ Head(q).kind # kind => (None(q, kind) <=> None(Tail(q), kind))
           /\ \A v : Newest(q, kind, v) =>
                /\ Newest(Tail(q), kind, v)
                /\ Head(q).kind = kind /\ None(Tail(q), kind) => Value(Head(q)) = v
<1>1. /\ Len(q) \in Nat \ {0} /\ DOMAIN q = 1..Len(q) /\ DOMAIN Tail(q) = 1..Len(q) - 1
      /\ \A i \in 1..Len(q) - 1 : Tail(q)[i] = q[i + 1]
      /\ Head(q) = q[1]
  BY HeadTail
<1>2. \A i \in DOMAIN q : i # 1 => i - 1 \in DOMAIN Tail(q) /\ Tail(q)[i - 1] = q[i]
  <2>1. ASSUME NEW i \in 1..Len(q), i # 1
        PROVE  i - 1 \in 1..Len(q) - 1 /\ (i - 1) + 1 = i
    BY <1>1, <2>1
  <2> QED
    BY <1>1, <2>1
<1>3. \A i \in DOMAIN Tail(q) : i + 1 \in DOMAIN q /\ Tail(q)[i] = q[i + 1]
  BY <1>1
<1>4. None(q, kind) => None(Tail(q), kind)
  BY <1>3 DEF None
<1>5. Head(q).kind # kind /\ None(Tail(q), kind) => None(q, kind)
  BY <1>1, <1>2 DEF None
<1>6. ASSUME NEW v, Newest(q, kind, v) PROVE Newest(Tail(q), kind, v)
  <2>1. ASSUME NEW i \in DOMAIN Tail(q), Tail(q)[i].kind = kind,
               \A j \in DOMAIN Tail(q) : j > i => Tail(q)[j].kind # kind
        PROVE  Value(Tail(q)[i]) = v
    <3>1. i + 1 \in DOMAIN q /\ Tail(q)[i] = q[i + 1]
      BY <1>3
    <3>2. ASSUME NEW j \in DOMAIN q, j > i + 1 PROVE q[j].kind # kind
      <4>1. j # 1 /\ j - 1 > i
        BY <1>1, <3>2
      <4> QED
        BY <1>2, <2>1, <4>1
    <3> QED
      BY <1>6, <2>1, <3>1, <3>2 DEF Newest
  <2> QED
    BY <2>1 DEF Newest
<1>7. ASSUME NEW v, Newest(q, kind, v), Head(q).kind = kind, None(Tail(q), kind)
      PROVE  Value(Head(q)) = v
  <2>1. \A j \in DOMAIN q : j > 1 => q[j].kind # kind
    BY <1>1, <1>2, <1>7 DEF None
  <2> QED
    BY <1>1, <1>7, <2>1 DEF Newest
<1> QED
  BY <1>4, <1>5, <1>6, <1>7

(* Two queues that hold the same events.                                   *)
SameEvents(q, r) ==
    \A kind \in {"focus", "states"} :
       /\ None(q, kind) <=> None(r, kind)
       /\ \A v : Newest(q, kind, v) => Newest(r, kind, v)

LEMMA NoEvent ==
    ASSUME NEW q \in Seq(Task)
    PROVE  /\ \A t \in Task : t.kind \in {"launched", "close"} => SameEvents(q, Append(q, t))
           /\ q # <<>> /\ Head(q).kind \in {"launched", "close"} => SameEvents(q, Tail(q))
  BY NewestAppend, NewestTail DEF SameEvents

(* A step that does nothing about events and the page they set.            *)
LEMMA OtherStep ==
    ASSUME TypeOK, Following, SameEvents(tasks, tasks'), token' => token,
           UNCHANGED <<posting, last, changes, isFocused, lifecycleState>>,
           Open' => Open /\ page' = page,
           phase' = "starting" => phase = "starting" /\ UNCHANGED <<mainView, link>>
    PROVE  Following'
<1>1. NotLaunched'
  BY DEF Following, NotLaunched
<1>2. \A kind \in {"focus", "states"} : Posted(kind)' <=> Posted(kind)
  BY DEF Posted
<1>3. NothingSaid'
  BY <1>2 DEF Following, NothingSaid, SameEvents
<1>4. token' => FocusFollows'
  BY <1>2 DEF Following, FocusFollows, SameEvents
<1>5. token' => StatesFollow'
  BY <1>2 DEF Following, StatesFollow, SameEvents
<1>6. PageFits'
  BY DEF Following, PageFits
<1> QED
  BY <1>1, <1>3, <1>4, <1>5, <1>6 DEF Following

LEMMA SetStateShows ==
    ASSUME NEW s, setState(s), UNCHANGED <<mainView, hasFirebolt>>
    PROVE  /\ Open' => Open /\ page' = IF s = "INITIALIZING" THEN page ELSE s
           /\ s = "TERMINATED" => ~Open'
  BY DEF setState, Open

LEMMA FollowingKept == TypeOK /\ Following /\ TypeOK' /\ [Next]_vars => Following'
<1> SUFFICES ASSUME TypeOK, Following, TypeOK', [Next]_vars PROVE Following'
  OBVIOUS
<1> USE DEF controllerVars, browserVars, fireboltVars, historyVars
<1>0. /\ tasks \in Seq(Task) /\ SameEvents(tasks, tasks)
      /\ \A t \in Task : t.kind \in {"launched", "close"} => SameEvents(tasks, Append(tasks, t))
      /\ tasks # <<>> /\ Head(tasks).kind \in {"launched", "close"} =>
            SameEvents(tasks, Tail(tasks))
  BY NoEvent DEF TypeOK, SameEvents
<1>1. CASE Launch
  <2>1. /\ UNCHANGED <<tasks, posting, last, changes, isFocused, lifecycleState, token>>
        /\ phase' # "starting" /\ last.state = NONE /\ lifecycleState = "INITIALIZING"
    BY <1>1 DEF Launch, Following, NotLaunched
  <2>2. Open' => page' = "HIDDEN"
    BY <1>1 DEF Launch, launch, Open
  <2>3. NothingSaid' /\ PageFits' /\ NotLaunched'
    BY <2>1, <2>2 DEF Following, NothingSaid, NotLaunched, PageFits, Posted
  <2>4. token' => FocusFollows'
    BY <2>1 DEF Following, FocusFollows, Posted
  <2>5. token' => StatesFollow'
    BY <2>1 DEF Following, StatesFollow, Posted
  <2> QED
    BY <2>3, <2>4, <2>5 DEF Following
<1>2. CASE ViewReady
  <2>1. SameEvents(tasks, tasks')
    BY <1>0, <1>2 DEF ViewReady, post, Task, Launched
  <2> QED
    BY <1>2, <2>1, OtherStep DEF ViewReady, Open
<1>3. CASE onBrowserLaunched
  <2>1. SameEvents(tasks, tasks')
    BY <1>0, <1>3 DEF onBrowserLaunched, Launched
  <2>2. Open' => Open /\ page' = page
    BY <1>3 DEF onBrowserLaunched, Open
  <2> QED
    BY <1>3, <2>1, <2>2, OtherStep DEF onBrowserLaunched
<1>4. CASE onFocusedChanged
  <2> DEFINE focused == Head(tasks).focused
  <2>1. /\ Head(tasks) \in Task /\ focused \in BOOLEAN /\ isFocused \in BOOLEAN
        /\ isFocused' = focused /\ Value(Head(tasks)) = focused
        /\ UNCHANGED <<posting, last, changes, lifecycleState, mainView, hasFirebolt, phase, link>>
        /\ lifecycleState \in LifecycleState
    BY <1>0, <1>4, HeadTail, TaskShape DEF onFocusedChanged, TypeOK, Value
  <2>2. /\ None(tasks, "states") <=> None(tasks', "states")
        /\ \A v : Newest(tasks, "states", v) => Newest(tasks', "states", v)
        /\ \A v : Newest(tasks, "focus", v) =>
             /\ Newest(tasks', "focus", v)
             /\ None(tasks', "focus") => focused = v
    BY <1>0, <1>4, <2>1, NewestTail DEF onFocusedChanged
  <2>3. Open' => /\ Open
                 /\ page' = IF isFocused # focused /\ lifecycleState = "ACTIVE"
                            THEN toPageState("ACTIVE", focused) ELSE page
    <3>1. CASE isFocused # focused /\ lifecycleState = "ACTIVE"
      <4>1. setState(IF focused THEN "ACTIVE" ELSE "PASSIVE")
        BY <1>4, <3>1 DEF onFocusedChanged
      <4> QED
        BY <2>1, <3>1, <4>1, SetStateShows DEF toPageState
    <3>2. CASE ~(isFocused # focused /\ lifecycleState = "ACTIVE")
      BY <1>4, <2>1, <3>2 DEF onFocusedChanged, Open
    <3> QED
      BY <3>1, <3>2
  <2>4. \A kind : Posted(kind)' <=> Posted(kind)
    BY <2>1 DEF Posted
  <2>5. token /\ token'
    BY <1>4 DEF onFocusedChanged
  <2>6. NotLaunched'
    BY <2>1 DEF Following, NotLaunched
  <2>7. FocusFollows'
    BY <2>1, <2>2, <2>4, <2>5 DEF Following, FocusFollows
  <2>8. StatesFollow'
    BY <2>1, <2>2, <2>3, <2>4, <2>5 DEF Following, StatesFollow
  <2>9. NothingSaid'
    BY <2>1, <2>2, <2>3, <2>4, <2>5 DEF Following, NothingSaid, StatesFollow
  <2>10. PageFits'
    BY <2>1, <2>3, PageStates DEF Following, PageFits
  <2> QED
    BY <2>6, <2>7, <2>8, <2>9, <2>10 DEF Following
<1>5. CASE onLifecycleStateChanged
  <2>1. /\ Head(tasks) \in Task /\ changes = <<>> /\ changes' = Head(tasks).changes
        /\ changes' # <<>> /\ Value(Head(tasks)) = changes'[Len(changes')]
        /\ UNCHANGED <<posting, last, lifecycleState, isFocused, mainView, hasFirebolt, phase,
                       link, page>>
    BY <1>0, <1>5, HeadTail, TaskShape, BatchShape
       DEF onLifecycleStateChanged, Value, Dispatching
  <2>2. /\ ~None(tasks, "states")
        /\ None(tasks, "focus") <=> None(tasks', "focus")
        /\ \A v : Newest(tasks, "focus", v) => Newest(tasks', "focus", v)
        /\ \A v : Newest(tasks, "states", v) =>
             /\ Newest(tasks', "states", v)
             /\ None(tasks', "states") => changes'[Len(changes')] = v
    <3>1. Head(tasks) = tasks[1] /\ 1 \in DOMAIN tasks
      BY <1>0, <1>5, HeadTail DEF onLifecycleStateChanged
    <3>2. ~None(tasks, "states")
      BY <1>5, <3>1 DEF onLifecycleStateChanged, None
    <3> QED
      BY <1>0, <1>5, <2>1, <3>2, NewestTail DEF onLifecycleStateChanged
  <2>3. \A kind : Posted(kind)' <=> Posted(kind)
    BY <2>1 DEF Posted
  <2>4. token /\ token' /\ (Open' <=> Open)
    BY <1>5, <2>1 DEF onLifecycleStateChanged, Open
  <2>5. NotLaunched' /\ PageFits'
    BY <2>1, <2>4 DEF Following, NotLaunched, PageFits
  <2>6. FocusFollows'
    BY <2>1, <2>2, <2>3, <2>4 DEF Following, FocusFollows
  <2>7. StatesFollow'
    BY <2>1, <2>2, <2>3, <2>4 DEF Following, StatesFollow
  <2>8. NothingSaid'
    BY <2>1, <2>2 DEF Following, NothingSaid
  <2> QED
    BY <2>5, <2>6, <2>7, <2>8 DEF Following
<1>6. CASE TakeChange
  <2> DEFINE s == Head(changes)
  <2>1. /\ changes \in Seq(LifecycleState) /\ changes # <<>> /\ changes' = Tail(changes)
        /\ s \in LifecycleState /\ isFocused \in BOOLEAN /\ lifecycleState' = s
        /\ UNCHANGED <<tasks, posting, last, isFocused, mainView, hasFirebolt, phase, link, token>>
    BY <1>6, HeadTail DEF TakeChange, TypeOK
  <2>2. /\ changes' # <<>> => changes'[Len(changes')] = changes[Len(changes)]
        /\ changes' = <<>> => s = changes[Len(changes)]
    <3>1. /\ Len(changes) \in Nat \ {0} /\ Len(changes') = Len(changes) - 1 /\ s = changes[1]
          /\ \A i \in 1..Len(changes) - 1 : changes'[i] = changes[i + 1]
      BY <2>1, HeadTail
    <3>2. CASE Len(changes) = 1
      BY <3>1, <3>2, <2>1
    <3>3. CASE Len(changes) # 1
      <4>1. Len(changes') \in 1..Len(changes) - 1 /\ Len(changes') + 1 = Len(changes)
        BY <3>1, <3>3
      <4>2. changes' # <<>>
        BY <4>1
      <4> QED
        BY <3>1, <4>1, <4>2
    <3> QED
      BY <3>2, <3>3
  <2>3. Open' => /\ Open
                 /\ s # "INITIALIZING" => page' = toPageState(s, isFocused)
    <3>1. setState(toPageState(s, isFocused))
      BY <1>6 DEF TakeChange
    <3> QED
      BY <2>1, <3>1, SetStateShows, PageStates
  <2>4. \A kind : Posted(kind)' <=> Posted(kind)
    BY <2>1 DEF Posted
  <2>5. last.state # NONE
    BY <2>1 DEF Following, NothingSaid
  <2>6. NotLaunched' /\ NothingSaid'
    BY <2>1, <2>5 DEF Following, NotLaunched, NothingSaid
  <2>7. token' => FocusFollows'
    BY <2>1, <2>4 DEF Following, FocusFollows
  <2>8. token' => StatesFollow'
    BY <2>1, <2>2, <2>3, <2>4, <2>5 DEF Following, StatesFollow
  <2>9. PageFits'
    BY <2>1, <2>3 DEF PageFits
  <2> QED
    BY <2>6, <2>7, <2>8, <2>9 DEF Following
<1>7. CASE DropTask
  <2>1. /\ ~token /\ ~token' /\ (None(tasks, "states") => None(tasks', "states"))
        /\ UNCHANGED <<posting, last, changes, lifecycleState, isFocused, mainView, hasFirebolt,
                       phase, link, page>>
    BY <1>0, <1>7, NewestTail DEF DropTask
  <2>2. NotLaunched' /\ NothingSaid' /\ PageFits'
    BY <2>1 DEF Following, NotLaunched, NothingSaid, PageFits, Open, Posted
  <2> QED
    BY <2>1, <2>2 DEF Following
<1>8. CASE onBrowserClose
  <2>1. SameEvents(tasks, tasks') /\ (token' => token) /\ phase # "starting"
    BY <1>0, <1>8 DEF onBrowserClose, Dispatching
  <2>2. phase' # "starting"
    BY <1>8, <2>1 DEF onBrowserClose, quit
  <2> QED
    BY <1>8, <2>1, <2>2, OtherStep DEF onBrowserClose, Open
<1>9. CASE ForceClose
  <2>1. SameEvents(tasks, tasks')
    BY <1>0, <1>9 DEF ForceClose, post, Task, Close, CloseReason
  <2> QED
    BY <1>9, <2>1, OtherStep DEF ForceClose, Open
<1>10. ASSUME NEW what, NEW reason \in CloseReason, PageEvent(what, reason) PROVE Following'
  <2>1. SameEvents(tasks, tasks')
    BY <1>0, <1>10 DEF PageEvent, post, Task, Close
  <2> QED
    BY <1>10, <2>1, OtherStep DEF PageEvent, Open
<1>11. ASSUME NEW s \in {"SIGTERM", "SIGINT"}, Signal(s) PROVE Following'
  <2>1. CASE lifecycleState = "TERMINATING"
    BY <1>0, <1>11, <2>1, OtherStep DEF Signal, Open
  <2>2. CASE lifecycleState # "TERMINATING"
    <3>1. /\ UNCHANGED <<tasks, posting, last, changes, isFocused, token, phase>>
          /\ phase # "starting" /\ ~Open'
      BY <1>11, <2>2, SetStateShows DEF Signal, InMainLoop
    <3>2. NotLaunched' /\ NothingSaid' /\ PageFits'
      BY <3>1 DEF Following, NotLaunched, NothingSaid, PageFits, Posted
    <3>3. token' => FocusFollows'
      BY <3>1 DEF Following, FocusFollows, Posted
    <3>4. token' => StatesFollow'
      BY <3>1 DEF Following, StatesFollow, Posted
    <3> QED
      BY <3>2, <3>3, <3>4 DEF Following
  <2> QED
    BY <2>1, <2>2
<1>12. CASE LoopEnds
  BY <1>0, <1>12, OtherStep DEF LoopEnds, Open
<1>13. CASE DrainEnds
  BY <1>0, <1>13, OtherStep DEF DrainEnds, Open
<1>14. CASE FireboltConnected
  <2>1. phase # "starting"
    BY <1>14 DEF FireboltConnected, Following, NotLaunched
  <2> QED
    BY <1>0, <1>14, <2>1, OtherStep DEF FireboltConnected, Open
<1>15. CASE FireboltDisconnected
  <2>1. phase # "starting"
    BY <1>15 DEF FireboltDisconnected, Following, NotLaunched
  <2> QED
    BY <1>0, <1>15, <2>1, OtherStep DEF FireboltDisconnected, Open
<1>16. CASE Subscribe
  BY <1>0, <1>16, OtherStep DEF Subscribe, Open
<1>17. ASSUME NEW e \in Event, Publish(e) PROVE Following'
  <2>1. /\ e \in Task /\ e.kind \in {"focus", "states"} /\ posting = <<>> /\ posting' = <<e>>
        /\ phase # "starting"
        /\ UNCHANGED <<tasks, changes, isFocused, lifecycleState, token, phase, page, mainView,
                       hasFirebolt>>
    BY <1>17, TaskShape DEF Publish, Task, Following, NotLaunched
  <2>2. \A kind : (Posted(kind)' <=> e.kind = kind) /\ ~Posted(kind)
    BY <2>1 DEF Posted
  <2>3. NotLaunched' /\ PageFits' /\ (Open' <=> Open)
    BY <2>1 DEF Following, NotLaunched, PageFits, Open
  <2>4. last \in [state : LifecycleState \cup {NONE}, focused : BOOLEAN]
    BY DEF TypeOK
  <2>5. CASE e.kind = "focus"
    <3>1. last'.focused = e.focused /\ last'.state = last.state
      BY <1>17, <2>4, <2>5 DEF Publish
    <3>2. token' => FocusFollows'
      BY <2>1, <2>2, <2>5, <3>1 DEF FocusFollows, Value
    <3>3. token' => StatesFollow'
      BY <2>1, <2>2, <2>3, <2>5, <3>1 DEF Following, StatesFollow
    <3>4. NothingSaid'
      BY <2>1, <2>2, <2>3, <2>5, <3>1 DEF Following, NothingSaid
    <3> QED
      BY <2>3, <3>2, <3>3, <3>4 DEF Following
  <2>6. CASE e.kind = "states"
    <3>1. /\ last'.state = e.changes[Len(e.changes)] /\ last'.focused = last.focused
          /\ e.changes[Len(e.changes)] \in LifecycleState
      BY <1>17, <2>1, <2>4, <2>6, TaskShape, BatchShape DEF Publish
    <3>2. token' => FocusFollows'
      BY <2>1, <2>2, <2>6, <3>1 DEF Following, FocusFollows
    <3>3. token' => StatesFollow'
      BY <2>1, <2>2, <2>6, <3>1 DEF StatesFollow, Value
    <3>4. NothingSaid'
      BY <3>1 DEF NothingSaid, LifecycleState, NONE
    <3> QED
      BY <2>3, <3>2, <3>3, <3>4 DEF Following
  <2> QED
    BY <2>1, <2>5, <2>6
<1>18. CASE InvokeTask
  <2>1. PICK e \in Event : posting = <<e>>
    BY <1>18 DEF TypeOK, InvokeTask
  <2>2. /\ e \in Task /\ e.kind \in {"focus", "states"} /\ posting' = <<>>
        /\ UNCHANGED <<last, changes, isFocused, lifecycleState, token, phase, page, mainView,
                       hasFirebolt, link>>
        /\ tasks' = Append(tasks, e) \/ (~token /\ tasks' = tasks)
    BY <1>18, <2>1, TaskShape DEF InvokeTask, post, Task
  <2>3. \A kind : (Posted(kind) <=> e.kind = kind) /\ ~Posted(kind)'
    BY <2>1, <2>2 DEF Posted
  <2>4. NotLaunched' /\ PageFits' /\ (Open' <=> Open)
    BY <2>2 DEF Following, NotLaunched, PageFits, Open
  <2>5. \A kind : e.kind # kind /\ None(tasks, kind) => None(tasks', kind)
    BY <1>0, <2>2, NewestAppend
  <2>6. NothingSaid'
    BY <2>2, <2>3, <2>4, <2>5 DEF Following, NothingSaid
  <2>7. CASE token
    <3>1. tasks' = Append(tasks, e) /\ Posted(e.kind) /\ posting[1] = e
      BY <2>1, <2>2, <2>3, <2>7
    <3>2. /\ Newest(tasks', e.kind, Value(e)) /\ ~None(tasks', e.kind)
          /\ \A kind : e.kind # kind =>
               /\ \A v : Newest(tasks, kind, v) => Newest(tasks', kind, v)
               /\ None(tasks', kind) <=> None(tasks, kind)
      BY <1>0, <2>2, <3>1, NewestAppend
    <3>3. FocusFollows'
      BY <2>2, <2>3, <2>7, <3>1, <3>2 DEF Following, FocusFollows
    <3>4. StatesFollow'
      BY <2>2, <2>3, <2>4, <2>7, <3>1, <3>2 DEF Following, StatesFollow
    <3> QED
      BY <2>4, <2>6, <3>3, <3>4 DEF Following
  <2> QED
    BY <2>2, <2>4, <2>6, <2>7 DEF Following
<1>19. CASE UNCHANGED vars
  BY <1>0, <1>19, OtherStep DEF vars, Open
<1> QED
  BY <1>1, <1>2, <1>3, <1>4, <1>5, <1>6, <1>7, <1>8, <1>9, <1>10, <1>11, <1>12, <1>13, <1>14,
     <1>15, <1>16, <1>17, <1>18, <1>19
     DEF Next, Turn, closeCallback, webProcessTerminated, windowMinimize, CloseReason

-----------------------------------------------------------------------------
LEMMA InitIInv == Init => IInv
<1> SUFFICES ASSUME Init PROVE IInv
  OBVIOUS
<1>1. TypeOK
  BY InitType
<1>2. tasks = <<>> /\ changes = <<>> /\ posting = <<>> /\ timers = 0
  BY DEF Init
<1>3. Caused
  BY <1>2 DEF Caused, Asks
<1>4. StopsInOrder
  BY DEF Init, StopsInOrder
<1>5. None(tasks, "states") /\ \A kind, v : Newest(tasks, kind, v)
  BY <1>2 DEF None, Newest
<1>6. NotLaunched /\ NothingSaid /\ PageFits
  BY <1>5 DEF Init, NotLaunched, NothingSaid, PageFits, Posted, Open
<1>7. FocusFollows /\ StatesFollow
  BY <1>5 DEF Init, FocusFollows, StatesFollow, Posted
<1> QED
  BY <1>1, <1>3, <1>4, <1>6, <1>7 DEF IInv, Following

LEMMA NextIInv == IInv /\ [Next]_vars => IInv'
  BY TypeKept, SafeKept, FollowingKept DEF IInv, SafeInv

LEMMA IInvConverges == IInv => PageConverges
<1> SUFFICES ASSUME IInv, hasFirebolt, token, mainView = "open", ~EventPending,
                    page # "TERMINATED", last.state # "INITIALIZING"
             PROVE  page = IF last.state = NONE THEN "HIDDEN"
                           ELSE toPageState(last.state, last.focused)
  BY DEF PageConverges
<1>1. Open /\ posting = <<>> /\ changes = <<>> /\ DOMAIN tasks = 1..Len(tasks)
  BY DEF Open, EventPending, IInv, TypeOK
<1>2. ~Posted("focus") /\ ~Posted("states") /\ None(tasks, "focus") /\ None(tasks, "states")
  BY <1>1 DEF Posted, None, EventPending
<1>3. /\ isFocused = last.focused
      /\ lifecycleState = IF last.state = NONE THEN "INITIALIZING" ELSE last.state
  BY <1>1, <1>2 DEF IInv, Following, FocusFollows, StatesFollow
<1>4. CASE last.state = NONE
  BY <1>1, <1>4 DEF IInv, Following, NothingSaid
<1>5. CASE last.state # NONE
  BY <1>1, <1>3, <1>5 DEF IInv, Following, PageFits
<1> QED
  BY <1>4, <1>5

LEMMA SpecIInv == Spec => []IInv
  BY InitIInv, NextIInv, PTL DEF Spec

(* Every variable of the launcher keeps its type, whatever Firebolt sends. *)
THEOREM LauncherTypeCorrect == Spec => []TypeOK
<1>1. IInv => TypeOK
  BY DEF IInv
<1> QED
  BY <1>1, SpecIInv, PTL

(* The launcher stops for a cause and tells Firebolt before it leaves:     *)
(* every force-close timer and every close task has its cause, however     *)
(* many signals, notifications and events of the page cross each other     *)
(* (BrowserController::onBrowserClose, WpeWebKitBrowser::close).           *)
THEOREM LauncherStopsInOrder == Spec => []StopsInOrder
<1>1. IInv => StopsInOrder
  BY DEF IInv
<1> QED
  BY <1>1, SpecIInv, PTL

(* Once its events were handled the page is in the state the last          *)
(* lifecycle state and the last focus call for, for batches of any length  *)
(* in any order (onLifecycleStateChanged, onFocusedChanged).               *)
THEOREM PageFollowsFirebolt == Spec => []PageConverges
  BY IInvConverges, SpecIInv, PTL
=============================================================================
