-------------------------- MODULE StateControlProofs -------------------------
(***************************************************************************)
(* Proofs about the requests to WebKitImplementation, for every number of  *)
(* requests, clients and pages.                                            *)
(***************************************************************************)
EXTENDS StateControl, TLAPS, SequenceTheorems

(***************************************************************************)
(* A queue and the value its last writer leaves: queueing a writer makes   *)
(* its value the one wanted, queueing another task changes nothing, and    *)
(* running the task at the head moves its value from the queue into force. *)
(***************************************************************************)
LEMMA QueueWriter ==
    ASSUME NEW q \in Seq(Task), NEW left, NEW t \in Task, t \in DOMAIN left,
           NEW value
    PROVE  LastWins(Append(q, t), left, value, left[t])
<1> DEFINE r == Append(q, t)
<1>1. /\ DOMAIN r = 1..Len(q) + 1
      /\ r[Len(q) + 1] = t
      /\ Len(q) \in Nat
  OBVIOUS
<1>2. Len(q) + 1 \in Writes(r, left)
  BY <1>1 DEF Writes
<1>3. ASSUME NEW i \in Writes(r, left), \A j \in Writes(r, left) : j <= i
      PROVE  i = Len(q) + 1
  <2>1. i \in 1..Len(q) + 1 /\ Len(q) + 1 <= i
    BY <1>1, <1>2, <1>3 DEF Writes
  <2> QED
    BY <1>1, <2>1
<1> QED
  BY <1>1, <1>2, <1>3 DEF LastWins

LEMMA QueueOther ==
    ASSUME NEW q \in Seq(Task), NEW left, NEW t \in Task, t \notin DOMAIN left,
           NEW value, NEW wanted, LastWins(q, left, value, wanted)
    PROVE  LastWins(Append(q, t), left, value, wanted)
<1> DEFINE r == Append(q, t)
<1>1. /\ DOMAIN r = 1..Len(q) + 1
      /\ DOMAIN q = 1..Len(q)
      /\ r[Len(q) + 1] = t
      /\ \A i \in 1..Len(q) : r[i] = q[i]
      /\ Len(q) \in Nat
  OBVIOUS
<1>2. Writes(r, left) = Writes(q, left)
  <2>1. ASSUME NEW i \in Writes(r, left) PROVE i \in Writes(q, left)
    BY <1>1, <2>1 DEF Writes
  <2>2. ASSUME NEW i \in Writes(q, left) PROVE i \in Writes(r, left)
    BY <1>1, <2>2 DEF Writes
  <2> QED
    BY <2>1, <2>2
<1>3. \A i \in Writes(q, left) : r[i] = q[i]
  BY <1>1 DEF Writes
<1> QED
  BY <1>2, <1>3 DEF LastWins

LEMMA ShiftWrites ==
    ASSUME NEW q \in Seq(Task), q # <<>>, NEW left
    PROVE  /\ \A i \in Writes(Tail(q), left) :
                 i + 1 \in Writes(q, left) /\ Tail(q)[i] = q[i + 1]
           /\ \A i \in Writes(q, left) : i # 1 => i - 1 \in Writes(Tail(q), left)
           /\ 1 \in Writes(q, left) <=> Head(q) \in DOMAIN left
<1>1. /\ DOMAIN q = 1..Len(q) /\ Len(q) \in Nat \ {0}
      /\ DOMAIN Tail(q) = 1..Len(q) - 1
      /\ \A i \in 1..Len(q) - 1 : Tail(q)[i] = q[i + 1]
      /\ Head(q) = q[1]
  OBVIOUS
<1>2. ASSUME NEW i \in Writes(Tail(q), left)
      PROVE  i + 1 \in Writes(q, left) /\ Tail(q)[i] = q[i + 1]
  BY <1>1, <1>2 DEF Writes
<1>3. ASSUME NEW i \in Writes(q, left), i # 1
      PROVE  i - 1 \in Writes(Tail(q), left)
  <2>1. i \in 1..Len(q) /\ q[i] \in DOMAIN left
    BY <1>1, <1>3 DEF Writes
  <2>2. i - 1 \in 1..Len(q) - 1 /\ (i - 1) + 1 = i
    BY <1>1, <1>3, <2>1
  <2>3. Tail(q)[i - 1] = q[i]
    BY <1>1, <2>2
  <2> QED
    BY <1>1, <2>1, <2>2, <2>3 DEF Writes
<1>4. 1 \in Writes(q, left) <=> Head(q) \in DOMAIN left
  BY <1>1 DEF Writes
<1> QED
  BY <1>2, <1>3, <1>4

LEMMA RunWriter ==
    ASSUME NEW q \in Seq(Task), q # <<>>, NEW left, Head(q) \in DOMAIN left,
           NEW value, NEW wanted, LastWins(q, left, value, wanted)
    PROVE  LastWins(Tail(q), left, left[Head(q)], wanted)
<1>1. \A i \in Writes(q, left) : i \in Nat \ {0}
  BY DEF Writes
<1>2. \A i \in Writes(Tail(q), left) : i \in Nat \ {0}
  BY DEF Writes
<1>3. ASSUME NEW i \in Writes(Tail(q), left), \A j \in Writes(Tail(q), left) : j <= i
      PROVE  left[Tail(q)[i]] = wanted
  <2>1. i + 1 \in Writes(q, left) /\ Tail(q)[i] = q[i + 1]
    BY ShiftWrites
  <2>2. ASSUME NEW j \in Writes(q, left) PROVE j <= i + 1
    <3>1. CASE j = 1
      BY <1>2, <3>1
    <3>2. CASE j # 1
      <4>1. j - 1 \in Writes(Tail(q), left)
        BY <3>2, ShiftWrites
      <4> QED
        BY <1>1, <1>2, <1>3, <4>1
    <3> QED
      BY <3>1, <3>2
  <2> QED
    BY <2>1, <2>2 DEF LastWins
<1>4. ASSUME Writes(Tail(q), left) = {}
      PROVE  left[Head(q)] = wanted
  <2>1. 1 \in Writes(q, left)
    BY ShiftWrites
  <2>2. ASSUME NEW j \in Writes(q, left) PROVE j <= 1
    <3>1. j = 1
      BY <1>4, ShiftWrites
    <3> QED
      BY <3>1
  <2>3. q[1] = Head(q)
    OBVIOUS
  <2> QED
    BY <2>1, <2>2, <2>3 DEF LastWins
<1> QED
  BY <1>3, <1>4 DEF LastWins

LEMMA RunOther ==
    ASSUME NEW q \in Seq(Task), q # <<>>, NEW left, Head(q) \notin DOMAIN left,
           NEW value, NEW wanted, LastWins(q, left, value, wanted)
    PROVE  LastWins(Tail(q), left, value, wanted)
<1>1. \A i \in Writes(q, left) : i \in Nat \ {0, 1}
  <2>1. 1 \notin Writes(q, left)
    BY ShiftWrites
  <2> QED
    BY <2>1 DEF Writes
<1>2. \A i \in Writes(Tail(q), left) : i \in Nat \ {0}
  BY DEF Writes
<1>3. ASSUME NEW i \in Writes(Tail(q), left), \A j \in Writes(Tail(q), left) : j <= i
      PROVE  left[Tail(q)[i]] = wanted
  <2>1. i + 1 \in Writes(q, left) /\ Tail(q)[i] = q[i + 1]
    BY ShiftWrites
  <2>2. ASSUME NEW j \in Writes(q, left) PROVE j <= i + 1
    <3>1. j - 1 \in Writes(Tail(q), left)
      BY <1>1, ShiftWrites
    <3> QED
      BY <1>1, <1>2, <1>3, <3>1
  <2> QED
    BY <2>1, <2>2 DEF LastWins
<1>4. Writes(Tail(q), left) = {} => Writes(q, left) = {}
  <2>1. ASSUME NEW j \in Writes(q, left) PROVE j - 1 \in Writes(Tail(q), left)
    BY <1>1, ShiftWrites
  <2> QED
    BY <2>1
<1> QED
  BY <1>3, <1>4 DEF LastWins

(***************************************************************************)
(* The invariant.  Before the state is known nothing can be queued to      *)
(* change it, and before the web thread runs its loop no sink has been     *)
(* told anything.                                                          *)
(***************************************************************************)
NothingEarly ==
    /\ phase = "off" => tasks = <<>>
    /\ state = "UNINITIALIZED" => ~Entered /\ Writes(tasks, stateLeft) = {}
    /\ \A s \in Sinks : (~Entered \/ s \notin sinks) => heard[s] = NONE

IInv == TypeOK /\ NothingEarly /\ LastCommandWins /\ LastCallWins /\ SinksAgree

LEMMA Domains ==
    /\ DOMAIN stateLeft = StateTask /\ DOMAIN hiddenLeft = HiddenTask
    /\ DOMAIN pageLeft = URLTask \cup {u \in StateTask : blanks(u.arg)}
  BY DEF stateLeft, hiddenLeft, pageLeft

LEMMA NoWrites == \A left : Writes(<<>>, left) = {}
  BY DEF Writes

LEMMA InitIInv == Init => IInv
<1> SUFFICES ASSUME Init PROVE IInv
  OBVIOUS
<1>1. TypeOK
  <2>1. requests \in 0..MaxRequests /\ tasks \in Seq(Task)
    BY MaxRequestsAssumption, EmptySeq DEF Init
  <2>2. heard \in [Sinks -> State \cup {NONE}]
    BY DEF Init
  <2>3. promised \in [state : State, hidden : Visibility, url : URLs \cup {Blank}]
    BY DEF Init, State, Visibility
  <2> QED
    BY <2>1, <2>2, <2>3 DEF Init, TypeOK, State, Visibility
<1>2. NothingEarly /\ LastCommandWins /\ LastCallWins /\ SinksAgree
  BY NoWrites DEF Init, NothingEarly, Entered, startsAs, LastCommandWins, LastCallWins,
                  LastWins, SinksAgree
<1> QED
  BY <1>1, <1>2 DEF IInv

(***************************************************************************)
(* A step that queues nothing, runs nothing and leaves the parts of the    *)
(* browser alone keeps what the queue leaves of them.                      *)
(***************************************************************************)
LEMMA SameQueue ==
    ASSUME IInv, UNCHANGED <<browserVars, tasks, promised>>, Entered' = Entered
    PROVE  LastCommandWins' /\ LastCallWins'
  BY DEF IInv, LastCommandWins, LastCallWins, browserVars

LEMMA NextRequest ==
    ASSUME IInv, Request
    PROVE  IInv'
<1> USE DEF IInv
<1>0. PICK s \in State :
         \/ /\ state = "UNINITIALIZED"
            /\ state' = s
            /\ promised' = [promised EXCEPT !.state = s]
            /\ UNCHANGED tasks
         \/ /\ state \in State \ {s}
            /\ enter(s)
         \/ /\ state = s
            /\ Refuse
  BY DEF Request
<1>1. /\ UNCHANGED <<phase, hidden, url, quit, destroying, sinks, heard>>
      /\ requests' \in 0..MaxRequests /\ Entered' = Entered
  BY MaxRequestsAssumption DEF Request, Call, TypeOK, Entered
<1>2. CASE /\ state = "UNINITIALIZED"
           /\ state' = s
           /\ promised' = [promised EXCEPT !.state = s]
           /\ UNCHANGED tasks
  <2>1. TypeOK'
    BY <1>1, <1>2 DEF TypeOK
  <2>2. /\ ~Entered /\ Writes(tasks, stateLeft) = {}
        /\ promised'.state = s /\ promised'.url = promised.url
        /\ promised'.hidden = promised.hidden
    BY <1>2 DEF NothingEarly, TypeOK
  <2>3. NothingEarly' /\ SinksAgree'
    BY <1>1, <1>2, <2>2 DEF NothingEarly, SinksAgree, Entered, State, TypeOK
  <2>4. LastCommandWins'
    BY <1>1, <1>2, <2>2 DEF LastCommandWins, LastWins, startsAs, State
  <2>5. LastCallWins'
    BY <1>1, <1>2, <2>2 DEF LastCallWins
  <2> QED
    BY <2>1, <2>3, <2>4, <2>5
<1>3. CASE state \in State \ {s} /\ enter(s) /\ ~HasContext
  <2>1. /\ phase = "off" /\ tasks = <<>> /\ ~Entered /\ UNCHANGED tasks /\ state' = s
        /\ promised' = [promised EXCEPT !.state = s]
    BY <1>3 DEF enter, HasContext, NothingEarly, Entered
  <2>2. TypeOK'
    BY <1>1, <2>1 DEF TypeOK
  <2>3. NothingEarly' /\ SinksAgree'
    BY <1>1, <2>1, NoWrites DEF NothingEarly, SinksAgree, Entered, State, TypeOK
  <2>4. LastCommandWins'
    BY <1>1, <2>1, <2>2, NoWrites DEF LastCommandWins, LastWins, startsAs, State, TypeOK
  <2>5. LastCallWins'
    BY <1>1, <2>1 DEF LastCallWins, TypeOK
  <2> QED
    BY <2>2, <2>3, <2>4, <2>5
<1>4. CASE state \in State \ {s} /\ enter(s) /\ HasContext
  <2> DEFINE t == [kind |-> "state", arg |-> s]
  <2>1. /\ tasks' = Append(tasks, t) /\ UNCHANGED state
        /\ promised' = [promised EXCEPT !.state = s, !.url = IF blanks(s) THEN Blank ELSE @]
        /\ t \in StateTask /\ t \in Task /\ t \notin HiddenTask /\ t \notin URLTask
        /\ phase # "off" /\ state # "UNINITIALIZED" /\ tasks \in Seq(Task)
    BY <1>4 DEF enter, invoke, HasContext, StateTask, HiddenTask, URLTask, Task, State, TypeOK
  <2>2. /\ promised'.state = s /\ promised'.hidden = promised.hidden
        /\ promised'.url = IF blanks(s) THEN Blank ELSE promised.url
    BY <2>1 DEF TypeOK
  <2> HIDE DEF t
  <2>3. TypeOK'
    <3>1. tasks' \in Seq(Task)
      BY <2>1
    <3>2. promised' \in [state : State, hidden : Visibility, url : URLs \cup {Blank}]
      BY <2>1 DEF TypeOK
    <3> QED
      BY <1>1, <2>1, <3>1, <3>2 DEF TypeOK
  <2>4. NothingEarly' /\ SinksAgree'
    BY <1>1, <2>1 DEF NothingEarly, SinksAgree, Entered
  <2>5. LastCommandWins'
    <3>1. stateLeft[t] = s
      BY <2>1 DEF stateLeft, t
    <3> QED
      BY <2>1, <2>2, <3>1, QueueWriter, Domains DEF LastCommandWins
  <2>6. LastWins(tasks', hiddenLeft, hidden', promised'.hidden)
    BY <1>1, <2>1, <2>2, QueueOther, Domains DEF LastCallWins
  <2>7. LastWins(tasks', pageLeft, url', promised'.url)
    <3>1. CASE blanks(s)
      <4>1. t \in DOMAIN pageLeft /\ pageLeft[t] = Blank
        BY <2>1, <3>1 DEF pageLeft, t
      <4> QED
        BY <2>1, <2>2, <3>1, <4>1, QueueWriter
    <3>2. CASE ~blanks(s)
      <4>1. t \notin DOMAIN pageLeft
        BY <2>1, <3>2, Domains DEF t
      <4> QED
        BY <1>1, <2>1, <2>2, <3>2, <4>1, QueueOther DEF LastCallWins
    <3> QED
      BY <3>1, <3>2
  <2> QED
    BY <2>3, <2>4, <2>5, <2>6, <2>7 DEF LastCallWins
<1>5. CASE state = s /\ Refuse
  BY <1>1, <1>5, SameQueue DEF Refuse, TypeOK, NothingEarly, SinksAgree, Entered, browserVars
<1> QED
  BY <1>0, <1>2, <1>3, <1>4, <1>5

(***************************************************************************)
(* Hide, Show and URL queue a task that writes one part.                   *)
(***************************************************************************)
LEMMA NextHide ==
    ASSUME IInv, Hide
    PROVE  IInv'
<1> USE DEF IInv
<1>1. /\ UNCHANGED <<phase, state, hidden, url, quit, destroying, sinks, heard>>
      /\ requests' \in 0..MaxRequests /\ Entered' = Entered
  BY MaxRequestsAssumption DEF Hide, Call, TypeOK, Entered, browserVars
<1>2. CASE ~HasContext
  <2>1. UNCHANGED <<tasks, promised>>
    BY <1>2 DEF Hide
  <2> QED
    BY <1>1, <2>1, SameQueue DEF TypeOK, NothingEarly, SinksAgree, Entered, browserVars
<1>3. CASE HasContext
  <2>1. PICK v \in Visibility :
           invoke("hidden", v) /\ promised' = [promised EXCEPT !.hidden = v]
    BY <1>3 DEF Hide
  <2> DEFINE t == [kind |-> "hidden", arg |-> v]
  <2>2. /\ tasks' = Append(tasks, t) /\ t \in HiddenTask /\ t \in Task
        /\ t \notin StateTask /\ t \notin URLTask /\ tasks \in Seq(Task)
        /\ phase # "off"
    BY <1>3, <2>1 DEF invoke, StateTask, HiddenTask, URLTask, Task, TypeOK, HasContext
  <2>3. /\ promised' \in [state : State, hidden : Visibility, url : URLs \cup {Blank}]
        /\ promised'.state = promised.state /\ promised'.url = promised.url
        /\ promised'.hidden = v
    BY <2>1 DEF TypeOK
  <2>4. hiddenLeft[t] = v
    BY <2>2 DEF hiddenLeft
  <2>5. t \notin DOMAIN stateLeft /\ t \notin DOMAIN pageLeft /\ t \in DOMAIN hiddenLeft
    BY <2>2, Domains
  <2> HIDE DEF t
  <2>6. TypeOK'
    BY <1>1, <2>2, <2>3 DEF TypeOK
  <2>7. SinksAgree'
    BY <1>1 DEF SinksAgree
  <2>8. NothingEarly'
    <3>1. ASSUME state = "UNINITIALIZED" PROVE Writes(tasks', stateLeft) = {}
      <4>1. ASSUME NEW i \in Writes(tasks', stateLeft) PROVE i \in Writes(tasks, stateLeft)
        BY <2>2, <2>5, <4>1 DEF Writes
      <4> QED
        BY <3>1, <4>1 DEF NothingEarly
    <3> QED
      BY <1>1, <2>2, <3>1 DEF NothingEarly
  <2>9. LastCommandWins' /\ LastCallWins'
    BY <1>1, <2>2, <2>3, <2>4, <2>5, QueueWriter, QueueOther
       DEF LastCommandWins, LastCallWins, startsAs
  <2> QED
    BY <2>6, <2>7, <2>8, <2>9
<1> QED
  BY <1>2, <1>3

LEMMA NextURL ==
    ASSUME IInv, URL
    PROVE  IInv'
<1> USE DEF IInv
<1>1. /\ UNCHANGED <<phase, state, hidden, url, quit, destroying, sinks, heard>>
      /\ requests' \in 0..MaxRequests /\ Entered' = Entered
  BY MaxRequestsAssumption DEF URL, Call, TypeOK, Entered, browserVars
<1>2. CASE ~HasContext
  <2>1. UNCHANGED <<tasks, promised>>
    BY <1>2 DEF URL
  <2> QED
    BY <1>1, <2>1, SameQueue DEF TypeOK, NothingEarly, SinksAgree, Entered, browserVars
<1>3. CASE HasContext
  <2>1. PICK u \in URLs :
           invoke("url", u) /\ promised' = [promised EXCEPT !.url = u]
    BY <1>3 DEF URL
  <2> DEFINE t == [kind |-> "url", arg |-> u]
  <2>2. /\ tasks' = Append(tasks, t) /\ t \in URLTask /\ t \in Task
        /\ t \notin StateTask /\ t \notin HiddenTask /\ tasks \in Seq(Task)
        /\ phase # "off"
    BY <1>3, <2>1 DEF invoke, StateTask, HiddenTask, URLTask, Task, TypeOK, HasContext
  <2>3. /\ promised' \in [state : State, hidden : Visibility, url : URLs \cup {Blank}]
        /\ promised'.state = promised.state /\ promised'.hidden = promised.hidden
        /\ promised'.url = u
    BY <2>1 DEF TypeOK
  <2>4. pageLeft[t] = u
    BY <2>2 DEF pageLeft
  <2>5. t \notin DOMAIN stateLeft /\ t \in DOMAIN pageLeft /\ t \notin DOMAIN hiddenLeft
    BY <2>2, Domains
  <2> HIDE DEF t
  <2>6. TypeOK'
    BY <1>1, <2>2, <2>3 DEF TypeOK
  <2>7. SinksAgree'
    BY <1>1 DEF SinksAgree
  <2>8. NothingEarly'
    <3>1. ASSUME state = "UNINITIALIZED" PROVE Writes(tasks', stateLeft) = {}
      <4>1. ASSUME NEW i \in Writes(tasks', stateLeft) PROVE i \in Writes(tasks, stateLeft)
        BY <2>2, <2>5, <4>1 DEF Writes
      <4> QED
        BY <3>1, <4>1 DEF NothingEarly
    <3> QED
      BY <1>1, <2>2, <3>1 DEF NothingEarly
  <2>9. LastCommandWins' /\ LastCallWins'
    BY <1>1, <2>2, <2>3, <2>4, <2>5, QueueWriter, QueueOther
       DEF LastCommandWins, LastCallWins, startsAs
  <2> QED
    BY <2>6, <2>7, <2>8, <2>9
<1> QED
  BY <1>2, <1>3

(***************************************************************************)
(* The steps that neither queue nor run a task.                            *)
(***************************************************************************)
LEMMA NextClients ==
    ASSUME IInv, NEW s \in Sinks, Register(s) \/ Unregister(s)
    PROVE  IInv'
<1> USE DEF IInv
<1>1. /\ UNCHANGED <<phase, browserVars, tasks, quit, destroying, requests, promised>>
      /\ Entered' = Entered
  BY DEF Register, Unregister, Entered
<1>2. CASE Register(s)
  BY <1>1, <1>2, SameQueue DEF Register, TypeOK, NothingEarly, SinksAgree, browserVars
<1>3. CASE Unregister(s)
  BY <1>1, <1>3, SameQueue DEF Unregister, TypeOK, NothingEarly, SinksAgree, browserVars
<1> QED
  BY <1>2, <1>3

LEMMA NextPhase ==
    ASSUME IInv, Configure \/ ConfigurationCompleted \/ LoopEnds \/ UNCHANGED vars
    PROVE  IInv'
<1> USE DEF IInv
<1>1. /\ UNCHANGED <<browserVars, tasks, quit, destroying, sinks, heard, requests, promised>>
      /\ Entered' = Entered
      /\ phase' \in {"off", "starting", "configured", "looping", "ended"}
      /\ phase' = "off" => phase = "off"
  BY DEF Configure, ConfigurationCompleted, LoopEnds, vars, browserVars, Entered, TypeOK
<1>2. TypeOK'
  BY <1>1 DEF TypeOK, Entered, browserVars
<1> QED
  BY <1>1, <1>2, SameQueue DEF NothingEarly, SinksAgree, browserVars

LEMMA NextWorkerEnters ==
    ASSUME IInv, WorkerEnters
    PROVE  IInv'
<1> USE DEF IInv
<1> DEFINE new == startsAs(state)
<1>1. /\ ~Entered /\ Entered' /\ phase' = "looping"
      /\ new \in State /\ state' = new
      /\ heard' = [x \in Sinks |-> IF x \in sinks THEN new ELSE heard[x]]
      /\ UNCHANGED <<hidden, url, tasks, quit, destroying, sinks, requests, promised>>
  BY DEF WorkerEnters, OnStateChange, startsAs, State, Entered, TypeOK
<1> HIDE DEF new
<1>2. TypeOK'
  BY <1>1 DEF TypeOK
<1>3. NothingEarly' /\ SinksAgree'
  BY <1>1 DEF NothingEarly, SinksAgree, State, TypeOK
<1>4. LastCommandWins' /\ LastCallWins'
  BY <1>1 DEF LastCommandWins, LastCallWins, new
<1> QED
  BY <1>2, <1>3, <1>4

(***************************************************************************)
(* The destructor queues a task that writes nothing.                       *)
(***************************************************************************)
LEMMA NextDestroy ==
    ASSUME IInv, Destroy
    PROVE  IInv'
<1> USE DEF IInv
<1>1. /\ UNCHANGED <<phase, state, hidden, url, sinks, heard, requests, promised>>
      /\ destroying' \in BOOLEAN /\ quit' \in BOOLEAN /\ Entered' = Entered
      /\ phase # "off"
  BY DEF Destroy, Entered, browserVars, TypeOK
<1>2. CASE UNCHANGED tasks
  BY <1>1, <1>2, SameQueue DEF TypeOK, NothingEarly, SinksAgree, browserVars
<1>3. CASE invoke("quit", NONE)
  <2> DEFINE t == [kind |-> "quit", arg |-> NONE]
  <2>1. /\ tasks' = Append(tasks, t) /\ tasks \in Seq(Task) /\ t \in Task
        /\ t \notin StateTask /\ t \notin HiddenTask /\ t \notin URLTask
    BY <1>3 DEF invoke, StateTask, HiddenTask, URLTask, Task, TypeOK
  <2>2. t \notin DOMAIN stateLeft /\ t \notin DOMAIN pageLeft /\ t \notin DOMAIN hiddenLeft
    BY <2>1, Domains
  <2> HIDE DEF t
  <2>3. TypeOK'
    BY <1>1, <2>1 DEF TypeOK
  <2>4. SinksAgree'
    BY <1>1 DEF SinksAgree
  <2>5. NothingEarly'
    <3>1. ASSUME state = "UNINITIALIZED" PROVE Writes(tasks', stateLeft) = {}
      <4>1. ASSUME NEW i \in Writes(tasks', stateLeft) PROVE i \in Writes(tasks, stateLeft)
        BY <2>1, <2>2, <4>1 DEF Writes
      <4> QED
        BY <3>1, <4>1 DEF NothingEarly
    <3> QED
      BY <1>1, <3>1 DEF NothingEarly
  <2>6. LastCommandWins' /\ LastCallWins'
    BY <1>1, <2>1, <2>2, QueueOther DEF LastCommandWins, LastCallWins, startsAs
  <2> QED
    BY <2>3, <2>4, <2>5, <2>6
<1> QED
  BY <1>2, <1>3 DEF Destroy

(***************************************************************************)
(* A task that runs hands its value from the queue to the browser.         *)
(***************************************************************************)
LEMMA NextRunTask ==
    ASSUME IInv, RunTask
    PROVE  IInv'
<1> USE DEF IInv
<1> DEFINE t == Head(tasks)
<1>1. /\ phase = "looping" /\ Entered /\ Entered' /\ tasks # <<>>
      /\ tasks \in Seq(Task) /\ tasks' = Tail(tasks)
      /\ UNCHANGED <<phase, destroying, sinks, requests, promised>>
  BY DEF RunTask, Entered, TypeOK
<1>2. t \in Task /\ tasks' \in Seq(Task)
  BY <1>1
<1>3. \/ /\ t.kind = "state"
         /\ url' = IF blanks(t.arg) THEN Blank ELSE url
         /\ OnStateChange(state, t.arg)
         /\ UNCHANGED <<hidden, quit>>
      \/ /\ t.kind = "hidden"
         /\ hidden' = t.arg
         /\ UNCHANGED <<state, url, quit, heard>>
      \/ /\ t.kind = "url"
         /\ url' = t.arg
         /\ UNCHANGED <<state, hidden, quit, heard>>
      \/ /\ t.kind = "quit"
         /\ quit' = TRUE
         /\ UNCHANGED <<browserVars, heard>>
  BY DEF RunTask
<1>4. /\ LastWins(tasks, stateLeft, state, promised.state)
      /\ LastWins(tasks, pageLeft, url, promised.url)
      /\ LastWins(tasks, hiddenLeft, hidden, promised.hidden)
      /\ state \in State
  BY <1>1 DEF LastCommandWins, LastCallWins, NothingEarly, TypeOK
<1> HIDE DEF t
<1>5. CASE t.kind = "state"
  <2>1. t \in StateTask /\ t \notin HiddenTask /\ t \notin URLTask /\ t.arg \in State
    BY <1>2, <1>5 DEF Task, StateTask, HiddenTask, URLTask
  <2>2. /\ state' = t.arg /\ UNCHANGED <<hidden, quit>>
        /\ url' = IF blanks(t.arg) THEN Blank ELSE url
        /\ \/ UNCHANGED <<state, heard>>
           \/ heard' = [x \in Sinks |-> IF x \in sinks THEN state' ELSE heard[x]]
    BY <1>3, <1>5 DEF OnStateChange
  <2>3. TypeOK'
    BY <1>1, <1>2, <2>1, <2>2 DEF TypeOK
  <2>4. NothingEarly' /\ SinksAgree'
    BY <1>1, <2>1, <2>2 DEF NothingEarly, SinksAgree, State, TypeOK
  <2>5. LastWins(tasks', stateLeft, state', promised.state)
    <3>1. t \in DOMAIN stateLeft /\ stateLeft[t] = t.arg
      BY <2>1 DEF stateLeft
    <3> QED
      BY <1>1, <1>4, <2>2, <3>1, RunWriter DEF t
  <2>6. LastWins(tasks', hiddenLeft, hidden', promised.hidden)
    BY <1>1, <1>4, <2>1, <2>2, Domains, RunOther DEF t
  <2>7. LastWins(tasks', pageLeft, url', promised.url)
    <3>1. CASE blanks(t.arg)
      <4>1. t \in DOMAIN pageLeft /\ pageLeft[t] = Blank
        BY <1>5, <2>1, <3>1 DEF pageLeft
      <4> QED
        BY <1>1, <1>4, <2>2, <3>1, <4>1, RunWriter DEF t
    <3>2. CASE ~blanks(t.arg)
      <4>1. t \notin DOMAIN pageLeft
        BY <2>1, <3>2, Domains
      <4> QED
        BY <1>1, <1>4, <2>2, <3>2, <4>1, RunOther DEF t
    <3> QED
      BY <3>1, <3>2
  <2> QED
    BY <1>1, <2>3, <2>4, <2>5, <2>6, <2>7 DEF LastCommandWins, LastCallWins
<1>6. CASE t.kind = "hidden"
  <2>1. t \in HiddenTask /\ t \notin StateTask /\ t \notin URLTask /\ t.arg \in Visibility
    BY <1>2, <1>6 DEF Task, StateTask, HiddenTask, URLTask
  <2>2. hidden' = t.arg /\ UNCHANGED <<state, url, quit, heard>>
    BY <1>3, <1>6
  <2>3. TypeOK' /\ NothingEarly' /\ SinksAgree'
    BY <1>1, <1>2, <1>4, <2>1, <2>2 DEF TypeOK, NothingEarly, SinksAgree, State
  <2>4. LastWins(tasks', hiddenLeft, hidden', promised.hidden)
    <3>1. t \in DOMAIN hiddenLeft /\ hiddenLeft[t] = t.arg
      BY <2>1 DEF hiddenLeft
    <3> QED
      BY <1>1, <1>4, <2>2, <3>1, RunWriter DEF t
  <2>5. /\ LastWins(tasks', stateLeft, state', promised.state)
        /\ LastWins(tasks', pageLeft, url', promised.url)
    BY <1>1, <1>4, <2>1, <2>2, Domains, RunOther DEF t
  <2> QED
    BY <1>1, <2>3, <2>4, <2>5 DEF LastCommandWins, LastCallWins
<1>7. CASE t.kind = "url"
  <2>1. t \in URLTask /\ t \notin StateTask /\ t \notin HiddenTask /\ t.arg \in URLs
    BY <1>2, <1>7 DEF Task, StateTask, HiddenTask, URLTask
  <2>2. url' = t.arg /\ UNCHANGED <<state, hidden, quit, heard>>
    BY <1>3, <1>7
  <2>3. TypeOK' /\ NothingEarly' /\ SinksAgree'
    BY <1>1, <1>2, <1>4, <2>1, <2>2 DEF TypeOK, NothingEarly, SinksAgree, State
  <2>4. LastWins(tasks', pageLeft, url', promised.url)
    <3>1. t \in DOMAIN pageLeft /\ pageLeft[t] = t.arg
      BY <1>7, <2>1 DEF pageLeft
    <3> QED
      BY <1>1, <1>4, <2>2, <3>1, RunWriter DEF t
  <2>5. /\ LastWins(tasks', stateLeft, state', promised.state)
        /\ LastWins(tasks', hiddenLeft, hidden', promised.hidden)
    BY <1>1, <1>4, <2>1, <2>2, Domains, RunOther DEF t
  <2> QED
    BY <1>1, <2>3, <2>4, <2>5 DEF LastCommandWins, LastCallWins
<1>8. CASE t.kind = "quit"
  <2>1. t \notin StateTask /\ t \notin HiddenTask /\ t \notin URLTask
    BY <1>8 DEF StateTask, HiddenTask, URLTask
  <2>2. quit' = TRUE /\ UNCHANGED <<state, hidden, url, heard>>
    BY <1>3, <1>8 DEF browserVars
  <2>3. TypeOK' /\ NothingEarly' /\ SinksAgree'
    BY <1>1, <1>2, <1>4, <2>2 DEF TypeOK, NothingEarly, SinksAgree, State
  <2>4. /\ LastWins(tasks', stateLeft, state', promised.state)
        /\ LastWins(tasks', pageLeft, url', promised.url)
        /\ LastWins(tasks', hiddenLeft, hidden', promised.hidden)
    BY <1>1, <1>4, <2>1, <2>2, Domains, RunOther DEF t
  <2> QED
    BY <1>1, <2>3, <2>4 DEF LastCommandWins, LastCallWins
<1> QED
  BY <1>3, <1>5, <1>6, <1>7, <1>8

LEMMA NextIInv ==
    ASSUME IInv, [Next]_vars
    PROVE  IInv'
<1>1. CASE Request
  BY <1>1, NextRequest
<1>2. CASE Hide
  BY <1>2, NextHide
<1>3. CASE URL
  BY <1>3, NextURL
<1>4. ASSUME NEW s \in Sinks, Register(s) \/ Unregister(s)
      PROVE  IInv'
  BY <1>4, NextClients
<1>5. CASE WorkerEnters
  BY <1>5, NextWorkerEnters
<1>6. CASE RunTask
  BY <1>6, NextRunTask
<1>7. CASE Destroy
  BY <1>7, NextDestroy
<1>8. CASE Configure \/ ConfigurationCompleted \/ LoopEnds \/ UNCHANGED vars
  BY <1>8, NextPhase
<1> QED
  BY <1>1, <1>2, <1>3, <1>4, <1>5, <1>6, <1>7, <1>8 DEF Next, WebThread

LEMMA InvariantHolds == Spec => []IInv
<1>1. Init => IInv
  BY InitIInv
<1>2. IInv /\ [Next]_vars => IInv'
  BY NextIInv
<1> QED
  BY <1>1, <1>2, PTL DEF Spec

-----------------------------------------------------------------------------
(* Every variable of the browser keeps its type.                           *)
THEOREM ControlTypeCorrect == Spec => []TypeOK
<1>1. IInv => TypeOK
  BY DEF IInv
<1> QED
  BY <1>1, InvariantHolds, PTL

(* Request accepts commands by the state in force, yet the last one it     *)
(* accepted always wins, before, while and after the web thread starts.    *)
THEOREM LastCommandAccepted == Spec => []LastCommandWins
<1>1. IInv => LastCommandWins
  BY DEF IInv
<1> QED
  BY <1>1, InvariantHolds, PTL

(* The page and the visibility asked for last win, where suspending counts *)
(* as asking for the blank page if so configured.                          *)
THEOREM LastCallAccepted == Spec => []LastCallWins
<1>1. IInv => LastCallWins
  BY DEF IInv
<1> QED
  BY <1>1, InvariantHolds, PTL

(* Hence the last call accepted wins, of whichever kind it is.             *)
THEOREM LastAccepted == Spec => []LastAcceptedWins
<1>1. LastCommandWins /\ LastCallWins => LastAcceptedWins
  BY DEF LastAcceptedWins
<1> QED
  BY <1>1, LastCommandAccepted, LastCallAccepted, PTL

(* What a registered client was last told is the state in force.           *)
THEOREM SinksKnowState == Spec => []SinksAgree
<1>1. IInv => SinksAgree
  BY DEF IInv
<1> QED
  BY <1>1, InvariantHolds, PTL

(* When the web thread enters its first state all registered clients are   *)
(* told, also if that state had been asked for in advance.                 *)
THEOREM EveryStartIsAnnounced == Spec => StartIsAnnounced
<1>1. ASSUME TypeOK, [Next]_vars, phase = "configured", phase' = "looping"
      PROVE  \A s \in sinks : heard'[s] = state'
  <2>1. WorkerEnters
    BY <1>1 DEF Next, WebThread, Request, Hide, URL, Register, Unregister, Configure,
               ConfigurationCompleted, RunTask, LoopEnds, Destroy, vars
  <2>2. /\ state' = startsAs(state)
        /\ heard' = [x \in Sinks |-> IF x \in sinks THEN startsAs(state) ELSE heard[x]]
    BY <2>1 DEF WorkerEnters, OnStateChange, startsAs
  <2> QED
    BY <1>1, <2>2 DEF TypeOK
<1>2. TypeOK /\ [Next]_vars =>
        [phase = "configured" /\ phase' = "looping" => \A s \in sinks : heard'[s] = state']_vars
  BY <1>1
<1>3. Spec => []TypeOK
  BY ControlTypeCorrect
<1> QED
  BY <1>2, <1>3, PTL DEF Spec, StartIsAnnounced
=============================================================================
