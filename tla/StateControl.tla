---------------------------- MODULE StateControl ----------------------------
(***************************************************************************)
(* WebKitImplementation as a browser that is told what to do by many: any  *)
(* thread may suspend, resume, hide, show and navigate it, and one web     *)
(* thread does the work.  Requests are accepted on the caller's thread, by *)
(* looking at state, and handed to the web thread's main context, which   *)
(* changes state later.  Until the web thread is up, requests set state  *)
(* directly; the web thread then starts from what it finds.                *)
(***************************************************************************)
EXTENDS Naturals, Sequences

CONSTANTS
    Sinks,                            \* clients that listen to state changes
    URLs,                             \* the pages that may be asked for
    Blank,                            \* about:blank
    LoadBlankPageOnSuspendEnabled,    \* configuration option
    MaxRequests                       \* bound: calls of the clients

ASSUME BlankAssumption == LoadBlankPageOnSuspendEnabled \in BOOLEAN
ASSUME MaxRequestsAssumption == MaxRequests \in Nat

State == {"SUSPENDED", "RESUMED"}
Visibility == {"HIDDEN", "VISIBLE"}
NONE == "none"

VARIABLES
    phase,       \* the web thread: "off", "starting", "configured", "looping", "ended"
    state,       \* _state
    hidden,      \* _hidden
    url,         \* _URL
    tasks,       \* functions queued on _context
    quit,        \* g_main_loop_quit has been called on the running loop
    destroying,  \* the destructor has been entered: nobody has a reference
    sinks,       \* stateControlClients
    heard,       \* the last state each sink was told
    requests,    \* calls made
    promised     \* history: what the calls accepted so far amount to

browserVars == <<state, hidden, url>>
vars == <<phase, browserVars, tasks, quit, destroying, sinks, heard, requests, promised>>

StateTask == [kind : {"state"}, arg : State]
HiddenTask == [kind : {"hidden"}, arg : Visibility]
URLTask == [kind : {"url"}, arg : URLs]
Task == StateTask \cup HiddenTask \cup URLTask \cup [kind : {"quit"}, arg : {NONE}]

Init ==
    /\ phase = "off"
    /\ state = "UNINITIALIZED"
    /\ hidden = "VISIBLE"
    /\ url \in URLs
    /\ tasks = <<>>
    /\ quit = FALSE /\ destroying = FALSE
    /\ sinks = {} /\ heard = [s \in Sinks |-> NONE]
    /\ requests = 0
    /\ promised = [state |-> "SUSPENDED", hidden |-> "VISIBLE", url |-> url]

-----------------------------------------------------------------------------
(* A client's thread makes a call; it holds a reference meanwhile.         *)
Call ==
    /\ ~destroying
    /\ requests < MaxRequests
    /\ requests' = requests + 1

HasContext == phase # "off"

(* Faulty forms: the newest function runs first; a function of a kind that *)
(* is queued already is left out.                                          *)
invokeAtFront(k, a) == tasks' = <<[kind |-> k, arg |-> a]>> \o tasks

invokeOnce(k, a) ==
    tasks' = IF \E i \in DOMAIN tasks : tasks[i].kind = k
             THEN tasks ELSE Append(tasks, [kind |-> k, arg |-> a])

(* g_main_context_invoke from a thread that does not own the context.      *)
invoke(k, a) == tasks' = Append(tasks, [kind |-> k, arg |-> a])

(* Suspending replaces the page with the blank one if so configured.       *)
blanks(s) == s = "SUSPENDED" /\ LoadBlankPageOnSuspendEnabled

(* Faulty form: the state changes as soon as it is requested.              *)
enterAtOnce(s) ==
    IF HasContext
    THEN /\ invoke("state", s)
         /\ state' = s
         /\ promised' = [promised EXCEPT !.state = s, !.url = IF blanks(s) THEN Blank ELSE @]
    ELSE /\ state' = s
         /\ promised' = [promised EXCEPT !.state = s]
         /\ UNCHANGED tasks

(* Suspend() and Resume().                                                 *)
enter(s) ==
    IF HasContext
    THEN /\ invoke("state", s)
         /\ promised' = [promised EXCEPT !.state = s, !.url = IF blanks(s) THEN Blank ELSE @]
         /\ UNCHANGED state
    ELSE /\ state' = s
         /\ promised' = [promised EXCEPT !.state = s]
         /\ UNCHANGED tasks

Refuse == UNCHANGED <<state, tasks, promised>>

(* Request: before the browser is operational any command is taken, later  *)
(* only the one that changes the state in force.                           *)
Request ==
    /\ Call
    /\ \E s \in State :
         \/ /\ state = "UNINITIALIZED"
            /\ state' = s
            /\ promised' = [promised EXCEPT !.state = s]
            /\ UNCHANGED tasks
         \/ /\ state \in State \ {s}
            /\ enter(s)
         \/ /\ state = s
            /\ Refuse
    /\ UNCHANGED <<phase, hidden, url, quit, destroying, sinks, heard>>

(* Hide, Show and URL are taken at any time, and lost before the web       *)
(* thread has made its context.                                            *)
Hide ==
    /\ Call
    /\ \E v \in Visibility :
         IF HasContext
         THEN invoke("hidden", v) /\ promised' = [promised EXCEPT !.hidden = v]
         ELSE UNCHANGED <<tasks, promised>>
    /\ UNCHANGED <<phase, browserVars, quit, destroying, sinks, heard>>

URL ==
    /\ Call
    /\ \E u \in URLs :
         IF HasContext
         THEN invoke("url", u) /\ promised' = [promised EXCEPT !.url = u]
         ELSE UNCHANGED <<tasks, promised>>
    /\ UNCHANGED <<phase, browserVars, quit, destroying, sinks, heard>>

Register(s) ==
    /\ ~destroying
    /\ s \notin sinks
    /\ sinks' = sinks \cup {s}
    /\ UNCHANGED <<phase, browserVars, tasks, quit, destroying, heard, requests, promised>>

Unregister(s) ==
    /\ s \in sinks
    /\ sinks' = sinks \ {s}
    /\ heard' = [heard EXCEPT ![s] = NONE]
    /\ UNCHANGED <<phase, browserVars, tasks, quit, destroying, requests, promised>>

-----------------------------------------------------------------------------
(* Configure starts the web thread and waits until it has made its view.   *)
Configure ==
    /\ phase = "off" /\ ~destroying
    /\ phase' = "starting"
    /\ UNCHANGED <<browserVars, tasks, quit, destroying, sinks, heard, requests, promised>>

ConfigurationCompleted ==
    /\ phase = "starting"
    /\ phase' = "configured"
    /\ UNCHANGED <<browserVars, tasks, quit, destroying, sinks, heard, requests, promised>>

OnStateChange(old, s) ==
    IF old # s
    THEN /\ state' = s
         /\ heard' = [x \in Sinks |-> IF x \in sinks THEN s ELSE heard[x]]
    ELSE UNCHANGED <<state, heard>>

(* What the browser becomes when its loop starts.                          *)
startsAs(s) == IF s \in {"SUSPENDED", "UNINITIALIZED"} THEN "SUSPENDED" ELSE "RESUMED"

(* Worker after the configuration: it loads the page, resets state and    *)
(* enters the state asked for, which tells the sinks, then runs its loop.  *)
WorkerEnters ==
    /\ phase = "configured"
    /\ phase' = "looping"
    /\ OnStateChange("UNINITIALIZED", startsAs(state))
    /\ UNCHANGED <<hidden, url, tasks, quit, destroying, sinks, requests, promised>>

(* A function queued on the context.                                       *)
RunTask ==
    /\ phase = "looping" /\ tasks # <<>>
    /\ tasks' = Tail(tasks)
    /\ LET t == Head(tasks) IN
         \/ /\ t.kind = "state"
            /\ url' = IF blanks(t.arg) THEN Blank ELSE url
            /\ OnStateChange(state, t.arg)
            /\ UNCHANGED <<hidden, quit>>
         \/ /\ t.kind = "hidden"
            /\ hidden' = t.arg
            /\ UNCHANGED <<state, url, quit, heard>>
         \/ /\ t.kind = "url"
            /\ url' = t.arg
            /\ UNCHANGED <<state, hidden, quit, heard>>
         \/ /\ t.kind = "quit"
            /\ quit' = TRUE
            /\ UNCHANGED <<browserVars, heard>>
    /\ UNCHANGED <<phase, destroying, sinks, requests, promised>>

LoopEnds ==
    /\ phase = "looping" /\ quit
    /\ phase' = "ended"
    /\ UNCHANGED <<browserVars, tasks, quit, destroying, sinks, heard, requests, promised>>

(* Faulty form: a loop that does not run yet is not asked to quit.         *)
DestroyOnlyRunning ==
    /\ ~destroying /\ sinks = {}
    /\ phase \in {"configured", "looping"}
    /\ destroying' = TRUE
    /\ quit' = (phase = "looping")
    /\ UNCHANGED <<phase, browserVars, tasks, sinks, heard, requests, promised>>

(* The destructor.  g_main_loop_quit has no effect on a loop that is about *)
(* to run: for that case it is queued as well.                             *)
Destroy ==
    /\ ~destroying /\ sinks = {}
    /\ phase \in {"configured", "looping"}
    /\ destroying' = TRUE
    /\ \/ phase = "looping" /\ quit' = TRUE /\ UNCHANGED tasks
       \/ phase = "configured" /\ invoke("quit", NONE) /\ UNCHANGED quit
    /\ UNCHANGED <<phase, browserVars, sinks, heard, requests, promised>>

-----------------------------------------------------------------------------
WebThread == ConfigurationCompleted \/ WorkerEnters \/ RunTask \/ LoopEnds

Next ==
    \/ Request \/ Hide \/ URL
    \/ \E s \in Sinks : Register(s) \/ Unregister(s)
    \/ Configure
    \/ WebThread
    \/ Destroy

Spec == Init /\ [][Next]_vars

FairSpec == Spec /\ WF_vars(ConfigurationCompleted) /\ WF_vars(WorkerEnters)
                 /\ WF_vars(RunTask) /\ WF_vars(LoopEnds)

-----------------------------------------------------------------------------
(* The variables hold what the code declares for them, and a browser whose *)
(* loop runs is suspended or resumed.                                      *)
TypeOK ==
    /\ phase \in {"off", "starting", "configured", "looping", "ended"}
    /\ state \in State \cup {"UNINITIALIZED"}
    /\ phase \in {"looping", "ended"} => state \in State
    /\ hidden \in Visibility
    /\ url \in URLs \cup {Blank}
    /\ tasks \in Seq(Task)
    /\ quit \in BOOLEAN /\ destroying \in BOOLEAN
    /\ sinks \subseteq Sinks
    /\ heard \in [Sinks -> State \cup {NONE}]
    /\ requests \in 0..MaxRequests
    /\ promised \in [state : State, hidden : Visibility, url : URLs \cup {Blank}]

Entered == phase \in {"looping", "ended"}

(* What each task leaves of a part of the browser: its state, visibility   *)
(* and page.                                                               *)
stateLeft == [t \in StateTask |-> t.arg]
hiddenLeft == [t \in HiddenTask |-> t.arg]
pageLeft == [t \in URLTask \cup {u \in StateTask : blanks(u.arg)} |->
                IF t.kind = "url" THEN t.arg ELSE Blank]

(* The last task of the queue that changes a part leaves it as wanted; if  *)
(* there is none, it is so already.                                        *)
Writes(q, left) == {i \in DOMAIN q : q[i] \in DOMAIN left}

LastWins(q, left, value, wanted) ==
    /\ \A i \in Writes(q, left) :
          (\A j \in Writes(q, left) : j <= i) => left[q[i]] = wanted
    /\ Writes(q, left) = {} => value = wanted

(* The last accepted command wins, although commands are accepted by the   *)
(* state in force and not by the state that those already queued will      *)
(* lead to, and although the first ones may have bypassed the queue        *)
(* (WebKitImplementation::Request, Worker).                                *)
LastCommandWins ==
    LastWins(tasks, stateLeft, IF Entered THEN state ELSE startsAs(state), promised.state)

(* So do the last page asked for, which suspending may blank, and the last *)
(* visibility (WebKitImplementation::URL, Hide and Suspend).               *)
LastCallWins ==
    /\ LastWins(tasks, pageLeft, url, promised.url)
    /\ LastWins(tasks, hiddenLeft, hidden, promised.hidden)

(* Whatever was accepted last, of each kind, is what the browser becomes.  *)
LastAcceptedWins == LastCommandWins /\ LastCallWins

(* A sink that was told anything was last told the state in force, whether *)
(* the state was requested before the web thread ran, while it started or  *)
(* later (OnStateChange).                                                  *)
SinksAgree == \A s \in sinks : heard[s] \in {NONE, state}

(* Every sink registered when the browser becomes operational hears of     *)
(* it, also of a state that was asked for in advance (Worker).             *)
StartIsAnnounced ==
    [][phase = "configured" /\ phase' = "looping" =>
           \A s \in sinks : heard'[s] = state']_vars

(* Once requests cease the browser becomes what was promised and stays it, *)
(* unless it is destroyed or was never configured.                         *)
Settles ==
    <>[](\/ phase = "off"
         \/ destroying
         \/ /\ state = promised.state
            /\ hidden = promised.hidden
            /\ url = promised.url)

(* The destructor, which waits for the web thread, sees it end even if it  *)
(* is called before the loop of the web thread runs.                       *)
DestructorReturns == destroying ~> phase = "ended"
=============================================================================
