------------------------------ MODULE Launcher ------------------------------
(***************************************************************************)
(* The BrowserLauncher process: BrowserController, WpeWebKitBrowser, the   *)
(* RunLoop tasks they post to the main context, and main's shutdown.       *)
(*                                                                         *)
(* The main thread runs one source at a time: a posted task, a force-close *)
(* timer, a callback of the web engine or a unix signal.  Firebolt calls   *)
(* its subscribers on a thread of its own, and connecting runs on another. *)
(* The page is the state its lifecycle delegate reports: PageLifecycleV1   *)
(* and V2 show that setState ends in the state it was asked for.           *)
(***************************************************************************)
EXTENDS Naturals, Sequences

CONSTANTS
    Batch,            \* what one lifecycle notification may carry: its changes in order
    MaxPublished,     \* bound: Firebolt notifications and (re)connections
    MaxPageEvents     \* bound: closes, crashes and minimize messages of the page

ASSUME BoundsAssumption == MaxPublished \in Nat /\ MaxPageEvents \in Nat

NONE == "none"

LifecycleState ==
    {"INITIALIZING", "ACTIVE", "PAUSED", "SUSPENDED", "HIBERNATED", "TERMINATING"}
PageState == {"INITIALIZING", "ACTIVE", "PASSIVE", "HIDDEN", "FROZEN", "TERMINATED"}
CloseReason == {"DEACTIVATE", "UNLOAD", "ERROR"}

toPageState(state, focused) ==
    CASE state = "ACTIVE" -> IF focused THEN "ACTIVE" ELSE "PASSIVE"
      [] state = "PAUSED" -> "HIDDEN"
      [] state \in {"SUSPENDED", "HIBERNATED"} -> "FROZEN"
      [] state = "TERMINATING" -> "TERMINATED"
      [] OTHER -> "INITIALIZING"

(* The tasks posted to the main context. *)
Launched == [kind |-> "launched"]
Close(reason) == [kind |-> "close", reason |-> reason]
Focus(f) == [kind |-> "focus", focused |-> f]
States(changes_) == [kind |-> "states", changes |-> changes_]

ASSUME BatchAssumption == Batch \subseteq Seq(LifecycleState) \ {<<>>}

Event == {Focus(f) : f \in BOOLEAN} \cup {States(b) : b \in Batch}
Task == {Launched} \cup {Close(r) : r \in CloseReason} \cup Event

VARIABLES
    phase,            \* of main: "starting", "running", "quit", "draining", "exited"
    tasks,            \* the zero delay sources of the main context, oldest first
    changes,          \* what the loop of onLifecycleStateChanged has left to do
    lifecycleState,   \* m_lifecycleState
    isFocused,        \* m_isFocused
    token,            \* m_mainRunLoop->m_token: the controller takes events
    mainView,         \* m_mainView: "none", "hollow" (no engine view) or "open"
    hasFirebolt,      \* is a Firebolt endpoint configured
    page,             \* the state of the page in m_mainView
    viewReady,        \* has the view reported that it is ready
    unloading,        \* m_unloading
    timers,           \* force-close timers that have not fired
    signals,          \* signals delivered; each has a one-shot source
    link,             \* Firebolt connection: "down", "up" or "closed" by Disconnect
    job,              \* m_connectJob: NONE, "connected", "focus" or "done"
    posting,          \* the event (if any) that Firebolt's thread has inside InvokeTask
    last,             \* history: the last state and focus Firebolt delivered
    did,              \* history: what happened that may end the application
    told,             \* history: the close types sent to Firebolt
    published,        \* Firebolt events so far
    pageEvents        \* page events so far

controllerVars == <<changes, lifecycleState, isFocused, token>>
browserVars == <<mainView, page, viewReady, unloading, timers>>
fireboltVars == <<link, job, posting, published>>
historyVars == <<last, did, told>>
vars == <<phase, tasks, controllerVars, browserVars, fireboltVars, historyVars,
          signals, pageEvents, hasFirebolt>>

Init ==
    /\ hasFirebolt \in BOOLEAN
    /\ phase = "starting"
    /\ tasks = <<>>
    /\ changes = <<>>
    /\ lifecycleState = "INITIALIZING"
    /\ isFocused = FALSE
    /\ token = TRUE
    /\ mainView = "none"
    /\ page = "INITIALIZING"
    /\ viewReady = FALSE
    /\ unloading = FALSE
    /\ timers = 0
    /\ signals = {}
    /\ link = "down"
    /\ job = NONE
    /\ posting = <<>>
    /\ last = [state |-> NONE, focused |-> FALSE]
    /\ did = {}
    /\ told = {}
    /\ published = 0
    /\ pageEvents = 0

(* g_application_run may dispatch a source of the engine or a signal. *)
InMainLoop == phase \in {"running", "quit"} /\ changes = <<>>

(* A task or timer may run, in the main loop or in main's drain loop. *)
Dispatching == phase \in {"running", "quit", "draining"} /\ changes = <<>>

post(t) == tasks' = Append(tasks, t)

quit == phase' = IF phase = "running" THEN "quit" ELSE phase

-----------------------------------------------------------------------------
(* WpeWebKitBrowser::launch: createView makes an engine view and asks for  *)
(* HIDDEN, or fails and leaves m_mainView without one.                     *)
launch(success) ==
    IF success THEN mainView' = "open" /\ page' = "HIDDEN"
    ELSE mainView' = "hollow" /\ UNCHANGED page

(* The activate signal: the browser is launched, or the application quits; *)
(* Firebolt, if there is an endpoint, is told to connect.                  *)
Launch ==
    /\ phase = "starting"
    /\ \E success \in BOOLEAN :
         /\ launch(success)
         /\ phase' = IF success THEN "running" ELSE "quit"
         /\ did' = IF success THEN did ELSE did \cup {"failed"}
    /\ UNCHANGED <<tasks, controllerVars, viewReady, unloading, timers, fireboltVars,
                   last, told, signals, pageEvents, hasFirebolt>>

(* The view is ready; onLaunched is signalled on the next cycle. *)
ViewReady ==
    /\ InMainLoop
    /\ mainView = "open"
    /\ ~viewReady
    /\ viewReady' = TRUE
    /\ post(Launched)
    /\ UNCHANGED <<phase, controllerVars, mainView, page, unloading, timers, fireboltVars,
                   historyVars, signals, pageEvents, hasFirebolt>>

(* Faulty form of setState: a page that is asked to close is waited for    *)
(* without a timer.                                                         *)
setStateNoTimer(s) ==
    /\ page' = IF mainView = "open" /\ s # "INITIALIZING" /\ page # "TERMINATED" THEN s ELSE page
    /\ UNCHANGED timers

(***************************************************************************)
(* WpeWebKitBrowser::setState: the view takes the state unless it is in    *)
(* it, or terminated, or the state is INITIALIZING.  Then close asks the   *)
(* page to close and starts the timer that does not wait for its answer.   *)
(***************************************************************************)
setState(s) ==
    /\ page' = IF mainView = "open" /\ s # "INITIALIZING" /\ page # "TERMINATED" THEN s ELSE page
    /\ timers' = IF mainView # "none" /\ s = "TERMINATED" /\ ~unloading THEN timers + 1
                                                                     ELSE timers

(* onBrowserLaunched; loading the package url changes nothing modelled. *)
onBrowserLaunched ==
    /\ Dispatching
    /\ tasks # <<>> /\ Head(tasks) = Launched
    /\ tasks' = Tail(tasks)
    /\ IF hasFirebolt THEN UNCHANGED <<page, timers>> ELSE setState("ACTIVE")
    /\ UNCHANGED <<phase, controllerVars, mainView, viewReady, unloading, fireboltVars,
                   historyVars, signals, pageEvents, hasFirebolt>>

(* Faulty form: the focus is forgotten unless the state is ACTIVE.          *)
onFocusedChangedForgets ==
    /\ Dispatching
    /\ tasks # <<>> /\ Head(tasks).kind = "focus"
    /\ token
    /\ tasks' = Tail(tasks)
    /\ LET focused == Head(tasks).focused
       IN  IF isFocused # focused /\ lifecycleState = "ACTIVE"
           THEN isFocused' = focused /\ setState(IF focused THEN "ACTIVE" ELSE "PASSIVE")
           ELSE UNCHANGED <<isFocused, page, timers>>
    /\ UNCHANGED <<phase, changes, lifecycleState, token, mainView, viewReady, unloading,
                   fireboltVars, historyVars, signals, pageEvents, hasFirebolt>>

onFocusedChanged ==
    /\ Dispatching
    /\ tasks # <<>> /\ Head(tasks).kind = "focus"
    /\ token
    /\ tasks' = Tail(tasks)
    /\ LET focused == Head(tasks).focused
       IN  /\ isFocused' = focused
           /\ IF isFocused # focused /\ lifecycleState = "ACTIVE"
              THEN setState(IF focused THEN "ACTIVE" ELSE "PASSIVE")
              ELSE UNCHANGED <<page, timers>>
    /\ UNCHANGED <<phase, changes, lifecycleState, token, mainView, viewReady, unloading,
                   fireboltVars, historyVars, signals, pageEvents, hasFirebolt>>

(* onLifecycleStateChanged starts its loop over the changes ... *)
onLifecycleStateChanged ==
    /\ Dispatching
    /\ tasks # <<>> /\ Head(tasks).kind = "states"
    /\ token
    /\ tasks' = Tail(tasks)
    /\ changes' = Head(tasks).changes
    /\ UNCHANGED <<phase, lifecycleState, isFocused, token, browserVars, fireboltVars,
                   historyVars, signals, pageEvents, hasFirebolt>>

(* ... and every turn takes one of them. *)
TakeChange ==
    /\ changes # <<>>
    /\ changes' = Tail(changes)
    /\ lifecycleState' = Head(changes)
    /\ setState(toPageState(Head(changes), isFocused))
    /\ UNCHANGED <<phase, tasks, isFocused, token, mainView, viewReady, unloading,
                   fireboltVars, historyVars, signals, pageEvents, hasFirebolt>>

(* A task of a run loop that was disabled is not run. *)
DropTask ==
    /\ Dispatching
    /\ tasks # <<>> /\ Head(tasks).kind \in {"focus", "states"}
    /\ ~token
    /\ tasks' = Tail(tasks)
    /\ UNCHANGED <<phase, controllerVars, browserVars, fireboltVars, historyVars,
                   signals, pageEvents, hasFirebolt>>

(* Faulty form: Firebolt is not told of an unload.                          *)
onBrowserCloseSilent ==
    /\ Dispatching
    /\ tasks # <<>> /\ Head(tasks).kind = "close" /\ Head(tasks).reason # "DEACTIVATE"
    /\ tasks' = Tail(tasks)
    /\ unloading' = TRUE
    /\ token' = FALSE
    /\ link' = "closed"
    /\ quit
    /\ UNCHANGED <<changes, lifecycleState, isFocused, mainView, page, viewReady, timers,
                   job, posting, published, historyVars, signals, pageEvents, hasFirebolt>>

(***************************************************************************)
(* The task of WpeWebKitBrowser::onBrowserClose and the handler of the     *)
(* controller.  Firebolt may refuse any close; only the answer to a        *)
(* deactivate is looked at.                                                *)
(***************************************************************************)
onBrowserClose ==
    /\ Dispatching
    /\ tasks # <<>> /\ Head(tasks).kind = "close"
    /\ tasks' = Tail(tasks)
    /\ LET reason == Head(tasks).reason
       IN  /\ unloading' = (unloading \/ reason # "DEACTIVATE")
           /\ told' = told \cup ({reason} \ {"ERROR"})
           /\ \/ /\ reason = "DEACTIVATE"
                 /\ UNCHANGED <<phase, token, link, did>>
              \/ /\ did' = IF reason = "DEACTIVATE" THEN did \cup {"refused"} ELSE did
                 /\ token' = FALSE
                 /\ link' = "closed"
                 /\ quit
    /\ UNCHANGED <<changes, lifecycleState, isFocused, mainView, page, viewReady, timers,
                   job, posting, published, last, signals, pageEvents, hasFirebolt>>

(* The force-close timer: "timed-out waiting for the web page to close". *)
ForceClose ==
    /\ Dispatching
    /\ timers > 0
    /\ timers' = timers - 1
    /\ post(Close("UNLOAD"))
    /\ UNCHANGED <<phase, controllerVars, mainView, page, viewReady, unloading, fireboltVars,
                   historyVars, signals, pageEvents, hasFirebolt>>

-----------------------------------------------------------------------------
(* The engine: the page closes, the web process ends, or script minimizes. *)
PageEvent(what, reason) ==
    /\ InMainLoop
    /\ mainView = "open"
    /\ pageEvents < MaxPageEvents
    /\ pageEvents' = pageEvents + 1
    /\ did' = did \cup {what}
    /\ post(Close(reason))
    /\ UNCHANGED <<phase, controllerVars, browserVars, fireboltVars, last, told,
                   signals, hasFirebolt>>

closeCallback == PageEvent("closed", "UNLOAD")
webProcessTerminated == PageEvent("crashed", "ERROR")
windowMinimize == PageEvent("minimized", "DEACTIVATE")

(* SIGTERM or SIGINT: BrowserController::close. *)
Signal(s) ==
    /\ InMainLoop
    /\ s \notin signals
    /\ signals' = signals \cup {s}
    /\ did' = did \cup {"signalled"}
    /\ IF lifecycleState # "TERMINATING"
       THEN lifecycleState' = "TERMINATING" /\ setState("TERMINATED")
       ELSE UNCHANGED <<lifecycleState, page, timers>>
    /\ UNCHANGED <<phase, tasks, changes, isFocused, token, mainView, viewReady, unloading,
                   fireboltVars, last, told, pageEvents, hasFirebolt>>

(* g_application_run returns, main disposes of the browser. *)
LoopEnds ==
    /\ phase = "quit" /\ changes = <<>>
    /\ phase' = "draining"
    /\ mainView' = "none"
    /\ UNCHANGED <<tasks, controllerVars, page, viewReady, unloading, timers, fireboltVars,
                   historyVars, signals, pageEvents, hasFirebolt>>

(* At most ten iterations, which the sources of the engine use up as well. *)
DrainEnds ==
    /\ phase = "draining" /\ changes = <<>>
    /\ phase' = "exited"
    /\ UNCHANGED <<tasks, controllerVars, browserVars, fireboltVars, historyVars,
                   signals, pageEvents, hasFirebolt>>

-----------------------------------------------------------------------------
(* Firebolt's thread: the connection comes up; the job is started once. *)
FireboltConnected ==
    /\ hasFirebolt
    /\ mainView = "open"
    /\ link = "down"
    /\ published < MaxPublished
    /\ published' = published + 1
    /\ link' = "up"
    /\ job' = IF job = NONE THEN "connected" ELSE job
    /\ UNCHANGED <<phase, tasks, controllerVars, browserVars, posting, historyVars,
                   signals, pageEvents, hasFirebolt>>

FireboltDisconnected ==
    /\ link = "up"
    /\ link' = "down"
    /\ UNCHANGED <<phase, tasks, controllerVars, browserVars, job, posting, published,
                   historyVars, signals, pageEvents, hasFirebolt>>

(* The job subscribes to focus, then to lifecycle changes. *)
Subscribe ==
    /\ \/ job = "connected" /\ job' = "focus"
       \/ job = "focus" /\ job' = "done"
    /\ UNCHANGED <<phase, tasks, controllerVars, browserVars, link, posting, published,
                   historyVars, signals, pageEvents, hasFirebolt>>

(* Firebolt calls a subscriber, which enters InvokeTask. *)
Publish(e) ==
    /\ link = "up"
    /\ posting = <<>>
    /\ job \in IF e.kind = "focus" THEN {"focus", "done"} ELSE {"done"}
    /\ published < MaxPublished
    /\ published' = published + 1
    /\ posting' = <<e>>
    /\ IF e.kind = "focus"
       THEN last' = [last EXCEPT !.focused = e.focused] /\ did' = did
       ELSE /\ last' = [last EXCEPT !.state = e.changes[Len(e.changes)]]
            /\ did' = IF \E i \in 1..Len(e.changes) : e.changes[i] = "TERMINATING"
                      THEN did \cup {"terminating"} ELSE did
    /\ UNCHANGED <<phase, tasks, controllerVars, browserVars, link, job, told,
                   signals, pageEvents, hasFirebolt>>

(* InvokeTask attaches the task; it gives up if it sees no token. *)
InvokeTask ==
    /\ posting # <<>>
    /\ posting' = <<>>
    /\ \/ post(posting[1])
       \/ ~token /\ UNCHANGED tasks
    /\ UNCHANGED <<phase, controllerVars, browserVars, link, job, published, historyVars,
                   signals, pageEvents, hasFirebolt>>

-----------------------------------------------------------------------------
Turn ==
    \/ onBrowserLaunched
    \/ onFocusedChanged
    \/ onLifecycleStateChanged
    \/ TakeChange
    \/ DropTask
    \/ onBrowserClose

Next ==
    \/ Launch
    \/ ViewReady
    \/ Turn
    \/ ForceClose
    \/ closeCallback
    \/ webProcessTerminated
    \/ windowMinimize
    \/ \E s \in {"SIGTERM", "SIGINT"} : Signal(s)
    \/ LoopEnds
    \/ DrainEnds
    \/ FireboltConnected
    \/ FireboltDisconnected
    \/ Subscribe
    \/ \E e \in Event : Publish(e)
    \/ InvokeTask

(***************************************************************************)
(* The main context dispatches sources that are ready and timers that are  *)
(* due, and the view becomes ready (PageLifecycleV2!Drains).  Nothing is   *)
(* expected of Firebolt, of the page or of whoever sends signals.          *)
(***************************************************************************)
Fairness ==
    /\ WF_vars(Launch)
    /\ WF_vars(ViewReady)
    /\ WF_vars(Turn)
    /\ WF_vars(ForceClose)
    /\ WF_vars(LoopEnds)
    /\ WF_vars(DrainEnds)

Spec == Init /\ [][Next]_vars
FairSpec == Spec /\ Fairness

-----------------------------------------------------------------------------
(* Type invariant. *)
TypeOK ==
    /\ hasFirebolt \in BOOLEAN
    /\ phase \in {"starting", "running", "quit", "draining", "exited"}
    /\ tasks \in Seq(Task)
    /\ changes \in Seq(LifecycleState)
    /\ lifecycleState \in LifecycleState
    /\ isFocused \in BOOLEAN
    /\ token \in BOOLEAN
    /\ mainView \in {"none", "hollow", "open"}
    /\ page \in PageState
    /\ viewReady \in BOOLEAN
    /\ unloading \in BOOLEAN
    /\ timers \in Nat
    /\ signals \subseteq {"SIGTERM", "SIGINT"}
    /\ link \in {"down", "up", "closed"}
    /\ job \in {NONE, "connected", "focus", "done"}
    /\ posting \in {<<>>} \cup {<<e>> : e \in Event}
    /\ last \in [state : LifecycleState \cup {NONE}, focused : BOOLEAN]
    /\ did \subseteq {"failed", "closed", "crashed", "minimized", "signalled",
                      "terminating", "refused"}
    /\ told \subseteq {"DEACTIVATE", "UNLOAD"}
    /\ published \in 0..MaxPublished
    /\ pageEvents \in 0..MaxPageEvents

(***************************************************************************)
(* When every notification was handled, the page is in the state that the  *)
(* last lifecycle state and the last focus call for, in whatever order the *)
(* two arrived (the lifecycle tests read the page after each change).      *)
(***************************************************************************)
EventPending ==
    \/ posting # <<>>
    \/ changes # <<>>
    \/ \E i \in 1..Len(tasks) : tasks[i].kind \in {"focus", "states"}

PageConverges ==
    /\ hasFirebolt /\ token /\ mainView = "open"
    /\ ~EventPending
    /\ page # "TERMINATED"
    /\ last.state # "INITIALIZING"
    => page = IF last.state = NONE THEN "HIDDEN" ELSE toPageState(last.state, last.focused)

(***************************************************************************)
(* The application stops for a cause: it failed to start, was asked to     *)
(* terminate, closed or crashed, or Firebolt refused to deactivate it (in  *)
(* particular Window.minimize keeps the browser running); and Firebolt is  *)
(* told before the launcher disconnects, unless the browser crashed.  It   *)
(* may be told twice: `told` is a set.                                     *)
(***************************************************************************)
StopsInOrder ==
    /\ phase \in {"quit", "draining", "exited"} => did \ {"minimized"} # {}
    /\ link = "closed" => told # {} \/ "crashed" \in did

(***************************************************************************)
(* The launcher exits when it should, also if the page never answers the   *)
(* request to close: on SIGTERM or SIGINT, when Firebolt terminates it,    *)
(* and when the page closes or crashes.                                    *)
(***************************************************************************)
ExitsWhenAsked ==
    /\ (page = "TERMINATED" \/ did \cap {"signalled", "closed", "crashed", "refused"} # {})
         ~> (phase = "exited")
    /\ (phase = "quit") ~> (phase = "exited")
=============================================================================
