--------------------------- MODULE BrowserPlugin ----------------------------
(***************************************************************************)
(* The Thunder plugin WebKitBrowser, which starts WebKitImplementation in  *)
(* a process of its own, and the plugin PerformanceMetrics, which observes *)
(* it.  Thunder (external) activates and deactivates a plugin one call at  *)
(* a time and tells the observers: after Initialize, and before            *)
(* Deinitialize; who registers later is told of an active plugin at once.  *)
(* The process may be lost at any moment; Thunder notices it later.        *)
(*                                                                         *)
(* Initialize and Deinitialize are cut where the process, a client or a    *)
(* worker can come between.  Of a pointer the model keeps whether it is    *)
(* set and whether its reference is still held, of the observer's          *)
(* references their number.                                                *)
(***************************************************************************)
EXTENDS Naturals, FiniteSets

CONSTANT MaxStarts    \* bound: activations of the plugin

ASSUME MaxStartsAssumption == MaxStarts \in Nat

VARIABLES
    state,        \* the plugin as Thunder sees it
    starts,       \* its activations; the number is that of the connection
    pointers,     \* the members of WebKitBrowser that are not null
    owned,        \* the members whose reference the plugin holds: one may be
                  \* released before its pointer is reset
    host,         \* the browser's process: "none", "runs", "lost", "noticed"
    clients,      \* who is registered with the browser, for what
    sinks,        \* who is registered with Thunder
    methods,      \* JSON-RPC interfaces registered by the plugin
    refs,         \* the observer's references to the browser: those it holds,
                  \* and those nobody will release
    deactivations,\* DEACTIVATED jobs in the worker pool, by connection
    handler,      \* PerformanceMetrics::_handler: which one
    observers,    \* the handler's observable for this plugin: "none", "empty"
                  \* (an entry without one) or "observes"
    observed,     \* what the observable and its logger hold
    threw,        \* history: an exception ended an Activated
    crashed       \* Deactivated used an observable that is not there, or
                  \* Process an IStateControl

pluginVars ==
    <<state, starts, pointers, owned, host, clients, sinks, methods, refs, deactivations>>
observerVars == <<handler, observers, observed, threw, crashed>>
shellVars == <<pluginVars, observerVars>>

Own(what) == {<<"plugin", w>> : w \in what}
Metrics(what) == {<<"metrics", w>> : w \in what}

ShellInit ==
    /\ state = "deactivated" /\ starts = 0
    /\ pointers = {} /\ owned = {} /\ host = "none"
    /\ clients = {} /\ sinks = {} /\ methods = {}
    /\ refs = [h \in {"metrics", "lost"} |-> 0]
    /\ deactivations = {}
    /\ handler = "none" /\ observers = "none" /\ observed = {}
    /\ threw = FALSE /\ crashed = FALSE

-----------------------------------------------------------------------------
(* PerformanceMetrics' observable for the browser.  QueryInterface reaches *)
(* the browser through the plugin's aggregates; IStateControl only if the  *)
(* process is there to answer.                                             *)
Answers == host = "runs"
Available == IF Answers THEN {"IWebBrowser", "IStateControl"} ELSE {"IWebBrowser"}
OfBrowser(held) == held \cap {"IWebBrowser", "IStateControl"}

(* The constructors, each after its base class: what the observable holds. *)
BasicObservable == {"service"}
StateObservable(there) == BasicObservable \cup (there \cap {"IStateControl"})
WebBrowserObservable(there) == StateObservable(there) \cup {"IWebBrowser"}

(* SysLogOuput::Enable and Disable: MemoryObserverImpl is no IMemoryExtended. *)
LoggerEnable(held) == held \cup {"logService", "logMemory"}
LoggerDisable(held) == held \ {"logService", "logMemory"}

(* Enable and Disable of the observables: a base class comes first when    *)
(* they listen and last when they let go.                                  *)
BasicEnable(held) == LoggerEnable(held)
StateEnable(held) == [held |-> BasicEnable(held), listens |-> held \cap {"IStateControl"}]
WebBrowserEnable(held) ==
    [StateEnable(held) EXCEPT !.listens = @ \cup {"IWebBrowser"}]

BasicDisable(held) == LoggerDisable(held) \ {"service"}
StateDisable(held) == BasicDisable(held \ {"IStateControl"})
WebBrowserDisable(held) == StateDisable(held \ {"IWebBrowser"})

(* Faulty form: the references CreateObservable took are kept.             *)
CreateObservableKeeps(c, r) ==
    LET enabled == WebBrowserEnable(WebBrowserObservable(Available)) IN
    /\ observers' = "observes" /\ observed' = enabled.held
    /\ clients' = IF Answers THEN c \cup Metrics(enabled.listens) ELSE c
    /\ refs' = [r EXCEPT !["metrics"] = 2 * Cardinality(Available)]
    /\ UNCHANGED threw

(* CreateObservable: the observable registers and holds one reference for  *)
(* every interface, those taken to create it are released.                 *)
CreateObservable(c, r) ==
    LET enabled == WebBrowserEnable(WebBrowserObservable(Available)) IN
    /\ observers' = "observes" /\ observed' = enabled.held
    /\ clients' = IF Answers THEN c \cup Metrics(enabled.listens) ELSE c
    /\ refs' = [r EXCEPT !["metrics"] = Cardinality(OfBrowser(enabled.held))]
    /\ UNCHANGED threw

(* ... or an exception (no memory): the handler disables and drops the     *)
(* observable, but the reference to IStateControl is lost.  Bound: once.   *)
CreateThrows(c, r) ==
    /\ ~threw /\ threw' = TRUE
    /\ observers' = IF handler' = "classname" THEN "empty" ELSE "none"
    /\ clients' = c
    /\ refs' = [r EXCEPT !["lost"] = Cardinality(Available) - 1]
    /\ UNCHANGED observed

CallsignActivated(c, r) == CreateObservable(c, r) \/ CreateThrows(c, r)

NotObserving(c, r) ==
    clients' = c /\ refs' = r /\ UNCHANGED <<observers, observed, threw>>

(* The class name handler ignores a plugin it has an observer for.         *)
ClassnameActivated(c, r) ==
    IF observers = "none" THEN CallsignActivated(c, r) ELSE NotObserving(c, r)

(* PerformanceMetrics::PluginActivated, if it is there.                    *)
HandlerActivated(c, r) ==
    CASE handler' = "callsign" -> CallsignActivated(c, r)
      [] handler' = "classname" -> ClassnameActivated(c, r)
      [] OTHER -> NotObserving(c, r)

(* The observable lets go of everything, and is the last to be released.   *)
DropObservable ==
    /\ observers' = "none" /\ observed' = WebBrowserDisable(observed)
    /\ clients' = clients \ Metrics(OfBrowser(observed))
    /\ refs' = [refs EXCEPT !["metrics"] =
                 @ - Cardinality(OfBrowser(observed) \ WebBrowserDisable(observed))]

(* Deactivated of the two handlers: that for a callsign uses its           *)
(* observable, there or not; that for a class name an entry, if it has     *)
(* one, whether the observable in it is there or not.                      *)
CallsignDeactivated == DropObservable /\ crashed' = (observers # "observes")
ClassnameDeactivated == DropObservable /\ crashed' = (observers = "empty")

HandlerDeactivated ==
    CASE handler = "callsign" -> CallsignDeactivated
      [] handler = "classname" -> ClassnameDeactivated
      [] OTHER -> DropObservable /\ UNCHANGED crashed

-----------------------------------------------------------------------------
(* Thunder activates the plugin: Initialize up to the answer of Root.  The *)
(* sink is registered ahead, since "the remote process might die before".  *)
Activate ==
    /\ state = "deactivated" /\ starts < MaxStarts /\ ~crashed
    /\ state' = "activating" /\ starts' = starts + 1
    /\ sinks' = sinks \cup {"plugin"}
    /\ \/ /\ host' = "runs"
          /\ pointers' = {"service", "browser"} /\ owned' = {"browser"}
       \/ host' = "none" /\ pointers' = {"service"} /\ UNCHANGED owned
    /\ UNCHANGED <<clients, methods, refs, deactivations, observerVars>>

(* Initialize ends with an error, whichever step it failed at: no browser, *)
(* no IStateControl (the process crashed), no IApplication, or Configure.  *)
(* What was acquired by then is released.                                  *)
GivesUp(acquired, released) ==
    /\ pointers' = (pointers \cup acquired) \ (released \cup {"browser", "service"})
    /\ owned' = (owned \cup acquired) \ (released \cup {"browser"})
    /\ state' = "deactivated"
    /\ sinks' = sinks \ {"plugin"}
    /\ UNCHANGED <<clients, methods, refs, observers, observed, threw>>

InitializeFails ==
    /\ \/ GivesUp({}, {})
       \/ /\ "browser" \in pointers /\ Answers
          /\ GivesUp({"application", "memory"}, {"application", "memory"})
    /\ UNCHANGED <<starts, host, deactivations, handler, crashed>>

(* Initialize succeeds, although the process may be lost on the way; the   *)
(* optional interfaces are there if the process is.  Observers are told.   *)
InitializeSucceeds ==
    /\ "browser" \in pointers
    /\ handler' = handler
    /\ \E optional \in IF Answers THEN SUBSET {"cookieJar", "scripting"} ELSE {{}} :
         /\ pointers' = pointers \cup {"application", "memory"} \cup optional
         /\ owned' = owned \cup {"application", "memory"} \cup optional
         /\ methods' = {"own", "JWebBrowser"} \cup optional
         /\ HandlerActivated(
               IF Answers THEN clients \cup Own({"IWebBrowser", "IStateControl"})
                                       \cup Own(optional \cap {"cookieJar"})
               ELSE clients, refs)
    /\ state' = "active"
    /\ UNCHANGED <<starts, host, sinks, deactivations, crashed>>

Initialized ==
    /\ state = "activating" /\ ~crashed
    /\ InitializeFails \/ InitializeSucceeds

-----------------------------------------------------------------------------
(* Thunder deactivates the plugin: observers first.                        *)
Deactivating ==
    /\ state' = "deactivating"
    /\ HandlerDeactivated
    /\ UNCHANGED <<starts, pointers, owned, host, sinks, methods, handler, threw>>

Deactivate ==
    /\ state = "active" /\ ~crashed
    /\ Deactivating
    /\ UNCHANGED deactivations

(* Deinitialize: no notifications of Thunder and of the page any more, and *)
(* the memory observer and IApplication are released, but not reset.       *)
Deinitialize ==
    /\ state = "deactivating" /\ ~crashed
    /\ state' = "releasing"
    /\ sinks' = sinks \ {"plugin"}
    /\ clients' = clients \ Own({"IWebBrowser"})
    /\ owned' = owned \ {"memory", "application"}
    /\ UNCHANGED <<starts, pointers, host, methods, refs, deactivations, observerVars>>

(* ... the methods of IWebBrowser and of the optional interfaces go, each  *)
(* interface after its methods; the jar's pointer is reset last.           *)
UnregisterInterfaces ==
    /\ state = "releasing" /\ ~crashed
    /\ state' = "unregistering"
    /\ clients' = clients \ Own({"cookieJar"})
    /\ methods' = methods \ {"JWebBrowser", "scripting", "cookieJar"}
    /\ owned' = owned \ {"cookieJar", "scripting"}
    /\ pointers' = pointers \ {"scripting"}
    /\ UNCHANGED <<starts, host, sinks, refs, deactivations, observerVars>>

(* ... then the plugin's own; it still hears of states.                    *)
UnregisterAll ==
    /\ state = "unregistering" /\ ~crashed
    /\ state' = "deinitializing"
    /\ methods' = methods \ {"own"}
    /\ pointers' = pointers \ {"cookieJar"}
    /\ UNCHANGED <<starts, owned, host, clients, sinks, refs, deactivations, observerVars>>

(* Faulty form: the notifications of states are forgotten.                 *)
DeinitializedListening ==
    /\ state = "deinitializing" /\ ~crashed
    /\ state' = "deactivated"
    /\ pointers' = {} /\ owned' = owned \ {"browser"}
    /\ UNCHANGED <<starts, clients, host, sinks, methods, refs, deactivations, observerVars>>

(* ... then IStateControl, the browser, which should go with it, and the   *)
(* connection: Terminate ends the process some time after.                 *)
Deinitialized ==
    /\ state = "deinitializing" /\ ~crashed
    /\ state' = "deactivated"
    /\ clients' = clients \ Own({"IStateControl"})
    /\ pointers' = {} /\ owned' = owned \ {"browser"}
    /\ UNCHANGED <<starts, host, sinks, methods, refs, deactivations, observerVars>>

-----------------------------------------------------------------------------
(* The process ends; Thunder notices, and WebKitBrowser::Deactivated asks  *)
(* a worker to deactivate the plugin, if the connection is its own.        *)
Lost ==
    /\ host = "runs" /\ ~crashed
    /\ host' = "lost" /\ clients' = {}
    /\ UNCHANGED <<state, starts, pointers, owned, sinks, methods, refs, deactivations, observerVars>>

(* Faulty form: the sink does not know its connection before Root returns. *)
NoticedTooEarly ==
    /\ host = "lost" /\ ~crashed
    /\ host' = "noticed"
    /\ deactivations' = IF "plugin" \in sinks /\ state # "activating"
               THEN deactivations \cup {starts} ELSE deactivations
    /\ UNCHANGED <<state, starts, pointers, owned, clients, sinks, methods, refs, observerVars>>

Noticed ==
    /\ host = "lost" /\ ~crashed
    /\ host' = "noticed"
    /\ deactivations' = IF "plugin" \in sinks THEN deactivations \cup {starts} ELSE deactivations
    /\ UNCHANGED <<state, starts, pointers, owned, clients, sinks, methods, refs, observerVars>>

(* The job names the service, not the connection.  Thunder refuses it      *)
(* unless the plugin is active, and makes it wait in between.              *)
Job ==
    /\ ~crashed
    /\ state \in {"active", "deactivated"}
    /\ \E j \in deactivations : deactivations' = deactivations \ {j}
    /\ IF state = "active" THEN Deactivating
       ELSE UNCHANGED <<state, starts, pointers, owned, host, clients, sinks, methods, refs,
                        observerVars>>

-----------------------------------------------------------------------------
(* WebKitBrowser::Process: a request of the web interface, GET or POST,    *)
(* asks the browser for IStateControl first, whatever it wants, and uses   *)
(* what it gets ("ASSERT(stateControl != nullptr)").  Of a browser that is *)
(* there the request is made, and the reference taken for it released.     *)
Process ==
    /\ state = "active" /\ ~crashed /\ "browser" \in pointers
    /\ crashed' = ~Answers
    /\ UNCHANGED <<pluginVars, handler, observers, observed, threw>>

(* PerformanceMetrics::Initialize with a callsign or a class name; with    *)
(* both or none it refuses.  Register tells of an active plugin at once.   *)
MetricsStart ==
    /\ handler = "none" /\ ~crashed
    /\ handler' \in {"callsign", "classname"}
    /\ sinks' = sinks \cup {"metrics"}
    /\ IF state = "active" THEN HandlerActivated(clients, refs)
       ELSE UNCHANGED <<observers, observed, clients, refs, threw>>
    /\ UNCHANGED <<state, starts, pointers, owned, host, methods, deactivations, crashed>>

(* PerformanceMetrics::Deinitialize: the handler lets go of what it still  *)
(* observes, and only then ends itself.                                    *)
MetricsStop ==
    /\ handler # "none" /\ ~crashed
    /\ handler' = "none"
    /\ sinks' = sinks \ {"metrics"}
    /\ DropObservable
    /\ UNCHANGED <<state, starts, pointers, owned, host, methods, deactivations, threw, crashed>>

ShellNext ==
    \/ Activate \/ Initialized \/ Deactivate
    \/ Deinitialize \/ UnregisterInterfaces \/ UnregisterAll \/ Deinitialized
    \/ Lost \/ Noticed \/ Job \/ Process
    \/ MetricsStart \/ MetricsStop

-----------------------------------------------------------------------------
(* What a JSON-RPC method uses while it is registered: the plugin's own    *)
(* ("state", "headers", "languages", "cookiejar") the browser,             *)
(* IApplication and, unless its pointer is null, the cookie jar; one of an *)
(* interface that interface.                                               *)
MethodUses(m) ==
    CASE m = "own" -> {"browser", "application"} \cup (pointers \cap {"cookieJar"})
      [] m = "JWebBrowser" -> {"browser"}
      [] OTHER -> {m}

(* What Deinitialize has released while its own methods are registered:    *)
(* "languages" finds IApplication released, and "cookiejar" the jar, until *)
(* UnregisterAll; the pointers of both are not null yet.                   *)
ReleasedEarly ==
    CASE state = "releasing" -> {"application"}
      [] state = "unregistering" -> {"application", "cookieJar"}
      [] OTHER -> {}

(* Whoever is registered with the browser or with Thunder finds the        *)
(* plugin's _service, and an observable its handler.  Whoever calls a      *)
(* method finds what it uses, and holds, not only a pointer that is not    *)
(* null, except for what Deinitialize releases too early.  Who asks for an *)
(* aggregated interface (IApplication, IMemory) does not get one that was  *)
(* released, unless he asks while Deinitialize is under way.               *)
CallbacksFindTheirTarget ==
    /\ clients \cap Own({"IWebBrowser", "IStateControl", "cookieJar"}) # {} \/ "plugin" \in sinks
         => "service" \in pointers
    /\ clients \cap Metrics({"IWebBrowser", "IStateControl"}) # {} => observers = "observes"
    /\ \A m \in methods : MethodUses(m) \ ReleasedEarly \subseteq owned
    /\ state \in {"deactivated", "activating", "active", "deactivating"} =>
         pointers \ {"service"} = owned

(* "It should have been the last reference we are releasing" (assertion in *)
(* Deinitialize): nobody holds the browser when the plugin lets go of it,  *)
(* and a failed Initialize leaves nothing held, as long as no observable's *)
(* creation was interrupted by an exception.  Nor does an observer keep    *)
(* the plugin's service or its memory observer.                            *)
LastReference ==
    ~threw =>
      /\ state \in {"deinitializing", "deactivated"} =>
           observed = {} /\ refs = [metrics |-> 0, lost |-> 0]
      /\ state = "deinitializing" => owned = {"browser"}
      /\ state = "deactivated" => owned = {} /\ pointers = {} /\ "plugin" \notin sinks

(* A plugin whose process is lost does not stay active, whether it is lost *)
(* in the course of Initialize or later (WebKitBrowser::Deactivated).      *)
LossDeactivates ==
    state = "active" /\ host # "runs" ~> state # "active" \/ crashed
=============================================================================
