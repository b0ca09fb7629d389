# A verification project for entservices-runtime

This directory holds TLA+ specifications of the RDK web runtime services in this
repository, the TLC configurations that check them on small instances, and proofs
of the most important results for every instance, checked with TLAPS.

Run things from this directory:

    tlc -config V2Safety.cfg PageLifecycleV2      # model-check one run
    tlapm PageLifecycleV2Proofs.tla               # check the proofs

`PROJECT.json` lists the runs, the hazards of the code the properties are aimed at,
the mutants that show each property can fail, and for every definition the lines of
the source it stands for.

## 1. The system and its parts

| part | state | operations | talks to |
|---|---|---|---|
| **Page lifecycle delegates** `BrowserLauncher/src/wpewebkit/wpewebkitview.cpp` | `m_currState`, the memory saving timer and its counter; V2 also a queue of engine calls, a flag for the call in progress, idle callbacks, an idle source, a life token | `setState`, `changeState`, `show`/`hide`/`focus`/`blur`/`freeze`/`resume`, `tryClose`, `whenIdle`, destruction | WPE WebKit, by calls that act at once (V1) or answer later (V2) |
| **BrowserController** `browsercontroller.cpp` | lifecycle state, focus, run loop token, the connect job | `launch`, `close`, `onBrowserLaunched`, `onFireboltConnected`, `onBrowserClose`, `onLifecycleStateChanged`, `onFocusedChanged`, `onHdrFormatChanged` | Firebolt (subscriptions, `Lifecycle.close`), the browser (signals and calls) |
| **WpeWebKitBrowser** `wpewebkit/wpewebkitbrowser.cpp` | the view, `m_unloading`, the count of unresponsive polls | `launch`, `setState`, `close`, `dispose`, `onBrowserClose`, `onBrowserCrashed`, `checkBrowserResponsiveness` | the view, the kernel (`tgkill`) |
| **RunLoop, main** `runloop.h`, `main.cpp` | a token, the sources of the main context | `InvokeTask`, `Disable`; signal sources, run loop, dispose, drain | all of the above |
| **WpeWebKitView, the rest** | the WebKit view, the cached pid | view creation, load, permission, policy, authentication and message callbacks | WPE WebKit |
| **Launch configuration** `launchconfig.cpp`, `wpewebkit/wpewebkitconfig.cpp`, the beginning of `main.cpp` | options, environment | read the package's `rdk.config`, the environment and the command line; limits, variables, scripts, settings for WebKit | the controller and the view, which read it |
| **Extensions, test runner** `wpewebkit/extensions`, `wpewebkit/testing` | - | forward console messages and `Window.minimize`; test support | the view, by user messages |
| **WebKitBrowser** (Thunder plugin) `WebKitBrowser/WebKitBrowser.cpp` | the service, the connection to the implementation, interfaces of it, sinks, a memory observer with a list of child processes | staged `Initialize` and `Deinitialize`, `Process`, notifications of the connection | Thunder, its worker pool, the implementation, out of process |
| **WebKitImplementation** `WebKitBrowser/WebKitImplementation.cpp` | state, visibility, URL, settings, clients, the web thread and its main context, hang counters | `IStateControl`, `IWebBrowser` and others, load and responsiveness callbacks | plugin notifications, WPE WebKit |
| **CookieJar** `WebKitBrowser/CookieJar.cpp` | the cookies, whether they are fresh (waited for) | `Pack`, `Unpack`, refresh | the web thread |
| **InjectedBundle, Extension** `WebKitBrowser/InjectedBundle`, `WebKitBrowser/Extension` | header tables, script objects | run in the web process | the implementation, by messages |
| **PerformanceMetrics** `PerformanceMetrics/` | observables of browsers with the references they hold, the sample of the last page | `Initialize`, activation handlers, load, URL and idle callbacks | Thunder's plugin notifications, the browser |
| **WebSockets helpers** `helpers/WebSockets/` | a connection, promises of requests, pings and timers, the event loop's thread | connect, close, send, wait, receive, timeouts, destruction | a peer |
| **Front panel** `helpers/frontpanel.cpp` | lights, a pattern that blinks, a timer | lights on and off, `setLED`, `setBlink`, the timer's callback | plugins, the device |
| **Other helpers** `helpers/` | API locks, timers, JSON texts | - | plugins |

### What is hard about it

* The launcher has one main thread, but three more actors reach it: Firebolt's
  notification thread, the job that subscribes, and WebKit. A task posted by one of
  them runs later, when what it was decided on may be gone (the view disposed of, the
  run loop disabled, another state requested).
* The page is changed by asynchronous calls. The delegate reports the state it was
  asked for while the engine is still on its way; requests are served from the state
  reported, not the state reached.
* Shutdown has many triggers (Firebolt, two signals, the page itself, a crash, a timer,
  a refused deactivate) that overlap.
* Two counters, kept in two classes, decide when a silent web process is killed.
* The Thunder browser accepts calls on any thread, by looking at its state, and carries
  them out later on the web thread; before that thread exists it changes the state itself.
  Its main loop is watched from the worker pool, its web process from its main loop.
* Its cookies are a copy of what another process stores: readers, writers, refreshes and
  notifications of change overlap.
* A setting, a header or a page takes several queues before it is where it matters: the main context, the
  connection to the web process, the start of that process. Signals of an older load come when a newer one was asked for.
* The plugin's process may be lost at any point of `Initialize`, of the plugin's life or of `Deinitialize`, and is
  missed later; an observer in the same process holds references of its own.
* The configuration is written in layers (host, defaults, package, command line), of which some replace and some do not.
* Helpers run callbacks on a timer's or an event loop's thread, with few locks.

### What makes each part correct

* *Delegates*: the settled page is in the reported state; the engine is never driven out of
  the page lifecycle; every queued call is made, once and in order; the view is ready
  only when hidden; nothing touches a destroyed delegate; memory saving ends.
* *Controller and shutdown*: the page follows the last state and the last focus; the
  application stops for a cause and does stop when asked; Firebolt is told before it is left.
* *Hang detection*: no kill before the configured time, less the one poll interval that counting polls may lose; a hang that does not end ends the launcher.
* *Launch configuration*: the limits given to WebKit fit into the container's; the package has the last word on the
  environment and the host the one before.
* *WebKitImplementation*: the last accepted call wins, clients know the state in force, the
  destructor returns; a hung main loop is found; a silent process is killed for a cause and does end; the end of the newest load is
  reported, and that of another is taken for it in two cases only (section 6); getters and engine agree; requests carry the headers given before;
  a sink is called only while it is held.
* *Cookie jar*: a reader never gets cookies older than the last change notified; cookies that were set reach the store
  unless a refresh comes in between;
  they survive packing.
* *Thunder plugin and PerformanceMetrics*: callers and callbacks find what they use, but for what is
  released too early (section 6); the plugin's reference is the last; a lost process
  deactivates the plugin; the memory monitor is told of a browser that is not operational for a cause; what is logged for
  a page was sampled for it.
* *WebSockets*: a promise is kept exactly while somebody is to wait for it; a silent peer is left; the destructor
  returns, unless it leaves a connection behind (section 6).
* *Front panel*: a blink that ends on its own leaves the light on its last element.

## 2. Modules

| module | models | composes |
|---|---|---|
| `Page` | what a page promises to the controller: the state wanted, and a document that walks the edges of the lifecycle diagram | - |
| `PageLifecycle` | `setState`, `nextState`, `changeState`, memory saving: what the delegates share | - |
| `PageLifecycleV1` | `WpePageLifecycleV1`, on the flags of the view backend | extends `PageLifecycle`, implements `Page` |
| `PageLifecycleV1Proofs` | theorems about it | extends `PageLifecycleV1` |
| `PageLifecycleV2` | `WpePageLifecycleV2`, its queue, its idle source, and the engine | extends `PageLifecycle`, implements `Page` |
| `PageLifecycleV2Proofs` | theorems about it | extends `PageLifecycleV2` |
| `Launcher` | controller, browser, run loop tasks, Firebolt's threads, `main` | a page that is always in the state it was asked for, which is what the delegates provide |
| `MCLauncher` | the notifications Firebolt may send in TLC's instances | extends `Launcher` |
| `LauncherProofs` | theorems about the launcher | extends `Launcher` |
| `Watchdog` | hang detection of the launcher | - |
| `WatchdogProofs` | theorems about it | extends `Watchdog` |
| `StateControl` | `WebKitImplementation`'s requests and its web thread | - |
| `StateControlProofs` | theorems about it | extends `StateControl` |
| `HangDetector` | `WebKitImplementation`'s hang detection of main loop and web process | - |
| `HangDetectorProofs` | theorems about it | extends `HangDetector` |
| `CookieJar` | the jar, its readers and writers, the web thread and the network process | - |
| `CookiePayload` | the lines of cookies, the size before them, compression, encryption and base64 around them, for any checksum | - |
| `CookieChecksum` | the checksum of the code, bit by bit | - |
| `WebLoad` | load signals of WebKit and what clients are told of them | - |
| `LaunchMetrics` | the load metrics of PerformanceMetrics | extends `WebLoad`: hears what it tells |
| `WebEnvironment` | environment and directories from the configuration line | - |
| `WebSettings` | setters, getters, scripts and headers, the web thread's queue, the web extension | extends `WebEnvironment` |
| `Listeners` | the lists of sinks, walked by the web thread | - |
| `BrowserPlugin` | the plugin's `Initialize`, `Deinitialize`, `Process` and lost connection; PerformanceMetrics' handlers and observables | - |
| `MemoryObserver` | the plugin's memory observer and the processes it looks at | - |
| `Browser` | the component modules from `CookieJar` on, but for the checksum, side by side | extends them |
| `MCBrowser` | the values of its constants for TLC, among them the code's checksum | extends `Browser` and `CookieChecksum` |
| `BrowserProofs` | theorems about the parts of `Browser` and about the whole | extends `Browser` |
| `LaunchConfig` | the launcher from `main` to the view it creates | - |
| `WebSocket` | a client's endpoint, its pings, its requests | - |
| `FrontPanel` | lights and blinking | - |
| `MCLaunching` | one run over `LaunchConfig`, `WebSocket` and `FrontPanel` | extends them |
| `LaunchingProofs` | theorems about these three, and about `MCLaunching` as a whole | extends `MCLaunching` |

`Browser` and `MCLaunching` check components that do not interact in one run each. Their variable `part` is chosen at
the start and says whose steps a behavior has; everybody else's variables stay as they begin. The components keep
variables of their own, so that each of them is checked as it would be alone, and every property of the run speaks of one of them. Components
that do interact are composed in the modules: `LaunchMetrics` takes its input from `WebLoad`'s `told`,
`BrowserPlugin` has both plugins and the process between them, `WebSettings` has the clients, the web thread and the web process.

### Page lifecycle: how state and actions correspond to the code

`currState` is `m_currState`. `target` is the argument of the `setState` on the stack: its
loop is one step (`ChangeState`) per turn, so that invariants are checked between turns,
and every other main-thread action waits until `target = NONE`. One turn is `changeState`
with the hop `nextState` chooses: the memory saving calls it makes, the engine calls
(`callsOf`) and the assignment. `timer` and `iteration` are
`m_memorySavingTimerSource` and `m_memorySavingTimerIteration`; the delay of the timer
(a logarithm of the iteration) is abstracted, it may fire at any time.

V2: `queue` holds the names of the calls in `m_stateChangeQueue`, `inProgress` is
`m_asyncStateChangeInProgress`, `scheduled` is `m_sourceId # 0`, `ready` is the one
callback createView gives to `whenIdle`: not yet given, in `m_idleCallbacks`, or run.
`alive` is `m_token`. `processNextItem` is the idle source: it runs the front item
(`RunFront`), or drops it when the engine refuses the call or the call is `tryClose`
(`DropFront`), or runs the callback. Later the engine performs the call (`EngineWorks`) and its
completion handler runs in the main loop (`CompletionHandler`). `Destroy` is the
destructor of the view; `EngineWorks` and `CompletionHandler` may come after it.

The engine is external. `engine` has three flags, visible, focused and suspended, and each call
changes one of them; that is how `webkit_web_view_*_plc` is used by this code.
Completions come from the main loop, never from within the call, as GLib does it. With
`EngineMayFail` the engine may refuse a call or fail it.

### Launcher

`phase` is where `main` is. `tasks` are the zero-delay sources of the main context in the order
they were attached (GLib dispatches sources of one priority in that order); a task is run or
dropped (its token is gone) when it is at the head. `timers` counts the force-close timers, which
may fire at any time. `changes` is what the `for` loop of `onLifecycleStateChanged` has left. A Firebolt
event is in `posting` between the test of `m_token` in `InvokeTask` and the attachment of the
source, so that `Disable()` may come between; the unsynchronised read may see either
value. `link` and `job` are the Firebolt connection and `m_connectJob`; the subscriptions
become active one at a time. `mainView = "hollow"` is a `WpeWebKitView` whose
`createView` failed. `hasFirebolt` is whether an endpoint is configured.
`last`, `did` and `told` are history, read by properties only.

Callbacks of the engine and signals are dispatched by `g_application_run`; in the ten
iterations after `dispose()` only tasks and timers matter, because there is no view and no
controller pointer. Loading the URL changes no state modelled.

### Watchdog

Time passes in `Tick`s, `TicksPerPoll` of which are the 5 s between two polls: a process may fall silent anywhere between
two polls, and a busy main loop polls up to `MaxDelay` ticks late (`sincePoll`). An exit timer has 10 s, `deadlines` says
what is left of each, and one that is due is dispatched before more time passes. `silence` is history: how long WebKit has been
unresponsive, in ticks, whatever the code has counted. The code counts failed polls, so what it takes for 15 s may be little more than
10 s; `KillsAfterTimeout` allows for that interval and for no more. GLib aligns timers of whole seconds with each other, which
may make a poll that follows a late one up to a quarter of a second early; that is left out. `responsive` is
WebKit's property, whose change is notified at once (`Hangs`, `Recovers`). Processes are
numbered as they start; a new one may replace the old or coexist with it.
`process = 0` and `webProcessPid = 0` stand for "no process" and the initial `-1`.

### StateControl

`phase` follows the web thread through `Worker`: `_context` exists from "starting" on, `Configure`
returns at "configured" (`_configurationCompleted`), the state is entered and the loop runs from
"looping" on. `tasks` are the functions given to `g_main_context_invoke`; the
context belongs to the web thread, so no other thread ever runs one itself. `state`, `hidden` and `url` are
`_state`, `_hidden` and `_URL`. Clients' calls hold `_adminLock`, so each is one step;
`Request` decides by `state`, `Hide` and `URL` always queue. `promised` is history: what the
accepted calls amount to when they are carried out in order. The destructor runs when nobody
holds a reference, hence no registered sink and no call. `url` changes by calls only;
navigation by the page itself is left out. In the build with WebKit's C API the configuration counts
as complete after the state is entered; the build modelled (GLib API) completes it before.

### HangDetector

Time passes in `Tick`s; a tick may not pass a due job, nor a due timer of a loop that
is not blocked. When both are due they fire in either order. `blocked` is a main loop in a
callback, also the start of the web thread before its loop runs. `checking` is
`_webProcessCheckInProgress`; a reply may come at any time while the loop runs. The model ends when the browser is
deactivated (a job given to the worker pool) or exits. With either option 0 nothing is watched, hence the assumptions on
the constants. `sinceCheck`, `badReplies` and the like are history, capped where the properties no longer tell values apart.

### CookieJar, CookiePayload and CookieChecksum

A set of cookies is a number, and `version` counts the writes to the store; `cookies.version` is
which version the jar shows (`Unpacked` for cookies a client has set). Every access to the jar under the lock is one step, and what
is done without it another. A reader that found the jar stale (`Get`) lets go of the lock before it has the web thread
refresh the jar (`AskForRefresh`), waits without it, wakes up (`Refreshed`) and takes it again (`PackRefreshed`). A writer unpacks
under the lock (`Set`) and has the web thread store the jar after it (`AskToStore`); `setters` are the writers in between.
The messages to and from the network process keep their
order; setting the cookies replaces the store and is notified as a change: these two are
assumptions about WebKit. A payload that does not unpack, or a call before the web thread exists, changes nothing.
A call to the getter by a thread that waits would be a second thread: it is another member of `Getters`.

`CookiePayload` grows a list of cookies character by character (`texts`). Cookies with line feeds in them are split and empty ones
are lost on the lines, and nothing else is (`Survive`). `RoundTrip` packs and unpacks the list, with the lines
changed in one character and with the size changed to any other, too. What zlib, the encryption and base64 make of bytes is a
value that only their inverse takes apart; `uncompress` grows its buffer as the code does, and what the lines do not fill of it stays zero. The size is
put together in an `int`, where `data[0] << 24` overflows from 2^31 on: hence the bound in `PayloadAssumption`. The checksum is a
parameter of which `ChecksumAssumption` says what its users may expect, that it tells texts apart that differ in one byte, which a
cyclic redundancy check of 16 bits does for texts of any length; TLC evaluates it for `crc_checksum` of `CookieChecksum`. That does not cover
zeros behind the text: of a text for which the check's register is zero they leave the checksum as it is, so a
payload whose size was changed may, rarely, be unpacked with a cookie of zeros at its end, as `RoundTrip` says.

### WebLoad and LaunchMetrics

A load is its number; `pages` gives its page. `view.newest` is the load the view was asked for last; the web process
takes messages in order (`toProcess`) and answers in order (`wire`). `url`, `status` and `ignoreOnce` are `_URL`, `_httpStatusCode` and
`_ignoreLoadFinishedOnce`. A signal and the notifications it leads to are one step: `told` is what the clients are told in it, and
`LaunchMetrics` folds it into `logger`, which is `WebBrowserObservable` together with `SysLogOuput`. The estimated progress below 1
is "the view's newest load has not finished".

### WebSettings and WebEnvironment

`invoked` is the queue of the main context, with a closure for every accepted call; `pipe` is the queue to the web process, whose
extension may start late (`page`). `current` is what getters answer, `engine` what WebKit was told; `asked` is history. Four
settings stand for all: they are set alike. The environment maps a variable to who wrote it last
(host, line or the line's list of variables); `SetEnvironment` is Thunder's, which replaces an existing value or not.
A cookie policy that comes from the configuration line is answered by the getter and never reaches the engine, because the view it is
passed on to does not exist yet (`Worker`); `SettingsAgree` says so.

### BrowserPlugin and MemoryObserver

`Initialize` is two steps and `Deinitialize` four: what the process, a worker or a client can see in between is
whether the sink is registered and the number of the connection known, and what is still registered and
already released in `Deinitialize`: notifications and the first two references (`Deinitialize`), the methods and references of the optional
interfaces (`UnregisterInterfaces`), the plugin's own methods (`UnregisterAll`), the rest (`Deinitialized`).
`GivesUp` has the early returns of `Initialize` with what each releases. `pointers` are the members that are not
null and `owned` those of them whose reference the plugin still has: the two differ while `Deinitialize` is under way. `methods` are the
JSON-RPC methods registered, each of which may be called at any time and is one step (`MethodUses`); a call in progress while its
method is unregistered is left out. `clients` is who is registered with the browser for what, `refs` who else holds references to it. The handlers of
PerformanceMetrics are told by Thunder in the same step. `threw` and `crashed` mark behaviours after an exception in
`CreateObservable` and after a use of a null interface (`Process`, `Deactivated`), where the code relies on assertions.

In `MemoryObserver` processes are numbers that are not used twice; `childList` is `_children`.

### LaunchConfig

`stage` follows `main`: the command line, `LaunchConfig::create`, `applyCmdLineOptions`, `preLoadWPE`, the browser's instance, the
limits, the environment, the view and its page. Every choice of the system (a file is there, the version of WebKit, the limit of the
container) is made where the code looks. Sizes are in MiB modulo 4096 where the code has 32 bits; `ULong` stands for the width of
`unsigned long`. `env` is who set a variable.

### WebSocket and FrontPanel

`link` has every connection that was asked for, `handler` is `connectionHandler_`: the one that opened last. `Client::connect` may be called
at any time, so that several handshakes may be under way, and `onOpen` forgets a connection that is still open: nobody pings or closes
that one any more, although its pongs have the connection in use pinged and its missing pong has that one closed.
`pingTimers` are the pending timers of `schedule`, which ping whatever is in use by then; the timer for a pong is a connection's own. All of
them belong to the event loop's thread. The callbacks for opening and closing, which a second `connect` replaces, are left out. A thread in `sendRequest` is at one of the points between two acquisitions of the mutex (`caller`); `promises` is
`responseToPromise_`. `aborted` marks a promise that was set twice, which throws out of the event loop.

`FrontPanel` cuts `setBlink` and `onBlinkTimer` into the pieces between which the other may run, as neither takes a lock;
`pending` counts the entries of Thunder's timer, of which a race leaves two.

## 3. Runs

| run | question | instance | bounds |
|---|---|---|---|
| `V1` | does the synchronous delegate walk the lifecycle and settle | 6 requests, 3 memory events, fair | every pair of states is reached with 2 requests; 3 is the default of the option |
| `V2Safety` | does the page follow when requests overtake the engine | engine performs all calls, 4 requests, 2 memory events | 4 requests queue up to 7 calls; every state pair is requested while calls of another are queued |
| `V2Failing` | does the queue survive refused, failed and late answers | engine may fail, 2 requests, fair | failures lose calls, so the queue drains sooner; 2 requests give queues of 5 |
| `LauncherStops` | does the launcher stop for a cause, in order, and when asked | with and without Firebolt, 3 Firebolt events, 1 page event, both signals, fair | two Firebolt events queued or one of them inside `InvokeTask` while the run loop is disabled; each trigger of shutdown alone and with the two signals and the force-close timer |
| `LauncherConverges` | does the page follow state and focus | all six lifecycle states, 4 Firebolt events | connect, then three notifications: state-focus-state and focus-state-focus |
| `Watchdog` | is the watchdog neither hasty nor asleep | 2 processes, 10500 ms, 2 ticks per poll, polls up to 1 tick late, fair | an option that is not a whole number of seconds or intervals, killing at the third poll; WebKit falls silent at a poll, between two polls or just before the next |
| `Control` | do calls from many threads keep their order and take effect, does the destructor return | 1 sink, 2 pages, blank page on suspend, 5 calls, fair | a suspend, a resume and a suspend with calls for a page and a visibility between them |
| `HangDetector` | are the detections neither hasty nor asleep | period 2, threshold 5, fair | limit 2, a threshold that is no multiple of the period (section 6) |
| `HangDetectorRecovery` | has a silent process the time the option promises | period 2, threshold 5 | *violated*: a suspended process is sent SIGFPE at the first silent reply |
| `Browser` | the plugin around its web view, part by part | see below, fair | see below |
| `Launching` | the launcher's configuration, a socket, the front panel | see below, fair | see below |
| `QuotaOption` | is a quota of -1 estimated wherever it is said | as `Launching` | *violated*: not if the command line says it |

Parts of `Browser`:

| part | question | bounds |
|---|---|---|
| load | is nobody told of an end too early, is every end told, is a page logged with its own sample | 3 loads of 2 http pages and a blank one: one in the web process, one on its way, one asked for |
| plugin | do callbacks find their target, is the last reference the last, does a loss deactivate | 3 activations: a job or a loss of the connection before meets the one after |
| memory | is the monitor told for a cause | 3 children of any name: both mandatory ones and a stranger, or one of them replaced |
| settings | do getters, engine and environment agree, do requests carry headers | 3 configurations (default, nearly everything, automation), 3 calls |
| listeners | is a sink called only while held | 2 sinks on 3 lists, one of them on the list of the cookie jar too |
| cookies | are cookies neither lost nor old | 2 readers, 2 writes, 2 reads: both wait for one refresh; a reader asks for a refresh between the two steps of a writer |
| payload | do cookies survive lines and packing, are changes refused or harmless | 5 characters, of two letters and the line feed: three cookies, empty ones and line feeds included; every change of a character, every size up to 10 |

Parts of `Launching`:

| part | question | bounds |
|---|---|---|
| configuration | do the limits add up, has the package the last word | 1 entry of `rdk.config` and any options of the command line among six; a limit below, between and above the shares (99, 151, 4000 MB); WebKit 2.28, which has no limits, and 2.46 |
| socket | do promises match callers, is a silent peer left, does the endpoint end | 2 threads that send the same request, 3 sends: one again after its timeout while the other thread sends it too; 2 connects, in sequence or at once: a reconnection, a connection left behind, two handshakes |
| panel | does the light stay on the last element | patterns of up to 2 elements, blinked up to twice, 3 calls |

Every run says `CHECK_DEADLOCK FALSE`: requests and events are bounded, so the system may
be left with nothing to do, as the real one is when nobody asks for anything.

Bounds (all named): `MaxRequests` counts the calls of the controller, `MaxPublished` Firebolt's
events and connections, `MaxPageEvents` closes, crashes and minimize messages, `MaxProcesses`
the web processes. In `StateControl` `MaxRequests` counts the calls that change something (registrations are
free), in `CookieJar` `MaxWrites` the changes by pages and clients and `MaxGets` the reads; `MaxText`, `MaxLoads`, `MaxCount`
(the counter of loads, at its limit), `MaxStarts`, `MaxCalls`, `MaxSpawned`, `MaxEntries`, `MaxSends`, `MaxConnects`, `MaxPattern`, `MaxBlinks` and
`MaxPanelCalls` are explained where they are declared. `Word` stands for 2^32. Nothing else is cut off.

What the failing runs show: `DidReceiveWebProcessResponsivenessReply` raises the count of silent replies of a suspended
browser to the limit at once and signals the process (`WebKitImplementation.cpp:3375`), while the option that
sets the limit is "The amount of time to give a process to recover before declaring a hang state"
(`WebKitImplementation.cpp:705`). Suspending asks for a check itself, so a process silent for a moment is killed when its browser is suspended.
The estimate that replaces a negative `localStorageQuotaBytes` is made in the constructor of `LaunchConfig` (`launchconfig.cpp:256`);
`main.cpp:239` applies the command line after that, so that a -1 given there reaches `createDataManager` as the unsigned 4294967295
(`wpewebkitview.cpp:709`), while the option is described as "-1 mean estimate from data storage capacity" (`launchconfigoptions.h:46`).

### Fairness

Weak fairness is assumed of the steps that the GLib main loop takes by itself: turns of
a loop in progress, ready sources, due timers, and the end of the loop. This is justified by GLib's
dispatch: among sources of one priority all that are ready are dispatched. Idle sources of the
V2 delegate have a lower priority than timers and completions; a main loop that is never
idle would starve them, so `Drains` supposes the application does not keep its main loop
busy for ever. The engine is assumed to answer, with success or
failure (`EngineWorks`). In the Thunder browser the same holds of the web thread's main loop and of
the worker pool's timed jobs (`StateControl`, `HangDetector`), provided no callback blocks the loop, which is
what `HangDetector` lets happen without any fairness (`Unblock`); a request for the web process's responsiveness
is answered (WebKit does so after a timeout of its own), and so are messages to the network process.

In `Browser` the web process takes and answers its messages and a page it loads ends in some way (`LoadFairness`); Thunder finishes what it began, notices
lost connections and runs the jobs of its worker pool (`ShellFairness`). In `Launching` the event loop runs and its timers expire, a
handshake and a closing one end or time out, and threads in `sendRequest` go on (`SocketFairness`): websocketpp has a timeout for each of these,
and `getAsyncResponse` waits five seconds. Each formula is restricted to its part. Nothing is assumed of
the controller, Firebolt, signals, the page, clients, or a web process that hangs.

## 4. Proofs

`PageLifecycleV2Proofs` proves, for every number of requests and memory events:

* **whatever the engine does**: `TypeCorrect`, `NoWakeupIsLost`, `PopsItsOwnCall`,
  `DeadDelegateSafe`. `NoLostWakeup` is not inductive: that a completion will restart
  the queue needs `OneCallInFlight`, and both need to know what may be going on before createView
  has finished and after destruction (`HandlersSafe`). Their conjunction with `TypeOK` and
  `MemorySavingBounded` is `IInv`. One lemma per action shows `IInv` is preserved.
* **with an engine that performs every call** (`~EngineMayFail`): `PageFollowsDelegate`
  (`PageAgrees`, `EngineLegal`, `ClosesHiddenPage`), `ReadyMeansSettled` and
  `Implementation`. The strengthening is `QueueChained`, part of `EngineInv`: every call leads
  from one page state to another (`PageBefore`, `PageAfter`), the front call fits the page
  in the engine, consecutive calls fit each other, and the last leads to `m_currState`. Appending
  the calls of a hop (`AppendCall`) and taking a performed call off the front (`PopCall`) keep the
  chain. The first two calls, queued by createView against a page in an unknown state, may find
  their work already done. `Implementation` maps `wanted` to the request being served
  and `page` to the engine's flags; an engine call is a step along an edge or a stutter, `setState` a step of
  the controller, everything else a stutter.

The assumption `~EngineMayFail` is needed: the completion handler ignores the result
(wpewebkitview.cpp:489), so a failed call leaves the page where it was while `m_currState` moves on.

`StateControlProofs` proves, for every number of requests, clients and pages: `ControlTypeCorrect`,
`LastCommandAccepted`, `LastCallAccepted`, `SinksKnowState` and `EveryStartIsAnnounced`. The inductive
invariant `IInv` joins the three safety properties with `TypeOK` and `NothingEarly`: no task is queued before there is a
context, and no client has been told anything before the state is entered. `LastWins` is proved to
survive queueing a task that writes a part (`QueueWriter`), queueing one that does not
(`QueueOther`), and running one (`RunWriter`, `RunOther`); each action then is a case of one of them.

`LastAccepted` puts these together: the last accepted call of every kind wins.

`PageLifecycleV1Proofs` proves `DirectTypeCorrect` and `DirectImplementation`, the refinement of `Page` by the direct
delegate, for every number of requests. `FlagsFit` says which flags of the view go with which `m_currState`, `RequestFits`
which states a request on the stack can be in; a hop and its calls (`HopOfTurn`) then are one edge of the diagram.

`LauncherProofs` proves `LauncherTypeCorrect`, `LauncherStopsInOrder` and `PageFollowsFirebolt` for batches of any length and
every number of notifications and page events. For the first, `Caused` carries the cause of a stop through wherever it waits:
a force-close timer, a close task, a batch of states half handled. For the second, `Following` says what the notifications
on their way amount to: of each kind the newest, wherever it is (being posted, queued, in the batch in hand), has the value
Firebolt delivered last, and without one the controller has that value; `PageFits` then compares controller and page.

`WatchdogProofs` proves `WatchdogTypeCorrect` and `NoEarlyKill` (`KillsAfterTimeout`) for every `maxUnresponsiveTimeMs`,
every division of time and every delay of polls: all failed polls but the first have a whole interval of silence before them
(`PollsShowSilence`), and rounding the option down to seconds shortens nothing more, because a number of whole polls is compared
with it (`TooManyPolls`). That first interval is what the theorem gives away.

`HangDetectorProofs` is about every period and threshold. `LoopFits` compares the loop's count with the clocks of the timer, the job
and the block; `RepliesFit` the count of silent replies with those there were. The theorems have hypotheses on
`limit`, which is threshold divided by period (WebKitImplementation.cpp:3339), and each is needed: `CountsStayInRange` and
`KillHasCause` (`KilledForCause`) take `limit >= 1`, since with 0 no reply ever equals the limit and a silent process of a resumed
browser is counted for ever; `HungLoopIsFound` (`HungLoopFound`) takes `limit >= 2`, since with less the loop may be
found hung although it was never blocked. The default options give 6.

`BrowserProofs` has the parts of the browser's side. Each has a specification of its own (`JarSpec`, `SettingsSpec`, ...) without the fairness;
that is what a behavior of `Browser` is for its part, so the results say of every size what the run says of one.

* `SinksAreHeld` (`CalledWhileHeld`): inductive as it stands, because lists change only while none is walked.
* `AnswersAreNewEnough` (`AnswerIsNewEnough`): news for the web thread are in the order of the store's versions (`NewsInOrder`); a fresh jar has all that
  clients were notified of, and so has the jar a getter saw refreshed, whatever became of it since (`AnswersFit`).
  Cookies a client has set (`Unpacked`) count as newer than all versions there were by then (`NewEnough`).
* `SetIsStored` (`SetReachesStore`): `SetFollowed` says where the last set is: with its writer while no
  refresh is under way, or in the jar that the first task stores (`SetWaits`), the last `set` message to the network process (`SetTravels`), or the store, with nothing older
  on its way (`SetStored`).
* `SettingsWillAgree` (`SettingsAgree`): of a setting, the last closure in the queue counts, and without one what is in force is what was asked for last
  (`Counts`). The environment is compared through what each step adds to it. `HeadersGetThere` (`RequestsCarryHeaders`): calls are in order in the
  queue and in the pipe behind it (`CallsInOrder`), and ahead of every load there are headers that are new enough, or the page has them
  (`HeadersAhead`).
* `CallbacksAreSafe` (`CallbacksFindTheirTarget`) and `NothingIsLeftBehind` (`LastReference`): the plugin is down, coming up, up, or in one of the
  three stages of coming down (`PluginFits`: `Releasing`, `Unregistering`, `ComingDown`), and in each of these it is known which pointers and references
  it has, which methods may be called and where it may be registered; the references counted are those of the plugin, of an observer that
  has them (`ObserverFits`) and of one whose creation threw.
* `FinishIsNotEarly` (`NoEarlyFinish`): a load waits for decisions and sends nothing meanwhile (`Asks`, `Waits`, `Uses`), so the end of an http page is sent
  on an empty wire and comes first (`EndComesFirst`). The load the view waits for is on its way to the web process, behind all others, or has started there
  (`Awaited`), the last load that started is that of the web process (`Newest`), and an end is that of the last load that started before it
  (`EndsInOrder`). So an end that is on its way is that of the newest load, or the status that
  would have it reported was reset when another was asked for (`EndFits`), which is what `loadChangedCallback` looks at,
  or it is one of the two the property excepts.
* `MonitorIsToldTheTruth` (`OperationalIsJustified`): an action property of one step, by counting: a list as long as the
  mandatory processes that has each of them has nothing else (`LongListIsComplete`).
* `SamplesFit` (`SampledForItsPage`): after every signal the last sample is of the page the view shows, but for the page the browser begins
  with, of which none is taken (`Sampled`). A signal tells at most two things, in this order (`HearsUrl`, `HearsFinish`, `HearsFailure`),
  and the observable is the fold of what it is told.
* `CookiesSurvive` (`LinesSurvive`): every list of cookies is a last cookie behind the lines of the others. `ReadFits` says what has
  been read of such a text: as long as no cookie is empty or has a line feed, exactly the others and the last; in any case
  all their characters but line feeds, in order. It survives one more character (`CharacterFits`) and the end of the line (`CookieFits`).
* `CookiesUnpacked` (`RoundTrip`), from the assumptions on size and checksum: the four bytes of a size give it back (`SizeArithmetic`), so that zlib is given
  exactly the room it needs for lines that were packed (`Uncompressed`), and with another size room for more, which stays zero (`TextThenZeros`).
  Zeros behind complete lines are a line of their own (`ZerosRead`). That no text is longer than `MaxText` is part of the invariant (`PackedInv`).
* `BrowserIsSafe` puts the parts together: every behavior of `Browser` is one of each part (`PartsMove`), so it has all their safety properties,
  with the exceptions these name (section 6).

`SamplesFit`, `CookiesSurvive` and `CookiesUnpacked` are about folds: `FoldLeft` and `FlattenSeq` of the community modules. Both are defined by the choice of a recursive
function, and that there is one takes induction. The library's induction theorems have an operator as a parameter; `Induction` is its
form for sets, from the library's fact that `<` on the naturals is well-founded, and from it the proofs get the functions (`SomeFolds`, `SomeFlattens`), that
they are unique (`FoldsAlike`, `FlattensAlike`), and what a fold makes of one element more (`FoldedAppend`, `FlattenAppend`), which is all the models need.

`LaunchingProofs` does the same for the three parts of `MCLaunching`.

* `PromisesAreMatched` (`PromisesMatchCallers`), for every number of threads, requests and calls. `Matched` says the property of `Holders`, the threads
  that hold an id; with `CallsType` it is inductive: a thread moves and keeps what it holds, takes a free id, leaves one nobody else holds, asks, or an answer moves an id within the table.
* `LightStaysOnLast` (`StaysOnLast`), for patterns of any length and any number of repetitions: `OneTimer` says that a blink that goes on has either one timer
  or one callback in progress, which knows the index it has shown; `CallsStop` that a call that revokes the blink has taken its flag.
* `LimitsNeverExceed` (`LimitsAddUp`), for every container, version and set of options: of the two differences taken without a sign only the second can wrap, and
  what it wraps to is larger than the container's limit, so the check in `WpeWebKitConfig` finds it (`LimitsFitIn`).
* `PackageComesLast` (`AppHasLastWord`): every step of `setEnvironment` but the last keeps what the host set, except for the paths and the renamed
  variable (`KeepsHost`), and the last sets the package's.
* `LaunchingIsSafe`: every behavior of `MCLaunching` has the four properties.

Only model-checked:

* all liveness properties (`Settles`, `DelegateSettles`, `Drains`, `ExitsWhenAsked`, `HangEnds`, `HungProcessEnds`, `EndIsReported`,
  `LossDeactivates`, `SilentPeerIsLeft`, `DestructorReturns`, `EndpointEnds`): liveness under fairness, and the `ENABLED` in it, are beyond the prover;
* `ChecksumAssumption` of the code's checksum, for texts of 5 characters: it is a matter of exclusive ors, which the provers do not know;
* `GivenTimeToRecover` and `QuotaIsEstimated`, which the code violates.

## 5. Plan

Order of work, most important first:

1. Page lifecycle: `Page`, `PageLifecycle`, `PageLifecycleV1`, `PageLifecycleV2` and the proofs. *Done.*
2. The launcher process: `Launcher`. *Done, without HDR.* Hang detection: `Watchdog`. *Done.*
3. WebKitImplementation: requests against the web thread (`StateControl` and its proofs), both hang
   detections (`HangDetector`), loads (`WebLoad`), settings and environment, listeners. *Done.*
4. The plugin (`BrowserPlugin`, `MemoryObserver`) with its observers, and load metrics (`LaunchMetrics`). *Done.*
5. The cookie jar: `CookieJar`, and what cookies travel in: `CookiePayload`, `CookieChecksum`. *Done.*
6. The launcher's configuration (`LaunchConfig`), WebSockets (`WebSocket`), the front panel (`FrontPanel`). *Done.*
7. Proofs for every component: the refinement of V1, the launcher, both hang detections, the browser's parts and the
   launching parts. *Done*: every safety property the passing runs check is a theorem.
   *Left*: type invariants of the parts proved in `BrowserProofs` and `LaunchingProofs` as results of their own.

## 6. Not modelled

* The flavour of `WebKitImplementation` on WebKit's C API, with the injected bundle: the same handlers on another API; the
  models follow the GLib flavour (`WEBKIT_GLIB_API`).
* Of `WebKitImplementation`: the automation session, certificates, user media and the JSON-RPC methods that pass one call on.
* Of the launcher: the permission, authentication and policy callbacks (one call, one answer), the HDR format (the answer to
  `hdr()` is queued after a change that was notified before it, which this code can do nothing about), web extensions, the test runner.
* Of PerformanceMetrics: the figures in a sample, and `TraceOutput`, which writes the same to another place.
* Of the helpers: `CommandInterface`, which takes whatever message comes last for the answer, so that there is no promise to
  state; the server role and encryption of a socket; `tptimer.h`, `UtilsSynchro.hpp`, string, file and validation helpers.
* The build and the tests, which were read for what they expect.

Behaviours the properties name by their conditions rather than forbid:

* Hang detection: a process may be signalled up to one poll interval before it was silent for `maxUnresponsiveTimeMs`, with 10500 ms
  after little more than 10 s, because failed polls are counted (`KillsAfterTimeout`).
* Loads: the end of `about:blank` or of a file, which has no response, and that of a load that failed, are taken for the end of the
  http page asked for after them, if the late response to an http page before was decided on in between: clients hear
  `LoadFinished` of a page that has not started (`NoEarlyFinish`, WebKitImplementation.cpp:2607).
* The plugin: `Deinitialize` releases `IApplication` (WebKitBrowser.cpp:147) and the cookie jar (157) while the methods `languages` and
  `cookiejar` that use them are registered until 160, and the pointers to `IApplication` and `IMemory`, which the plugin aggregates,
  stay until 192; a caller in between uses what the plugin no longer holds (`CallbacksFindTheirTarget`, `ReleasedEarly`).
* The cookie jar: cookies set while a refresh is under way, or while a reader queues one between the writer's `Unpack` and its queueing
  of the store, may be overwritten by the refresh before they are stored (`SetReachesStore`, `raced`).
* WebSockets: the destructor may wait for ever when a handshake is under way or when a `connect` has left an open connection behind
  (`EndpointEnds`, `LeftBehind`); a second answer to a request ends the process (`PromisesMatchCallers`, `aborted`).
* With a threshold of less than two periods a healthy main loop is taken for a hung one (`limit` below 2: at 1 when timer and job are due
  at the same moment, at 0 by the first job; the default options, 10 s and 60 s, give 6).
* An exception while an observable is created leaves a reference held (`LastReference`, `threw`).
* A list of children that is long enough is never read again, and one with two processes of one mandatory name has no place for the
  other: the monitor is told of a browser that is not operational in both cases (`OperationalIsJustified`).

What the properties do not reach: an `Unregister` from within a callback of the same sink, which the recursive lock admits
(`CalledWhileHeld` is about other threads); an observable that is registered after the first load, and pages of one host, which the
metrics do not tell apart (`SampledForItsPage`); two plugin calls of the front panel at once (`StaysOnLast` has one at a time, besides
the timer's thread); and that the controller may close towards Firebolt twice (browsercontroller.cpp, when the page answers while the
force-close timer is pending), which changes nothing the model has.
