----------------------------- MODULE WebSettings -----------------------------
(***************************************************************************)
(* The settings, scripts and bridge of WebKitImplementation, and what the  *)
(* web extension makes of its messages.                                    *)
(*                                                                         *)
(* A client's setter hands a closure to the main context of the web thread *)
(* and returns; the thread runs the closures in their order: each notes    *)
(* the value a getter answers and tells the engine.  What is meant for the *)
(* page travels on, in order, to the web process (external), where the     *)
(* extension keeps the request headers of the page.                        *)
(*                                                                         *)
(* GLib flavour; the destructor is modelled in StateControl, the listeners *)
(* in Listeners.                                                           *)
(***************************************************************************)
EXTENDS Naturals, Sequences, WebEnvironment

CONSTANTS
    Configurations, \* what Configure may find: a line, the variables the line
                    \* lists, the variables the host has set
    MaxCalls        \* bound: calls of clients that reach the web thread

Settings == {"userAgent", "localStorage", "cookiePolicy", "languages"}
ASSUME SettingsAssumption ==
    /\ \A c \in Configurations : c.listed \cup c.host \subseteq Variables
    /\ MaxCalls \in Nat

Option == [userAgent |-> "UserAgent", localStorage |-> "LocalStorageEnabled",
           cookiePolicy |-> "CookieAcceptPolicy", languages |-> "Languages"]

Policies == {"always", "never", "main", "exclusive"}
BuiltIn(s) == IF s = "cookiePolicy" THEN "main" ELSE "builtIn"
Values(s) == IF s = "cookiePolicy" THEN Policies ELSE {"x", BuiltIn(s)}

(* What a client may send as a list of headers: text with headers, an      *)
(* empty list, text that does not parse.                                   *)
HeaderTexts == {"some", "none", "bad"}

VARIABLES
    stage,       \* the web thread: "idle", "preparing", "running"
    configured,  \* the configuration found
    prepared,    \* the environment of WebKit's processes and its storage
    invoked,     \* closures queued on the main context
    calls,       \* calls so far: a call is known by its number
    current,     \* what the getters answer
    engine,      \* what WebKit was told
    asked,       \* history: the last value each setter accepted
    headersAsked,\* history: the last call whose headers text is well formed
    scripts,     \* user scripts in the content manager, by the call that added
    pipe,        \* messages to the web process
    page,        \* the web process: whether it has the page, s_pageHeaders of
                 \* it (and the call that is from), whether it loads a page
    request      \* the last request sent

settingVars == <<current, engine, asked>>
pageVars == <<pipe, page, request>>
settingsVars == <<stage, configured, prepared, invoked, calls, settingVars, headersAsked,
                  scripts, pageVars>>

NoRequest == [floor |-> 0, carried |-> 0, with |-> FALSE]

SettingsInit ==
    /\ stage = "idle"
    /\ configured = [line |-> {}, listed |-> {}, host |-> {}]
    /\ prepared = [env |-> Environment({}, {}, {}), url |-> "plugin", storage |-> Nowhere]
    /\ invoked = <<>> /\ calls = 0
    /\ current = [s \in Settings |-> BuiltIn(s)]
    /\ engine = current /\ asked = current
    /\ headersAsked = 0 /\ scripts = {}
    /\ pipe = <<>>
    /\ page = [created |-> FALSE, from |-> 0, has |-> FALSE, loads |-> FALSE, floor |-> 0]
    /\ request = NoRequest

-----------------------------------------------------------------------------
(* The configuration line; one that does not parse is refused and leaves   *)
(* everything alone.                                                       *)
Configure ==
    /\ stage = "idle"
    /\ stage' = "preparing"
    /\ configured' \in Configurations
    /\ prepared' = [prepared EXCEPT
                     !.env = Environment(configured'.line, configured'.host, configured'.listed),
                     !.url = StartURL(configured'.line, configured'.host)]
    /\ UNCHANGED <<invoked, calls, settingVars, headersAsked, scripts, pageVars>>

Given(s) == IF s = "cookiePolicy" THEN "never" ELSE "configured"

(* IWebBrowser's four policies on WebKit's three.                          *)
translatePolicy(p) == IF p = "exclusive" THEN "main" ELSE p
Translated(s, v) == IF s = "cookiePolicy" THEN translatePolicy(v) ELSE v

(* Settings the line gives; a policy of cookies without a place to keep    *)
(* them is passed over.                                                    *)
Applied ==
    {s \in Settings : Option[s] \in configured.line
                        /\ (s = "cookiePolicy" => PolicyApplies(configured.line))}

(* The line's scripts (call 0), those of them that can be read.            *)
TryLoadingUserScripts ==
    scripts' \in IF "UserScripts" \in configured.line THEN {{}, {0}} ELSE {{}}

(* The thread builds its view from the configuration and loads the start   *)
(* page.  It owns the context already, so that the closure of a configured *)
(* cookie policy runs at once: the getter answers the new policy, but there*)
(* is no view yet to lead to the engine's cookie manager.  Clients call    *)
(* once Configure has returned.                                            *)
Worker ==
    /\ stage = "preparing"
    /\ stage' = "running"
    /\ prepared' = [prepared EXCEPT !.storage = Storage(configured.line, prepared.env)]
    /\ current' = [s \in Settings |-> IF s \in Applied THEN Given(s) ELSE BuiltIn(s)]
    /\ engine' = [s \in Settings |->
                    IF s \in Applied \ {"cookiePolicy"} THEN Given(s) ELSE BuiltIn(s)]
    /\ asked' = current'
    /\ TryLoadingUserScripts
    /\ pipe' = <<[op |-> "load", value |-> "any", call |-> 0, floor |-> 0]>>
    /\ UNCHANGED <<configured, invoked, calls, headersAsked, page, request>>

-----------------------------------------------------------------------------
(* Calls of clients.                                                       *)
Invoke(op, of, value) ==
    /\ stage = "running" /\ calls < MaxCalls
    /\ calls' = calls + 1
    /\ invoked' = Append(invoked, [op |-> op, of |-> of, value |-> value,
                             call |-> calls', floor |-> headersAsked])
    /\ UNCHANGED <<stage, configured, prepared, current, engine, scripts, pageVars>>

Send(s, v) ==
    /\ Invoke("set", s, v)
    /\ asked' = [asked EXCEPT ![s] = Translated(s, v)]
    /\ UNCHANGED headersAsked

(* Faulty form: a value that is already in force is not sent again.        *)
UserAgentWhenNew(v) ==
    IF v = current["userAgent"]
    THEN asked # [asked EXCEPT !["userAgent"] = v]
         /\ asked' = [asked EXCEPT !["userAgent"] = v]
         /\ UNCHANGED <<stage, configured, prepared, invoked, calls, current, engine,
                        headersAsked, scripts, pageVars>>
    ELSE Send("userAgent", v)

UserAgent(v) == Send("userAgent", v)
LocalStorageEnabled(v) == Send("localStorage", v)
HTTPCookieAcceptPolicy(v) == Send("cookiePolicy", v)

(* Languages that do not parse are refused and leave everything alone.     *)
Language(v) == Send("languages", v)

HeaderList(text) ==
    /\ Invoke("headers", "page", text)
    /\ headersAsked' = IF text = "bad" THEN headersAsked ELSE calls'
    /\ UNCHANGED asked

Other(op) == Invoke(op, "page", "any") /\ UNCHANGED <<asked, headersAsked>>

(* Faulty form: the page is asked for past the queue.                      *)
URLPastTheQueue ==
    /\ stage = "running" /\ calls < MaxCalls
    /\ calls' = calls + 1
    /\ pipe' = Append(pipe, [op |-> "load", value |-> "any", call |-> calls',
                             floor |-> headersAsked])
    /\ UNCHANGED <<stage, configured, prepared, invoked, settingVars, headersAsked, scripts,
                   page, request>>

URL == Other("load")
SendToBridge == Other("script")
RunJavaScript == Other("script")
CollectGarbage == Other("collect")
AddUserScript == Other("addScript")
RemoveAllUserScripts == Other("removeScripts")

-----------------------------------------------------------------------------
(* Closures on the web thread.                                             *)
Closure(op) ==
    /\ invoked # <<>> /\ Head(invoked).op = op
    /\ invoked' = Tail(invoked)
    /\ UNCHANGED <<stage, configured, prepared, calls, asked, headersAsked, page, request>>

SetTask ==
    /\ Closure("set")
    /\ LET of == Head(invoked).of
           v == Translated(of, Head(invoked).value)
       IN  current' = [current EXCEPT ![of] = v] /\ engine' = [engine EXCEPT ![of] = v]
    /\ UNCHANGED <<scripts, pipe>>

PageTask(op) ==
    /\ Closure(op)
    /\ pipe' = Append(pipe, [op |-> op, value |-> Head(invoked).value,
                             call |-> Head(invoked).call, floor |-> Head(invoked).floor])
    /\ UNCHANGED <<current, engine, scripts>>

GarbageTask == Closure("collect") /\ UNCHANGED <<current, engine, scripts, pipe>>

AddUserScriptImpl ==
    /\ Closure("addScript")
    /\ scripts' = scripts \cup {Head(invoked).call}
    /\ UNCHANGED <<current, engine, pipe>>

RemoveScriptsTask ==
    /\ Closure("removeScripts")
    /\ scripts' = {}
    /\ UNCHANGED <<current, engine, pipe>>

-----------------------------------------------------------------------------
(* The web process.  Its first message starts it; the extension connects   *)
(* to the signals of the page.                                             *)
ExtensionStarts ==
    /\ stage = "running" /\ ~page.created
    /\ page' = [page EXCEPT !.created = TRUE]
    /\ UNCHANGED <<stage, configured, prepared, invoked, calls, settingVars, headersAsked,
                   scripts, pipe, request>>

Reaches(op) ==
    /\ page.created /\ pipe # <<>> /\ Head(pipe).op = op
    /\ pipe' = Tail(pipe)
    /\ UNCHANGED <<stage, configured, prepared, invoked, calls, settingVars, headersAsked,
                   scripts, request>>

(* Text that does not parse leaves the headers that were; no text or an    *)
(* empty list removes them.                                                *)
SetRequestHeaders ==
    /\ Reaches("headers")
    /\ page' = IF Head(pipe).value = "bad" THEN page
               ELSE [page EXCEPT !.from = Head(pipe).call,
                                 !.has = Head(pipe).value = "some"]

Load ==
    /\ Reaches("load")
    /\ page' = [page EXCEPT !.loads = TRUE, !.floor = Head(pipe).floor]

(* RunJavaScript, and BridgeObject.HandleMessageToPage: script of the page *)
(* runs, whatever document the page shows by then.                         *)
RunsScript == Reaches("script") /\ UNCHANGED page

(* send-request: a request of the load, the first or a later one.          *)
ApplyRequestHeaders ==
    /\ page.loads
    /\ request' = [floor |-> page.floor, carried |-> page.from, with |-> page.has]
    /\ UNCHANGED <<stage, configured, prepared, invoked, calls, settingVars, headersAsked,
                   scripts, pipe, page>>

-----------------------------------------------------------------------------
SettingsNext ==
    \/ Configure \/ Worker
    \/ \E v \in Values("userAgent") : UserAgent(v)
    \/ \E v \in Values("localStorage") : LocalStorageEnabled(v)
    \/ \E v \in Values("cookiePolicy") : HTTPCookieAcceptPolicy(v)
    \/ \E v \in Values("languages") : Language(v)
    \/ \E text \in HeaderTexts : HeaderList(text)
    \/ URL \/ SendToBridge \/ RunJavaScript \/ CollectGarbage
    \/ AddUserScript \/ RemoveAllUserScripts
    \/ SetTask \/ GarbageTask \/ AddUserScriptImpl \/ RemoveScriptsTask
    \/ \E op \in {"headers", "load", "script"} : PageTask(op)
    \/ ExtensionStarts \/ SetRequestHeaders \/ Load \/ RunsScript \/ ApplyRequestHeaders

-----------------------------------------------------------------------------
(* The environment is the line's where the line has the word, the host's   *)
(* where the environment overrides it, and the list's above both; only     *)
(* HOME is always the plugin's.                                            *)
EnvironmentAgrees ==
    \A v \in Variables :
        LET settled == IF v \in configured.listed THEN "listed"
                       ELSE IF v = "HOME" THEN "plugin"
                       ELSE IF v \in configured.host THEN "host" ELSE "unset"
        IN  \/ prepared.env[v] = settled
            \/ /\ prepared.env[v] = "plugin" /\ v \notin configured.listed
               /\ v \in configured.host =>
                     ~EnvironmentOverride(configured.line, configured.host)

(* Once the thread has run what was accepted, every getter answers what    *)
(* its setter was last given and the engine was told the same: a call that *)
(* finds an older value in force, because closures of other clients wait,  *)
(* is no exception.  A policy that comes from the configuration line is:   *)
(* the getter answers it and the engine does not have it (Worker).  What   *)
(* WebKit's processes find in their environment agrees as well.            *)
SettingsAgree ==
    (stage = "running" /\ invoked = <<>>) =>
        /\ EnvironmentAgrees
        /\ \A s \in Settings :
            /\ current[s] = asked[s]
            /\ \/ engine[s] = asked[s]
               \/ s = "cookiePolicy" /\ s \in Applied /\ asked[s] = Given(s)

(* A request carries the headers a client gave before it asked for the     *)
(* page, or later ones, through two queues and the start of the process;   *)
(* text that does not parse takes none of them away.                       *)
RequestsCarryHeaders == request.carried >= request.floor
=============================================================================
