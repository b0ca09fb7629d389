---------------------------- MODULE LaunchConfig ----------------------------
(***************************************************************************)
(* How the launcher is configured before a page is loaded: the options of  *)
(* the package's rdk.config and of the command line, what LaunchConfig     *)
(* deduces from them and from the system, and what WpeWebKitConfig and     *)
(* WpeWebKitView::createView make of it: memory limits, the environment of *)
(* WebKit's processes, extensions, settings, storage quotas, and what is   *)
(* done about a page that cannot be loaded.                                *)
(*                                                                         *)
(* One program runs through the stages; what it reads of the system is     *)
(* chosen as it reads it.  Of an environment variable the model keeps who  *)
(* set it, of a file whether it is there, of the boolean options which are *)
(* on.  Sizes are in MiB, quotas in KiB.                                   *)
(***************************************************************************)
EXTENDS Integers, Sequences, FiniteSets, SequencesExt

CONSTANTS
    Entries,       \* what rdk.config and the command line may say: key and text
    MaxEntries,    \* bound: entries of rdk.config
    Languages,     \* values of LANG
    Limits,        \* memory limits of the container
    Homes,         \* capacities of the home directory
    Versions       \* versions of WebKit, times 100

ASSUME BoundsAssumption ==
    /\ MaxEntries \in Nat
    /\ Limits \subseteq Nat /\ Homes \subseteq Nat /\ Versions \subseteq Nat

VARIABLES
    stage,      \* how far the program is
    asked,      \* the options of the command line
    options,    \* the members of LaunchConfig
    system,     \* what was read of the container: its limit
    env,        \* who set a variable; "unset"
    view        \* what the view was created with, and what became of its page

configVars == <<stage, asked, options, system, env, view>>

-----------------------------------------------------------------------------
(* launchconfigoptions.h.                                                  *)
InitiallyOn ==
    {"allowMixedContent", "allowFileURLsCrossAccess", "enableConsoleLog", "enableLocalStorage",
     "enableGpuMemLimiting", "enableLifecycle2", "memoryMonitorUseContainerMode",
     "opportunisticSweepingAndGC"}
InitiallyOff ==
    {"enableNonCompositedWebGL", "enableMediaStream", "enableWebAudio", "disableWebSecurity",
     "enableSpatialNavigation", "isHeadless", "enableTesting", "enableServiceWorker",
     "enableIndexedDB"}
Numbers == {"localStorageQuotaBytes", "indexedDBStorageQuotaRatio"}

Defaults ==
    [on |-> InitiallyOn, loadFailurePolicy |-> "terminate", browserExtensions |-> {},
     userScripts |-> {}, userStyleSheets |-> {}, loadFailureErrorPage |-> {},
     localStorageQuotaBytes |-> -1, indexedDBStorageQuotaRatio |-> -1,
     userAgent |-> "existing", cookies |-> "no-third-party",
     totalDiskSpace |-> 0, envs |-> {}, navigatorLanguage |-> "", locale |-> {}]

strtol(text) == CASE text = "-1" -> -1 [] text = "50" -> 50 [] text = "200" -> 200 [] OTHER -> 0

(* HANDLE_RDK_CONFIG_OPTION and processOption: of a path the package must  *)
(* have the file, an unknown policy is "terminate", an unknown key nothing.*)
Handle(o, entry) ==
    LET key == entry.key  text == entry.text IN
    CASE key \in InitiallyOn \cup InitiallyOff ->
           [o EXCEPT !.on = IF text \in {"", "false", "0"} THEN @ \ {key} ELSE @ \cup {key}]
      [] key \in Numbers -> [o EXCEPT ![key] = strtol(text)]
      [] key = "loadFailurePolicy" ->
           [o EXCEPT ![key] = IF text \in {"display", "ignore"} THEN text ELSE "terminate"]
      [] key \in {"browserExtensions", "userScripts", "userStyleSheets", "loadFailureErrorPage"} ->
           [o EXCEPT ![key] = {text} \ {"", "missing"}]
      [] key = "customUserAgent" -> [o EXCEPT !.userAgent = text]
      [] key = "cookieAcceptPolicy" -> [o EXCEPT !.cookies = text]
      [] OTHER -> o

Texts == {entry.text : entry \in Entries}

(* main: options of the command line, one value a key (parseRDKConfigOption). *)
ConfigInit ==
    /\ stage = "parsed"
    /\ \E entry \in Entries : asked \in {<<>>, <<entry>>}
    /\ options = Defaults /\ system = 0
    /\ \E who \in {"unset", "host"} :
         env = [v \in {"LD_LIBRARY_PATH", "WPE_RAM_SIZE", "WEBKIT_EXEC_PATH", "WPE_BACKEND_LIBRARY",
                       "WEBKIT_RESOLUTION_WIDTH", "WPE_POLL_MAX_MEMORY_GPU", "NO_FORCE_TLS_1_2",
                       "WEBKIT_LEGACY_INSPECTOR_SERVER", "WEBKIT_INSPECTOR_HTTP_SERVER",
                       "WEBKIT_GST_QUIRKS", "GST_PLUGIN_SYSTEM_PATH"} |-> who]
    /\ view = [state |-> "none"]

-----------------------------------------------------------------------------
(* setEnvVar for a set of variables: "replace" is what it is called with.  *)
setEnvVar(e, vars, who, replace) ==
    [v \in DOMAIN e |-> IF v \in vars /\ (replace \/ e[v] = "unset") THEN who ELSE e[v]]

(* calculateHomeDirCapacityInBytes: 32 bits.                               *)
capacity(home) == home % 4096

(* estimateLocalStorageQuota, from the capacity as a signed number.        *)
estimateLocalStorageQuota(cap) ==
    LET size == IF cap >= 2048 THEN cap - 4096 ELSE cap IN
    CASE size <= 1 -> 150 [] size = 2 -> 350 [] size = 3 -> 570 [] OTHER -> 770

(* The language of the pages, and the countries that the locale may name.  *)
(* LANG is "" (not set), a language with a country or without, or a single *)
(* letter, as in LANG=C: there lang[2] is not a character of it.           *)
language(lang) ==
    CASE lang = "" -> [navigatorLanguage |-> "en", locale |-> {""}]
      [] lang = "en_gb.UTF-8" -> [navigatorLanguage |-> "en-GB", locale |-> {"GB"}]
      [] lang = "C" -> [navigatorLanguage |-> "C", locale |-> {"", "out of range"}]
      [] OTHER -> [navigatorLanguage |-> lang, locale |-> {""}]

(* LaunchConfig::LaunchConfig: the configuration file (which may be        *)
(* missing or broken), then the "other" options and the sanity check.      *)
Sane(o, cap, lang) ==
    [o EXCEPT !.totalDiskSpace = cap,
              !.navigatorLanguage = language(lang).navigatorLanguage,
              !.locale = language(lang).locale,
              !.localStorageQuotaBytes = IF @ < 0 THEN estimateLocalStorageQuota(cap) ELSE @,
              !.indexedDBStorageQuotaRatio = IF @ \in 0..100 THEN @ ELSE 50]

ReadConfig ==
    /\ stage = "parsed" /\ stage' = "configured"
    /\ \E file \in SeqOf(Entries, MaxEntries), envs \in SUBSET {"WPE_RAM_SIZE", "LD_LIBRARY_PATH"},
          lang \in Languages :
       \E cap \in {capacity(home) : home \in Homes} \cup {1} :
         options' = Sane([FoldLeft(Handle, options, file) EXCEPT !.envs = envs], cap, lang)
    /\ UNCHANGED <<asked, system, env, view>>

applyCmdLineOptions ==
    /\ stage = "configured" /\ stage' = "applied"
    /\ options' = FoldLeft(Handle, options, asked)
    /\ UNCHANGED <<asked, system, env, view>>

(* preLoadWPE: WebKit of the runtime directory, or that of the system.     *)
preLoadWPE ==
    /\ stage = "applied" /\ stage' = "preloaded"
    /\ env' \in {env, setEnvVar(env, {"WEBKIT_EXEC_PATH"}, "default", FALSE)}
    /\ UNCHANGED <<asked, options, system, view>>

(* createBrowserInstance: the backend of the runtime directory, of the     *)
(* working directory or of the system.  Without one g_error aborts; one    *)
(* without the factory gives no browser, which the controller does use.    *)
createBrowserInstance ==
    /\ stage = "preloaded"
    /\ \E found \in SUBSET {"runtime", "working", "system"}, factory \in BOOLEAN :
         stage' = IF found # {} /\ factory THEN "launching" ELSE "crashed"
    /\ UNCHANGED <<asked, options, system, env, view>>

-----------------------------------------------------------------------------
On(o) == o \in options.on

(* readLimits for the memory of the container: "none" without the file.    *)
readLimits(limit, default) ==
    IF limit = 0 THEN default
    ELSE IF limit < 100 THEN 100 ELSE IF limit > 2048 THEN 2048 ELSE limit

ULong == 65536    \* stands for 2^64: larger than every limit
minus(a, b) == (a - b + ULong) % ULong

(* Faulty form: without the "sanity check that there is no overflow".      *)
memoryLimitsUnchecked(total) ==
    LET worker == IF On("enableServiceWorker") THEN 100 ELSE 0
        web == minus(minus(total, 50), worker)
    IN  [network |-> 50, worker |-> worker, web |-> web]

(* WpeWebKitConfig::WpeWebKitConfig.                                       *)
memoryLimits(total) ==
    LET worker == IF On("enableServiceWorker") THEN 100 ELSE 0
        web == minus(minus(total, 50), worker)
    IN  [network |-> 50, worker |-> worker, web |-> IF web > total THEN 0 ELSE web]

ReadLimits ==
    /\ stage = "launching" /\ stage' = "limited"
    /\ \E limit \in Limits \cup {0} : system' = readLimits(limit, 200)
    /\ UNCHANGED <<asked, options, env, view>>

(* findLibrary: the first directory that has the file.                     *)
findLibrary(directories) ==
    LET searchPaths == <<"lib of the image", "lib of wpewebkit", "/usr/lib64", "/usr/lib">>
        found == SelectSeq(searchPaths, LAMBDA d : d \in directories)
    IN  IF found = <<>> THEN "" ELSE Head(found)

(* initExtensionDir: a link for every extension that exists; of two with   *)
(* the same name the first.                                                *)
extensionsDirectory(present) ==
    (({"windowminimize"} \cup (IF On("enableConsoleLog") THEN {"log"} ELSE {})) \cap present)
        \cup options.browserExtensions

-----------------------------------------------------------------------------
(* Faulty form: what the package sets counts as a default.                 *)
insertEnvsGently(e, vars) == setEnvVar(e, vars, "package", FALSE)

(* "finally insert additional envs from config".                           *)
insertEnvs(e, vars) == setEnvVar(e, vars, "package", TRUE)

(* setGStreamerEnvironment: on Realtek its libraries come first.           *)
setGStreamerEnvironment(e, platform) ==
    setEnvVar(setEnvVar(e, IF platform = "realtek" THEN {"LD_LIBRARY_PATH"} ELSE {}, "prepended", TRUE),
              {"WEBKIT_GST_QUIRKS"}, "default", FALSE)

(* setRialtoEnvironment: directories with links to plugins and libraries;  *)
(* a failure on the way changes no variable.                               *)
setRialtoEnvironment(e) ==
    setEnvVar(setEnvVar(e, {"LD_LIBRARY_PATH", "GST_PLUGIN_SYSTEM_PATH"}, "rialto", TRUE),
              {"WEBKIT_GST_QUIRKS"}, "rialto", FALSE)

(* What is set by default.  WPE_RAM_SIZE stands for the variables that do  *)
(* not depend on an option (backend, fonts, caches, memory limits,         *)
(* painting threads); the GPU must have a limit, a backend must be found.  *)
defaultEnvs(gpu, backends) ==
    {"WPE_RAM_SIZE"}
    \cup (IF findLibrary(backends) = "" THEN {} ELSE {"WPE_BACKEND_LIBRARY"})
    \cup (IF On("isHeadless") THEN {} ELSE {"WEBKIT_RESOLUTION_WIDTH"})
    \cup (IF On("enableGpuMemLimiting") /\ gpu THEN {"WPE_POLL_MAX_MEMORY_GPU"} ELSE {})
    \cup (IF On("disableWebSecurity") THEN {"NO_FORCE_TLS_1_2"} ELSE {})

(* The address of the legacy inspector is that of the inspector.           *)
swapInspector(e) ==
    IF e["WEBKIT_LEGACY_INSPECTOR_SERVER"] = "unset" THEN e
    ELSE setEnvVar([e EXCEPT !["WEBKIT_LEGACY_INSPECTOR_SERVER"] = "unset"],
                   {"WEBKIT_INSPECTOR_HTTP_SERVER"}, "host", FALSE)

(* WpeWebKitConfig::setEnvironment.                                        *)
setEnvironment ==
    /\ stage = "limited" /\ stage' = "prepared"
    /\ \E gpu \in BOOLEAN, platform \in {"realtek", "other"}, rialto \in {"off", "fails", "works"},
          backends \in SUBSET {"/usr/lib"} :
         LET base == setEnvVar(env, defaultEnvs(gpu, backends), "default", FALSE)
             media == IF rialto = "works" THEN setRialtoEnvironment(base)
                      ELSE setGStreamerEnvironment(base, platform)
         IN  env' = insertEnvs(swapInspector(media), options.envs)
    /\ UNCHANGED <<asked, options, system, view>>

-----------------------------------------------------------------------------
(* userAgent: the package's, or WebKit's with " WPE" unless it is there.   *)
userAgent == IF options.userAgent = "existing" THEN "existing WPE" ELSE options.userAgent

cookieAcceptPolicy ==
    IF options.cookies \in {"always", "never"} THEN options.cookies ELSE "no-third-party"

(* webKitSettings: what is enabled, besides what always is or never is.    *)
webKitSettings(version, known) ==
    {o \in {"enableLocalStorage", "allowFileURLsCrossAccess", "enableSpatialNavigation",
            "enableNonCompositedWebGL", "enableMediaStream", "enableWebAudio", "enableIndexedDB",
            "disableWebSecurity", "allowMixedContent", "enableServiceWorker"} : On(o)}
    \cup {o \in {"enableLifecycle2"} \cap known : On(o)}
    \cup {o \in {"opportunisticSweepingAndGC"} \cap known : On(o) /\ version >= 246}

(* createDataManager: quotas, as unsigned numbers.  That of an origin is    *)
(* that of local storage or, with IndexedDB, a percentage of the capacity. *)
unsigned(n) == IF n < 0 THEN "4294967295" ELSE "as given"
createDataManager ==
    LET local == unsigned(options.localStorageQuotaBytes)
    IN  [local |-> local,
         origin |-> IF On("enableIndexedDB")
                    THEN unsigned(options.indexedDBStorageQuotaRatio) ELSE local]

(* The script of the launcher, and the files of the package that can be    *)
(* read; configureUserContent hands over all of them.                      *)
userScripts(readable) == {"globals"} \cup (options.userScripts \cap readable)
userStyleSheets(readable) == options.userStyleSheets \cap readable
configureUserContent(readable) ==
    [scripts |-> userScripts(readable), sheets |-> userStyleSheets(readable)]

(* initWebExtensionsCallback: called when WebKit starts its web process.   *)
initWebExtensionsCallback(present) ==
    [directory |-> extensionsDirectory(present), common |-> {}]

(* Memory pressure settings: those of the workers only with those of the   *)
(* pages, neither for a limit of 0 or an old WebKit.                       *)
limitsInForce(version, limits) ==
    CASE version < 238 -> [network |-> 0, web |-> 0, worker |-> 0]
      [] version >= 238 /\ limits.web = 0 -> [network |-> limits.network, web |-> 0, worker |-> 0]
      [] OTHER -> limits

(* WpeWebKitView::createView.  The delegate is the one WebKit's settings   *)
(* say, which know of the page lifecycle or not.                           *)
createView ==
    /\ stage = "prepared" /\ stage' = "running"
    /\ \E version \in Versions, known \in {{}, {"enableLifecycle2", "opportunisticSweepingAndGC"}} :
       \E present \in {{"windowminimize"}, {"windowminimize", "log"}}, readable \in {{}, Texts} :
         view' = [state |-> "loading",
                  settings |-> webKitSettings(version, known),
                  delegate |-> IF "enableLifecycle2" \in webKitSettings(version, known)
                               THEN "V2" ELSE "V1",
                  quotas |-> createDataManager,
                  limits |-> limitsInForce(version, memoryLimits(system)),
                  extensions |-> initWebExtensionsCallback(present),
                  content |-> configureUserContent(readable),
                  agent |-> userAgent, cookies |-> cookieAcceptPolicy,
                  languages |-> options.navigatorLanguage]
    /\ UNCHANGED <<asked, options, system, env>>

(* loadFailureErrorPage: the package's, the resource or a line of HTML.    *)
loadFailureErrorPage(readable, resource) ==
    CASE options.loadFailureErrorPage \cap readable # {} -> "package's"
      [] options.loadFailureErrorPage \cap readable = {} /\ resource -> "resource"
      [] OTHER -> "fallback"

(* loadFailedCallback: the page stays as it is, an error page is shown, or *)
(* it is closed.                                                           *)
loadFailed ==
    /\ stage = "running" /\ view.state = "loading"
    /\ \/ options.loadFailurePolicy = "ignore" /\ view' = [view EXCEPT !.state = "failed"]
       \/ /\ options.loadFailurePolicy = "display"
          /\ \E readable \in {{}, Texts}, resource \in BOOLEAN :
               view' = [view EXCEPT !.state = loadFailureErrorPage(readable, resource)]
       \/ options.loadFailurePolicy = "terminate" /\ view' = [view EXCEPT !.state = "closing"]
    /\ UNCHANGED <<stage, asked, options, system, env>>

ConfigNext ==
    \/ ReadConfig \/ applyCmdLineOptions \/ preLoadWPE \/ createBrowserInstance
    \/ ReadLimits \/ setEnvironment \/ createView \/ loadFailed

-----------------------------------------------------------------------------
(* Whatever the launcher defaults to, the package has the last word and    *)
(* the host the one before ("apps are still able to override that",        *)
(* setEnvironment): a variable in the envs of the configuration ends as    *)
(* the package's, and one of the host is replaced by that only, but for    *)
(* the paths that libraries of the device or of Rialto are put into and    *)
(* the variable that is renamed.                                           *)
AppHasLastWord ==
    [][/\ stage' = "prepared" => \A v \in DOMAIN env \cap options.envs : env'[v] = "package"
       /\ \A v \in DOMAIN env : env[v] = "host" /\ env'[v] # "host" =>
             v \in options.envs \cup {"LD_LIBRARY_PATH", "GST_PLUGIN_SYSTEM_PATH",
                                      "WEBKIT_LEGACY_INSPECTOR_SERVER"}]_configVars

(* The limits WebKit is given never exceed what the container has, and no  *)
(* wrapped difference is among them ("sanity check that there is no        *)
(* overflow", WpeWebKitConfig).                                            *)
LimitsAddUp ==
    view.state # "none" =>
      LET l == view.limits IN l.network + l.web + l.worker <= system

(* "Local storage quota. -1 mean estimate from data storage capacity."     *)
(* (launchconfigoptions.h): WebKit is given an estimate, wherever the -1   *)
(* comes from.                                                             *)
QuotaIsEstimated == view.state # "none" => view.quotas.local = "as given"
=============================================================================
