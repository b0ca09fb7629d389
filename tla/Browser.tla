------------------------------- MODULE Browser -------------------------------
(***************************************************************************)
(* The components around the web view of the plugin WebKitBrowser, checked *)
(* in one run: load signals and the metrics logged of them, the plugin's   *)
(* start and end with its observer, its monitor's memory observer, the     *)
(* settings, the listeners, the cookie jar and its payload.  "part" says   *)
(* which of them a behavior is of; the others stay as they begin.          *)
(***************************************************************************)
EXTENDS LaunchMetrics, BrowserPlugin, WebSettings, Listeners, CookieJar,
    CookiePayload, MemoryObserver

VARIABLE part

Init ==
    /\ part \in {"load", "plugin", "settings", "listeners", "cookies", "payload", "memory"}
    /\ MetricsInit /\ ShellInit /\ SettingsInit /\ ListenersInit /\ JarInit /\ PayloadInit
    /\ ObserverInit /\ (part # "memory" => remote)

Next ==
    /\ \/ /\ part = "load" /\ MetricsNext
          /\ UNCHANGED <<shellVars, settingsVars, listenerVars, cookieVars, texts,
                         memoryVars>>
       \/ /\ part = "plugin" /\ ShellNext
          /\ UNCHANGED <<metricsVars, settingsVars, listenerVars, cookieVars, texts,
                         memoryVars>>
       \/ /\ part = "settings" /\ SettingsNext
          /\ UNCHANGED <<metricsVars, shellVars, listenerVars, cookieVars, texts,
                         memoryVars>>
       \/ /\ part = "listeners" /\ ListenersNext
          /\ UNCHANGED <<metricsVars, shellVars, settingsVars, cookieVars, texts,
                         memoryVars>>
       \/ /\ part = "cookies" /\ JarNext
          /\ UNCHANGED <<metricsVars, shellVars, settingsVars, listenerVars, texts,
                         memoryVars>>
       \/ /\ part = "payload" /\ PayloadNext
          /\ UNCHANGED <<metricsVars, shellVars, settingsVars, listenerVars, cookieVars,
                         memoryVars>>
       \/ /\ part = "memory" /\ ObserverNext
          /\ UNCHANGED <<metricsVars, shellVars, settingsVars, listenerVars, cookieVars, texts>>
    /\ UNCHANGED part

vars == <<part, metricsVars, shellVars, settingsVars, listenerVars, cookieVars, texts,
                         memoryVars>>

(* WebKit delivers its messages, and a page it loads answers or fails.     *)
LoadFairness ==
    /\ WF_loadVars(part = "load" /\ Engine)
    /\ WF_loadVars(part = "load" /\ Signals)

(* Thunder ends what it began, notices lost connections, runs jobs.        *)
ShellFairness ==
    /\ WF_shellVars(part = "plugin" /\ (\/ Initialized
                                        \/ Deinitialize \/ UnregisterInterfaces
                                        \/ UnregisterAll \/ Deinitialized))
    /\ WF_shellVars(part = "plugin" /\ Noticed)
    /\ WF_shellVars(part = "plugin" /\ Job)

Spec == Init /\ [][Next]_vars /\ LoadFairness /\ ShellFairness
=============================================================================
