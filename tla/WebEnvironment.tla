--------------------------- MODULE WebEnvironment ---------------------------
(***************************************************************************)
(* What the configuration line of WebKitBrowser makes of the environment   *)
(* of WebKit's processes and of the places where pages are stored.         *)
(*                                                                         *)
(* A line is the set of the options that are on, or are given a value.  Of *)
(* a variable the model keeps who set it: the host of the process, the     *)
(* plugin for an option, or the list of variables in the line.             *)
(***************************************************************************)
EXTENDS FiniteSets, TLC

(* Options that are on if the line does not give them.                     *)
OnByDefault == {"MediaDiskCache", "UseLLInt", "UseJIT", "UseDFG", "UseFTL", "UseDOM"}

(* Options that set one variable each, by what they are about.             *)
MediaOptions ==
    [MSEBuffers |-> "MSE_MAX_BUFFER_SIZE", MemoryProfile |-> "WPE_RAM_SIZE",
     DiskCache |-> "WPE_DISK_CACHE_SIZE", DiskCacheDir |-> "XDG_CACHE_HOME",
     CookieStorage |-> "WPE_SHELL_COOKIE_STORAGE", Compositor |-> "CAIRO_GL_COMPOSITOR"]

DeviceOptions ==
    [Cursor |-> "WPE_BCMRPI_CURSOR", Touch |-> "WPE_BCMRPI_TOUCH",
     ThunderDecryptorPreference |-> "WEBKIT_GST_EME_RANK_PRIORITY"]

JavaScriptOptions ==
    [DumpOptions |-> "JSC_dumpOptions", ThreadedPainting |-> "WEBKIT_NICOSIA_PAINTING_THREADS",
     PTSOffset |-> "PTS_REPORTING_OFFSET_MS"]

ProcessOptions ==
    [ExecPath |-> "WEBKIT_EXEC_PATH", HTTPProxy |-> "http_proxy",
     HTTPProxyExclusion |-> "no_proxy", TCPKeepAlive |-> "WEBKIT_TCP_KEEPALIVE"]

(* And those that set one where they are off.                              *)
OffOptions ==
    [XHRCache |-> "WPE_DISABLE_XHR_RESPONSE_CACHING", UseLLInt |-> "JSC_useLLInt",
     UseJIT |-> "JSC_useJIT", UseDFG |-> "JSC_useDFGJIT", UseFTL |-> "JSC_useFTLJIT",
     UseDOM |-> "JSC_useDOMJIT"]

SingleOptions == MediaOptions @@ DeviceOptions @@ JavaScriptOptions @@ ProcessOptions

(* Options that matter together, or that set one variable or another.      *)
DiskCacheVariable(line) ==
    IF "MediaDiskCache" \in line THEN "WPE_SHELL_MEDIA_DISK_CACHE_PATH"
    ELSE "WPE_SHELL_DISABLE_MEDIA_DISK_CACHE"

InspectorVariables(line) ==
    IF "Inspector" \notin line THEN {}
    ELSE IF "InspectorNative" \in line THEN {"WEBKIT_INSPECTOR_SERVER"}
    ELSE {"WEBKIT_INSPECTOR_HTTP_SERVER"}

CertificateVariables(line) ==
    IF {"ClientCert", "ClientCertKey"} \subseteq line
    THEN {"G_TLS_OPENSSL_CLIENT_CERT_PATH", "G_TLS_OPENSSL_CLIENT_CERT_KEY_PATH"} ELSE {}

DisplayVariables ==
    {"WEBKIT_RESOLUTION_WIDTH", "WEBKIT_RESOLUTION_HEIGHT", "WEBKIT_MAXIMUM_FPS",
     "GST_VIRTUAL_DISP_WIDTH", "GST_VIRTUAL_DISP_HEIGHT"}

(* What a line sets with force, or without if the environment overrides it.*)
Written(line) ==
    {"CLIENT_IDENTIFIER", "GST_GL_WINDOW", DiskCacheVariable(line)}
        \cup {SingleOptions[o] : o \in line \cap DOMAIN SingleOptions}
        \cup {OffOptions[o] : o \in DOMAIN OffOptions \ line}
        \cup InspectorVariables(line) \cup CertificateVariables(line) \cup DisplayVariables

Variables ==
    {"QUEUEPLAYER_FLUSH_MODE", "HOME", "WPE_WEBKIT_URL", "WPE_ENVIRONMENT_OVERRIDE"}
        \cup {SingleOptions[o] : o \in DOMAIN SingleOptions} \cup Written({})
        \cup Written({"MediaDiskCache", "Inspector", "ClientCert", "ClientCertKey"})
        \cup Written({"Inspector", "InspectorNative"})

EnvironmentOverride(line, host) ==
    "EnvironmentOverride" \in line \/ "WPE_ENVIRONMENT_OVERRIDE" \in host

SetEnvironment(env, vars, who, forced) ==
    [v \in DOMAIN env |-> IF v \in vars /\ (forced \/ env[v] = "unset") THEN who ELSE env[v]]

(* The variables in the order they are set; "listed" are the line's own.   *)
Environment(line, host, listed) ==
    LET inherited == [v \in Variables |-> IF v \in host THEN "host" ELSE "unset"]
        played == SetEnvironment(inherited, {"QUEUEPLAYER_FLUSH_MODE"}, "plugin", FALSE)
        home == SetEnvironment(played, {"HOME"}, "plugin", TRUE)
        written == SetEnvironment(home, Written(line), "plugin", ~EnvironmentOverride(line, host))
    IN  SetEnvironment(written, listed, "listed", TRUE)

(* The start page: that of the environment only where it overrides.        *)
StartURL(line, host) ==
    IF EnvironmentOverride(line, host) /\ "WPE_WEBKIT_URL" \in host THEN "host" ELSE "plugin"

-----------------------------------------------------------------------------
(* Where pages are stored: under what the line gives or the user's cache   *)
(* directory, which Configure may just have set.                           *)
CacheDir(env) == IF env["XDG_CACHE_HOME"] # "unset" THEN env["XDG_CACHE_HOME"] ELSE "home"

Directory(line, option, env) == IF option \in line THEN "given" ELSE CacheDir(env)

Ephemeral(line) == "Automation" \in line
Nowhere == [localStorage |-> "none", diskCache |-> "none", indexedDB |-> "none",
            quota |-> "none", cookies |-> "none"]

(* A view for automation keeps nothing.                                    *)
Storage(line, env) ==
    IF Ephemeral(line) THEN Nowhere
    ELSE [localStorage |-> Directory(line, "LocalStorage", env),
          diskCache |-> Directory(line, "DiskCacheDir", env),
          indexedDB |-> Directory(line, "IndexedDBPath", env),
          quota |-> IF "LocalStorageSize" \in line THEN "given" ELSE "5 MiB",
          cookies |-> IF "CloudCookieJarEnabled" \in line THEN "cloud"
                      ELSE Directory(line, "CookieStorage", env)]

(* The configured policy is applied along with the cookies' database only. *)
PolicyApplies(line) == ~Ephemeral(line) /\ "CloudCookieJarEnabled" \notin line
=============================================================================
