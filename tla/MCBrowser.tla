------------------------------ MODULE MCBrowser ------------------------------
(***************************************************************************)
(* The instance of Browser that TLC checks: hosts of pages, configurations *)
(* and the code's checksum.                                                *)
(***************************************************************************)
EXTENDS Browser, CookieChecksum

Host(p) == IF p \in {"a1", "a2"} THEN "a" ELSE p

(* What is on by default; almost everything, with a host that overrides; a *)
(* line for automation, under a host that does not.                        *)
Host1 == {"HOME", "XDG_CACHE_HOME", "http_proxy", "CLIENT_IDENTIFIER", "QUEUEPLAYER_FLUSH_MODE",
          "WPE_WEBKIT_URL"}
Line1 == DOMAIN SingleOptions \cup {"EnvironmentOverride", "UserAgent", "LocalStorageEnabled",
            "CookieAcceptPolicy", "Languages", "UserScripts", "LocalStorage", "Inspector"}
Line2 == {"Automation", "CookieAcceptPolicy", "Languages", "Inspector", "InspectorNative",
          "UseJIT", "HTTPProxy", "ClientCert", "ClientCertKey"}
Found ==
    {[line |-> OnByDefault, listed |-> {}, host |-> {}],
     [line |-> Line1, listed |-> {"no_proxy", "XDG_CACHE_HOME"}, host |-> Host1],
     [line |-> Line2, listed |-> {"HOME"}, host |-> Host1]}
=============================================================================
