---------------------------- MODULE MCLaunching -----------------------------
(***************************************************************************)
(* What a launched application depends on besides its page, and helpers of *)
(* the plugins around it, checked in one run: the configuration of the     *)
(* launcher, the socket to a service and the front panel.  "part" says     *)
(* which of them a behavior is of; the others stay as they begin.          *)
(***************************************************************************)
EXTENDS LaunchConfig, WebSocket, FrontPanel

VARIABLE part

(* The estimate asked for, or a larger memory; a page that cannot be       *)
(* loaded, with a page for the error that is there or is not.              *)
Said ==
    {[key |-> "localStorageQuotaBytes", text |-> "-1"],
     [key |-> "enableServiceWorker", text |-> "true"],
     [key |-> "loadFailurePolicy", text |-> "display"],
     [key |-> "loadFailurePolicy", text |-> "ignore"],
     [key |-> "loadFailureErrorPage", text |-> "missing"],
     [key |-> "loadFailureErrorPage", text |-> "page"]}

(* Of the many states the parts start in, the others are in the first.     *)
Init ==
    /\ ConfigInit /\ SocketInit /\ instance
    /\ part \in {"configuration", "socket", "panel"}
    /\ part # "configuration" => asked = <<>> /\ env["WPE_RAM_SIZE"] = "unset"
    /\ part # "panel" => ~powerStatus

Next ==
    /\ \/ part = "configuration" /\ ConfigNext /\ UNCHANGED <<socketVars, panelVars>>
       \/ part = "socket" /\ SocketNext /\ UNCHANGED <<configVars, panelVars>>
       \/ part = "panel" /\ PanelNext /\ UNCHANGED <<configVars, socketVars>>
    /\ UNCHANGED part

vars == <<part, configVars, socketVars, panelVars>>

(* The event loop runs and its timers expire; threads in sendRequest go    *)
(* on, a wait for an answer ends after five seconds; a handshake ends or   *)
(* times out, as does the closing one.                                     *)
SocketFairness ==
    /\ \A i \in Links :
         /\ WF_socketVars(part = "socket" /\ (onOpen(i) \/ onFail(i)))
         /\ WF_socketVars(part = "socket" /\ link[i].state = "closing" /\ onClose(i))
         /\ WF_socketVars(part = "socket" /\ (onPong(i) \/ onPongTimeout(i)))
    /\ WF_socketVars(part = "socket" /\ Ping)
    /\ WF_socketVars(part = "socket" /\ LoopEnds)
    /\ \A c \in Callers : WF_socketVars(part = "socket" /\ CallerStep(c))

Spec == Init /\ [][Next]_vars /\ SocketFairness
=============================================================================
