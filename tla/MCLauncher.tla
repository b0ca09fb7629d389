----------------------------- MODULE MCLauncher -----------------------------
(* TLC instances of Launcher: the notifications Firebolt may send.          *)
EXTENDS Launcher

(* The states that show the page, hide it, freeze it or end it, one at a    *)
(* time and two in one notification.                                        *)
SomeBatches == {<<"ACTIVE">>, <<"SUSPENDED">>, <<"PAUSED", "TERMINATING">>}

EveryState == {<<s>> : s \in LifecycleState}
=============================================================================
