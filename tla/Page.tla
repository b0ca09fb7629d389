-------------------------------- MODULE Page --------------------------------
(***************************************************************************)
(* What a web page promises to the browser controller, whichever lifecycle *)
(* delegate drives the engine: the controller asks for a state (wanted),   *)
(* and the page the document sees (page) walks the edges of the page       *)
(* lifecycle diagram, one edge at a time.  TERMINATED is final for the     *)
(* controller; the engine keeps such a page hidden until it is destroyed.  *)
(***************************************************************************)

PageLifecycleState ==
    {"INITIALIZING", "ACTIVE", "PASSIVE", "HIDDEN", "FROZEN", "TERMINATED"}

(***************************************************************************)
(* The diagram of nextState: INITIALIZING leads to the three unfrozen      *)
(* states, the others are joined in a line ACTIVE - PASSIVE - HIDDEN -     *)
(* FROZEN, and only HIDDEN leads to TERMINATED.                            *)
(***************************************************************************)
Edges ==
    LET Both(a, b) == {<<a, b>>, <<b, a>>}
    IN  {<<"INITIALIZING", s>> : s \in {"ACTIVE", "PASSIVE", "HIDDEN"}}
        \cup Both("ACTIVE", "PASSIVE")
        \cup Both("PASSIVE", "HIDDEN")
        \cup Both("HIDDEN", "FROZEN")
        \cup {<<"HIDDEN", "TERMINATED">>}

VARIABLES
    wanted,    \* the last state the view accepted from the controller
    page       \* the state the document is in

vars == <<wanted, page>>

Init ==
    /\ wanted = "HIDDEN"
    /\ page \in {"INITIALIZING", "ACTIVE", "PASSIVE", "HIDDEN"}

Ask(s) ==
    /\ wanted # "TERMINATED"
    /\ wanted' = s
    /\ UNCHANGED page

Move(s) ==
    /\ <<page, s>> \in Edges
    /\ page' = s
    /\ UNCHANGED wanted

Next ==
    \/ \E s \in PageLifecycleState \ {"INITIALIZING"} : Ask(s)
    \/ \E s \in {"ACTIVE", "PASSIVE", "HIDDEN", "FROZEN"} : Move(s)

Spec == Init /\ [][Next]_vars
=============================================================================
