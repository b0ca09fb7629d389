--------------------------- MODULE MemoryObserver ---------------------------
(***************************************************************************)
(* MemoryObserverImpl of the plugin WebKitBrowser: Thunder's monitor asks  *)
(* it how much memory the browser's process and its children take, and     *)
(* whether all that is needed of them runs.  The processes are external:   *)
(* WebKit starts and replaces its children at any time, any may end.       *)
(*                                                                         *)
(* The children are kept in a list of process numbers that is read from    *)
(* the system again only under a condition; what is asked about a number   *)
(* in it is answered by the system at that moment.                         *)
(***************************************************************************)
EXTENDS Naturals, FiniteSets, Functions

CONSTANTS
    MaxSpawned,    \* bound: children started
    Size,          \* what one process takes
    Word           \* 2^32, the range of the sums

ASSUME MemoryAssumption == MaxSpawned \in Nat /\ Size \in Nat /\ Word \in Nat \ {0}

VARIABLES
    remote,        \* the browser runs in a process of its own
    mainActive,    \* _main.IsActive()
    running,       \* the children that run, by number: their names
    spawned,       \* numbers given so far
    childList,     \* _children
    starting,      \* less than TYPICAL_STARTUP_TIME since the start
    toldMonitor         \* what the monitor was told last

memoryVars == <<remote, mainActive, running, spawned, childList, starting, toldMonitor>>

mandatoryProcesses == {"WPENetworkProcess", "WPEWebProcess"}
RequiredChildren == Cardinality(mandatoryProcesses)

(* Made in Initialize, before the browser is configured: no child yet.     *)
ObserverInit ==
    /\ remote \in BOOLEAN
    /\ mainActive = TRUE /\ running = <<>> /\ spawned = 0
    /\ childList = {} /\ starting = remote
    /\ toldMonitor = [told |-> "nothing"]

-----------------------------------------------------------------------------
Spawn ==
    /\ mainActive /\ spawned < MaxSpawned
    /\ spawned' = spawned + 1
    /\ \E name \in mandatoryProcesses \cup {"other"} :
         running' = [p \in DOMAIN running \cup {spawned'} |->
                       IF p = spawned' THEN name ELSE running[p]]
    /\ UNCHANGED <<remote, mainActive, childList, starting, toldMonitor>>

ChildEnds ==
    /\ \E p \in DOMAIN running : running' = Restrict(running, DOMAIN running \ {p})
    /\ UNCHANGED <<remote, mainActive, spawned, childList, starting, toldMonitor>>

MainEnds ==
    /\ mainActive /\ mainActive' = FALSE
    /\ UNCHANGED <<remote, running, spawned, childList, starting, toldMonitor>>

StartupTimePasses ==
    /\ starting /\ starting' = FALSE
    /\ UNCHANGED <<remote, mainActive, running, spawned, childList, toldMonitor>>

-----------------------------------------------------------------------------
(* Faulty form: a list that has something in it is complete.               *)
ChildrenOnce(list) == IF list = {} THEN DOMAIN running ELSE list

(* "Refresh the children list", while it is too short to be complete.      *)
Children(list) ==
    IF Cardinality(list) < RequiredChildren THEN DOMAIN running ELSE list

(* Resident, Allocated and Shared: a sum of 32 bits.                       *)
Measure ==
    /\ childList' = IF remote THEN Children(childList) ELSE childList
    /\ toldMonitor' = [told |-> "size",
                  size |-> IF remote
                           THEN Size * (Cardinality(childList' \cap DOMAIN running)
                                          + (IF mainActive THEN 1 ELSE 0)) % Word
                           ELSE 0]
    /\ UNCHANGED <<remote, mainActive, running, spawned, starting>>

Processes ==
    /\ childList' = DOMAIN running
    /\ toldMonitor' = [told |-> "processes",
                  number |-> Cardinality(childList')
                               + (IF ~remote \/ mainActive THEN 1 ELSE 0)]
    /\ UNCHANGED <<remote, mainActive, running, spawned, starting>>

Run(list) == {running[p] : p \in list \cap DOMAIN running} \cap mandatoryProcesses

IsOperational ==
    /\ childList' = IF remote THEN Children(childList) ELSE childList
    /\ toldMonitor' = [told |-> "operational",
                  is |-> /\ mainActive
                         /\ ~remote \/ starting \/ Run(childList') = mandatoryProcesses]
    /\ UNCHANGED <<remote, mainActive, running, spawned, starting>>

ObserverNext ==
    \/ Spawn \/ ChildEnds \/ MainEnds \/ StartupTimePasses
    \/ Measure \/ Processes \/ IsOperational

-----------------------------------------------------------------------------
(* The monitor, which restarts a plugin that is not operational, is told   *)
(* so for a cause: the browser has ended, or, once the time to start is    *)
(* over, a mandatory process does not run, or the list holds a child that  *)
(* has ended or was none of the two, or two of the same name (a list that  *)
(* is long enough is never read again).  And "all mandatory processes are     *)
(* still running" when it is told that they are (IsOperational).           *)
OperationalIsJustified ==
    [][IsOperational /\ remote =>
         LET complete == Run(DOMAIN running) = mandatoryProcesses
             exact == Cardinality(Run(childList)) = Cardinality(childList)
         IN  IF toldMonitor'.is THEN mainActive /\ (starting \/ complete)
             ELSE ~mainActive \/ (~starting /\ ~(complete /\ exact))]_memoryVars
=============================================================================
