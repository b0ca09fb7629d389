------------------------------ MODULE Watchdog ------------------------------
(***************************************************************************)
(* The hang detection of WpeWebKitBrowser and WpeWebKitView: a timer polls *)
(* the responsiveness of the web process, notifications of WebKit arrive   *)
(* in between, and a process that stays silent for too long is sent SIGFPE *)
(* (so that it leaves a minidump), with the launcher following it.         *)
(*                                                                         *)
(* Time passes in ticks, a fraction of the poll interval: WebKit may fall  *)
(* silent anywhere between two polls, and a busy main loop polls late.     *)
(* That GLib aligns timers of whole seconds (which may make a poll up to a *)
(* quarter of a second early after a late one) is left out.  WebKit and    *)
(* its processes are external.                                             *)
(***************************************************************************)
EXTENDS Naturals

CONSTANTS
    maxUnresponsiveTimeMs,    \* launch option
    MaxProcesses,             \* bound: web processes of the view, one after another
    TicksPerPoll,             \* ticks that hangPollIntervalSecs is divided into
    MaxDelay                  \* bound: ticks a poll is late

ASSUME MaxTimeAssumption == maxUnresponsiveTimeMs \in Nat
ASSUME MaxProcessesAssumption == MaxProcesses \in Nat
ASSUME TicksAssumption == TicksPerPoll \in Nat \ {0}
ASSUME MaxDelayAssumption == MaxDelay \in Nat

hangPollIntervalSecs == 5
maxUnresponsiveTimeSecs == maxUnresponsiveTimeMs \div 1000

(* m_browserTerminateTimeout, 10000 ms, in ticks. *)
terminateTimeout == 2 * TicksPerPoll

VARIABLES
    responsive,          \* WebKit's is-web-process-responsive
    process,             \* the pid of the view's web process, 0 before it starts
    processes,           \* the pids that exist
    webProcessPid,       \* m_webProcessPid, cached by the view
    unresponsiveReplies, \* m_unresponsiveReplies of the view
    unresponsivePingNum, \* m_unresponsivePingNum of the browser
    sincePoll,           \* the ticks since the timer last polled
    deadlines,           \* exit timers: the ticks each has left
    signalled,           \* the pids that were sent SIGFPE
    outcome,             \* "running", "closing" after a crash, or "exited"
    silence              \* history: the ticks WebKit has been unresponsive for

webkitVars == <<responsive, process, processes>>
viewVars == <<webProcessPid, unresponsiveReplies>>
vars == <<webkitVars, viewVars, unresponsivePingNum, sincePoll, deadlines, signalled, outcome,
          silence>>

Init ==
    /\ responsive = TRUE
    /\ process = 0
    /\ processes = {}
    /\ webProcessPid = 0
    /\ unresponsiveReplies = 0
    /\ unresponsivePingNum = 0
    /\ sincePoll = 0
    /\ deadlines = {}
    /\ signalled = {}
    /\ outcome = "running"
    /\ silence = 0

Running == outcome = "running"

(* An exit timer that is due is dispatched before more time passes.        *)
Tick ==
    /\ Running
    /\ sincePoll < TicksPerPoll + MaxDelay
    /\ 0 \notin deadlines
    /\ sincePoll' = sincePoll + 1
    /\ deadlines' = {d - 1 : d \in deadlines}
    /\ silence' = IF responsive THEN silence ELSE silence + 1
    /\ UNCHANGED <<webkitVars, viewVars, unresponsivePingNum, signalled, outcome>>

-----------------------------------------------------------------------------
(* The page is loaded: its web process starts.  It is the first of them,   *)
(* or one that replaces the process that served another site.              *)
ProcessStarts ==
    /\ Running
    /\ responsive
    /\ process < MaxProcesses
    /\ process' = process + 1
    /\ \/ processes' = processes \cup {process + 1}
       \/ processes' = {process + 1}
    /\ UNCHANGED <<responsive, viewVars, unresponsivePingNum, sincePoll, deadlines, signalled,
                   outcome, silence>>

(* isWebProcessResponsiveCallback caches the pid before anything else. *)
getWebProcessIdentifier ==
    webProcessPid' = IF webProcessPid < 1 THEN process ELSE webProcessPid

Hangs ==
    /\ Running
    /\ responsive /\ process > 0
    /\ responsive' = FALSE
    /\ getWebProcessIdentifier
    /\ UNCHANGED <<process, processes, unresponsiveReplies, unresponsivePingNum, sincePoll,
                   deadlines, signalled, outcome, silence>>

(* ... and resets both counters when the process answers again. *)
Recovers ==
    /\ Running
    /\ ~responsive
    /\ responsive' = TRUE
    /\ getWebProcessIdentifier
    /\ unresponsiveReplies' = 0
    /\ unresponsivePingNum' = 0
    /\ silence' = 0
    /\ UNCHANGED <<process, processes, sincePoll, deadlines, signalled, outcome>>

(***************************************************************************)
(* checkBrowserResponsiveness, checkResponsive and onBrowserUnresponsive.  *)
(* tgkill fails for a pid that is gone; then the launcher exits at once.   *)
(***************************************************************************)
PollDue == Running /\ sincePoll >= TicksPerPoll

PollResponsive ==
    /\ PollDue
    /\ responsive
    /\ unresponsiveReplies' = 0
    /\ unresponsivePingNum' = 0
    /\ sincePoll' = 0
    /\ UNCHANGED <<webkitVars, webProcessPid, deadlines, signalled, outcome, silence>>

(* Faulty forms: the process is killed when the time is not yet over; the   *)
(* poll is not repeated.                                                    *)
Silent(tooLong, found) ==
    /\ PollDue
    /\ ~responsive
    /\ unresponsiveReplies' = unresponsiveReplies + 1
    /\ unresponsivePingNum' = unresponsivePingNum + 1
    /\ sincePoll' = 0
    /\ getWebProcessIdentifier
    /\ signalled' = IF tooLong /\ found THEN signalled \cup {webProcessPid'} ELSE signalled
    /\ deadlines' = deadlines \cup (IF tooLong /\ found THEN {terminateTimeout} ELSE {})
    /\ outcome' = IF tooLong /\ ~found THEN "exited" ELSE outcome
    /\ UNCHANGED <<webkitVars, silence>>
PollUnresponsiveEarly ==
    Silent((unresponsivePingNum + 1) * hangPollIntervalSecs >= maxUnresponsiveTimeSecs,
           webProcessPid' \in processes)
PollUnresponsiveOnce ==
    /\ unresponsivePingNum = 0
    /\ Silent((unresponsivePingNum + 1) * hangPollIntervalSecs > maxUnresponsiveTimeSecs,
              webProcessPid' \in processes)
PollUnresponsive ==
    /\ PollDue
    /\ ~responsive
    /\ unresponsiveReplies' = unresponsiveReplies + 1
    /\ unresponsivePingNum' = unresponsivePingNum + 1
    /\ sincePoll' = 0
    /\ getWebProcessIdentifier
    /\ LET tooLong == unresponsivePingNum' * hangPollIntervalSecs > maxUnresponsiveTimeSecs
           found == webProcessPid' \in processes
       IN  /\ signalled' = IF tooLong /\ found THEN signalled \cup {webProcessPid'} ELSE signalled
           /\ deadlines' = deadlines \cup (IF tooLong /\ found THEN {terminateTimeout} ELSE {})
           /\ outcome' = IF tooLong /\ ~found THEN "exited" ELSE outcome
    /\ UNCHANGED <<webkitVars, silence>>

checkBrowserResponsiveness == PollResponsive \/ PollUnresponsive

(* "timed-out waiting for the browser to terminate after SIGFPE signalled" *)
ExitTimer ==
    /\ Running
    /\ 0 \in deadlines
    /\ outcome' = "exited"
    /\ UNCHANGED <<webkitVars, viewVars, unresponsivePingNum, sincePoll, deadlines, signalled,
                   silence>>

(* A process ends.  If it is the view's, onBrowserCrashed closes the app.  *)
ProcessEnds(p) ==
    /\ Running
    /\ processes' = processes \ {p}
    /\ outcome' = IF p = process THEN "closing" ELSE outcome
    /\ UNCHANGED <<responsive, process, viewVars, unresponsivePingNum, sincePoll, deadlines,
                   signalled, silence>>

Next ==
    \/ Tick
    \/ ProcessStarts
    \/ Hangs
    \/ Recovers
    \/ checkBrowserResponsiveness
    \/ ExitTimer
    \/ \E p \in processes : ProcessEnds(p)

(* Time passes; the poll and the exit timers are sources of the main loop. *)
Fairness ==
    /\ WF_vars(Tick)
    /\ WF_vars(checkBrowserResponsiveness)
    /\ WF_vars(ExitTimer)

Spec == Init /\ [][Next]_vars
FairSpec == Spec /\ Fairness

-----------------------------------------------------------------------------
(* Type invariant. *)
TypeOK ==
    /\ responsive \in BOOLEAN
    /\ process \in 0..MaxProcesses
    /\ processes \subseteq 1..process
    /\ webProcessPid \in 0..MaxProcesses
    /\ unresponsiveReplies \in Nat
    /\ unresponsivePingNum \in Nat
    /\ sincePoll \in 0..TicksPerPoll + MaxDelay
    /\ deadlines \subseteq 0..terminateTimeout
    /\ signalled \subseteq 1..MaxProcesses
    /\ outcome \in {"running", "closing", "exited"}
    /\ silence \in Nat

(***************************************************************************)
(* No process is signalled, and the launcher does not give up, before      *)
(* WebKit was unresponsive for maxUnresponsiveTimeMs without a break, less *)
(* at most one poll interval: polls are counted, not time, so the first    *)
(* failed poll counts for a whole interval although WebKit may have fallen *)
(* silent just before it.  Rounding of the option, late polls, recoveries  *)
(* between polls and the replacing of processes take nothing more away.    *)
(***************************************************************************)
KillsAfterTimeout ==
    [][signalled' # signalled \/ (outcome' = "exited" /\ 0 \notin deadlines)
         => (silence' + TicksPerPoll) * hangPollIntervalSecs * 1000
              > maxUnresponsiveTimeMs * TicksPerPoll]_vars

(***************************************************************************)
(* A web process that stays silent does not keep the launcher: a hang that *)
(* never ends makes it exit, whichever process the cached pid names; and a *)
(* launcher that signalled its web process goes away as well, even when    *)
(* the process comes back to life before it dies.                          *)
(***************************************************************************)
HangEnds ==
    /\ <>[](~responsive) => <>(~Running)
    /\ signalled # {} ~> ~Running
=============================================================================
