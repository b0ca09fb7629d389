---------------------------- MODULE HangDetector ----------------------------
(***************************************************************************)
(* The two hang detections of WebKitImplementation.  A timer of the web    *)
(* thread and a job of the worker pool, with the same period, watch the    *)
(* main loop of the web thread: the timer resets a count that the job      *)
(* increments.  The timer also asks for the responsiveness of the web      *)
(* process; silent replies are counted, end in SIGFPE and, if that does    *)
(* not help, in a deactivated browser.                                     *)
(*                                                                         *)
(* Time passes in ticks; due timers of a loop that is not blocked and due  *)
(* jobs run before it passes.  WebKit and its process are external.        *)
(***************************************************************************)
EXTENDS Naturals

CONSTANTS
    Timeout,      \* watchdogchecktimeoutinseconds, in ticks
    Threshold     \* watchdoghangthresholdtinseconds, in ticks

(* With either of them 0 nothing is watched (HangDetector's constructor).  *)
ASSUME TimeoutAssumption == Timeout \in Nat \ {0}
ASSUME ThresholdAssumption == Threshold \in Nat \ {0}

limit == Threshold \div Timeout

VARIABLES
    blocked,               \* the web thread is busy: its loop dispatches nothing
    timer,                 \* ticks until the timer of the web thread is due
    job,                   \* ticks until the job of the worker pool is due
    expiryCount,           \* _expiryCount
    checking,              \* _webProcessCheckInProgress
    unresponsiveReplyNum,  \* _unresponsiveReplyNum
    responsive,            \* WebKit's is-web-process-responsive
    state,                 \* _state
    outcome,               \* "running", or why the browser is taken down
    sinceCheck,            \* history: ticks since the loop last answered
    wasBlocked,            \* history: time passed meanwhile with the loop blocked
    blockedFor,            \* history: ticks the loop has been blocked
    badReplies,            \* history: silent replies since the process was responsive
    badFor,                \* history: ticks since the first of them
    signals,               \* history: SIGFPEs sent for them ...
    killedAfter            \* ... and badFor when it was sent

loopVars == <<blocked, timer, job, expiryCount>>
processVars == <<checking, unresponsiveReplyNum, responsive>>
loopHistory == <<sinceCheck, wasBlocked, blockedFor>>
processHistory == <<badReplies, badFor, signals, killedAfter>>
vars == <<loopVars, processVars, state, outcome, loopHistory, processHistory>>

(* The histories are not counted beyond what the properties tell apart.    *)
Capped(n, bound) == IF n < bound THEN n + 1 ELSE n
MaxSilence == (limit + 2) * Timeout

Init ==
    /\ blocked = TRUE
    /\ timer = Timeout /\ job = Timeout
    /\ expiryCount = 0
    /\ checking = FALSE
    /\ unresponsiveReplyNum = 0
    /\ responsive = TRUE
    /\ state \in {"SUSPENDED", "RESUMED"}
    /\ outcome = "running"
    /\ sinceCheck = 0 /\ wasBlocked = FALSE /\ blockedFor = 0
    /\ badReplies = 0 /\ badFor = 0
    /\ signals = 0 /\ killedAfter = 0

Running == outcome = "running"
Looping == Running /\ ~blocked

-----------------------------------------------------------------------------
(* The loop of the web thread starts, gets stuck in a callback, goes on.   *)
Block ==
    /\ Looping
    /\ blocked' = TRUE
    /\ UNCHANGED <<timer, job, expiryCount, processVars, state, outcome, loopHistory,
                   processHistory>>

Unblock ==
    /\ Running /\ blocked
    /\ blocked' = FALSE
    /\ blockedFor' = 0
    /\ UNCHANGED <<timer, job, expiryCount, processVars, state, outcome, sinceCheck,
                   wasBlocked, processHistory>>

Tick ==
    /\ Running
    /\ job > 0
    /\ blocked \/ timer > 0
    /\ job' = job - 1
    /\ timer' = IF timer > 0 THEN timer - 1 ELSE 0
    /\ sinceCheck' = Capped(sinceCheck, MaxSilence)
    /\ wasBlocked' = (wasBlocked \/ blocked)
    /\ blockedFor' = IF blocked THEN Capped(blockedFor, MaxSilence) ELSE 0
    /\ badFor' = IF badReplies > 0 THEN Capped(badFor, Threshold) ELSE 0
    /\ UNCHANGED <<blocked, expiryCount, processVars, state, outcome, badReplies,
                   signals, killedAfter>>

(* One check at a time.                                                    *)
CheckWebProcess == checking' = TRUE

(* The timer source of the web thread.                                     *)
CheckResponsiveness ==
    /\ Looping /\ timer = 0
    /\ timer' = Timeout
    /\ expiryCount' = 0
    /\ CheckWebProcess
    /\ sinceCheck' = 0 /\ wasBlocked' = FALSE
    /\ UNCHANGED <<blocked, job, unresponsiveReplyNum, responsive, state, outcome,
                   blockedFor, processHistory>>

(* Faulty form: one more expiry is let pass.                               *)
expiredLate(n) == n > limit + 1

expired(n) == n > limit

(* The job of the worker pool, which schedules itself again.               *)
Dispatch ==
    /\ Running /\ job = 0
    /\ job' = Timeout
    /\ expiryCount' = expiryCount + 1
    /\ outcome' = IF expired(expiryCount') THEN "loop expired" ELSE outcome
    /\ UNCHANGED <<blocked, timer, processVars, state, loopHistory, processHistory>>

-----------------------------------------------------------------------------
(* Suspend's function on the web thread also asks for a check; Resume's    *)
(* does not.                                                               *)
Suspend ==
    /\ Looping /\ state = "RESUMED"
    /\ state' = "SUSPENDED"
    /\ CheckWebProcess
    /\ UNCHANGED <<loopVars, unresponsiveReplyNum, responsive, outcome, loopHistory,
                   processHistory>>

Resume ==
    /\ Looping /\ state = "SUSPENDED"
    /\ state' = "RESUMED"
    /\ UNCHANGED <<loopVars, processVars, outcome, loopHistory, processHistory>>

(* WebKit finds its process silent, or responsive again; it notices in its *)
(* main loop and tells at once.                                            *)
Hangs ==
    /\ Looping /\ responsive
    /\ responsive' = FALSE
    /\ UNCHANGED <<loopVars, checking, unresponsiveReplyNum, state, outcome, loopHistory,
                   processHistory>>

(* Faulty form: the notification is ignored, only replies count.           *)
RecoversUnnoticed ==
    /\ Looping /\ ~responsive
    /\ responsive' = TRUE
    /\ badReplies' = 0 /\ badFor' = 0 /\ signals' = 0 /\ killedAfter' = 0
    /\ UNCHANGED <<loopVars, checking, unresponsiveReplyNum, state, outcome, loopHistory>>

(* isWebProcessResponsiveCallback.                                         *)
Recovers ==
    /\ Looping /\ ~responsive
    /\ responsive' = TRUE
    /\ unresponsiveReplyNum' = 0
    /\ badReplies' = 0 /\ badFor' = 0 /\ signals' = 0 /\ killedAfter' = 0
    /\ UNCHANGED <<loopVars, checking, state, outcome, loopHistory>>

(* DidReceiveWebProcessResponsivenessReply: a good reply ...               *)
Answered ==
    /\ Looping /\ checking /\ responsive
    /\ checking' = FALSE
    /\ unresponsiveReplyNum' = 0
    /\ UNCHANGED <<loopVars, responsive, state, outcome, loopHistory, processHistory>>

kill == signals' = signals + 1 /\ killedAfter' = badFor
spare == UNCHANGED <<signals, killedAfter>>

(* Faulty form: a process is never given up.                               *)
SilentResumedEndless(n) ==
    /\ unresponsiveReplyNum' = IF n > limit THEN limit + 1 ELSE n
    /\ \/ n = limit /\ kill
       \/ n # limit /\ spare
    /\ UNCHANGED outcome

(* ... a silent one while the browser is suspended ...                     *)
SilentSuspended(n) ==
    \/ /\ n <= limit
       /\ unresponsiveReplyNum' = limit
       /\ kill /\ UNCHANGED outcome
    \/ /\ n > limit
       /\ unresponsiveReplyNum' = n
       /\ spare /\ outcome' = "failure"

(* ... and while it is not.                                                *)
SilentResumed(n) ==
    /\ unresponsiveReplyNum' = n
    /\ \/ n = limit /\ kill /\ UNCHANGED outcome
       \/ n # limit /\ n = 2 * limit /\ spare /\ outcome' = "process expired"
       \/ n \notin {limit, 2 * limit} /\ spare /\ UNCHANGED outcome

Silent ==
    /\ Looping /\ checking /\ ~responsive
    /\ checking' = FALSE
    /\ badReplies' = Capped(badReplies, 2 * limit)
    /\ \/ state = "SUSPENDED" /\ SilentSuspended(unresponsiveReplyNum + 1)
       \/ state = "RESUMED" /\ SilentResumed(unresponsiveReplyNum + 1)
    /\ UNCHANGED <<loopVars, responsive, state, loopHistory, badFor>>

(* A process that SIGFPE ends, or that crashes: the browser exits.         *)
webProcessTerminated ==
    /\ Looping
    /\ outcome' = "exit"
    /\ UNCHANGED <<loopVars, processVars, state, loopHistory, processHistory>>

-----------------------------------------------------------------------------
Next ==
    \/ Block \/ Unblock \/ Tick
    \/ CheckResponsiveness \/ Dispatch
    \/ Suspend \/ Resume
    \/ Hangs \/ Recovers \/ Answered \/ Silent
    \/ webProcessTerminated

Spec == Init /\ [][Next]_vars

FairSpec ==
    /\ Spec
    /\ WF_vars(Tick) /\ WF_vars(CheckResponsiveness) /\ WF_vars(Dispatch)
    /\ WF_vars(Answered) /\ WF_vars(Silent)

-----------------------------------------------------------------------------
(* The counters stay in their range while the browser runs; in particular  *)
(* no reply is counted past the one that gives a process up.               *)
TypeOK ==
    /\ blocked \in BOOLEAN /\ checking \in BOOLEAN /\ responsive \in BOOLEAN
    /\ timer \in 0..Timeout /\ job \in 0..Timeout
    /\ expiryCount \in 0..limit + 1
    /\ unresponsiveReplyNum \in 0..2 * limit
    /\ state \in {"SUSPENDED", "RESUMED"}
    /\ outcome \in {"running", "loop expired", "process expired", "failure", "exit"}
    /\ sinceCheck \in 0..MaxSilence /\ wasBlocked \in BOOLEAN /\ blockedFor \in 0..MaxSilence
    /\ badReplies \in 0..2 * limit /\ badFor \in 0..Threshold
    /\ signals \in Nat /\ killedAfter \in 0..Threshold

(* The browser is taken down for a hung loop only when the loop has been   *)
(* blocked, and has not answered for as many periods as the threshold has, *)
(* although timer and job may fire in any order at the same moment; a loop *)
(* that stays blocked is found within one period more.  That a healthy     *)
(* loop is kept takes a threshold of two periods or more                   *)
(* (HangDetector::Dispatch).                                               *)
HungLoopFound ==
    /\ outcome = "loop expired" => wasBlocked /\ sinceCheck >= limit * Timeout
    /\ Running => blockedFor <= (limit + 1) * Timeout

(* The process of a resumed browser is sent SIGFPE only for as many silent *)
(* replies as the configuration allows, none of them from before it last   *)
(* was responsive, and given up for twice as many, unless it had been      *)
(* suspended meanwhile; however the browser is suspended and resumed, the  *)
(* process is sent SIGFPE once, and it is not given up before that         *)
(* (DidReceiveWebProcessResponsivenessReply,                               *)
(* isWebProcessResponsiveCallback).                                        *)
KilledForCause ==
    [][/\ (signals' > signals /\ state = "RESUMED") => badReplies' >= limit
       /\ (Running /\ outcome' = "process expired") => badReplies' > limit
       /\ signals' <= 1
       /\ outcome' \in {"process expired", "failure"} => signals' = 1]_vars

(* A web process that stays silent ends the browser, whatever the browser  *)
(* is told meanwhile, provided its loop runs.                              *)
HungProcessEnds == <>[](~responsive /\ ~blocked) => <>~Running

(* "The amount of time to give a process to recover before declaring a     *)
(* hang state" (WebKitImplementation.cpp, WatchDogHangThresholdInSeconds). *)
GivenTimeToRecover == signals > 0 => killedAfter >= Threshold
=============================================================================
