--------------------------- MODULE WatchdogProofs ---------------------------
(***************************************************************************)
(* Proofs about the hang detection of WpeWebKitBrowser and WpeWebKitView,  *)
(* for every configured time and any number of web processes.              *)
(***************************************************************************)
EXTENDS Watchdog, Integers, TLAPS

(***************************************************************************)
(* The browser's count and the view's agree (whatever resets one resets    *)
(* the other), and n failed polls show that WebKit has been silent since   *)
(* the first of them: for n - 1 poll intervals and the time since the last *)
(* poll.  The time before the first of them is not known.                  *)
(***************************************************************************)
Since(n) == (n - 1) * TicksPerPoll + sincePoll

CountsAgree == unresponsiveReplies = unresponsivePingNum

PollsShowSilence ==
    unresponsivePingNum > 0 => silence >= Since(unresponsivePingNum)

(* Who is silent was found in a process, and both counts start with it. *)
SilentOnly ==
    /\ responsive => silence = 0 /\ unresponsivePingNum = 0
    /\ ~responsive => process > 0 /\ webProcessPid > 0

IInv == TypeOK /\ CountsAgree /\ PollsShowSilence /\ SilentOnly

(***************************************************************************)
(* Rounding the option down to seconds does not shorten the time: a whole  *)
(* number of seconds above the rounded option is above the option.         *)
(***************************************************************************)
LEMMA RoundedDown ==
    ASSUME NEW n \in Nat, n * hangPollIntervalSecs > maxUnresponsiveTimeSecs
    PROVE  n * hangPollIntervalSecs * 1000 > maxUnresponsiveTimeMs
<1> DEFINE seconds == n * 5
<1>1. seconds \in Nat /\ seconds > maxUnresponsiveTimeMs \div 1000
  BY DEF hangPollIntervalSecs, maxUnresponsiveTimeSecs
<1> HIDE DEF seconds
<1>2. seconds * 1000 > maxUnresponsiveTimeMs
  BY <1>1, MaxTimeAssumption
<1> QED
  BY <1>2 DEF seconds, hangPollIntervalSecs

(* The same with time counted in ticks: the polls that are too many stand  *)
(* for more than the configured time, and the silence for all but one.     *)
LEMMA TooManyPolls ==
    ASSUME NEW n \in Nat, NEW t \in Nat,
           n * hangPollIntervalSecs > maxUnresponsiveTimeSecs,
           t + TicksPerPoll >= n * TicksPerPoll
    PROVE  (t + TicksPerPoll) * hangPollIntervalSecs * 1000
             > maxUnresponsiveTimeMs * TicksPerPoll
<1>1. n * 5000 > maxUnresponsiveTimeMs
  BY RoundedDown DEF hangPollIntervalSecs
<1>2. \A a, b \in Nat : a > b => a * TicksPerPoll > b * TicksPerPoll
  BY TicksAssumption, SMT
<1>3. (n * 5000) * TicksPerPoll > maxUnresponsiveTimeMs * TicksPerPoll
  <2>1. n * 5000 \in Nat
    OBVIOUS
  <2> QED
    BY <1>1, <1>2, <2>1, MaxTimeAssumption
<1>4. (n * 5000) * TicksPerPoll = (n * TicksPerPoll) * 5000
  BY TicksAssumption, SMT
<1>5. (t + TicksPerPoll) * 5000 >= (n * TicksPerPoll) * 5000
  <2>1. n * TicksPerPoll \in Nat
    BY TicksAssumption
  <2>2. \A a, b \in Nat : a >= b => a * 5000 >= b * 5000
    OBVIOUS
  <2> QED
    BY <2>1, <2>2, TicksAssumption
<1>6. /\ (t + TicksPerPoll) * 5000 \in Nat /\ (n * TicksPerPoll) * 5000 \in Nat
      /\ maxUnresponsiveTimeMs * TicksPerPoll \in Nat
  BY TicksAssumption, MaxTimeAssumption
<1>7. (t + TicksPerPoll) * 5000 > maxUnresponsiveTimeMs * TicksPerPoll
  BY <1>3, <1>4, <1>5, <1>6
<1>8. (t + TicksPerPoll) * 5 * 1000 = (t + TicksPerPoll) * 5000
  BY TicksAssumption
<1> QED
  BY <1>7, <1>8 DEF hangPollIntervalSecs

LEMMA InitIInv == Init => IInv
<1> SUFFICES ASSUME Init PROVE IInv
  OBVIOUS
<1>1. TypeOK
  <2>1. 0 \in 0..MaxProcesses
    BY MaxProcessesAssumption
  <2>2. 0 \in 0..TicksPerPoll + MaxDelay
    BY TicksAssumption, MaxDelayAssumption
  <2> QED
    BY <2>1, <2>2 DEF Init, TypeOK
<1>2. CountsAgree /\ PollsShowSilence /\ SilentOnly
  BY DEF Init, CountsAgree, PollsShowSilence, SilentOnly
<1> QED
  BY <1>1, <1>2 DEF IInv

(* The cached pid is one the view's processes had. *)
LEMMA PidCached ==
    ASSUME TypeOK, getWebProcessIdentifier
    PROVE  /\ webProcessPid' \in 0..MaxProcesses
           /\ process > 0 => webProcessPid' > 0
  BY MaxProcessesAssumption DEF TypeOK, getWebProcessIdentifier

(* A tick makes the silence longer by as much as the time since the poll. *)
LEMMA TickKeeps ==
    ASSUME IInv, Tick
    PROVE  IInv'
<1>1. /\ sincePoll \in Nat /\ silence \in Nat
      /\ sincePoll' = sincePoll + 1
      /\ UNCHANGED <<webkitVars, viewVars, unresponsivePingNum, signalled, outcome>>
  BY TicksAssumption, MaxDelayAssumption DEF IInv, TypeOK, Tick
<1>2. sincePoll' \in 0..TicksPerPoll + MaxDelay
  BY TicksAssumption, MaxDelayAssumption DEF IInv, TypeOK, Tick
<1>3. deadlines' \subseteq 0..terminateTimeout
  <2> SUFFICES ASSUME NEW d \in deadlines PROVE d - 1 \in 0..terminateTimeout
    BY DEF Tick
  <2>1. d \in 0..terminateTimeout /\ d # 0
    BY DEF IInv, TypeOK, Tick
  <2>2. terminateTimeout \in Nat
    BY TicksAssumption DEF terminateTimeout
  <2> QED
    BY <2>1, <2>2
<1>4. /\ silence' \in Nat
      /\ ~responsive => silence' = silence + 1
      /\ responsive => silence' = silence
  BY <1>1 DEF Tick
<1>5. TypeOK'
  BY <1>1, <1>2, <1>3, <1>4 DEF IInv, TypeOK, webkitVars, viewVars
<1>6. CountsAgree' /\ SilentOnly'
  BY <1>1, <1>4 DEF IInv, CountsAgree, SilentOnly, webkitVars, viewVars
<1>7. PollsShowSilence'
  <2> SUFFICES ASSUME unresponsivePingNum > 0
               PROVE  silence' >= (unresponsivePingNum - 1) * TicksPerPoll + sincePoll'
    BY <1>1 DEF PollsShowSilence, Since
  <2>1. silence' = silence + 1
    BY <1>4, <1>1 DEF IInv, SilentOnly
  <2>2. silence >= (unresponsivePingNum - 1) * TicksPerPoll + sincePoll
    BY DEF IInv, PollsShowSilence, Since
  <2>3. (unresponsivePingNum - 1) * TicksPerPoll \in Int
    BY TicksAssumption DEF IInv, TypeOK
  <2> QED
    BY <1>1, <2>1, <2>2, <2>3
<1> QED
  BY <1>5, <1>6, <1>7 DEF IInv

LEMMA StartKeeps ==
    ASSUME IInv, ProcessStarts
    PROVE  IInv'
<1>1. process' \in 0..MaxProcesses /\ process' = process + 1
  BY MaxProcessesAssumption DEF IInv, TypeOK, ProcessStarts
<1>2. processes' \subseteq 1..process'
  <2>1. processes \subseteq 1..process /\ process \in Nat
    BY MaxProcessesAssumption DEF IInv, TypeOK
  <2>2. processes' \subseteq processes \cup {process + 1}
    BY DEF ProcessStarts
  <2>3. 1..process \subseteq 1..process + 1 /\ process + 1 \in 1..process + 1
    BY <2>1
  <2> QED
    BY <1>1, <2>1, <2>2, <2>3
<1>3. UNCHANGED <<responsive, viewVars, unresponsivePingNum, sincePoll, deadlines, signalled,
                  outcome, silence>>
  BY DEF ProcessStarts
<1>4. TypeOK'
  BY <1>1, <1>2, <1>3 DEF IInv, TypeOK, viewVars
<1>5. CountsAgree' /\ PollsShowSilence' /\ SilentOnly'
  BY <1>3 DEF IInv, CountsAgree, PollsShowSilence, Since, SilentOnly, viewVars, ProcessStarts
<1> QED
  BY <1>4, <1>5 DEF IInv

LEMMA NotificationKeeps ==
    ASSUME IInv, Hangs \/ Recovers
    PROVE  IInv'
<1>1. /\ webProcessPid' \in 0..MaxProcesses
      /\ process > 0 => webProcessPid' > 0
  BY PidCached DEF IInv, Hangs, Recovers
<1>2. responsive' \in BOOLEAN
  BY DEF Hangs, Recovers
<1>3. TypeOK'
  <2>1. /\ UNCHANGED <<process, processes, sincePoll, deadlines, signalled, outcome>>
        /\ unresponsiveReplies' \in Nat /\ unresponsivePingNum' \in Nat /\ silence' \in Nat
    BY DEF IInv, TypeOK, Hangs, Recovers
  <2> QED
    BY <1>1, <1>2, <2>1 DEF IInv, TypeOK
<1>4. CountsAgree' /\ PollsShowSilence'
  BY DEF IInv, CountsAgree, PollsShowSilence, SilentOnly, Hangs, Recovers
<1>5. SilentOnly'
  BY <1>1 DEF IInv, SilentOnly, Hangs, Recovers
<1> QED
  BY <1>3, <1>4, <1>5 DEF IInv

LEMMA PollKeeps ==
    ASSUME IInv, checkBrowserResponsiveness
    PROVE  IInv'
<1>1. sincePoll >= TicksPerPoll /\ sincePoll' = 0 /\ 0 \in 0..TicksPerPoll + MaxDelay
  BY TicksAssumption, MaxDelayAssumption
  DEF checkBrowserResponsiveness, PollResponsive, PollUnresponsive, PollDue
<1>2. CASE PollResponsive
  <2>1. TypeOK'
    BY <1>1, <1>2 DEF PollResponsive, IInv, TypeOK, webkitVars
  <2> QED
    BY <1>2, <2>1 DEF PollResponsive, IInv, CountsAgree, PollsShowSilence, SilentOnly, webkitVars
<1>3. CASE PollUnresponsive
  <2> DEFINE tooLong == unresponsivePingNum' * hangPollIntervalSecs > maxUnresponsiveTimeSecs
             found == webProcessPid' \in processes
  <2>1. /\ UNCHANGED webkitVars /\ getWebProcessIdentifier /\ ~responsive
        /\ unresponsiveReplies' = unresponsiveReplies + 1
        /\ unresponsivePingNum' = unresponsivePingNum + 1
        /\ UNCHANGED silence
        /\ signalled' = IF tooLong /\ found THEN signalled \cup {webProcessPid'} ELSE signalled
        /\ deadlines' = deadlines \cup (IF tooLong /\ found THEN {terminateTimeout} ELSE {})
        /\ outcome' = IF tooLong /\ ~found THEN "exited" ELSE outcome
    BY <1>3 DEF PollUnresponsive
  <2>2. /\ webProcessPid' \in 0..MaxProcesses
        /\ process > 0 => webProcessPid' > 0
    BY <2>1, PidCached DEF IInv
  <2> HIDE DEF tooLong, found
  <2>3. signalled' \subseteq 1..MaxProcesses
    <3>1. webProcessPid' \in 1..MaxProcesses
      BY <2>1, <2>2, MaxProcessesAssumption DEF IInv, SilentOnly
    <3> QED
      BY <2>1, <3>1 DEF IInv, TypeOK
  <2>4. deadlines' \subseteq 0..terminateTimeout
    <3>1. terminateTimeout \in 0..terminateTimeout
      BY TicksAssumption DEF terminateTimeout
    <3> QED
      BY <2>1, <3>1 DEF IInv, TypeOK
  <2>5. TypeOK'
    BY <1>1, <2>1, <2>2, <2>3, <2>4 DEF IInv, TypeOK, webkitVars
  <2>6. CountsAgree'
    BY <2>1 DEF IInv, CountsAgree
  <2>7. SilentOnly'
    BY <2>1, <2>2 DEF IInv, SilentOnly, webkitVars
  <2>8. PollsShowSilence'
    <3> SUFFICES silence >= unresponsivePingNum * TicksPerPoll
      <4>1. /\ unresponsivePingNum' = unresponsivePingNum + 1 /\ unresponsivePingNum \in Nat
            /\ sincePoll' = 0 /\ silence' = silence
        BY <1>1, <2>1 DEF IInv, TypeOK
      <4>2. (unresponsivePingNum + 1) - 1 = unresponsivePingNum
        BY <4>1
      <4>3. unresponsivePingNum * TicksPerPoll \in Nat
        BY <4>1, TicksAssumption
      <4> QED
        BY <4>1, <4>2, <4>3 DEF PollsShowSilence, Since
    <3>1. /\ unresponsivePingNum \in Nat /\ silence \in Nat /\ sincePoll \in Nat
          /\ TicksPerPoll \in Nat
      BY TicksAssumption, MaxDelayAssumption DEF IInv, TypeOK
    <3>2. CASE unresponsivePingNum = 0
      BY <3>1, <3>2
    <3>3. CASE unresponsivePingNum > 0
      <4>1. silence >= (unresponsivePingNum - 1) * TicksPerPoll + sincePoll
        BY <3>3 DEF IInv, PollsShowSilence, Since
      <4>2. unresponsivePingNum * TicksPerPoll
              = (unresponsivePingNum - 1) * TicksPerPoll + TicksPerPoll
        BY <3>1, SMT
      <4>3. (unresponsivePingNum - 1) * TicksPerPoll \in Int
        BY <3>1
      <4> QED
        BY <1>1, <3>1, <4>1, <4>2, <4>3
    <3> QED
      BY <3>1, <3>2, <3>3
  <2> QED
    BY <2>5, <2>6, <2>7, <2>8 DEF IInv
<1> QED
  BY <1>2, <1>3 DEF checkBrowserResponsiveness

LEMMA EndKeeps ==
    ASSUME IInv, ExitTimer \/ \E p \in processes : ProcessEnds(p)
    PROVE  IInv'
<1>1. /\ UNCHANGED <<responsive, process, viewVars, unresponsivePingNum, sincePoll, deadlines,
                     signalled, silence>>
      /\ processes' \subseteq processes
      /\ outcome' \in {"running", "closing", "exited"}
  BY DEF ExitTimer, ProcessEnds, webkitVars, IInv, TypeOK
<1>2. TypeOK'
  BY <1>1 DEF IInv, TypeOK, viewVars
<1> QED
  BY <1>1, <1>2 DEF IInv, CountsAgree, PollsShowSilence, Since, SilentOnly, viewVars

LEMMA NextIInv == IInv /\ [Next]_vars => IInv'
<1> SUFFICES ASSUME IInv, [Next]_vars PROVE IInv'
  OBVIOUS
<1>1. CASE UNCHANGED vars
  BY <1>1 DEF vars, webkitVars, viewVars, IInv, TypeOK, CountsAgree, PollsShowSilence, Since,
              SilentOnly
<1> QED
  BY <1>1, TickKeeps, StartKeeps, NotificationKeeps, PollKeeps, EndKeeps DEF Next

-----------------------------------------------------------------------------
(***************************************************************************)
(* The counters, pids and exit timers of the hang detection stay in their  *)
(* ranges; only pids of the view's own web processes are signalled.        *)
(***************************************************************************)
THEOREM WatchdogTypeCorrect == Spec => []TypeOK
<1>1. IInv => TypeOK
  BY DEF IInv
<1> QED
  BY InitIInv, NextIInv, <1>1, PTL DEF Spec

(***************************************************************************)
(* Whatever maxUnresponsiveTimeMs is, however a hang lies between the      *)
(* polls and however late they are, a web process is sent SIGFPE, and the  *)
(* launcher gives up, only after WebKit was unresponsive for longer than   *)
(* that without a break, less one poll interval (onBrowserUnresponsive).   *)
(***************************************************************************)
THEOREM NoEarlyKill == Spec => KillsAfterTimeout
<1>1. IInv /\ [Next]_vars
      => [signalled' # signalled \/ (outcome' = "exited" /\ 0 \notin deadlines)
            => (silence' + TicksPerPoll) * hangPollIntervalSecs * 1000
                 > maxUnresponsiveTimeMs * TicksPerPoll]_vars
  <2> SUFFICES ASSUME IInv, Next,
                      signalled' # signalled \/ (outcome' = "exited" /\ 0 \notin deadlines)
               PROVE  (silence' + TicksPerPoll) * hangPollIntervalSecs * 1000
                        > maxUnresponsiveTimeMs * TicksPerPoll
    BY DEF vars
  <2>1. CASE PollUnresponsive
    <3>1. /\ unresponsivePingNum' * hangPollIntervalSecs > maxUnresponsiveTimeSecs
          /\ unresponsivePingNum' = unresponsivePingNum + 1
          /\ sincePoll' = 0
      BY <2>1 DEF PollUnresponsive, PollDue, Running
    <3>2. IInv'
      BY NextIInv
    <3>3. /\ unresponsivePingNum' \in Nat /\ silence' \in Nat
          /\ silence' >= (unresponsivePingNum' - 1) * TicksPerPoll + sincePoll'
      BY <3>1, <3>2 DEF IInv, TypeOK, PollsShowSilence, Since
    <3>4. silence' + TicksPerPoll >= unresponsivePingNum' * TicksPerPoll
      <4>1. unresponsivePingNum' * TicksPerPoll
              = (unresponsivePingNum' - 1) * TicksPerPoll + TicksPerPoll
        BY <3>3, TicksAssumption, SMT
      <4>2. (unresponsivePingNum' - 1) * TicksPerPoll \in Int
        BY <3>3, TicksAssumption
      <4> QED
        BY <3>1, <3>3, <4>1, <4>2, TicksAssumption
    <3> QED
      BY <3>1, <3>3, <3>4, TooManyPolls
  <2>2. CASE ~PollUnresponsive
    BY <2>2
    DEF Next, Tick, ProcessStarts, Hangs, Recovers, checkBrowserResponsiveness, PollResponsive,
        ExitTimer, ProcessEnds, PollDue, Running, webkitVars
  <2> QED
    BY <2>1, <2>2
<1> QED
  BY InitIInv, NextIInv, <1>1, PTL DEF Spec, KillsAfterTimeout
=============================================================================
