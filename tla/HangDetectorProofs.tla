------------------------- MODULE HangDetectorProofs -------------------------
(***************************************************************************)
(* Proofs about the hang detections of WebKitImplementation, for every     *)
(* period and every threshold.  Their hypotheses are about the division of *)
(* the two: a threshold of at least one period (limit >= 1) is what the    *)
(* counting of silent replies needs, one of two periods (limit >= 2) what  *)
(* keeps a healthy main loop.  The configurations of the plugin set the    *)
(* threshold to several periods.                                           *)
(***************************************************************************)
EXTENDS HangDetector, TLAPS

(***************************************************************************)
(* The loop's count against the clock.  The job cannot run ahead of it:    *)
(* every expiry but the first took a full period; a count that went on     *)
(* with the loop running goes back to a timer that is not due yet.         *)
(***************************************************************************)
LoopFits ==
    /\ Running => expiryCount <= limit
    /\ Running => sinceCheck + job >= expiryCount * Timeout
    /\ Running => blockedFor + job <= (expiryCount + 1) * Timeout
    /\ ~blocked => blockedFor = 0
    /\ ~wasBlocked => sinceCheck + timer = Timeout
    /\ outcome = "loop expired" => sinceCheck >= limit * Timeout /\ (limit >= 2 => wasBlocked)

(***************************************************************************)
(* The count of silent replies against those there were: below the limit   *)
(* it is backed by replies, at the limit SIGFPE was sent, once, and above  *)
(* it every further count is a reply again.                                *)
(***************************************************************************)
RepliesFit ==
    /\ responsive => unresponsiveReplyNum = 0 /\ badReplies = 0 /\ signals = 0
    /\ Running => unresponsiveReplyNum < 2 * limit
    /\ signals = IF unresponsiveReplyNum < limit THEN 0 ELSE 1
    /\ unresponsiveReplyNum < limit => badReplies >= unresponsiveReplyNum
    /\ unresponsiveReplyNum >= limit => badReplies > unresponsiveReplyNum - limit

IInv == TypeOK /\ LoopFits /\ RepliesFit

-----------------------------------------------------------------------------
(* Arithmetic of periods. *)
LEMMA Periods ==
    ASSUME NEW n \in Nat
    PROVE  /\ n * Timeout \in Nat
           /\ (n + 1) * Timeout = n * Timeout + Timeout
           /\ (n + 2) * Timeout = n * Timeout + Timeout + Timeout
           /\ n >= 2 => n * Timeout >= Timeout + Timeout
  BY TimeoutAssumption

LEMMA FewerPeriods ==
    ASSUME NEW m \in Nat, NEW n \in Nat, m <= n
    PROVE  m * Timeout <= n * Timeout
  BY TimeoutAssumption

LEMMA LimitIsNat == limit \in Nat
  BY TimeoutAssumption, ThresholdAssumption DEF limit

LEMMA Bounds ==
    /\ limit \in Nat /\ Timeout \in Nat \ {0} /\ Threshold \in Nat \ {0}
    /\ limit * Timeout \in Nat
    /\ MaxSilence \in Nat
    /\ MaxSilence = limit * Timeout + Timeout + Timeout
    /\ (limit + 1) * Timeout = limit * Timeout + Timeout
  BY LimitIsNat, Periods, TimeoutAssumption, ThresholdAssumption DEF MaxSilence

(* The counts and times are numbers in their ranges. *)
LEMMA Numbers ==
    ASSUME TypeOK
    PROVE  /\ timer \in Nat /\ timer <= Timeout
           /\ job \in Nat /\ job <= Timeout
           /\ expiryCount \in Nat
           /\ unresponsiveReplyNum \in Nat
           /\ sinceCheck \in Nat /\ sinceCheck <= MaxSilence
           /\ blockedFor \in Nat /\ blockedFor <= MaxSilence
           /\ badReplies \in Nat /\ badReplies <= 2 * limit
           /\ badFor \in Nat /\ badFor <= Threshold
           /\ killedAfter \in Nat /\ killedAfter <= Threshold
<1>1. /\ timer \in 0..Timeout /\ job \in 0..Timeout /\ expiryCount \in 0..limit + 1
      /\ unresponsiveReplyNum \in 0..2 * limit
      /\ sinceCheck \in 0..MaxSilence /\ blockedFor \in 0..MaxSilence
      /\ badReplies \in 0..2 * limit /\ badFor \in 0..Threshold /\ killedAfter \in 0..Threshold
  BY DEF TypeOK
<1> QED
  BY <1>1, Bounds

-----------------------------------------------------------------------------
LEMMA InitIInv == limit >= 1 => (Init => IInv)
<1> SUFFICES ASSUME limit >= 1, Init PROVE IInv
  OBVIOUS
<1> USE Bounds
<1>1. TypeOK
  <2>1. /\ Timeout \in 0..Timeout /\ 0 \in 0..limit + 1 /\ 0 \in 0..2 * limit
        /\ 0 \in 0..MaxSilence /\ 0 \in 0..Threshold
    OBVIOUS
  <2> QED
    BY <2>1 DEF Init, TypeOK
<1>2. LoopFits
  <2>1. 0 * Timeout = 0 /\ (0 + 1) * Timeout = Timeout
    OBVIOUS
  <2> QED
    BY <2>1 DEF Init, LoopFits, Running
<1>3. RepliesFit
  BY DEF Init, RepliesFit, Running
<1> QED
  BY <1>1, <1>2, <1>3 DEF IInv

(***************************************************************************)
(* What leaves one detection alone keeps what is known of it, also when it *)
(* takes the browser down for the other one's reasons.                     *)
(***************************************************************************)
LEMMA LoopUntouched ==
    ASSUME LoopFits, UNCHANGED <<blocked, timer, job, expiryCount, loopHistory>>,
           outcome' \in {outcome, "process expired", "failure", "exit"}
    PROVE  LoopFits'
  BY DEF LoopFits, Running, loopHistory

LEMMA RepliesUntouched ==
    ASSUME RepliesFit, UNCHANGED <<processVars, badReplies, signals>>,
           outcome' \in {outcome, "loop expired", "exit"}
    PROVE  RepliesFit'
<1>1. UNCHANGED <<unresponsiveReplyNum, responsive, badReplies, signals>>
  BY DEF processVars
<1> QED
  BY <1>1 DEF RepliesFit, Running

LEMMA BlockKeeps ==
    ASSUME limit >= 1, IInv, Block \/ Unblock
    PROVE  IInv'
<1>1. /\ UNCHANGED <<timer, job, expiryCount, processVars, state, outcome, sinceCheck, wasBlocked,
                     processHistory>>
      /\ blocked' \in BOOLEAN
      /\ ~blocked' => blockedFor' = 0
  BY DEF Block, Unblock, loopHistory
<1>2. blockedFor' = 0 \/ blockedFor' = blockedFor
  BY DEF Block, Unblock, loopHistory
<1>3. /\ expiryCount \in Nat /\ job \in Nat
      /\ blockedFor \in Nat /\ blockedFor' \in Nat /\ blockedFor' <= blockedFor
      /\ blockedFor' \in 0..MaxSilence
  BY <1>2, Numbers, Bounds DEF IInv
<1>4. TypeOK'
  BY <1>1, <1>3 DEF IInv, TypeOK, processVars, processHistory
<1>5. LoopFits'
  <2>1. (expiryCount + 1) * Timeout \in Nat
    BY <1>3, Periods, Bounds
  <2>2. Running => blockedFor' + job <= (expiryCount + 1) * Timeout
    <3> DEFINE allowed == (expiryCount + 1) * Timeout
    <3>1. Running => blockedFor + job <= allowed
      BY DEF IInv, LoopFits
    <3>2. allowed \in Nat
      BY <2>1
    <3> HIDE DEF allowed
    <3>3. blockedFor + job <= allowed => blockedFor' + job <= allowed
      <4>1. blockedFor + job <= allowed => 0 + job <= allowed
        BY <1>3, <3>2
      <4> QED
        BY <1>2, <4>1
    <3> QED
      BY <3>1, <3>3 DEF allowed
  <2> QED
    BY <1>1, <2>2 DEF IInv, LoopFits, Running
<1>6. RepliesFit'
  BY <1>1, RepliesUntouched DEF IInv, processHistory
<1> QED
  BY <1>4, <1>5, <1>6 DEF IInv

LEMMA TickKeeps ==
    ASSUME limit >= 1, IInv, Tick
    PROVE  IInv'
<1>1. /\ Running /\ job > 0 /\ (blocked \/ timer > 0)
      /\ job' = job - 1
      /\ timer' = IF timer > 0 THEN timer - 1 ELSE 0
      /\ sinceCheck' = Capped(sinceCheck, MaxSilence)
      /\ wasBlocked' = (wasBlocked \/ blocked)
      /\ blockedFor' = IF blocked THEN Capped(blockedFor, MaxSilence) ELSE 0
      /\ badFor' = IF badReplies > 0 THEN Capped(badFor, Threshold) ELSE 0
      /\ UNCHANGED <<blocked, expiryCount, processVars, state, outcome, badReplies, signals,
                     killedAfter>>
  BY DEF Tick
<1>2. /\ job \in 0..Timeout /\ timer \in 0..Timeout /\ expiryCount \in Nat
      /\ sinceCheck \in 0..MaxSilence /\ blockedFor \in 0..MaxSilence
      /\ badFor \in 0..Threshold
  BY Numbers DEF IInv, TypeOK
<1>3. expiryCount <= limit
  BY <1>1 DEF IInv, LoopFits
<1>4. /\ job' \in 0..Timeout /\ timer' \in 0..Timeout
      /\ sinceCheck' \in 0..MaxSilence /\ blockedFor' \in 0..MaxSilence
      /\ badFor' \in 0..Threshold
      /\ sinceCheck < MaxSilence => sinceCheck' = sinceCheck + 1
      /\ sinceCheck >= MaxSilence => sinceCheck' = MaxSilence
      /\ blockedFor' <= blockedFor + 1
  <2>1. job > 0 /\ job' = job - 1 /\ timer' = IF timer > 0 THEN timer - 1 ELSE 0
    BY <1>1
  <2>2. job' \in 0..Timeout /\ timer' \in 0..Timeout
    BY <1>2, <2>1, Bounds
  <2>3. sinceCheck' = Capped(sinceCheck, MaxSilence)
    BY <1>1
  <2>4. /\ sinceCheck' \in 0..MaxSilence
        /\ sinceCheck < MaxSilence => sinceCheck' = sinceCheck + 1
        /\ sinceCheck >= MaxSilence => sinceCheck' = MaxSilence
    BY <1>2, <2>3, Bounds DEF Capped
  <2>5. blockedFor' = Capped(blockedFor, MaxSilence) \/ blockedFor' = 0
    BY <1>1
  <2>6. blockedFor' \in 0..MaxSilence /\ blockedFor' <= blockedFor + 1
    BY <1>2, <2>5, Bounds DEF Capped
  <2>7. badFor' = Capped(badFor, Threshold) \/ badFor' = 0
    BY <1>1
  <2>8. badFor' \in 0..Threshold
    BY <1>2, <2>7, Bounds DEF Capped
  <2> QED
    BY <2>2, <2>4, <2>6, <2>8
<1>5. TypeOK'
  <2>1. wasBlocked' \in BOOLEAN
    BY <1>1 DEF IInv, TypeOK
  <2> QED
    BY <1>1, <1>4, <2>1 DEF IInv, TypeOK, processVars
<1>6. LoopFits'
  <2> DEFINE passed == expiryCount * Timeout
             allowed == (expiryCount + 1) * Timeout
             most == limit * Timeout
  <2>1. passed \in Nat /\ allowed \in Nat /\ most \in Nat /\ passed <= most
    BY <1>2, <1>3, Bounds, Periods, FewerPeriods
  <2>2. /\ sinceCheck + job >= passed
        /\ blockedFor + job <= allowed
        /\ ~wasBlocked => sinceCheck + timer = Timeout
    BY <1>1 DEF IInv, LoopFits
  <2>3. MaxSilence = most + Timeout + Timeout
    BY Bounds
  <2> HIDE DEF passed, allowed, most
  <2>4. job' = job - 1 /\ job > 0
    BY <1>1
  <2>5. sinceCheck + job >= passed /\ blockedFor + job <= allowed
    BY <2>2
  <2>6. sinceCheck' + job' >= passed
    <3>1. PICK c \in Nat : sinceCheck' = c
      BY <1>4, Bounds
    <3>2. IF sinceCheck < MaxSilence THEN c = sinceCheck + 1 ELSE c = MaxSilence
      BY <1>2, <1>4, <3>1, Bounds
    <3>3. c + (job - 1) >= passed
      BY <1>2, <2>1, <2>3, <2>4, <2>5, <3>2, Bounds
    <3> QED
      BY <2>4, <3>1, <3>3
  <2>7. blockedFor' + job' <= allowed
    <3>1. PICK c \in Nat : blockedFor' = c
      BY <1>4, Bounds
    <3>2. c <= blockedFor + 1
      BY <1>4, <3>1
    <3>3. c + (job - 1) <= allowed
      BY <1>2, <2>1, <2>4, <2>5, <3>2, Bounds
    <3> QED
      BY <2>4, <3>1, <3>3
  <2>8. ~wasBlocked' => sinceCheck' + timer' = Timeout
    <3>1. SUFFICES ASSUME ~wasBlocked' PROVE sinceCheck' + timer' = Timeout
      OBVIOUS
    <3>2. ~wasBlocked /\ ~blocked
      BY <1>1, <3>1
    <3>3. timer > 0 /\ sinceCheck + timer = Timeout
      BY <1>1, <2>2, <3>2
    <3>4. sinceCheck < MaxSilence
      BY <1>2, <2>1, <2>3, <3>3, Bounds
    <3>5. timer' = IF timer > 0 THEN timer - 1 ELSE 0
      BY <1>1
    <3> QED
      BY <1>2, <1>4, <3>3, <3>4, <3>5, Bounds
  <2>9. ~blocked' => blockedFor' = 0
    BY <1>1
  <2> QED
    BY <1>1, <2>6, <2>7, <2>8, <2>9 DEF IInv, LoopFits, Running, passed, allowed
<1>7. RepliesFit'
  BY <1>1, RepliesUntouched DEF IInv
<1> QED
  BY <1>5, <1>6, <1>7 DEF IInv

LEMMA CheckKeeps ==
    ASSUME limit >= 1, IInv, CheckResponsiveness
    PROVE  IInv'
<1>1. /\ Running /\ ~blocked
      /\ timer' = Timeout /\ expiryCount' = 0 /\ checking' = TRUE
      /\ sinceCheck' = 0 /\ wasBlocked' = FALSE
      /\ UNCHANGED <<blocked, job, unresponsiveReplyNum, responsive, state, outcome, blockedFor,
                     badReplies, badFor, signals, killedAfter>>
  BY DEF CheckResponsiveness, CheckWebProcess, Looping, processHistory
<1>2. TypeOK'
  <2>1. /\ Timeout \in 0..Timeout /\ 0 \in 0..limit + 1 /\ 0 \in 0..MaxSilence
    BY Bounds
  <2> QED
    BY <1>1, <2>1 DEF IInv, TypeOK
<1>3. LoopFits'
  <2>1. blockedFor' = 0 /\ job \in 0..Timeout
    BY <1>1 DEF IInv, LoopFits, TypeOK
  <2>2. 0 * Timeout = 0 /\ (0 + 1) * Timeout = Timeout
    BY Bounds
  <2>3. /\ expiryCount' <= limit
        /\ sinceCheck' + job' >= expiryCount' * Timeout
        /\ blockedFor' + job' <= (expiryCount' + 1) * Timeout
        /\ sinceCheck' + timer' = Timeout
    BY <1>1, <2>1, <2>2, Bounds
  <2> QED
    BY <1>1, <2>1, <2>3 DEF LoopFits, Running
<1>4. RepliesFit'
  BY <1>1 DEF IInv, RepliesFit, Running
<1> QED
  BY <1>2, <1>3, <1>4 DEF IInv

LEMMA DispatchKeeps ==
    ASSUME limit >= 1, IInv, Dispatch
    PROVE  IInv'
<1>1. /\ Running /\ job = 0
      /\ job' = Timeout /\ expiryCount' = expiryCount + 1
      /\ outcome' = IF expiryCount + 1 > limit THEN "loop expired" ELSE outcome
      /\ UNCHANGED <<blocked, timer, processVars, state, loopHistory, processHistory>>
  BY DEF Dispatch, expired
<1>2. job = 0 /\ job' = Timeout /\ expiryCount' = expiryCount + 1
  BY <1>1
<1>3. expiryCount \in Nat /\ expiryCount <= limit
  <2>1. expiryCount <= limit
    BY <1>1 DEF IInv, LoopFits
  <2> QED
    BY <2>1, Numbers DEF IInv
<1>4. TypeOK'
  <2>1. Timeout \in 0..Timeout /\ expiryCount' \in 0..limit + 1
    BY <1>2, <1>3, Bounds
  <2>2. outcome' \in {"running", "loop expired", "process expired", "failure", "exit"}
    BY <1>1 DEF IInv, TypeOK
  <2> QED
    BY <1>1, <2>1, <2>2 DEF IInv, TypeOK, processVars, loopHistory, processHistory
<1>5. LoopFits'
  <2> DEFINE passed == expiryCount * Timeout
  <2>1. /\ passed \in Nat
        /\ (expiryCount + 1) * Timeout = passed + Timeout
        /\ (expiryCount + 1 + 1) * Timeout = passed + Timeout + Timeout
    BY <1>3, Periods, Bounds
  <2>2. /\ sinceCheck \in Nat /\ blockedFor \in Nat
        /\ sinceCheck >= passed
        /\ blockedFor <= passed + Timeout
    <3>1. sinceCheck + job >= passed /\ blockedFor + job <= (expiryCount + 1) * Timeout
      BY <1>1 DEF IInv, LoopFits
    <3>2. sinceCheck \in Nat /\ blockedFor \in Nat
      BY Numbers DEF IInv
    <3> HIDE DEF passed
    <3> QED
      BY <1>2, <2>1, <3>1, <3>2, Bounds
  <2>3. /\ UNCHANGED <<sinceCheck, wasBlocked, blockedFor>>
    BY <1>1 DEF loopHistory
  <2>4. CASE expiryCount + 1 > limit
    <3>1. expiryCount = limit
      BY <1>3, <2>4, Bounds
    <3>2. expiryCount = limit /\ outcome' = "loop expired"
      BY <1>1, <2>4, <3>1
    <3>3. sinceCheck' >= limit * Timeout
      BY <2>2, <2>3, <3>2
    <3>4. limit >= 2 => wasBlocked'
      <4>1. SUFFICES ASSUME limit >= 2, ~wasBlocked PROVE FALSE
        BY <2>3
      <4>2. sinceCheck <= Timeout
        <5>1. sinceCheck + timer = Timeout
          BY <4>1 DEF IInv, LoopFits
        <5>2. sinceCheck \in Nat /\ timer \in Nat
          BY Numbers DEF IInv
        <5> QED
          BY <5>1, <5>2, Bounds
      <4>3. limit * Timeout >= Timeout + Timeout
        BY <4>1, Periods, Bounds
      <4> HIDE DEF passed
      <4>4. sinceCheck >= limit * Timeout
        BY <2>3, <3>3
      <4> QED
        BY <2>2, <4>2, <4>3, <4>4, Bounds
    <3> QED
      BY <1>1, <2>3, <3>2, <3>3, <3>4 DEF IInv, LoopFits, Running
  <2>5. CASE ~(expiryCount + 1 > limit)
    <3>1. expiryCount' <= limit /\ outcome' = "running"
      BY <1>1, <1>3, <2>5, Bounds DEF Running
    <3> HIDE DEF passed
    <3>2. sinceCheck' + job' >= passed + Timeout
      BY <1>2, <2>1, <2>2, <2>3, Bounds
    <3>3. blockedFor' + job' <= passed + Timeout + Timeout
      BY <1>2, <2>1, <2>2, <2>3, Bounds
    <3> QED
      BY <1>1, <2>1, <2>3, <3>1, <3>2, <3>3 DEF IInv, LoopFits, Running
  <2> QED
    BY <2>4, <2>5
<1>6. RepliesFit'
  BY <1>1, RepliesUntouched DEF IInv, processHistory
<1> QED
  BY <1>4, <1>5, <1>6 DEF IInv

-----------------------------------------------------------------------------
LEMMA SuspendResumeKeeps ==
    ASSUME limit >= 1, IInv, Suspend \/ Resume \/ Hangs \/ webProcessTerminated
    PROVE  IInv'
<1>1. /\ UNCHANGED <<loopVars, unresponsiveReplyNum, loopHistory, processHistory>>
      /\ checking' \in BOOLEAN /\ state' \in {"SUSPENDED", "RESUMED"}
      /\ responsive' \in {responsive, FALSE}
      /\ outcome' \in {outcome, "exit"}
  BY DEF Suspend, Resume, Hangs, webProcessTerminated, CheckWebProcess, processVars, IInv, TypeOK
<1>2. TypeOK'
  <2>1. responsive' \in BOOLEAN
    BY <1>1 DEF IInv, TypeOK
  <2>2. outcome' \in {"running", "loop expired", "process expired", "failure", "exit"}
    BY <1>1 DEF IInv, TypeOK
  <2> QED
    BY <1>1, <2>1, <2>2 DEF IInv, TypeOK, loopVars, loopHistory, processHistory
<1>3. LoopFits'
  BY <1>1, LoopUntouched DEF IInv, loopVars
<1>4. RepliesFit'
  <2>1. responsive' => responsive
    BY <1>1
  <2> QED
    BY <1>1, <2>1 DEF IInv, RepliesFit, Running, processHistory
<1> QED
  BY <1>2, <1>3, <1>4 DEF IInv

LEMMA ResponsiveKeeps ==
    ASSUME limit >= 1, IInv, Recovers \/ Answered
    PROVE  IInv'
<1>1. /\ UNCHANGED <<loopVars, state, outcome, loopHistory>>
      /\ unresponsiveReplyNum' = 0 /\ checking' \in BOOLEAN /\ responsive'
      /\ responsive' \in BOOLEAN
  BY DEF Recovers, Answered, IInv, TypeOK
<1>2. badReplies' = 0 /\ signals' = 0
  BY DEF Recovers, Answered, IInv, RepliesFit, processHistory
<1>3. badFor' \in 0..Threshold /\ killedAfter' \in 0..Threshold
  <2>1. badFor' \in {0, badFor} /\ killedAfter' \in {0, killedAfter}
    BY DEF Recovers, Answered, processHistory
  <2>2. badFor \in 0..Threshold /\ killedAfter \in 0..Threshold
    BY DEF IInv, TypeOK
  <2>3. 0 \in 0..Threshold
    BY Bounds
  <2> QED
    BY <2>1, <2>2, <2>3
<1>4. TypeOK'
  <2>1. 0 \in 0..2 * limit
    BY Bounds
  <2> QED
    BY <1>1, <1>2, <1>3, <2>1 DEF IInv, TypeOK, loopVars, loopHistory
<1>5. LoopFits'
  BY <1>1, LoopUntouched DEF IInv, loopVars
<1>6. RepliesFit'
  BY <1>1, <1>2, Bounds DEF RepliesFit
<1> QED
  BY <1>4, <1>5, <1>6 DEF IInv

(***************************************************************************)
(* What a silent reply does, suspended or not: it counts; the count that   *)
(* reaches the limit, or is put there, sends SIGFPE; above the limit the   *)
(* browser may be given up.                                                *)
(***************************************************************************)
LEMMA SilentReply ==
    ASSUME limit >= 1, IInv, Silent
    PROVE  LET n == unresponsiveReplyNum + 1
           IN  /\ Running /\ ~responsive
               /\ n \in 1..2 * limit
               /\ \/ /\ n <= limit /\ unresponsiveReplyNum' = limit
                     /\ kill /\ UNCHANGED outcome
                     /\ state = "RESUMED" => n = limit
                  \/ /\ n < limit /\ unresponsiveReplyNum' = n /\ spare /\ UNCHANGED outcome
                  \/ /\ n > limit /\ unresponsiveReplyNum' = n /\ spare
                     /\ \/ UNCHANGED outcome /\ n # 2 * limit
                        \/ outcome' = "failure"
                        \/ outcome' = "process expired" /\ n = 2 * limit
<1> DEFINE n == unresponsiveReplyNum + 1
<1>1. /\ Running /\ ~responsive
      /\ \/ state = "SUSPENDED" /\ SilentSuspended(n)
         \/ state = "RESUMED" /\ SilentResumed(n)
  BY DEF Silent, Looping
<1>2. n \in 1..2 * limit
  <2>1. unresponsiveReplyNum < 2 * limit
    BY <1>1 DEF IInv, RepliesFit
  <2>2. unresponsiveReplyNum \in Nat
    BY Numbers DEF IInv
  <2> QED
    BY <2>1, <2>2, Bounds
<1> HIDE DEF n
<1>3. CASE state = "SUSPENDED" /\ SilentSuspended(n)
  BY <1>1, <1>2, <1>3, Bounds DEF SilentSuspended, n
<1>4. CASE state = "RESUMED" /\ SilentResumed(n)
  <2>1. CASE n = limit
    <3>1. n <= limit
      BY <1>2, <2>1, Bounds
    <3>2. unresponsiveReplyNum' = limit /\ kill /\ UNCHANGED outcome
      BY <1>4, <2>1 DEF SilentResumed
    <3> QED
      BY <1>1, <1>2, <2>1, <3>1, <3>2 DEF n
  <2>2. CASE n # limit /\ n = 2 * limit
    <3>1. n > limit
      BY <1>2, <2>2, Bounds
    <3> QED
      BY <1>1, <1>2, <1>4, <2>2, <3>1 DEF SilentResumed, n
  <2>3. CASE n \notin {limit, 2 * limit}
    <3>1. n < limit \/ n > limit
      BY <1>2, <2>3, Bounds
    <3> QED
      BY <1>1, <1>2, <1>4, <2>3, <3>1 DEF SilentResumed, n
  <2> QED
    BY <2>1, <2>2, <2>3
<1> QED
  BY <1>1, <1>3, <1>4

(* How the count of replies backs the count that the code keeps. *)
LEMMA RepliesBack ==
    ASSUME limit >= 1, NEW u \in Nat, NEW b \in 0..2 * limit, u + 1 <= 2 * limit,
           u < limit => b >= u,
           u >= limit => b > u - limit,
           NEW c, c = Capped(b, 2 * limit),
           NEW n, n = u + 1
    PROVE  /\ c \in 1..2 * limit
           /\ c >= n \/ u >= limit
           /\ u >= limit => c > n - limit
<1>1. 2 * limit \in Nat /\ limit \in Nat
  BY Bounds
<1> QED
  BY <1>1 DEF Capped

LEMMA SilentKeeps ==
    ASSUME limit >= 1, IInv, Silent
    PROVE  IInv'
<1> DEFINE n == unresponsiveReplyNum + 1
           c == Capped(badReplies, 2 * limit)
<1>1. /\ Running /\ ~responsive
      /\ n \in 1..2 * limit
      /\ \/ /\ n <= limit /\ unresponsiveReplyNum' = limit
            /\ kill /\ UNCHANGED outcome
         \/ /\ n < limit /\ unresponsiveReplyNum' = n /\ spare /\ UNCHANGED outcome
         \/ /\ n > limit /\ unresponsiveReplyNum' = n /\ spare
            /\ \/ UNCHANGED outcome /\ n # 2 * limit
               \/ outcome' \in {"failure", "process expired"}
  BY SilentReply
<1>2. /\ checking' = FALSE /\ badReplies' = c
      /\ UNCHANGED <<loopVars, responsive, state, loopHistory, badFor>>
  BY DEF Silent
<1>3. unresponsiveReplyNum \in Nat /\ badReplies \in 0..2 * limit
  BY Numbers DEF IInv, TypeOK
<1>4. /\ signals = IF unresponsiveReplyNum < limit THEN 0 ELSE 1
      /\ unresponsiveReplyNum < limit => badReplies >= unresponsiveReplyNum
      /\ unresponsiveReplyNum >= limit => badReplies > unresponsiveReplyNum - limit
  BY DEF IInv, RepliesFit
<1>5. /\ c \in 1..2 * limit
      /\ c >= n \/ unresponsiveReplyNum >= limit
      /\ unresponsiveReplyNum >= limit => c > n - limit
  <2>1. n \in 1..2 * limit
    BY <1>1
  <2>2. unresponsiveReplyNum + 1 <= 2 * limit
    BY <1>3, <2>1, Bounds
  <2>3. /\ unresponsiveReplyNum < limit => badReplies >= unresponsiveReplyNum
        /\ unresponsiveReplyNum >= limit => badReplies > unresponsiveReplyNum - limit
    BY <1>4
  <2>4. c = Capped(badReplies, 2 * limit) /\ n = unresponsiveReplyNum + 1
    OBVIOUS
  <2> HIDE DEF c, n
  <2> QED
    BY <1>3, <2>2, <2>3, <2>4, RepliesBack
<1>6. LoopFits'
  <2>1. outcome' \in {"failure", "process expired", outcome}
    BY <1>1
  <2> QED
    BY <1>2, <2>1, LoopUntouched DEF IInv, loopVars
<1>7. /\ unresponsiveReplyNum' \in 0..2 * limit
      /\ signals' = IF unresponsiveReplyNum' < limit THEN 0 ELSE 1
      /\ unresponsiveReplyNum' < limit => c >= unresponsiveReplyNum'
      /\ unresponsiveReplyNum' >= limit => c > unresponsiveReplyNum' - limit
      /\ outcome' = "running" => unresponsiveReplyNum' < 2 * limit
  <2> HIDE DEF c
  <2>1. CASE n <= limit /\ unresponsiveReplyNum' = limit /\ kill
    <3>1. unresponsiveReplyNum < limit
      BY <1>3, <2>1, Bounds
    <3>2. signals' = 0 + 1
      BY <1>4, <2>1, <3>1 DEF kill
    <3>3. limit \in 0..2 * limit /\ ~(limit < limit) /\ c > limit - limit /\ limit < 2 * limit
      BY <1>5, Bounds
    <3> QED
      BY <2>1, <3>2, <3>3
  <2>2. CASE n < limit /\ unresponsiveReplyNum' = n /\ spare
    <3>1. unresponsiveReplyNum < limit /\ n \in 0..2 * limit /\ n < 2 * limit /\ ~(n >= limit)
      BY <1>3, <2>2, Bounds
    <3>2. signals' = 0
      BY <1>4, <2>2, <3>1 DEF spare
    <3>3. c >= n
      BY <1>3, <1>5, <3>1, Bounds
    <3> HIDE DEF n
    <3> QED
      BY <2>2, <3>1, <3>2, <3>3
  <2>3. CASE /\ n > limit /\ unresponsiveReplyNum' = n /\ spare
             /\ \/ UNCHANGED outcome /\ n # 2 * limit
                \/ outcome' \in {"failure", "process expired"}
    <3>1. ~(unresponsiveReplyNum < limit) /\ unresponsiveReplyNum >= limit
          /\ n \in 0..2 * limit /\ ~(n < limit) /\ (n # 2 * limit => n < 2 * limit)
      <4>1. n > limit /\ n \in 1..2 * limit
        BY <1>1, <2>3
      <4> QED
        BY <1>3, <4>1, Bounds
    <3>2. signals' = 1
      BY <1>4, <2>3, <3>1 DEF spare
    <3>3. c > n - limit
      BY <1>5, <3>1
    <3> HIDE DEF n
    <3> QED
      BY <2>3, <3>1, <3>2, <3>3
  <2> QED
    BY <1>1, <2>1, <2>2, <2>3
<1>8. TypeOK'
  <2>1. outcome' \in {"running", "loop expired", "process expired", "failure", "exit"}
    BY <1>1 DEF IInv, TypeOK
  <2>2. signals' \in Nat
    <3>1. signals' \in {0, 1}
      BY <1>7
    <3> QED
      BY <3>1
  <2>3. killedAfter' \in 0..Threshold
    <3>1. killedAfter' \in {badFor, killedAfter}
      BY <1>1 DEF kill, spare
    <3> QED
      BY <3>1 DEF IInv, TypeOK
  <2>4. badReplies' \in 0..2 * limit
    <3>1. c \in 0..2 * limit
      BY <1>5, Bounds
    <3> QED
      BY <1>2, <3>1
  <2> QED
    BY <1>2, <1>7, <2>1, <2>2, <2>3, <2>4 DEF IInv, TypeOK, loopVars, loopHistory
<1>9. RepliesFit'
  <2>1. ~responsive'
    BY <1>1, <1>2
  <2> HIDE DEF c
  <2> QED
    BY <1>2, <1>7, <2>1 DEF RepliesFit, Running
<1> QED
  BY <1>6, <1>8, <1>9 DEF IInv

LEMMA NextIInv == limit >= 1 => (IInv /\ [Next]_vars => IInv')
<1> SUFFICES ASSUME limit >= 1, IInv, [Next]_vars PROVE IInv'
  OBVIOUS
<1>1. CASE UNCHANGED vars
  <2>1. TypeOK'
    BY <1>1 DEF vars, loopVars, processVars, loopHistory, processHistory, IInv, TypeOK
  <2>2. LoopFits' /\ RepliesFit'
    BY <1>1, LoopUntouched, RepliesUntouched
    DEF vars, loopVars, processHistory, IInv
  <2> QED
    BY <2>1, <2>2 DEF IInv
<1> QED
  BY <1>1, BlockKeeps, TickKeeps, CheckKeeps, DispatchKeeps, SuspendResumeKeeps,
     ResponsiveKeeps, SilentKeeps
  DEF Next

-----------------------------------------------------------------------------
(***************************************************************************)
(* The counts of both detections stay in their range for every threshold   *)
(* of a period or more; in particular no silent reply is counted past the  *)
(* one that gives the process up.                                          *)
(***************************************************************************)
THEOREM CountsStayInRange == limit >= 1 => (Spec => []TypeOK)
<1> SUFFICES ASSUME limit >= 1 PROVE Spec => []TypeOK
  OBVIOUS
<1>1. IInv => TypeOK
  BY DEF IInv
<1> QED
  BY InitIInv, NextIInv, <1>1, PTL DEF Spec

(***************************************************************************)
(* With a threshold of two periods or more the browser is taken down for a *)
(* hung main loop only when the loop was blocked and silent for that many  *)
(* periods, and a loop that stays blocked is found a period later          *)
(* (HangDetector::Dispatch), however timer and job are interleaved.        *)
(***************************************************************************)
THEOREM HungLoopIsFound == limit >= 2 => (Spec => []HungLoopFound)
<1> SUFFICES ASSUME limit >= 2 PROVE Spec => []HungLoopFound
  OBVIOUS
<1>1. limit >= 1
  BY Bounds
<1>2. IInv => HungLoopFound
  <2> SUFFICES ASSUME IInv PROVE HungLoopFound
    OBVIOUS
  <2>1. Running => blockedFor <= (limit + 1) * Timeout
    <3> SUFFICES ASSUME Running PROVE blockedFor <= (limit + 1) * Timeout
      OBVIOUS
    <3> DEFINE allowed == (expiryCount + 1) * Timeout
               most == (limit + 1) * Timeout
    <3>1. expiryCount \in Nat /\ job \in Nat /\ blockedFor \in Nat /\ expiryCount + 1 <= limit + 1
      <4>1. expiryCount <= limit
        BY DEF IInv, LoopFits
      <4> QED
        BY <4>1, Numbers, Bounds DEF IInv
    <3>2. blockedFor + job <= allowed
      BY DEF IInv, LoopFits
    <3>3. allowed \in Nat /\ most \in Nat /\ allowed <= most
      BY <3>1, Bounds, Periods, FewerPeriods
    <3> HIDE DEF allowed, most
    <3>4. blockedFor <= most
      BY <3>1, <3>2, <3>3
    <3> QED
      BY <3>4 DEF most
  <2> QED
    BY <2>1 DEF IInv, LoopFits, HungLoopFound
<1> QED
  BY InitIInv, NextIInv, <1>1, <1>2, PTL DEF Spec

(***************************************************************************)
(* With a threshold of a period or more: SIGFPE and giving up are backed   *)
(* by as many silent replies as configured since the process last was      *)
(* responsive, SIGFPE is sent once, and no process is given up without it, *)
(* whatever the browser is suspended and resumed meanwhile                 *)
(* (DidReceiveWebProcessResponsivenessReply).                              *)
(***************************************************************************)
THEOREM KillHasCause == limit >= 1 => (Spec => KilledForCause)
<1> SUFFICES ASSUME limit >= 1 PROVE Spec => KilledForCause
  OBVIOUS
<1> DEFINE Cause == /\ (signals' > signals /\ state = "RESUMED") => badReplies' >= limit
                    /\ (Running /\ outcome' = "process expired") => badReplies' > limit
                    /\ signals' <= 1
                    /\ outcome' \in {"process expired", "failure"} => signals' = 1
<1>1. IInv /\ [Next]_vars => [Cause]_vars
  <2> SUFFICES ASSUME IInv, Next PROVE Cause
    BY DEF vars
  <2>1. IInv' /\ Running
    BY NextIInv
    DEF Next, Block, Unblock, Tick, CheckResponsiveness, Dispatch, Suspend, Resume, Hangs, Recovers,
        Answered, Silent, webProcessTerminated, Looping
  <2>2. /\ signals = 0 \/ signals = 1
        /\ signals' = 0 \/ signals' = 1
    BY <2>1 DEF IInv, RepliesFit
  <2>3. signals' <= 1
    BY <2>2
  <2>4. CASE Silent
    <3> DEFINE n == unresponsiveReplyNum + 1
               c == Capped(badReplies, 2 * limit)
    <3>1. /\ n \in 1..2 * limit
          /\ \/ /\ n <= limit /\ unresponsiveReplyNum' = limit
                /\ kill /\ UNCHANGED outcome
                /\ state = "RESUMED" => n = limit
             \/ /\ n < limit /\ unresponsiveReplyNum' = n /\ spare /\ UNCHANGED outcome
             \/ /\ n > limit /\ unresponsiveReplyNum' = n /\ spare
                /\ \/ UNCHANGED outcome /\ n # 2 * limit
                   \/ outcome' = "failure"
                   \/ outcome' = "process expired" /\ n = 2 * limit
      BY <2>4, SilentReply
    <3>2. unresponsiveReplyNum \in Nat /\ badReplies \in 0..2 * limit
      BY Numbers DEF IInv, TypeOK
    <3>3. badReplies' = c
      BY <2>4 DEF Silent
    <3>4. /\ unresponsiveReplyNum < limit => badReplies >= unresponsiveReplyNum
          /\ unresponsiveReplyNum >= limit => badReplies > unresponsiveReplyNum - limit
      BY DEF IInv, RepliesFit
    <3>5. /\ c \in Nat
          /\ c >= n \/ unresponsiveReplyNum >= limit
          /\ unresponsiveReplyNum >= limit => c > n - limit
      <4>1. n \in 1..2 * limit
        BY <3>1
      <4>2. unresponsiveReplyNum + 1 <= 2 * limit
        BY <3>2, <4>1, Bounds
      <4>3. c = Capped(badReplies, 2 * limit) /\ n = unresponsiveReplyNum + 1
        OBVIOUS
      <4> HIDE DEF c, n
      <4>4. /\ c \in 1..2 * limit
            /\ c >= n \/ unresponsiveReplyNum >= limit
            /\ unresponsiveReplyNum >= limit => c > n - limit
        BY <3>2, <3>4, <4>2, <4>3, RepliesBack
      <4>5. c \in Nat
        BY <4>4, Bounds
      <4> QED
        BY <4>4, <4>5
    <3> HIDE DEF c
    <3>6. n > limit => ~(unresponsiveReplyNum < limit) /\ unresponsiveReplyNum >= limit
      BY <3>2, Bounds
    <3>7. n = limit => ~(unresponsiveReplyNum >= limit)
      BY <3>2, Bounds
    <3>8. n = 2 * limit => n > limit
      BY <3>2, Bounds
    <3> HIDE DEF n
    <3>9. n = 2 * limit /\ c > n - limit => c > limit
      BY <3>5, Bounds
    <3>10. (signals' > signals /\ state = "RESUMED") => badReplies' >= limit
      <4> SUFFICES ASSUME signals' > signals, state = "RESUMED" PROVE badReplies' >= limit
        OBVIOUS
      <4>1. ~spare
        BY <2>2 DEF spare
      <4>2. n = limit
        BY <3>1, <4>1
      <4>3. c >= limit
        BY <3>5, <3>7, <4>2
      <4> QED
        BY <3>3, <4>3
    <3>11. outcome' = "process expired" => badReplies' > limit
      <4> SUFFICES ASSUME outcome' = "process expired" PROVE badReplies' > limit
        OBVIOUS
      <4>1. n = 2 * limit
        BY <2>1, <3>1 DEF Running
      <4>2. unresponsiveReplyNum >= limit
        BY <3>6, <3>8, <4>1
      <4>3. c > n - limit
        BY <3>5, <4>2
      <4>4. c > limit
        BY <3>9, <4>1, <4>3
      <4> QED
        BY <3>3, <4>4
    <3>12. outcome' \in {"process expired", "failure"} => signals' = 1
      <4> SUFFICES ASSUME outcome' \in {"process expired", "failure"} PROVE signals' = 1
        OBVIOUS
      <4>1. n > limit /\ spare
        BY <2>1, <3>1 DEF Running
      <4>2. ~(unresponsiveReplyNum < limit)
        BY <3>6, <4>1
      <4> QED
        BY <4>1, <4>2 DEF spare, IInv, RepliesFit
    <3> QED
      BY <2>3, <3>10, <3>11, <3>12
  <2>5. CASE ~Silent
    <3>1. /\ signals' = signals \/ signals' = 0
          /\ outcome' \in {"running", "loop expired", "exit"}
      BY <2>1, <2>5
      DEF Next, Block, Unblock, Tick, CheckResponsiveness, Dispatch, Suspend, Resume, Hangs,
          Recovers, Answered, webProcessTerminated, Running, processHistory
    <3>2. ~(signals' > signals)
      <4>1. ~(0 > 0) /\ ~(0 > 1) /\ ~(1 > 1)
        OBVIOUS
      <4> QED
        BY <2>2, <3>1, <4>1
    <3> QED
      BY <2>3, <3>1, <3>2
  <2> QED
    BY <2>4, <2>5
<1> QED
  BY InitIInv, NextIInv, <1>1, PTL DEF Spec, KilledForCause
=============================================================================
