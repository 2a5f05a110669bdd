--------------------------- MODULE BreakerProofs ---------------------------
(***************************************************************************)
(* Proofs about Breaker for every number of requests, every configuration  *)
(* of the breaker and every set of status codes.                           *)
(***************************************************************************)
EXTENDS Breaker, SequenceTheorems, TLAPS

\* newBreaker replaces a recovery window that is not positive by the default.
LEMMA RecoveryWindowPositive == RecoveryWindow \in Nat \ {0}
BY BreakerAssumption DEF RecoveryWindow

\* One call of report keeps the fields of the breaker in their types; in
\* particular the counter stays below Failures (trip clears it).
LEMMA ReportTypes ==
    ASSUME FSMTypeOK, NEW c \in Nat, report(c), now' = now
    PROVE  FSMTypeOK'
<1>1. CASE reportHalfOpen(c)
  <2>1. probeInFlight' = FALSE /\ consecutive' = 0 /\ state' \in BreakerStates
    BY <1>1 DEF reportHalfOpen, trip, BreakerStates
  <2>2. lastFailure' \in Nat /\ openedAt' \in Nat
    BY <1>1 DEF reportHalfOpen, trip, FSMTypeOK, ZeroTime
  <2>3. consecutive' \in 0..(Failures - 1)
    BY <2>1, BreakerAssumption
  <2> QED BY <2>1, <2>2, <2>3 DEF FSMTypeOK
<1>2. CASE reportClosed(c)
  <2> DEFINE run == IF RunBroken THEN 1 ELSE consecutive + 1
  <2>1. run \in Nat
    BY BreakerAssumption DEF FSMTypeOK
  <2>2. CASE Failure(c) /\ run >= Failures
    <3>1. trip /\ lastFailure' = now
      BY <1>2, <2>2 DEF reportClosed
    <3>2. probeInFlight' \in BOOLEAN /\ state' \in BreakerStates
      BY <3>1 DEF trip, BreakerStates
    <3>3. consecutive' \in 0..(Failures - 1)
      BY <3>1, BreakerAssumption DEF trip
    <3> QED BY <3>1, <3>2, <3>3 DEF trip, FSMTypeOK
  <2>3. CASE Failure(c) /\ ~(run >= Failures)
    BY <1>2, <2>1, <2>3, BreakerAssumption
    DEF reportClosed, FSMTypeOK, BreakerStates
  <2>4. CASE ~Failure(c)
    BY <1>2, <2>4, BreakerAssumption
    DEF reportClosed, FSMTypeOK, BreakerStates, ZeroTime
  <2> QED BY <2>2, <2>3, <2>4
<1>3. CASE reportOpen(c)
  BY <1>3 DEF reportOpen, FSMTypeOK, BreakerStates
<1> QED BY <1>1, <1>2, <1>3 DEF report

\* One call of admit keeps the fields of the breaker in their types.
LEMMA AdmitTypes ==
    ASSUME FSMTypeOK, admit, now' = now
    PROVE  FSMTypeOK'
BY DEF admit, FSMTypeOK, BreakerStates

\* Retry-After is at least one second, whatever is left of the window.
LEMMA WholeSecondsType ==
    ASSUME NEW t \in Int
    PROVE  WholeSeconds(t) \in Nat \ {0}
BY BreakerAssumption DEF WholeSeconds

\* The history of the failures since the last non-5xx stays a list of times.
LEMMA StreakType ==
    ASSUME streak \in Seq(Nat), now \in Nat, NEW c \in Nat
    PROVE  StreakAfter(c) \in Seq(Nat)
<1>1. Append(streak, now) \in Seq(Nat) /\ Append(streak, now) # <<>>
  BY AppendProperties
<1>2. Tail(Append(streak, now)) \in Seq(Nat)
  BY <1>1, HeadTailProperties
<1> QED BY <1>1, <1>2 DEF StreakAfter, Latest

\* newBreaker starts closed, with nothing counted and no request under way.
LEMMA InitTypes == Init => TypeOK
<1> SUFFICES ASSUME Init PROVE TypeOK
  OBVIOUS
<1>1. consecutive \in 0..(Failures - 1)
  BY BreakerAssumption DEF Init, newBreaker
<1>2. streak \in Seq(Nat)
  BY DEF Init
<1>3. probeInFlight \in BOOLEAN
  BY DEF Init, newBreaker
<1>4. FSMTypeOK
  BY <1>1, <1>3 DEF Init, newBreaker, FSMTypeOK, BreakerStates, ZeroTime
<1> QED BY <1>2, <1>4 DEF Init, TypeOK

\* The variables keep their types, and the failure counter never reaches the
\* threshold at rest: the increment that reaches it trips the breaker and
\* clears it in the same call of report.
THEOREM TypeCorrect == Spec => []TypeOK
<1>1. Init => TypeOK
  BY InitTypes
<1>2. TypeOK /\ [Next]_vars => TypeOK'
  <2> SUFFICES ASSUME TypeOK, [Next]_vars PROVE TypeOK'
    OBVIOUS
  <2>1. ASSUME NEW r \in Requests, Admit(r) PROVE TypeOK'
    <3>1. FSMTypeOK'
      BY <2>1, AdmitTypes DEF Admit, TypeOK
    <3> QED BY <2>1, <3>1 DEF Admit, TypeOK
  <2>2. ASSUME NEW r \in Requests, Reject(r) PROVE TypeOK'
    <3>1. retryAfter \in Nat
      <4>1. RecoveryWindow \in Int /\ RecoveryWindow - (now - openedAt) \in Int
        BY RecoveryWindowPositive DEF TypeOK, FSMTypeOK
      <4>2. /\ WholeSeconds(RecoveryWindow) \in Nat
            /\ WholeSeconds(RecoveryWindow - (now - openedAt)) \in Nat
        BY <4>1, WholeSecondsType
      <4> QED BY <4>2 DEF retryAfter
    <3> QED BY <2>2, <3>1 DEF Reject, TypeOK, FSMTypeOK
  <2>3. ASSUME NEW r \in Requests, NEW c \in StatusCodes, Report(r, c)
        PROVE  TypeOK'
    <3>0. c \in Nat
      BY CallersAssumption
    <3>1. FSMTypeOK'
      BY <2>3, <3>0, ReportTypes DEF Report, TypeOK
    <3>2. streak' \in Seq(Nat)
      BY <2>3, <3>0, StreakType DEF Report, TypeOK, FSMTypeOK
    <3>3. lastBad' \in Nat
      BY <2>3 DEF Report, TypeOK, FSMTypeOK
    <3> QED BY <2>3, <3>1, <3>2, <3>3 DEF Report, TypeOK
  <2>4. CASE Tick
    BY <2>4 DEF Tick, TypeOK, FSMTypeOK
  <2>5. CASE UNCHANGED vars
    BY <2>5 DEF vars, TypeOK, FSMTypeOK
  <2> QED BY <2>1, <2>2, <2>3, <2>4, <2>5 DEF Next
<1> QED BY <1>1, <1>2, PTL DEF Spec

-----------------------------------------------------------------------------
(***************************************************************************)
(* Safety.  The inductive invariant adds to the properties only that the   *)
(* recorded times lie in the past.                                         *)
(***************************************************************************)
ClockOrder == openedAt <= now /\ lastBad <= now /\ lastFailure <= now

IInv ==
    /\ TypeOK
    /\ ClockOrder
    /\ ProbeSlotHeld
    /\ OpenSinceLastFailure
    /\ NoStaleFailureTime
    /\ AdviceBounded

\* Truncating durations to whole seconds preserves their order.
LEMMA DivMonotone ==
    ASSUME NEW a \in Int, NEW b \in Int, NEW d \in Nat \ {0}, a <= b
    PROVE  a \div d <= b \div d
<1> DEFINE x == a \div d
           y == b \div d
<1>1. x \in Int /\ y \in Int
  OBVIOUS
<1>2. a = d * x + (a % d) /\ b = d * y + (b % d)
  OBVIOUS
<1>3. a % d \in 0..(d - 1) /\ b % d \in 0..(d - 1)
  OBVIOUS
<1>4. SUFFICES ASSUME x >= y + 1 PROVE FALSE
  BY <1>1
<1> HIDE DEF x, y
<1>5. d * x >= d * (y + 1)
  BY <1>1, <1>4
<1>6. d * (y + 1) = d * y + d
  BY <1>1
<1> QED BY <1>1, <1>2, <1>3, <1>5, <1>6

\* The Retry-After of an open breaker never exceeds that of the whole window.
LEMMA RetryAfterBounded ==
    ASSUME FSMTypeOK, ClockOrder
    PROVE  retryAfter >= 1 /\ retryAfter <= WholeSeconds(RecoveryWindow)
<1> DEFINE left == RecoveryWindow - (now - openedAt)
<1>1. RecoveryWindow \in Int /\ left \in Int /\ left <= RecoveryWindow
  BY RecoveryWindowPositive DEF FSMTypeOK, ClockOrder
<1> HIDE DEF left
<1>2. left \div TicksPerSecond <= RecoveryWindow \div TicksPerSecond
  BY <1>1, DivMonotone, BreakerAssumption
<1>3. /\ left \div TicksPerSecond \in Int
      /\ RecoveryWindow \div TicksPerSecond \in Int
  BY <1>1, BreakerAssumption
<1>4. WholeSeconds(left) <= WholeSeconds(RecoveryWindow) /\ WholeSeconds(left) >= 1
  BY <1>2, <1>3 DEF WholeSeconds
<1>5. WholeSeconds(RecoveryWindow) >= 1 /\ WholeSeconds(RecoveryWindow) \in Int
  BY <1>3 DEF WholeSeconds
<1> QED BY <1>4, <1>5 DEF retryAfter, left

\* Every call of admit and report, in any order, keeps the invariant.
LEMMA BreakerInvariant == Spec => []IInv
<1>1. Init => IInv
  <2> SUFFICES ASSUME Init, TypeOK PROVE IInv
    BY InitTypes
  <2>1. ProbeSlotHeld
    BY DEF Init, newBreaker, ProbeSlotHeld
  <2>2. AdviceBounded
    <3>1. WholeSeconds(RecoveryWindow) \in Nat \ {0}
      BY WholeSecondsType, RecoveryWindowPositive
    <3> QED BY <3>1 DEF Init, AdviceBounded
  <2>3. ClockOrder /\ OpenSinceLastFailure /\ NoStaleFailureTime
    BY DEF Init, newBreaker, ClockOrder, OpenSinceLastFailure,
           NoStaleFailureTime, ZeroTime
  <2> QED BY <2>1, <2>2, <2>3 DEF IInv
<1>2. IInv /\ TypeOK' /\ [Next]_vars => IInv'
  <2> SUFFICES ASSUME IInv, TypeOK', [Next]_vars PROVE IInv'
    OBVIOUS
  <2> USE DEF IInv
  <2>1. ASSUME NEW r \in Requests, Admit(r) PROVE IInv'
    <3>1. ProbeSlotHeld'
      <4>1. CASE state = "closed"
        BY <2>1, <4>1 DEF Admit, admit, ProbeSlotHeld
      <4>2. CASE state # "closed"
        BY <2>1, <4>2 DEF Admit, admit, ProbeSlotHeld
      <4> QED BY <4>1, <4>2
    <3>2. ClockOrder' /\ AdviceBounded'
      BY <2>1 DEF Admit, admit, ClockOrder, AdviceBounded, WholeSeconds, RecoveryWindow
    <3>3. OpenSinceLastFailure'
      BY <2>1 DEF Admit, admit, OpenSinceLastFailure
    <3>4. NoStaleFailureTime'
      BY <2>1 DEF Admit, admit, NoStaleFailureTime, TypeOK, FSMTypeOK, BreakerStates
    <3> QED BY <3>1, <3>2, <3>3, <3>4
  <2>2. ASSUME NEW r \in Requests, Reject(r) PROVE IInv'
    <3>1. AdviceBounded'
      BY <2>2, RetryAfterBounded
      DEF Reject, AdviceBounded, TypeOK, WholeSeconds, RecoveryWindow
    <3> QED
      BY <2>2, <3>1
      DEF Reject, ClockOrder, ProbeSlotHeld, OpenSinceLastFailure, NoStaleFailureTime
  <2>3. ASSUME NEW r \in Requests, NEW c \in StatusCodes, Report(r, c)
        PROVE  IInv'
    <3>0. c \in Nat /\ now' = now /\ advice' = advice
      BY <2>3, CallersAssumption DEF Report
    <3>1. AdviceBounded'
      BY <3>0 DEF AdviceBounded, WholeSeconds, RecoveryWindow
    <3>2. CASE reportHalfOpen(c)
      <4>1. ProbeSlotHeld'
        BY <3>2 DEF reportHalfOpen, trip, ProbeSlotHeld
      <4>2. ClockOrder'
        BY <2>3, <3>0, <3>2
        DEF Report, reportHalfOpen, trip, ClockOrder, TypeOK, FSMTypeOK, ZeroTime
      <4>3. OpenSinceLastFailure' /\ NoStaleFailureTime'
        BY <2>3, <3>0, <3>2
        DEF Report, reportHalfOpen, trip, OpenSinceLastFailure,
            NoStaleFailureTime, TypeOK, FSMTypeOK, ZeroTime
      <4> QED BY <3>1, <4>1, <4>2, <4>3
    <3>3. CASE reportClosed(c)
      <4>1. state' # "halfOpen" /\ (probeInFlight' = probeInFlight \/ probeInFlight' = FALSE)
        BY <3>3 DEF reportClosed, trip
      <4>2. ProbeSlotHeld'
        BY <3>3, <4>1 DEF reportClosed, ProbeSlotHeld
      <4>3. ClockOrder'
        BY <2>3, <3>0, <3>3
        DEF Report, reportClosed, trip, ClockOrder, TypeOK, FSMTypeOK, ZeroTime
      <4>4. OpenSinceLastFailure'
        BY <2>3, <3>0, <3>3
        DEF Report, reportClosed, trip, OpenSinceLastFailure, TypeOK, FSMTypeOK, ZeroTime
      <4>5. NoStaleFailureTime'
        BY <2>3, <3>0, <3>3, BreakerAssumption
        DEF Report, reportClosed, trip, NoStaleFailureTime, TypeOK, FSMTypeOK, ZeroTime
      <4> QED BY <3>1, <4>2, <4>3, <4>4, <4>5
    <3>4. CASE reportOpen(c)
      <4>1. ProbeSlotHeld' /\ NoStaleFailureTime'
        BY <3>4 DEF reportOpen, ProbeSlotHeld, NoStaleFailureTime
      <4>2. ClockOrder' /\ OpenSinceLastFailure'
        BY <2>3, <3>0, <3>4
        DEF Report, reportOpen, ClockOrder, OpenSinceLastFailure, TypeOK, FSMTypeOK, ZeroTime
      <4> QED BY <3>1, <4>1, <4>2
    <3> QED BY <2>3, <3>2, <3>3, <3>4 DEF Report, report
  <2>4. CASE Tick
    BY <2>4
    DEF Tick, ClockOrder, ProbeSlotHeld, OpenSinceLastFailure, NoStaleFailureTime,
        AdviceBounded, WholeSeconds, RecoveryWindow, TypeOK, FSMTypeOK
  <2>5. CASE UNCHANGED vars
    BY <2>5
    DEF vars, ClockOrder, ProbeSlotHeld, OpenSinceLastFailure, NoStaleFailureTime,
        AdviceBounded, WholeSeconds, RecoveryWindow
  <2> QED BY <2>1, <2>2, <2>3, <2>4, <2>5 DEF Next
<1> QED BY <1>1, <1>2, TypeCorrect, PTL DEF Spec

\* While the breaker is half-open its one probe is still out, and in no other
\* state is the probe slot taken (admit, report).
THEOREM ProbeNeverLeaked == Spec => []ProbeSlotHeld
<1>1. IInv => ProbeSlotHeld
  BY DEF IInv
<1> QED BY <1>1, BreakerInvariant, PTL

\* The recovery window of an open breaker starts at the latest 5xx, whoever
\* reported it (report, trip).
THEOREM RecoveryFromLastFailure == Spec => []OpenSinceLastFailure
<1>1. IInv => OpenSinceLastFailure
  BY DEF IInv
<1> QED BY <1>1, BreakerInvariant, PTL

\* A failure time left over from before a trip never reaches a new run (report).
THEOREM RunsStartFresh == Spec => []NoStaleFailureTime
<1>1. IInv => NoStaleFailureTime
  BY DEF IInv
<1> QED BY <1>1, BreakerInvariant, PTL

\* Retry-After lies between a second and the recovery window (admit).
THEOREM AdviceInRange == Spec => []AdviceBounded
<1>1. IInv => AdviceBounded
  BY DEF IInv
<1> QED BY <1>1, BreakerInvariant, PTL

-----------------------------------------------------------------------------
(***************************************************************************)
(* The counter.  The incremental count is the longest suffix without a gap *)
(* because the invariant also knows where the run begins: the failure just *)
(* before it, if it is remembered, is more than Window away.               *)
(***************************************************************************)
Counted ==
    LET n == Len(streak)
        c == consecutive
    IN /\ n <= Failures /\ c <= n
       /\ c = 0 => n = 0
       /\ c > 0 => lastFailure = streak[n]
       /\ Window > 0 => \A i \in (n - c + 2)..n : streak[i] - streak[i - 1] <= Window
       /\ c < n => Window > 0 /\ streak[n - c + 1] - streak[n - c] > Window

RunInv == state = "closed" => Counted

\* A counted failure extends the run or, after a gap, starts one; a run that is
\* as long as the history that is kept has its oldest failure dropped (report).
LEMMA FailureCounted ==
    ASSUME IInv, Counted, state = "closed", NEW c \in Nat, Failure(c), reportClosed(c),
           streak' = StreakAfter(c), state' = "closed"
    PROVE  Counted'
<1> DEFINE n == Len(streak)
           s == Append(streak, now)
           run == IF RunBroken THEN 1 ELSE consecutive + 1
<1>1. /\ streak \in Seq(Nat) /\ n \in Nat /\ consecutive \in Nat /\ now \in Nat
      /\ Failures \in Nat \ {0} /\ Window \in Nat /\ lastFailure \in Nat
  BY BreakerAssumption DEF IInv, TypeOK, FSMTypeOK
<1>2. /\ s \in Seq(Nat) /\ Len(s) = n + 1 /\ s[n + 1] = now
      /\ \A i \in 1..n : s[i] = streak[i]
  BY <1>1, AppendProperties
<1>3. consecutive' = run /\ run < Failures /\ lastFailure' = now
  BY <1>1 DEF reportClosed, trip
<1>4. streak' = IF n + 1 > Failures THEN Tail(s) ELSE s
  BY <1>2 DEF StreakAfter, Latest
<1>5. /\ n <= Failures /\ consecutive <= n
      /\ consecutive = 0 => n = 0
      /\ consecutive > 0 => lastFailure = streak[n]
      /\ Window > 0 => \A i \in (n - consecutive + 2)..n : streak[i] - streak[i - 1] <= Window
      /\ consecutive < n =>
             Window > 0 /\ streak[n - consecutive + 1] - streak[n - consecutive] > Window
  BY DEF Counted
<1>6. lastFailure = 0 <=> consecutive = 0
  BY DEF IInv, NoStaleFailureTime, ZeroTime
<1> HIDE DEF n, s
\* The run in the history as it is before its oldest entry may go
<1>7. /\ run \in 1..(n + 1)
      /\ Window > 0 => \A i \in (n - run + 3)..(n + 1) : s[i] - s[i - 1] <= Window
      /\ run < n + 1 => Window > 0 /\ s[n - run + 2] - s[n - run + 1] > Window
  <2>1. CASE RunBroken
    <3>1. run = 1 /\ Window > 0 /\ consecutive > 0 /\ now - streak[n] > Window
      BY <2>1, <1>1, <1>5, <1>6 DEF RunBroken, ZeroTime
    <3>2. n \in 1..n /\ s[n] = streak[n]
      BY <3>1, <1>1, <1>2, <1>5
    <3> QED BY <3>1, <3>2, <1>1, <1>2
  <2>2. CASE ~ RunBroken
    <3>1. run = consecutive + 1
      BY <2>2
    <3>2. ASSUME Window > 0, NEW i \in (n - run + 3)..(n + 1)
          PROVE  s[i] - s[i - 1] <= Window
      <4>1. CASE i = n + 1
        <5>1. consecutive > 0 /\ n \in 1..n
          BY <4>1, <3>1, <1>1, <1>5
        <5>2. now - streak[n] <= Window
          BY <5>1, <2>2, <3>2, <1>1, <1>5, <1>6 DEF RunBroken, ZeroTime
        <5> QED BY <4>1, <5>1, <5>2, <1>1, <1>2
      <4>2. CASE i # n + 1
        <5>1. i \in (n - consecutive + 2)..n /\ i \in 1..n /\ i - 1 \in 1..n
          BY <4>2, <3>1, <1>1, <1>5
        <5> QED BY <5>1, <3>2, <1>2, <1>5
      <4> QED BY <4>1, <4>2
    <3>3. ASSUME run < n + 1
          PROVE  Window > 0 /\ s[n - run + 2] - s[n - run + 1] > Window
      <4>1. /\ consecutive < n /\ consecutive > 0
            /\ n - run + 2 = n - consecutive + 1 /\ n - run + 1 = n - consecutive
            /\ n - consecutive + 1 \in 1..n /\ n - consecutive \in 1..n
        BY <3>1, <3>3, <1>1, <1>5
      <4> QED BY <4>1, <1>2, <1>5
    <3>4. run \in 1..(n + 1)
      BY <3>1, <1>1, <1>5
    <3> QED BY <3>2, <3>3, <3>4
  <2> QED BY <2>1, <2>2
<1>8. CASE n + 1 <= Failures
  <2>1. streak' = s
    BY <1>8, <1>1, <1>4
  <2>2. run # 0 /\ (n + 1) - run + 2 = n - run + 3 /\ (n + 1) - run + 1 = n - run + 2
        /\ (n + 1) - run = n - run + 1
    BY <1>1, <1>7
  <2> HIDE DEF run
  <2> QED BY <2>1, <2>2, <1>1, <1>2, <1>3, <1>7, <1>8 DEF Counted
<1>9. CASE n + 1 > Failures
  <2>1. n = Failures /\ streak' = Tail(s)
    BY <1>9, <1>1, <1>4, <1>5
  <2>2. Len(streak') = n /\ \A i \in 1..n : streak'[i] = s[i + 1]
    BY <2>1, <1>1, <1>2, HeadTailProperties
  <2>3. run \in 1..(n - 1)
    BY <2>1, <1>1, <1>3, <1>7
  <2> HIDE DEF run
  <2>4. ASSUME Window > 0, NEW i \in (n - run + 2)..n
        PROVE  streak'[i] - streak'[i - 1] <= Window
    <3>1. i \in 1..n /\ i - 1 \in 1..n /\ i + 1 \in (n - run + 3)..(n + 1) /\ (i - 1) + 1 = i
          /\ (i + 1) - 1 = i
      BY <2>3, <1>1
    <3> QED BY <3>1, <2>2, <2>4, <1>7
  <2>5. Window > 0 /\ streak'[n - run + 1] - streak'[n - run] > Window
    <3>1. /\ n - run + 1 \in 1..n /\ n - run \in 1..n
          /\ (n - run + 1) + 1 = n - run + 2 /\ (n - run) + 1 = n - run + 1 /\ run < n + 1
      BY <2>3, <1>1
    <3> QED BY <3>1, <2>2, <1>7
  <2>6. streak'[n] = now /\ n \in 1..n
    BY <2>2, <2>3, <1>1, <1>2
  <2>7. n <= Failures /\ run <= n /\ run # 0
    BY <2>1, <2>3, <1>1
  <2>8. Len(streak') = n /\ consecutive' = run /\ lastFailure' = now
    BY <2>2, <1>3
  <2> QED BY <2>4, <2>5, <2>6, <2>7, <2>8 DEF Counted
<1> QED BY <1>1, <1>8, <1>9

\* Every call keeps the count and the history in step (admit, report).
LEMMA RunStep == IInv /\ RunInv /\ [Next]_vars => RunInv'
<1> SUFFICES ASSUME IInv, RunInv, [Next]_vars, state' = "closed"
             PROVE  Counted'
  BY DEF RunInv
<1>1. ASSUME NEW r \in Requests, Admit(r)
      PROVE  Counted'
  BY <1>1 DEF Admit, admit, RunInv, Counted
<1>2. ASSUME NEW r \in Requests, Reject(r)
      PROVE  Counted'
  BY <1>2 DEF Reject, RunInv, Counted
<1>3. ASSUME NEW r \in Requests, NEW c \in StatusCodes, Report(r, c)
      PROVE  Counted'
  <2>1. c \in Nat /\ streak' = StreakAfter(c)
    BY <1>3, CallersAssumption DEF Report
  <2>2. CASE reportClosed(c) /\ Failure(c)
    BY <2>1, <2>2, FailureCounted DEF RunInv, reportClosed
  <2>3. CASE ~ (reportClosed(c) /\ Failure(c))
    <3>1. streak' = <<>> /\ consecutive' = 0
      BY <1>3, <2>1, <2>3
      DEF Report, report, reportHalfOpen, reportClosed, reportOpen, trip, StreakAfter
    <3>2. Failures \in Nat
      BY BreakerAssumption
    <3> QED BY <3>1, <3>2 DEF Counted
  <2> QED BY <2>2, <2>3
<1>4. CASE Tick
  BY <1>4 DEF Tick, RunInv, Counted
<1>5. CASE UNCHANGED vars
  BY <1>5 DEF vars, RunInv, Counted
<1> QED BY <1>1, <1>2, <1>3, <1>4, <1>5 DEF Next

\* A longer run would contain the gap that the counted one begins after.
LEMMA CountedIsRun == IInv /\ RunInv => CountIsRun
<1> SUFFICES ASSUME IInv, Counted, state = "closed"
             PROVE  consecutive \in RunLengths /\ \A k \in RunLengths : k <= consecutive
  BY DEF RunInv, CountIsRun
<1> DEFINE n == Len(streak)
<1>1. n \in Nat /\ consecutive \in Nat /\ Window \in Nat
  BY BreakerAssumption DEF IInv, TypeOK, FSMTypeOK
<1>2. consecutive \in RunLengths
  BY <1>1 DEF Counted, RunLengths
<1>3. ASSUME NEW k \in RunLengths, k > consecutive
      PROVE  FALSE
  <2>1. k \in 0..n
    BY DEF RunLengths
  <2>2. consecutive < n /\ consecutive > 0
    BY <1>1, <1>3, <2>1 DEF Counted
  <2>3. Window > 0 /\ streak[n - consecutive + 1] - streak[n - consecutive] > Window
    BY <2>2 DEF Counted
  <2> DEFINE i == n - consecutive + 1
  <2>4. i \in (n - k + 2)..n /\ i - 1 = n - consecutive /\ i \in 1..n /\ i - 1 \in 1..n
    BY <1>1, <1>3, <2>1, <2>2
  <2>5. streak[i] - streak[i - 1] <= Window
    BY <2>3, <2>4 DEF RunLengths
  <2>6. streak[i] \in Nat /\ streak[i - 1] \in Nat
    BY <2>4 DEF IInv, TypeOK
  <2> QED BY <1>1, <2>3, <2>4, <2>5, <2>6
<1>4. \A k \in RunLengths : k \in Nat
  BY <1>1 DEF RunLengths
<1> QED BY <1>1, <1>2, <1>3, <1>4

\* For every threshold, window and order of reports: what report counts is the
\* length of the longest run of failures, the latest ones since the last
\* non-5xx, in which no two neighbours are more than Window apart.
THEOREM CountExact == Spec => []CountIsRun
<1>1. Init => RunInv
  BY BreakerAssumption DEF Init, newBreaker, RunInv, Counted
<1> QED BY <1>1, RunStep, CountedIsRun, BreakerInvariant, PTL DEF Spec

-----------------------------------------------------------------------------
\* The breaker implements the fuse: it never lets a request through that the
\* fuse stops.  A half-open breaker lets nobody through because its probe flag
\* is set (ProbeSlotHeld); Reject and the ghost variables are stuttering steps.
THEOREM Refinement == Spec => FuseSpec
<1>1. Init => F!Init
  BY DEF Init, newBreaker, F!Init, ZeroTime
<1>2. ProbeSlotHeld /\ TypeOK /\ [Next]_vars => [F!Next]_(F!vars)
  <2> SUFFICES ASSUME ProbeSlotHeld, TypeOK, [Next]_vars
               PROVE  [F!Next]_(F!vars)
    OBVIOUS
  <2>1. ASSUME NEW r \in Requests, Admit(r) PROVE F!LetThrough(r)
    <3>1. state # "halfOpen"
      BY <2>1 DEF Admit, admit, AdmitOK, ProbeSlotHeld
    <3>2. CASE state = "closed"
      BY <2>1, <3>2 DEF Admit, admit, F!LetThrough
    <3>3. CASE state = "open"
      BY <2>1, <3>3 DEF Admit, admit, AdmitOK, Recovered, F!LetThrough
    <3> QED BY <3>1, <3>2, <3>3 DEF TypeOK, FSMTypeOK, BreakerStates
  <2>2. ASSUME NEW r \in Requests, Reject(r) PROVE UNCHANGED F!vars
    BY <2>2 DEF Reject, F!vars
  <2>3. ASSUME NEW r \in Requests, NEW c \in StatusCodes, Report(r, c)
        PROVE  F!Settle(r)
    <3>1. CASE reportHalfOpen(c)
      BY <2>3, <3>1 DEF Report, reportHalfOpen, trip, F!Settle, F!Blow
    <3>2. CASE reportClosed(c)
      BY <2>3, <3>2 DEF Report, reportClosed, trip, F!Settle, F!Blow
    <3>3. CASE reportOpen(c)
      BY <2>3, <3>3 DEF Report, reportOpen, F!Settle, F!Blow
    <3> QED BY <2>3, <3>1, <3>2, <3>3 DEF Report, report
  <2>4. CASE Tick
    BY <2>4 DEF Tick, F!Next, F!Tick
  <2>5. CASE UNCHANGED vars
    BY <2>5 DEF vars, F!vars
  <2> QED BY <2>1, <2>2, <2>3, <2>4, <2>5 DEF Next, F!Next
<1> QED BY <1>1, <1>2, ProbeNeverLeaked, TypeCorrect, PTL DEF Spec, FuseSpec, F!Spec

=============================================================================
