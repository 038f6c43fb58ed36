----------------------- MODULE FingerprintLockoutProofs -----------------------
(***************************************************************************)
(* What FingerprintLockout promises for every threshold, duration and      *)
(* number of timer threads.                                                *)
(***************************************************************************)
EXTENDS FingerprintLockout, FiniteSetTheorems, TLAPS

(***************************************************************************)
(* LockoutIsEarned speaks of a thread about to announce a lockout; the     *)
(* number of failures must already stand behind each value on its way      *)
(* there: the counter, the count the vendor thread holds, the branch it    *)
(* took, and the mode.  A reset that no call crosses leaves nothing of the *)
(* attempts before it: while it runs the other handler is at rest, and     *)
(* once its first store is made the count stays 0.                         *)
(***************************************************************************)
Counted(n) == n <= failures \/ failures = PermanentThreshold

HoldsCount == {"weigh", "weighTimed"}
LoadOK ==
  /\ pc["vendor"] = "count" => local["vendor"] \in 0 .. MaxFailures - 1
  /\ pc["vendor"] \in HoldsCount => local["vendor"] \in 0 .. MaxFailures

CountOK ==
  /\ Counted(mFailedCount)
  /\ pc["vendor"] = "count" => Counted(local["vendor"] + 1)
  /\ pc["vendor"] \in HoldsCount => Counted(local["vendor"])

TimedLabels == {"timed", "left", "tell"}
ModeOK ==
  /\ mCurrentMode = "timed" \/ pc["vendor"] = "lockTimed"
         \/ (\E p \in Handlers : pc[p] \in TimedLabels)
       => failures >= TimedThreshold
  /\ mCurrentMode = "permanent" \/ pc["vendor"] = "lockPermanent"
         \/ (\E p \in Handlers : pc[p] = "permanent")
       => failures >= PermanentThreshold

ResetOK ==
  ~crossed => \A p \in Handlers : Resetting(p) =>
    /\ \A q \in Handlers \ {p} : pc[q] = "idle"
    /\ pc[p] # "reset" => mFailedCount = 0

(* The labels of a timer's thread, and of no other. *)
TimerLabels == {"idle", "asleep", "clear", "unlock", "cleared", "over", "rearm"}
PlaceOK ==
  /\ \A h \in Handlers : pc[h] \notin {"asleep", "over", "rearm"}
  /\ pc["vendor"] # "cleared"
  /\ \A t \in Timers : pc[t] \in TimerLabels

EarnedOK == ~tainted => CountOK /\ ModeOK

EarnedInv == TypeOK /\ LoadOK /\ PlaceOK /\ ResetOK /\ EarnedOK

USE ThresholdAssumption, BoundAssumption, ThreadAssumption

(* A step of Next, one case per action, with the thread that takes it. *)
LEMMA StepCases ==
  ASSUME Next
  PROVE  \/ Fails \/ Succeeds \/ OnPointerDown \/ ResetLockout \/ Tick
         \/ Attempts
         \/ \E p \in Threads : Continues(p)
         \/ \E t \in Timers : Wakes(t) \/ Ends(t) \/ Rearms(t)
BY DEF Next, Runs, Expires, Threads

(* What a thread holds: a count, a time left, or nothing. *)
Locals == -2 .. MaxFailures + Duration + 1

LEMMA LocalZero == 0 \in Locals /\ Locals \subseteq Int
BY DEF Locals

LEMMA ThreadFacts ==
  /\ Threads = Handlers \cup Timers /\ Handlers = {"vendor", "binder"}
  /\ "vendor" \in Threads /\ "binder" \in Threads /\ Timers \subseteq Threads
  /\ "vendor" \notin Timers /\ "binder" \notin Timers
BY DEF Threads, Handlers

LEMMA LoadStep ==
  ASSUME TypeOK, LoadOK, [Next]_vars
  PROVE  LoadOK'
<1> USE ThreadFacts
    DEF TypeOK, Labels, LoadOK, HoldsCount, tracker, flags, threads, history
<1>1. CASE Fails
  BY <1>1 DEF Fails, Calls, Begin
<1>2. CASE Succeeds \/ ResetLockout
  BY <1>2 DEF Succeeds, ResetLockout, Resets, Begin
<1>3. CASE OnPointerDown
  BY <1>3 DEF OnPointerDown, Calls, Begin
<1>4. CASE Tick
  BY <1>4 DEF Tick
<1>5. CASE Attempts
  <2>1. CASE Counts
    BY <2>1 DEF Counts, Goto
  <2>2. CASE Weighs
    BY <2>2 DEF Weighs, Weighed, Goto
  <2>3. CASE LocksPermanent
    BY <2>3 DEF LocksPermanent, Goto
  <2>4. CASE WeighsTimed
    BY <2>4 DEF WeighsTimed, Weighed, Goto
  <2>5. CASE LocksTimed \/ Stamps
    BY <2>5 DEF LocksTimed, Stamps, Goto
  <2> QED
    BY <1>5, <2>1, <2>2, <2>3, <2>4, <2>5 DEF Attempts
<1>6. ASSUME NEW t \in Timers, Wakes(t) \/ Ends(t) \/ Rearms(t)
      PROVE  LoadOK'
  BY <1>6 DEF Wakes, Ends, Rearms, Begin, Goto
<1>7. ASSUME NEW p \in Threads, Continues(p)
      PROVE  LoadOK'
  <2>1. CASE ResetsCount(p) \/ ResetsStart(p)
    BY <2>1 DEF ResetsCount, ResetsStart, Goto
  <2>2. CASE ResetsMode(p)
    BY <2>2 DEF ResetsMode, Forgives, Goto
  <2>3. CASE ReadsMode(p)
    BY <2>3 DEF ReadsMode, Verdict, Modes, Goto
  <2>4. CASE TestsElapsed(p) \/ ExpiresMode(p) \/ ForgetsStart(p)
    BY <2>4 DEF TestsElapsed, ExpiresMode, ForgetsStart, Verdict, Goto
  <2>5. CASE Answers(p)
    BY <2>5 DEF Answers, Verdict, Modes, Goto
  <2>6. CASE TellsPermanent(p) \/ TellsCleared(p) \/ TellsTimed(p)
    BY <2>6 DEF TellsPermanent, TellsCleared, TellsTimed, Goto
  <2>7. CASE TestsStart(p) \/ ReadsLeft(p)
    BY <2>7 DEF TestsStart, ReadsLeft, Goto
  <2>8. CASE TestsStarted(p)
    BY <2>8 DEF TestsStarted, Goto
  <2>9. CASE Unaborts(p) \/ MarksStarted(p) \/ Aborts(p)
    BY <2>9 DEF Unaborts, MarksStarted, Aborts, Goto
  <2>10. ASSUME NEW t \in Timers, Spawns(p, t)
        PROVE  LoadOK'
    BY <2>10 DEF Spawns
  <2> QED
    BY <1>7, <2>1, <2>2, <2>3, <2>4, <2>5, <2>6, <2>7, <2>8, <2>9, <2>10 DEF Continues
<1>8. CASE UNCHANGED vars
  BY <1>8 DEF vars
<1> QED
  BY <1>1, <1>2, <1>3, <1>4, <1>5, <1>6, <1>7, <1>8, StepCases

LEMMA PlaceStep ==
  ASSUME TypeOK, PlaceOK, [Next]_vars
  PROVE  PlaceOK'
<1> USE ThreadFacts DEF TypeOK, PlaceOK, TimerLabels, tracker, flags, threads, history
<1>1. CASE Fails
  BY <1>1 DEF Fails, Calls, Begin
<1>2. CASE Succeeds \/ ResetLockout
  BY <1>2 DEF Succeeds, ResetLockout, Resets, Begin
<1>3. CASE OnPointerDown
  BY <1>3 DEF OnPointerDown, Calls, Begin
<1>4. CASE Tick
  BY <1>4 DEF Tick
<1>5. CASE Attempts
  <2>1. CASE Counts
    BY <2>1 DEF Counts, Goto
  <2>2. CASE Weighs
    BY <2>2 DEF Weighs, Weighed, Goto
  <2>3. CASE LocksPermanent
    BY <2>3 DEF LocksPermanent, Goto
  <2>4. CASE WeighsTimed
    BY <2>4 DEF WeighsTimed, Weighed, Goto
  <2>5. CASE LocksTimed \/ Stamps
    BY <2>5 DEF LocksTimed, Stamps, Goto
  <2> QED
    BY <1>5, <2>1, <2>2, <2>3, <2>4, <2>5 DEF Attempts
<1>6. ASSUME NEW t \in Timers, Wakes(t) \/ Ends(t) \/ Rearms(t)
      PROVE  PlaceOK'
  BY <1>6 DEF Wakes, Ends, Rearms, Begin, Goto
<1>7. ASSUME NEW p \in Threads, Continues(p)
      PROVE  PlaceOK'
  <2>1. CASE ResetsCount(p) \/ ResetsStart(p)
    BY <2>1 DEF ResetsCount, ResetsStart, Goto
  <2>2. CASE ResetsMode(p)
    BY <2>2 DEF ResetsMode, Forgives, Goto
  <2>3. CASE ReadsMode(p)
    BY <2>3 DEF ReadsMode, Verdict, Modes, Goto
  <2>4. CASE TestsElapsed(p) \/ ExpiresMode(p) \/ ForgetsStart(p)
    BY <2>4 DEF TestsElapsed, ExpiresMode, ForgetsStart, Verdict, Goto
  <2>5. CASE Answers(p)
    BY <2>5 DEF Answers, Verdict, Modes, Goto
  <2>6. CASE TellsPermanent(p) \/ TellsCleared(p) \/ TellsTimed(p)
    BY <2>6 DEF TellsPermanent, TellsCleared, TellsTimed, Goto
  <2>7. CASE TestsStart(p) \/ ReadsLeft(p)
    BY <2>7 DEF TestsStart, ReadsLeft, Goto
  <2>8. CASE TestsStarted(p)
    BY <2>8 DEF TestsStarted, Goto
  <2>9. CASE Unaborts(p) \/ MarksStarted(p) \/ Aborts(p)
    BY <2>9 DEF Unaborts, MarksStarted, Aborts, Goto
  <2>10. ASSUME NEW t \in Timers, Spawns(p, t)
        PROVE  PlaceOK'
    BY <2>10 DEF Spawns
  <2> QED
    BY <1>7, <2>1, <2>2, <2>3, <2>4, <2>5, <2>6, <2>7, <2>8, <2>9, <2>10 DEF Continues
<1>8. CASE UNCHANGED vars
  BY <1>8 DEF vars
<1> QED
  BY <1>1, <1>2, <1>3, <1>4, <1>5, <1>6, <1>7, <1>8, StepCases

LEMMA ResetStep ==
  ASSUME TypeOK, PlaceOK, ResetOK, [Next]_vars
  PROVE  ResetOK'
<1> USE ThreadFacts
    DEF TypeOK, Labels, PlaceOK, TimerLabels, ResetOK, Resetting, InCall, tracker,
        flags, threads, history
<1>1. CASE Fails
  <2>1. /\ pc["vendor"] = "idle" /\ pc' = [pc EXCEPT !["vendor"] = "count"]
        /\ crossed' = (crossed \/ \E q \in Handlers \ {"vendor"} : Resetting(q))
        /\ mFailedCount' = mFailedCount
    BY <1>1 DEF Fails, Calls, Begin
  <2> QED
    BY <2>1
<1>2. ASSUME NEW h \in Handlers, pc[h] = "idle", Resets(h), UNCHANGED tracker
      PROVE  ResetOK'
  <2>1. pc' = [pc EXCEPT ![h] = "reset"]
    BY <1>2 DEF Resets, Begin
  <2>2. crossed' = \E q \in Handlers \ {h} : InCall(q)
    BY <1>2 DEF Resets
  <2>3. ~crossed' => \A q \in Handlers \ {h} : pc[q] = "idle"
    BY <2>2
  <2> QED
    BY <2>1, <2>3
<1>3. CASE OnPointerDown
  BY <1>3 DEF OnPointerDown, Calls, Begin
<1>4. CASE Tick
  BY <1>4 DEF Tick
<1>5. CASE Attempts
  <2>1. CASE Counts
    BY <2>1 DEF Counts, Goto
  <2>2. CASE Weighs
    BY <2>2 DEF Weighs, Weighed, Goto
  <2>3. CASE LocksPermanent
    BY <2>3 DEF LocksPermanent, Goto
  <2>4. CASE WeighsTimed
    BY <2>4 DEF WeighsTimed, Weighed, Goto
  <2>5. CASE LocksTimed \/ Stamps
    BY <2>5 DEF LocksTimed, Stamps, Goto
  <2> QED
    BY <1>5, <2>1, <2>2, <2>3, <2>4, <2>5 DEF Attempts
<1>6. ASSUME NEW t \in Timers, Wakes(t) \/ Ends(t) \/ Rearms(t)
      PROVE  ResetOK'
  BY <1>6 DEF Wakes, Ends, Rearms, Begin, Goto
<1>7. ASSUME NEW p \in Threads, Continues(p)
      PROVE  ResetOK'
  <2>1. CASE ResetsCount(p) \/ ResetsStart(p)
    BY <2>1 DEF ResetsCount, ResetsStart, Goto
  <2>2. CASE ResetsMode(p)
    BY <2>2 DEF ResetsMode, Forgives, Goto
  <2>3. CASE ReadsMode(p)
    BY <2>3 DEF ReadsMode, Verdict, Modes, Goto
  <2>4. CASE TestsElapsed(p) \/ ExpiresMode(p) \/ ForgetsStart(p)
    BY <2>4 DEF TestsElapsed, ExpiresMode, ForgetsStart, Verdict, Goto
  <2>5. CASE Answers(p)
    BY <2>5 DEF Answers, Verdict, Modes, Goto
  <2>6. CASE TellsPermanent(p) \/ TellsCleared(p) \/ TellsTimed(p)
    BY <2>6 DEF TellsPermanent, TellsCleared, TellsTimed, Goto
  <2>7. CASE TestsStart(p) \/ ReadsLeft(p)
    BY <2>7 DEF TestsStart, ReadsLeft, Goto
  <2>8. CASE TestsStarted(p)
    BY <2>8 DEF TestsStarted, Goto
  <2>9. CASE Unaborts(p) \/ MarksStarted(p) \/ Aborts(p)
    BY <2>9 DEF Unaborts, MarksStarted, Aborts, Goto
  <2>10. ASSUME NEW t \in Timers, Spawns(p, t)
        PROVE  ResetOK'
    BY <2>10 DEF Spawns
  <2> QED
    BY <1>7, <2>1, <2>2, <2>3, <2>4, <2>5, <2>6, <2>7, <2>8, <2>9, <2>10 DEF Continues
<1>8. CASE UNCHANGED vars
  BY <1>8 DEF vars
<1> QED
  BY <1>1, <1>2, <1>3, <1>4, <1>5, <1>6, <1>7, <1>8, StepCases DEF Succeeds, ResetLockout

(* Only a reset by a handler changes what the failures are counted from. *)
LEMMA TaintStep ==
  ASSUME [Next]_vars, \A p \in Handlers : ~ResetsMode(p)
  PROVE  tainted' = tainted
<1> USE ThreadFacts DEF tracker, flags, threads, history
<1>1. CASE Fails
  BY <1>1 DEF Fails, Calls, Begin
<1>2. CASE Succeeds \/ ResetLockout
  BY <1>2 DEF Succeeds, ResetLockout, Resets, Begin
<1>3. CASE OnPointerDown
  BY <1>3 DEF OnPointerDown, Calls, Begin
<1>4. CASE Tick
  BY <1>4 DEF Tick
<1>5. CASE Attempts
  <2>1. CASE Counts
    BY <2>1 DEF Counts, Goto
  <2>2. CASE Weighs
    BY <2>2 DEF Weighs, Weighed, Goto
  <2>3. CASE LocksPermanent
    BY <2>3 DEF LocksPermanent, Goto
  <2>4. CASE WeighsTimed
    BY <2>4 DEF WeighsTimed, Weighed, Goto
  <2>5. CASE LocksTimed \/ Stamps
    BY <2>5 DEF LocksTimed, Stamps, Goto
  <2> QED
    BY <1>5, <2>1, <2>2, <2>3, <2>4, <2>5 DEF Attempts
<1>6. ASSUME NEW t \in Timers, Wakes(t) \/ Ends(t) \/ Rearms(t)
      PROVE  tainted' = tainted
  BY <1>6 DEF Wakes, Ends, Rearms, Begin, Goto
<1>7. ASSUME NEW p \in Threads, Continues(p)
      PROVE  tainted' = tainted
  <2>1. CASE ResetsCount(p) \/ ResetsStart(p)
    BY <2>1 DEF ResetsCount, ResetsStart, Goto
  <2>2. CASE ResetsMode(p)
    <3>1. p \in Timers
      BY <2>2
    <3> QED
      BY <2>2, <3>1 DEF ResetsMode, Forgives, Goto
  <2>3. CASE ReadsMode(p)
    BY <2>3 DEF ReadsMode, Verdict, Modes, Goto
  <2>4. CASE TestsElapsed(p) \/ ExpiresMode(p) \/ ForgetsStart(p)
    BY <2>4 DEF TestsElapsed, ExpiresMode, ForgetsStart, Verdict, Goto
  <2>5. CASE Answers(p)
    BY <2>5 DEF Answers, Verdict, Modes, Goto
  <2>6. CASE TellsPermanent(p) \/ TellsCleared(p) \/ TellsTimed(p)
    BY <2>6 DEF TellsPermanent, TellsCleared, TellsTimed, Goto
  <2>7. CASE TestsStart(p) \/ ReadsLeft(p)
    BY <2>7 DEF TestsStart, ReadsLeft, Goto
  <2>8. CASE TestsStarted(p)
    BY <2>8 DEF TestsStarted, Goto
  <2>9. CASE Unaborts(p) \/ MarksStarted(p) \/ Aborts(p)
    BY <2>9 DEF Unaborts, MarksStarted, Aborts, Goto
  <2>10. ASSUME NEW t \in Timers, Spawns(p, t)
        PROVE  tainted' = tainted
    BY <2>10 DEF Spawns
  <2> QED
    BY <1>7, <2>1, <2>2, <2>3, <2>4, <2>5, <2>6, <2>7, <2>8, <2>9, <2>10 DEF Continues
<1>8. CASE UNCHANGED vars
  BY <1>8 DEF vars
<1> QED
  BY <1>1, <1>2, <1>3, <1>4, <1>5, <1>6, <1>7, <1>8, StepCases

LEMMA CountStep ==
  ASSUME TypeOK, LoadOK, CountOK, [Next]_vars,
         \A p \in Handlers : ~ResetsMode(p)
  PROVE  CountOK'
<1> USE ThreadFacts
    DEF TypeOK, Labels, LoadOK, HoldsCount, CountOK, Counted, tracker, flags, threads,
        history
<1>1. CASE Fails
  BY <1>1 DEF Fails, Calls, Begin
<1>2. CASE Succeeds \/ ResetLockout
  BY <1>2 DEF Succeeds, ResetLockout, Resets, Begin
<1>3. CASE OnPointerDown
  BY <1>3 DEF OnPointerDown, Calls, Begin
<1>4. CASE Tick
  BY <1>4 DEF Tick
<1>5. CASE Attempts
  <2>1. CASE Counts
    BY <2>1 DEF Counts, Goto
  <2>2. CASE Weighs
    BY <2>2 DEF Weighs, Weighed, Goto
  <2>3. CASE LocksPermanent
    BY <2>3 DEF LocksPermanent, Goto
  <2>4. CASE WeighsTimed
    BY <2>4 DEF WeighsTimed, Weighed, Goto
  <2>5. CASE LocksTimed \/ Stamps
    BY <2>5 DEF LocksTimed, Stamps, Goto
  <2> QED
    BY <1>5, <2>1, <2>2, <2>3, <2>4, <2>5 DEF Attempts
<1>6. ASSUME NEW t \in Timers, Wakes(t) \/ Ends(t) \/ Rearms(t)
      PROVE  CountOK'
  BY <1>6 DEF Wakes, Ends, Rearms, Begin, Goto
<1>7. ASSUME NEW p \in Threads, Continues(p)
      PROVE  CountOK'
  <2>1. CASE ResetsCount(p) \/ ResetsStart(p)
    BY <2>1 DEF ResetsCount, ResetsStart, Goto
  <2>2. CASE ResetsMode(p)
    <3>1. p \in Timers
      BY <2>2
    <3> QED
      BY <2>2, <3>1 DEF ResetsMode, Forgives, Goto
  <2>3. CASE ReadsMode(p)
    BY <2>3 DEF ReadsMode, Verdict, Modes, Goto
  <2>4. CASE TestsElapsed(p) \/ ExpiresMode(p) \/ ForgetsStart(p)
    BY <2>4 DEF TestsElapsed, ExpiresMode, ForgetsStart, Verdict, Goto
  <2>5. CASE Answers(p)
    BY <2>5 DEF Answers, Verdict, Modes, Goto
  <2>6. CASE TellsPermanent(p) \/ TellsCleared(p) \/ TellsTimed(p)
    BY <2>6 DEF TellsPermanent, TellsCleared, TellsTimed, Goto
  <2>7. CASE TestsStart(p) \/ ReadsLeft(p)
    BY <2>7 DEF TestsStart, ReadsLeft, Goto
  <2>8. CASE TestsStarted(p)
    BY <2>8 DEF TestsStarted, Goto
  <2>9. CASE Unaborts(p) \/ MarksStarted(p) \/ Aborts(p)
    BY <2>9 DEF Unaborts, MarksStarted, Aborts, Goto
  <2>10. ASSUME NEW t \in Timers, Spawns(p, t)
        PROVE  CountOK'
    BY <2>10 DEF Spawns
  <2> QED
    BY <1>7, <2>1, <2>2, <2>3, <2>4, <2>5, <2>6, <2>7, <2>8, <2>9, <2>10 DEF Continues
<1>8. CASE UNCHANGED vars
  BY <1>8 DEF vars
<1> QED
  BY <1>1, <1>2, <1>3, <1>4, <1>5, <1>6, <1>7, <1>8, StepCases

LEMMA ModeStep ==
  ASSUME TypeOK, LoadOK, PlaceOK, CountOK, ModeOK, [Next]_vars,
         \A p \in Handlers : ~ResetsMode(p)
  PROVE  ModeOK'
<1> USE ThreadFacts
    DEF TypeOK, Labels, LoadOK, HoldsCount, CountOK, Counted, ModeOK, TimedLabels,
                       PlaceOK, TimerLabels, tracker, flags, threads, history
<1>1. CASE Fails
  BY <1>1 DEF Fails, Calls, Begin
<1>2. ASSUME NEW h \in Handlers, Resets(h), UNCHANGED <<tracker, history>>
      PROVE  ModeOK'
  <2>1. pc' = [pc EXCEPT ![h] = "reset"] /\ mCurrentMode' = mCurrentMode /\ failures' = failures
    BY <1>2 DEF Resets, Begin
  <2> QED
    BY <2>1
<1>3. CASE OnPointerDown
  BY <1>3 DEF OnPointerDown, Calls, Begin
<1>4. CASE Tick
  BY <1>4 DEF Tick
<1>5. CASE Attempts
  <2>1. CASE Counts
    BY <2>1 DEF Counts, Goto
  <2>2. CASE Weighs
    BY <2>2 DEF Weighs, Weighed, Goto
  <2>3. CASE LocksPermanent
    BY <2>3 DEF LocksPermanent, Goto
  <2>4. CASE WeighsTimed
    BY <2>4 DEF WeighsTimed, Weighed, Goto
  <2>5. CASE LocksTimed \/ Stamps
    BY <2>5 DEF LocksTimed, Stamps, Goto
  <2> QED
    BY <1>5, <2>1, <2>2, <2>3, <2>4, <2>5 DEF Attempts
<1>6. ASSUME NEW t \in Timers, Wakes(t) \/ Ends(t) \/ Rearms(t)
      PROVE  ModeOK'
  BY <1>6 DEF Wakes, Ends, Rearms, Begin, Goto
<1>7. ASSUME NEW p \in Threads, Continues(p)
      PROVE  ModeOK'
  <2>1. CASE ResetsCount(p) \/ ResetsStart(p)
    BY <2>1 DEF ResetsCount, ResetsStart, Goto
  <2>2. CASE ResetsMode(p)
    <3>1. p \in Timers
      BY <2>2
    <3> QED
      BY <2>2, <3>1 DEF ResetsMode, Forgives, Goto
  <2>3. CASE ReadsMode(p)
    BY <2>3 DEF ReadsMode, Verdict, Modes, Goto
  <2>4. CASE TestsElapsed(p) \/ ExpiresMode(p) \/ ForgetsStart(p)
    BY <2>4 DEF TestsElapsed, ExpiresMode, ForgetsStart, Verdict, Goto
  <2>5. CASE Answers(p)
    BY <2>5 DEF Answers, Verdict, Modes, Goto
  <2>6. CASE TellsPermanent(p) \/ TellsCleared(p) \/ TellsTimed(p)
    BY <2>6 DEF TellsPermanent, TellsCleared, TellsTimed, Goto
  <2>7. CASE TestsStart(p) \/ ReadsLeft(p)
    BY <2>7 DEF TestsStart, ReadsLeft, Goto
  <2>8. CASE TestsStarted(p)
    BY <2>8 DEF TestsStarted, Goto
  <2>9. CASE Unaborts(p) \/ MarksStarted(p) \/ Aborts(p)
    BY <2>9 DEF Unaborts, MarksStarted, Aborts, Goto
  <2>10. ASSUME NEW t \in Timers, Spawns(p, t)
        PROVE  ModeOK'
    BY <2>10 DEF Spawns
  <2> QED
    BY <1>7, <2>1, <2>2, <2>3, <2>4, <2>5, <2>6, <2>7, <2>8, <2>9, <2>10 DEF Continues
<1>8. CASE UNCHANGED vars
  BY <1>8 DEF vars
<1> QED
  BY <1>1, <1>2, <1>3, <1>4, <1>5, <1>6, <1>7, <1>8, StepCases DEF Succeeds, ResetLockout

(* After a reset that no call crossed, nothing of the attempts before it    *)
(* is on its way to a lockout.                                             *)
LEMMA ForgivenStep ==
  ASSUME TypeOK, ResetOK, NEW p \in Handlers, ResetsMode(p), ~tainted'
  PROVE  CountOK' /\ ModeOK'
<1>1. ~crossed /\ failures' = 0 /\ mCurrentMode' = "none" /\ Resetting(p)
  BY DEF ResetsMode, Forgives, Resetting
<1>2. mFailedCount' = 0 /\ mFailedCount = 0
  BY <1>1 DEF ResetOK, ResetsMode
<1>3. \A q \in Handlers : pc'[q] \in {"idle", "cleared"}
  BY <1>1, ThreadFacts DEF ResetOK, ResetsMode, Goto, TypeOK
<1> QED
  BY <1>1, <1>2, <1>3, ThreadFacts
     DEF CountOK, Counted, ModeOK, TimedLabels, HoldsCount

LEMMA EarnedStep ==
  ASSUME EarnedInv, [Next]_vars
  PROVE  EarnedOK'
<1>1. CASE \A p \in Handlers : ~ResetsMode(p)
  BY <1>1, TaintStep, CountStep, ModeStep DEF EarnedInv, EarnedOK
<1>2. ASSUME NEW p \in Handlers, ResetsMode(p)
      PROVE  EarnedOK'
  BY <1>2, ForgivenStep DEF EarnedInv, EarnedOK
<1> QED
  BY <1>1, <1>2

LEMMA TypeStep ==
  ASSUME TypeOK, LoadOK, [Next]_vars
  PROVE  TypeOK'
<1> USE ThreadFacts
    DEF TypeOK, Labels, Modes, Ages, Zero, tracker, flags, threads, history, vars,
        Begin, Goto
<1>0. local \in [Threads -> Locals]
  BY DEF Locals
<1>1. CASE Fails
  BY <1>1 DEF Fails, Calls
<1>2. CASE Succeeds \/ OnPointerDown \/ ResetLockout
  BY <1>2, ZenonT(40) DEF Succeeds, OnPointerDown, ResetLockout, Calls, Resets
<1>3. CASE Attempts
  <2>1. CASE Counts
    BY <2>1 DEF Counts, LoadOK
  <2>2. CASE Weighs \/ WeighsTimed
    <3>1. local' \in [Threads -> Locals]
      BY <1>0, <2>2, LocalZero DEF Weighs, WeighsTimed
    <3> QED
      BY <2>2, <3>1 DEF Weighs, WeighsTimed, Locals
  <2>3. CASE LocksPermanent \/ LocksTimed \/ Stamps
    BY <2>3 DEF LocksPermanent, LocksTimed, Stamps
  <2> QED
    BY <1>3, <2>1, <2>2, <2>3 DEF Attempts
<1>5. CASE Tick
  BY <1>5 DEF Tick
<1>6. ASSUME NEW t \in Timers, Wakes(t) \/ Ends(t) \/ Rearms(t)
      PROVE  TypeOK'
  <2>1. local' \in [Threads -> Locals]
    BY <1>0, <1>6, LocalZero DEF Wakes, Ends, Rearms
  <2> QED
    BY <1>6, <2>1, ZenonT(40) DEF Wakes, Ends, Rearms, Locals
<1>7. ASSUME NEW p \in Threads, Continues(p)
      PROVE  TypeOK'
  <2>1. CASE ResetsCount(p) \/ ResetsStart(p)
    BY <2>1 DEF ResetsCount, ResetsStart
  <2>2. CASE ResetsMode(p)
    BY <2>2 DEF ResetsMode, Forgives
  <2>3. CASE ReadsMode(p) \/ TestsElapsed(p) \/ Answers(p)
    BY <2>3 DEF ReadsMode, TestsElapsed, Answers, Verdict
  <2>4. CASE ExpiresMode(p) \/ ForgetsStart(p)
    BY <2>4 DEF ExpiresMode, ForgetsStart, Verdict
  <2>5. CASE TellsPermanent(p) \/ TellsCleared(p) \/ TellsTimed(p) \/ TestsStart(p)
    BY <2>5 DEF TellsPermanent, TellsCleared, TellsTimed, TestsStart
  <2>6. CASE ReadsLeft(p)
    BY <2>6 DEF ReadsLeft
  <2>7. CASE TestsStarted(p)
    <3>1. local' \in [Threads -> Locals]
      BY <1>0, <2>7, LocalZero DEF TestsStarted
    <3> QED
      BY <2>7, <3>1 DEF TestsStarted, Locals
  <2>9. CASE Aborts(p) \/ MarksStarted(p) \/ Unaborts(p)
    BY <2>9, ZenonT(40) DEF Aborts, MarksStarted, Unaborts
  <2>8. ASSUME NEW t \in Timers, Spawns(p, t)
        PROVE  TypeOK'
    <3>1. local' \in [Threads -> Locals]
      BY <1>0, <2>8, LocalZero DEF Spawns
    <3> QED
      BY <2>8, <3>1 DEF Spawns, Locals
  <2> QED
    BY <1>7, <2>1, <2>2, <2>3, <2>4, <2>5, <2>6, <2>7, <2>9, <2>8 DEF Continues
<1>8. CASE UNCHANGED vars
  BY <1>8
<1> QED
  BY <1>1, <1>2, <1>3, <1>5, <1>6, <1>7, <1>8, StepCases

(***************************************************************************)
(* The tracker, the flags and the threads keep their types, and neither    *)
(* the counter nor the mode runs ahead of the failures, for any thresholds *)
(* and timers.                                                             *)
(***************************************************************************)
THEOREM LockoutInvariant == Spec => []EarnedInv
<1>1. Init => EarnedInv
  <2> SUFFICES ASSUME Init
               PROVE  EarnedInv
    OBVIOUS
  <2>1. local \in [Threads -> Locals]
    BY LocalZero DEF Init
  <2>2. TypeOK
    <3>1. mFailedCount \in 0 .. MaxFailures /\ failures \in 0 .. PermanentThreshold
      BY DEF Init
    <3>2. pc \in [Threads -> Labels]
      BY DEF Init, Labels
    <3> QED
      BY <2>1, <3>1, <3>2 DEF Init, TypeOK, Locals
  <2>3. LoadOK /\ PlaceOK /\ ResetOK
    BY ThreadFacts DEF Init, LoadOK, HoldsCount, PlaceOK, TimerLabels, ResetOK, Resetting
  <2>4. EarnedOK
    <3>1. ASSUME ~tainted PROVE mCurrentMode = "none"
      BY <3>1 DEF Init
    <3>2. CountOK
      BY ThreadFacts DEF Init, CountOK, Counted, HoldsCount
    <3>3. \A p \in Handlers : pc[p] = "idle"
      BY ThreadFacts DEF Init
    <3> QED
      BY <3>1, <3>2, <3>3, ThreadFacts DEF EarnedOK, ModeOK, TimedLabels
  <2> QED
    BY <2>2, <2>3, <2>4 DEF EarnedInv
<1>2. EarnedInv /\ [Next]_vars => EarnedInv'
  BY TypeStep, LoadStep, PlaceStep, ResetStep, EarnedStep DEF EarnedInv
<1> QED
  BY <1>1, <1>2, PTL DEF Spec

(* TypeOK holds for any thresholds, duration and number of timer threads. *)
THEOREM LockoutTypeCorrect == Spec => []TypeOK
<1>1. EarnedInv => TypeOK
  BY DEF EarnedInv
<1> QED
  BY <1>1, LockoutInvariant, PTL

(* LockoutIsEarned: whatever the threads interleave, a lockout is announced *)
(* only when that many attempts failed since the last success or            *)
(* resetLockout, unless that reset was crossed by the other handler's call  *)
(* or the session was born locked out and not reset yet.                    *)
THEOREM LockoutIsEarnedHolds == Spec => []LockoutIsEarned
<1>1. EarnedInv => LockoutIsEarned
  BY DEF EarnedInv, EarnedOK, ModeOK, TimedLabels, LockoutIsEarned
<1> QED
  BY <1>1, LockoutInvariant, PTL

-----------------------------------------------------------------------------
(***************************************************************************)
(* The timer flag.  While no call has overlapped another, at most one      *)
(* thread is inside a call; a timer thread lives from the spawn in         *)
(* startLockoutTimer to the store of the flag in lockoutTimerExpired, and  *)
(* the flag, or the caller on its way to set it, says so.                  *)
(***************************************************************************)
Alive(t) == pc[t] \notin {"idle", "rearm"}
Marking == \E p \in Threads : pc[p] = "started"
Unstarted == {"unabort", "spawn", "started", "rearm"}

SerialOK ==
  ~overlapped =>
    /\ \A p, q \in Threads : InCall(p) /\ InCall(q) => p = q
    /\ \A t, u \in Timers : Alive(t) /\ Alive(u) => t = u
    /\ (\E t \in Timers : Alive(t)) <=> (mIsLockoutTimerStarted \/ Marking)
    /\ \A p \in Threads : pc[p] \in Unstarted => ~mIsLockoutTimerStarted

SerialInv == TypeOK /\ PlaceOK /\ SerialOK

(* A thread moves on inside its call, or returns, and leaves the flag. *)
LEMMA SerialGoto ==
  ASSUME TypeOK, PlaceOK, SerialOK, NEW p \in Threads, NEW l \in Labels,
         InCall(p), pc[p] # "started", l # "started",
         l \in Unstarted => pc[p] \in Unstarted \/ ~mIsLockoutTimerStarted,
         p \in Timers => l \notin {"idle", "rearm"} /\ pc[p] # "rearm",
         p \in Handlers => l # "asleep",
         Goto(p, l), mIsLockoutTimerStarted' = mIsLockoutTimerStarted
  PROVE  SerialOK'
BY DEF TypeOK, PlaceOK, SerialOK, Unstarted, Goto, InCall, Alive, Marking, Threads

(* A thread begins a call, and leaves the flag. *)
LEMMA SerialBegin ==
  ASSUME TypeOK, PlaceOK, SerialOK, NEW p \in Threads, NEW l \in Labels,
         ~InCall(p), l \notin Unstarted, l \notin {"idle", "asleep", "rearm"},
         p \in Timers => Alive(p),
         Begin(p, l), mIsLockoutTimerStarted' = mIsLockoutTimerStarted
  PROVE  SerialOK'
BY ZenonT(40) DEF TypeOK, PlaceOK, SerialOK, Unstarted, Begin, InCall, Alive, Marking, Threads

LEMMA SerialStep ==
  ASSUME TypeOK, PlaceOK, SerialOK, [Next]_vars
  PROVE  SerialOK'
<1> USE ThreadFacts DEF flags, Labels, Unstarted
<1>1. CASE Fails \/ Succeeds \/ OnPointerDown \/ ResetLockout
  BY <1>1, SerialBegin
     DEF Fails, Succeeds, OnPointerDown, ResetLockout, Calls, Resets, InCall, Alive
<1>2. CASE Attempts
  BY <1>2, SerialGoto
     DEF Attempts, Counts, Weighs, LocksPermanent, WeighsTimed, LocksTimed, Stamps, InCall
<1>3. CASE Tick
  BY <1>3 DEF Tick, SerialOK, InCall, Alive, Marking
<1>4. ASSUME NEW t \in Timers, Wakes(t)
      PROVE  SerialOK'
  BY <1>4, SerialBegin DEF Wakes, InCall, Alive
<1>5. ASSUME NEW t \in Timers, Ends(t)
      PROVE  SerialOK'
  BY <1>5 DEF Ends, Goto, TypeOK, SerialOK, InCall, Alive, Marking
<1>9. ASSUME NEW t \in Timers, Rearms(t)
      PROVE  SerialOK'
  BY <1>9 DEF Rearms, Goto, TypeOK, SerialOK, InCall, Alive, Marking
<1>6. ASSUME NEW p \in Threads, Continues(p)
      PROVE  SerialOK'
  <2>1. p \in Timers => pc[p] \in TimerLabels
    BY DEF PlaceOK
  <2>2. CASE ResetsCount(p) \/ ResetsStart(p) \/ ResetsMode(p)
    BY <2>1, <2>2, SerialGoto
       DEF ResetsCount, ResetsStart, ResetsMode, InCall
  <2>3. CASE ReadsMode(p) \/ TestsElapsed(p) \/ ExpiresMode(p) \/ ForgetsStart(p) \/ Answers(p)
    BY <2>1, <2>3, SerialGoto
       DEF ReadsMode, TestsElapsed, Verdict, ExpiresMode, ForgetsStart, Answers, Modes,
           TypeOK, InCall, TimerLabels
  <2>4. CASE TellsPermanent(p) \/ TellsCleared(p) \/ TellsTimed(p) \/ TestsStart(p)
             \/ ReadsLeft(p)
    BY <2>1, <2>4, SerialGoto
       DEF TellsPermanent, TellsCleared, TellsTimed, TestsStart, ReadsLeft, InCall,
           TimerLabels
  <2>5. CASE Aborts(p) \/ TestsStarted(p) \/ Unaborts(p)
    BY <2>1, <2>5, SerialGoto DEF Aborts, TestsStarted, Unaborts, InCall, TimerLabels
  <2>6. CASE MarksStarted(p)
    BY <2>1, <2>6
       DEF MarksStarted, Goto, TypeOK, SerialOK, InCall, Alive, Marking, TimerLabels
  <2>7. ASSUME NEW t \in Timers, Spawns(p, t)
        PROVE  SerialOK'
    BY <2>1, <2>7
       DEF Spawns, TypeOK, SerialOK, InCall, Alive, Marking, TimerLabels
  <2> QED
    BY <1>6, <2>2, <2>3, <2>4, <2>5, <2>6, <2>7 DEF Continues
<1>7. CASE UNCHANGED vars
  BY <1>7 DEF vars, threads, SerialOK, InCall, Alive, Marking
<1> QED
  BY <1>1, <1>2, <1>3, <1>4, <1>5, <1>9, <1>6, <1>7, StepCases

LEMMA OneOrNone ==
  ASSUME SerialInv
  PROVE  StartedMeansOneTimer
<1> SUFFICES ASSUME Quiet, ~overlapped
             PROVE  Cardinality({t \in Timers : pc[t] = "asleep"}) =
                      IF mIsLockoutTimerStarted THEN 1 ELSE 0
  BY DEF StartedMeansOneTimer
<1>1. ~Marking /\ \A t \in Timers : Alive(t) <=> pc[t] = "asleep"
  BY DEF Quiet, InCall, Marking, Alive, Threads
<1>2. CASE mIsLockoutTimerStarted
  <2>1. PICK t \in Timers : {u \in Timers : pc[u] = "asleep"} = {t}
    BY <1>1, <1>2 DEF SerialInv, SerialOK
  <2> QED
    BY <1>2, <2>1, FS_Singleton
<1>3. CASE ~mIsLockoutTimerStarted
  <2>1. {u \in Timers : pc[u] = "asleep"} = {}
    BY <1>1, <1>3 DEF SerialInv, SerialOK
  <2> QED
    BY <1>3, <2>1, FS_EmptySet
<1> QED
  BY <1>2, <1>3

(* StartedMeansOneTimer: as long as calls do not overlap, the flag says    *)
(* whether a timer thread is alive, and there are never two, for any       *)
(* thresholds and any duration.                                            *)
THEOREM StartedMeansOneTimerHolds == Spec => []StartedMeansOneTimer
<1>1. Init => PlaceOK /\ SerialOK
  BY DEF Init, PlaceOK, SerialOK, Unstarted, TimerLabels, InCall, Alive, Marking, Threads,
         Handlers
<1>2. TypeOK /\ PlaceOK /\ SerialOK /\ [Next]_vars => (PlaceOK /\ SerialOK)'
  BY PlaceStep, SerialStep
<1>3. TypeOK /\ PlaceOK /\ SerialOK => StartedMeansOneTimer
  BY OneOrNone DEF SerialInv
<1> QED
  BY <1>1, <1>2, <1>3, LockoutTypeCorrect, PTL DEF Spec
-----------------------------------------------------------------------------
(***************************************************************************)
(* What the client knows.  A mode and the news of it are apart for some    *)
(* steps of the one thread that is in a call: the clauses say at which     *)
(* ones the mode may still be untold, which mode a thread there has read,  *)
(* and that a timer that sleeps through a permanent lockout is aborted, or *)
(* is about to be.                                                         *)
(***************************************************************************)
Untold == {"stamp", "check", "elapsed", "expire", "answer", "permanent", "timed",
           "left", "tell"}
Cleared == {"clear", "unlock"}
SawTimed == {"stamp", "elapsed", "expire", "timed", "left", "tell", "start", "unabort",
             "spawn"}
SawNone == {"cleared", "forget"}

CountedOK ==
  /\ pc["vendor"] \in {"count"} \cup HoldsCount => local["vendor"] = mFailedCount
  /\ pc["vendor"] \in {"weighTimed", "lockTimed"} => mFailedCount < PermanentThreshold
  /\ pc["vendor"] = "lockPermanent" => mFailedCount >= PermanentThreshold
  /\ \A h \in Handlers : pc[h] \in Cleared => mFailedCount = 0
PermanentOK ==
  /\ mFailedCount >= PermanentThreshold =>
       mCurrentMode = "permanent" \/ pc["vendor"] \in {"weigh", "lockPermanent"}
  /\ mCurrentMode = "permanent" =>
       \/ mFailedCount >= PermanentThreshold
       \/ \E h \in Handlers : pc[h] \in Cleared
SawOK ==
  \A p \in Threads :
    /\ pc[p] \in SawTimed => mCurrentMode = "timed"
    /\ pc[p] \in SawNone => mCurrentMode = "none"
    /\ pc[p] = "permanent" => mCurrentMode = "permanent"
AbortedOK ==
  mCurrentMode = "permanent" =>
    /\ \A t \in Timers : pc[t] \notin Cleared
    /\ (\E t \in Timers : pc[t] = "asleep") =>
         \/ mIsLockoutTimerAborted
         \/ \E h \in Handlers : pc[h] \in {"check", "answer", "permanent", "abort"}
ToldOK ==
  \/ mCurrentMode \in {"none", told}
  \/ \E h \in Handlers : pc[h] \in Untold

KnowParts == PermanentOK /\ SawOK /\ AbortedOK /\ ToldOK
KnowOK == ~overlapped => CountedOK /\ (~tainted => KnowParts)

KnowInv == SerialInv /\ LoadOK /\ KnowOK

(* While calls do not overlap, whoever takes a step inside one is alone. *)
LEMMA Alone ==
  ASSUME SerialOK, ~overlapped, NEW p \in Threads, InCall(p)
  PROVE  \A q \in Threads : q # p => pc[q] \in {"idle", "asleep"}
BY DEF SerialOK, InCall

(* The mark of an overlap is never taken back. *)
LEMMA SerialSoFar ==
  ASSUME TypeOK, [Next]_vars, ~overlapped'
  PROVE  ~overlapped
<1> USE ThreadFacts DEF tracker, flags, threads, history, TypeOK
<1>1. CASE Fails
  BY <1>1 DEF Fails, Calls, Begin
<1>2. CASE Succeeds \/ ResetLockout
  BY <1>2 DEF Succeeds, ResetLockout, Resets, Begin
<1>3. CASE OnPointerDown
  BY <1>3 DEF OnPointerDown, Calls, Begin
<1>4. CASE Tick
  BY <1>4 DEF Tick
<1>5. CASE Attempts
  <2>1. CASE Counts
    BY <2>1 DEF Counts, Goto
  <2>2. CASE Weighs
    BY <2>2 DEF Weighs, Weighed, Goto
  <2>3. CASE LocksPermanent
    BY <2>3 DEF LocksPermanent, Goto
  <2>4. CASE WeighsTimed
    BY <2>4 DEF WeighsTimed, Weighed, Goto
  <2>5. CASE LocksTimed \/ Stamps
    BY <2>5 DEF LocksTimed, Stamps, Goto
  <2> QED
    BY <1>5, <2>1, <2>2, <2>3, <2>4, <2>5 DEF Attempts
<1>6. ASSUME NEW t \in Timers, Wakes(t) \/ Ends(t) \/ Rearms(t)
      PROVE  ~overlapped
  BY <1>6 DEF Wakes, Ends, Rearms, Begin, Goto
<1>7. ASSUME NEW p \in Threads, Continues(p)
      PROVE  ~overlapped
  <2>1. CASE ResetsCount(p) \/ ResetsStart(p)
    BY <2>1 DEF ResetsCount, ResetsStart, Goto
  <2>2. CASE ResetsMode(p)
    BY <2>2 DEF ResetsMode, Forgives, Goto
  <2>3. CASE ReadsMode(p)
    BY <2>3 DEF ReadsMode, Verdict, Modes, Goto
  <2>4. CASE TestsElapsed(p) \/ ExpiresMode(p) \/ ForgetsStart(p)
    BY <2>4 DEF TestsElapsed, ExpiresMode, ForgetsStart, Verdict, Goto
  <2>5. CASE Answers(p)
    BY <2>5 DEF Answers, Verdict, Modes, Goto
  <2>6. CASE TellsPermanent(p) \/ TellsCleared(p) \/ TellsTimed(p)
    BY <2>6 DEF TellsPermanent, TellsCleared, TellsTimed, Goto
  <2>7. CASE TestsStart(p) \/ ReadsLeft(p)
    BY <2>7 DEF TestsStart, ReadsLeft, Goto
  <2>8. CASE TestsStarted(p)
    BY <2>8 DEF TestsStarted, Goto
  <2>9. CASE Unaborts(p) \/ MarksStarted(p) \/ Aborts(p)
    BY <2>9 DEF Unaborts, MarksStarted, Aborts, Goto
  <2>10. ASSUME NEW t \in Timers, Spawns(p, t)
        PROVE  ~overlapped
    BY <2>10 DEF Spawns
  <2> QED
    BY <1>7, <2>1, <2>2, <2>3, <2>4, <2>5, <2>6, <2>7, <2>8, <2>9, <2>10 DEF Continues
<1>8. CASE UNCHANGED vars
  BY <1>8 DEF vars
<1> QED
  BY <1>1, <1>2, <1>3, <1>4, <1>5, <1>6, <1>7, <1>8, StepCases

(* What a handler that is in a call knows of the count. *)
LEMMA CountedStep ==
  ASSUME TypeOK, PlaceOK, SerialOK, LoadOK, ~overlapped, CountedOK, [Next]_vars,
         ~overlapped'
  PROVE  CountedOK'
<1> USE ThreadFacts DEF tracker, flags, threads, history, CountedOK, HoldsCount, Cleared
<1>p. pc \in [Threads -> Labels]
  BY DEF TypeOK
<1>l. local \in [Threads -> Locals] /\ mFailedCount \in Nat
  BY DEF TypeOK, Locals
<1>a. \A p, q \in Threads : InCall(p) /\ q # p => pc[q] \in {"idle", "asleep"}
  BY Alone
<1>1. CASE Fails
  BY <1>p, <1>l, <1>a, <1>1 DEF Fails, Calls, Begin, InCall
<1>2. CASE Succeeds \/ ResetLockout \/ OnPointerDown
  BY <1>p, <1>a, <1>2, ZenonT(40)
     DEF Succeeds, ResetLockout, OnPointerDown, Calls, Resets, Begin, InCall
<1>4. CASE Tick
  <2>1. local'["vendor"] = local["vendor"]
    BY <1>4 DEF Tick
  <2> QED
    BY <1>4, <2>1 DEF Tick
<1>5. CASE Attempts
  <2>0. \A q \in Threads : q # "vendor" => pc[q] \in {"idle", "asleep"}
    BY <1>a, <1>5 DEF Attempts, Counts, Weighs, LocksPermanent, WeighsTimed, LocksTimed,
                      Stamps, InCall
  <2>1. CASE Counts
    BY <1>p, <1>l, <2>0, <2>1 DEF Counts, Goto
  <2>2. CASE Weighs
    BY <1>p, <1>l, <2>0, <2>2 DEF Weighs, Weighed, Goto
  <2>3. CASE WeighsTimed
    BY <1>p, <1>l, <2>0, <2>3 DEF WeighsTimed, Weighed, Goto
  <2>4. CASE LocksPermanent \/ LocksTimed \/ Stamps
    BY <1>p, <2>0, <2>4 DEF LocksPermanent, LocksTimed, Stamps, Goto
  <2> QED
    BY <1>5, <2>1, <2>2, <2>3, <2>4 DEF Attempts
<1>6. ASSUME NEW t \in Timers, Wakes(t) \/ Ends(t) \/ Rearms(t)
      PROVE  CountedOK'
  BY <1>p, <1>l, <1>6 DEF Wakes, Ends, Rearms, Begin, Goto
<1>7. ASSUME NEW p \in Threads, Continues(p)
      PROVE  CountedOK'
  <2>0. pc[p] \notin {"idle", "asleep"}
         => \A q \in Threads : q # p => pc[q] \in {"idle", "asleep"}
    BY <1>a DEF InCall
  <2>1. CASE ResetsCount(p)
    BY <1>p, <2>0, <2>1 DEF ResetsCount, Goto, PlaceOK, TimerLabels
  <2>2. CASE ResetsStart(p)
    BY <1>p, <2>0, <2>2 DEF ResetsStart, Goto
  <2>3. CASE ResetsMode(p)
    BY <1>p, <2>0, <2>3 DEF ResetsMode, Goto
  <2>4. CASE ReadsMode(p) \/ TestsElapsed(p) \/ Answers(p)
    BY <1>p, <2>0, <2>4 DEF ReadsMode, TestsElapsed, Answers, Verdict, Goto, TypeOK, Modes
  <2>5. CASE ExpiresMode(p) \/ ForgetsStart(p) \/ TestsStart(p) \/ ReadsLeft(p)
    BY <1>p, <1>l, <2>0, <2>5
       DEF ExpiresMode, ForgetsStart, Verdict, TestsStart, ReadsLeft, Goto
  <2>6. CASE TellsPermanent(p) \/ TellsCleared(p) \/ TellsTimed(p) \/ Aborts(p)
    BY <1>p, <2>0, <2>6 DEF TellsPermanent, TellsCleared, TellsTimed, Aborts, Goto
  <2>7. CASE TestsStarted(p) \/ Unaborts(p) \/ MarksStarted(p)
    BY <1>p, <1>l, <2>0, <2>7 DEF TestsStarted, Unaborts, MarksStarted, Goto
  <2>8. ASSUME NEW t \in Timers, Spawns(p, t)
        PROVE  CountedOK'
    BY <1>p, <1>l, <2>0, <2>8 DEF Spawns
  <2> QED
    BY <1>7, <2>1, <2>2, <2>3, <2>4, <2>5, <2>6, <2>7, <2>8 DEF Continues
<1>8. CASE UNCHANGED vars
  BY <1>8 DEF vars
<1> QED
  BY <1>1, <1>2, <1>4, <1>5, <1>6, <1>7, <1>8, StepCases

(* A handler's reset leaves nothing untold, whatever was before it. *)
LEMMA KnowAfterReset ==
  ASSUME KnowInv, NEW h \in Handlers, ResetsMode(h), ~overlapped
  PROVE  KnowParts'
<1> USE ThreadFacts
<1>1. mFailedCount' = 0 /\ mCurrentMode' = "none" /\ ~(0 >= PermanentThreshold)
  BY DEF KnowInv, KnowOK, CountedOK, Cleared, ResetsMode
<1>2. \A q \in Threads : q # h => pc[q] \in {"idle", "asleep"}
  BY Alone DEF KnowInv, SerialInv, ResetsMode, InCall
<1>3. \A q \in Threads : pc'[q] \in {"idle", "asleep", "cleared"}
  BY <1>2 DEF KnowInv, SerialInv, TypeOK, ResetsMode, Goto
<1> QED
  BY <1>1, <1>3 DEF KnowParts, PermanentOK, SawOK, AbortedOK, ToldOK, SawTimed, SawNone

LEMMA KnowStep ==
  ASSUME KnowInv, ~overlapped, KnowParts, [Next]_vars, ~overlapped',
         \A h \in Handlers : ~ResetsMode(h)
  PROVE  KnowParts'
<1>p. pc \in [Threads -> Labels] /\ PlaceOK /\ SerialOK /\ mCurrentMode \in Modes
  BY DEF KnowInv, SerialInv, TypeOK
<1>c. CountedOK
  BY DEF KnowInv, KnowOK
<1>n. mFailedCount \in Nat
  BY DEF KnowInv, SerialInv, TypeOK
<1>a. \A p, q \in Threads : InCall(p) /\ q # p => pc[q] \in {"idle", "asleep"}
  BY <1>p, Alone
<1> USE ThreadFacts, <1>p DEF tracker, flags, threads, history, Goto, Modes,
        KnowParts, PermanentOK, SawOK, AbortedOK, ToldOK,
        Untold, Cleared, SawTimed, SawNone
<1>8. CASE UNCHANGED vars
  BY <1>8 DEF vars
<1>1. CASE Fails \/ Succeeds \/ OnPointerDown \/ ResetLockout
  <2>1. CASE Fails
    BY <2>1 DEF Fails, Calls, Begin, InCall
  <2>2. CASE Succeeds
    BY <2>2 DEF Succeeds, Resets, Begin, InCall
  <2>3. CASE ResetLockout
    BY <2>3 DEF ResetLockout, Resets, Begin, InCall
  <2>4. CASE OnPointerDown
    BY <2>4 DEF OnPointerDown, Calls, Begin, InCall
  <2> QED
    BY <1>1, <2>1, <2>2, <2>3, <2>4, Zenon
<1>2. CASE Attempts
  <2>0. \A q \in Threads : q # "vendor" => pc[q] \in {"idle", "asleep"}
    BY <1>a, <1>2 DEF Attempts, Counts, Weighs, LocksPermanent, WeighsTimed, LocksTimed,
                      Stamps, InCall
  <2>1. CASE Counts
    <3>1. mFailedCount' = mFailedCount + 1 /\ mFailedCount' \in Nat
      BY <1>c, <1>n, <2>1 DEF Counts, CountedOK, HoldsCount
    <3>2. mCurrentMode = "permanent" => mFailedCount' >= PermanentThreshold
      BY <1>n, <2>0, <2>1, <3>1 DEF Counts
    <3>3. pc' = [pc EXCEPT !["vendor"] = "weigh"] /\ UNCHANGED <<mCurrentMode, told, flags>>
          /\ pc["vendor"] = "count"
      BY <2>1 DEF Counts
    <3> QED
      BY <2>0, <3>2, <3>3
  <2>2. CASE Weighs
    BY <1>c, <1>n, <2>0, <2>2 DEF Weighs, Weighed, CountedOK, HoldsCount
  <2>3. CASE WeighsTimed
    <3>1. pc["vendor"] = "weighTimed" /\ mFailedCount < PermanentThreshold
      BY <1>c, <2>3 DEF WeighsTimed, CountedOK
    <3>2. mCurrentMode # "permanent"
      BY <1>n, <2>0, <3>1
    <3>3. /\ UNCHANGED <<mFailedCount, mCurrentMode, told, flags>>
          /\ \E l \in {"lockTimed", "check"} : pc' = [pc EXCEPT !["vendor"] = l]
      BY <2>3 DEF WeighsTimed
    <3> QED
      BY <1>n, <2>0, <3>1, <3>2, <3>3
  <2>4. CASE LocksPermanent
    BY <1>c, <1>n, <2>0, <2>4 DEF LocksPermanent, CountedOK
  <2>5. CASE LocksTimed
    BY <1>c, <1>n, <2>0, <2>5 DEF LocksTimed, CountedOK
  <2>6. CASE Stamps
    BY <2>0, <2>6 DEF Stamps
  <2> QED
    BY <1>2, <2>1, <2>2, <2>3, <2>4, <2>5, <2>6 DEF Attempts
<1>6. CASE Tick
  BY <1>6 DEF Tick
<1>4. ASSUME NEW t \in Timers, Wakes(t) \/ Ends(t) \/ Rearms(t)
      PROVE  KnowParts'
  <2>1. CASE Wakes(t)
    BY <2>1, ZenonT(40) DEF Wakes, Begin, InCall
  <2>2. CASE Ends(t)
    BY <1>a, <2>2 DEF Ends, InCall
  <2>3. CASE Rearms(t)
    <3>1. \A u \in Timers : pc[u] # "asleep"
      BY <1>a, <2>3 DEF Rearms, InCall, SerialOK, Alive, Marking, Unstarted
    <3> QED
      BY <2>3, <3>1 DEF Rearms
  <2> QED
    BY <1>4, <2>1, <2>2, <2>3
<1>5. ASSUME NEW p \in Threads, Continues(p)
      PROVE  KnowParts'
  <2>1. pc[p] \notin {"idle", "asleep"}
         => \A q \in Threads : q # p => pc[q] \in {"idle", "asleep"}
    BY <1>a DEF InCall
  <2>2. CASE ResetsCount(p)
    BY <2>1, <2>2 DEF ResetsCount, PlaceOK, TimerLabels
  <2>3. CASE ResetsStart(p)
    BY <2>1, <2>3 DEF ResetsStart
  <2>4. CASE ResetsMode(p)
    <3>1. p \in Timers
      BY <2>4
    <3> QED
      BY <1>n, <2>1, <2>4, <3>1 DEF ResetsMode
  <2>5. CASE ReadsMode(p) \/ TestsElapsed(p) \/ Answers(p)
    BY <2>1, <2>5 DEF ReadsMode, TestsElapsed, Answers, Verdict, PlaceOK, TimerLabels
  <2>6. CASE ExpiresMode(p) \/ ForgetsStart(p)
    BY <2>1, <2>6 DEF ExpiresMode, ForgetsStart, Verdict, PlaceOK, TimerLabels
  <2>7. CASE TellsPermanent(p) \/ TellsTimed(p) \/ TellsCleared(p)
    BY <2>1, <2>7 DEF TellsPermanent, TellsTimed, TellsCleared, PlaceOK, TimerLabels
  <2>8. CASE TestsStart(p) \/ ReadsLeft(p)
    BY <2>1, <2>8 DEF TestsStart, ReadsLeft
  <2>9. CASE Aborts(p) \/ MarksStarted(p) \/ TestsStarted(p) \/ Unaborts(p)
    BY <2>1, <2>9 DEF Aborts, MarksStarted, TestsStarted, Unaborts
  <2>10. ASSUME NEW t \in Timers, Spawns(p, t)
        PROVE  KnowParts'
    BY <2>1, <2>10 DEF Spawns
  <2> QED
    BY <1>5, <2>2, <2>3, <2>4, <2>5, <2>6, <2>7, <2>8, <2>9, <2>10 DEF Continues
<1> QED
  BY <1>1, <1>2, <1>4, <1>5, <1>6, <1>8, StepCases

LEMMA KnowInvStep ==
  ASSUME KnowInv, [Next]_vars
  PROVE  KnowOK'
<1> SUFFICES ASSUME ~overlapped'
             PROVE  CountedOK' /\ (~tainted' => KnowParts')
  BY DEF KnowOK
<1>1. ~overlapped /\ CountedOK
  BY SerialSoFar DEF KnowInv, SerialInv, KnowOK
<1>2. CountedOK'
  BY <1>1, CountedStep DEF KnowInv, SerialInv
<1>3. ASSUME ~tainted' PROVE KnowParts'
  <2>1. CASE \A h \in Handlers : ~ResetsMode(h)
    <3>1. KnowParts
      BY <1>1, <1>3, <2>1, TaintStep DEF KnowInv, KnowOK
    <3> QED
      BY <1>1, <2>1, <3>1, KnowStep
  <2>2. ASSUME NEW h \in Handlers, ResetsMode(h) PROVE KnowParts'
    BY <1>1, <2>2, KnowAfterReset
  <2> QED
    BY <2>1, <2>2
<1> QED
  BY <1>2, <1>3

(* What it knows between calls: no thread is where the mode may be untold. *)
LEMMA KnowsWhenQuiet ==
  ASSUME KnowInv
  PROVE  ClientKnowsMode
<1> SUFFICES ASSUME Quiet, ~overlapped, ~tainted
             PROVE  /\ mFailedCount >= PermanentThreshold => told = "permanent"
                    /\ mCurrentMode # "none" => told = mCurrentMode
  BY DEF ClientKnowsMode
<1>1. PermanentOK /\ ToldOK
  BY DEF KnowInv, KnowOK, KnowParts
<1>2. \A h \in Handlers : pc[h] \in {"idle", "asleep"}
  BY DEF Quiet, InCall, Threads
<1>3. mCurrentMode \in {"none", told}
  BY <1>1, <1>2 DEF ToldOK, Untold
<1>4. mFailedCount >= PermanentThreshold => mCurrentMode = "permanent"
  BY <1>1, <1>2, ThreadFacts DEF PermanentOK
<1> QED
  BY <1>3, <1>4

(* A permanent mode is stored over by a reset only, and a handler's reset  *)
(* has cleared the count first; no timer resets while the mode stands, and *)
(* the vendor thread stores a timed mode below the permanent threshold.    *)
LEMMA PermanentStep ==
  ASSUME KnowInv, [Next]_vars
  PROVE  [~tainted /\ ~overlapped' /\ mCurrentMode = "permanent"
            /\ mCurrentMode' # "permanent" => mFailedCount' = 0]_vars
<1> SUFFICES ASSUME Next, ~tainted, ~overlapped', mCurrentMode = "permanent",
                    mCurrentMode' # "permanent"
             PROVE  mFailedCount' = 0
  OBVIOUS
<1> USE ThreadFacts DEF tracker, flags, threads, history
<1>0. ~overlapped /\ TypeOK
  BY SerialSoFar DEF KnowInv, SerialInv
<1>1. KnowParts /\ CountedOK
  BY <1>0 DEF KnowInv, KnowOK
<1>2. ASSUME Attempts PROVE FALSE
  <2>1. pc["vendor"] = "lockTimed"
    BY <1>2 DEF Attempts, Counts, Weighs, LocksPermanent, WeighsTimed, LocksTimed, Stamps
  <2>2. mFailedCount < PermanentThreshold /\ mFailedCount \in Nat
    BY <1>0, <1>1, <2>1 DEF CountedOK, TypeOK
  <2>3. \A q \in Threads : q # "vendor" => pc[q] \in {"idle", "asleep"}
    BY <1>0, <2>1, Alone DEF InCall, KnowInv, SerialInv
  <2>4. \A h \in Handlers : pc[h] \notin Cleared
    BY <2>1, <2>3 DEF Cleared
  <2> QED
    BY <1>1, <2>2, <2>4 DEF KnowParts, PermanentOK
<1>3. ASSUME NEW p \in Threads, Continues(p)
      PROVE  mFailedCount' = 0
  <2>1. CASE ResetsMode(p)
    <3>1. p \in Handlers /\ pc[p] \in Cleared
      BY <1>1, <2>1 DEF ResetsMode, KnowParts, AbortedOK, Cleared
    <3> QED
      BY <1>1, <2>1, <3>1 DEF ResetsMode, CountedOK
  <2>2. ~ExpiresMode(p)
    BY <1>1 DEF ExpiresMode, KnowParts, SawOK, SawTimed
  <2>3. ASSUME ~ResetsMode(p) PROVE UNCHANGED mCurrentMode
    <3>1. CASE ResetsCount(p) \/ ResetsStart(p) \/ ReadsMode(p) \/ TestsElapsed(p) \/ Answers(p)
      BY <3>1 DEF ResetsCount, ResetsStart, ReadsMode, TestsElapsed, Answers
    <3>2. CASE ForgetsStart(p) \/ Aborts(p) \/ MarksStarted(p) \/ TestsStarted(p) \/ Unaborts(p)
      BY <3>2 DEF ForgetsStart, Aborts, MarksStarted, TestsStarted, Unaborts
    <3>3. CASE TellsPermanent(p) \/ TellsTimed(p) \/ TellsCleared(p) \/ TestsStart(p) \/ ReadsLeft(p)
      BY <3>3 DEF TellsPermanent, TellsTimed, TellsCleared, TestsStart, ReadsLeft
    <3>4. CASE \E t \in Timers : Spawns(p, t)
      BY <3>4 DEF Spawns
    <3> QED
      BY <1>3, <2>2, <2>3, <3>1, <3>2, <3>3, <3>4 DEF Continues
  <2> QED
    BY <2>1, <2>3
<1>4. CASE Fails \/ Succeeds \/ OnPointerDown \/ ResetLockout \/ Tick
  BY <1>4 DEF Fails, Succeeds, OnPointerDown, ResetLockout, Tick
<1>5. ASSUME NEW t \in Timers, Wakes(t) \/ Ends(t) \/ Rearms(t)
      PROVE  mFailedCount' = 0
  BY <1>5 DEF Wakes, Ends, Rearms
<1> QED
  BY <1>2, <1>3, <1>4, <1>5, StepCases

(* What the client knows is inductive, with the threads' places and the    *)
(* one timer, in every execution: an overlap ends the promise, no more.    *)
THEOREM KnowInvariant == Spec => []KnowInv
<1>1. Init => PlaceOK /\ SerialOK /\ LoadOK
  BY ThreadFacts
     DEF Init, PlaceOK, SerialOK, Unstarted, TimerLabels, InCall, Alive, Marking, LoadOK,
         HoldsCount
<1>2. ASSUME Init PROVE KnowOK
  <2>1. mFailedCount = 0 /\ ~(0 >= PermanentThreshold)
    BY <1>2 DEF Init
  <2>2. \A p \in Threads : pc[p] = "idle"
    BY <1>2 DEF Init
  <2>3. ASSUME ~tainted PROVE mCurrentMode = "none"
    BY <1>2, <2>3 DEF Init
  <2> QED
    BY <2>1, <2>2, <2>3, ThreadFacts
       DEF KnowOK, KnowParts, CountedOK, PermanentOK, SawOK, AbortedOK, ToldOK,
           SawTimed, SawNone, Cleared, HoldsCount
<1>3. TypeOK /\ KnowInv /\ [Next]_vars => (PlaceOK /\ SerialOK /\ LoadOK)'
  BY PlaceStep, SerialStep, LoadStep DEF KnowInv, SerialInv
<1>4. KnowInv /\ [Next]_vars => KnowOK'
  BY KnowInvStep
<1> QED
  BY <1>1, <1>2, <1>3, <1>4, LockoutTypeCorrect, PTL DEF Spec, KnowInv, SerialInv

(* ClientKnowsMode: whenever no call is running and none overlapped, the   *)
(* client has been told the mode in force, and told of the permanent one   *)
(* as soon as the count reached it; a session born locked out is excepted  *)
(* up to its first reset.                                                  *)
THEOREM ClientKnowsModeHolds == Spec => []ClientKnowsMode
BY KnowInvariant, KnowsWhenQuiet, PTL

(* PermanentOutlastsTimers: as long as calls do not overlap, a timer left  *)
(* over from a timed lockout never ends a permanent one, however long it   *)
(* slept and whatever the thresholds; a session born locked out is         *)
(* excepted up to its first reset.                                         *)
THEOREM PermanentOutlastsTimersHolds == Spec => PermanentOutlastsTimers
<1>1. KnowInv /\ [Next]_vars
        => [~tainted /\ ~overlapped' /\ mCurrentMode = "permanent"
              /\ mCurrentMode' # "permanent" => mFailedCount' = 0]_vars
  BY PermanentStep
<1> QED
  BY <1>1, KnowInvariant, PTL DEF Spec, PermanentOutlastsTimers
=============================================================================
