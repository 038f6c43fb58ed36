------------------------- MODULE FingerprintLockout -------------------------
(***************************************************************************)
(* The lockout of one fingerprint Session: the tracker that counts failed  *)
(* attempts, and the detached timer threads that end a timed lockout.      *)
(*                                                                         *)
(* Three kinds of thread share the tracker and the two timer flags with no *)
(* lock: the vendor library's thread (failed and successful attempts), the *)
(* service's single binder thread (onPointerDown, resetLockout) and the    *)
(* timers.  A step makes one access to one shared member, or one callback: *)
(* between any two of them the other threads may run.  Where the source    *)
(* reads a member again with no call in between, the compiler may keep the *)
(* value it has: both outcomes are steps.  The stores of one thread are    *)
(* taken in program order.                                                 *)
(*                                                                         *)
(* Three variables only record what the properties need to say of a past:  *)
(* overlapped, that some call began inside another; crossed, that a        *)
(* handler's reset did; tainted, that the mode may not stem from attempts. *)
(*                                                                         *)
(* Time is counted in ticks, as ages: what matters is how long ago the     *)
(* lockout started and how long a timer still sleeps.  The clock and the   *)
(* start it is compared with are read in the same tick.                    *)
(***************************************************************************)
EXTENDS Integers, FiniteSets

CONSTANTS TimedThreshold,      \* LOCKOUT_TIMED_THRESHOLD
          PermanentThreshold,  \* LOCKOUT_PERMANENT_THRESHOLD
          Duration,            \* LOCKOUT_TIMED_DURATION, in ticks
          MaxFailures,         \* bound: failed attempts counted at a time
          Timers               \* bound: timer threads that exist at a time

ASSUME ThresholdAssumption ==
  /\ TimedThreshold \in Nat \ {0} /\ PermanentThreshold \in Nat
  /\ TimedThreshold < PermanentThreshold
ASSUME BoundAssumption ==
  Duration \in Nat \ {0} /\ MaxFailures \in Nat /\ IsFiniteSet(Timers)
ASSUME ThreadAssumption == {"vendor", "binder"} \cap Timers = {}

Modes == {"none", "timed", "permanent"}
Zero == Duration + 2      \* mLockoutTimedStart = 0: longer ago than all others
(* Before a first lockout the member is uninitialised: it can hold any age, *)
(* one in the future included (bound: one tick).                            *)
Ages == -1 .. Zero
Handlers == {"vendor", "binder"}
Threads == Handlers \cup Timers

VARIABLES
  mFailedCount, mLockoutTimedStart, mCurrentMode,   \* the LockoutTracker
  mIsLockoutTimerStarted, mIsLockoutTimerAborted,
  pc,         \* per thread: the next step of its call, "idle" or "asleep"
  local,      \* per thread: the count it holds, or the time left it read
  told,       \* the last lockout callback the client received
  failures,   \* history: failed attempts since the last reset by a success
              \* or by resetLockout, counted up to PermanentThreshold
  overlapped, \* history: a call began while another thread was in one
  crossed,    \* history: the last such reset ran inside or around another call
  tainted     \* history: the session was born locked out and not reset since,
              \* or its last reset was crossed

tracker == <<mFailedCount, mLockoutTimedStart, mCurrentMode>>
flags == <<mIsLockoutTimerStarted, mIsLockoutTimerAborted>>
threads == <<pc, local, overlapped, crossed>>
history == <<tainted, failures>>
vars == <<tracker, flags, threads, told, history>>

InCall(p) == pc[p] \notin {"idle", "asleep"}
Quiet == \A p \in Threads : ~InCall(p)
Resetting(p) == pc[p] \in {"reset", "clear", "unlock"}

(* mCurrentMode and mLockoutTimedStart have no initialiser: any value. *)
Init ==
  /\ mFailedCount = 0
  /\ mLockoutTimedStart \in Ages
  /\ mCurrentMode \in Modes
  /\ mIsLockoutTimerStarted = FALSE /\ mIsLockoutTimerAborted = FALSE
  /\ pc = [p \in Threads |-> "idle"]
  /\ local = [p \in Threads |-> 0]
  /\ told = "nothing"
  /\ failures = 0 /\ tainted = (mCurrentMode # "none")
  /\ overlapped = FALSE /\ crossed = FALSE

-----------------------------------------------------------------------------
Begin(p, label) ==
  /\ pc' = [pc EXCEPT ![p] = label]
  /\ overlapped' = (overlapped \/ \E q \in Threads \ {p} : InCall(q))

Calls(p, label) ==
  /\ Begin(p, label)
  /\ crossed' = (crossed \/ \E q \in Handlers \ {p} : Resetting(q))

Resets(p) ==
  /\ Begin(p, "reset")
  /\ crossed' = \E q \in Handlers \ {p} : InCall(q)

Goto(p, label) ==
  pc' = [pc EXCEPT ![p] = label] /\ UNCHANGED <<overlapped, crossed>>

(* notify, FINGERPRINT_AUTHENTICATED with fid 0: mFailedCount is loaded *)
Fails ==
  /\ pc["vendor"] = "idle" /\ mFailedCount < MaxFailures
  /\ local' = [local EXCEPT !["vendor"] = mFailedCount]
  /\ failures' = IF failures < PermanentThreshold THEN failures + 1 ELSE failures
  /\ Calls("vendor", "count")
  /\ UNCHANGED <<tracker, flags, told, tainted>>

(* notify, FINGERPRINT_AUTHENTICATED with a fid: reset(true), no callback *)
Succeeds ==
  /\ pc["vendor"] = "idle"
  /\ Resets("vendor")
  /\ UNCHANGED <<tracker, flags, local, told, history>>

OnPointerDown ==
  /\ pc["binder"] = "idle"
  /\ Calls("binder", "check")
  /\ UNCHANGED <<tracker, flags, local, told, history>>

ResetLockout ==
  /\ pc["binder"] = "idle"
  /\ Resets("binder")
  /\ UNCHANGED <<tracker, flags, local, told, history>>

-----------------------------------------------------------------------------
(* LockoutTracker::addFailedAttempt *)
Counts_twice ==
  /\ pc["vendor"] = "count"
  /\ mFailedCount' = local["vendor"] + 2
  /\ local' = [local EXCEPT !["vendor"] = @ + 2]
  /\ Goto("vendor", "weigh")
  /\ UNCHANGED <<mLockoutTimedStart, mCurrentMode, flags, told, history>>
Counts ==
  /\ pc["vendor"] = "count"
  /\ mFailedCount' = local["vendor"] + 1
  /\ local' = [local EXCEPT !["vendor"] = @ + 1]
  /\ Goto("vendor", "weigh")
  /\ UNCHANGED <<mLockoutTimedStart, mCurrentMode, flags, told, history>>

(* The count a test compares: read again, or still at hand. *)
Weighed == {mFailedCount, local["vendor"]}

Weighs_timedFirst ==
  /\ pc["vendor"] = "weigh"
  /\ \E n \in Weighed :
       IF n >= TimedThreshold
         THEN /\ Goto("vendor", "lockTimed")
              /\ local' = [local EXCEPT !["vendor"] = 0]
         ELSE Goto("vendor", "weighTimed") /\ UNCHANGED local
  /\ UNCHANGED <<tracker, flags, told, history>>
Weighs ==
  /\ pc["vendor"] = "weigh"
  /\ \E n \in Weighed :
       IF n >= PermanentThreshold
         THEN /\ Goto("vendor", "lockPermanent")
              /\ local' = [local EXCEPT !["vendor"] = 0]
         ELSE Goto("vendor", "weighTimed") /\ UNCHANGED local
  /\ UNCHANGED <<tracker, flags, told, history>>

LocksPermanent ==
  /\ pc["vendor"] = "lockPermanent"
  /\ mCurrentMode' = "permanent"
  /\ Goto("vendor", "check")
  /\ UNCHANGED <<mFailedCount, mLockoutTimedStart, flags, local, told, history>>

WeighsTimed ==
  /\ pc["vendor"] = "weighTimed"
  /\ \E n \in Weighed :
       Goto("vendor", IF n >= TimedThreshold THEN "lockTimed" ELSE "check")
  /\ local' = [local EXCEPT !["vendor"] = 0]
  /\ UNCHANGED <<tracker, flags, told, history>>

LocksTimed ==
  /\ pc["vendor"] = "lockTimed"
  /\ mCurrentMode' = "timed"
  /\ Goto("vendor", "stamp")
  /\ UNCHANGED <<mFailedCount, mLockoutTimedStart, flags, local, told, history>>

Stamps ==
  /\ pc["vendor"] = "stamp"
  /\ mLockoutTimedStart' = 0
  /\ Goto("vendor", "check")
  /\ UNCHANGED <<mFailedCount, mCurrentMode, flags, local, told, history>>

(* LockoutTracker::reset(clearAttemptCounter); a timer enters at "clear". *)
ResetsCount_kept(p) ==
  /\ pc[p] = "reset"
  /\ Goto(p, "clear")
  /\ UNCHANGED <<tracker, flags, local, told, history>>
ResetsCount(p) ==
  /\ pc[p] = "reset"
  /\ mFailedCount' = 0
  /\ Goto(p, "clear")
  /\ UNCHANGED <<mLockoutTimedStart, mCurrentMode, flags, local, told, history>>

ResetsStart(p) ==
  /\ pc[p] = "clear"
  /\ mLockoutTimedStart' = Zero
  /\ Goto(p, "unlock")
  /\ UNCHANGED <<mFailedCount, mCurrentMode, flags, local, told, history>>

(* A handler's reset makes the attempts before it count no more. *)
Forgives(p) ==
  IF p \in Handlers THEN failures' = 0 /\ tainted' = crossed
                    ELSE UNCHANGED history

ResetsMode_silently(p) ==
  /\ pc[p] = "unlock"
  /\ mCurrentMode' = "none"
  /\ Goto(p, IF p = "vendor" THEN "idle" ELSE IF p = "binder" THEN "abort" ELSE "over")
  /\ Forgives(p)
  /\ UNCHANGED <<mFailedCount, mLockoutTimedStart, flags, local, told>>
ResetsMode(p) ==
  /\ pc[p] = "unlock"
  /\ mCurrentMode' = "none"
  /\ Goto(p, IF p = "vendor" THEN "idle" ELSE "cleared")
  /\ Forgives(p)
  /\ UNCHANGED <<mFailedCount, mLockoutTimedStart, flags, local, told>>

(* LockoutTracker::getMode; what it returns decides where the check goes on. *)
Verdict(mode) == IF mode = "none" THEN "idle" ELSE mode

ReadsMode(p) ==
  /\ pc[p] = "check"
  /\ \/ mCurrentMode = "timed" /\ Goto(p, "elapsed")
     \/ /\ mCurrentMode # "timed"
        /\ \E next \in {"answer", Verdict(mCurrentMode)} : Goto(p, next)
  /\ UNCHANGED <<tracker, flags, local, told, history>>

HasElapsed == mLockoutTimedStart > Duration

TestsElapsed(p) ==
  /\ pc[p] = "elapsed"
  /\ Goto(p, IF HasElapsed THEN "expire" ELSE "answer")
  /\ UNCHANGED <<tracker, flags, local, told, history>>

ExpiresMode(p) ==
  /\ pc[p] = "expire"
  /\ mCurrentMode' = "none"
  /\ Goto(p, "forget")
  /\ UNCHANGED <<mFailedCount, mLockoutTimedStart, flags, local, told, history>>

ForgetsStart(p) ==
  /\ pc[p] = "forget"
  /\ mLockoutTimedStart' = Zero
  /\ \E next \in {"answer", Verdict("none")} : Goto(p, next)
  /\ UNCHANGED <<mFailedCount, mCurrentMode, flags, local, told, history>>

(* the value returned, read again *)
Answers(p) ==
  /\ pc[p] = "answer"
  /\ Goto(p, Verdict(mCurrentMode))
  /\ UNCHANGED <<tracker, flags, local, told, history>>

-----------------------------------------------------------------------------
(* Session::checkSensorLockout, the rest *)
TellsPermanent_only(p) ==
  /\ pc[p] = "permanent"
  /\ told' = "permanent"
  /\ Goto(p, "idle")
  /\ UNCHANGED <<tracker, flags, local, history>>
TellsPermanent(p) ==
  /\ pc[p] = "permanent"
  /\ told' = "permanent"
  /\ Goto(p, "abort")
  /\ UNCHANGED <<tracker, flags, local, history>>

(* the last statement of resetLockout too *)
Aborts(p) ==
  /\ pc[p] = "abort"
  /\ mIsLockoutTimerAborted' = TRUE
  /\ Goto(p, "idle")
  /\ UNCHANGED <<tracker, mIsLockoutTimerStarted, local, told, history>>

(* getLockoutTimeLeft reads the start twice: below zero stands for any     *)
(* such time left, and the sleep returns at once.                          *)
TestsStart(p) ==
  /\ pc[p] = "timed"
  /\ Goto(p, IF mLockoutTimedStart = Zero THEN "tell" ELSE "left")
  /\ UNCHANGED <<tracker, flags, local, told, history>>

ReadsLeft(p) ==
  /\ pc[p] = "left"
  /\ local' = [local EXCEPT ![p] = Duration - mLockoutTimedStart]
  /\ Goto(p, "tell")
  /\ UNCHANGED <<tracker, flags, told, history>>

TellsTimed(p) ==
  /\ pc[p] = "tell"
  /\ told' = "timed"
  /\ Goto(p, "start")
  /\ UNCHANGED <<tracker, flags, local, history>>

TestsStarted_never(p) ==
  /\ pc[p] = "start"
  /\ Goto(p, "unabort")
  /\ UNCHANGED <<tracker, flags, local, told, history>>
TestsStarted(p) ==
  /\ pc[p] = "start"
  /\ IF mIsLockoutTimerStarted
       THEN Goto(p, "idle") /\ local' = [local EXCEPT ![p] = 0]
       ELSE Goto(p, "unabort") /\ UNCHANGED local
  /\ UNCHANGED <<tracker, flags, told, history>>

(* Session::startLockoutTimer *)
Unaborts(p) ==
  /\ pc[p] = "unabort"
  /\ mIsLockoutTimerAborted' = FALSE
  /\ Goto(p, "spawn")
  /\ UNCHANGED <<tracker, mIsLockoutTimerStarted, local, told, history>>

Spawns(p, t) ==
  /\ pc[p] = "spawn" /\ pc[t] = "idle"
  /\ pc' = [pc EXCEPT ![p] = "started", ![t] = "asleep"]
  /\ local' = [local EXCEPT ![p] = 0, ![t] = local[p]]
  /\ UNCHANGED <<tracker, flags, told, overlapped, crossed, history>>

MarksStarted(p) ==
  /\ pc[p] = "started"
  /\ mIsLockoutTimerStarted' = TRUE
  /\ Goto(p, "idle")
  /\ UNCHANGED <<tracker, mIsLockoutTimerAborted, local, told, history>>

(* Session::lockoutTimerExpired *)
Wakes(t) ==
  /\ pc[t] = "asleep" /\ local[t] <= 0
  /\ Begin(t, IF mIsLockoutTimerAborted THEN "over" ELSE "clear")
  /\ local' = [local EXCEPT ![t] = 0]
  /\ UNCHANGED <<tracker, flags, told, crossed, history>>

(* Session::clearLockout: onLockoutCleared, after the tracker's reset *)
TellsCleared(p) ==
  /\ pc[p] = "cleared"
  /\ told' = "cleared"
  /\ Goto(p, IF p = "binder" THEN "abort" ELSE "over")
  /\ UNCHANGED <<tracker, flags, local, history>>

Ends(t) ==
  /\ pc[t] = "over"
  /\ mIsLockoutTimerStarted' = FALSE
  /\ Goto(t, "rearm")
  /\ UNCHANGED <<tracker, mIsLockoutTimerAborted, local, told, history>>

Rearms(t) ==
  /\ pc[t] = "rearm"
  /\ mIsLockoutTimerAborted' = FALSE
  /\ Goto(t, "idle")
  /\ UNCHANGED <<tracker, mIsLockoutTimerStarted, local, told, history>>

(* One tick of the clock; ages past Duration are all alike. *)
Tick ==
  /\ mLockoutTimedStart <= Duration \/ \E t \in Timers : local[t] > 0
  /\ mLockoutTimedStart' =
       IF mLockoutTimedStart <= Duration THEN mLockoutTimedStart + 1
                                         ELSE mLockoutTimedStart
  /\ local' = [p \in Threads |->
       IF p \in Timers /\ local[p] > 0 THEN local[p] - 1 ELSE local[p]]
  /\ UNCHANGED <<mFailedCount, mCurrentMode, flags, pc, overlapped, crossed, told, history>>

-----------------------------------------------------------------------------
Continues(p) ==
  \/ ResetsCount(p) \/ ResetsStart(p) \/ ResetsMode(p)
  \/ ReadsMode(p) \/ TestsElapsed(p) \/ ExpiresMode(p) \/ ForgetsStart(p)
  \/ Answers(p) \/ TellsPermanent(p) \/ TellsCleared(p) \/ Aborts(p)
  \/ TestsStart(p) \/ ReadsLeft(p) \/ TellsTimed(p)
  \/ TestsStarted(p) \/ Unaborts(p) \/ MarksStarted(p)
  \/ \E t \in Timers : Spawns(p, t)

Attempts == Counts \/ Weighs \/ LocksPermanent \/ WeighsTimed \/ LocksTimed \/ Stamps

Runs(p) == Continues(p) \/ (p = "vendor" /\ Attempts)
Expires(t) == Wakes(t) \/ Continues(t) \/ Ends(t) \/ Rearms(t)

Next ==
  \/ Fails \/ Succeeds \/ OnPointerDown \/ ResetLockout \/ Tick
  \/ \E p \in Handlers : Runs(p)
  \/ \E t \in Timers : Expires(t)

(* Time passes and a thread inside a call, or done sleeping, goes on; that *)
(* a call begins is up to the client and the vendor library.               *)
Fairness ==
  /\ WF_vars(Tick)
  /\ \A p \in Handlers : WF_vars(Runs(p))
  /\ \A t \in Timers : WF_vars(Expires(t))

Spec == Init /\ [][Next]_vars
FairSpec == Spec /\ Fairness

(* The executions in which no call begins inside another: with overlapped  *)
(* set, the properties below that speak of the flags promise nothing more. *)
SerialSpec == Init /\ [][Next /\ ~overlapped']_vars /\ Fairness

-----------------------------------------------------------------------------
Labels == {"idle", "asleep", "count", "weigh", "lockPermanent", "weighTimed",
           "lockTimed", "stamp", "reset", "clear", "unlock", "check", "elapsed",
           "expire", "forget", "answer", "permanent", "timed", "left", "tell",
           "start", "unabort", "spawn", "started", "cleared", "abort", "over",
           "rearm"}

(* Type invariant of the tracker, the flags and the threads' positions.    *)
TypeOK ==
  /\ mFailedCount \in 0 .. MaxFailures
  /\ mLockoutTimedStart \in Ages
  /\ mCurrentMode \in Modes
  /\ mIsLockoutTimerStarted \in BOOLEAN /\ mIsLockoutTimerAborted \in BOOLEAN
  /\ pc \in [Threads -> Labels]
  /\ local \in [Threads -> -2 .. MaxFailures + Duration + 1]
  /\ told \in {"nothing", "timed", "permanent", "cleared"}
  /\ failures \in 0 .. PermanentThreshold
  /\ overlapped \in BOOLEAN /\ crossed \in BOOLEAN /\ tainted \in BOOLEAN

(* A thread announces a lockout only when that many attempts failed since  *)
(* the last success or resetLockout, however failures, touches, checks and *)
(* timers interleave: racing increments lose failures, never invent them.  *)
(* Two premises: a session born locked out (mCurrentMode has no            *)
(* initialiser) counts only from its first reset, and a reset that         *)
(* overlapped a call of the other handler promises nothing until the next  *)
(* one: an attempt can then store its old count, or its mode, over it.     *)
LockoutIsEarned ==
  ~tainted =>
    \A p \in Handlers :
      /\ pc[p] \in {"timed", "left", "tell"} => failures >= TimedThreshold
      /\ pc[p] = "permanent" => failures >= PermanentThreshold

(* Between calls that never overlapped, mIsLockoutTimerStarted says whether *)
(* a timer thread is alive, and there is at most one: the flags are all    *)
(* that keeps checkSensorLockout from starting one per touch.  Of two      *)
(* checks that overlap it promises nothing: both may start a timer.        *)
StartedMeansOneTimer ==
  Quiet /\ ~overlapped =>
    Cardinality({t \in Timers : pc[t] = "asleep"}) =
      IF mIsLockoutTimerStarted THEN 1 ELSE 0

(* Between calls that never overlapped the client knows the mode: at the   *)
(* permanent threshold it has been told so, and no timed lockout is in     *)
(* force behind its back (addFailedAttempt, then checkSensorLockout).  A   *)
(* session born locked out is excepted up to its first reset.              *)
ClientKnowsMode ==
  Quiet /\ ~overlapped /\ ~tainted =>
    /\ mFailedCount >= PermanentThreshold => told = "permanent"
    /\ mCurrentMode # "none" => told = mCurrentMode

(* A permanent lockout ends only with the attempt counter: a timer of an   *)
(* earlier timed lockout that expires afterwards finds itself aborted and  *)
(* leaves the mode alone.  Calls must not have overlapped, and a session   *)
(* born locked out is excepted up to its first reset.                      *)
PermanentOutlastsTimers ==
  [][~tainted /\ ~overlapped' /\ mCurrentMode = "permanent"
       /\ mCurrentMode' # "permanent" => mFailedCount' = 0]_vars

(* A timed lockout whose timer sleeps unaborted is announced as over,      *)
(* unless calls overlap or the lockout becomes permanent first.            *)
TimerEndsLockout ==
  (Quiet /\ told = "timed" /\ mIsLockoutTimerStarted /\ ~mIsLockoutTimerAborted
     /\ ~overlapped)
    ~> (told \in {"cleared", "permanent"} \/ overlapped)

(* Session.h: "This callback must only be called from non-binder threads". *)
CallbacksLeaveBinderFree ==
  pc["binder"] \notin {"cleared", "tell", "permanent"}
=============================================================================
