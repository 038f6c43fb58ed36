--------------------------- MODULE PanicToRecovery ---------------------------
(***************************************************************************)
(* After a kernel panic the next boot goes to recovery.  bootstat sets the *)
(* property sys.boot.reason, early from what the bootloader says, if it    *)
(* says anything, and later once more.  init queues the trigger each time  *)
(* and runs the helper for one after the other.  The helper reads the      *)
(* property when it runs, not when the trigger fired, and asks init for a  *)
(* reboot by a property of its own.                                        *)
(***************************************************************************)
EXTENDS Naturals

Panics == {"kernel_panic", "kernel_panic,sysrq"}
Reasons == {"reboot", "watchdog"} \cup Panics

VARIABLES
  early, final,  \* the reason bootstat sets early, "unset" at first, and later
  reason,        \* sys.boot.reason
  bootstat,      \* "start", "early" or "done"
  pending,       \* triggers init has queued
  helper,        \* the helper: "none", "reads", "asks" or "sleeps"
  asked,         \* sys.powerctl is "reboot,recovery"
  refusedSet,    \* init refused that
  down           \* init has shut the system down

panicVars == <<early, final, reason, bootstat, pending, helper, asked, refusedSet, down>>

PanicInit ==
  /\ early = "unset" /\ final = "unset" /\ reason = "unset" /\ bootstat = "start"
  /\ pending = 0 /\ helper = "none"
  /\ asked = FALSE /\ refusedSet = FALSE /\ down = FALSE

(* strncmp(reason, "kernel_panic", 12) *)
IsPanic_whole(r) == r = "kernel_panic"
IsPanic(r) == r \in Panics

(* The property is set, which triggers `on property:sys.boot.reason=*`. *)
SetsReason(r) ==
  /\ reason' = r
  /\ pending' = pending + 1

BootstatEarly_again ==
  /\ bootstat = "start" /\ ~down
  /\ \E r \in Reasons : early' = r /\ SetsReason(r)
  /\ UNCHANGED <<final, bootstat, helper, asked, refusedSet, down>>
BootstatEarly ==
  /\ bootstat = "start" /\ ~down
  /\ bootstat' = "early"
  /\ \/ UNCHANGED <<early, reason, pending>>     \* no ro.boot.bootreason
     \/ \E r \in Reasons : early' = r /\ SetsReason(r)
  /\ UNCHANGED <<final, helper, asked, refusedSet, down>>

BootstatRefines ==
  /\ bootstat = "early" /\ ~down
  /\ bootstat' = "done"
  /\ \E r \in Reasons : final' = r /\ SetsReason(r)
  /\ UNCHANGED <<early, helper, asked, refusedSet, down>>

(* init: `exec` keeps the next trigger waiting until the helper is done. *)
Starts ==
  /\ pending > 0 /\ helper = "none" /\ ~down
  /\ pending' = pending - 1 /\ helper' = "reads"
  /\ UNCHANGED <<early, final, reason, bootstat, asked, refusedSet, down>>

(* The helper's main *)
ReadsReason ==
  /\ helper = "reads" /\ ~down
  /\ helper' = IF IsPanic(reason) THEN "asks" ELSE "none"
  /\ UNCHANGED <<early, final, reason, bootstat, pending, asked, refusedSet, down>>

AsksRecovery ==
  /\ helper = "asks" /\ ~down
  /\ \/ helper' = "sleeps" /\ asked' = TRUE /\ UNCHANGED refusedSet
     \/ helper' = "none" /\ refusedSet' = TRUE /\ UNCHANGED asked
  /\ UNCHANGED <<early, final, reason, bootstat, pending, down>>

(* sleep(120) ends if init has not killed the helper by then. *)
SleepEnds ==
  /\ helper = "sleeps" /\ ~down
  /\ helper' = "none"
  /\ UNCHANGED <<early, final, reason, bootstat, pending, asked, refusedSet, down>>

InitReboots ==
  /\ asked /\ ~down
  /\ down' = TRUE /\ helper' = "none" /\ pending' = 0
  /\ UNCHANGED <<early, final, reason, bootstat, asked, refusedSet>>

PanicNext == \/ BootstatEarly \/ BootstatRefines \/ Starts
             \/ ReadsReason \/ AsksRecovery \/ SleepEnds \/ InitReboots

PanicTypeOK ==
  /\ {early, final, reason} \subseteq Reasons \cup {"unset"}
  /\ bootstat \in {"start", "early", "done"} /\ pending \in 0 .. 2
  /\ helper \in {"none", "reads", "asks", "sleeps"}
  /\ asked \in BOOLEAN /\ refusedSet \in BOOLEAN /\ down \in BOOLEAN

(* A boot goes to recovery only if bootstat called the last one a panic,   *)
(* early or late, whatever the property holds by the time a helper runs.   *)
RecoveryNeedsPanic == asked => early \in Panics \/ final \in Panics

(* A boot whose refined reason is a panic goes down to recovery, or init   *)
(* has refused to: also when the first trigger is still being handled as   *)
(* the property changes.                                                   *)
PanicIsRouted == final \in Panics ~> (down \/ refusedSet)
=============================================================================
