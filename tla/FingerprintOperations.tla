------------------------ MODULE FingerprintOperations ------------------------
(***************************************************************************)
(* What a client's calls and the library's reports do to the panel: the    *)
(* brightness that TimedRestore raises and gives back, and the finger-on-  *)
(* display switch of the touch controller; and which call the client still *)
(* waits to have answered.                                                 *)
(*                                                                         *)
(* The binder thread runs the client's calls one by one, the library's     *)
(* thread its reports; they share mBrightnessRestore with no lock.  A step *)
(* ends wherever the other thread can make a difference: between the load, *)
(* the store and the delete of the pointer, around a call of the library,  *)
(* and before a callback.  Two threads at it at once can free one object   *)
(* twice or use a null pointer, and that is a crash.                       *)
(*                                                                         *)
(* The client is the framework: one operation at a time, touches at any    *)
(* time, a cancellation signal that it may keep and use late.  A call is   *)
(* made when the binder thread takes it and a callback arrives when it is  *)
(* made: nothing is on its way in between.  The panel's node may fail to   *)
(* be read; it and the touch controller's take what is written to them.    *)
(* Lockouts are in FingerprintLockout, the life of sessions in             *)
(* FingerprintSession.                                                     *)
(***************************************************************************)
EXTENDS FingerprintHal

CONSTANTS Levels,        \* brightness the system sets
          ErrorCodes,    \* errors the library reports
          AcquiredCodes, \* acquired messages it reports, events included
          MaxIds,        \* bound: templates of one removal
          Accidents      \* bound: what befalls one touch, their meeting aside

ASSUME LevelsAssumption == Levels \subseteq Nat
ASSUME CodesAssumption == ErrorCodes \subseteq Int /\ AcquiredCodes \subseteq Int
ASSUME MaxIdsAssumption == MaxIds \in Nat \ {0}

Raised == 300            \* Session::onPointerDown
Unread == -1             \* TimedRestore: the node could not be read

(* A TimedRestore: which one, and its saved_value.                         *)
Objects == 1 .. 3        \* one held, and one with each thread
Restore == [id : Objects, saved : Levels \cup {Raised, Unread}]
NoRestore == [id |-> 0, saved |-> 0]
Freed == [id |-> 0, saved |-> 1]

Started == {"authenticate", "enroll"}        \* these touch the panel
Listed == {"enumerate", "remove"}            \* the library answers later
Threads == {"binder", "vendor"}

VARIABLES
  brightness, wanted,  \* of the panel; what the system last set
  restore,     \* mBrightnessRestore
  left,        \* that of a session closed, replaced and not yet destroyed
  fod,         \* fod_enable
  session,     \* mSession: "none", "open" or "closed"
  signal,      \* the client has a cancellation signal
  waits,       \* the operation the client waits for
  lib,         \* the operation the library runs
  removing,    \* templates it was asked to remove and has not reported
  ids,         \* those removeEnrollments has still to ask it for
  at,          \* per thread: the next step of its call
  taken,       \* per thread: the object it is about to store or to free
  told,        \* what the last step told the client, if a code
  mixed,       \* history: what befell a touch: "nested", "moved", "unread",
               \* "collided"
  refused,     \* history: no one will answer (all of) what the client waits for
  astray       \* history: the client was told that an operation is over while
               \* the library was at it or in its report, and no operation
               \* has found the library idle since

panel == <<brightness, wanted, mixed>>
held == <<restore, left, taken>>
client == <<session, signal, waits, refused>>
removal == <<removing, ids>>
vars == <<halVars, panel, held, fod, client, told, lib, removal, at, astray>>

Init ==
  /\ HalInit
  /\ brightness \in Levels /\ wanted = brightness /\ mixed = {}
  /\ restore = NoRestore /\ left = NoRestore
  /\ taken = [t \in Threads |-> NoRestore]
  /\ fod = FALSE
  /\ session = "none" /\ signal = FALSE /\ waits = "nothing" /\ refused = FALSE
  /\ told = <<>>
  /\ lib = "nothing" /\ removing = 0 /\ ids = 0
  /\ at = [t \in Threads |-> "idle"]
  /\ astray = FALSE

Goto(t, label) == at' = [at EXCEPT ![t] = label]
Other(t) == IF t = "binder" THEN "vendor" ELSE "binder"

(* Bound: once the threads have met in mBrightnessRestore each finishes    *)
(* what it does, and that is the end.                                      *)
Idle(t) == Serving /\ at[t] = "idle" /\ "collided" \notin mixed

(* Bound: what befalls one touch, taken together, is one of Accidents. *)
WithinAccidents == mixed' \ {"collided"} \in Accidents

(* A client's call begins: the binder thread is free, the session open. *)
Called == Idle("binder") /\ session = "open"

-----------------------------------------------------------------------------
(* UdfpsHandler::setFodPress, if there is a handler *)
SetFodPress(enable) == fod' = IF Udfps THEN enable ELSE fod

PanelLabels == {"replace", "discard", "raise", "up", "cancel", "drop", "error"}
Restoring(t) == at[t] \in PanelLabels
Collision(t) == IF Restoring(Other(t)) THEN {"collided"} ELSE {}

(* mBrightnessRestore.reset(): load; then store null and delete. *)
Takes(t, next) ==
  /\ taken' = [taken EXCEPT ![t] = restore]
  /\ mixed' = mixed \cup Collision(t)
  /\ Goto(t, next)

(* ~TimedRestore of the object a thread holds, which the other thread may  *)
(* hold too; what the thread does next may be a crash.  A node that was    *)
(* not read is not written either.                                         *)
Writes(object) == object.id # 0 /\ object.saved >= 0
TakenAfter(t) ==
  [taken EXCEPT ![t] = NoRestore,
                ![Other(t)] = IF @ = taken[t] /\ @ # NoRestore THEN Freed ELSE @]
Destroy_forgets(t, next) ==
  /\ taken' = TakenAfter(t)
  /\ phase' = IF taken[t] = Freed THEN "crashed" ELSE next
  /\ UNCHANGED brightness
Destroy_untested(t, next) ==
  /\ taken' = TakenAfter(t)
  /\ phase' = IF taken[t] = Freed THEN "crashed" ELSE next
  /\ brightness' = taken[t].saved
Destroy(t, next) ==
  /\ taken' = TakenAfter(t)
  /\ phase' = IF taken[t] = Freed THEN "crashed" ELSE next
  /\ brightness' = IF Writes(taken[t]) THEN taken[t].saved ELSE brightness

-----------------------------------------------------------------------------
(* onPointerDown: a new TimedRestore reads the node if it can, takes the   *)
(* place of the old one, which is destroyed, and sets 300 unless it read   *)
(* more.                                                                   *)
NewId == CHOOSE i \in Objects :
           i \notin {restore.id, taken["binder"].id, taken["vendor"].id}
Nested == IF restore # NoRestore \/ left # NoRestore THEN {"nested"} ELSE {}

OnPointerDown ==
  /\ Called /\ Optical
  /\ \E saved \in {brightness, Unread} :
       /\ taken' = [taken EXCEPT !["binder"] = [id |-> NewId, saved |-> saved]]
       /\ mixed' = mixed \cup Nested \cup Collision("binder")
                         \cup (IF saved = Unread THEN {"unread"} ELSE {})
  /\ WithinAccidents
  /\ Goto("binder", "replace")
  /\ UNCHANGED <<halVars, brightness, wanted, restore, left, fod, client, lib, astray>>

ReplacesRestore ==
  /\ Serving /\ at["binder"] = "replace"
  /\ restore' = taken["binder"]
  /\ taken' = [taken EXCEPT !["binder"] = restore]
  /\ Goto("binder", "discard")
  /\ UNCHANGED <<halVars, panel, left, fod, client, lib, astray>>

DiscardsOld ==
  /\ Serving /\ at["binder"] = "discard"
  /\ Destroy("binder", phase)
  /\ Goto("binder", "raise")
  /\ UNCHANGED <<library, gestures, wanted, mixed, restore, left, fod, client, lib, astray>>

(* TimedRestore::set, then the request for touch events *)
TouchEvent == IF device.touchEvent THEN {"request"} ELSE {}

Raises ==
  /\ Serving /\ at["binder"] = "raise"
  /\ phase' = IF restore = NoRestore THEN "crashed" ELSE After(TouchEvent, phase)
  /\ brightness' = IF restore.id # 0 /\ restore.saved <= Raised THEN Raised
                                                                ELSE brightness
  /\ Goto("binder", "idle")
  /\ UNCHANGED <<library, gestures, wanted, mixed, held, fod, client, lib, astray>>

(* onPointerUp; onPointerCancelWithContext does nothing at all. *)
OnPointerUp ==
  /\ Called /\ Optical
  /\ Takes("binder", "up")
  /\ UNCHANGED <<halVars, brightness, wanted, restore, left, fod, client, lib, astray>>

(* CancellationSignal::cancel and Session::cancel: the library first, then *)
(* the panel; onError(CANCELED) only if the library said 0.                *)
Cancel ==
  /\ Called /\ signal /\ waits \notin Listed
  /\ phase' = After({"cancel"}, phase)
  /\ \/ lib' = "nothing" /\ Goto("binder", IF Optical THEN "canceled" ELSE "tell")
     \/ UNCHANGED lib /\ Goto("binder", IF Optical THEN "uncanceled" ELSE "idle")
  /\ removing' = IF lib' = "nothing" THEN 0 ELSE removing
  /\ UNCHANGED <<library, gestures, panel, held, fod, client, ids, astray>>

CancelTakes ==
  /\ Serving /\ at["binder"] \in {"canceled", "uncanceled"}
  /\ Takes("binder", IF at["binder"] = "canceled" THEN "cancel" ELSE "drop")
  /\ UNCHANGED <<halVars, brightness, wanted, restore, left, fod, client, lib, astray>>

BinderDrops ==
  /\ Serving /\ at["binder"] \in {"up", "cancel", "drop"}
  /\ restore' = NoRestore
  /\ Destroy("binder", IF at["binder"] = "up" THEN After(TouchEvent, phase) ELSE phase)
  /\ Goto("binder", IF at["binder"] = "cancel" THEN "tell" ELSE "idle")
  /\ UNCHANGED <<library, gestures, wanted, mixed, left, fod, client, lib, astray>>

(* The answer may come second to a report that ends the operation too, or  *)
(* in the middle of one.                                                   *)
TellsCanceled ==
  /\ Serving /\ at["binder"] = "tell"
  /\ waits' = "nothing"
  /\ astray' = (astray \/ at["vendor"] # "idle")
  /\ Goto("binder", "idle")
  /\ UNCHANGED <<halVars, panel, held, fod, session, signal, refused, lib>>

-----------------------------------------------------------------------------
(* The client asks for an operation. *)
Busy == lib # "nothing" \/ at["vendor"] # "idle"
Asks(op) == Called /\ waits = "nothing" /\ waits' = op /\ astray' = (astray /\ Busy)

(* authenticate and enroll: the switch, then the library; an error of the  *)
(* library is told at once, the client gets its signal all the same.       *)
BeginsOperation(op) ==
  /\ Asks(op) /\ refused' = FALSE
  /\ SetFodPress(TRUE)
  /\ Goto("binder", op)
  /\ UNCHANGED <<halVars, panel, held, session, signal, lib>>

StartsOperation_silent(op) ==
  /\ Serving /\ at["binder"] = op
  /\ phase' = After({op}, phase)
  /\ \/ lib = "nothing" /\ lib' = op
     \/ UNCHANGED lib
  /\ signal' = TRUE
  /\ Goto("binder", "idle")
  /\ UNCHANGED <<library, gestures, panel, held, fod, session, waits, refused, astray>>
StartsOperation(op) ==
  /\ Serving /\ at["binder"] = op
  /\ phase' = After({op}, phase)
  /\ \/ lib = "nothing" /\ lib' = op /\ UNCHANGED waits
     \/ waits' = "nothing" /\ UNCHANGED lib
  /\ signal' = TRUE
  /\ Goto("binder", "idle")
  /\ UNCHANGED <<library, gestures, panel, held, fod, session, refused, astray>>

(* enumerateEnrollments: the library answers later; if it refuses, the     *)
(* service logs that and no one answers.  A library that does not          *)
(* enumerate has a substitute, the user's directory, told at once.         *)
EnumerateEnrollments_untested ==
  /\ Asks("enumerate")
  /\ phase' = After({"enumerate"}, phase)
  /\ \/ lib = "nothing" /\ lib' = "enumerate" /\ refused' = FALSE
     \/ refused' = TRUE /\ UNCHANGED lib
  /\ UNCHANGED <<library, gestures, panel, held, fod, session, signal, at>>
Substituted ==
  /\ Called /\ waits = "nothing" /\ "enumerate" \notin bound
  /\ UNCHANGED <<halVars, lib, waits, refused, astray>>
Enumerated ==
  /\ Asks("enumerate") /\ "enumerate" \in bound
  /\ \/ lib = "nothing" /\ lib' = "enumerate" /\ refused' = FALSE
     \/ refused' = TRUE /\ UNCHANGED lib
  /\ UNCHANGED halVars
EnumerateEnrollments ==
  /\ Substituted \/ Enumerated
  /\ UNCHANGED <<panel, held, fod, session, signal, at>>

(* removeEnrollments: one call of the library for each of n templates,     *)
(* which reports each later.  It may refuse some, and that is only logged; *)
(* with none to remove there is no call and no answer.                     *)
RemoveEnrollments(n) ==
  /\ Asks("remove") /\ refused' = (n = 0)
  /\ ids' = n
  /\ Goto("binder", IF n = 0 THEN "idle" ELSE "remove")
  /\ UNCHANGED <<halVars, panel, held, fod, session, signal, lib, removing>>

RemovesNext ==
  /\ Serving /\ at["binder"] = "remove"
  /\ phase' = After({"remove"}, phase)
  /\ \/ /\ lib \in {"nothing", "remove"} /\ removing < MaxIds
        /\ lib' = "remove" /\ removing' = removing + 1 /\ UNCHANGED refused
     \/ refused' = TRUE /\ UNCHANGED <<lib, removing>>
  /\ ids' = ids - 1
  /\ Goto("binder", IF ids = 1 THEN "idle" ELSE "remove")
  /\ UNCHANGED <<library, gestures, panel, held, fod, session, signal, waits, astray>>

(* generateChallenge, getAuthenticatorId and invalidateAuthenticatorId are *)
(* answered with what the library returns.                                 *)
AsksNumber(f) ==
  /\ Called /\ waits = "nothing"
  /\ phase' = After({f}, phase)
  /\ UNCHANGED <<library, gestures, panel, held, fod, client, lib, at, astray>>

(* detectInteraction is answered by an error, with a signal for nothing. *)
DetectInteraction ==
  /\ Called /\ waits = "nothing"
  /\ signal' = TRUE
  /\ UNCHANGED <<halVars, panel, held, fod, session, waits, refused, lib, at, astray>>

(* revokeChallenge and resetLockout, answered at once; the latter makes no *)
(* call of the library.                                                    *)
SwitchesOff(fs) ==
  /\ Called /\ waits = "nothing"
  /\ SetFodPress(FALSE)
  /\ phase' = After(fs, phase)
  /\ UNCHANGED <<library, gestures, panel, held, client, lib, at, astray>>
RevokeChallenge == SwitchesOff({"post_enroll"})
ResetLockout == SwitchesOff({})

-----------------------------------------------------------------------------
(* createSession: the session before it goes when its last reference does, *)
(* with the TimedRestore it may still have.  The library's thread is       *)
(* between reports: FingerprintSession has the other orders.               *)
CreateSession ==
  /\ Idle("binder") /\ session # "open" /\ at["vendor"] = "idle"
  /\ left = NoRestore   \* bound: one session waits to be destroyed
  /\ phase' = After({"set_active_group"}, phase)
  /\ session' = "open" /\ signal' = FALSE
  /\ restore' = NoRestore /\ left' = restore
  /\ UNCHANGED <<library, gestures, panel, taken, fod, waits, refused, lib, at, astray>>

SessionDestroyed ==
  /\ Idle("binder") /\ left # NoRestore
  /\ left' = NoRestore
  /\ brightness' = IF Writes(left) THEN left.saved ELSE brightness
  /\ mixed' = IF restore = NoRestore THEN mixed ELSE mixed \cup {"moved"}
  /\ UNCHANGED <<halVars, wanted, restore, taken, fod, client, lib, at, astray>>

(* Session::close, by the client or for it when it has died: the panel and *)
(* the library's operation stay as they are.                               *)
Close ==
  /\ Called
  /\ session' = "closed" /\ signal' = FALSE
  /\ waits' = "nothing" /\ refused' = FALSE
  /\ astray' = Busy
  /\ UNCHANGED <<halVars, panel, held, fod, lib, at>>

(* The system sets the brightness of the panel, between calls and reports. *)
NothingHeld == restore = NoRestore /\ left = NoRestore
AtRest == Serving /\ \A t \in Threads : at[t] = "idle"

SystemSets(level) ==
  /\ AtRest /\ Idle("binder") /\ level # brightness
  /\ brightness' = level /\ wanted' = level
  /\ mixed' = IF NothingHeld THEN {} ELSE mixed \cup {"moved"}
  /\ WithinAccidents
  /\ UNCHANGED <<halVars, held, fod, client, lib, at, astray>>

-----------------------------------------------------------------------------
(* The library reports: Fingerprint::notify drops what finds no session    *)
(* open, Session::notify does the rest.                                    *)
Reports == Idle("vendor") /\ registered
Heard == session = "open"
Answers(op) == waits' = IF waits = op THEN "nothing" ELSE waits

ReportsError ==
  /\ Reports /\ lib # "nothing"
  /\ lib' = "nothing" /\ removing' = 0
  /\ IF Heard /\ Optical THEN Takes("vendor", "error")
     ELSE Goto("vendor", IF Heard THEN "fail" ELSE "idle") /\ UNCHANGED <<taken, mixed>>
  /\ UNCHANGED <<halVars, brightness, wanted, restore, left, fod, client, ids, astray>>

(* The client is told that all is over, while removeEnrollments may go on  *)
(* to ask for the next template.                                           *)
TellsError(code) ==
  /\ Serving /\ at["vendor"] = "fail"
  /\ told' = <<"error", code, VendorErrorFilter(code)>>
  /\ waits' = "nothing" /\ refused' = FALSE
  /\ astray' = (astray \/ lib # "nothing" \/ at["binder"] = "remove")
  /\ Goto("vendor", "idle")
  /\ UNCHANGED <<halVars, panel, held, fod, session, signal, lib>>

(* FINGERPRINT_AUTHENTICATED with a finger that matches *)
ReportsSuccess ==
  /\ Reports /\ lib = "authenticate"
  /\ lib' = "nothing"
  /\ Goto("vendor", IF Heard THEN "success" ELSE "idle")
  /\ UNCHANGED <<halVars, panel, held, fod, client, astray>>

FinishesPanel_tellsFirst ==
  /\ Serving /\ at["vendor"] = "success"
  /\ Answers("authenticate")
  /\ IF waits = "authenticate" THEN UNCHANGED <<fod, taken, mixed, at>>
     ELSE SetFodPress(FALSE) /\ Takes("vendor", "drop")
  /\ UNCHANGED <<halVars, brightness, wanted, restore, left, session, signal,
                 refused, lib, astray>>
FinishesPanel ==
  /\ Serving /\ at["vendor"] = "success"
  /\ SetFodPress(FALSE)
  /\ IF Optical THEN Takes("vendor", "drop")
                ELSE Goto("vendor", "tell") /\ UNCHANGED <<taken, mixed>>
  /\ UNCHANGED <<halVars, brightness, wanted, restore, left, client, lib, astray>>

VendorDrops ==
  /\ Serving /\ at["vendor"] \in {"error", "drop"}
  /\ restore' = NoRestore
  /\ Destroy("vendor", phase)
  /\ Goto("vendor", IF at["vendor"] = "error" THEN "fail" ELSE "tell")
  /\ UNCHANGED <<library, gestures, wanted, mixed, left, fod, client, lib, astray>>

TellsSuccess ==
  /\ Serving /\ at["vendor"] = "tell"
  /\ Answers("authenticate")
  /\ Goto("vendor", "idle")
  /\ UNCHANGED <<halVars, panel, held, fod, session, signal, refused, lib, astray>>

(* FINGERPRINT_TEMPLATE_ENROLLING: the library counts down, or up in per   *)
(* cent; with cancel_on_enroll_completion it goes on until it is cancelled.*)
Reported(done) ==
  IF device.percentage THEN (IF done THEN 100 ELSE 50) ELSE (IF done THEN 0 ELSE 50)

ReportsProgress(done) ==
  LET last == SamplesRemaining(device.percentage, Reported(done)) = 0
      cancels == Heard /\ last /\ device.cancelOnCompletion
  IN
  /\ Reports /\ lib = "enroll"
  /\ phase' = After(IF cancels THEN {"cancel"} ELSE {}, phase)
  /\ lib' = IF cancels \/ (done /\ ~device.cancelOnCompletion) THEN "nothing" ELSE lib
  /\ IF Heard /\ last THEN Answers("enroll") ELSE UNCHANGED waits
  /\ UNCHANGED <<library, gestures, panel, held, fod, session, signal, refused,
                 at, astray>>

(* The last template listed; a template removed, the client's last perhaps. *)
ReportsListed ==
  /\ Reports /\ lib = "enumerate"
  /\ lib' = "nothing"
  /\ IF Heard THEN Answers(lib) ELSE UNCHANGED waits
  /\ UNCHANGED <<halVars, panel, held, fod, session, signal, refused, at, astray>>

ReportsRemoved ==
  /\ Reports /\ lib = "remove"
  /\ removing' = removing - 1
  /\ lib' = IF removing = 1 THEN "nothing" ELSE lib
  /\ IF Heard /\ removing = 1 /\ ids = 0 /\ ~refused THEN Answers(lib)
                                                     ELSE UNCHANGED waits
  /\ UNCHANGED <<halVars, panel, held, fod, session, signal, refused, ids, at, astray>>

ReportsAcquired(info) ==
  /\ Reports /\ lib \in Started
  /\ Heard /\ ~IsEvent(info)
  /\ told' = <<"acquired", info, VendorAcquiredFilter(info)>>
  /\ UNCHANGED <<halVars, panel, held, fod, client, lib, at, astray>>

-----------------------------------------------------------------------------
others == <<panel, held, fod, client, lib, at, astray>>

ServiceStarts == (OpenHal \/ SetUp) /\ UNCHANGED others
Swipes == at["vendor"] = "idle" /\ (\E key \in Keys : HandleSwipe(key))
          /\ UNCHANGED others

Binder ==
  \/ CreateSession \/ Close \/ SessionDestroyed
  \/ \E op \in Started : BeginsOperation(op) \/ StartsOperation(op)
  \/ EnumerateEnrollments
  \/ \E f \in {"pre_enroll", "get_auth_id"} : AsksNumber(f)
  \/ DetectInteraction \/ RevokeChallenge \/ ResetLockout
  \/ OnPointerDown \/ ReplacesRestore \/ DiscardsOld \/ Raises
  \/ OnPointerUp \/ CancelTakes \/ BinderDrops \/ TellsCanceled
Vendor ==
  \/ ReportsSuccess \/ FinishesPanel \/ VendorDrops \/ TellsSuccess
  \/ (\E done \in BOOLEAN : ReportsProgress(done)) \/ ReportsListed \/ Swipes
Removals ==
  \/ Cancel \/ ReportsError
  \/ (\E n \in 0 .. MaxIds : RemoveEnrollments(n)) \/ RemovesNext \/ ReportsRemoved
Tells ==
  \/ \E code \in ErrorCodes : TellsError(code)
  \/ \E info \in AcquiredCodes : ReportsAcquired(info)
Elsewhere == ServiceStarts \/ \E level \in Levels : SystemSets(level)

Next ==
  \/ Tells /\ UNCHANGED removal
  \/ (Binder \/ Vendor \/ Elsewhere) /\ told' = <<>> /\ UNCHANGED removal
  \/ Removals /\ told' = <<>>
Spec == Init /\ [][Next]_vars

-----------------------------------------------------------------------------
(* Type invariant; Objects bounds the TimedRestores alive at a time.       *)
Labels ==
  {"idle", "tell", "fail", "success", "canceled", "uncanceled", "remove"}
    \cup PanelLabels \cup Started
TypeOK ==
  /\ HalTypeOK
  /\ brightness \in Levels \cup {Raised} /\ wanted \in Levels
  /\ mixed \subseteq {"nested", "moved", "unread", "collided"}
  /\ restore \in Restore \cup {NoRestore} /\ left \in Restore \cup {NoRestore}
  /\ taken \in [Threads -> Restore \cup {NoRestore, Freed}]
  /\ fod \in BOOLEAN /\ signal \in BOOLEAN /\ refused \in BOOLEAN /\ astray \in BOOLEAN
  /\ session \in {"none", "open", "closed"}
  /\ waits \in Started \cup Listed \cup {"nothing"}
  /\ lib \in Started \cup Listed \cup {"nothing"}
  /\ removing \in 0 .. MaxIds /\ ids \in 0 .. MaxIds
  /\ at \in [Threads -> Labels]

(* Whatever ends a touch (pointer up, cancel, an error, a success, the end *)
(* of the session), the panel is back at what the system set, unless a     *)
(* second pointer down came first, the system moved it meanwhile, the two  *)
(* threads met in mBrightnessRestore, or its node could not be read, which *)
(* leaves it at 300.                                                       *)
PanelGivenBack ==
  AtRest /\ NothingHeld /\ mixed = {} => brightness = wanted

(* As long as a touch holds the panel it is bright enough to read the      *)
(* finger, after a second pointer down too (the old TimedRestore writes    *)
(* its value before the new one raises it) and if the node was not read;   *)
(* unless the system moved it or the threads met.                          *)
PanelRaised ==
  AtRest /\ restore # NoRestore /\ mixed \subseteq {"nested", "unread"} =>
    brightness >= Raised

(* A touch has the panel raised, and its end gives it back. *)
PanelFollowsTouch == PanelRaised /\ PanelGivenBack

(* An operation the client waits for and the library runs has the touch    *)
(* controller reporting fingers: the success of the one before switches it *)
(* off before, not after, the client is told and can start the next.       *)
(* Not so after the client was told that an operation is over while the    *)
(* library was still at it, or in its report: cancel() answers in the      *)
(* middle of a success (lines 300-309 against 481-490), close() leaves the *)
(* library running, an error ends a removal that goes on.  The report of   *)
(* the old operation may then reach the next one, and a success switches   *)
(* it off.  That lasts until an operation begins with the library idle.    *)
OperationHasFod ==
  Udfps /\ lib \in Started /\ waits = lib /\ ~astray => fod

(* Between calls and reports the client waits for what the library runs:   *)
(* an operation that failed to start, was cancelled or has counted its last *)
(* sample has been answered, and one that was answered has ended.  Never   *)
(* answered are an enumeration or a removal the library refuses, in part   *)
(* perhaps, and a removal of nothing.  And as above: after an answer while *)
(* the library was still at the operation, the next one may get its report *)
(* for an answer, until one begins with the library idle.                  *)
WaitsForLibrary == AtRest /\ ~astray => lib = waits \/ refused

(* The service dies only of a function its library lacks, or of both       *)
(* threads in mBrightnessRestore at a time: without the latter a pointer   *)
(* down never finds the object it made gone, and none is freed twice.      *)
CrashNeedsReason == phase = "crashed" => LibraryLacks \/ "collided" \in mixed

(* A key the input system holds pressed is one whose swipe broke off: the  *)
(* whole of a swipe releases what it pressed.                              *)
KeysReleased == keysDown \subseteq cut

(* Neither a crash nor a stuck key without a fault of somebody else's or    *)
(* the race on mBrightnessRestore, which the code has and this admits.     *)
FaultsNeedReason == CrashNeedsReason /\ KeysReleased

(* Codes no filter knows: all of them look like a failure to process, or   *)
(* like an insufficient sample (2 and 2).                                  *)
UnknownError(e) == e < FINGERPRINT_ERROR_VENDOR_BASE /\ e \notin 1 .. 7
UnknownAcquired(i) == i < FINGERPRINT_ACQUIRED_VENDOR_BASE /\ i \notin 0 .. 5
ErrorsAlike(a, b) ==
  \/ {a, b} = {FINGERPRINT_ERROR_LOCKOUT, 1007}
  \/ \A e \in {a, b} : e = 2 \/ UnknownError(e)
AcquiredAlike(a, b) == \A i \in {a, b} : i = 2 \/ UnknownAcquired(i)

(* What the client is told of an error or an acquired message tells it     *)
(* which one it was, but for Samsung's 1007 (a pattern), which looks like  *)
(* a lockout, and the codes no filter knows, Samsung's -100 (an update of  *)
(* the application) among them; events of the sensor are not among what it *)
(* is told, whatever their number.                                         *)
CodesStayApart ==
  told # <<>> =>
    IF told[1] = "error"
      THEN \A e \in ErrorCodes :
             VendorErrorFilter(e) = told[3] => e = told[2] \/ ErrorsAlike(e, told[2])
      ELSE /\ told[2] <= SEM_FINGERPRINT_EVENT_BASE
           /\ \A i \in AcquiredCodes :
                VendorAcquiredFilter(i) = told[3] => i = told[2] \/ AcquiredAlike(i, told[2])
=============================================================================
