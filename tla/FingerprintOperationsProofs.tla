-------------------- MODULE FingerprintOperationsProofs --------------------
(***************************************************************************)
(* What the panel, the touch controller, the client and the keys may rely  *)
(* on in FingerprintOperations, for every set of devices, brightness       *)
(* levels and codes.                                                       *)
(*                                                                         *)
(* bAt and vAt are where the two threads are, bHas and vHas what they have *)
(* taken from mBrightnessRestore.  Most actions touch neither (Quiet); the *)
(* lemmas on the panel go over the ones that do (OnPanel).                 *)
(***************************************************************************)
EXTENDS FingerprintOperations, TLAPS

bAt == at["binder"]
vAt == at["vendor"]
bHas == taken["binder"]
vHas == taken["vendor"]

AtOK ==
  /\ at \in [Threads -> Labels]
  /\ bAt \in {"idle", "replace", "discard", "raise", "up", "canceled", "uncanceled",
              "cancel", "drop", "tell", "remove"} \cup Started
  /\ vAt \in {"idle", "fail", "success", "error", "drop", "tell"}

(* Steps as mBrightnessRestore and the panel see them. *)
Memory == <<brightness, wanted, mixed, restore, left, taken>>
Quiet ==
  /\ UNCHANGED Memory
  /\ bAt \in PanelLabels \/ bAt' \in PanelLabels => bAt' = bAt
  /\ vAt \in PanelLabels \/ vAt' \in PanelLabels => vAt' = vAt
BinderTakes ==
  /\ bAt \in {"idle", "canceled", "uncanceled"} /\ bAt' \in {"up", "cancel", "drop"}
  /\ vAt' = vAt
  /\ bHas' = restore /\ vHas' = vHas /\ taken' = [taken EXCEPT !["binder"] = restore]
  /\ mixed' = mixed \cup Collision("binder")
  /\ UNCHANGED <<brightness, wanted, restore, left>>
VendorTakes ==
  /\ vAt \in {"idle", "success"} /\ vAt' \in {"error", "drop"} /\ bAt' = bAt
  /\ vHas' = restore /\ bHas' = bHas /\ taken' = [taken EXCEPT !["vendor"] = restore]
  /\ mixed' = mixed \cup Collision("vendor")
  /\ UNCHANGED <<brightness, wanted, restore, left>>
Clears(t) ==
  /\ restore' = NoRestore /\ taken' = TakenAfter(t)
  /\ brightness' = IF Writes(taken[t]) THEN taken[t].saved ELSE brightness
  /\ UNCHANGED <<wanted, mixed, left>>

LEMMA Gone ==
  ASSUME at \in [Threads -> Labels], NEW l \in Labels
  PROVE  /\ Goto("binder", l) => at' \in [Threads -> Labels] /\ bAt' = l /\ vAt' = vAt
         /\ Goto("vendor", l) => at' \in [Threads -> Labels] /\ vAt' = l /\ bAt' = bAt
  BY DEF Goto, bAt, vAt, Threads

LEMMA TakenBy ==
  ASSUME taken \in [Threads -> Restore \cup {NoRestore, Freed}]
  PROVE  /\ taken' = TakenAfter("binder") =>
              /\ bHas' = NoRestore
              /\ vHas' = IF vHas = bHas /\ vHas # NoRestore THEN Freed ELSE vHas
         /\ taken' = TakenAfter("vendor") =>
              /\ vHas' = NoRestore
              /\ bHas' = IF bHas = vHas /\ bHas # NoRestore THEN Freed ELSE bHas
         /\ \A t \in Threads :
              TakenAfter(t) \in [Threads -> Restore \cup {NoRestore, Freed}]
  BY DEF TakenAfter, Other, bHas, vHas, Threads

LEMMA LabelsAre ==
  /\ {"idle", "tell", "fail", "success", "replace", "discard", "raise", "up", "cancel",
      "canceled", "uncanceled", "remove", "drop", "error", "authenticate",
      "enroll"} \subseteq Labels
  /\ Started \subseteq Labels
  /\ "idle" \notin PanelLabels /\ "tell" \notin PanelLabels /\ "fail" \notin PanelLabels
  /\ "success" \notin PanelLabels /\ "canceled" \notin PanelLabels
  /\ "uncanceled" \notin PanelLabels /\ "remove" \notin PanelLabels
  /\ \A op \in Started : op \notin PanelLabels
  BY DEF Labels, PanelLabels, Started

BinderClears ==
  /\ bAt \in {"up", "cancel", "drop"} /\ bAt' \in {"tell", "idle"} /\ vAt' = vAt
  /\ Clears("binder")
VendorClears ==
  /\ vAt \in {"error", "drop"} /\ vAt' \in {"fail", "tell"} /\ bAt' = bAt
  /\ Clears("vendor")
OnPanel ==
  \/ BinderTakes \/ VendorTakes \/ BinderClears \/ VendorClears
  \/ OnPointerDown \/ ReplacesRestore \/ DiscardsOld \/ Raises
  \/ CreateSession \/ SessionDestroyed \/ \E level \in Levels : SystemSets(level)

LEMMA StepShape ==
  ASSUME AtOK, taken \in [Threads -> Restore \cup {NoRestore, Freed}], [Next]_vars
  PROVE  AtOK' /\ (Quiet \/ OnPanel)
<1> USE LabelsAre DEF AtOK
<1>t. ASSUME UNCHANGED Memory, UNCHANGED at PROVE AtOK' /\ Quiet
  BY <1>t DEF Quiet, bAt, vAt
<1>b. ASSUME UNCHANGED Memory, NEW l \in Labels, Goto("binder", l), bAt \notin PanelLabels,
             l \in {"idle", "tell", "canceled", "uncanceled", "remove"} \cup Started
      PROVE  AtOK' /\ Quiet
  BY <1>b, Gone DEF Quiet
<1>v. ASSUME UNCHANGED Memory, NEW l \in Labels, Goto("vendor", l), vAt \notin PanelLabels,
             l \in {"idle", "fail", "success", "tell"}
      PROVE  AtOK' /\ Quiet
  BY <1>v, Gone DEF Quiet
<1>k. ASSUME taken \in [Threads -> Restore \cup {NoRestore, Freed}], UNCHANGED at PROVE AtOK'
  BY <1>k DEF bAt, vAt
<1>1. ASSUME Close PROVE AtOK' /\ Quiet
  BY <1>1, <1>t DEF Close, Memory, panel, held
<1>2. ASSUME NEW op \in Started, BeginsOperation(op) PROVE AtOK' /\ Quiet
  <2>1. UNCHANGED Memory /\ Goto("binder", op) /\ bAt \notin PanelLabels
    BY <1>2 DEF BeginsOperation, Asks, Memory, panel, held, Called, Idle, bAt
  <2> QED BY <2>1, <1>b
<1>3. ASSUME NEW op \in Started, StartsOperation(op) PROVE AtOK' /\ Quiet
  <2>1. UNCHANGED Memory /\ Goto("binder", "idle") /\ bAt \notin PanelLabels
    BY <1>3 DEF StartsOperation, Memory, panel, held, Called, Idle, bAt
  <2> QED BY <2>1, <1>b
<1>4. ASSUME EnumerateEnrollments PROVE AtOK' /\ Quiet
  BY <1>4, <1>t DEF EnumerateEnrollments, Memory, panel, held
<1>5. ASSUME NEW f \in {"pre_enroll", "get_auth_id"}, AsksNumber(f) PROVE AtOK' /\ Quiet
  BY <1>5, <1>t DEF AsksNumber, Memory, panel, held
<1>6. ASSUME DetectInteraction PROVE AtOK' /\ Quiet
  BY <1>6, <1>t DEF DetectInteraction, Memory, panel, held
<1>7. ASSUME RevokeChallenge PROVE AtOK' /\ Quiet
  BY <1>7, <1>t DEF RevokeChallenge, SwitchesOff, Memory, panel, held
<1>8. ASSUME ResetLockout PROVE AtOK' /\ Quiet
  BY <1>8, <1>t DEF ResetLockout, SwitchesOff, Memory, panel, held
<1>9. ASSUME TellsCanceled PROVE AtOK' /\ Quiet
  <2>1. UNCHANGED Memory /\ Goto("binder", "idle") /\ bAt \notin PanelLabels
    BY <1>9 DEF TellsCanceled, Memory, panel, held, Called, Idle, bAt
  <2> QED BY <2>1, <1>b
<1>10. ASSUME ReportsSuccess PROVE AtOK' /\ Quiet
  <2>1. UNCHANGED Memory /\ vAt = "idle"
        /\ (Goto("vendor", "success") \/ Goto("vendor", "idle"))
    BY <1>10 DEF ReportsSuccess, Memory, panel, held, Reports, Idle, vAt
  <2> QED BY <2>1, <1>v
<1>11. ASSUME TellsSuccess PROVE AtOK' /\ Quiet
  <2>1. UNCHANGED Memory /\ Goto("vendor", "idle") /\ vAt \notin PanelLabels
    BY <1>11 DEF TellsSuccess, Memory, panel, held, Called, Idle, vAt
  <2> QED BY <2>1, <1>v
<1>12. ASSUME NEW done \in BOOLEAN, ReportsProgress(done) PROVE AtOK' /\ Quiet
  BY <1>12, <1>t DEF ReportsProgress, Memory, panel, held
<1>13. ASSUME ReportsListed \/ ReportsRemoved PROVE AtOK' /\ Quiet
  BY <1>13, <1>t DEF ReportsListed, ReportsRemoved, Memory, panel, held
<1>14. ASSUME Swipes PROVE AtOK' /\ Quiet
  BY <1>14, <1>t DEF Swipes, others, Memory, panel, held
<1>15. ASSUME NEW code \in ErrorCodes, TellsError(code) PROVE AtOK' /\ Quiet
  <2>1. UNCHANGED Memory /\ Goto("vendor", "idle") /\ vAt \notin PanelLabels
    BY <1>15 DEF TellsError, Memory, panel, held, Called, Idle, vAt
  <2> QED BY <2>1, <1>v
<1>16. ASSUME NEW info \in AcquiredCodes, ReportsAcquired(info) PROVE AtOK' /\ Quiet
  BY <1>16, <1>t DEF ReportsAcquired, Memory, panel, held
<1>17. ASSUME ServiceStarts PROVE AtOK' /\ Quiet
  BY <1>17, <1>t DEF ServiceStarts, others, Memory, panel, held
<1>18. ASSUME OnPointerUp PROVE AtOK' /\ BinderTakes
  <2>1. bAt = "idle" /\ Goto("binder", "up") /\ UNCHANGED <<brightness, wanted, restore, left>>
        /\ taken' = [taken EXCEPT !["binder"] = restore] /\ mixed' = mixed \cup Collision("binder")
    BY <1>18 DEF OnPointerUp, Takes, Called, Idle, bAt
  <2> QED BY <2>1, Gone DEF BinderTakes, bHas, vHas, Threads
<1>19. ASSUME Cancel PROVE AtOK' /\ Quiet
  <2>1. /\ UNCHANGED Memory /\ bAt = "idle"
        /\ \E l \in {"canceled", "uncanceled", "tell", "idle"} : Goto("binder", l)
    BY <1>19 DEF Cancel, Memory, panel, held, Called, Idle, bAt
  <2> QED BY <2>1, <1>b
<1>30. ASSUME CancelTakes PROVE AtOK' /\ BinderTakes
  <2>1. /\ bAt \in {"canceled", "uncanceled"}
        /\ \E l \in {"cancel", "drop"} : Goto("binder", l)
        /\ UNCHANGED <<brightness, wanted, restore, left>>
        /\ taken' = [taken EXCEPT !["binder"] = restore] /\ mixed' = mixed \cup Collision("binder")
    BY <1>30 DEF CancelTakes, Takes, bAt
  <2> QED BY <2>1, Gone DEF BinderTakes, bHas, vHas, Threads
<1>31. ASSUME NEW n \in 0 .. MaxIds, RemoveEnrollments(n) PROVE AtOK' /\ Quiet
  <2>1. /\ UNCHANGED Memory /\ bAt = "idle"
        /\ \E l \in {"idle", "remove"} : Goto("binder", l)
    BY <1>31 DEF RemoveEnrollments, Asks, Memory, panel, held, Called, Idle, bAt
  <2> QED BY <2>1, <1>b
<1>32. ASSUME RemovesNext PROVE AtOK' /\ Quiet
  <2>1. /\ UNCHANGED Memory /\ bAt = "remove"
        /\ \E l \in {"idle", "remove"} : Goto("binder", l)
    BY <1>32 DEF RemovesNext, Memory, panel, held, bAt
  <2> QED BY <2>1, <1>b
<1>20. ASSUME ReportsError PROVE AtOK' /\ (Quiet \/ VendorTakes)
  <2>1. vAt = "idle" /\ UNCHANGED <<brightness, wanted, restore, left>>
    BY <1>20 DEF ReportsError, Reports, Idle, vAt
  <2>2. \/ /\ Goto("vendor", "error") /\ taken' = [taken EXCEPT !["vendor"] = restore]
           /\ mixed' = mixed \cup Collision("vendor")
        \/ \E l \in {"fail", "idle"} : Goto("vendor", l) /\ UNCHANGED <<taken, mixed>>
    BY <1>20 DEF ReportsError, Takes
  <2>3. CASE /\ Goto("vendor", "error") /\ taken' = [taken EXCEPT !["vendor"] = restore]
             /\ mixed' = mixed \cup Collision("vendor")
    BY <2>1, <2>3, Gone DEF VendorTakes, bHas, vHas, Threads
  <2>4. CASE \E l \in {"fail", "idle"} : Goto("vendor", l) /\ UNCHANGED <<taken, mixed>>
    BY <2>1, <2>4, <1>v DEF Memory
  <2> QED BY <2>2, <2>3, <2>4
<1>21. ASSUME FinishesPanel PROVE AtOK' /\ (Quiet \/ VendorTakes)
  <2>1. vAt = "success" /\ UNCHANGED <<brightness, wanted, restore, left>>
    BY <1>21 DEF FinishesPanel, vAt
  <2>2. \/ /\ Goto("vendor", "drop") /\ taken' = [taken EXCEPT !["vendor"] = restore]
           /\ mixed' = mixed \cup Collision("vendor")
        \/ Goto("vendor", "tell") /\ UNCHANGED <<taken, mixed>>
    BY <1>21 DEF FinishesPanel, Takes
  <2>3. CASE /\ Goto("vendor", "drop") /\ taken' = [taken EXCEPT !["vendor"] = restore]
             /\ mixed' = mixed \cup Collision("vendor")
    BY <2>1, <2>3, Gone DEF VendorTakes, bHas, vHas, Threads
  <2>4. CASE Goto("vendor", "tell") /\ UNCHANGED <<taken, mixed>>
    BY <2>1, <2>4, <1>v DEF Memory
  <2> QED BY <2>2, <2>3, <2>4
<1>22. ASSUME BinderDrops PROVE AtOK' /\ BinderClears
  <2>1. /\ bAt \in {"up", "cancel", "drop"} /\ Clears("binder")
        /\ (Goto("binder", "tell") \/ Goto("binder", "idle"))
    BY <1>22 DEF BinderDrops, Destroy, Clears, bAt
  <2> QED BY <2>1, Gone DEF BinderClears
<1>23. ASSUME VendorDrops PROVE AtOK' /\ VendorClears
  <2>1. /\ vAt \in {"error", "drop"} /\ Clears("vendor")
        /\ (Goto("vendor", "fail") \/ Goto("vendor", "tell"))
    BY <1>23 DEF VendorDrops, Destroy, Clears, vAt
  <2> QED BY <2>1, Gone DEF VendorClears
<1>24. ASSUME OnPointerDown PROVE AtOK'
  <2>1. Goto("binder", "replace")
    BY <1>24 DEF OnPointerDown
  <2> QED BY <2>1, Gone
<1>25. ASSUME ReplacesRestore PROVE AtOK'
  <2>1. Goto("binder", "discard")
    BY <1>25 DEF ReplacesRestore
  <2> QED BY <2>1, Gone
<1>26. ASSUME DiscardsOld PROVE AtOK'
  <2>1. Goto("binder", "raise")
    BY <1>26 DEF DiscardsOld
  <2> QED BY <2>1, Gone
<1>27. ASSUME Raises PROVE AtOK'
  <2>1. Goto("binder", "idle")
    BY <1>27 DEF Raises
  <2> QED BY <2>1, Gone
<1>28. ASSUME CreateSession \/ SessionDestroyed \/ \E level \in Levels : SystemSets(level)
      PROVE  AtOK'
  <2>1. UNCHANGED at
    BY <1>28 DEF CreateSession, SessionDestroyed, SystemSets
  <2> QED BY <2>1, <1>k
<1>29. ASSUME UNCHANGED vars PROVE AtOK' /\ Quiet
  <2>1. UNCHANGED Memory /\ UNCHANGED at
    BY <1>29 DEF vars, Memory, panel, held
  <2> QED BY <2>1, <1>t
<1> QED
  BY <1>1, <1>2, <1>3, <1>4, <1>5, <1>6, <1>7, <1>8, <1>9, <1>10, <1>11, <1>12,
     <1>13, <1>14, <1>15, <1>16, <1>17, <1>18, <1>19, <1>20, <1>21, <1>22,
     <1>23, <1>24, <1>25, <1>26, <1>27, <1>28, <1>29, <1>30, <1>31, <1>32
     DEF Next, Binder, Vendor, Removals, Tells, Elsewhere, OnPanel

-----------------------------------------------------------------------------
(* mBrightnessRestore. *)

(* What a thread holds outside of its steps at the panel is nothing, and a *)
(* new object is no one else's until it is stored.                         *)
HeldOK ==
  /\ brightness \in Levels \cup {Raised} /\ wanted \in Levels
  /\ restore \in Restore \cup {NoRestore} /\ left \in Restore \cup {NoRestore}
  /\ taken \in [Threads -> Restore \cup {NoRestore, Freed}]
  /\ bAt \notin PanelLabels \/ bAt = "raise" => bHas = NoRestore
  /\ vAt \notin PanelLabels => vHas = NoRestore
  /\ bAt = "replace" =>
       bHas \in Restore /\ bHas.id # restore.id /\ bHas.id # vHas.id

(* As long as the threads have not met, one of them at most is at it, none *)
(* frees what the other has freed, and a pointer down finds its object.    *)
AloneOK ==
  "collided" \notin mixed =>
    /\ bAt \notin PanelLabels \/ vAt \notin PanelLabels
    /\ bHas # Freed /\ vHas # Freed
    /\ bAt \in {"discard", "raise"} => restore # NoRestore

LEMMA Objects0 ==
  /\ NoRestore \notin Restore /\ Freed \notin Restore /\ NoRestore # Freed
  /\ NoRestore.id = 0 /\ Freed.id = 0
  /\ \A r \in Restore :
       r.id \in Objects /\ r.id # 0 /\ r.saved \in Levels \cup {Raised, Unread}
  /\ Levels \subseteq Nat /\ Raised \in Nat
  BY LevelsAssumption DEF NoRestore, Freed, Restore, Objects, Raised

LEMMA SavedInt ==
  ASSUME NEW x \in Levels \cup {Raised, Unread}
  PROVE  x \in Int /\ (x >= 0 <=> x # Unread)
<1>1. CASE x \in Levels
  BY <1>1, LevelsAssumption DEF Unread
<1>2. CASE x = Raised
  BY <1>2 DEF Raised, Unread
<1>3. CASE x = Unread
  BY <1>3 DEF Unread
<1> QED BY <1>1, <1>2, <1>3

LEMMA WritesLevel ==
  ASSUME NEW r \in Restore \cup {NoRestore, Freed}
  PROVE  /\ Writes(r) => r \in Restore /\ r.saved \in Levels \cup {Raised}
         /\ Writes(r) <=> r \in Restore /\ r.saved # Unread
<1>1. CASE r \in Restore
  <2>1. r.saved \in Levels \cup {Raised, Unread} /\ r.id # 0
    BY <1>1, Objects0
  <2>2. r.saved >= 0 <=> r.saved # Unread
    BY <2>1, SavedInt
  <2> QED BY <1>1, <2>1, <2>2, Objects0 DEF Writes, Unread
<1>2. CASE r \in {NoRestore, Freed}
  BY <1>2, Objects0 DEF Writes
<1> QED BY <1>1, <1>2

LEMMA HeldTypes ==
  ASSUME HeldOK
  PROVE  /\ bHas \in Restore \cup {NoRestore, Freed} /\ vHas \in Restore \cup {NoRestore, Freed}
         /\ \A t \in Threads : taken[t] \in Restore \cup {NoRestore, Freed}
         /\ "binder" \in Threads /\ "vendor" \in Threads
         /\ taken["binder"] = bHas /\ taken["vendor"] = vHas
  BY DEF HeldOK, bHas, vHas, Threads

LEMMA NewIdIsNew ==
  ASSUME HeldOK, bHas = NoRestore
  PROVE  NewId \in Objects /\ NewId # restore.id /\ NewId # vHas.id
<1>1. restore.id \in 0 .. 3 /\ vHas.id \in 0 .. 3 /\ bHas.id = 0
  BY HeldTypes, Objects0 DEF HeldOK, Objects
<1>2. \E i \in Objects : i \notin {restore.id, bHas.id, vHas.id}
  BY <1>1 DEF Objects
<1> QED BY <1>2 DEF NewId, bHas, vHas

LEMMA HeldStep ==
  ASSUME AtOK, AtOK', HeldOK, Quiet \/ OnPanel
  PROVE  HeldOK'
<1> USE Objects0, HeldTypes DEF AtOK
<1>w. \A r \in Restore \cup {NoRestore, Freed} : Writes(r) => r.saved \in Levels \cup {Raised}
  BY WritesLevel
<1>0. /\ "replace" \in PanelLabels /\ "discard" \in PanelLabels /\ "raise" \in PanelLabels
      /\ {"up", "cancel", "drop", "error"} \subseteq PanelLabels
      /\ {"idle", "tell", "fail", "success", "canceled", "uncanceled"} \cap PanelLabels = {}
  BY DEF PanelLabels
<1>1. CASE Quiet
  <2>1. bHas' = bHas /\ vHas' = vHas
    BY <1>1 DEF Quiet, Memory, bHas, vHas
  <2>2. bAt' = "replace" => bAt = "replace"
    BY <1>1, <1>0 DEF Quiet
  <2> QED BY <1>1, <2>1, <2>2 DEF Quiet, Memory, HeldOK
<1>2. CASE BinderTakes
  <2>1. taken' \in [Threads -> Restore \cup {NoRestore, Freed}]
    BY <1>2 DEF BinderTakes, HeldOK
  <2> QED BY <1>2, <2>1, <1>0 DEF BinderTakes, HeldOK
<1>3. CASE VendorTakes
  <2>1. taken' \in [Threads -> Restore \cup {NoRestore, Freed}]
    BY <1>3 DEF VendorTakes, HeldOK
  <2>2. bAt = "replace" => bHas'.id # vHas'.id
    BY <1>3 DEF VendorTakes, HeldOK
  <2> QED BY <1>3, <2>1, <2>2, <1>0 DEF VendorTakes, HeldOK
<1>4. CASE BinderClears
  <2>1. /\ taken' \in [Threads -> Restore \cup {NoRestore, Freed}] /\ bHas' = NoRestore
        /\ vHas' = IF vHas = bHas /\ vHas # NoRestore THEN Freed ELSE vHas
    BY <1>4, TakenBy DEF BinderClears, Clears, HeldOK, Threads
  <2>2. brightness' \in Levels \cup {Raised}
    BY <1>4, <1>w DEF BinderClears, Clears, HeldOK
  <2> QED BY <1>4, <2>1, <2>2, <1>0 DEF BinderClears, Clears, HeldOK
<1>5. CASE VendorClears
  <2>1. /\ taken' \in [Threads -> Restore \cup {NoRestore, Freed}] /\ vHas' = NoRestore
        /\ bHas' = IF bHas = vHas /\ bHas # NoRestore THEN Freed ELSE bHas
    BY <1>5, TakenBy DEF VendorClears, Clears, HeldOK, Threads
  <2>2. brightness' \in Levels \cup {Raised}
    BY <1>5, <1>w DEF VendorClears, Clears, HeldOK
  <2>3. bAt = "replace" => bHas' = bHas /\ bHas'.id # 0
    BY <2>1 DEF HeldOK
  <2> QED BY <1>5, <2>1, <2>2, <2>3, <1>0 DEF VendorClears, Clears, HeldOK
<1>6. CASE OnPointerDown
  <2>0. PICK saved \in {brightness, Unread} :
          taken' = [taken EXCEPT !["binder"] = [id |-> NewId, saved |-> saved]]
    BY <1>6 DEF OnPointerDown
  <2>1. /\ bAt = "idle" /\ Goto("binder", "replace")
        /\ UNCHANGED <<brightness, wanted, restore, left>>
    BY <1>6 DEF OnPointerDown, Called, Idle, bAt
  <2>2. bAt' = "replace" /\ vAt' = vAt
    BY <2>1, Gone, LabelsAre
  <2>3. NewId \in Objects /\ NewId # restore.id /\ NewId # vHas.id
    BY <2>1, <1>0, NewIdIsNew DEF HeldOK
  <2>4. [id |-> NewId, saved |-> saved] \in Restore
    BY <2>3 DEF Restore, HeldOK
  <2>5. /\ taken' \in [Threads -> Restore \cup {NoRestore, Freed}]
        /\ bHas' = [id |-> NewId, saved |-> saved] /\ vHas' = vHas
    BY <2>0, <2>4 DEF HeldOK, bHas, vHas, Threads
  <2> QED BY <2>1, <2>2, <2>3, <2>4, <2>5, <1>0 DEF HeldOK
<1>7. CASE ReplacesRestore
  <2>1. /\ bAt = "replace" /\ Goto("binder", "discard") /\ restore' = bHas
        /\ taken' = [taken EXCEPT !["binder"] = restore]
        /\ UNCHANGED <<brightness, wanted, left>>
    BY <1>7 DEF ReplacesRestore, panel, bAt, bHas
  <2>2. bAt' = "discard" /\ vAt' = vAt
    BY <2>1, Gone, LabelsAre
  <2>3. /\ taken' \in [Threads -> Restore \cup {NoRestore, Freed}] /\ vHas' = vHas
    BY <2>1 DEF HeldOK, vHas, Threads
  <2> QED BY <2>1, <2>2, <2>3, <1>0 DEF HeldOK
<1>8. CASE DiscardsOld
  <2>1. /\ bAt = "discard" /\ Goto("binder", "raise") /\ taken' = TakenAfter("binder")
        /\ brightness' = IF Writes(bHas) THEN bHas.saved ELSE brightness
        /\ UNCHANGED <<wanted, restore, left>>
    BY <1>8 DEF DiscardsOld, Destroy, bAt, bHas
  <2>2. bAt' = "raise" /\ vAt' = vAt
    BY <2>1, Gone, LabelsAre
  <2>3. /\ taken' \in [Threads -> Restore \cup {NoRestore, Freed}] /\ bHas' = NoRestore
        /\ vHas' = IF vHas = bHas /\ vHas # NoRestore THEN Freed ELSE vHas
    BY <2>1, TakenBy DEF HeldOK, Threads
  <2>4. brightness' \in Levels \cup {Raised}
    BY <2>1, <1>w DEF HeldOK
  <2> QED BY <2>1, <2>2, <2>3, <2>4, <1>0 DEF HeldOK
<1>9. CASE Raises
  <2>1. /\ bAt = "raise" /\ Goto("binder", "idle") /\ UNCHANGED held /\ wanted' = wanted
        /\ brightness' \in {Raised, brightness}
    BY <1>9 DEF Raises, bAt
  <2>2. bAt' = "idle" /\ vAt' = vAt
    BY <2>1, Gone, LabelsAre
  <2> QED BY <2>1, <2>2, <1>0 DEF HeldOK, held, bHas, vHas
<1>10. CASE CreateSession
  <2>1. /\ UNCHANGED <<brightness, wanted, taken, at>> /\ bAt = "idle"
        /\ restore' = NoRestore /\ left' = restore
    BY <1>10 DEF CreateSession, panel, Idle, bAt
  <2> QED BY <2>1 DEF HeldOK, bAt, vAt, bHas, vHas
<1>11. CASE SessionDestroyed
  <2>1. /\ UNCHANGED <<wanted, restore, taken, at>> /\ left # NoRestore /\ left' = NoRestore
        /\ brightness' = IF Writes(left) THEN left.saved ELSE brightness
    BY <1>11 DEF SessionDestroyed
  <2> QED BY <2>1, <1>w DEF HeldOK, bAt, vAt, bHas, vHas
<1>12. ASSUME NEW level \in Levels, SystemSets(level) PROVE HeldOK'
  BY <1>12 DEF SystemSets, held, HeldOK, bAt, vAt, bHas, vHas
<1> QED BY <1>1, <1>2, <1>3, <1>4, <1>5, <1>6, <1>7, <1>8, <1>9, <1>10, <1>11,
   <1>12
   DEF OnPanel

LEMMA AloneStep ==
  ASSUME AtOK, AtOK', HeldOK, HeldOK', AloneOK, Quiet \/ OnPanel
  PROVE  AloneOK'
<1> USE Objects0, HeldTypes DEF AtOK
<1>0. /\ {"replace", "discard", "raise", "up", "cancel", "drop", "error"} \subseteq PanelLabels
      /\ {"idle", "tell", "fail", "success", "canceled", "uncanceled"} \cap PanelLabels = {}
  BY DEF PanelLabels
<1>m. /\ Collision("binder") = IF vAt \in PanelLabels THEN {"collided"} ELSE {}
      /\ Collision("vendor") = IF bAt \in PanelLabels THEN {"collided"} ELSE {}
  BY DEF Collision, Restoring, Other, vAt, bAt
<1>1. CASE Quiet
  <2>1. bHas' = bHas /\ vHas' = vHas /\ mixed' = mixed /\ restore' = restore
    BY <1>1 DEF Quiet, Memory, bHas, vHas
  <2> QED BY <1>1, <1>0, <2>1 DEF Quiet, AloneOK
<1>2. CASE BinderTakes
  BY <1>2, <1>0, <1>m DEF BinderTakes, AloneOK, HeldOK
<1>3. CASE VendorTakes
  BY <1>3, <1>0, <1>m DEF VendorTakes, AloneOK, HeldOK
<1>4. CASE BinderClears
  <2>1. /\ bHas' = NoRestore
        /\ vHas' = IF vHas = bHas /\ vHas # NoRestore THEN Freed ELSE vHas
    BY <1>4, TakenBy DEF BinderClears, Clears, HeldOK
  <2> QED BY <1>4, <2>1, <1>0 DEF BinderClears, Clears, AloneOK, HeldOK
<1>5. CASE VendorClears
  <2>1. /\ vHas' = NoRestore
        /\ bHas' = IF bHas = vHas /\ bHas # NoRestore THEN Freed ELSE bHas
    BY <1>5, TakenBy DEF VendorClears, Clears, HeldOK
  <2> QED BY <1>5, <2>1, <1>0 DEF VendorClears, Clears, AloneOK, HeldOK
<1>6. CASE OnPointerDown
  <2>1. /\ bAt = "idle" /\ Goto("binder", "replace") /\ restore' = restore
        /\ mixed \cup Collision("binder") \subseteq mixed'
        /\ \E saved \in {brightness, Unread} :
             taken' = [taken EXCEPT !["binder"] = [id |-> NewId, saved |-> saved]]
    BY <1>6 DEF OnPointerDown, Called, Idle, bAt
  <2>2. bAt' = "replace" /\ vAt' = vAt
    BY <2>1, Gone, LabelsAre
  <2>3. vHas' = vHas /\ bHas' \in Restore
    BY <2>1, <2>2 DEF HeldOK, vHas, Threads
  <2> QED BY <2>1, <2>2, <2>3, <1>0, <1>m DEF AloneOK
<1>7. CASE ReplacesRestore
  <2>1. /\ bAt = "replace" /\ Goto("binder", "discard") /\ restore' = bHas
        /\ taken' = [taken EXCEPT !["binder"] = restore] /\ mixed' = mixed
    BY <1>7 DEF ReplacesRestore, panel, bAt, bHas
  <2>2. bAt' = "discard" /\ vAt' = vAt
    BY <2>1, Gone, LabelsAre
  <2>3. vHas' = vHas /\ bHas' = restore
    BY <2>1 DEF HeldOK, vHas, bHas, Threads
  <2> QED BY <2>1, <2>2, <2>3, <1>0 DEF AloneOK, HeldOK
<1>8. CASE DiscardsOld
  <2>1. /\ bAt = "discard" /\ Goto("binder", "raise") /\ taken' = TakenAfter("binder")
        /\ restore' = restore /\ mixed' = mixed
    BY <1>8 DEF DiscardsOld, Destroy, bAt
  <2>2. bAt' = "raise" /\ vAt' = vAt
    BY <2>1, Gone, LabelsAre
  <2>3. /\ bHas' = NoRestore
        /\ vHas' = IF vHas = bHas /\ vHas # NoRestore THEN Freed ELSE vHas
    BY <2>1, TakenBy DEF HeldOK
  <2> QED BY <2>1, <2>2, <2>3, <1>0 DEF AloneOK, HeldOK
<1>9. CASE Raises
  <2>1. /\ bAt = "raise" /\ Goto("binder", "idle") /\ UNCHANGED held /\ mixed' = mixed
    BY <1>9 DEF Raises, bAt
  <2>2. bAt' = "idle" /\ vAt' = vAt
    BY <2>1, Gone, LabelsAre
  <2> QED BY <2>1, <2>2, <1>0 DEF AloneOK, held, bHas, vHas
<1>10. CASE CreateSession
  <2>1. UNCHANGED <<mixed, taken, at>> /\ bAt = "idle"
    BY <1>10 DEF CreateSession, panel, Idle, bAt
  <2> QED BY <2>1 DEF AloneOK, bAt, vAt, bHas, vHas
<1>11. CASE SessionDestroyed
  <2>1. UNCHANGED <<restore, taken, at>> /\ mixed \subseteq mixed'
    BY <1>11 DEF SessionDestroyed
  <2> QED BY <2>1 DEF AloneOK, bAt, vAt, bHas, vHas
<1>12. ASSUME NEW level \in Levels, SystemSets(level) PROVE AloneOK'
  <2>1. UNCHANGED <<restore, taken, at>> /\ bAt = "idle" /\ vAt = "idle"
    BY <1>12 DEF SystemSets, held, AtRest, bAt, vAt, Threads
  <2> QED BY <2>1, <1>0 DEF AloneOK, HeldOK, bAt, vAt, bHas, vHas
<1> QED BY <1>1, <1>2, <1>3, <1>4, <1>5, <1>6, <1>7, <1>8, <1>9, <1>10, <1>11,
   <1>12
   DEF OnPanel

-----------------------------------------------------------------------------
(* What kills the service. *)

(* A service that has come up has bound what its library has. *)
BoundOK == phase # "loading" => bound = HalFunctions \ device.lacks

Needed == HalFunctions \ {"enumerate", "close"}

LEMMA AllBound ==
  ASSUME BoundOK, Serving, ~LibraryLacks, NEW fs \in SUBSET Needed
  PROVE  After(fs, phase) = "serving"
  BY DEF BoundOK, Serving, LibraryLacks, After, Needed

LEMMA CrashStep ==
  ASSUME AtOK, HeldOK, AloneOK, BoundOK, CrashNeedsReason, [Next]_vars
  PROVE  BoundOK' /\ CrashNeedsReason'
<1>n. /\ {"request"} \subseteq Needed /\ {"cancel"} \subseteq Needed
      /\ {"authenticate"} \subseteq Needed /\ {"enroll"} \subseteq Needed
      /\ {"remove"} \subseteq Needed /\ {"post_enroll"} \subseteq Needed
      /\ {"pre_enroll"} \subseteq Needed /\ {"get_auth_id"} \subseteq Needed
      /\ {"set_active_group"} \subseteq Needed /\ {} \subseteq Needed
      /\ TouchEvent \subseteq Needed
  BY DEF Needed, HalFunctions, TouchEvent
<1>s. ASSUME Serving, UNCHANGED library, phase' = "crashed" => LibraryLacks \/ "collided" \in mixed'
      PROVE  BoundOK' /\ CrashNeedsReason'
  BY <1>s DEF BoundOK, CrashNeedsReason, LibraryLacks, Serving, library
<1>p. ASSUME Serving, UNCHANGED library, phase' = phase PROVE BoundOK' /\ CrashNeedsReason'
  BY <1>p, <1>s DEF Serving
<1>a. ASSUME Serving, UNCHANGED library, NEW fs \in SUBSET Needed, phase' = After(fs, phase)
      PROVE  BoundOK' /\ CrashNeedsReason'
  BY <1>a, <1>s, AllBound
<1>1. ASSUME Close PROVE BoundOK' /\ CrashNeedsReason'
  BY <1>1, <1>p DEF Close, halVars, Called, Idle, Reports, AtRest
<1>2. ASSUME SessionDestroyed PROVE BoundOK' /\ CrashNeedsReason'
  BY <1>2, <1>p DEF SessionDestroyed, halVars, Called, Idle, Reports, AtRest
<1>3. ASSUME NEW op \in Started, BeginsOperation(op) PROVE BoundOK' /\ CrashNeedsReason'
  BY <1>3, <1>p DEF BeginsOperation, Asks, halVars, Called, Idle, Reports, AtRest
<1>4. ASSUME DetectInteraction PROVE BoundOK' /\ CrashNeedsReason'
  BY <1>4, <1>p DEF DetectInteraction, halVars, Called, Idle, Reports, AtRest
<1>5. ASSUME TellsCanceled PROVE BoundOK' /\ CrashNeedsReason'
  BY <1>5, <1>p DEF TellsCanceled, halVars, Called, Idle, Reports, AtRest
<1>6. ASSUME OnPointerDown PROVE BoundOK' /\ CrashNeedsReason'
  BY <1>6, <1>p DEF OnPointerDown, halVars, Called, Idle, Reports, AtRest
<1>7. ASSUME ReplacesRestore PROVE BoundOK' /\ CrashNeedsReason'
  BY <1>7, <1>p DEF ReplacesRestore, halVars, Called, Idle, Reports, AtRest
<1>8. ASSUME OnPointerUp PROVE BoundOK' /\ CrashNeedsReason'
  BY <1>8, <1>p DEF OnPointerUp, halVars, Called, Idle, Reports, AtRest
<1>9. ASSUME ReportsError PROVE BoundOK' /\ CrashNeedsReason'
  BY <1>9, <1>p DEF ReportsError, halVars, Called, Idle, Reports, AtRest
<1>10. ASSUME ReportsSuccess PROVE BoundOK' /\ CrashNeedsReason'
  BY <1>10, <1>p DEF ReportsSuccess, halVars, Called, Idle, Reports, AtRest
<1>11. ASSUME FinishesPanel PROVE BoundOK' /\ CrashNeedsReason'
  BY <1>11, <1>p DEF FinishesPanel, halVars, Called, Idle, Reports, AtRest
<1>12. ASSUME TellsSuccess PROVE BoundOK' /\ CrashNeedsReason'
  BY <1>12, <1>p DEF TellsSuccess, halVars, Called, Idle, Reports, AtRest
<1>13. ASSUME ReportsListed \/ ReportsRemoved PROVE BoundOK' /\ CrashNeedsReason'
  BY <1>13, <1>p DEF ReportsListed, ReportsRemoved, halVars, Called, Idle, Reports, AtRest
<1>14. ASSUME NEW code \in ErrorCodes, TellsError(code) PROVE BoundOK' /\ CrashNeedsReason'
  BY <1>14, <1>p DEF TellsError, halVars, Called, Idle, Reports, AtRest
<1>15. ASSUME NEW info \in AcquiredCodes, ReportsAcquired(info) PROVE BoundOK' /\ CrashNeedsReason'
  BY <1>15, <1>p DEF ReportsAcquired, halVars, Called, Idle, Reports, AtRest
<1>16. ASSUME NEW level \in Levels, SystemSets(level) PROVE BoundOK' /\ CrashNeedsReason'
  BY <1>16, <1>p DEF SystemSets, halVars, Called, Idle, Reports, AtRest
<1>17. ASSUME Swipes PROVE BoundOK' /\ CrashNeedsReason'
  BY <1>17, <1>p DEF Swipes, HandleSwipe, halVars, Called, Idle, Reports, AtRest
<1>18. ASSUME CreateSession PROVE BoundOK' /\ CrashNeedsReason'
  <2>1. {"set_active_group"} \in SUBSET Needed
    BY <1>n
  <2>2. Serving /\ UNCHANGED library /\ phase' = After({"set_active_group"}, phase)
    BY <1>18 DEF CreateSession, Called, Idle
  <2> QED BY <2>1, <2>2, <1>a
<1>19. ASSUME NEW op \in Started, StartsOperation(op) PROVE BoundOK' /\ CrashNeedsReason'
  <2>1. {op} \in SUBSET Needed
    BY <1>n DEF Started
  <2>2. Serving /\ UNCHANGED library /\ phase' = After({op}, phase)
    BY <1>19 DEF StartsOperation, Called, Idle
  <2> QED BY <2>1, <2>2, <1>a
<1>20. ASSUME EnumerateEnrollments PROVE BoundOK' /\ CrashNeedsReason'
  BY <1>20, <1>p
     DEF EnumerateEnrollments, Substituted, Enumerated, Asks, halVars, Called, Idle
<1>32. ASSUME NEW n \in 0 .. MaxIds, RemoveEnrollments(n) PROVE BoundOK' /\ CrashNeedsReason'
  BY <1>32, <1>p DEF RemoveEnrollments, Asks, halVars, Called, Idle
<1>33. ASSUME RemovesNext PROVE BoundOK' /\ CrashNeedsReason'
  <2>1. {"remove"} \in SUBSET Needed
    BY <1>n
  <2>2. Serving /\ UNCHANGED library /\ phase' = After({"remove"}, phase)
    BY <1>33 DEF RemovesNext
  <2> QED BY <2>1, <2>2, <1>a
<1>34. ASSUME CancelTakes PROVE BoundOK' /\ CrashNeedsReason'
  BY <1>34, <1>p DEF CancelTakes, halVars
<1>21. ASSUME NEW f \in {"pre_enroll", "get_auth_id"}, AsksNumber(f) PROVE BoundOK' /\ CrashNeedsReason'
  <2>1. {f} \in SUBSET Needed
    BY <1>n
  <2>2. Serving /\ UNCHANGED library /\ phase' = After({f}, phase)
    BY <1>21 DEF AsksNumber, Called, Idle
  <2> QED BY <2>1, <2>2, <1>a
<1>22. ASSUME RevokeChallenge PROVE BoundOK' /\ CrashNeedsReason'
  <2>1. {"post_enroll"} \in SUBSET Needed
    BY <1>n
  <2>2. Serving /\ UNCHANGED library /\ phase' = After({"post_enroll"}, phase)
    BY <1>22 DEF RevokeChallenge, SwitchesOff, Called, Idle
  <2> QED BY <2>1, <2>2, <1>a
<1>23. ASSUME ResetLockout PROVE BoundOK' /\ CrashNeedsReason'
  <2>1. {} \in SUBSET Needed
    BY <1>n
  <2>2. Serving /\ UNCHANGED library /\ phase' = After({}, phase)
    BY <1>23 DEF ResetLockout, SwitchesOff, Called, Idle
  <2> QED BY <2>1, <2>2, <1>a
<1>24. ASSUME Cancel PROVE BoundOK' /\ CrashNeedsReason'
  <2>1. {"cancel"} \in SUBSET Needed
    BY <1>n
  <2>2. Serving /\ UNCHANGED library /\ phase' = After({"cancel"}, phase)
    BY <1>24 DEF Cancel, Called, Idle
  <2> QED BY <2>1, <2>2, <1>a
<1>25. ASSUME NEW done \in BOOLEAN, ReportsProgress(done) PROVE BoundOK' /\ CrashNeedsReason'
  <2>1. Serving /\ UNCHANGED library
        /\ \E fs \in {{}, {"cancel"}} : phase' = After(fs, phase)
    BY <1>25 DEF ReportsProgress, Reports, Idle
  <2> QED BY <2>1, <1>n, <1>a
<1>26. ASSUME BinderDrops PROVE BoundOK' /\ CrashNeedsReason'
  <2>1. /\ Serving /\ UNCHANGED library /\ mixed' = mixed
        /\ \E fs \in {{}, TouchEvent} :
             phase' = IF bHas = Freed THEN "crashed" ELSE After(fs, phase)
    <3>1. phase = After({}, phase)
      BY DEF After
    <3> QED BY <1>26, <3>1 DEF BinderDrops, Destroy, bHas
  <2>2. CASE bHas = Freed
    BY <2>1, <2>2, <1>s DEF AloneOK
  <2>3. CASE bHas # Freed
    BY <2>1, <2>3, <1>n, <1>a
  <2> QED BY <2>2, <2>3
<1>27. ASSUME VendorDrops PROVE BoundOK' /\ CrashNeedsReason'
  <2>1. /\ Serving /\ UNCHANGED library /\ mixed' = mixed
        /\ phase' = IF vHas = Freed THEN "crashed" ELSE phase
    BY <1>27 DEF VendorDrops, Destroy, vHas
  <2> QED BY <2>1, <1>s, <1>p DEF AloneOK
<1>28. ASSUME DiscardsOld PROVE BoundOK' /\ CrashNeedsReason'
  <2>1. /\ Serving /\ UNCHANGED library /\ mixed' = mixed
        /\ phase' = IF bHas = Freed THEN "crashed" ELSE phase
    BY <1>28 DEF DiscardsOld, Destroy, bHas
  <2> QED BY <2>1, <1>s, <1>p DEF AloneOK
<1>29. ASSUME Raises PROVE BoundOK' /\ CrashNeedsReason'
  <2>1. /\ Serving /\ UNCHANGED library /\ mixed' = mixed /\ bAt = "raise"
        /\ phase' = IF restore = NoRestore THEN "crashed" ELSE After(TouchEvent, phase)
    BY <1>29 DEF Raises, bAt
  <2>2. CASE restore = NoRestore
    BY <2>1, <2>2, <1>s DEF AloneOK
  <2>3. CASE restore # NoRestore
    BY <2>1, <2>3, <1>n, <1>a
  <2> QED BY <2>2, <2>3
<1>30. ASSUME ServiceStarts PROVE BoundOK' /\ CrashNeedsReason'
  <2>1. CASE OpenHal
    <3>1. bound' = HalFunctions \ device.lacks /\ device' = device
      BY <2>1 DEF OpenHal
    <3>2. phase' = "crashed" => LibraryLacks
      BY <2>1, <3>1 DEF OpenHal, LibraryLacks, HalFunctions
    <3> QED BY <3>1, <3>2 DEF BoundOK, CrashNeedsReason, LibraryLacks
  <2>2. CASE SetUp
    <3>1. phase = "setup" /\ UNCHANGED library
      BY <2>2 DEF SetUp
    <3>2. phase' = "crashed" => "request" \notin bound
      BY <2>2 DEF SetUp, After
    <3>3. "request" \notin bound => LibraryLacks
      BY <3>1 DEF BoundOK, LibraryLacks, HalFunctions
    <3> QED BY <3>1, <3>2, <3>3
       DEF BoundOK, CrashNeedsReason, LibraryLacks, library
  <2> QED BY <1>30, <2>1, <2>2 DEF ServiceStarts
<1>31. ASSUME UNCHANGED vars PROVE BoundOK' /\ CrashNeedsReason'
  BY <1>31
     DEF vars, halVars, library, panel, BoundOK, CrashNeedsReason, LibraryLacks
<1> QED
  BY <1>1, <1>2, <1>3, <1>4, <1>5, <1>6, <1>7, <1>8, <1>9, <1>10, <1>11, <1>12,
     <1>13, <1>14, <1>15, <1>16, <1>17, <1>18, <1>19, <1>20, <1>21, <1>22,
     <1>23, <1>24, <1>25, <1>26, <1>27, <1>28, <1>29, <1>30, <1>31, <1>32,
     <1>33, <1>34
     DEF Next, Binder, Vendor, Removals, Tells, Elsewhere

-----------------------------------------------------------------------------
(* The panel. *)

(* The brightness that goes with an object that has saved s, Unread too. *)
Lit(s) == IF s <= Raised THEN Raised ELSE s

(* Nothing but pointer downs, one in another perhaps, and nodes that were   *)
(* not read: the panel is lit as the object that holds it says.             *)
LitOK ==
  mixed \subseteq {"nested", "unread"} =>
    /\ bAt \notin PanelLabels /\ vAt \notin PanelLabels /\ restore # NoRestore
         => brightness = Lit(restore.saved)
    /\ bAt = "replace" =>
         /\ bHas.saved \in {brightness, Unread}
         /\ restore # NoRestore => brightness = Lit(restore.saved)
    /\ bAt = "discard" =>
         /\ restore.saved \in {brightness, Unread}
         /\ bHas # NoRestore => brightness = Lit(bHas.saved)
    /\ bAt = "raise" /\ restore.saved > Raised => brightness = restore.saved

(* One touch at a time: whoever holds the panel will write what the system *)
(* last set.                                                               *)
GivenBackOK ==
  mixed = {} =>
    /\ restore # NoRestore => restore.saved = wanted /\ left = NoRestore
    /\ left # NoRestore => left.saved = wanted
    /\ restore = NoRestore /\ left = NoRestore => brightness = wanted
    /\ bAt = "replace" => bHas.saved = wanted /\ restore = NoRestore /\ left = NoRestore
    /\ bAt = "discard" => bHas = NoRestore
    /\ bAt \in {"up", "cancel", "drop"} => bHas = restore
    /\ vAt \in {"error", "drop"} => vHas = restore

LEMMA PanelStep ==
  ASSUME AtOK, AtOK', HeldOK, HeldOK', AloneOK, AloneOK', Quiet \/ OnPanel
  PROVE  /\ LitOK => LitOK'
         /\ GivenBackOK => GivenBackOK'
<1> USE Objects0, HeldTypes DEF AtOK
<1>w. \A r \in Restore \cup {NoRestore, Freed} :
        Writes(r) <=> r \in Restore /\ r.saved # Unread
  BY WritesLevel
<1>u. Unread \notin Levels
  BY DEF Unread
<1>0. /\ {"replace", "discard", "raise", "up", "cancel", "drop", "error"} \subseteq PanelLabels
      /\ {"idle", "tell", "fail", "success", "canceled", "uncanceled"} \cap PanelLabels = {}
  BY DEF PanelLabels
<1>m. /\ Collision("binder") = IF vAt \in PanelLabels THEN {"collided"} ELSE {}
      /\ Collision("vendor") = IF bAt \in PanelLabels THEN {"collided"} ELSE {}
  BY DEF Collision, Restoring, Other, vAt, bAt
<1>f. /\ mixed \subseteq {"nested", "unread"} => "collided" \notin mixed
      /\ mixed = {} => "collided" \notin mixed
      /\ mixed' \subseteq {"nested", "unread"} => "collided" \notin mixed'
      /\ mixed' = {} => "collided" \notin mixed'
  OBVIOUS
<1>1. CASE Quiet
  <2>1. bHas' = bHas /\ vHas' = vHas /\ UNCHANGED Memory
    BY <1>1 DEF Quiet, Memory, bHas, vHas
  <2>2. /\ bAt' \in PanelLabels <=> bAt \in PanelLabels
        /\ vAt' \in PanelLabels <=> vAt \in PanelLabels
        /\ bAt \in PanelLabels => bAt' = bAt
        /\ vAt \in PanelLabels => vAt' = vAt
    BY <1>1 DEF Quiet
  <2>3. LitOK => LitOK'
    BY <1>0, <2>1, <2>2 DEF LitOK, Memory
  <2>4. GivenBackOK => GivenBackOK'
    BY <1>0, <2>1, <2>2 DEF GivenBackOK, Memory
  <2> QED BY <2>3, <2>4
<1>2. CASE BinderTakes
  <2>1. LitOK => LitOK'
    BY <1>2, <1>0, <1>m DEF BinderTakes, LitOK
  <2>2. GivenBackOK => GivenBackOK'
    BY <1>2, <1>0, <1>m DEF BinderTakes, GivenBackOK
  <2> QED BY <2>1, <2>2
<1>3. CASE VendorTakes
  <2>1. LitOK => LitOK'
    BY <1>3, <1>0, <1>m DEF VendorTakes, LitOK
  <2>2. GivenBackOK => GivenBackOK'
    BY <1>3, <1>0, <1>m DEF VendorTakes, GivenBackOK
  <2> QED BY <2>1, <2>2
<1>4. CASE BinderClears
  <2>1. /\ restore' = NoRestore /\ mixed' = mixed /\ UNCHANGED <<wanted, left>>
        /\ bAt' \notin PanelLabels /\ bAt \in PanelLabels /\ vAt' = vAt
        /\ brightness' = IF Writes(bHas) THEN bHas.saved ELSE brightness
        /\ bAt \in {"up", "cancel", "drop"}
    BY <1>4, <1>0 DEF BinderClears, Clears
  <2>2. "collided" \notin mixed => vAt \notin PanelLabels
    BY <2>1 DEF AloneOK
  <2>3. LitOK'
    BY <2>1, <1>0 DEF LitOK
  <2>4. GivenBackOK => GivenBackOK'
    BY <2>1, <2>2, <1>0, <1>f, <1>w, <1>u DEF GivenBackOK, HeldOK
  <2> QED BY <2>3, <2>4
<1>5. CASE VendorClears
  <2>1. /\ restore' = NoRestore /\ mixed' = mixed /\ UNCHANGED <<wanted, left>>
        /\ vAt' \notin PanelLabels /\ vAt \in PanelLabels /\ bAt' = bAt
        /\ brightness' = IF Writes(vHas) THEN vHas.saved ELSE brightness
        /\ vAt \in {"error", "drop"}
    BY <1>5, <1>0 DEF VendorClears, Clears
  <2>2. "collided" \notin mixed => bAt \notin PanelLabels
    BY <2>1 DEF AloneOK
  <2>3. LitOK'
    BY <2>1, <2>2, <1>0, <1>f DEF LitOK
  <2>4. GivenBackOK => GivenBackOK'
    BY <2>1, <2>2, <1>0, <1>f, <1>w, <1>u DEF GivenBackOK, HeldOK
  <2> QED BY <2>3, <2>4
<1>6. CASE OnPointerDown
  <2>1. /\ bAt = "idle" /\ Goto("binder", "replace") /\ UNCHANGED <<restore, left, brightness, wanted>>
    BY <1>6 DEF OnPointerDown, Called, Idle, bAt
  <2>0. PICK saved \in {brightness, Unread} :
          /\ taken' = [taken EXCEPT !["binder"] = [id |-> NewId, saved |-> saved]]
          /\ mixed' = mixed \cup Nested \cup Collision("binder")
                           \cup (IF saved = Unread THEN {"unread"} ELSE {})
    BY <1>6 DEF OnPointerDown
  <2>2. bAt' = "replace" /\ vAt' = vAt
    BY <2>1, Gone, LabelsAre
  <2>3. vHas' = vHas /\ bHas' = [id |-> NewId, saved |-> saved]
    BY <2>0 DEF HeldOK, vHas, bHas, Threads
  <2>4. bHas'.saved \in {brightness, Unread} /\ bHas'.saved = saved
    BY <2>3
  <2>5. mixed' \subseteq {"nested", "unread"} => mixed \subseteq {"nested", "unread"} /\ vAt \notin PanelLabels
    BY <2>0, <1>m
  <2>6. mixed' = {} =>
          mixed = {} /\ restore = NoRestore /\ left = NoRestore /\ saved = brightness
    BY <2>0 DEF Nested
  <2>7. LitOK => LitOK'
    BY <2>1, <2>2, <2>4, <2>5, <1>0 DEF LitOK
  <2>8. GivenBackOK => GivenBackOK'
    BY <2>1, <2>2, <2>3, <2>4, <2>6, <1>0 DEF GivenBackOK
  <2> QED BY <2>7, <2>8
<1>7. CASE ReplacesRestore
  <2>1. /\ bAt = "replace" /\ Goto("binder", "discard") /\ restore' = bHas
        /\ taken' = [taken EXCEPT !["binder"] = restore]
        /\ UNCHANGED <<mixed, left, brightness, wanted>>
    BY <1>7 DEF ReplacesRestore, panel, bAt, bHas
  <2>2. bAt' = "discard" /\ vAt' = vAt
    BY <2>1, Gone, LabelsAre
  <2>3. vHas' = vHas /\ bHas' = restore
    BY <2>1 DEF HeldOK, vHas, bHas, Threads
  <2>4. "collided" \notin mixed => vAt \notin PanelLabels
    BY <2>1, <1>0 DEF AloneOK
  <2>5. LitOK => LitOK'
    BY <2>1, <2>2, <2>3, <1>0 DEF LitOK
  <2>6. GivenBackOK => GivenBackOK'
    BY <2>1, <2>2, <2>3, <2>4, <1>0, <1>f DEF GivenBackOK
  <2> QED BY <2>5, <2>6
<1>8. CASE DiscardsOld
  <2>1. /\ bAt = "discard" /\ Goto("binder", "raise") /\ taken' = TakenAfter("binder")
        /\ brightness' = IF Writes(bHas) THEN bHas.saved ELSE brightness
        /\ UNCHANGED <<restore, left, mixed, wanted>>
    BY <1>8 DEF DiscardsOld, Destroy, bAt, bHas
  <2>2. bAt' = "raise" /\ vAt' = vAt
    BY <2>1, Gone, LabelsAre
  <2>3. /\ bHas' = NoRestore
        /\ vHas' = IF vHas = bHas /\ vHas # NoRestore THEN Freed ELSE vHas
    BY <2>1, TakenBy DEF HeldOK
  <2>4. "collided" \notin mixed =>
          vAt \notin PanelLabels /\ bHas # Freed /\ restore # NoRestore
    BY <2>1, <1>0 DEF AloneOK
  <2>5. ASSUME LitOK, mixed \subseteq {"nested", "unread"}, restore.saved > Raised
        PROVE  brightness' = restore.saved
    <3>1. restore.saved # Unread
      BY <2>5 DEF Raised, Unread
    <3>2. brightness = restore.saved
      BY <2>1, <2>5, <3>1 DEF LitOK
    <3>3. CASE ~Writes(bHas)
      BY <2>1, <3>2, <3>3
    <3>4. CASE Writes(bHas)
      <4>1. bHas \in Restore /\ bHas # NoRestore
        BY <3>4, <1>w DEF HeldOK
      <4>2. brightness = Lit(bHas.saved)
        BY <2>1, <2>5, <4>1 DEF LitOK
      <4>3. restore.saved = bHas.saved
        BY <3>2, <4>2, <2>5 DEF Lit, Raised
      <4> QED BY <2>1, <3>4, <4>3
    <3> QED BY <3>3, <3>4
  <2>6. LitOK => LitOK'
    BY <2>1, <2>2, <2>5, <1>0 DEF LitOK
  <2>5a. ~Writes(NoRestore)
    BY <1>w
  <2>7. GivenBackOK => GivenBackOK'
    BY <2>1, <2>2, <2>3, <2>4, <2>5a, <1>0, <1>f DEF GivenBackOK
  <2> QED BY <2>6, <2>7
<1>9. CASE Raises
  <2>1. /\ bAt = "raise" /\ Goto("binder", "idle") /\ UNCHANGED <<restore, left, taken, mixed, wanted>>
        /\ brightness' = IF restore.id # 0 /\ restore.saved <= Raised THEN Raised ELSE brightness
    BY <1>9 DEF Raises, bAt, held
  <2>2. bAt' = "idle" /\ vAt' = vAt /\ bHas' = bHas /\ vHas' = vHas
    BY <2>1, Gone, LabelsAre DEF bHas, vHas
  <2>3. "collided" \notin mixed => vAt \notin PanelLabels /\ restore # NoRestore
    BY <2>1, <1>0 DEF AloneOK
  <2>4. ASSUME LitOK, mixed \subseteq {"nested", "unread"} PROVE brightness' = Lit(restore.saved)
    <3>1. restore \in Restore /\ restore.id # 0 /\ restore.saved \in Int
      BY <2>3, <2>4, <1>f, SavedInt DEF HeldOK
    <3>2. restore.saved > Raised => brightness = restore.saved
      BY <2>1, <2>4 DEF LitOK
    <3> QED BY <2>1, <3>1, <3>2 DEF Lit, Raised
  <2>5. LitOK => LitOK'
    BY <2>1, <2>2, <2>4, <1>0 DEF LitOK
  <2>6. GivenBackOK => GivenBackOK'
    BY <2>1, <2>2, <2>3, <1>0, <1>f DEF GivenBackOK
  <2> QED BY <2>5, <2>6
<1>10. CASE CreateSession
  <2>1. /\ UNCHANGED <<brightness, wanted, mixed, taken, at>> /\ bAt = "idle" /\ vAt = "idle"
        /\ left = NoRestore /\ restore' = NoRestore /\ left' = restore
    BY <1>10 DEF CreateSession, panel, Idle, bAt, vAt
  <2>2. bAt' = "idle" /\ vAt' = "idle"
    BY <2>1 DEF bAt, vAt
  <2>3. LitOK'
    BY <2>1, <2>2, <1>0 DEF LitOK
  <2>4. GivenBackOK => GivenBackOK'
    BY <2>1, <2>2, <1>0 DEF GivenBackOK
  <2> QED BY <2>3, <2>4
<1>11. CASE SessionDestroyed
  <2>1. /\ UNCHANGED <<wanted, restore, taken, at>> /\ left # NoRestore /\ left' = NoRestore
        /\ brightness' = (IF Writes(left) THEN left.saved ELSE brightness) /\ bAt = "idle" /\ bAt' = "idle" /\ vAt' = vAt
        /\ bHas' = bHas /\ vHas' = vHas
        /\ mixed' = IF restore = NoRestore THEN mixed ELSE mixed \cup {"moved"}
    BY <1>11 DEF SessionDestroyed, Idle, bAt, vAt, bHas, vHas
  <2>2. LitOK'
    BY <2>1, <1>0 DEF LitOK
  <2>3. GivenBackOK => GivenBackOK'
    BY <2>1, <1>0, <1>w, <1>u DEF GivenBackOK, HeldOK
  <2> QED BY <2>2, <2>3
<1>12. ASSUME NEW level \in Levels, SystemSets(level)
       PROVE  (LitOK => LitOK') /\ (GivenBackOK => GivenBackOK')
  <2>1. /\ UNCHANGED <<restore, left, taken, at>> /\ bAt = "idle" /\ vAt = "idle"
        /\ bAt' = "idle" /\ vAt' = "idle"
        /\ brightness' = level /\ wanted' = level
        /\ mixed' = IF NothingHeld THEN {} ELSE mixed \cup {"moved"}
    BY <1>12 DEF SystemSets, held, AtRest, bAt, vAt, Threads
  <2>2. LitOK'
    BY <2>1, <1>0 DEF LitOK, NothingHeld
  <2>3. GivenBackOK'
    BY <2>1, <1>0 DEF GivenBackOK, NothingHeld
  <2> QED BY <2>2, <2>3
<1> QED BY <1>1, <1>2, <1>3, <1>4, <1>5, <1>6, <1>7, <1>8, <1>9, <1>10, <1>11,
   <1>12
   DEF OnPanel

-----------------------------------------------------------------------------
(* Who waits for what. *)

ClientOK ==
  /\ fod \in BOOLEAN /\ signal \in BOOLEAN /\ refused \in BOOLEAN /\ astray \in BOOLEAN
  /\ session \in {"none", "open", "closed"}
  /\ waits \in Started \cup Listed \cup {"nothing"}
  /\ lib \in Started \cup Listed \cup {"nothing"}
  /\ bAt # "idle" => session = "open"

(* Templates are left to ask for in the loop of removeEnrollments only,    *)
(* and left to report while the library removes.                           *)
CountsOK ==
  /\ removing \in 0 .. MaxIds /\ ids \in 0 .. MaxIds
  /\ ids = 0 <=> bAt # "remove"
  /\ removing = 0 <=> lib # "remove"

(* By where the two threads are: between the report that ends an operation *)
(* and the callback that says so, or in a call that starts or cancels one, *)
(* the two may differ; else the client waits for what the library runs.    *)
Cancels == {"canceled", "cancel", "tell"}
WaitOK ==
  ~astray =>
    /\ session # "open" => waits = "nothing" /\ lib = "nothing" /\ vAt = "idle"
    /\ refused => waits \in Listed /\ lib \in {"nothing", "remove"}
    /\ lib # "nothing" => bAt \notin Started \cup Cancels
    /\ vAt # "idle" => lib = "nothing" \/ (lib = "remove" /\ vAt \in {"error", "fail"})
    /\ bAt \in Started => vAt = "idle" /\ waits = bAt /\ ~refused
    /\ bAt \in Cancels => ~refused
    /\ bAt = "remove" \/ lib = "remove" => waits = "remove"
    /\ bAt = "remove" => lib \in {"nothing", "remove"}
    /\ vAt \in {"error", "fail"} => waits # "nothing"
    /\ vAt \in {"success", "drop", "tell"} => waits = "authenticate" /\ ~refused
    /\ vAt = "idle" /\ bAt \notin Started \cup Cancels \cup {"remove"} =>
         lib = waits \/ refused

(* The switch goes on with the call that starts an operation, and off only *)
(* in calls made while nothing runs and in the success, before it is told. *)
FodOK ==
  Udfps /\ ~astray =>
    /\ bAt \in Started => fod
    /\ lib \in Started /\ waits = lib => fod

WaitInv == ClientOK /\ CountsOK /\ WaitOK /\ FodOK

(* No operation begins while the library is at another or reports its end, *)
(* but for a client that was told too early.                               *)
LEMMA AskedOfIdle ==
  ASSUME AtOK, WaitInv, NEW op, Asks(op)
  PROVE  /\ session = "open" /\ bAt = "idle" /\ waits = "nothing" /\ waits' = op
         /\ ~astray' => lib = "nothing" /\ vAt = "idle"
         /\ astray' \in BOOLEAN
<1>1. /\ session = "open" /\ bAt = "idle" /\ waits = "nothing" /\ waits' = op
      /\ astray' = (astray /\ (lib # "nothing" \/ vAt # "idle"))
  BY DEF Asks, Called, Idle, Busy, bAt, vAt
<1>2. ~astray => lib = "nothing" /\ vAt = "idle"
  BY <1>1 DEF AtOK, WaitInv, WaitOK, Started, Listed, Cancels
<1> QED BY <1>1, <1>2 DEF WaitInv, ClientOK

LEMMA LastSample ==
  \A done \in BOOLEAN :
    (SamplesRemaining(device.percentage, Reported(done)) = 0) <=> done
  BY DEF SamplesRemaining, Reported

LEMMA WaitStep ==
  ASSUME AtOK, AtOK', WaitInv, [Next]_vars
  PROVE  WaitInv'
<1> USE LabelsAre, MaxIdsAssumption DEF AtOK, Started, Listed, Cancels
<1> DEFINE Rest == UNCHANGED <<device, session, refused, astray>>
<1>b. ASSUME NEW l \in Labels, Goto("binder", l) PROVE bAt' = l /\ vAt' = vAt
  BY <1>b, Gone
<1>v. ASSUME NEW l \in Labels, Goto("vendor", l) PROVE vAt' = l /\ bAt' = bAt
  BY <1>v, Gone
<1>s. ASSUME Rest, UNCHANGED removal, UNCHANGED <<signal, fod, lib, waits>>, UNCHANGED at PROVE WaitInv'
  BY <1>s DEF WaitInv, ClientOK, CountsOK, WaitOK, FodOK, Udfps, bAt, vAt, removal
<1>p. ASSUME Rest, UNCHANGED removal, UNCHANGED <<signal, fod, lib, waits>>, vAt' = vAt,
             bAt' = bAt \/ (session = "open"
             /\ {bAt, bAt'} \cap {"authenticate", "enroll", "canceled", "cancel", "tell", "remove"} = {})
      PROVE  WaitInv'
  <2>1. ClientOK'
    BY <1>p DEF WaitInv, ClientOK
  <2>2. WaitOK'
    BY <1>p DEF WaitInv, WaitOK
  <2>3. FodOK'
    BY <1>p DEF WaitInv, FodOK, Udfps
  <2>4. CountsOK'
    BY <1>p DEF WaitInv, CountsOK, removal
  <2> QED BY <2>1, <2>2, <2>3, <2>4 DEF WaitInv
<1>1. ASSUME NEW f \in {"pre_enroll", "get_auth_id"}, AsksNumber(f), UNCHANGED removal PROVE WaitInv'
  BY <1>1, <1>s DEF AsksNumber, halVars, library, panel, held, client, removal
<1>2. ASSUME ServiceStarts, UNCHANGED removal PROVE WaitInv'
  BY <1>2, <1>s DEF ServiceStarts, OpenHal, SetUp, others, halVars, library, panel, held, client, removal
<1>3. ASSUME Swipes, UNCHANGED removal PROVE WaitInv'
  BY <1>3, <1>s DEF Swipes, HandleSwipe, others, halVars, library, panel, held, client, removal
<1>4. ASSUME NEW info \in AcquiredCodes, ReportsAcquired(info), UNCHANGED removal PROVE WaitInv'
  BY <1>4, <1>s DEF ReportsAcquired, halVars, library, panel, held, client, removal
<1>5. ASSUME NEW level \in Levels, SystemSets(level), UNCHANGED removal PROVE WaitInv'
  BY <1>5, <1>s DEF SystemSets, halVars, library, panel, held, client, removal
<1>6. ASSUME SessionDestroyed, UNCHANGED removal PROVE WaitInv'
  BY <1>6, <1>s DEF SessionDestroyed, halVars, library, panel, held, client, removal
<1>7. ASSUME OnPointerDown, UNCHANGED removal PROVE WaitInv'
  <2>1. Rest /\ UNCHANGED <<signal, fod, lib, waits>> /\ bAt = "idle"
        /\ bAt' = "replace" /\ vAt' = vAt
    BY <1>7, <1>b DEF OnPointerDown, Called, Idle, bAt, halVars, library, panel, held, client, removal
  <2>2. session = "open"
    BY <1>7 DEF OnPointerDown, Called, Idle
  <2> QED BY <1>7, <2>1, <2>2, <1>p
<1>8. ASSUME ReplacesRestore, UNCHANGED removal PROVE WaitInv'
  <2>1. Rest /\ UNCHANGED <<signal, fod, lib, waits>> /\ bAt = "replace"
        /\ bAt' = "discard" /\ vAt' = vAt
    BY <1>8, <1>b DEF ReplacesRestore, bAt, halVars, library, panel, held, client, removal
  <2>2. session = "open"
    BY <2>1 DEF WaitInv, ClientOK
  <2> QED BY <1>8, <2>1, <2>2, <1>p
<1>9. ASSUME DiscardsOld, UNCHANGED removal PROVE WaitInv'
  <2>1. Rest /\ UNCHANGED <<signal, fod, lib, waits>> /\ bAt = "discard"
        /\ bAt' = "raise" /\ vAt' = vAt
    BY <1>9, <1>b DEF DiscardsOld, bAt, halVars, library, panel, held, client, removal
  <2>2. session = "open"
    BY <2>1 DEF WaitInv, ClientOK
  <2> QED BY <1>9, <2>1, <2>2, <1>p
<1>10. ASSUME Raises, UNCHANGED removal PROVE WaitInv'
  <2>1. Rest /\ UNCHANGED <<signal, fod, lib, waits>> /\ bAt = "raise"
        /\ bAt' = "idle" /\ vAt' = vAt
    BY <1>10, <1>b DEF Raises, bAt, halVars, library, panel, held, client, removal
  <2>2. session = "open"
    BY <2>1 DEF WaitInv, ClientOK
  <2> QED BY <1>10, <2>1, <2>2, <1>p
<1>11. ASSUME OnPointerUp, UNCHANGED removal PROVE WaitInv'
  <2>1. Rest /\ UNCHANGED <<signal, fod, lib, waits>> /\ bAt = "idle"
        /\ bAt' = "up" /\ vAt' = vAt
    BY <1>11, <1>b DEF OnPointerUp, Takes, Called, Idle, bAt, halVars, library, panel, held, client, removal
  <2>2. session = "open"
    BY <1>11 DEF OnPointerUp, Takes, Called, Idle
  <2> QED BY <1>11, <2>1, <2>2, <1>p
<1>12. ASSUME Cancel PROVE WaitInv'
  <2>1. /\ Rest /\ UNCHANGED <<signal, fod, waits, ids>> /\ session = "open" /\ bAt = "idle"
        /\ waits \notin Listed /\ vAt' = vAt
        /\ removing' = IF lib' = "nothing" THEN 0 ELSE removing
        /\ \/ lib' = "nothing" /\ bAt' \in {"canceled", "tell"}
           \/ lib' = lib /\ bAt' \in {"uncanceled", "idle"}
    BY <1>12, <1>b, <1>v DEF Cancel, Called, Idle, bAt, halVars, library, panel, held, client, removal
  <2>a. ClientOK'
    BY <2>1 DEF WaitInv, ClientOK
  <2>b. WaitOK'
    BY <2>1 DEF WaitInv, ClientOK, CountsOK, WaitOK
  <2>c. FodOK'
    BY <2>1 DEF WaitInv, ClientOK, WaitOK, FodOK, Udfps
  <2>d. CountsOK'
    BY <2>1 DEF WaitInv, CountsOK, removal
  <2> QED BY <2>a, <2>b, <2>c, <2>d DEF WaitInv
<1>13. ASSUME CancelTakes, UNCHANGED removal PROVE WaitInv'
  <2>1. /\ Rest /\ UNCHANGED <<signal, fod, lib, waits>> /\ vAt' = vAt
        /\ \/ bAt = "canceled" /\ bAt' = "cancel"
           \/ bAt = "uncanceled" /\ bAt' = "drop"
    BY <1>13, <1>b, <1>v DEF CancelTakes, Takes, bAt, halVars, library, panel, held, client, removal
  <2>a. ClientOK'
    BY <2>1 DEF WaitInv, ClientOK
  <2>b. WaitOK'
    BY <2>1 DEF WaitInv, ClientOK, CountsOK, WaitOK
  <2>c. FodOK'
    BY <2>1 DEF WaitInv, ClientOK, WaitOK, FodOK, Udfps
  <2>d. CountsOK'
    BY <1>13, <2>1 DEF WaitInv, CountsOK, removal
  <2> QED BY <2>a, <2>b, <2>c, <2>d DEF WaitInv
<1>14. ASSUME BinderDrops, UNCHANGED removal PROVE WaitInv'
  <2>1. /\ Rest /\ UNCHANGED <<signal, fod, lib, waits>> /\ vAt' = vAt
        /\ \/ bAt \in {"up", "drop"} /\ bAt' = "idle"
           \/ bAt = "cancel" /\ bAt' = "tell"
    BY <1>14, <1>b, <1>v DEF BinderDrops, bAt, halVars, library, panel, held, client, removal
  <2>a. ClientOK'
    BY <2>1 DEF WaitInv, ClientOK
  <2>b. WaitOK'
    BY <2>1 DEF WaitInv, ClientOK, CountsOK, WaitOK
  <2>c. FodOK'
    BY <2>1 DEF WaitInv, ClientOK, WaitOK, FodOK, Udfps
  <2>d. CountsOK'
    BY <1>14, <2>1 DEF WaitInv, CountsOK, removal
  <2> QED BY <2>a, <2>b, <2>c, <2>d DEF WaitInv
<1>15. ASSUME TellsCanceled, UNCHANGED removal PROVE WaitInv'
  <2>1. /\ UNCHANGED <<device, session, refused, signal, fod, lib>>
        /\ bAt = "tell" /\ bAt' = "idle" /\ vAt' = vAt /\ waits' = "nothing"
        /\ astray' = (astray \/ vAt # "idle")
    BY <1>15, <1>b, <1>v DEF TellsCanceled, bAt, vAt, halVars, library, panel, held, client, removal
  <2>a. ClientOK'
    BY <2>1 DEF WaitInv, ClientOK
  <2>b. WaitOK'
    BY <2>1 DEF WaitInv, ClientOK, CountsOK, WaitOK
  <2>c. FodOK'
    BY <2>1 DEF WaitInv, ClientOK, WaitOK, FodOK, Udfps
  <2>d. CountsOK'
    BY <1>15, <2>1 DEF WaitInv, CountsOK, removal
  <2> QED BY <2>a, <2>b, <2>c, <2>d DEF WaitInv
<1>16. ASSUME NEW op \in Started, BeginsOperation(op), UNCHANGED removal PROVE WaitInv'
  <2>0. Asks(op)
    BY <1>16 DEF BeginsOperation
  <2>1. /\ UNCHANGED <<device, session, signal, lib>> /\ bAt' = op /\ vAt' = vAt
        /\ refused' = FALSE /\ fod' = IF Udfps THEN TRUE ELSE fod
        /\ session = "open" /\ bAt = "idle" /\ waits' = op
        /\ ~astray' => lib = "nothing" /\ vAt = "idle"
        /\ astray' \in BOOLEAN
    BY <1>16, <1>b, <1>v, <2>0, AskedOfIdle DEF BeginsOperation, SetFodPress, halVars, library, panel, held, client, removal
  <2>a. ClientOK'
    BY <2>1 DEF WaitInv, ClientOK
  <2>b. WaitOK'
    BY <2>1 DEF WaitInv, ClientOK, CountsOK, WaitOK
  <2>c. FodOK'
    BY <2>1 DEF WaitInv, ClientOK, WaitOK, FodOK, Udfps
  <2>d. CountsOK'
    BY <1>16, <2>1 DEF WaitInv, CountsOK, removal
  <2> QED BY <2>a, <2>b, <2>c, <2>d DEF WaitInv
<1>17. ASSUME NEW op \in Started, StartsOperation(op), UNCHANGED removal PROVE WaitInv'
  <2>1. /\ Rest /\ fod' = fod /\ signal' = TRUE /\ bAt = op /\ bAt' = "idle" /\ vAt' = vAt
        /\ \/ lib = "nothing" /\ lib' = op /\ waits' = waits
           \/ waits' = "nothing" /\ lib' = lib
    BY <1>17, <1>b, <1>v DEF StartsOperation, bAt, halVars, library, panel, held, client, removal
  <2>a. ClientOK'
    BY <2>1 DEF WaitInv, ClientOK
  <2>b. WaitOK'
    BY <2>1 DEF WaitInv, ClientOK, CountsOK, WaitOK
  <2>c. FodOK'
    BY <2>1 DEF WaitInv, ClientOK, WaitOK, FodOK, Udfps
  <2>d. CountsOK'
    BY <1>17, <2>1 DEF WaitInv, CountsOK, removal
  <2> QED BY <2>a, <2>b, <2>c, <2>d DEF WaitInv
<1>18. ASSUME EnumerateEnrollments, Substituted, UNCHANGED removal PROVE WaitInv'
  BY <1>18, <1>s DEF EnumerateEnrollments, Substituted, halVars, library, panel, held, client, removal
<1>19. ASSUME EnumerateEnrollments, Enumerated, UNCHANGED removal PROVE WaitInv'
  <2>0. Asks("enumerate")
    BY <1>19 DEF Enumerated
  <2>1. /\ UNCHANGED <<device, session, signal, fod>> /\ bAt' = bAt /\ vAt' = vAt
        /\ \/ lib = "nothing" /\ lib' = "enumerate" /\ refused' = FALSE
           \/ refused' = TRUE /\ lib' = lib
        /\ session = "open" /\ bAt = "idle" /\ waits' = "enumerate"
        /\ ~astray' => lib = "nothing" /\ vAt = "idle"
        /\ astray' \in BOOLEAN
    BY <1>19, <1>b, <1>v, <2>0, AskedOfIdle DEF EnumerateEnrollments, Enumerated, bAt, vAt, halVars, library, panel, held, client, removal
  <2>a. ClientOK'
    BY <2>1 DEF WaitInv, ClientOK
  <2>b. WaitOK'
    BY <2>1 DEF WaitInv, ClientOK, CountsOK, WaitOK
  <2>c. FodOK'
    BY <2>1 DEF WaitInv, ClientOK, WaitOK, FodOK, Udfps
  <2>d. CountsOK'
    BY <1>19, <2>1 DEF WaitInv, CountsOK, removal
  <2> QED BY <2>a, <2>b, <2>c, <2>d DEF WaitInv
<1>20. ASSUME NEW n \in 0 .. MaxIds, RemoveEnrollments(n) PROVE WaitInv'
  <2>0. Asks("remove")
    BY <1>20 DEF RemoveEnrollments
  <2>1. /\ UNCHANGED <<device, session, signal, fod, lib, removing>> /\ vAt' = vAt
        /\ refused' = (n = 0) /\ ids' = n
        /\ bAt' = IF n = 0 THEN "idle" ELSE "remove"
        /\ session = "open" /\ bAt = "idle" /\ waits' = "remove"
        /\ ~astray' => lib = "nothing" /\ vAt = "idle"
        /\ astray' \in BOOLEAN
    BY <1>20, <1>b, <1>v, <2>0, AskedOfIdle DEF RemoveEnrollments, halVars, library, panel, held, client, removal
  <2>a. ClientOK'
    BY <2>1 DEF WaitInv, ClientOK
  <2>b. WaitOK'
    BY <2>1 DEF WaitInv, ClientOK, CountsOK, WaitOK
  <2>c. FodOK'
    BY <2>1 DEF WaitInv, ClientOK, WaitOK, FodOK, Udfps
  <2>d. CountsOK'
    BY <2>1 DEF WaitInv, CountsOK, removal
  <2> QED BY <2>a, <2>b, <2>c, <2>d DEF WaitInv
<1>21. ASSUME RemovesNext PROVE WaitInv'
  <2>1. /\ UNCHANGED <<device, session, signal, fod, waits, astray>> /\ vAt' = vAt
        /\ bAt = "remove" /\ bAt' = (IF ids = 1 THEN "idle" ELSE "remove") /\ ids' = ids - 1
        /\ \/ /\ lib \in {"nothing", "remove"} /\ removing < MaxIds
              /\ lib' = "remove" /\ removing' = removing + 1 /\ refused' = refused
           \/ refused' = TRUE /\ UNCHANGED <<lib, removing>>
    BY <1>21, <1>b, <1>v DEF RemovesNext, bAt, halVars, library, panel, held, client, removal
  <2>a. ClientOK'
    BY <2>1 DEF WaitInv, ClientOK
  <2>b. WaitOK'
    BY <2>1 DEF WaitInv, ClientOK, CountsOK, WaitOK
  <2>c. FodOK'
    BY <2>1 DEF WaitInv, ClientOK, WaitOK, FodOK, Udfps
  <2>d. CountsOK'
    BY <2>1 DEF WaitInv, CountsOK, removal
  <2> QED BY <2>a, <2>b, <2>c, <2>d DEF WaitInv
<1>22. ASSUME DetectInteraction, UNCHANGED removal PROVE WaitInv'
  <2>1. /\ Rest /\ UNCHANGED <<fod, lib, waits>> /\ signal' = TRUE
        /\ session = "open" /\ bAt' = bAt /\ vAt' = vAt
    BY <1>22, <1>b, <1>v DEF DetectInteraction, Called, Idle, bAt, vAt, halVars, library, panel, held, client, removal
  <2>a. ClientOK'
    BY <2>1 DEF WaitInv, ClientOK
  <2>b. WaitOK'
    BY <2>1 DEF WaitInv, ClientOK, CountsOK, WaitOK
  <2>c. FodOK'
    BY <2>1 DEF WaitInv, ClientOK, WaitOK, FodOK, Udfps
  <2>d. CountsOK'
    BY <1>22, <2>1 DEF WaitInv, CountsOK, removal
  <2> QED BY <2>a, <2>b, <2>c, <2>d DEF WaitInv
<1>23. ASSUME RevokeChallenge, UNCHANGED removal PROVE WaitInv'
  <2>1. /\ Rest /\ UNCHANGED <<signal, lib, waits>> /\ session = "open" /\ bAt = "idle"
        /\ waits = "nothing" /\ bAt' = bAt /\ vAt' = vAt /\ fod' \in BOOLEAN
    BY <1>23, <1>b, <1>v DEF RevokeChallenge, SwitchesOff, SetFodPress, Called, Idle, WaitInv,
           ClientOK, bAt, vAt, halVars, library, panel, held, client, removal
  <2>a. ClientOK'
    BY <2>1 DEF WaitInv, ClientOK
  <2>b. WaitOK'
    BY <2>1 DEF WaitInv, ClientOK, CountsOK, WaitOK
  <2>c. FodOK'
    BY <2>1 DEF WaitInv, ClientOK, WaitOK, FodOK, Udfps
  <2>d. CountsOK'
    BY <1>23, <2>1 DEF WaitInv, CountsOK, removal
  <2> QED BY <2>a, <2>b, <2>c, <2>d DEF WaitInv
<1>24. ASSUME ResetLockout, UNCHANGED removal PROVE WaitInv'
  <2>1. /\ Rest /\ UNCHANGED <<signal, lib, waits>> /\ session = "open" /\ bAt = "idle"
        /\ waits = "nothing" /\ bAt' = bAt /\ vAt' = vAt /\ fod' \in BOOLEAN
    BY <1>24, <1>b, <1>v DEF ResetLockout, SwitchesOff, SetFodPress, Called, Idle, WaitInv,
           ClientOK, bAt, vAt, halVars, library, panel, held, client, removal
  <2>a. ClientOK'
    BY <2>1 DEF WaitInv, ClientOK
  <2>b. WaitOK'
    BY <2>1 DEF WaitInv, ClientOK, CountsOK, WaitOK
  <2>c. FodOK'
    BY <2>1 DEF WaitInv, ClientOK, WaitOK, FodOK, Udfps
  <2>d. CountsOK'
    BY <1>24, <2>1 DEF WaitInv, CountsOK, removal
  <2> QED BY <2>a, <2>b, <2>c, <2>d DEF WaitInv
<1>25. ASSUME CreateSession, UNCHANGED removal PROVE WaitInv'
  <2>1. /\ UNCHANGED <<device, refused, astray, waits, lib, fod>> /\ session # "open"
        /\ bAt = "idle" /\ vAt = "idle" /\ bAt' = bAt /\ vAt' = vAt
        /\ session' = "open" /\ signal' = FALSE
    BY <1>25, <1>b, <1>v DEF CreateSession, Idle, bAt, vAt, halVars, library, panel, held, client, removal
  <2>a. ClientOK'
    BY <2>1 DEF WaitInv, ClientOK
  <2>b. WaitOK'
    BY <2>1 DEF WaitInv, ClientOK, CountsOK, WaitOK
  <2>c. FodOK'
    BY <2>1 DEF WaitInv, ClientOK, WaitOK, FodOK, Udfps
  <2>d. CountsOK'
    BY <1>25, <2>1 DEF WaitInv, CountsOK, removal
  <2> QED BY <2>a, <2>b, <2>c, <2>d DEF WaitInv
<1>26. ASSUME Close, UNCHANGED removal PROVE WaitInv'
  <2>1. /\ UNCHANGED <<device, lib, fod>> /\ session' = "closed" /\ signal' = FALSE
        /\ waits' = "nothing" /\ refused' = FALSE /\ bAt = "idle" /\ bAt' = bAt /\ vAt' = vAt
        /\ astray' = (lib # "nothing" \/ vAt # "idle")
    BY <1>26, <1>b, <1>v DEF Close, Busy, Called, Idle, bAt, vAt, halVars, library, panel, held, client, removal
  <2>a. ClientOK'
    BY <2>1 DEF WaitInv, ClientOK
  <2>b. WaitOK'
    BY <2>1 DEF WaitInv, ClientOK, CountsOK, WaitOK
  <2>c. FodOK'
    BY <2>1 DEF WaitInv, ClientOK, WaitOK, FodOK, Udfps
  <2>d. CountsOK'
    BY <1>26, <2>1 DEF WaitInv, CountsOK, removal
  <2> QED BY <2>a, <2>b, <2>c, <2>d DEF WaitInv
<1>27. ASSUME ReportsError PROVE WaitInv'
  <2>1. /\ Rest /\ UNCHANGED <<signal, fod, waits, ids>> /\ lib # "nothing" /\ lib' = "nothing"
        /\ removing' = 0 /\ vAt = "idle" /\ bAt' = bAt
        /\ \/ session = "open" /\ vAt' \in {"error", "fail"}
           \/ session # "open" /\ vAt' = "idle"
    BY <1>27, <1>b, <1>v DEF ReportsError, Reports, Heard, Takes, Idle, vAt, halVars, library, panel, held, client, removal
  <2>a. ClientOK'
    BY <2>1 DEF WaitInv, ClientOK
  <2>b. WaitOK'
    BY <2>1 DEF WaitInv, ClientOK, CountsOK, WaitOK
  <2>c. FodOK'
    BY <2>1 DEF WaitInv, ClientOK, WaitOK, FodOK, Udfps
  <2>d. CountsOK'
    BY <2>1 DEF WaitInv, CountsOK, removal
  <2> QED BY <2>a, <2>b, <2>c, <2>d DEF WaitInv
<1>28. ASSUME NEW code \in ErrorCodes, TellsError(code), UNCHANGED removal PROVE WaitInv'
  <2>1. /\ UNCHANGED <<device, session, signal, fod, lib>> /\ waits' = "nothing" /\ refused' = FALSE
        /\ vAt = "fail" /\ vAt' = "idle" /\ bAt' = bAt
        /\ astray' = (astray \/ lib # "nothing" \/ bAt = "remove")
    BY <1>28, <1>b, <1>v DEF TellsError, bAt, vAt, halVars, library, panel, held, client, removal
  <2>a. ClientOK'
    BY <2>1 DEF WaitInv, ClientOK
  <2>b. WaitOK'
    BY <2>1 DEF WaitInv, ClientOK, CountsOK, WaitOK
  <2>c. FodOK'
    BY <2>1 DEF WaitInv, ClientOK, WaitOK, FodOK, Udfps
  <2>d. CountsOK'
    BY <1>28, <2>1 DEF WaitInv, CountsOK, removal
  <2> QED BY <2>a, <2>b, <2>c, <2>d DEF WaitInv
<1>29. ASSUME ReportsSuccess, UNCHANGED removal PROVE WaitInv'
  <2>1. /\ Rest /\ UNCHANGED <<signal, fod, waits>> /\ lib = "authenticate" /\ lib' = "nothing"
        /\ vAt = "idle" /\ bAt' = bAt
        /\ \/ session = "open" /\ vAt' = "success"
           \/ session # "open" /\ vAt' = "idle"
    BY <1>29, <1>b, <1>v DEF ReportsSuccess, Reports, Heard, Idle, vAt, halVars, library, panel, held, client, removal
  <2>a. ClientOK'
    BY <2>1 DEF WaitInv, ClientOK
  <2>b. WaitOK'
    BY <2>1 DEF WaitInv, ClientOK, CountsOK, WaitOK
  <2>c. FodOK'
    BY <2>1 DEF WaitInv, ClientOK, WaitOK, FodOK, Udfps
  <2>d. CountsOK'
    BY <1>29, <2>1 DEF WaitInv, CountsOK, removal
  <2> QED BY <2>a, <2>b, <2>c, <2>d DEF WaitInv
<1>30. ASSUME FinishesPanel, UNCHANGED removal PROVE WaitInv'
  <2>1. /\ Rest /\ UNCHANGED <<signal, lib, waits>> /\ fod' \in BOOLEAN
        /\ vAt = "success" /\ vAt' \in {"drop", "tell"} /\ bAt' = bAt
    BY <1>30, <1>b, <1>v DEF FinishesPanel, SetFodPress, Takes, WaitInv, ClientOK, vAt, halVars, library, panel, held, client, removal
  <2>a. ClientOK'
    BY <2>1 DEF WaitInv, ClientOK
  <2>b. WaitOK'
    BY <2>1 DEF WaitInv, ClientOK, CountsOK, WaitOK
  <2>c. FodOK'
    BY <2>1 DEF WaitInv, ClientOK, WaitOK, FodOK, Udfps
  <2>d. CountsOK'
    BY <1>30, <2>1 DEF WaitInv, CountsOK, removal
  <2> QED BY <2>a, <2>b, <2>c, <2>d DEF WaitInv
<1>31. ASSUME VendorDrops, UNCHANGED removal PROVE WaitInv'
  <2>1. /\ Rest /\ UNCHANGED <<signal, fod, lib, waits>> /\ bAt' = bAt
        /\ \/ vAt = "error" /\ vAt' = "fail"
           \/ vAt = "drop" /\ vAt' = "tell"
    BY <1>31, <1>b, <1>v DEF VendorDrops, vAt, halVars, library, panel, held, client, removal
  <2>a. ClientOK'
    BY <2>1 DEF WaitInv, ClientOK
  <2>b. WaitOK'
    BY <2>1 DEF WaitInv, ClientOK, CountsOK, WaitOK
  <2>c. FodOK'
    BY <2>1 DEF WaitInv, ClientOK, WaitOK, FodOK, Udfps
  <2>d. CountsOK'
    BY <1>31, <2>1 DEF WaitInv, CountsOK, removal
  <2> QED BY <2>a, <2>b, <2>c, <2>d DEF WaitInv
<1>32. ASSUME TellsSuccess, UNCHANGED removal PROVE WaitInv'
  <2>1. /\ Rest /\ UNCHANGED <<signal, fod, lib>> /\ vAt = "tell" /\ vAt' = "idle" /\ bAt' = bAt
        /\ waits' = IF waits = "authenticate" THEN "nothing" ELSE waits
    BY <1>32, <1>b, <1>v DEF TellsSuccess, Answers, vAt, halVars, library, panel, held, client, removal
  <2>a. ClientOK'
    BY <2>1 DEF WaitInv, ClientOK
  <2>b. WaitOK'
    BY <2>1 DEF WaitInv, ClientOK, CountsOK, WaitOK
  <2>c. FodOK'
    BY <2>1 DEF WaitInv, ClientOK, WaitOK, FodOK, Udfps
  <2>d. CountsOK'
    BY <1>32, <2>1 DEF WaitInv, CountsOK, removal
  <2> QED BY <2>a, <2>b, <2>c, <2>d DEF WaitInv
<1>33. ASSUME ReportsListed, UNCHANGED removal PROVE WaitInv'
  <2>1. /\ Rest /\ UNCHANGED <<signal, fod>> /\ lib = "enumerate" /\ lib' = "nothing"
        /\ vAt = "idle" /\ bAt' = bAt /\ vAt' = vAt
        /\ waits' = IF session = "open" /\ waits = "enumerate" THEN "nothing" ELSE waits
    BY <1>33, <1>b, <1>v DEF ReportsListed, Reports, Heard, Answers, Idle, bAt, vAt, halVars, library, panel, held, client, removal
  <2>a. ClientOK'
    BY <2>1 DEF WaitInv, ClientOK
  <2>b. WaitOK'
    BY <2>1 DEF WaitInv, ClientOK, CountsOK, WaitOK
  <2>c. FodOK'
    BY <2>1 DEF WaitInv, ClientOK, WaitOK, FodOK, Udfps
  <2>d. CountsOK'
    BY <1>33, <2>1 DEF WaitInv, CountsOK, removal
  <2> QED BY <2>a, <2>b, <2>c, <2>d DEF WaitInv
<1>34. ASSUME ReportsRemoved PROVE WaitInv'
  <2>1. /\ Rest /\ UNCHANGED <<signal, fod, ids>> /\ lib = "remove" /\ removing' = removing - 1
        /\ lib' = (IF removing = 1 THEN "nothing" ELSE lib)
        /\ vAt = "idle" /\ bAt' = bAt /\ vAt' = vAt
        /\ waits' = IF session = "open" /\ removing = 1 /\ ids = 0 /\ ~refused /\ waits = "remove"
                      THEN "nothing" ELSE waits
    BY <1>34, <1>b, <1>v DEF ReportsRemoved, Reports, Heard, Answers, Idle, bAt, vAt, halVars, library, panel, held, client, removal
  <2>a. ClientOK'
    BY <2>1 DEF WaitInv, ClientOK
  <2>b. WaitOK'
    BY <2>1 DEF WaitInv, ClientOK, CountsOK, WaitOK
  <2>c. FodOK'
    BY <2>1 DEF WaitInv, ClientOK, WaitOK, FodOK, Udfps
  <2>d. CountsOK'
    BY <2>1 DEF WaitInv, CountsOK, removal
  <2> QED BY <2>a, <2>b, <2>c, <2>d DEF WaitInv
<1>35. ASSUME NEW done \in BOOLEAN, ReportsProgress(done), UNCHANGED removal PROVE WaitInv'
  <2>1. /\ Rest /\ UNCHANGED <<signal, fod>> /\ lib = "enroll" /\ vAt = "idle" /\ bAt' = bAt /\ vAt' = vAt
        /\ lib' = (IF (session = "open" /\ done /\ device.cancelOnCompletion)
                     \/ (done /\ ~device.cancelOnCompletion) THEN "nothing" ELSE lib)
        /\ waits' = IF session = "open" /\ done /\ waits = "enroll" THEN "nothing" ELSE waits
    BY <1>35, <1>b, <1>v, LastSample DEF ReportsProgress, Reports, Heard, Answers, Idle, bAt, vAt, halVars, library, panel, held, client, removal
  <2>a. ClientOK'
    BY <2>1 DEF WaitInv, ClientOK
  <2>b. WaitOK'
    BY <2>1 DEF WaitInv, ClientOK, CountsOK, WaitOK
  <2>c. FodOK'
    BY <2>1 DEF WaitInv, ClientOK, WaitOK, FodOK, Udfps
  <2>d. CountsOK'
    BY <1>35, <2>1 DEF WaitInv, CountsOK, removal
  <2> QED BY <2>a, <2>b, <2>c, <2>d DEF WaitInv
<1>36. ASSUME UNCHANGED vars PROVE WaitInv'
  BY <1>36, <1>s DEF vars, halVars, library, panel, held, client, removal
<1> QED
  BY <1>1, <1>2, <1>3, <1>4, <1>5, <1>6, <1>7, <1>8, <1>9, <1>10, <1>11,
     <1>12, <1>13, <1>14, <1>15, <1>16, <1>17, <1>18, <1>19, <1>20, <1>21,
     <1>22, <1>23, <1>24, <1>25, <1>26, <1>27, <1>28, <1>29, <1>30, <1>31,
     <1>32, <1>33, <1>34, <1>35, <1>36
     DEF Next, Binder, Vendor, Removals, Tells, Elsewhere, EnumerateEnrollments

-----------------------------------------------------------------------------
(* The service, the keys and the codes. *)

Troubles == {"nested", "moved", "unread", "collided"}

LEMMA HalStep ==
  ASSUME HalTypeOK, KeysReleased, mixed \subseteq Troubles, [Next]_vars
  PROVE  HalTypeOK' /\ KeysReleased' /\ mixed' \subseteq Troubles
<1> DEFINE Mixed == mixed' \subseteq mixed \cup Troubles
           Same == UNCHANGED library /\ UNCHANGED gestures /\ phase' \in {phase, "crashed"}
<1> USE DEF Troubles
<1>c. \A t \in Threads : Collision(t) \subseteq {"collided"}
  BY DEF Collision
<1>n. Nested \subseteq {"nested"}
  BY DEF Nested
<1>t. "binder" \in Threads /\ "vendor" \in Threads
  BY DEF Threads
<1>a. \A fs : After(fs, phase) \in {phase, "crashed"}
  BY DEF After
<1>s. ASSUME Mixed, Same
      PROVE  HalTypeOK' /\ KeysReleased' /\ mixed' \subseteq Troubles
  BY <1>s DEF HalTypeOK, KeysReleased, library, gestures
<1>1. ASSUME OnPointerDown PROVE Mixed /\ Same
  BY <1>1, <1>c, <1>n, <1>t DEF OnPointerDown, halVars, panel
<1>2. ASSUME ReplacesRestore PROVE Mixed /\ Same
  BY <1>2 DEF ReplacesRestore, halVars, panel
<1>3. ASSUME DiscardsOld PROVE Mixed /\ Same
  BY <1>3 DEF DiscardsOld, Destroy, halVars, panel
<1>4. ASSUME Raises PROVE Mixed /\ Same
  BY <1>4, <1>a DEF Raises, held, halVars, panel
<1>5. ASSUME OnPointerUp PROVE Mixed /\ Same
  BY <1>5, <1>c, <1>t DEF OnPointerUp, Takes, halVars, panel
<1>6. ASSUME Cancel PROVE Mixed /\ Same
  BY <1>6, <1>a DEF Cancel, panel
<1>7. ASSUME BinderDrops PROVE Mixed /\ Same
  BY <1>7, <1>a DEF BinderDrops, Destroy, halVars, panel
<1>8. ASSUME TellsCanceled PROVE Mixed /\ Same
  BY <1>8 DEF TellsCanceled, halVars, panel
<1>9. ASSUME NEW op \in Started, BeginsOperation(op) PROVE Mixed /\ Same
  BY <1>9 DEF BeginsOperation, halVars, panel
<1>10. ASSUME NEW op \in Started, StartsOperation(op) PROVE Mixed /\ Same
  BY <1>10, <1>a DEF StartsOperation, halVars, panel
<1>11. ASSUME EnumerateEnrollments PROVE Mixed /\ Same
  BY <1>11 DEF EnumerateEnrollments, Substituted, Enumerated, halVars, panel
<1>30. ASSUME NEW n \in 0 .. MaxIds, RemoveEnrollments(n) PROVE Mixed /\ Same
  BY <1>30 DEF RemoveEnrollments, halVars, panel
<1>31. ASSUME RemovesNext PROVE Mixed /\ Same
  BY <1>31, <1>a DEF RemovesNext, panel
<1>32. ASSUME CancelTakes PROVE Mixed /\ Same
  BY <1>32, <1>c, <1>t DEF CancelTakes, Takes, halVars
<1>12. ASSUME NEW f \in {"pre_enroll", "get_auth_id"}, AsksNumber(f) PROVE Mixed /\ Same
  BY <1>12, <1>a DEF AsksNumber, halVars, panel
<1>13. ASSUME DetectInteraction PROVE Mixed /\ Same
  BY <1>13 DEF DetectInteraction, halVars, panel
<1>14. ASSUME RevokeChallenge PROVE Mixed /\ Same
  BY <1>14, <1>a DEF RevokeChallenge, SwitchesOff, halVars, panel
<1>15. ASSUME ResetLockout PROVE Mixed /\ Same
  BY <1>15, <1>a DEF ResetLockout, SwitchesOff, halVars, panel
<1>16. ASSUME CreateSession PROVE Mixed /\ Same
  BY <1>16, <1>a DEF CreateSession, halVars, panel
<1>17. ASSUME Close PROVE Mixed /\ Same
  BY <1>17 DEF Close, halVars, panel
<1>18. ASSUME SessionDestroyed PROVE Mixed /\ Same
  BY <1>18 DEF SessionDestroyed, halVars, panel
<1>19. ASSUME ReportsError PROVE Mixed /\ Same
  BY <1>19, <1>c, <1>t DEF ReportsError, Takes, halVars, panel
<1>20. ASSUME ReportsSuccess PROVE Mixed /\ Same
  BY <1>20 DEF ReportsSuccess, halVars, panel
<1>21. ASSUME FinishesPanel PROVE Mixed /\ Same
  BY <1>21, <1>c, <1>t DEF FinishesPanel, Takes, halVars, panel
<1>22. ASSUME VendorDrops PROVE Mixed /\ Same
  BY <1>22 DEF VendorDrops, Destroy, halVars, panel
<1>23. ASSUME TellsSuccess PROVE Mixed /\ Same
  BY <1>23 DEF TellsSuccess, halVars, panel
<1>24. ASSUME NEW done \in BOOLEAN, ReportsProgress(done) PROVE Mixed /\ Same
  BY <1>24, <1>a DEF ReportsProgress, halVars, panel
<1>25. ASSUME ReportsListed \/ ReportsRemoved PROVE Mixed /\ Same
  BY <1>25 DEF ReportsListed, ReportsRemoved, halVars, panel
<1>26. ASSUME NEW code \in ErrorCodes, TellsError(code) PROVE Mixed /\ Same
  BY <1>26 DEF TellsError, halVars, panel
<1>27. ASSUME NEW info \in AcquiredCodes, ReportsAcquired(info) PROVE Mixed /\ Same
  BY <1>27 DEF ReportsAcquired, halVars, panel
<1>28. ASSUME NEW level \in Levels, SystemSets(level) PROVE Mixed /\ Same
  BY <1>28 DEF SystemSets, halVars, panel
<1>29. ASSUME UNCHANGED vars PROVE Mixed /\ Same
  BY <1>29 DEF vars, halVars, panel
<1>80. ASSUME ServiceStarts
       PROVE  HalTypeOK' /\ KeysReleased' /\ mixed' \subseteq Troubles
  <2>1. /\ device' = device /\ mixed' = mixed /\ keysDown' = keysDown /\ cut' = cut
        /\ phase' \in {"loading", "setup", "serving", "crashed"}
        /\ bound' \subseteq HalFunctions /\ registered' \in BOOLEAN
        /\ uinput' \in {"closed", "open", "device"}
    BY <1>80
       DEF ServiceStarts, OpenHal, SetUp, After, others, panel, library,
           gestures, HalTypeOK
  <2> QED BY <2>1 DEF HalTypeOK, KeysReleased
<1>81. ASSUME Swipes
       PROVE  HalTypeOK' /\ KeysReleased' /\ mixed' \subseteq Troubles
  <2>1. PICK key \in Keys : HandleSwipe(key)
    BY <1>81 DEF Swipes
  <2>2. PICK n \in Written :
          /\ keysDown' = (IF n > 0 THEN keysDown \cup {key} ELSE keysDown)
                           \ (IF n > 2 THEN {key} ELSE {})
          /\ cut' = IF n = 4 THEN cut \ {key} ELSE cut \cup {key}
    BY <2>1 DEF HandleSwipe
  <2>3. UNCHANGED <<phase, library, uinput, mixed>>
    BY <1>81, <2>1 DEF HandleSwipe, Swipes, others, panel
  <2>4. n > 0 \/ ~(n > 0)
    OBVIOUS
  <2>5. n = 4 => n > 2
    OBVIOUS
  <2>6. keysDown' \subseteq keysDown \cup {key} /\ cut' \subseteq cut \cup {key}
    BY <2>2
  <2>7. KeysReleased'
    <3>1. CASE n = 4
      BY <3>1, <2>2, <2>5 DEF KeysReleased
    <3>2. CASE n # 4
      BY <3>2, <2>2, <2>6 DEF KeysReleased
    <3> QED BY <3>1, <3>2
  <2> QED BY <2>1, <2>3, <2>6, <2>7 DEF HalTypeOK, library
<1> QED
  BY <1>s, <1>80, <1>81, <1>1, <1>2, <1>3, <1>4, <1>5, <1>6, <1>7, <1>8, <1>9,
     <1>10, <1>11, <1>12, <1>13, <1>14, <1>15, <1>16, <1>17, <1>18, <1>19,
     <1>20, <1>21, <1>22, <1>23, <1>24, <1>25, <1>26, <1>27, <1>28, <1>29,
     <1>30, <1>31, <1>32
     DEF Next, Binder, Vendor, Removals, Tells, Elsewhere

(* What the error filter makes of a code. *)
LEMMA ErrorIs ==
  ASSUME NEW e \in Int
  PROVE  \/ e \in 1 .. 6 /\ VendorErrorFilter(e) = Said(StandardErrors[e], 0)
         \/ e = 7 /\ VendorErrorFilter(e) = Said("VENDOR", 7)
         \/ e > 999 /\ VendorErrorFilter(e) = Said("VENDOR", e - 1000)
         \/ UnknownError(e) /\ VendorErrorFilter(e) = Said("UNABLE_TO_PROCESS", 0)
<1> USE DEF FINGERPRINT_ERROR_LOCKOUT, FINGERPRINT_ERROR_VENDOR_BASE
<1>1. CASE e \in 1 .. 6
  BY <1>1 DEF VendorErrorFilter
<1>2. CASE e = 7
  BY <1>2 DEF VendorErrorFilter
<1>3. CASE e > 999
  BY <1>3 DEF VendorErrorFilter
<1>4. CASE ~(e \in 1 .. 6) /\ e # 7 /\ ~(e > 999)
  BY <1>4 DEF VendorErrorFilter, UnknownError
<1> QED BY <1>1, <1>2, <1>3, <1>4

LEMMA ErrorsApart ==
  ASSUME NEW a \in Int, NEW b \in Int, VendorErrorFilter(a) = VendorErrorFilter(b)
  PROVE  a = b \/ ErrorsAlike(a, b)
<1>r. \A r1, r2, c1, c2 : Said(r1, c1) = Said(r2, c2) => r1 = r2 /\ c1 = c2
  BY DEF Said
<1>d. /\ \A e, f \in 1 .. 6 : StandardErrors[e] = StandardErrors[f] => e = f
      /\ \A e \in 1 .. 6 : StandardErrors[e] # "VENDOR"
                         /\ (StandardErrors[e] = "UNABLE_TO_PROCESS" <=> e = 2)
  <2>1. /\ StandardErrors[1] = "HW_UNAVAILABLE" /\ StandardErrors[2] = "UNABLE_TO_PROCESS"
        /\ StandardErrors[3] = "TIMEOUT" /\ StandardErrors[4] = "NO_SPACE"
        /\ StandardErrors[5] = "CANCELED" /\ StandardErrors[6] = "UNABLE_TO_REMOVE"
    BY DEF StandardErrors
  <2> QED BY <2>1
<1> DEFINE S(e) == e \in 1 .. 6
           V(e) == e > 999
           U(e) == UnknownError(e)
<1>k. /\ S(a) \/ a = 7 \/ V(a) \/ U(a)
      /\ S(b) \/ b = 7 \/ V(b) \/ U(b)
  BY ErrorIs
<1>f. \A e \in Int : /\ S(e) => VendorErrorFilter(e) = Said(StandardErrors[e], 0)
                     /\ e = 7 => VendorErrorFilter(e) = Said("VENDOR", 7)
                     /\ V(e) => VendorErrorFilter(e) = Said("VENDOR", e - 1000)
                     /\ U(e) => VendorErrorFilter(e) = Said("UNABLE_TO_PROCESS", 0)
  BY ErrorIs DEF UnknownError, FINGERPRINT_ERROR_VENDOR_BASE
<1> HIDE DEF S, V, U
<1>1. ASSUME NEW x \in Int, NEW y \in Int, S(x) \/ U(x), S(y) \/ U(y),
             VendorErrorFilter(x) = VendorErrorFilter(y)
      PROVE  x = y \/ ((x = 2 \/ U(x)) /\ (y = 2 \/ U(y)))
  <2>1. CASE S(x) /\ S(y)
    BY <1>1, <2>1, <1>f, <1>r, <1>d DEF S
  <2>2. CASE S(x) /\ U(y)
    BY <1>1, <2>2, <1>f, <1>r, <1>d DEF S
  <2>3. CASE U(x) /\ S(y)
    BY <1>1, <2>3, <1>f, <1>r, <1>d DEF S
  <2> QED BY <1>1, <2>1, <2>2, <2>3
<1>2. ASSUME NEW x \in Int, NEW y \in Int, S(x) \/ U(x), y = 7 \/ V(y),
             VendorErrorFilter(x) = VendorErrorFilter(y)
      PROVE  FALSE
  <2>1. \E c : VendorErrorFilter(y) = Said("VENDOR", c)
    BY <1>2, <1>f
  <2>2. CASE S(x)
    BY <1>2, <2>1, <2>2, <1>f, <1>r, <1>d DEF S
  <2>3. CASE U(x)
    BY <1>2, <2>1, <2>3, <1>f, <1>r
  <2> QED BY <1>2, <2>2, <2>3
<1>3. ASSUME NEW x \in Int, NEW y \in Int, x = 7 \/ V(x), y = 7 \/ V(y),
             VendorErrorFilter(x) = VendorErrorFilter(y)
      PROVE  x = y \/ {x, y} = {7, 1007}
  <2>1. CASE x = 7 /\ V(y)
    <3>1. 7 = y - 1000
      BY <1>3, <2>1, <1>f, <1>r
    <3> QED BY <3>1, <2>1
  <2>2. CASE V(x) /\ y = 7
    <3>1. 7 = x - 1000
      BY <1>3, <2>2, <1>f, <1>r
    <3>2. x = 1007
      BY <3>1
    <3> QED BY <3>2, <2>2
  <2>3. CASE V(x) /\ V(y)
    <3>1. x - 1000 = y - 1000
      BY <1>3, <2>3, <1>f, <1>r
    <3> QED BY <3>1
  <2> QED BY <1>3, <2>1, <2>2, <2>3
<1>4. a = b \/ ((a = 2 \/ U(a)) /\ (b = 2 \/ U(b))) \/ {a, b} = {7, 1007}
  BY <1>k, <1>1, <1>2, <1>3
<1> QED BY <1>4 DEF ErrorsAlike, U, FINGERPRINT_ERROR_LOCKOUT

(* What the filter of acquired messages makes of a code. *)
LEMMA AcquiredIs ==
  ASSUME NEW i \in Int
  PROVE  \/ i \in 0 .. 5 /\ VendorAcquiredFilter(i) = Said(StandardAcquired[i + 1], 0)
         \/ i > 999 /\ VendorAcquiredFilter(i) = Said("VENDOR", i - 1000)
         \/ UnknownAcquired(i) /\ VendorAcquiredFilter(i) = Said("INSUFFICIENT", 0)
<1> USE DEF FINGERPRINT_ACQUIRED_VENDOR_BASE
<1>1. CASE i \in 0 .. 5
  BY <1>1 DEF VendorAcquiredFilter
<1>2. CASE i > 999
  BY <1>2 DEF VendorAcquiredFilter
<1>3. CASE ~(i \in 0 .. 5) /\ ~(i > 999)
  BY <1>3 DEF VendorAcquiredFilter, UnknownAcquired
<1> QED BY <1>1, <1>2, <1>3

LEMMA AcquiredApart ==
  ASSUME NEW a \in Int, NEW b \in Int, VendorAcquiredFilter(a) = VendorAcquiredFilter(b)
  PROVE  a = b \/ AcquiredAlike(a, b)
<1>r. \A r1, r2, c1, c2 : Said(r1, c1) = Said(r2, c2) => r1 = r2 /\ c1 = c2
  BY DEF Said
<1>d. /\ \A e, f \in 0 .. 5 : StandardAcquired[e + 1] = StandardAcquired[f + 1] => e = f
      /\ \A e \in 0 .. 5 : StandardAcquired[e + 1] # "VENDOR"
                         /\ (StandardAcquired[e + 1] = "INSUFFICIENT" <=> e = 2)
  <2>1. /\ StandardAcquired[1] = "GOOD" /\ StandardAcquired[2] = "PARTIAL"
        /\ StandardAcquired[3] = "INSUFFICIENT" /\ StandardAcquired[4] = "SENSOR_DIRTY"
        /\ StandardAcquired[5] = "TOO_SLOW" /\ StandardAcquired[6] = "TOO_FAST"
    BY DEF StandardAcquired
  <2>2. \A e \in 0 .. 5 : e = 0 \/ e = 1 \/ e = 2 \/ e = 3 \/ e = 4 \/ e = 5
    OBVIOUS
  <2>3. /\ StandardAcquired[0 + 1] = "GOOD" /\ StandardAcquired[1 + 1] = "PARTIAL"
        /\ StandardAcquired[2 + 1] = "INSUFFICIENT" /\ StandardAcquired[3 + 1] = "SENSOR_DIRTY"
        /\ StandardAcquired[4 + 1] = "TOO_SLOW" /\ StandardAcquired[5 + 1] = "TOO_FAST"
    BY <2>1
  <2> QED BY <2>2, <2>3
<1> DEFINE S(e) == e \in 0 .. 5
           V(e) == e > 999
           U(e) == UnknownAcquired(e)
<1>k. (S(a) \/ V(a) \/ U(a)) /\ (S(b) \/ V(b) \/ U(b))
  BY AcquiredIs
<1>f. \A e \in Int : /\ S(e) => VendorAcquiredFilter(e) = Said(StandardAcquired[e + 1], 0)
                     /\ V(e) => VendorAcquiredFilter(e) = Said("VENDOR", e - 1000)
                     /\ U(e) => VendorAcquiredFilter(e) = Said("INSUFFICIENT", 0)
  BY AcquiredIs DEF UnknownAcquired, FINGERPRINT_ACQUIRED_VENDOR_BASE
<1> HIDE DEF S, V, U
<1>1. ASSUME NEW x \in Int, NEW y \in Int, S(x) \/ U(x), S(y) \/ U(y),
             VendorAcquiredFilter(x) = VendorAcquiredFilter(y)
      PROVE  x = y \/ ((x = 2 \/ U(x)) /\ (y = 2 \/ U(y)))
  <2>1. CASE S(x) /\ S(y)
    BY <1>1, <2>1, <1>f, <1>r, <1>d DEF S
  <2>2. CASE S(x) /\ U(y)
    BY <1>1, <2>2, <1>f, <1>r, <1>d DEF S
  <2>3. CASE U(x) /\ S(y)
    BY <1>1, <2>3, <1>f, <1>r, <1>d DEF S
  <2> QED BY <1>1, <2>1, <2>2, <2>3
<1>2. ASSUME NEW x \in Int, NEW y \in Int, S(x) \/ U(x), V(y),
             VendorAcquiredFilter(x) = VendorAcquiredFilter(y)
      PROVE  FALSE
  <2>1. VendorAcquiredFilter(y) = Said("VENDOR", y - 1000)
    BY <1>2, <1>f
  <2>2. CASE S(x)
    BY <1>2, <2>1, <2>2, <1>f, <1>r, <1>d DEF S
  <2>3. CASE U(x)
    BY <1>2, <2>1, <2>3, <1>f, <1>r
  <2> QED BY <1>2, <2>2, <2>3
<1>3. ASSUME NEW x \in Int, NEW y \in Int, V(x), V(y),
             VendorAcquiredFilter(x) = VendorAcquiredFilter(y)
      PROVE  x = y
  <2>1. x - 1000 = y - 1000
    BY <1>3, <1>f, <1>r
  <2> QED BY <2>1
<1>4. a = b \/ ((a = 2 \/ U(a)) /\ (b = 2 \/ U(b)))
  BY <1>k, <1>1, <1>2, <1>3
<1> QED BY <1>4 DEF AcquiredAlike, U

LEMMA CodesStep ==
  ASSUME [Next]_vars, CodesStayApart
  PROVE  CodesStayApart'
<1>1. ASSUME NEW code \in ErrorCodes, TellsError(code) PROVE CodesStayApart'
  <2>1. told' = <<"error", code, VendorErrorFilter(code)>>
    BY <1>1 DEF TellsError
  <2>2. told'[1] = "error" /\ told'[2] = code /\ told'[3] = VendorErrorFilter(code)
    BY <2>1
  <2>3. \A e \in ErrorCodes :
          VendorErrorFilter(e) = VendorErrorFilter(code) => e = code \/ ErrorsAlike(e, code)
    BY ErrorsApart, CodesAssumption
  <2> QED BY <2>2, <2>3 DEF CodesStayApart
<1>2. ASSUME NEW info \in AcquiredCodes, ReportsAcquired(info) PROVE CodesStayApart'
  <2>1. told' = <<"acquired", info, VendorAcquiredFilter(info)>> /\ ~IsEvent(info)
    BY <1>2 DEF ReportsAcquired
  <2>2. told'[1] = "acquired" /\ told'[2] = info /\ told'[3] = VendorAcquiredFilter(info)
    BY <2>1
  <2>3. \A i \in AcquiredCodes :
          VendorAcquiredFilter(i) = VendorAcquiredFilter(info) =>
            i = info \/ AcquiredAlike(i, info)
    BY AcquiredApart, CodesAssumption
  <2>4. info <= SEM_FINGERPRINT_EVENT_BASE
    BY <2>1, CodesAssumption DEF IsEvent, SEM_FINGERPRINT_EVENT_BASE
  <2>5. "acquired" # "error"
    OBVIOUS
  <2> QED BY <2>2, <2>3, <2>4, <2>5 DEF CodesStayApart
<1>3. ASSUME told' = <<>> PROVE CodesStayApart'
  BY <1>3 DEF CodesStayApart
<1>4. ASSUME UNCHANGED vars PROVE CodesStayApart'
  BY <1>4 DEF CodesStayApart, vars
<1> QED BY <1>1, <1>2, <1>3, <1>4 DEF Next, Tells

-----------------------------------------------------------------------------
(* All of it. *)

OperationsInv ==
  /\ AtOK /\ HeldOK /\ AloneOK
  /\ BoundOK /\ CrashNeedsReason
  /\ LitOK /\ GivenBackOK
  /\ WaitInv
  /\ HalTypeOK /\ KeysReleased /\ mixed \subseteq Troubles
  /\ CodesStayApart

LEMMA OperationsStart ==
  ASSUME Init
  PROVE  OperationsInv
<1> USE LabelsAre, Objects0
<1>1. at \in [Threads -> Labels] /\ bAt = "idle" /\ vAt = "idle"
  BY DEF Init, bAt, vAt, Threads
<1>2. /\ taken \in [Threads -> Restore \cup {NoRestore, Freed}]
      /\ bHas = NoRestore /\ vHas = NoRestore
  BY DEF Init, bHas, vHas, Threads
<1>3. AtOK
  BY <1>1 DEF AtOK
<1>4. HeldOK
  BY <1>1, <1>2 DEF HeldOK, Init
<1>5. AloneOK
  BY <1>1, <1>2 DEF AloneOK
<1>6. BoundOK /\ CrashNeedsReason
  BY DEF Init, HalInit, BoundOK, CrashNeedsReason
<1>7. LitOK
  BY <1>1 DEF LitOK, Init
<1>8. GivenBackOK
  BY <1>1 DEF GivenBackOK, Init, NothingHeld
<1>9. ClientOK
  BY <1>1 DEF ClientOK, Init
<1>9a. CountsOK
  BY <1>1, MaxIdsAssumption DEF CountsOK, Init
<1>10. WaitOK /\ FodOK
  BY <1>1 DEF WaitOK, FodOK, Init, Started, Cancels
<1>11. HalTypeOK /\ KeysReleased
  BY DEF Init, HalInit, HalTypeOK, KeysReleased
<1>12. CodesStayApart /\ mixed \subseteq Troubles
  BY DEF Init, CodesStayApart
<1> QED BY <1>3, <1>4, <1>5, <1>6, <1>7, <1>8, <1>9, <1>9a, <1>10, <1>11,
           <1>12
           DEF OperationsInv, WaitInv

LEMMA OperationsStep ==
  ASSUME OperationsInv, [Next]_vars
  PROVE  OperationsInv'
<1> USE DEF OperationsInv
<1>1. AtOK' /\ (Quiet \/ OnPanel)
  BY StepShape DEF HeldOK
<1>2. HeldOK'
  BY <1>1, HeldStep
<1>3. AloneOK'
  BY <1>1, <1>2, AloneStep
<1>4. BoundOK' /\ CrashNeedsReason'
  BY CrashStep
<1>5. LitOK' /\ GivenBackOK'
  BY <1>1, <1>2, <1>3, PanelStep
<1>6. WaitInv'
  BY <1>1, WaitStep
<1>7. HalTypeOK' /\ KeysReleased' /\ mixed' \subseteq Troubles
  BY HalStep
<1>8. CodesStayApart'
  BY CodesStep
<1> QED BY <1>1, <1>2, <1>3, <1>4, <1>5, <1>6, <1>7, <1>8

(* The invariant that carries the others: where the two threads are, what  *)
(* each holds of mBrightnessRestore, and what the client waits for there.  *)
THEOREM OperationsAlways == Spec => []OperationsInv
<1>1. Init => OperationsInv
  BY OperationsStart
<1>2. OperationsInv /\ [Next]_vars => OperationsInv'
  BY OperationsStep
<1> QED BY <1>1, <1>2, PTL DEF Spec

(* Every variable keeps its type; in particular three TimedRestores are    *)
(* enough for the one stored and the one each thread may have in hand.     *)
THEOREM OperationsTypeOK == Spec => []TypeOK
<1>1. OperationsInv => TypeOK
  BY DEF OperationsInv, AtOK, HeldOK, WaitInv, ClientOK, CountsOK, TypeOK, Troubles
<1> QED BY <1>1, OperationsAlways, PTL

(* While a touch holds the panel it is raised, and once nothing holds it   *)
(* it is at what the system set: TimedRestore, its constructor, its set()  *)
(* and its destructor, on either thread and across a session's end.  The   *)
(* second not after a second pointer down or a node that was not read, and *)
(* neither if the system moved it or the threads met.                      *)
THEOREM PanelFollowsTouchHolds == Spec => []PanelFollowsTouch
<1>1. OperationsInv => PanelFollowsTouch
  <2> SUFFICES ASSUME OperationsInv PROVE PanelFollowsTouch
    OBVIOUS
  <2>1. AtRest => bAt \notin PanelLabels /\ vAt \notin PanelLabels
    BY LabelsAre DEF AtRest, bAt, vAt, Threads
  <2>2. PanelRaised
    <3> SUFFICES ASSUME AtRest, restore # NoRestore, mixed \subseteq {"nested", "unread"}
                 PROVE  brightness >= Raised
      BY DEF PanelRaised
    <3>1. brightness = Lit(restore.saved)
      BY <2>1 DEF OperationsInv, LitOK
    <3>2. restore.saved \in Int
      BY Objects0, SavedInt DEF OperationsInv, HeldOK
    <3> QED BY <3>1, <3>2 DEF Lit, Raised
  <2>3. PanelGivenBack
    BY <2>1 DEF PanelGivenBack, NothingHeld, OperationsInv, GivenBackOK
  <2> QED BY <2>2, <2>3 DEF PanelFollowsTouch
<1> QED BY <1>1, OperationsAlways, PTL

(* What the client waits for and the library runs has the touch controller *)
(* reporting fingers: setFodPress in authenticate, enroll and in each call *)
(* and report that switches it off.  It says nothing from an answer that   *)
(* came while the library was still at the operation (astray: a cancel     *)
(* that crosses a success, a close, an error amid a removal) until one     *)
(* begins with the library idle.                                           *)
THEOREM OperationHasFodHolds == Spec => []OperationHasFod
<1>1. OperationsInv => OperationHasFod
  BY DEF OperationsInv, WaitInv, FodOK, OperationHasFod
<1> QED BY <1>1, OperationsAlways, PTL

(* Between calls and reports the client waits for what the library runs,   *)
(* unless the library refused to remove or to enumerate: every onError and *)
(* every completion of Session, on either thread, comes with its end.  It  *)
(* says nothing after an answer that came too early, as above.             *)
THEOREM WaitsForLibraryHolds == Spec => []WaitsForLibrary
<1>1. OperationsInv => WaitsForLibrary
  BY
     DEF OperationsInv, WaitInv, WaitOK, WaitsForLibrary, AtRest, bAt, vAt,
         Threads, Started, Cancels
<1> QED BY <1>1, OperationsAlways, PTL

(* Unless both threads were in mBrightnessRestore at a time, the service   *)
(* crashes only of a function its library does not have: LegacyHAL binds   *)
(* them by name, and Session calls most of them untested.                  *)
THEOREM CrashNeedsReasonHolds == Spec => []CrashNeedsReason
<1>1. OperationsInv => CrashNeedsReason
  BY DEF OperationsInv
<1> QED BY <1>1, OperationsAlways, PTL

(* VendorErrorFilter and VendorAcquiredFilter map no two codes to one, any *)
(* integers, but 7 and 1007 and those they do not know (with 2 and 2), and *)
(* no event of the sensor gets as far.                                     *)
THEOREM CodesStayApartHolds == Spec => []CodesStayApart
<1>1. OperationsInv => CodesStayApart
  BY DEF OperationsInv
<1> QED BY <1>1, OperationsAlways, PTL

(* A key stays pressed only by a swipe of which a write failed: handleEvent *)
(* releases the key it has pressed.                                        *)
THEOREM KeysReleasedHolds == Spec => []KeysReleased
<1>1. OperationsInv => KeysReleased
  BY DEF OperationsInv
<1> QED BY <1>1, OperationsAlways, PTL

(* The service crashes only of what its library lacks or of both threads in *)
(* mBrightnessRestore, and a key stays pressed only of a failed write.      *)
THEOREM FaultsNeedReasonHolds == Spec => []FaultsNeedReason
<1>1. OperationsInv => FaultsNeedReason
  BY DEF OperationsInv, FaultsNeedReason
<1> QED BY <1>1, OperationsAlways, PTL
=============================================================================
