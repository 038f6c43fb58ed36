--------------------------- MODULE SeamCheckProofs ---------------------------
(***************************************************************************)
(* The walk and the verdict of verify-seam.py are right for every set of   *)
(* libraries, whatever they need and wherever the walk has got to.         *)
(***************************************************************************)
EXTENDS SeamCheck, SequenceTheorems, TLAPS

(***************************************************************************)
(* What has been seen or is still pending is closed from the probe but for *)
(* what is pending, and is in every closed set.  When nothing is pending,  *)
(* the two together make it the least closed set.                          *)
(***************************************************************************)
Frontier == Seen \cup Range(pending)

WalkOK ==
  /\ closure \subseteq found
  /\ unresolved \cap found = {}
  /\ Range(direct) \subseteq Frontier
  /\ \A s \in closure : Range(needed[s]) \subseteq Frontier
  /\ \A X \in SUBSET Sonames : ClosedUnder(X, found) => Frontier \subseteq X

JudgedOK ==
  verdict # "none" =>
    /\ pending = <<>>
    /\ verdict = "pass" <=> ~(LinksOutside \/ ForbiddenSeen \/ SeamBroken \/ CreptIn)

WalkInv == SeamTypeOK /\ WalkOK /\ JudgedOK

USE SeamAssumption

(* Popping the last of a list leaves a list of the others. *)
LEMMA FrontAndLast ==
  ASSUME NEW S, NEW s \in Seq(S), s # <<>>
  PROVE  /\ Front(s) \in Seq(S)
         /\ Last(s) \in S
         /\ Range(s) = Range(Front(s)) \cup {Last(s)}
<1>1. Len(s) \in Nat \ {0} /\ s \in [1 .. Len(s) -> S]
  BY EmptySeq, LenProperties
<1>2. Last(s) = s[Len(s)] /\ Last(s) \in S
  BY <1>1 DEF Last
<1>3. Front(s) \in Seq(S)
  <2> DEFINE n == Len(s) - 1
  <2>1. n \in Nat /\ n <= Len(s)
    BY <1>1
  <2>2. \A i \in 1 .. n : s[i] \in S
    BY <1>1, <2>1
  <2>3. SubSeq(s, 1, n) \in Seq(S)
    <3> HIDE DEF n
    <3> n \in Int /\ 1 \in Int
      BY <2>1
    <3> QED
      BY <2>2, SubSeqProperties
  <2> QED
    BY <2>3 DEF Front
<1>4. s = Front(s) \o <<Last(s)>>
  <2>1. 1 \in 1 .. Len(s) /\ Len(s) \in 1 .. Len(s)
    BY <1>1
  <2>2. SubSeq(s, 1, Len(s)) = SubSeq(s, 1, Len(s) - 1) \o <<s[Len(s)]>>
    BY <2>1, SubSeqRecursiveSecond
  <2> QED
    BY <2>2, SubSeqFull DEF Front, Last
<1> DEFINE last == <<Last(s)>>
<1>5. last \in Seq(S) /\ Range(last) = {Last(s)}
  BY <1>2 DEF Range
<1>6. Range(s) = Range(Front(s)) \cup Range(last)
  <2>1. s = Front(s) \o last
    BY <1>4
  <2> HIDE DEF last
  <2>2. Range(Front(s) \o last) = Range(Front(s)) \cup Range(last)
    BY <1>3, <1>5, RangeConcatenation
  <2> QED
    BY <2>1, <2>2, Zenon
<1> HIDE DEF last
<1> QED
  BY <1>2, <1>3, <1>5, <1>6

LEMMA InitInv == SeamInit => WalkInv
<1> SUFFICES ASSUME SeamInit PROVE WalkInv
  OBVIOUS
<1>1. SeamTypeOK
  BY DEF SeamInit, SeamTypeOK
<1>2. Range(pending) = Range(direct) /\ Seen = {}
  BY DEF SeamInit, Seen
<1>3. WalkOK
  BY <1>2 DEF SeamInit, WalkOK, Frontier, ClosedUnder
<1>4. JudgedOK
  BY DEF SeamInit, JudgedOK
<1> QED
  BY <1>1, <1>3, <1>4 DEF WalkInv

(* One turn of the loop: the name popped is seen, and what it needs, if it *)
(* was found, is pending.                                                  *)
LEMMA PopStep ==
  ASSUME WalkInv, Skip \/ Miss \/ Visit
  PROVE  SeamTypeOK' /\ WalkOK'
<1> USE DEF WalkInv
<1> DEFINE soname == Last(pending)
<1> /\ UNCHANGED inputs /\ pending # <<>>
    /\ found' = found /\ needed' = needed /\ direct' = direct
  BY DEF Skip, Miss, Visit, inputs
<1>1. /\ Front(pending) \in Seq(Sonames) /\ soname \in Sonames
      /\ Range(pending) = Range(Front(pending)) \cup {soname}
  BY FrontAndLast DEF SeamTypeOK
<1>2. CASE Skip
  <2>1. SeamTypeOK'
    BY <1>1, <1>2 DEF Skip, SeamTypeOK, inputs
  <2>2. Frontier' = Frontier
    BY <1>1, <1>2 DEF Skip, Frontier, Seen
  <2>3. WalkOK'
    BY <1>2, <2>2 DEF Skip, WalkOK, ClosedUnder
  <2> QED
    BY <2>1, <2>3
<1>3. CASE Miss
  <2>1. SeamTypeOK'
    BY <1>1, <1>3 DEF Miss, SeamTypeOK, inputs
  <2>2. Frontier' = Frontier
    BY <1>1, <1>3 DEF Miss, Frontier, Seen
  <2>3. WalkOK'
    BY <1>3, <2>2 DEF Miss, WalkOK, ClosedUnder
  <2> QED
    BY <2>1, <2>3
<1>4. CASE Visit
  <2>1. needed[soname] \in Seq(Sonames)
    BY <1>1 DEF SeamTypeOK
  <2>2. /\ pending' \in Seq(Sonames)
        /\ Range(pending') = Range(Front(pending)) \cup Range(needed[soname])
    BY <1>1, <1>4, <2>1, ConcatProperties, RangeConcatenation DEF Visit
  <2>3. closure' = closure \cup {soname} /\ unresolved' = unresolved /\ soname \in found
    BY <1>4 DEF Visit
  <2>4. Frontier' = Frontier \cup Range(needed[soname])
    BY <1>1, <2>2, <2>3 DEF Frontier, Seen
  <2>5. SeamTypeOK'
    BY <1>1, <1>4, <2>2, <2>3 DEF Visit, SeamTypeOK, inputs
  <2>6. \A X \in SUBSET Sonames : ClosedUnder(X, found) => Range(needed[soname]) \subseteq X
    <3> SUFFICES ASSUME NEW X \in SUBSET Sonames, ClosedUnder(X, found)
                 PROVE  Range(needed[soname]) \subseteq X
      OBVIOUS
    <3>1. soname \in X
      BY <1>1 DEF WalkOK, Frontier
    <3> QED
      BY <3>1, <2>3 DEF ClosedUnder
  <2>7. WalkOK'
    BY <2>3, <2>4, <2>6 DEF WalkOK, ClosedUnder
  <2> QED
    BY <2>5, <2>7
<1> QED
  BY <1>2, <1>3, <1>4

LEMMA StepInv == WalkInv /\ [SeamNext]_seamVars => WalkInv'
<1> SUFFICES ASSUME WalkInv, [SeamNext]_seamVars PROVE WalkInv'
  OBVIOUS
<1> USE DEF WalkInv
<1>1. CASE Skip \/ Miss \/ Visit
  <2>1. verdict = "none" /\ verdict' = "none"
    BY <1>1 DEF Skip, Miss, Visit, JudgedOK
  <2> QED
    BY <1>1, <2>1, PopStep DEF JudgedOK
<1>2. CASE Judge
  <2>1. /\ UNCHANGED <<found, needed, defined, direct, imports>>
        /\ UNCHANGED <<closure, unresolved, pending>>
    BY <1>2 DEF Judge, inputs
  <2>2. SeamTypeOK' /\ WalkOK'
    BY <1>2, <2>1 DEF Judge, SeamTypeOK, WalkOK, Frontier, Seen, ClosedUnder
  <2>3. JudgedOK'
    BY <1>2, <2>1 DEF Judge, JudgedOK, LinksOutside, ForbiddenSeen, Seen, SeamBroken,
                      CreptIn
  <2> QED
    BY <2>2, <2>3
<1>3. CASE UNCHANGED seamVars
  BY <1>3 DEF seamVars, inputs, SeamTypeOK, WalkOK, JudgedOK, Frontier, Seen, ClosedUnder,
              LinksOutside, ForbiddenSeen, SeamBroken, CreptIn
<1> QED
  BY <1>1, <1>2, <1>3 DEF SeamNext

(* The invariant of the walk, of which the theorems below are consequences. *)
THEOREM WalkInvariant == SeamSpec => []WalkInv
BY InitInv, StepInv, PTL DEF SeamSpec

(* The walk stays well typed. *)
THEOREM WalkTypeCorrect == SeamSpec => []SeamTypeOK
<1>1. WalkInv => SeamTypeOK
  BY DEF WalkInv
<1> QED
  BY <1>1, WalkInvariant, PTL

LEMMA WalkGivesClosure == WalkInv => ClosureExact
<1> SUFFICES ASSUME WalkInv, pending = <<>>
             PROVE  Seen = Reachable(found) /\ closure = Reachable(found) \cap found
  BY DEF ClosureExact
<1>1. Frontier = Seen /\ Seen \in SUBSET Sonames
  BY DEF WalkInv, SeamTypeOK, Frontier, Seen, Range
<1>2. Seen \cap found = closure
  BY DEF WalkInv, WalkOK, Seen
<1>3. ClosedUnder(Seen, found)
  BY <1>1, <1>2 DEF WalkInv, WalkOK, ClosedUnder
<1>4. \A X \in SUBSET Sonames : ClosedUnder(X, found) => Seen \subseteq X
  BY <1>1 DEF WalkInv, WalkOK
<1>5. Seen = Reachable(found)
  BY <1>1, <1>3, <1>4 DEF Reachable
<1> QED
  BY <1>2, <1>5

(* What the script calls the closure is, when the walk ends, exactly what  *)
(* is reachable through the libraries the roots hold.                      *)
THEOREM ClosureExactHolds == SeamSpec => []ClosureExact
BY WalkGivesClosure, WalkInvariant, PTL

(* The script passes exactly the probes that meet its four conditions over *)
(* what is reachable through the libraries the roots hold.                 *)
THEOREM VerdictExactHolds == SeamSpec => []VerdictExact
<1>1. WalkInv => VerdictExact
  <2> SUFFICES ASSUME WalkInv, verdict # "none"
               PROVE  verdict = "pass" <=> Bounded(found)
    BY DEF VerdictExact
  <2>1. pending = <<>>
    BY DEF WalkInv, JudgedOK
  <2>2. Seen = Reachable(found) /\ closure = Reachable(found) \cap found
    BY <2>1, WalkGivesClosure DEF ClosureExact
  <2>3. verdict = "pass" <=> ~(LinksOutside \/ ForbiddenSeen \/ SeamBroken \/ CreptIn)
    BY DEF WalkInv, JudgedOK
  <2>4. ForbiddenSeen <=> Reachable(found) \cap Forbidden # {}
    BY <2>2 DEF ForbiddenSeen
  <2>5. SeamBroken <=>
          ~(/\ DOMAIN Seam \subseteq Reachable(found) \cap found
            /\ \A l \in DOMAIN Seam : Seam[l] \subseteq defined[l] /\ Seam[l] \subseteq imports)
    BY <2>2 DEF SeamBroken
  <2> QED
    BY <2>3, <2>4, <2>5 DEF Bounded, LinksOutside, CreptIn
<1> QED
  BY <1>1, WalkInvariant, PTL
=============================================================================
