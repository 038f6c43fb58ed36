-------------------------- MODULE UpParamPackProofs --------------------------
(***************************************************************************)
(* Proofs about the packer, for any members, images, references, packer    *)
(* runs and pieces.                                                        *)
(*                                                                         *)
(* The file: --out never holds part of an image, and after a success it    *)
(* holds that packer's.  By itself this is not inductive: what a rename    *)
(* puts in place, and what a power loss leaves there, is whole because     *)
(* every file that was ever renamed was complete and synced first; and     *)
(* what is renamed is the packer's own because open() emptied the          *)
(* temporary file.                                                         *)
(*                                                                         *)
(* The tar: the packer refuses what it should and nothing else.  The walk  *)
(* over a tar's headers takes each of them in order and stops at the end   *)
(* of the archive, because it steps over a member by exactly the length    *)
(* build() gives it; Ends and the walk are recursive functions, so each is *)
(* shown to exist before anything is said of it, and every induction is on *)
(* a least counterexample.                                                 *)
(***************************************************************************)
EXTENDS UpParamPack, SequenceTheorems, WellFoundedInduction, TLAPS

USE BoundAssumption

-----------------------------------------------------------------------------
(* The file. *)

WholeAndSynced(file) == file.pieces = Pieces /\ file.synced

OutOK ==
  /\ out # None => WholeAndSynced(out)
  /\ disk.out # None => WholeAndSynced(disk.out)
RunOK == pc \in {"build", "open"} => run # 0
TmpOK ==
  /\ pc \in {"write", "replace"} => tmp \in File /\ tmp.image = run
  /\ pc = "replace" => WholeAndSynced(tmp)

(* The strengthening the theorems below rest on. *)
PackInv == TypeOK /\ OutOK /\ RunOK /\ TmpOK /\ DoneMeansInstalled

(* What a power loss leaves of an entry is an entry, and a synced file is   *)
(* left as it was.                                                          *)
LEMMA RemainsEntry ==
  ASSUME NEW file \in Entry, NEW left \in Remains(file)
  PROVE  left \in Entry /\ (file # None /\ file.synced => left = file)
<1>1. CASE file = None \/ file.synced
  BY <1>1 DEF Remains
<1>2. CASE ~(file = None \/ file.synced)
  <2>1. PICK n \in 0..file.pieces : left = [file EXCEPT !.pieces = n]
    BY <1>2 DEF Remains
  <2>2. file \in File
    BY <1>2 DEF Entry
  <2>3. n \in 0..Pieces
    BY <2>2 DEF File
  <2> QED
    BY <1>2, <2>1, <2>2, <2>3 DEF File, Entry
<1> QED
  BY <1>1, <1>2

(* Every behaviour keeps PackInv. *)
THEOREM PackInvariant == Spec => []PackInv
<1>1. Init => PackInv
  BY DEF Init, PackInv, TypeOK, OutOK, RunOK, TmpOK, Entry, DoneMeansInstalled
<1>2. PackInv /\ [Next]_vars => PackInv'
  <2> SUFFICES ASSUME PackInv, [Next]_vars PROVE PackInv'
    OBVIOUS
  <2> USE DEF PackInv, TypeOK, OutOK, RunOK, TmpOK, WholeAndSynced, DoneMeansInstalled
  <2>1. CASE Starts
    BY <2>1 DEF Starts, files
  <2>2. CASE Build
    BY <2>2 DEF Build, files
  <2>3. CASE Open
    <3>1. Opened \in File /\ Opened.image = run
      BY <2>3 DEF Open, Opened, File
    <3> QED
      BY <2>3, <3>1 DEF Open, Entry
  <2>4. CASE Write
    <3>1. tmp \in File /\ tmp.pieces + 1 \in 0..Pieces
      BY <2>4 DEF Write, File
    <3>2. tmp' \in File /\ tmp'.image = tmp.image
      BY <2>4, <3>1 DEF Write, File
    <3> QED
      BY <2>4, <3>2 DEF Write, Entry
  <2>5. CASE Fsync
    <3>1. tmp' \in File /\ WholeAndSynced(tmp') /\ tmp'.image = tmp.image
      BY <2>5 DEF Fsync, Synced, File
    <3> QED
      BY <2>5, <3>1 DEF Fsync, Entry
  <2>6. CASE Replace
    <3>1. tmp # None
      BY <2>6, NoneAssumption DEF Replace
    <3> QED
      BY <2>6, <3>1 DEF Replace, Entry
  <2>7. CASE Fails
    BY <2>7 DEF Fails, files
  <2>8. CASE DirectoryReachesDisk
    BY <2>8 DEF DirectoryReachesDisk
  <2>9. CASE PowerLoss
    <3>1. PICK dir \in {disk, [tmp |-> tmp, out |-> out]} :
             /\ tmp' \in Remains(dir.tmp) /\ out' \in Remains(dir.out)
             /\ disk' = [tmp |-> tmp', out |-> out']
      BY <2>9 DEF PowerLoss
    <3>2. /\ dir.tmp \in Entry /\ dir.out \in Entry
          /\ dir.out # None => WholeAndSynced(dir.out)
      OBVIOUS
    <3>3. tmp' \in Entry /\ out' \in Entry
      BY <3>1, <3>2, RemainsEntry
    <3>4. out' # None => WholeAndSynced(out')
      <4>1. CASE dir.out = None
        BY <3>1, <4>1 DEF Remains
      <4>2. CASE dir.out # None
        BY <3>1, <3>2, <4>2, RemainsEntry
      <4> QED
        BY <4>1, <4>2
    <3> QED
      BY <2>9, <3>1, <3>3, <3>4 DEF PowerLoss
  <2>10. CASE UNCHANGED vars
    BY <2>10 DEF vars, files
  <2> QED
    BY <2>1, <2>2, <2>3, <2>4, <2>5, <2>6, <2>7, <2>8, <2>9, <2>10 DEF Next
<1> QED
  BY <1>1, <1>2, PTL DEF Spec

(* The packer's arguments, progress and files stay well typed. *)
THEOREM PackTypeCorrect == Spec => []TypeOK
<1>1. PackInv => TypeOK
  BY DEF PackInv
<1> QED
  BY <1>1, PackInvariant, PTL

(* Whatever call fails and whenever the power goes, --out holds no image or *)
(* a whole one; and after a packer's success it is that packer's.           *)
THEOREM OutputIsSafeHolds == Spec => []OutputIsSafe
<1>1. PackInv => OutputIsSafe
  BY DEF PackInv, OutOK, WholeAndSynced, OutIsWhole, OutputIsSafe
<1> QED
  BY <1>1, PackInvariant, PTL

-----------------------------------------------------------------------------
(* The tar: where its members end. *)

(* A set of naturals has a least element. *)
LEMMA LeastNat ==
  ASSUME NEW T \in SUBSET Nat, T # {}
  PROVE  \E k \in T : \A y \in T : ~(y < k)
<1>1. PICK k \in T : \A y \in T : <<y, k>> \notin OpToRel(<, Nat)
  BY NatLessThanWellFounded, WFMin
<1> QED BY <1>1 DEF OpToRel

(* Padding is less than what it pads to; a member is a block at least. *)
LEMMA PaddingBounds ==
  ASSUME NEW n \in Nat, NEW m \in Nat \ {0}
  PROVE  Padding(n, m) \in 0 .. m - 1
<1>1. n % m \in 0 .. m - 1
  OBVIOUS
<1>2. m - (n % m) \in 1 .. m
  BY <1>1
<1> HIDE DEF Padding
<1>3. (m - (n % m)) % m \in 0 .. m - 1
  BY <1>2
<1> QED BY <1>3 DEF Padding

LEMMA MemberLengths ==
  ASSUME NEW size \in Nat
  PROVE  /\ MemberLength(size) \in Nat /\ MemberLength(size) >= BLOCK
         /\ StepOver(size) = MemberLength(size)
<1>1. Padding(size, BLOCK) \in Nat
  BY PaddingBounds
<1> QED BY <1>1 DEF MemberLength, StepOver

(* A function as build()'s loop would fill it, for the first n members. *)
Filling(g, sizes, n) ==
  g = [i \in 0 .. n |-> IF i = 0 THEN 0 ELSE g[i - 1] + MemberLength(sizes[i])]

LEMMA FillingExists ==
  ASSUME NEW sizes \in Seq(Nat), NEW n \in 0 .. Len(sizes)
  PROVE  \E g \in [0 .. n -> Nat] : Filling(g, sizes, n)
<1> DEFINE Has(k) == \E g \in [0 .. k -> Nat] : Filling(g, sizes, k)
           T == {k \in 0 .. Len(sizes) : ~Has(k)}
<1>0. Len(sizes) \in Nat
  BY LenProperties
<1>1. Has(0)
  <2>1. [i \in 0 .. 0 |-> 0] \in [0 .. 0 -> Nat]
    OBVIOUS
  <2>2. Filling([i \in 0 .. 0 |-> 0], sizes, 0)
    BY DEF Filling
  <2> QED BY <2>1, <2>2
<1>2. ASSUME NEW k \in 1 .. Len(sizes), Has(k - 1) PROVE Has(k)
  <2>0. k \in Nat /\ k >= 1 /\ k - 1 \in Nat
    BY <1>0
  <2>1. PICK g \in [0 .. k - 1 -> Nat] : Filling(g, sizes, k - 1)
    BY <1>2
  <2>2. sizes[k] \in Nat
    BY <1>0, ElementOfSeq
  <2>3. MemberLength(sizes[k]) \in Nat
    BY <2>2, MemberLengths
  <2> DEFINE h == [i \in 0 .. k |-> IF i = k THEN g[k - 1] + MemberLength(sizes[k]) ELSE g[i]]
  <2>4. h \in [0 .. k -> Nat]
    <3>1. g[k - 1] + MemberLength(sizes[k]) \in Nat
      BY <2>0, <2>3
    <3> HIDE DEF MemberLength
    <3>2. \A i \in 0 .. k : i # k => i \in 0 .. k - 1
      BY <2>0
    <3> QED BY <3>1, <3>2
  <2>5. ASSUME NEW i \in 0 .. k
        PROVE  h[i] = IF i = 0 THEN 0 ELSE h[i - 1] + MemberLength(sizes[i])
    <3>1. CASE i = k
      <4>1. h[k - 1] = g[k - 1]
        BY <2>0
      <4> QED BY <3>1, <4>1, <2>0
    <3>2. CASE i # k
      <4>1. i \in 0 .. k - 1 /\ h[i] = g[i] /\ (i # 0 => i - 1 \in 0 .. k - 1 /\ i - 1 # k /\ i - 1 \in 0 .. k)
        BY <3>2, <2>0
      <4>2. i # 0 => h[i - 1] = g[i - 1]
        BY <4>1
      <4>3. g[i] = IF i = 0 THEN 0 ELSE g[i - 1] + MemberLength(sizes[i])
        BY <2>1, <4>1, Zenon DEF Filling
      <4> HIDE DEF h
      <4> QED BY <4>1, <4>2, <4>3
    <3> QED BY <3>1, <3>2
  <2>6. Filling(h, sizes, k)
    <3>1. h = [i \in 0 .. k |-> h[i]]
      BY <2>4
    <3> HIDE DEF h
    <3> QED BY <2>5, <3>1 DEF Filling
  <2> QED BY <2>4, <2>6
<1>3. T = {}
  <2> SUFFICES ASSUME T # {} PROVE FALSE
    OBVIOUS
  <2> HIDE DEF Has
  <2>1. T \subseteq Nat
    BY <1>0
  <2>2. PICK k \in T : \A y \in T : ~(y < k)
    BY <2>1, LeastNat
  <2>3. k # 0
    BY <1>1
  <2>4. k \in 1 .. Len(sizes) /\ k - 1 \in 0 .. Len(sizes) /\ k - 1 < k
    BY <1>0, <2>3
  <2>5. Has(k - 1)
    BY <2>2, <2>4
  <2>6. Has(k)
    BY <1>2, <2>4, <2>5
  <2> QED BY <2>6
<1> HIDE DEF Has
<1>4. Has(n)
  BY <1>3
<1> QED BY <1>4 DEF Has

(* What Ends says of every list of sizes. *)
LEMMA EndsFill ==
  ASSUME NEW sizes \in Seq(Nat)
  PROVE  Filling(Ends(sizes), sizes, Len(sizes))
<1> DEFINE P(f) == f = [i \in 0 .. Len(sizes) |-> IF i = 0 THEN 0 ELSE f[i - 1] + MemberLength(sizes[i])]
<1>0. Len(sizes) \in 0 .. Len(sizes)
  BY LenProperties
<1>1. PICK g : P(g)
  BY <1>0, FillingExists DEF Filling
<1>2. Ends(sizes) = CHOOSE f : P(f)
  BY Zenon DEF Ends
<1>3. P(CHOOSE f : P(f))
  <2> HIDE DEF P
  <2> QED BY <1>1, Zenon
<1> QED BY <1>2, <1>3, Zenon DEF Filling

(* The ends grow by a member's length each, so no two are the same. *)
LEMMA EndsGrow ==
  ASSUME NEW sizes \in Seq(Nat)
  PROVE  /\ Ends(sizes)[0] = 0
         /\ \A i \in 0 .. Len(sizes) : Ends(sizes)[i] \in Nat
         /\ \A i \in 1 .. Len(sizes) :
               Ends(sizes)[i] = Ends(sizes)[i - 1] + MemberLength(sizes[i])
         /\ \A i \in 0 .. Len(sizes) : \A j \in 0 .. Len(sizes) :
               i < j => Ends(sizes)[i] < Ends(sizes)[j]
<1> DEFINE e == Ends(sizes)
<1>0. Len(sizes) \in Nat
  BY LenProperties
<1>1. \A i \in 0 .. Len(sizes) : e[i] = IF i = 0 THEN 0 ELSE e[i - 1] + MemberLength(sizes[i])
  BY EndsFill, Zenon DEF Filling
<1>2. \A i \in 1 .. Len(sizes) : MemberLength(sizes[i]) \in Nat /\ MemberLength(sizes[i]) >= BLOCK
  BY ElementOfSeq, MemberLengths
<1> HIDE DEF e
<1>3. e[0] = 0
  BY <1>0, <1>1
<1>4. \A i \in 1 .. Len(sizes) : e[i] = e[i - 1] + MemberLength(sizes[i])
  BY <1>0, <1>1
<1>5. \A i \in 0 .. Len(sizes) : e[i] \in Nat
  <2> DEFINE T == {i \in 0 .. Len(sizes) : e[i] \notin Nat}
  <2> SUFFICES ASSUME T # {} PROVE FALSE
    OBVIOUS
  <2>1. PICK k \in T : \A y \in T : ~(y < k)
    <3>1. T \subseteq Nat
      BY <1>0
    <3> QED BY <3>1, LeastNat
  <2>2. k # 0
    BY <1>3
  <2>3. k \in 1 .. Len(sizes) /\ k - 1 \in 0 .. Len(sizes) /\ k - 1 < k
    BY <1>0, <2>2
  <2>4. e[k - 1] \in Nat
    BY <2>1, <2>3
  <2>5. e[k] \in Nat
    BY <1>2, <1>4, <2>3, <2>4
  <2> QED BY <2>5
<1>6. ASSUME NEW i \in 0 .. Len(sizes), NEW j \in 0 .. Len(sizes), i < j PROVE e[i] < e[j]
  <2> DEFINE T == {k \in i + 1 .. Len(sizes) : ~(e[i] < e[k])}
  <2> SUFFICES ASSUME T # {} PROVE FALSE
    BY <1>0, <1>6
  <2>1. PICK k \in T : \A y \in T : ~(y < k)
    <3>1. T \subseteq Nat
      BY <1>0
    <3> QED BY <3>1, LeastNat
  <2>2. k \in 1 .. Len(sizes) /\ k - 1 \in 0 .. Len(sizes) /\ k - 1 < k
    BY <1>0
  <2>3. e[k - 1] < e[k]
    <3>1. MemberLength(sizes[k]) \in Nat /\ MemberLength(sizes[k]) >= BLOCK /\ BLOCK >= 1
      BY <1>2, <2>2
    <3>2. e[k] = e[k - 1] + MemberLength(sizes[k]) /\ e[k - 1] \in Nat
      BY <1>4, <1>5, <2>2
    <3> QED BY <3>1, <3>2
  <2>4. CASE k = i + 1
    BY <2>3, <2>4
  <2>5. CASE k # i + 1
    <3>1. k - 1 \in i + 1 .. Len(sizes)
      BY <1>0, <2>5
    <3>2. e[i] < e[k - 1]
      BY <2>1, <2>2, <3>1
    <3>3. e[i] \in Nat /\ e[k - 1] \in Nat /\ e[k] \in Nat
      BY <1>0, <1>5, <2>2
    <3>4. e[i] < e[k]
      BY <2>3, <3>2, <3>3
    <3> QED BY <3>4
  <2> QED BY <2>4, <2>5
<1> QED BY <1>3, <1>4, <1>5, <1>6 DEF e

-----------------------------------------------------------------------------
(* The walk over the headers. *)

Found(tar, p) == tar.headers[CHOOSE i \in HeaderAt(tar, p) : TRUE]
Stops(tar, p) == p + BLOCK > tar.length \/ (p < tar.end /\ HeaderAt(tar, p) = {})
Step(w, tar, p) ==
  IF Stops(tar, p) THEN <<>>
  ELSE IF p >= tar.end THEN <<<<>>, p>>
  ELSE LET rest == w[p + StepOver(Found(tar, p).size)]
       IN  IF rest = <<>> THEN <<>> ELSE <<<<Found(tar, p)>> \o rest[1], rest[2]>>

LEMMA TarParts ==
  ASSUME NEW tar, IsTar(tar)
  PROVE  /\ tar.headers \in Seq(Header) /\ Len(tar.headers) \in Nat
         /\ DOMAIN tar.headers = 1 .. Len(tar.headers)
         /\ \A i \in DOMAIN tar.headers : tar.headers[i] \in Header
         /\ SizesOf(tar) \in Seq(Nat) /\ Len(SizesOf(tar)) = Len(tar.headers)
         /\ \A i \in DOMAIN tar.headers : SizesOf(tar)[i] = tar.headers[i].size
         /\ tar.end \in Nat /\ tar.length \in Nat
<1>1. tar.headers \in Seq(Header) /\ tar.length \in Nat
  BY DEF IsTar
<1> DEFINE n == Len(tar.headers)
<1>2. n \in Nat /\ DOMAIN tar.headers = 1 .. n
  BY <1>1, LenProperties
<1>3. \A i \in 1 .. n : tar.headers[i] \in Header
  BY <1>1, ElementOfSeq
<1>4. \A i \in 1 .. n : tar.headers[i].size \in Nat
  BY <1>3 DEF Header
<1>5. SizesOf(tar) = [i \in 1 .. n |-> tar.headers[i].size]
  BY <1>2 DEF SizesOf
<1> HIDE DEF n
<1>6. SizesOf(tar) \in [1 .. n -> Nat]
  BY <1>4, <1>5
<1>7. SizesOf(tar) \in Seq(Nat) /\ Len(SizesOf(tar)) = n
  BY <1>2, <1>6
<1>8. tar.end \in Nat
  <2>1. n \in 0 .. Len(SizesOf(tar))
    BY <1>2, <1>7
  <2>2. Ends(SizesOf(tar))[n] \in Nat
    BY <1>7, <2>1, EndsGrow
  <2> QED BY <2>2 DEF IsTar, n
<1> QED BY <1>1, <1>2, <1>3, <1>5, <1>7, <1>8 DEF n

(* Where it finds a header it moves on, and what it makes of a position    *)
(* depends on where that takes it and on nothing else.                     *)
LEMMA StepsForward ==
  ASSUME NEW tar, IsTar(tar), NEW p \in Nat, ~Stops(tar, p), p < tar.end
  PROVE  StepOver(Found(tar, p).size) \in Nat /\ StepOver(Found(tar, p).size) >= BLOCK
<1>1. HeaderAt(tar, p) # {}
  BY DEF Stops
<1>2. PICK i \in DOMAIN tar.headers : Found(tar, p) = tar.headers[i]
  BY <1>1 DEF Found, HeaderAt
<1>3. Found(tar, p).size \in Nat
  BY <1>2, TarParts DEF Header
<1> QED BY <1>3, MemberLengths

LEMMA StepLooksAhead ==
  ASSUME NEW tar, IsTar(tar), NEW p \in Nat, NEW w, NEW v,
         ~Stops(tar, p) /\ p < tar.end =>
            w[p + StepOver(Found(tar, p).size)] = v[p + StepOver(Found(tar, p).size)]
  PROVE  Step(w, tar, p) = Step(v, tar, p)
<1>1. CASE Stops(tar, p)
  BY <1>1 DEF Step
<1>2. CASE ~Stops(tar, p) /\ p < tar.end
  BY <1>2, Zenon DEF Step
<1>3. CASE ~(p < tar.end)
  <2>1. p >= tar.end
    BY <1>3, TarParts
  <2> QED BY <2>1, Zenon DEF Step
<1> QED BY <1>1, <1>2, <1>3

(* Every position is ahead of one from which the walk has come to its end. *)
LEMMA WalkExists ==
  ASSUME NEW tar, IsTar(tar)
  PROVE  \E w : w = [p \in Nat |-> Step(w, tar, p)]
<1> DEFINE L == tar.length
           Has(m) == \E w : /\ w = [p \in Nat |-> w[p]]
                            /\ \A p \in Nat : p + m >= L => w[p] = Step(w, tar, p)
           T == {m \in Nat : ~Has(m)}
<1>0. L \in Nat
  BY TarParts
<1>1. Has(0)
  <2> DEFINE w == [p \in Nat |-> <<>>]
  <2>1. ASSUME NEW p \in Nat, p + 0 >= L PROVE w[p] = Step(w, tar, p)
    <3>1. p + BLOCK > tar.length
      BY <1>0, <2>1
    <3> QED BY <3>1 DEF Step, Stops
  <2>2. w = [p \in Nat |-> w[p]]
    OBVIOUS
  <2> HIDE DEF w
  <2> QED BY <2>1, <2>2
<1> HIDE DEF L
<1>2. ASSUME NEW m \in Nat, Has(m) PROVE Has(m + 1)
  <2>1. PICK w : /\ w = [p \in Nat |-> w[p]]
                 /\ \A p \in Nat : p + m >= L => w[p] = Step(w, tar, p)
    BY <1>2
  <2> DEFINE v == [p \in Nat |-> IF p + m + 1 = L THEN Step(w, tar, p) ELSE w[p]]
  <2>2. ASSUME NEW p \in Nat, p + (m + 1) >= L PROVE v[p] = Step(v, tar, p)
    <3>1. v[p] = Step(w, tar, p)
      <4>1. CASE p + m + 1 = L
        BY <4>1
      <4>2. CASE p + m + 1 # L
        <5>1. p + m >= L
          BY <1>0, <2>2, <4>2
        <5> QED BY <2>1, <4>2, <5>1
      <4> QED BY <4>1, <4>2
    <3>2. ASSUME ~Stops(tar, p), p < tar.end
          PROVE  w[p + StepOver(Found(tar, p).size)] = v[p + StepOver(Found(tar, p).size)]
      <4> DEFINE q == p + StepOver(Found(tar, p).size)
      <4>1. StepOver(Found(tar, p).size) \in Nat /\ StepOver(Found(tar, p).size) >= BLOCK
        BY <3>2, StepsForward
      <4>2. q \in Nat /\ q >= p + 1
        BY <4>1
      <4> HIDE DEF q
      <4>3. q + m + 1 # L
        BY <1>0, <2>2, <4>2
      <4>4. v[q] = w[q]
        BY <4>2, <4>3
      <4> QED BY <4>4 DEF q
    <3> HIDE DEF v
    <3>3. Step(w, tar, p) = Step(v, tar, p)
      BY <3>2, StepLooksAhead
    <3> QED BY <3>1, <3>3
  <2>3. v = [p \in Nat |-> v[p]]
    OBVIOUS
  <2> HIDE DEF v
  <2> QED BY <2>2, <2>3
<1>3. T = {}
  <2> SUFFICES ASSUME T # {} PROVE FALSE
    OBVIOUS
  <2> HIDE DEF Has
  <2>1. PICK k \in T : \A y \in T : ~(y < k)
    BY LeastNat
  <2>2. k # 0
    BY <1>1
  <2>3. k - 1 \in Nat /\ k - 1 < k /\ k - 1 + 1 = k
    BY <2>2
  <2>4. Has(k - 1)
    BY <2>1, <2>3
  <2>5. Has(k - 1 + 1)
    BY <1>2, <2>3, <2>4
  <2> QED BY <2>3, <2>5
<1>4. Has(L)
  <2> HIDE DEF Has
  <2> QED BY <1>0, <1>3
<1>5. PICK w : /\ w = [p \in Nat |-> w[p]]
               /\ \A p \in Nat : p + L >= L => w[p] = Step(w, tar, p)
  BY <1>4
<1>6. \A p \in Nat : w[p] = Step(w, tar, p)
  BY <1>0, <1>5
<1>7. w = [p \in Nat |-> Step(w, tar, p)]
  BY <1>5, <1>6
<1> QED BY <1>7

LEMMA HeadersWalk ==
  ASSUME NEW tar, IsTar(tar)
  PROVE  \E w : /\ \A p \in Nat : w[p] = Step(w, tar, p)
                /\ Headers(tar) = w[0]
<1> DEFINE P(f) == f = [p \in Nat |->
        IF p + BLOCK > tar.length \/ (p < tar.end /\ HeaderAt(tar, p) = {}) THEN <<>>
        ELSE IF p >= tar.end THEN <<<<>>, p>>
        ELSE LET h == tar.headers[CHOOSE i \in HeaderAt(tar, p) : TRUE]
                 rest == f[p + StepOver(h.size)]
             IN  IF rest = <<>> THEN <<>> ELSE <<<<h>> \o rest[1], rest[2]>>]
           w == CHOOSE f : P(f)
<1>1. PICK g : g = [p \in Nat |-> Step(g, tar, p)]
  BY WalkExists
<1>2. P(g)
  BY <1>1, Zenon DEF Step, Stops, Found
<1>3. Headers(tar) = w[0]
  BY Zenon DEF Headers
<1>4. P(w)
  <2> HIDE DEF P
  <2> QED BY <1>2, Zenon
<1>5. \A p \in Nat : w[p] = Step(w, tar, p)
  <2>1. ASSUME NEW f, P(f), NEW p \in Nat PROVE f[p] = Step(f, tar, p)
    BY <2>1, Zenon DEF Step, Stops, Found
  <2> HIDE DEF P, w
  <2> QED BY <1>4, <2>1
<1> QED BY <1>3, <1>5

(* Where a header is, it is the one there. *)
LEMMA HeaderThere ==
  ASSUME NEW tar, IsTar(tar), NEW i \in 1 .. Len(tar.headers)
  PROVE  LET p == Ends(SizesOf(tar))[i - 1] IN
         /\ HeaderAt(tar, p) = {i} /\ p \in Nat /\ p < tar.end
         /\ Found(tar, p) = tar.headers[i]
         /\ p + StepOver(tar.headers[i].size) = Ends(SizesOf(tar))[i]
<1> DEFINE n == Len(tar.headers)
           sizes == SizesOf(tar)
           e == Ends(SizesOf(tar))
<1>0. n \in Nat /\ i \in 1 .. n /\ i - 1 \in 0 .. n /\ i \in 0 .. n /\ i - 1 < i /\ n \in 0 .. n
  BY TarParts
<1>1. sizes \in Seq(Nat) /\ Len(sizes) = n /\ sizes[i] = tar.headers[i].size /\ sizes[i] \in Nat
  <2>1. sizes \in Seq(Nat) /\ Len(sizes) = n /\ sizes[i] = tar.headers[i].size
    BY <1>0, TarParts
  <2> QED BY <1>0, <2>1, ElementOfSeq
<1>2. DOMAIN tar.headers = 1 .. n /\ \A k \in 1 .. n : tar.headers[k].offset = e[k - 1]
  BY TarParts DEF IsTar
<1>3. tar.end = e[n]
  BY DEF IsTar
<1>4. /\ \A k \in 0 .. n : e[k] \in Nat
      /\ e[i] = e[i - 1] + MemberLength(sizes[i])
      /\ \A k \in 0 .. n : \A j \in 0 .. n : k < j => e[k] < e[j]
  BY <1>0, <1>1, EndsGrow
<1>5. StepOver(sizes[i]) = MemberLength(sizes[i])
  BY <1>1, MemberLengths
<1> HIDE DEF n, e, sizes
<1>6. e[i - 1] < e[n]
  BY <1>0, <1>4
<1>7. ASSUME NEW k \in 1 .. n, k # i PROVE e[k - 1] # e[i - 1]
  <2>1. k - 1 \in 0 .. n /\ (k - 1 < i - 1 \/ i - 1 < k - 1)
    BY <1>0, <1>7
  <2>2. e[k - 1] < e[i - 1] \/ e[i - 1] < e[k - 1]
    BY <1>0, <1>4, <2>1
  <2>3. e[k - 1] \in Nat /\ e[i - 1] \in Nat
    BY <1>0, <1>4, <2>1
  <2> QED BY <2>2, <2>3
<1>8. HeaderAt(tar, e[i - 1]) = {i}
  BY <1>0, <1>2, <1>7 DEF HeaderAt
<1>9. Found(tar, e[i - 1]) = tar.headers[i]
  BY <1>8 DEF Found
<1> QED BY <1>0, <1>1, <1>3, <1>4, <1>5, <1>6, <1>8, <1>9 DEF e, n

(* What is left of the headers behind the first i. *)
Rest(tar, i) == SubSeq(tar.headers, i + 1, Len(tar.headers))

LEMMA RestOf ==
  ASSUME NEW tar, IsTar(tar), NEW i \in 0 .. Len(tar.headers)
  PROVE  /\ i = Len(tar.headers) => Rest(tar, i) = <<>>
         /\ i = 0 => Rest(tar, i) = tar.headers
         /\ i > 0 => Rest(tar, i - 1) = <<tar.headers[i]>> \o Rest(tar, i)
<1> DEFINE h == tar.headers
           n == Len(tar.headers)
<1>0. h \in Seq(Header) /\ n \in Nat /\ n = Len(h) /\ DOMAIN h = 1 .. n
  BY TarParts
<1> HIDE DEF h, n
<1>1. ASSUME NEW k \in 0 .. n
      PROVE  /\ SubSeq(h, k + 1, n) \in Seq(Header)
             /\ Len(SubSeq(h, k + 1, n)) = n - k
             /\ \A j \in 1 .. n - k : SubSeq(h, k + 1, n)[j] = h[k + j]
  <2>1. \A j \in k + 1 .. n : h[j] \in Header
    BY <1>0, ElementOfSeq
  <2>2. k + 1 \in Int /\ n \in Int
    BY <1>0
  <2>3. /\ SubSeq(h, k + 1, n) \in Seq(Header)
        /\ Len(SubSeq(h, k + 1, n)) = IF k + 1 <= n THEN n - (k + 1) + 1 ELSE 0
        /\ \A j \in 1 .. (n - (k + 1) + 1) : SubSeq(h, k + 1, n)[j] = h[k + 1 + j - 1]
    BY <2>1, <2>2, SubSeqProperties
  <2>4. n - (k + 1) + 1 = n - k /\ (k + 1 <= n \/ n - k = 0)
    BY <1>0
  <2>5. \A j \in 1 .. n - k : k + 1 + j - 1 = k + j
    BY <1>0
  <2> QED BY <2>3, <2>4, <2>5
<1>2. i = n => SubSeq(h, i + 1, n) = <<>>
  BY <1>0, SubSeqEmpty
<1>3. i = 0 => SubSeq(h, i + 1, n) = h
  <2> SUFFICES ASSUME i = 0 PROVE SubSeq(h, 0 + 1, n) = h
    OBVIOUS
  <2>1. 0 \in 0 .. n /\ n - 0 = n /\ \A j \in 1 .. n : 0 + j = j
    BY <1>0
  <2>2. /\ SubSeq(h, 0 + 1, n) \in Seq(Header)
        /\ Len(SubSeq(h, 0 + 1, n)) = n
        /\ \A j \in 1 .. n : SubSeq(h, 0 + 1, n)[j] = h[j]
    BY <1>1, <2>1
  <2> HIDE DEF h
  <2> QED BY <1>0, <2>2, SeqEqual
<1>4. ASSUME i > 0 PROVE SubSeq(h, i - 1 + 1, n) = <<h[i]>> \o SubSeq(h, i + 1, n)
  <2> DEFINE a == SubSeq(h, i - 1 + 1, n)
             b == SubSeq(h, i + 1, n)
             c == <<h[i]>> \o b
  <2>0. i \in 1 .. n /\ i \in 0 .. n /\ i - 1 \in 0 .. n /\ n - (i - 1) = 1 + (n - i) /\ n - i \in Nat
    BY <1>0, <1>4 DEF n
  <2>1. /\ a \in Seq(Header) /\ Len(a) = 1 + (n - i)
        /\ \A j \in 1 .. 1 + (n - i) : a[j] = h[i - 1 + j]
    BY <1>1, <2>0
  <2>2. /\ b \in Seq(Header) /\ Len(b) = n - i
        /\ \A j \in 1 .. n - i : b[j] = h[i + j]
    BY <1>1, <2>0
  <2>3. <<h[i]>> \in Seq(Header) /\ Len(<<h[i]>>) = 1
    BY <1>0, <2>0, ElementOfSeq
  <2> HIDE DEF a, b
  <2>4. /\ c \in Seq(Header) /\ Len(c) = 1 + (n - i)
        /\ \A j \in 1 .. 1 + (n - i) : c[j] = IF j <= 1 THEN <<h[i]>>[j] ELSE b[j - 1]
    BY <2>2, <2>3, ConcatProperties
  <2>5. ASSUME NEW j \in 1 .. 1 + (n - i) PROVE a[j] = c[j]
    <3>1. CASE j = 1
      <4>1. c[j] = h[i] /\ a[j] = h[i - 1 + j] /\ i - 1 + j = i
        BY <2>0, <2>1, <2>4, <3>1
      <4> QED BY <4>1
    <3>2. CASE j # 1
      <4>1. ~(j <= 1) /\ j - 1 \in 1 .. n - i /\ i + (j - 1) = i - 1 + j
        BY <2>0, <3>2
      <4>2. c[j] = b[j - 1] /\ b[j - 1] = h[i + (j - 1)] /\ a[j] = h[i - 1 + j]
        BY <2>1, <2>2, <2>4, <4>1
      <4> QED BY <4>1, <4>2
    <3> QED BY <3>1, <3>2
  <2> HIDE DEF c
  <2>6. a = c
    BY <2>1, <2>4, <2>5, SeqEqual
  <2> QED BY <2>6 DEF a, b, c
<1> QED BY <1>2, <1>3, <1>4 DEF Rest, h, n

(* The walk never loses its way: it finds every header there is, in order, *)
(* and the end of the archive, unless that is cut off.                     *)
Walked(tar, i) ==
  IF tar.length < tar.end + BLOCK THEN <<>> ELSE <<Rest(tar, i), tar.end>>

LEMMA WalkFinds ==
  ASSUME NEW tar, IsTar(tar), NEW w, \A p \in Nat : w[p] = Step(w, tar, p),
         NEW i \in 0 .. Len(tar.headers)
  PROVE  w[Ends(SizesOf(tar))[i]] = Walked(tar, i)
<1> DEFINE n == Len(tar.headers)
           e == Ends(SizesOf(tar))
           Good(k) == w[e[k]] = Walked(tar, k)
           T == {m \in 0 .. n : ~Good(n - m)}
<1>0. /\ n \in Nat /\ tar.length \in Nat /\ tar.end \in Nat
      /\ \A k \in 0 .. n : e[k] \in Nat
      /\ tar.end = e[n]
  <2>1. SizesOf(tar) \in Seq(Nat) /\ Len(SizesOf(tar)) = n
    BY TarParts
  <2> QED BY <2>1, TarParts, EndsGrow DEF IsTar
<1>1. Good(n)
  <2>1. w[e[n]] = Step(w, tar, tar.end)
    BY <1>0
  <2>2. Rest(tar, n) = <<>>
    <3>1. n \in 0 .. Len(tar.headers) /\ n = Len(tar.headers)
      BY <1>0
    <3> HIDE DEF n
    <3> QED BY <3>1, RestOf
  <2>3. Stops(tar, tar.end) <=> tar.length < tar.end + BLOCK
    BY <1>0 DEF Stops
  <2>4. tar.end >= tar.end
    BY <1>0
  <2> QED BY <2>1, <2>2, <2>3, <2>4, Zenon DEF Step, Walked
<1>2. ASSUME NEW k \in 1 .. n, Good(k) PROVE Good(k - 1)
  <2> DEFINE p == e[k - 1]
             rest == Walked(tar, k)
  <2>0. k \in 0 .. n /\ k - 1 \in 0 .. n /\ k > 0
    BY <1>0
  <2>1. /\ HeaderAt(tar, p) = {k} /\ p \in Nat /\ p < tar.end
        /\ Found(tar, p) = tar.headers[k]
        /\ p + StepOver(tar.headers[k].size) = e[k]
    BY HeaderThere
  <2>2. w[p] = Step(w, tar, p)
    BY <2>1
  <2>3. w[p + StepOver(Found(tar, p).size)] = rest
    BY <1>2, <2>1
  <2>4. Rest(tar, k - 1) = <<tar.headers[k]>> \o Rest(tar, k)
    BY <2>0, RestOf
  <2>5. Stops(tar, p) <=> p + BLOCK > tar.length
    BY <2>1 DEF Stops
  <2>6. ~(p >= tar.end)
    BY <1>0, <2>1
  <2> HIDE DEF p, e
  <2>7. CASE Stops(tar, p)
    <3>1. tar.length < tar.end + BLOCK
      BY <1>0, <2>1, <2>5, <2>7
    <3> QED BY <2>2, <2>7, <3>1, Zenon DEF Step, Walked, p
  <2>8. CASE ~Stops(tar, p)
    <3>1. Step(w, tar, p) = IF rest = <<>> THEN <<>> ELSE <<<<tar.headers[k]>> \o rest[1], rest[2]>>
      <4> HIDE DEF rest
      <4> QED BY <2>1, <2>3, <2>6, <2>8, Zenon DEF Step
    <3>2. CASE tar.length < tar.end + BLOCK
      <4>1. rest = <<>> /\ Walked(tar, k - 1) = <<>>
        BY <3>2 DEF Walked
      <4> QED BY <2>2, <3>1, <4>1, Zenon DEF p
    <3>3. CASE ~(tar.length < tar.end + BLOCK)
      <4>1. rest = <<Rest(tar, k), tar.end>> /\ Walked(tar, k - 1) = <<Rest(tar, k - 1), tar.end>>
        BY <3>3 DEF Walked
      <4>2. rest # <<>> /\ rest[1] = Rest(tar, k) /\ rest[2] = tar.end
        BY <4>1
      <4> HIDE DEF rest
      <4>3. Step(w, tar, p) = <<Rest(tar, k - 1), tar.end>>
        BY <2>4, <3>1, <4>2, Zenon
      <4> QED BY <2>2, <4>1, <4>3, Zenon DEF p
    <3> QED BY <3>2, <3>3
  <2> QED BY <2>7, <2>8
<1> HIDE DEF Good
<1>3. T = {}
  <2> SUFFICES ASSUME T # {} PROVE FALSE
    OBVIOUS
  <2>1. PICK m \in T : \A y \in T : ~(y < m)
    <3>1. T \subseteq Nat
      BY <1>0
    <3> QED BY <3>1, LeastNat
  <2>2. m # 0
    <3>1. n - 0 = n
      BY <1>0
    <3> QED BY <1>1, <3>1
  <2>3. m - 1 \in 0 .. n /\ m - 1 < m /\ n - (m - 1) \in 1 .. n /\ n - (m - 1) - 1 = n - m
    BY <1>0, <2>2
  <2>4. Good(n - (m - 1))
    BY <2>1, <2>3
  <2>5. Good(n - (m - 1) - 1)
    BY <1>2, <2>3, <2>4
  <2> QED BY <2>3, <2>5
<1>4. n - i \in 0 .. n /\ n - (n - i) = i
  BY <1>0
<1>5. Good(i)
  BY <1>3, <1>4
<1> QED BY <1>5 DEF Good

LEMMA HeadersFound ==
  ASSUME NEW tar, IsTar(tar)
  PROVE  Headers(tar) = IF tar.length < tar.end + BLOCK THEN <<>>
                        ELSE <<tar.headers, tar.end>>
<1>1. PICK w : (\A p \in Nat : w[p] = Step(w, tar, p)) /\ Headers(tar) = w[0]
  BY HeadersWalk
<1>2. 0 \in 0 .. Len(tar.headers) /\ SizesOf(tar) \in Seq(Nat)
  BY TarParts
<1>3. w[Ends(SizesOf(tar))[0]] = Walked(tar, 0)
  BY <1>1, <1>2, WalkFinds
<1>4. Ends(SizesOf(tar))[0] = 0
  BY <1>2, EndsGrow
<1>5. Rest(tar, 0) = tar.headers
  BY <1>2, RestOf
<1> QED BY <1>1, <1>3, <1>4, <1>5 DEF Walked

-----------------------------------------------------------------------------
(* The comparison. *)

USE InputAssumption

(* Our own tar is one, as long as its closing blocks need, with the      *)
(* members in S-Boot's order.                                            *)
LEMMA OurTarParts ==
  ASSUME images \in ImageDirs
  PROVE  /\ IsTar(OurTar)
         /\ OurTar.length \in Nat /\ OurTar.end \in Nat
         /\ OurTar.length >= OurTar.end + 2 * BLOCK
         /\ DOMAIN OurTar.headers = 1 .. Len(MEMBERS)
         /\ Len(OurTar.headers) = Len(MEMBERS)
         /\ \A i \in 1 .. Len(MEMBERS) : /\ OurTar.headers[i].name = MEMBERS[i]
                                         /\ OurTar.headers[i].other = "stock"
<1> DEFINE n == Len(MEMBERS)
           s == images.sizes
           e == Ends(s)
           h == [i \in 1 .. n |-> [name |-> MEMBERS[i], offset |-> e[i - 1], size |-> s[i],
                                   other |-> "stock"]]
<1>1. n \in Nat /\ s \in [1 .. n -> Nat]
  BY LenProperties
<1>2. s \in Seq(Nat) /\ Len(s) = n /\ DOMAIN s = 1 .. n
  <2> HIDE DEF n, s
  <2> QED BY <1>1
<1>3. \A i \in 1 .. n : MEMBERS[i] \in STRING
  BY ElementOfSeq
<1>4. \A i \in 0 .. n : e[i] \in Nat
  BY <1>2, EndsGrow
<1>5. OurTar = [headers |-> h, end |-> e[n], length |-> Closed(e[n]), tail |-> "zeros"]
  <2>1. Tar(MEMBERS, s) = [headers |-> [i \in DOMAIN s |->
                  [name |-> MEMBERS[i], offset |-> e[i - 1], size |-> s[i], other |-> "stock"]],
                 end |-> e[Len(s)], length |-> Closed(e[Len(s)]), tail |-> "zeros"]
    BY Zenon DEF Tar
  <2> HIDE DEF e, n
  <2> QED BY <1>2, <2>1 DEF OurTar
<1> HIDE DEF n, s, e
<1>6. e[n] \in Nat /\ Closed(e[n]) \in Nat /\ Closed(e[n]) >= e[n] + 2 * BLOCK
  <2>1. e[n] \in Nat
    BY <1>1, <1>4
  <2>2. e[n] + 2 * BLOCK \in Nat
    BY <2>1
  <2>3. Padding(e[n] + 2 * BLOCK, RECORD) \in Nat
    <3> DEFINE x == e[n] + 2 * BLOCK
    <3> HIDE DEF x
    <3>1. Padding(x, RECORD) \in 0 .. RECORD - 1
      BY <2>2, PaddingBounds DEF x
    <3>2. 0 .. RECORD - 1 \subseteq Nat
      OBVIOUS
    <3> QED BY <3>1, <3>2 DEF x
  <2>4. Closed(e[n]) = e[n] + 2 * BLOCK + Padding(e[n] + 2 * BLOCK, RECORD)
    BY DEF Closed
  <2> HIDE DEF Closed, Padding
  <2> QED BY <2>1, <2>2, <2>3, <2>4
<1>7. \A i \in 1 .. n : h[i] \in Header
  <2> TAKE i \in 1 .. n
  <2>1. MEMBERS[i] \in STRING /\ i - 1 \in 0 .. n /\ s[i] \in Nat
    BY <1>1, <1>3
  <2>2. e[i - 1] \in Nat
    BY <1>4, <2>1
  <2>3. h[i] = [name |-> MEMBERS[i], offset |-> e[i - 1], size |-> s[i], other |-> "stock"]
    OBVIOUS
  <2> QED BY <2>1, <2>2, <2>3 DEF Header
<1>8. /\ h \in Seq(Header)
      /\ DOMAIN h = 1 .. n /\ Len(h) = n
  <2>1. h \in [1 .. n -> Header]
    BY <1>7
  <2> HIDE DEF h
  <2> QED BY <1>1, <2>1
<1>9. SizesOf(OurTar) = s
  <2>1. \A i \in 1 .. n : h[i].size = s[i]
    OBVIOUS
  <2>2. OurTar.headers = h
    BY <1>5
  <2> HIDE DEF h
  <2>3. SizesOf(OurTar) = [i \in 1 .. n |-> s[i]]
    BY <1>8, <2>1, <2>2 DEF SizesOf
  <2> QED BY <1>1, <2>3
<1>10. \A i \in 1 .. n : /\ h[i].name = MEMBERS[i] /\ h[i].other = "stock"
                         /\ h[i].offset = e[i - 1]
  OBVIOUS
<1> HIDE DEF h
<1>11. OurTar.headers = h /\ OurTar.end = e[n] /\ OurTar.length = Closed(e[n])
  BY <1>5
<1>12. IsTar(OurTar)
  BY <1>6, <1>8, <1>9, <1>10, <1>11 DEF IsTar, e
<1> QED BY <1>6, <1>8, <1>10, <1>11, <1>12 DEF n

LEMMA MatchesExactly ==
  ASSUME images \in ImageDirs, NEW ref \in References
  PROVE  Matches(OurTar, ref) <=> SameMembers(ref) /\ EndsInZeros(ref)
<1> DEFINE n == Len(MEMBERS)
           h == ref.headers
           k == Len(ref.headers)
<1>0. n \in Nat /\ MEMBERS \in [1 .. n -> STRING]
  BY LenProperties
<1>1. /\ IsTar(OurTar) /\ OurTar.length \in Nat /\ OurTar.end \in Nat
      /\ OurTar.length >= OurTar.end + 2 * BLOCK
      /\ DOMAIN OurTar.headers = 1 .. n /\ Len(OurTar.headers) = n
      /\ \A i \in 1 .. n : /\ OurTar.headers[i].name = MEMBERS[i]
                           /\ OurTar.headers[i].other = "stock"
  BY OurTarParts
<1>2. IsTar(ref)
  OBVIOUS
<1>3. k \in Nat /\ DOMAIN h = 1 .. k /\ ref.length \in Nat /\ ref.end \in Nat
  BY <1>2, TarParts
<1>4. Headers(OurTar) = <<OurTar.headers, OurTar.end>>
  <2>1. ~(OurTar.length < OurTar.end + BLOCK)
    BY <1>1
  <2> QED BY <1>1, <2>1, HeadersFound
<1>5. Headers(ref) = IF ref.length < ref.end + BLOCK THEN <<>> ELSE <<h, ref.end>>
  BY <1>2, HeadersFound
<1> HIDE DEF n, h, k
<1>6. ASSUME ref.length < ref.end + BLOCK
      PROVE  ~Matches(OurTar, ref) /\ ~EndsInZeros(ref)
  BY <1>3, <1>5, <1>6 DEF Matches, EndsInZeros
<1>7. ASSUME ~(ref.length < ref.end + BLOCK)
      PROVE  Matches(OurTar, ref) <=> SameMembers(ref) /\ EndsInZeros(ref)
  <2>1. EndsInZeros(ref) <=> ref.tail = "zeros"
    BY <1>3, <1>7 DEF EndsInZeros
  <2>2. /\ Headers(OurTar) # <<>> /\ Headers(OurTar)[1] = OurTar.headers
        /\ Headers(ref) # <<>> /\ Headers(ref)[1] = h
    BY <1>4, <1>5, <1>7
  <2>3. Matches(OurTar, ref) <=>
          /\ n = k
          /\ \A i \in 1 .. n : MEMBERS[i] = h[i].name /\ "stock" = h[i].other
          /\ ref.tail = "zeros"
    <3>1. Matches(OurTar, ref) <=>
            /\ Len(OurTar.headers) = Len(h)
            /\ \A i \in DOMAIN OurTar.headers :
                 /\ OurTar.headers[i].name = h[i].name
                 /\ OurTar.headers[i].other = h[i].other
            /\ ref.tail = "zeros"
      BY <2>2, Zenon DEF Matches
    <3> QED BY <1>1, <3>1 DEF h, k
  <2>4. SameMembers(ref) <=>
          /\ n = k
          /\ \A i \in 1 .. n : MEMBERS[i] = h[i].name /\ "stock" = h[i].other
    <3>1. SameMembers(ref) <=> /\ [i \in 1 .. k |-> h[i].name] = MEMBERS
                               /\ \A i \in 1 .. k : h[i].other = "stock"
      BY <1>3, Zenon DEF SameMembers, h
    <3>2. ASSUME n = k, \A i \in 1 .. n : MEMBERS[i] = h[i].name
          PROVE  [i \in 1 .. k |-> h[i].name] = MEMBERS
      BY <1>0, <3>2
    <3>3. ASSUME [i \in 1 .. k |-> h[i].name] = MEMBERS
          PROVE  n = k /\ \A i \in 1 .. n : MEMBERS[i] = h[i].name
      <4>1. DOMAIN MEMBERS = 1 .. k /\ DOMAIN MEMBERS = 1 .. n
        BY <1>0, <3>3
      <4>2. n = k
        BY <1>0, <1>3, <4>1
      <4> QED BY <3>3, <4>2
    <3> QED BY <3>1, <3>2, <3>3
  <2> QED BY <2>1, <2>3, <2>4
<1> QED BY <1>6, <1>7

(* build() and compare_reference() raise nothing exactly when they should  *)
(* not.                                                                    *)
LEMMA AcceptsExactly ==
  ASSUME images \in ImageDirs, reference \in References \cup {None}
  PROVE  Builds /\ (reference = None \/ Matches(OurTar, reference)) <=> Acceptable
<1>1. CASE reference = None
  BY <1>1 DEF Builds, Acceptable
<1>2. CASE reference # None
  <2>1. Matches(OurTar, reference) <=> SameMembers(reference) /\ EndsInZeros(reference)
    BY <1>2, MatchesExactly
  <2> QED BY <1>2, <2>1 DEF Builds, Acceptable
<1> QED BY <1>1, <1>2

(* Every behaviour keeps what build() decided: until the next packer starts *)
(* nothing changes its arguments.                                           *)
THEOREM RefusesExactlyHolds == Spec => []RefusesExactly
<1>1. Init => RefusesExactly
  BY DEF Init, RefusesExactly
<1>2. TypeOK /\ RefusesExactly /\ [Next]_vars => RefusesExactly'
  <2> SUFFICES ASSUME TypeOK, RefusesExactly, [Next]_vars PROVE RefusesExactly'
    OBVIOUS
  <2>1. CASE Starts
    BY <2>1 DEF Starts, RefusesExactly
  <2>2. CASE Build
    <3>1. images \in ImageDirs /\ reference \in References \cup {None}
      BY DEF TypeOK
    <3>2. Acceptable' <=> Acceptable
      BY <2>2 DEF Build, Acceptable, DirComplete, OurTar
    <3>3. pc' = IF Acceptable THEN "open" ELSE "refused"
      BY <2>2, <3>1, AcceptsExactly DEF Build
    <3> QED BY <3>2, <3>3 DEF RefusesExactly
  <2>3. ASSUME Open \/ Write \/ Fsync \/ Replace
        PROVE  RefusesExactly'
    <3>1. Acceptable' <=> Acceptable
      BY <2>3 DEF Open, Write, Fsync, Replace, Acceptable, DirComplete, OurTar
    <3>2. /\ pc \in {"open", "write", "replace"}
          /\ pc' \in {"open", "write", "replace", "done"}
      BY <2>3 DEF Open, Write, Fsync, Replace
    <3> QED BY <3>1, <3>2 DEF RefusesExactly
  <2>4. CASE Fails \/ PowerLoss
    BY <2>4 DEF Fails, PowerLoss, RefusesExactly
  <2>5. CASE DirectoryReachesDisk \/ UNCHANGED vars
    <3>1. Acceptable' <=> Acceptable
      BY <2>5 DEF DirectoryReachesDisk, vars, Acceptable, DirComplete, OurTar
    <3>2. pc' = pc
      BY <2>5 DEF DirectoryReachesDisk, vars
    <3> QED BY <3>1, <3>2 DEF RefusesExactly
  <2> QED BY <2>1, <2>2, <2>3, <2>4, <2>5 DEF Next
<1> QED
  BY <1>1, <1>2, PackTypeCorrect, PTL DEF Spec

(* The packer refuses exactly what it should, for every size of every       *)
(* member and every reference, and the archive it writes is, closing blocks  *)
(* included, inside the partition.                                          *)
THEOREM BuildsExactlyHolds == Spec => []BuildsExactly
<1>1. TypeOK /\ RefusesExactly => BuildsExactly
  <2> SUFFICES ASSUME TypeOK, RefusesExactly, pc \in {"open", "write", "replace", "done"}
               PROVE  OurTar.end + 2 * BLOCK <= OurTar.length /\ OurTar.length <= PART_SIZE
    BY DEF BuildsExactly, ArchiveFits
  <2>1. OurTar.length <= PART_SIZE
    BY DEF RefusesExactly, Acceptable
  <2>2. /\ OurTar.length \in Nat /\ OurTar.end \in Nat
        /\ OurTar.length >= OurTar.end + 2 * BLOCK
    BY OurTarParts DEF TypeOK
  <2> QED BY <2>1, <2>2
<1> QED
  BY <1>1, PackTypeCorrect, RefusesExactlyHolds, PTL
=============================================================================
