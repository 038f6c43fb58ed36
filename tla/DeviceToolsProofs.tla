-------------------------- MODULE DeviceToolsProofs ---------------------------
(***************************************************************************)
(* Proofs of the invariants of DeviceTools, program by program.            *)
(*                                                                         *)
(* Probe: the engine lives because the probe's own reference is there from *)
(* the first call to the last; the walk keeps that what it has seen is     *)
(* exactly what lies before the camera and the surface it looks at, and    *)
(* that it has said nothing as long as all of that is stock.  Face: what   *)
(* was built agrees with the guards' table.  Panic: the property is one of *)
(* the two reasons that bootstat gave.  Frames: byte by byte what each     *)
(* frame is made of, read back by its own length and places.               *)
(* Abi: a number is read back as it was written, so the decoder is at the  *)
(* place in the bytes where the linker was, with the entries it had        *)
(* packed; of a table that is cut it runs off the end, of one that is      *)
(* padded it ends early.                                                   *)
(***************************************************************************)
EXTENDS DeviceTools, SequenceTheorems, WellFoundedInduction, FiniteSetTheorems, TLAPS

-----------------------------------------------------------------------------
(* The probe: the dump. *)

(* A set of naturals has a least element, and a bounded one a last. *)
LEMMA LeastNat ==
  ASSUME NEW T \in SUBSET Nat, T # {}
  PROVE  \E k \in T : \A y \in T : ~(y < k)
<1>1. PICK k \in T : \A y \in T : <<y, k>> \notin OpToRel(<, Nat)
  BY NatLessThanWellFounded, WFMin
<1> QED BY <1>1 DEF OpToRel

LEMMA LastOne ==
  ASSUME NEW n \in Nat, NEW S \in SUBSET (1 .. n), S # {}
  PROVE  \E m \in S : \A j \in S : j <= m
<1> DEFINE T == {k \in Nat : k <= n /\ n - k \in S}
<1>1. T \subseteq Nat
  OBVIOUS
<1>2. T # {}
  <2>1. PICK i \in S : TRUE
    OBVIOUS
  <2>2. i \in Nat /\ i <= n /\ n - i \in Nat /\ n - (n - i) = i
    OBVIOUS
  <2>3. n - i \in T
    BY <2>2
  <2> QED BY <2>3
<1> HIDE DEF T
<1>4. PICK k \in T : \A y \in T : ~(y < k)
  BY <1>1, <1>2, LeastNat
<1>5. n - k \in S /\ k \in Nat /\ k <= n
  BY DEF T
<1>6. ASSUME NEW j \in S PROVE j <= n - k
  <2>1. j \in Nat /\ j <= n /\ n - j \in Nat /\ n - (n - j) = j
    OBVIOUS
  <2>2. n - j \in T
    BY <2>1 DEF T
  <2>3. ~(n - j < k)
    BY <1>4, <2>2
  <2> QED BY <1>5, <2>1, <2>3
<1> QED BY <1>5, <1>6

(* The rows cover everything up to the last byte in use. *)
LEMMA InSomeRow ==
  ASSUME NEW u \in Nat, NEW i \in 1 .. u
  PROVE  \E o \in Offsets(u) : i \in RowFrom(o, u)
<1> DEFINE T == {k \in Nat : i <= k * Row + Row}
<1>1. i \in T
  <2>1. i \in Nat /\ Row \in Nat /\ Row >= 1
    BY SizesAssumption
  <2>2. i * Row >= i
    BY <2>1
  <2> QED BY <2>1, <2>2
<1>2. PICK k \in T : \A y \in T : ~(y < k)
  BY <1>1, LeastNat
<1>3. k \in Nat /\ i <= k * Row + Row /\ k <= i
  BY <1>1, <1>2
<1>4. k * Row \in Nat /\ k * Row < i
  <2>1. CASE k = 0
    BY <2>1, SizesAssumption
  <2>2. CASE k # 0
    <3>1. k - 1 \in Nat /\ k - 1 < k
      BY <1>3, <2>2
    <3>2. ~(i <= (k - 1) * Row + Row)
      BY <1>2, <3>1
    <3>3. (k - 1) * Row + Row = k * Row /\ k * Row \in Nat
      BY <1>3, SizesAssumption
    <3> QED BY <3>2, <3>3
  <2> QED BY <2>1, <2>2
<1>5. k * Row \in Offsets(u)
  BY <1>3, <1>4 DEF Offsets
<1>6. i \in RowFrom(k * Row, u)
  BY <1>3, <1>4 DEF RowFrom
<1> QED BY <1>5, <1>6

LEMMA UsedIsLast ==
  ASSUME NEW r \in Records, NEW i \in DOMAIN r, r[i] # 0
  PROVE  Used(r) \in DOMAIN r /\ i <= Used(r)
<1> DEFINE S == {j \in DOMAIN r : r[j] # 0}
<1>1. DOMAIN r = 1 .. RecordBytes /\ RecordBytes \in Nat
  BY SizesAssumption DEF Records
<1>2. PICK m \in S : \A j \in S : j <= m
  BY <1>1, LastOne
<1>3. /\ m \in DOMAIN r /\ r[m] # 0
      /\ \A j \in DOMAIN r : j > m => r[j] = 0
  BY <1>1, <1>2
<1> DEFINE P(k) == r[k] # 0 /\ \A j \in DOMAIN r : j > k => r[j] = 0
<1>4. Used(r) = CHOOSE k \in DOMAIN r : P(k)
  BY DEF Used
<1>5. (CHOOSE k \in DOMAIN r : P(k)) \in DOMAIN r /\ P(CHOOSE k \in DOMAIN r : P(k))
  BY <1>3
<1>6. Used(r) \in DOMAIN r /\ P(Used(r))
  BY <1>4, <1>5
<1>7. ~(i > Used(r))
  BY <1>6
<1> QED BY <1>1, <1>6, <1>7

(* What is not zero is printed. *)
LEMMA DumpShows ==
  ASSUME NEW r \in Records, NEW i \in DOMAIN r, r[i] # 0
  PROVE  i \in UNION {RowFrom(o, Used(r)) : o \in Offsets(Used(r))}
<1>1. Used(r) \in Nat /\ i \in 1 .. Used(r)
  BY UsedIsLast, SizesAssumption DEF Records
<1> QED BY <1>1, InSomeRow

-----------------------------------------------------------------------------
(* The probe: references, and what was printed. *)

(* Bounded sequences. *)
LEMMA UpToSeq ==
  ASSUME NEW n \in Nat, NEW S, NEW q \in UpTo(n, S)
  PROVE  /\ q \in Seq(S) /\ Len(q) \in 0 .. n /\ DOMAIN q = 1 .. Len(q)
         /\ \A i \in 1 .. Len(q) : q[i] \in S
<1>1. PICK k \in 0 .. n : q \in [1 .. k -> S]
  BY DEF UpTo
<1>2. k \in Nat /\ q \in Seq(S)
  BY <1>1, SeqDef
<1>3. Len(q) = k
  BY <1>1, <1>2
<1> QED BY <1>1, <1>2, <1>3

(* As long as main makes calls it holds its reference. *)
EngineOK ==
  /\ held \in 0 .. 1 /\ taken \in 0 .. MaxTaken
  /\ alive \in BOOLEAN /\ loaded \in BOOLEAN /\ code \in 0 .. 5
  /\ stage \in {"create", "init", "load", "challenge", "dump", "level", "model",
                "camera", "surface", "unload", "release", "drop", "exit"}
  /\ stage = "create" => held = 0 /\ taken = 0
  /\ stage \notin {"create", "exit"} => held = 1 /\ alive

(* What is printed between the dump and the next stage. *)
RecordOK ==
  /\ record \in {<<>>} \cup Records /\ printed \subseteq 1 .. RecordBytes
  /\ stage \in {"dump", "level"} => record \in Records
  /\ DumpShowsRecord

LEMMA EngineStep == EngineOK /\ [ProbeNext]_probeVars => EngineOK'
<1> SUFFICES ASSUME EngineOK, [ProbeNext]_probeVars PROVE EngineOK'
  OBVIOUS
<1> USE DEF EngineOK, Goes, Exits
<1>1. CASE CreateFaceEngine
  <2>1. CASE stage' = "exit"
    BY <1>1, <2>1 DEF CreateFaceEngine
  <2>2. CASE stage' = "init"
    BY <1>1, <2>2 DEF CreateFaceEngine
  <2> QED BY <1>1, <2>1, <2>2 DEF CreateFaceEngine
<1>2. CASE EngineTakes
  BY <1>2, ProbeBoundsAssumption DEF EngineTakes, Working
<1>3. CASE EngineDrops
  <2>1. stage \notin {"create", "exit"} /\ held = 1 /\ taken \in Nat /\ taken > 0
    BY <1>3, ProbeBoundsAssumption DEF EngineDrops, Working
  <2>2. taken' = taken - 1 /\ alive' = (held + taken' > 0)
    BY <1>3 DEF EngineDrops
  <2>3. taken' \in 0 .. MaxTaken /\ held + taken' > 0
    BY <2>1, <2>2, ProbeBoundsAssumption
  <2> QED BY <1>3, <2>1, <2>2, <2>3 DEF EngineDrops
<1>4. CASE InitEngine
  BY <1>4 DEF InitEngine, engine
<1>5. CASE LoadTA
  <2>1. loaded' \in BOOLEAN /\ code' \in 0 .. 5 /\ stage' \in {"challenge", "exit"}
    <3>1. stage' \in {"challenge", "exit"} /\ (code' = code \/ code' = 3)
      BY <1>5 DEF LoadTA
    <3>2. loaded' = TRUE \/ loaded' = loaded
      BY <1>5, Zenon DEF LoadTA
    <3>3. loaded' \in BOOLEAN
      BY <3>2
    <3>4. code' \in 0 .. 5
      BY <3>1
    <3> QED BY <3>1, <3>3, <3>4
  <2> QED BY <1>5, <2>1 DEF LoadTA
<1>6. CASE GenerateChallenge
  <2>1. UNCHANGED engine /\ stage = "challenge"
        /\ ((stage' = "dump" /\ code' = code) \/ (stage' = "exit" /\ code' = 4))
    BY <1>6 DEF GenerateChallenge
  <2> QED BY <2>1 DEF engine
<1>7. CASE DumpChallengeRecord
  BY <1>7 DEF DumpChallengeRecord, engine
<1>8. CASE GetSecurityLevel
  BY <1>8 DEF GetSecurityLevel, engine
<1>9. CASE GetModel
  BY <1>9 DEF GetModel, engine
<1>10. CASE LookAtCamera
  BY <1>10 DEF LookAtCamera, engine
<1>11. CASE LookAtSurface
  BY <1>11 DEF LookAtSurface, engine
<1>12. CASE NextCamera
  BY <1>12 DEF NextCamera, engine
<1>13. CASE LastCamera
  BY <1>13 DEF LastCamera, engine
<1>14. CASE UnloadTA
  BY <1>14 DEF UnloadTA
<1>15. CASE Release
  BY <1>15 DEF Release, engine
<1>16. CASE DecStrong
  BY <1>16, ProbeBoundsAssumption DEF DecStrong
<1>17. CASE UNCHANGED probeVars
  BY <1>17 DEF probeVars, engine
<1> QED BY <1>1, <1>2, <1>3, <1>4, <1>5, <1>6, <1>7, <1>8, <1>9, <1>10, <1>11, <1>12,
           <1>13, <1>14, <1>15, <1>16, <1>17 DEF ProbeNext

LEMMA RecordStep == RecordOK /\ [ProbeNext]_probeVars => RecordOK'
<1> SUFFICES ASSUME RecordOK, [ProbeNext]_probeVars PROVE RecordOK'
  OBVIOUS
<1> USE DEF RecordOK, DumpShowsRecord, Goes, Exits
<1>1. CASE GenerateChallenge
  BY <1>1 DEF GenerateChallenge
<1>2. CASE DumpChallengeRecord
  <2> DEFINE P == UNION {RowFrom(o, Used(record)) : o \in Offsets(Used(record))}
  <2>1. record \in Records /\ record' = record /\ stage' = "level" /\ printed' = P
    BY <1>2 DEF DumpChallengeRecord
  <2>2. \A i \in DOMAIN record : record[i] # 0 => i \in P
    BY <2>1, DumpShows
  <2>3. P \subseteq 1 .. RecordBytes
    <3>1. Used(record) \in 0 .. RecordBytes
      <4>1. DOMAIN record = 1 .. RecordBytes
        BY <2>1 DEF Records
      <4>2. CASE \A i \in DOMAIN record : record[i] = 0
        BY <4>2, SizesAssumption DEF Used
      <4>3. ASSUME NEW i \in DOMAIN record, record[i] # 0
            PROVE  Used(record) \in 0 .. RecordBytes
        <5>1. Used(record) \in 1 .. RecordBytes
          BY <4>3, <4>1, <2>1, UsedIsLast
        <5> QED BY <5>1, SizesAssumption
      <4> QED BY <4>2, <4>3
    <3> QED BY <3>1, SizesAssumption DEF RowFrom
  <2> QED BY <2>1, <2>2, <2>3
<1>3. CASE GetSecurityLevel
  BY <1>3 DEF GetSecurityLevel
<1>4. ASSUME UNCHANGED output, stage' \notin {"dump", "level"} PROVE RecordOK'
  BY <1>4 DEF output
<1>5. CASE UNCHANGED probeVars
  BY <1>5 DEF probeVars, output
<1>6. CASE EngineTakes
  BY <1>6 DEF EngineTakes, output
<1>7. CASE EngineDrops
  BY <1>7 DEF EngineDrops, output
<1>8. CASE LookAtCamera
  BY <1>8 DEF LookAtCamera, output
<1>9. CASE \/ CreateFaceEngine \/ InitEngine \/ LoadTA \/ GetModel \/ LookAtSurface
           \/ NextCamera \/ LastCamera \/ UnloadTA \/ Release \/ DecStrong
  BY <1>9, <1>4 DEF CreateFaceEngine, InitEngine, LoadTA, GetModel, LookAtSurface,
     NextCamera, LastCamera, UnloadTA, Release, DecStrong
<1> QED BY <1>1, <1>2, <1>3, <1>5, <1>6, <1>7, <1>8, <1>9 DEF ProbeNext

-----------------------------------------------------------------------------
(* The probe: where the walk over the capture model is. *)

Looking == stage \in {"camera", "surface"}
(* What the library counts, and what of it lies behind the walk. *)
InModel(c, s) ==
  /\ c \in 1 .. Len(config)
  /\ s = 0 \/ (config[c] # Missing /\ s \in 1 .. Len(config[c].surfaces))
Reached(c, s) == c < cam \/ (c = cam /\ stage = "surface" /\ s < surf)

(* The walk starts at the first camera and stays inside the model. *)
PlaceOK ==
  /\ fails \in Nat /\ diffs \in Nat /\ cam \in Nat /\ surf \in Nat
  /\ config \in Configurations \cup {Missing}
  /\ stage \in {"create", "init", "load", "challenge", "dump", "level", "model"}
       => cam = 1 /\ surf = 0 /\ seen = {} /\ fails = 0 /\ diffs = 0 /\ config = Missing
  /\ Looking => config \in Configurations /\ cam \in 1 .. Len(config) + 1
  /\ stage = "surface" =>
       /\ cam <= Len(config) /\ config[cam] # Missing
       /\ surf \in 1 .. Len(config[cam].surfaces) + 1
  /\ cam \in 1 .. MaxCameras + 1 /\ surf \in 0 .. MaxSurfaces + 1

LEMMA ConfigurationOf ==
  ASSUME NEW k \in Configurations
  PROVE  /\ k # Missing /\ Len(k) \in 0 .. MaxCameras
         /\ k \in Seq(Cameras \cup {Missing})
         /\ \A c \in 1 .. Len(k) : k[c] \in Cameras \cup {Missing}
<1>1. k # Missing
  BY MissingAssumption
<1>2. k \in UpTo(MaxCameras, Cameras \cup {Missing}) /\ MaxCameras \in Nat
  BY ProbeBoundsAssumption DEF Configurations
<1> QED BY <1>1, <1>2, UpToSeq

LEMMA CameraOf ==
  ASSUME NEW k \in Cameras
  PROVE  /\ k # Missing /\ k.rotation \in Rotations
         /\ Len(k.surfaces) \in 0 .. MaxSurfaces
         /\ k.surfaces \in Seq(Rotations \cup {Missing})
         /\ \A s \in 1 .. Len(k.surfaces) : k.surfaces[s] \in Rotations \cup {Missing}
         /\ k = [rotation |-> k.rotation, surfaces |-> k.surfaces]
<1>1. k # Missing
  BY MissingAssumption
<1>2. /\ k.surfaces \in UpTo(MaxSurfaces, Rotations \cup {Missing})
      /\ MaxSurfaces \in Nat /\ k.rotation \in Rotations
  BY ProbeBoundsAssumption DEF Cameras
<1>3. k = [rotation |-> k.rotation, surfaces |-> k.surfaces]
  BY DEF Cameras
<1> QED BY <1>1, <1>2, <1>3, UpToSeq

LEMMA PlaceStep == PlaceOK /\ [ProbeNext]_probeVars => PlaceOK'
<1> SUFFICES ASSUME PlaceOK, [ProbeNext]_probeVars PROVE PlaceOK'
  OBVIOUS
<1>b. MaxCameras \in Nat /\ MaxSurfaces \in Nat
  BY ProbeBoundsAssumption
<1>d. \A a, b : Diff(a, b) \in 0 .. 1
  BY DEF Diff
<1>c. ASSUME Looking
      PROVE  /\ config \in Configurations /\ config # Missing
             /\ Len(config) \in Nat /\ Len(config) <= MaxCameras
             /\ cam \in Nat /\ cam >= 1 /\ cam <= Len(config) + 1
             /\ cam <= Len(config) => config[cam] \in Cameras \cup {Missing}
  BY <1>b, <1>c, ConfigurationOf DEF PlaceOK
<1>s. ASSUME Looking, cam <= Len(config), config[cam] # Missing
      PROVE  /\ Len(config[cam].surfaces) \in Nat
             /\ Len(config[cam].surfaces) <= MaxSurfaces
  BY <1>b, <1>c, <1>s, CameraOf
<1>1. ASSUME UNCHANGED walk, Looking' => Looking /\ stage' = stage,
             stage' \in {"create", "init", "load", "challenge", "dump", "level", "model"}
               => stage \in {"create", "init", "load", "challenge", "dump", "level", "model"}
      PROVE  PlaceOK'
  BY <1>1 DEF PlaceOK, walk, Looking
<1>2. CASE \/ CreateFaceEngine \/ EngineTakes \/ EngineDrops \/ InitEngine \/ LoadTA
           \/ GenerateChallenge \/ DumpChallengeRecord \/ GetSecurityLevel
  BY <1>2, <1>1 DEF CreateFaceEngine, EngineTakes, EngineDrops, InitEngine, LoadTA,
     GenerateChallenge, DumpChallengeRecord, GetSecurityLevel, Goes, Exits, Looking
<1>3. CASE LastCamera \/ UnloadTA \/ Release \/ DecStrong \/ UNCHANGED probeVars
  BY <1>3, <1>1 DEF LastCamera, UnloadTA, Release, DecStrong, probeVars, Goes, Exits, Looking
<1>4. CASE GetModel
  <2>1. stage = "model" /\ cam = 1 /\ surf = 0 /\ fails = 0 /\ diffs = 0 /\ config = Missing
    BY <1>4 DEF GetModel, PlaceOK
  <2>2. cam' = 1 /\ surf' = 0
    BY <1>4, <2>1 DEF GetModel
  <2>3. CASE stage' = "unload" /\ config' = config /\ fails' = 1 /\ diffs' = 0
    BY <2>1, <2>2, <2>3, <1>b DEF PlaceOK, Looking
  <2>4. CASE stage' = "camera" /\ config' \in Configurations /\ fails' = 0
             /\ diffs' = Diff(Len(config'), 1)
    <3>1. Len(config') \in Nat /\ diffs' \in Nat /\ cam' \in 1 .. Len(config') + 1
      BY <2>4, <2>2, <1>b, <1>d, ConfigurationOf
    <3> QED BY <2>2, <2>4, <3>1, <1>b DEF PlaceOK, Looking
  <2> QED BY <1>4, <2>1, <2>3, <2>4 DEF GetModel, Goes
<1>5. CASE LookAtCamera
  <2>1. stage = "camera" /\ Looking /\ cam <= Len(config) /\ config' = config
    BY <1>5 DEF LookAtCamera, Looking
  <2>2. CASE config[cam] = Missing
    <3>1. fails' = fails + 1 /\ cam' = cam + 1 /\ stage' = stage /\ surf' = surf /\ diffs' = diffs
      BY <1>5, <2>2 DEF LookAtCamera
    <3>2. cam' \in 1 .. MaxCameras + 1 /\ cam' \in 1 .. Len(config) + 1 /\ cam' \in Nat
      BY <2>1, <3>1, <1>c, <1>b
    <3>3. fails' \in Nat
      BY <3>1 DEF PlaceOK
    <3> QED BY <2>1, <3>1, <3>2, <3>3 DEF PlaceOK, Looking
  <2>3. CASE config[cam] # Missing
    <3>1. /\ diffs' = diffs + Diff(config[cam].rotation, Stock) + Diff(Len(config[cam].surfaces), 1)
          /\ surf' = 1 /\ stage' = "surface" /\ cam' = cam /\ fails' = fails
      BY <1>5, <2>3 DEF LookAtCamera, Goes
    <3>2. diffs' \in Nat
      BY <3>1, <1>d DEF PlaceOK
    <3>3. surf' \in 0 .. MaxSurfaces + 1 /\ surf' \in 1 .. Len(config[cam].surfaces) + 1
      BY <3>1, <2>1, <2>3, <1>s, <1>b
    <3> QED BY <2>1, <2>3, <3>1, <3>2, <3>3 DEF PlaceOK, Looking
  <2> QED BY <2>2, <2>3
<1>6. CASE LookAtSurface
  <2>1. /\ stage = "surface" /\ Looking /\ surf <= Len(config[cam].surfaces)
        /\ surf' = surf + 1 /\ stage' = stage /\ config' = config /\ cam' = cam
    BY <1>6 DEF LookAtSurface, Looking
  <2>2. surf \in Nat /\ cam <= Len(config) /\ config[cam] # Missing
    BY <2>1 DEF PlaceOK
  <2>3. surf' \in 0 .. MaxSurfaces + 1 /\ surf' \in 1 .. Len(config[cam].surfaces) + 1
    BY <2>1, <2>2, <1>s, <1>b
  <2>4. fails' \in Nat /\ diffs' \in Nat
    <3> DEFINE q == config[cam].surfaces
    <3>1. /\ fails' = fails + (IF q[surf] = Missing THEN 1 ELSE 0)
          /\ diffs' = diffs + (IF q[surf] = Missing THEN 0 ELSE Diff(q[surf], Stock))
      BY <1>6 DEF LookAtSurface
    <3> HIDE DEF q
    <3> QED BY <3>1, <1>d DEF PlaceOK
  <2> QED BY <2>1, <2>2, <2>3, <2>4 DEF PlaceOK, Looking
<1>7. CASE NextCamera
  <2>1. /\ stage = "surface" /\ Looking /\ cam' = cam + 1 /\ surf' = 0 /\ stage' = "camera"
        /\ UNCHANGED <<config, seen, fails, diffs>>
    BY <1>7 DEF NextCamera, Looking, Goes
  <2>2. cam <= Len(config)
    BY <2>1 DEF PlaceOK
  <2>3. cam' \in 1 .. MaxCameras + 1 /\ cam' \in 1 .. Len(config) + 1 /\ cam' \in Nat
        /\ surf' \in 0 .. MaxSurfaces + 1
    BY <2>1, <2>2, <1>c, <1>b
  <2> QED BY <2>1, <2>3 DEF PlaceOK, Looking
<1> QED BY <1>2, <1>3, <1>4, <1>5, <1>6, <1>7 DEF ProbeNext

-----------------------------------------------------------------------------
(* The probe: what the walk has seen, and what it has found. *)

(* What has been seen is what of the model lies behind. *)
SeenOK ==
  /\ seen \subseteq (1 .. MaxCameras) \X (0 .. MaxSurfaces)
  /\ Looking => \A c, s \in Nat : <<c, s>> \in seen <=> InModel(c, s) /\ Reached(c, s)
  /\ stage = "unload" /\ config # Missing
       => \A c, s \in Nat : <<c, s>> \in seen <=> InModel(c, s)
IsClean == fails + diffs = 0
StockCamera(c) ==
  config[c].rotation = Stock /\ Len(config[c].surfaces) = 1
(* No line of output so far: all that lies behind is stock. *)
CleanOK ==
  /\ stage = "camera" =>
       (IsClean <=> Len(config) = 1 /\ (cam = 1 \/ config = StockConfiguration))
  /\ stage = "surface" =>
       (IsClean <=> /\ Len(config) = 1 /\ StockCamera(cam)
                    /\ surf = 1 \/ config[cam].surfaces[1] = Stock)
  /\ stage = "unload" => (IsClean <=> config = StockConfiguration)

(* The stock configuration is one the library can return. *)
LEMMA StockIsModel ==
  /\ [rotation |-> Stock, surfaces |-> <<Stock>>] \in Cameras
  /\ StockConfiguration \in Configurations
<1>1. 1 \in 0 .. MaxSurfaces /\ 1 \in 0 .. MaxCameras
  BY ProbeBoundsAssumption
<1>2. <<Stock>> \in [1 .. 1 -> Rotations \cup {Missing}]
  BY DEF Rotations, Stock
<1>3. [rotation |-> Stock, surfaces |-> <<Stock>>] \in Cameras
  BY <1>1, <1>2 DEF UpTo, Cameras, Rotations
<1>4. StockConfiguration \in [1 .. 1 -> Cameras \cup {Missing}]
  BY <1>3 DEF StockConfiguration
<1> QED BY <1>1, <1>3, <1>4 DEF UpTo, Configurations

LEMMA MissingIsNotStock == StockConfiguration # Missing
  BY StockIsModel, MissingAssumption

LEMMA StockIs ==
  ASSUME NEW k \in Configurations
  PROVE  k = StockConfiguration <=>
           /\ Len(k) = 1 /\ k[1] # Missing /\ k[1].rotation = Stock
           /\ Len(k[1].surfaces) = 1 /\ k[1].surfaces[1] = Stock
<1> DEFINE one == [rotation |-> Stock, surfaces |-> <<Stock>>]
<1>2. one # Missing /\ StockConfiguration = <<one>>
  BY StockIsModel, MissingAssumption DEF StockConfiguration
<1>3. ASSUME k = StockConfiguration
      PROVE  /\ Len(k) = 1 /\ k[1] # Missing /\ k[1].rotation = Stock
             /\ Len(k[1].surfaces) = 1 /\ k[1].surfaces[1] = Stock
  <2>1. k = <<one>>
    BY <1>3 DEF StockConfiguration
  <2>2. Len(k) = 1 /\ k[1] = one
    BY <2>1
  <2> QED BY <1>2, <2>2
<1>4. ASSUME Len(k) = 1, k[1] # Missing, k[1].rotation = Stock,
             Len(k[1].surfaces) = 1, k[1].surfaces[1] = Stock
      PROVE  k = StockConfiguration
  <2>1. k[1] \in Cameras
    BY <1>4, ConfigurationOf
  <2>2. k[1].surfaces = <<Stock>>
    BY <1>4, <2>1, CameraOf
  <2>3. k[1] = one
    BY <1>4, <2>1, <2>2, CameraOf
  <2>4. k = <<k[1]>>
    BY <1>4, ConfigurationOf
  <2> QED BY <2>3, <2>4 DEF StockConfiguration
<1> QED BY <1>3, <1>4

LEMMA SeenStep == PlaceOK /\ PlaceOK' /\ SeenOK /\ [ProbeNext]_probeVars => SeenOK'
<1> SUFFICES ASSUME PlaceOK, PlaceOK', SeenOK, [ProbeNext]_probeVars PROVE SeenOK'
  OBVIOUS
<1>b. MaxCameras \in Nat /\ MaxSurfaces \in Nat /\ cam \in Nat /\ surf \in Nat
  BY ProbeBoundsAssumption DEF PlaceOK
<1>c. ASSUME Looking, cam <= Len(config)
      PROVE  /\ cam \in 1 .. Len(config) /\ cam \in 1 .. MaxCameras
             /\ Len(config) \in Nat
             /\ config[cam] # Missing => Len(config[cam].surfaces) \in 0 .. MaxSurfaces
  BY <1>b, <1>c, ConfigurationOf, CameraOf DEF PlaceOK
<1>1. ASSUME UNCHANGED walk, Looking' => stage' = stage, stage' # "unload" \/ stage' = stage
      PROVE  SeenOK'
  BY <1>1 DEF SeenOK, walk, Looking, InModel, Reached
<1>2. CASE \/ CreateFaceEngine \/ EngineTakes \/ EngineDrops \/ InitEngine \/ LoadTA
           \/ GenerateChallenge \/ DumpChallengeRecord \/ GetSecurityLevel
  BY <1>2, <1>1 DEF CreateFaceEngine, EngineTakes, EngineDrops, InitEngine, LoadTA,
     GenerateChallenge, DumpChallengeRecord, GetSecurityLevel, Goes, Exits, Looking
<1>3. CASE UnloadTA \/ Release \/ DecStrong \/ UNCHANGED probeVars
  BY <1>3, <1>1 DEF UnloadTA, Release, DecStrong, probeVars, Goes, Exits, Looking
<1>4. CASE GetModel
  <2>1. seen = {} /\ cam = 1 /\ UNCHANGED <<seen, cam, surf>> /\ stage' # "surface"
    BY <1>4 DEF GetModel, PlaceOK, Goes
  <2>2. stage' = "unload" => config' = Missing
    BY <1>4 DEF GetModel, PlaceOK, Goes
  <2>3. \A c, s \in Nat : ~(InModel(c, s)' /\ Reached(c, s)')
    BY <2>1 DEF InModel, Reached
  <2> QED BY <2>1, <2>2, <2>3 DEF SeenOK
<1>5. CASE LookAtCamera
  <2>1. /\ stage = "camera" /\ Looking /\ cam <= Len(config) /\ config' = config
        /\ seen' = seen \cup {<<cam, 0>>}
    BY <1>5 DEF LookAtCamera, Looking
  <2>2. cam \in 1 .. MaxCameras /\ 0 \in 0 .. MaxSurfaces
    BY <2>1, <1>b, <1>c
  <2>3. \/ config[cam] = Missing /\ cam' = cam + 1 /\ stage' = "camera"
        \/ config[cam] # Missing /\ cam' = cam /\ stage' = "surface" /\ surf' = 1
    BY <1>5 DEF LookAtCamera, Goes
  <2>4. ASSUME NEW c \in Nat, NEW s \in Nat
        PROVE  InModel(c, s)' /\ Reached(c, s)' <=>
                 (InModel(c, s) /\ Reached(c, s)) \/ <<c, s>> = <<cam, 0>>
    BY <2>1, <2>3, <1>b, <1>c DEF InModel, Reached
  <2>5. seen' \subseteq (1 .. MaxCameras) \X (0 .. MaxSurfaces)
    BY <2>1, <2>2 DEF SeenOK
  <2>6. \A c, s \in Nat : <<c, s>> \in seen' <=> InModel(c, s)' /\ Reached(c, s)'
    BY <2>1, <2>4 DEF SeenOK
  <2> QED BY <2>3, <2>5, <2>6 DEF SeenOK
<1>6. CASE LookAtSurface
  <2>1. /\ stage = "surface" /\ Looking /\ stage' = stage /\ config' = config /\ cam' = cam
        /\ surf <= Len(config[cam].surfaces) /\ surf' = surf + 1
        /\ seen' = seen \cup {<<cam, surf>>}
    BY <1>6 DEF LookAtSurface, Looking
  <2>2. cam <= Len(config) /\ config[cam] # Missing /\ surf >= 1
    BY <2>1, <1>b DEF PlaceOK
  <2>3. cam \in 1 .. MaxCameras /\ surf \in 0 .. MaxSurfaces
    BY <2>1, <2>2, <1>b, <1>c
  <2>4. ASSUME NEW c \in Nat, NEW s \in Nat
        PROVE  InModel(c, s)' /\ Reached(c, s)' <=>
                 (InModel(c, s) /\ Reached(c, s)) \/ <<c, s>> = <<cam, surf>>
    BY <2>1, <2>2, <1>b, <1>c DEF InModel, Reached
  <2> QED BY <2>1, <2>3, <2>4 DEF SeenOK
<1>7. CASE NextCamera
  <2>1. /\ stage = "surface" /\ Looking /\ cam' = cam + 1 /\ stage' = "camera"
        /\ surf > Len(config[cam].surfaces) /\ config' = config /\ seen' = seen
    BY <1>7 DEF NextCamera, Looking, Goes
  <2>2. cam <= Len(config) /\ config[cam] # Missing
    BY <2>1 DEF PlaceOK
  <2>3. Len(config[cam].surfaces) \in Nat
    BY <2>1, <2>2, <1>b, <1>c
  <2>4. ASSUME NEW c \in Nat, NEW s \in Nat
        PROVE  InModel(c, s)' /\ Reached(c, s)' <=> InModel(c, s) /\ Reached(c, s)
    BY <2>1, <2>2, <2>3, <1>b DEF InModel, Reached
  <2> QED BY <2>1, <2>4 DEF SeenOK
<1>8. CASE LastCamera
  <2>1. /\ stage = "camera" /\ Looking /\ cam > Len(config) /\ stage' = "unload"
        /\ config' = config /\ seen' = seen
    BY <1>8 DEF LastCamera, Looking, Goes, walk
  <2>2. Len(config) \in Nat
    BY <2>1, ConfigurationOf, <1>b DEF PlaceOK
  <2>3. ASSUME NEW c \in Nat, NEW s \in Nat
        PROVE  InModel(c, s)' <=> InModel(c, s) /\ Reached(c, s)
    BY <2>1, <2>2, <1>b DEF InModel, Reached
  <2> QED BY <2>1, <2>3 DEF SeenOK, Looking
<1> QED BY <1>2, <1>3, <1>4, <1>5, <1>6, <1>7, <1>8 DEF ProbeNext

LEMMA CleanStep == PlaceOK /\ CleanOK /\ [ProbeNext]_probeVars => CleanOK'
<1> SUFFICES ASSUME PlaceOK, CleanOK, [ProbeNext]_probeVars PROVE CleanOK'
  OBVIOUS
<1>b. /\ MaxCameras \in Nat /\ MaxSurfaces \in Nat /\ cam \in Nat /\ surf \in Nat
      /\ fails \in Nat /\ diffs \in Nat
  BY ProbeBoundsAssumption DEF PlaceOK
<1>d. \A a, b : Diff(a, b) \in 0 .. 1 /\ (Diff(a, b) = 0 <=> a = b)
  BY DEF Diff
<1>c. ASSUME Looking
      PROVE  config \in Configurations /\ Len(config) \in Nat /\ cam >= 1
  BY <1>b, <1>c, ConfigurationOf DEF PlaceOK
<1>1. ASSUME UNCHANGED walk, stage' \in {"camera", "surface", "unload"} => stage' = stage
      PROVE  CleanOK'
  BY <1>1 DEF CleanOK, walk, IsClean, StockCamera
<1>2. CASE \/ CreateFaceEngine \/ EngineTakes \/ EngineDrops \/ InitEngine \/ LoadTA
           \/ GenerateChallenge \/ DumpChallengeRecord \/ GetSecurityLevel
  BY <1>2, <1>1 DEF CreateFaceEngine, EngineTakes, EngineDrops, InitEngine, LoadTA,
     GenerateChallenge, DumpChallengeRecord, GetSecurityLevel, Goes, Exits
<1>3. CASE UnloadTA \/ Release \/ DecStrong \/ UNCHANGED probeVars
  BY <1>3, <1>1 DEF UnloadTA, Release, DecStrong, probeVars, Goes, Exits
<1>4. CASE GetModel
  <2>1. cam' = 1 /\ fails = 0 /\ diffs = 0 /\ config = Missing
    BY <1>4 DEF GetModel, PlaceOK
  <2>2. CASE stage' = "unload" /\ config' = config /\ fails' = 1 /\ diffs' = 0
    BY <2>1, <2>2, MissingIsNotStock DEF CleanOK, IsClean
  <2>3. CASE stage' = "camera" /\ fails' = 0 /\ diffs' = Diff(Len(config'), 1)
    <3> DEFINE n == Diff(Len(config'), 1)
    <3>0. n \in 0 .. 1 /\ (n = 0 <=> Len(config') = 1)
      BY <1>d
    <3>a. fails' = 0 /\ diffs' = n
      BY <2>3
    <3> HIDE DEF n
    <3>1. fails' + diffs' = 0 <=> Len(config') = 1
      BY <3>a, <3>0
    <3> QED BY <2>1, <2>3, <3>1 DEF CleanOK, IsClean
  <2> QED BY <1>4, <2>1, <2>2, <2>3 DEF GetModel, Goes
<1>5. CASE LookAtCamera
  <2>1. stage = "camera" /\ Looking /\ cam <= Len(config) /\ config' = config
    BY <1>5 DEF LookAtCamera, Looking
  <2>2. Len(config) = 1 => cam = 1
    BY <2>1, <1>b, <1>c
  <2>3. IsClean <=> Len(config) = 1 /\ (cam = 1 \/ config = StockConfiguration)
    BY <2>1 DEF CleanOK
  <2>4. CASE config[cam] = Missing
    <3>1. fails' = fails + 1 /\ cam' = cam + 1 /\ stage' = stage /\ diffs' = diffs
      BY <1>5, <2>4 DEF LookAtCamera
    <3>2. ~IsClean' /\ cam' # 1
      BY <3>1, <2>1, <1>b, <1>c DEF IsClean
    <3>3. ~(Len(config) = 1 /\ config = StockConfiguration)
      BY <2>1, <2>2, <2>4, <1>c, StockIs
    <3> QED BY <2>1, <3>1, <3>2, <3>3 DEF CleanOK
  <2>5. CASE config[cam] # Missing
    <3> DEFINE d == Diff(config[cam].rotation, Stock)
               e == Diff(Len(config[cam].surfaces), 1)
    <3>1. /\ diffs' = diffs + d + e /\ fails' = fails
          /\ surf' = 1 /\ stage' = "surface" /\ cam' = cam
      BY <1>5, <2>5 DEF LookAtCamera, Goes
    <3>2. d \in 0 .. 1 /\ e \in 0 .. 1 /\ (d = 0 /\ e = 0 <=> StockCamera(cam))
      BY <1>d DEF StockCamera
    <3>3. StockCamera(cam)' <=> StockCamera(cam)
      BY <2>1, <3>1 DEF StockCamera
    <3> HIDE DEF d, e
    <3>4. IsClean' <=> IsClean /\ StockCamera(cam)
      BY <3>1, <3>2, <1>b DEF IsClean
    <3>5. IsClean <=> Len(config) = 1
      BY <2>2, <2>3
    <3> QED BY <2>1, <3>1, <3>3, <3>4, <3>5 DEF CleanOK
  <2> QED BY <2>4, <2>5
<1>6. CASE LookAtSurface
  <2> DEFINE q == config[cam].surfaces
             f == IF q[surf] = Missing THEN 1 ELSE 0
             d == IF q[surf] = Missing THEN 0 ELSE Diff(q[surf], Stock)
  <2>1. /\ stage = "surface" /\ Looking /\ stage' = stage /\ config' = config /\ cam' = cam
        /\ surf <= Len(q) /\ surf' = surf + 1 /\ fails' = fails + f /\ diffs' = diffs + d
    BY <1>6 DEF LookAtSurface, Looking
  <2>2. cam <= Len(config) /\ config[cam] # Missing /\ surf >= 1
    BY <2>1, <1>b DEF PlaceOK
  <2>3. config[cam] \in Cameras /\ Len(q) \in Nat
    BY <2>1, <2>2, <1>b, <1>c, ConfigurationOf, CameraOf
  <2>4. Missing # Stock
    BY MissingAssumption DEF Rotations
  <2>5. f \in 0 .. 1 /\ d \in 0 .. 1 /\ (f = 0 /\ d = 0 <=> q[surf] = Stock)
    BY <1>d, <2>4
  <2>6. StockCamera(cam)' <=> StockCamera(cam)
    BY <2>1 DEF StockCamera
  <2>7. StockCamera(cam) => surf = 1
    BY <2>1, <2>2, <1>b DEF StockCamera
  <2>8. IsClean <=> Len(config) = 1 /\ StockCamera(cam)
    BY <2>1, <2>7 DEF CleanOK
  <2>9. config[cam]'.surfaces[1] = q[1]
    BY <2>1
  <2> HIDE DEF f, d
  <2>10. IsClean' <=> IsClean /\ q[surf] = Stock
    BY <2>1, <2>5, <1>b DEF IsClean
  <2>11. surf' # 1
    BY <2>1, <2>2, <1>b
  <2> QED BY <2>1, <2>6, <2>7, <2>8, <2>9, <2>10, <2>11 DEF CleanOK
<1>7. CASE NextCamera
  <2>1. /\ stage = "surface" /\ Looking /\ cam' = cam + 1 /\ stage' = "camera"
        /\ surf > Len(config[cam].surfaces) /\ config' = config
        /\ fails' = fails /\ diffs' = diffs
    BY <1>7 DEF NextCamera, Looking, Goes
  <2>2. cam <= Len(config) /\ config[cam] # Missing /\ config \in Configurations
    BY <2>1 DEF PlaceOK
  <2>3. cam' # 1 /\ (Len(config) = 1 => cam = 1)
    BY <2>1, <2>2, <1>b, <1>c
  <2>4. StockCamera(cam) => surf # 1
    BY <2>1, <1>b DEF StockCamera
  <2>5. IsClean <=> /\ Len(config) = 1 /\ StockCamera(cam)
                    /\ config[cam].surfaces[1] = Stock
    BY <2>1, <2>4 DEF CleanOK
  <2>6. IsClean <=> config = StockConfiguration
    BY <2>2, <2>3, <2>5, StockIs DEF StockCamera
  <2>7. config = StockConfiguration => Len(config) = 1
    BY <2>2, StockIs
  <2>8. IsClean' <=> IsClean
    BY <2>1 DEF IsClean
  <2> QED BY <2>1, <2>3, <2>6, <2>7, <2>8 DEF CleanOK
<1>8. CASE LastCamera
  <2>1. /\ stage = "camera" /\ Looking /\ cam > Len(config) /\ stage' = "unload"
        /\ config' = config /\ fails' = fails /\ diffs' = diffs
    BY <1>8 DEF LastCamera, Looking, Goes, walk
  <2>2. Len(config) = 1 => cam # 1
    BY <2>1, <1>b, <1>c
  <2>3. config = StockConfiguration => Len(config) = 1
    BY <2>1, <1>c, StockIs
  <2>4. IsClean <=> config = StockConfiguration
    BY <2>1, <2>2, <2>3 DEF CleanOK
  <2>5. IsClean' <=> IsClean
    BY <2>1 DEF IsClean
  <2> QED BY <2>1, <2>4, <2>5 DEF CleanOK
<1> QED BY <1>2, <1>3, <1>4, <1>5, <1>6, <1>7, <1>8 DEF ProbeNext

-----------------------------------------------------------------------------
(* The face libraries. *)

(* What was built agrees with the guards; no side has touched the other's. *)
FaceInv ==
  /\ layout \in Layouts \cup {Expected} /\ built \in {"no", "yes", "refused"}
  /\ faulted \in BOOLEAN /\ ~faulted /\ spoiled = {}
  /\ delivered \in 0 .. MaxMessages
  /\ mVerboseStats \in BOOLEAN /\ mMessageCounter \in 0 .. delivered
  /\ BagToSet(mMessages) \subseteq Whats
  /\ built = "yes" => BlobAbiHolds(layout) /\ HandlerLayoutHolds(layout)

(* What the guards let through. *)
LEMMA BlobLayout ==
  ASSUME NEW l, BlobAbiHolds(l)
  PROVE  /\ l.primaryVTable = 24 /\ l.bbinderVTable = 416 /\ l.refBaseVTable = 608
         /\ l.bbinderAt = 8 /\ l.refBaseAt = 104 /\ l.h2bSize = 120
         /\ l.vttSize = 160 /\ l.surfaceSize <= 8168
  BY DEF BlobAbiHolds, Expected, Primary, BBinder, RefBase

LEMMA HandlerLayout ==
  ASSUME NEW l, HandlerLayoutHolds(l)
  PROVE  /\ l.verboseStats = 40 /\ l.messageCounter = 48 /\ l.messages = 56
         /\ l.lock = 96
  BY DEF HandlerLayoutHolds, Expected

(* Where the blob has stored its tables, calls through them find them. *)
LEMMA TablesAreFound == Finds(0, 24) /\ Finds(8, 416) /\ Finds(104, 608)
  BY DEF Finds, Stored

(* With the layout of the guard, the system's code keeps to its own bytes: *)
(* the fields lie apart, and the list ends where the library's own begin.  *)
LEMMA FieldsLieApart ==
  ASSUME HandlerLayoutHolds(layout)
  PROVE  \A f \in {"verboseStats", "messageCounter", "messages"} : Spoils(f) = {}
<1>1. /\ layout.verboseStats = 40 /\ layout.messageCounter = 48 /\ layout.messages = 56
      /\ layout.lock = 96
  BY HandlerLayout
<1>2. /\ Ours("verboseStats") = 40 .. 40 /\ Ours("messageCounter") = 48 .. 51
      /\ Ours("messages") = 56 .. 95
  BY <1>1 DEF Ours
<1>3. /\ Theirs.verboseStats = 40 .. 40 /\ Theirs.messageCounter = 48 .. 51
      /\ Theirs.messages = 56 .. 95 /\ Theirs.member = 96 .. 103
      /\ DOMAIN Theirs = {"verboseStats", "messageCounter", "messages", "member"}
  BY DEF Theirs
<1>4. /\ TheirStart.verboseStats = 40 /\ TheirStart.messageCounter = 48
      /\ TheirStart.messages = 56
  BY DEF TheirStart
<1>5. /\ (40 .. 40) \cap (48 .. 51) = {} /\ (40 .. 40) \cap (56 .. 95) = {}
      /\ (40 .. 40) \cap (96 .. 103) = {} /\ (48 .. 51) \cap (56 .. 95) = {}
      /\ (48 .. 51) \cap (96 .. 103) = {} /\ (56 .. 95) \cap (96 .. 103) = {}
  OBVIOUS
<1>6. Spoils("verboseStats") = {}
  BY <1>1, <1>2, <1>3, <1>4, <1>5 DEF Spoils
<1>7. Spoils("messageCounter") = {}
  BY <1>1, <1>2, <1>3, <1>4, <1>5 DEF Spoils
<1>8. Spoils("messages") = {}
  BY <1>1, <1>2, <1>3, <1>4, <1>5 DEF Spoils
<1> QED BY <1>6, <1>7, <1>8

LEMMA TouchesNothingElse ==
  ASSUME HandlerLayoutHolds(layout), spoiled = {},
         NEW fs, fs \subseteq {"verboseStats", "messageCounter", "messages"}, Touches(fs)
  PROVE  spoiled' = {}
<1>1. \A f \in fs : Spoils(f) = {}
  BY FieldsLieApart
<1> QED BY <1>1 DEF Touches

LEMMA NatLayout ==
  ASSUME NEW l \in Layouts \cup {Expected}
  PROVE  l.surfaceSize \in Nat
<1>1. Expected.surfaceSize \in Nat
  BY DEF Expected
<1>2. ASSUME NEW m \in Layouts PROVE m.surfaceSize \in Nat
  BY <1>2, LayoutsAssumption DEF Layout, Expected
<1> QED BY <1>1, <1>2

LEMMA CountedBag ==
  ASSUME NEW B, NEW w
  PROVE  BagToSet(B (+) SetToBag({w})) = BagToSet(B) \cup {w}
  BY DEF BagToSet, (+), SetToBag

LEMMA FaceStart == FaceInit => FaceInv
<1> SUFFICES ASSUME FaceInit PROVE FaceInv
  OBVIOUS
<1>1. BagToSet(mMessages) = {}
  BY DEF FaceInit, BagToSet, EmptyBag, SetToBag
<1>2. BagToSet(mMessages) \subseteq Whats
  BY <1>1
<1>3. 0 \in 0 .. MaxMessages /\ 0 \in 0 .. 0
  BY MessagesAssumption
<1> QED BY <1>2, <1>3 DEF FaceInit, FaceInv

LEMMA FaceStep == FaceInv /\ [FaceNext]_faceVars => FaceInv'
<1> SUFFICES ASSUME FaceInv, [FaceNext]_faceVars PROVE FaceInv'
  OBVIOUS
<1>1. CASE Build
  <2>1. BagToSet(mMessages') \subseteq Whats
    BY <1>1 DEF Build, stats, FaceInv
  <2> QED BY <1>1, <2>1 DEF Build, stats, FaceInv
<1>2. CASE GetANativeWindow
  <2>1. BlobAbiHolds(layout)
    BY <1>2 DEF GetANativeWindow, FaceInv
  <2>2. /\ layout.primaryVTable = 24 /\ layout.bbinderVTable = 416
        /\ layout.refBaseVTable = 608
        /\ layout.bbinderAt = 8 /\ layout.refBaseAt = 104
        /\ layout.h2bSize <= 120 /\ layout.surfaceSize <= 8168
        /\ layout.vttSize = 160
    BY <2>1, BlobLayout
  <2>3. ~faulted' /\ faulted' \in BOOLEAN
    <3>1. /\ Finds(0, layout.primaryVTable)
          /\ Finds(layout.bbinderAt, layout.bbinderVTable)
          /\ Finds(layout.refBaseAt, layout.refBaseVTable)
      <4>1. layout.primaryVTable = 24 /\ Finds(0, 24)
        BY <2>2, TablesAreFound
      <4>2. /\ layout.bbinderAt = 8 /\ layout.bbinderVTable = 416
            /\ Finds(8, 416)
        BY <2>2, TablesAreFound
      <4>3. /\ layout.refBaseAt = 104 /\ layout.refBaseVTable = 608
            /\ Finds(104, 608)
        BY <2>2, TablesAreFound
      <4>4. Finds(0, layout.primaryVTable)
        BY <4>1, Zenon
      <4>5. Finds(layout.bbinderAt, layout.bbinderVTable)
        BY <4>2, Zenon
      <4>6. Finds(layout.refBaseAt, layout.refBaseVTable)
        BY <4>3, Zenon
      <4> QED BY <4>4, <4>5, <4>6
    <3>2. /\ layout.h2bSize <= Allocated /\ layout.surfaceSize <= 8168
          /\ layout.vttSize = TableBytes
      BY <2>2 DEF Allocated, TableBytes
    <3> DEFINE AllFound == /\ Finds(0, layout.primaryVTable)
                           /\ Finds(layout.bbinderAt, layout.bbinderVTable)
                           /\ Finds(layout.refBaseAt, layout.refBaseVTable)
                           /\ layout.h2bSize <= Allocated /\ layout.surfaceSize <= 8168
                           /\ layout.vttSize = TableBytes
    <3>3. faulted' = ~AllFound
      BY <1>2, Zenon DEF GetANativeWindow
    <3>4. AllFound
      BY <3>1, <3>2
    <3> HIDE DEF AllFound
    <3> QED BY <3>3, <3>4
  <2> QED BY <1>2, <2>3 DEF GetANativeWindow, stats, FaceInv
<1>3. ASSUME NEW what \in Whats, DeliverMessage(what)
      PROVE  FaceInv'
  <2>1. BagToSet(mMessages') \subseteq Whats
    <3>1. mMessages' = mMessages \/ mMessages' = mMessages (+) SetToBag({what})
      BY <1>3 DEF DeliverMessage
    <3>2. BagToSet(mMessages (+) SetToBag({what})) = BagToSet(mMessages) \cup {what}
      BY CountedBag
    <3> QED BY <3>1, <3>2 DEF FaceInv
  <2>2. delivered' \in 0 .. MaxMessages /\ mMessageCounter' \in 0 .. delivered'
    BY <1>3, MessagesAssumption DEF DeliverMessage, CanDeliver, FaceInv
  <2>3. spoiled' = {}
    <3>1. HandlerLayoutHolds(layout) /\ spoiled = {}
      BY <1>3 DEF DeliverMessage, CanDeliver, FaceInv
    <3>2. CASE mVerboseStats
      <4>1. Touches({"messageCounter", "verboseStats"} \cup {"messages"})
        BY <1>3, <3>2 DEF DeliverMessage
      <4> QED BY <3>1, <4>1, TouchesNothingElse
    <3>3. CASE ~mVerboseStats
      <4>1. Touches({"messageCounter", "verboseStats"} \cup {})
        BY <1>3, <3>3 DEF DeliverMessage
      <4> QED BY <3>1, <4>1, TouchesNothingElse
    <3> QED BY <3>2, <3>3
  <2>4. /\ layout' = layout /\ built' = built /\ faulted' = faulted
        /\ mVerboseStats' = mVerboseStats
    BY <1>3 DEF DeliverMessage
  <2> QED BY <2>1, <2>2, <2>3, <2>4 DEF FaceInv
<1>4. ASSUME NEW verbose \in BOOLEAN, NEW clear \in BOOLEAN, Dump(verbose, clear)
      PROVE  FaceInv'
  <2>1. BagToSet(EmptyBag) = {}
    BY DEF BagToSet, EmptyBag, SetToBag
  <2>2. BagToSet(mMessages') \subseteq Whats
    BY <1>4, <2>1 DEF Dump, FaceInv
  <2>3. mMessageCounter' \in 0 .. delivered
    BY <1>4, MessagesAssumption DEF Dump, FaceInv
  <2>4. spoiled' = {}
    BY <1>4, TouchesNothingElse DEF Dump, StatusTouches, CanDeliver, FaceInv
  <2> QED BY <1>4, <2>2, <2>3, <2>4 DEF Dump, FaceInv
<1>5. CASE UNCHANGED faceVars
  BY <1>5 DEF faceVars, stats, FaceInv
<1> QED BY <1>1, <1>2, <1>3, <1>4, <1>5 DEF FaceNext

LEMMA FaceSafe == FaceInv => FaceTypeOK /\ ClosureIsSafe
<1> SUFFICES ASSUME FaceInv PROVE FaceTypeOK /\ ClosureIsSafe
  OBVIOUS
<1>1. mMessageCounter \in 0 .. MaxMessages
  BY MessagesAssumption DEF FaceInv
<1> QED BY <1>1 DEF FaceInv, FaceTypeOK, ClosureIsSafe

-----------------------------------------------------------------------------
(* Panic to recovery. *)

PanicType ==
  /\ early \in Reasons \cup {"unset"} /\ final \in Reasons \cup {"unset"}
  /\ reason \in Reasons \cup {"unset"}
  /\ bootstat \in {"start", "early", "done"} /\ pending \in 0 .. 2
  /\ helper \in {"none", "reads", "asks", "sleeps"}
  /\ asked \in BOOLEAN /\ refusedSet \in BOOLEAN /\ down \in BOOLEAN
(* How far bootstat has come bounds what it has set and triggered. *)
BootOK ==
  /\ bootstat = "start" => early = "unset" /\ final = "unset" /\ reason = "unset" /\ pending = 0
  /\ bootstat = "early" => final = "unset" /\ pending <= 1
(* The property is one of the two reasons that bootstat gave. *)
ReasonOK == reason = "unset" \/ reason = early \/ reason = final
AskOK == helper = "asks" \/ asked => early \in Panics \/ final \in Panics
PanicInv == PanicType /\ BootOK /\ ReasonOK /\ AskOK

LEMMA PanicStep == PanicInv /\ [PanicNext]_panicVars => PanicInv'
<1> SUFFICES ASSUME PanicInv, [PanicNext]_panicVars PROVE PanicInv'
  OBVIOUS
<1>a. PanicType /\ BootOK /\ ReasonOK /\ AskOK
  BY DEF PanicInv
<1>r. "unset" \notin Panics /\ Panics \subseteq Reasons
  BY DEF Panics, Reasons
<1>1. CASE BootstatEarly
  <2>1. PanicType'
    BY <1>1, <1>a DEF BootstatEarly, PanicType, BootOK, SetsReason
  <2>2. BootOK'
    BY <1>1, <1>a DEF BootstatEarly, PanicType, BootOK, SetsReason
  <2>3. ReasonOK'
    BY <1>1, <1>a DEF BootstatEarly, BootOK, ReasonOK, SetsReason
  <2>4. AskOK'
    BY <1>1, <1>a, <1>r DEF BootstatEarly, AskOK, BootOK, ReasonOK, IsPanic
  <2> QED BY <2>1, <2>2, <2>3, <2>4 DEF PanicInv
<1>2. CASE BootstatRefines
  <2>1. PanicType'
    BY <1>2, <1>a DEF BootstatRefines, PanicType, BootOK, SetsReason
  <2>2. BootOK'
    BY <1>2, <1>a DEF BootstatRefines, PanicType, BootOK, SetsReason
  <2>3. ReasonOK'
    BY <1>2, <1>a DEF BootstatRefines, BootOK, ReasonOK, SetsReason
  <2>4. AskOK'
    BY <1>2, <1>a, <1>r DEF BootstatRefines, AskOK, BootOK, ReasonOK, IsPanic
  <2> QED BY <2>1, <2>2, <2>3, <2>4 DEF PanicInv
<1>3. CASE Starts
  <2>1. PanicType'
    BY <1>3, <1>a DEF Starts, PanicType, BootOK, SetsReason
  <2>2. BootOK'
    BY <1>3, <1>a DEF Starts, PanicType, BootOK, SetsReason
  <2>3. ReasonOK'
    BY <1>3, <1>a DEF Starts, BootOK, ReasonOK, SetsReason
  <2>4. AskOK'
    BY <1>3, <1>a, <1>r DEF Starts, AskOK, BootOK, ReasonOK, IsPanic
  <2> QED BY <2>1, <2>2, <2>3, <2>4 DEF PanicInv
<1>4. CASE ReadsReason
  <2>1. PanicType'
    BY <1>4, <1>a DEF ReadsReason, PanicType, BootOK, SetsReason
  <2>2. BootOK'
    BY <1>4, <1>a DEF ReadsReason, PanicType, BootOK, SetsReason
  <2>3. ReasonOK'
    BY <1>4, <1>a DEF ReadsReason, BootOK, ReasonOK, SetsReason
  <2>4. AskOK'
    BY <1>4, <1>a, <1>r DEF ReadsReason, AskOK, BootOK, ReasonOK, IsPanic
  <2> QED BY <2>1, <2>2, <2>3, <2>4 DEF PanicInv
<1>5. CASE AsksRecovery
  <2>1. PanicType'
    BY <1>5, <1>a DEF AsksRecovery, PanicType, BootOK, SetsReason
  <2>2. BootOK'
    BY <1>5, <1>a DEF AsksRecovery, PanicType, BootOK, SetsReason
  <2>3. ReasonOK'
    BY <1>5, <1>a DEF AsksRecovery, BootOK, ReasonOK, SetsReason
  <2>4. AskOK'
    BY <1>5, <1>a, <1>r DEF AsksRecovery, AskOK, BootOK, ReasonOK, IsPanic
  <2> QED BY <2>1, <2>2, <2>3, <2>4 DEF PanicInv
<1>6. CASE SleepEnds
  <2>1. PanicType'
    BY <1>6, <1>a DEF SleepEnds, PanicType, BootOK, SetsReason
  <2>2. BootOK'
    BY <1>6, <1>a DEF SleepEnds, PanicType, BootOK, SetsReason
  <2>3. ReasonOK'
    BY <1>6, <1>a DEF SleepEnds, BootOK, ReasonOK, SetsReason
  <2>4. AskOK'
    BY <1>6, <1>a, <1>r DEF SleepEnds, AskOK, BootOK, ReasonOK, IsPanic
  <2> QED BY <2>1, <2>2, <2>3, <2>4 DEF PanicInv
<1>7. CASE InitReboots
  <2>1. PanicType'
    BY <1>7, <1>a DEF InitReboots, PanicType, BootOK, SetsReason
  <2>2. BootOK'
    BY <1>7, <1>a DEF InitReboots, PanicType, BootOK, SetsReason
  <2>3. ReasonOK'
    BY <1>7, <1>a DEF InitReboots, BootOK, ReasonOK, SetsReason
  <2>4. AskOK'
    BY <1>7, <1>a, <1>r DEF InitReboots, AskOK, BootOK, ReasonOK, IsPanic
  <2> QED BY <2>1, <2>2, <2>3, <2>4 DEF PanicInv
<1>8. CASE UNCHANGED panicVars
  BY <1>8 DEF panicVars, PanicInv, PanicType, BootOK, ReasonOK, AskOK
<1> QED BY <1>1, <1>2, <1>3, <1>4, <1>5, <1>6, <1>7, <1>8 DEF PanicNext

-----------------------------------------------------------------------------
(* The assertion of the update package. *)

(* The result compares the name, whosever it is, with the argument. *)
GateInv ==
  /\ firmware \in Firmware /\ bootloader \in Seq(Letters) /\ required \in Seq(Letters)
  /\ result \in {"none", "abort", "0", "1"}
  /\ result \in {"0", "1"} =>
       (result = "1" <=> Version(bootloader) >= First(required))

LEMMA NameIsOne ==
  ASSUME NEW fw \in Firmware
  PROVE  /\ Name(fw) \in Seq(Letters) /\ Len(Name(fw)) = 5
         /\ Version(Name(fw)) = fw.major /\ fw.major \in Nat
<1>1. fw.major \in Letters /\ fw.year \in Letters /\ fw.month \in Letters
  BY DEF Firmware
<1>2. Name(fw) \in Seq(Letters) /\ Len(Name(fw)) = 5 /\ Name(fw)[2] = fw.major
  BY <1>1, LettersAssumption DEF Name
<1>3. Version(Name(fw)) = fw.major
  BY <1>2 DEF Version
<1> QED BY <1>1, <1>2, <1>3, LettersAssumption

LEMMA GateStart == GateInit => GateInv
  BY LettersAssumption DEF GateInit, GateInv, Firmware

LEMMA GateStep == GateInv /\ [GateNext]_gateVars => GateInv'
<1> SUFFICES ASSUME GateInv, [GateNext]_gateVars PROVE GateInv'
  OBVIOUS
<1>1. ASSUME NEW fw \in Firmware, NEW name \in {Name(fw)} \cup ForeignNames,
             Boots(fw, name)
      PROVE  GateInv'
  <2>1. name \in Seq(Letters)
    BY NameIsOne, NamesAssumption
  <2> QED BY <1>1, <2>1 DEF Boots, GateInv
<1>2. ASSUME NEW arg \in Arguments, NEW readable \in BOOLEAN,
             VerifyBootloader(arg, readable)
      PROVE  GateInv'
  <2>1. arg \in Seq(Letters)
    BY ArgumentsAssumption
  <2> QED BY <1>2, <2>1 DEF VerifyBootloader, GateInv
<1>3. CASE UNCHANGED gateVars
  BY <1>3 DEF gateVars, GateInv
<1> QED BY <1>1, <1>2, <1>3 DEF GateNext

LEMMA GateSafe == GateInv => GateTypeOK /\ InstallsOnEnough
<1> SUFFICES ASSUME GateInv PROVE GateTypeOK /\ InstallsOnEnough
  OBVIOUS
<1>1. ASSUME required # <<>>
      PROVE  First(required) = required[1] /\ required[1] \in Nat /\ required[1] > 0
  <2>1. required \in Seq(Letters)
    BY DEF GateInv
  <2>2. required[1] \in Letters
    BY <1>1, <2>1
  <2>3. required[1] \in Nat /\ required[1] # 0
    BY <2>2, LettersAssumption
  <2>4. First(required) = required[1]
    BY <1>1 DEF First
  <2> QED BY <2>3, <2>4
<1>2. ASSUME result \in {"0", "1"}, required # <<>>, bootloader = Name(firmware)
      PROVE  result = "1" <=> firmware.major >= required[1]
  <2>1. Version(bootloader) = firmware.major
    BY <1>2, NameIsOne DEF GateInv
  <2> QED BY <1>1, <1>2, <2>1 DEF GateInv
<1>3. ASSUME result \in {"0", "1"}, required # <<>>, Len(bootloader) < 4
      PROVE  result = "0"
  <2>1. Len(bootloader) \in Nat
    BY DEF GateInv
  <2>2. Version(bootloader) = 0
    BY <1>3, <2>1 DEF Version
  <2>3. ~(Version(bootloader) >= First(required))
    BY <1>1, <1>3, <2>2
  <2> QED BY <1>3, <2>3 DEF GateInv
<1> QED BY <1>2, <1>3 DEF GateInv, GateTypeOK, InstallsOnEnough

-----------------------------------------------------------------------------
(* The frames: what was sent is what the encoder makes of the request. *)

FrameInv ==
  \/ request = NoRequest /\ frame = <<>>
  \/ request \in Registrations /\ frame = Registration(request)
  \/ request \in Preferences /\ frame = Preference(request)

LEMMA FrameStart == FrameInit => FrameInv
  BY DEF FrameInit, FrameInv

LEMMA FrameStep == FrameInv /\ [FrameNext]_frameVars => FrameInv'
<1> SUFFICES ASSUME FrameInv, [FrameNext]_frameVars PROVE FrameInv'
  OBVIOUS
<1>1. ASSUME NEW r \in Registrations, SendRegistration(r) PROVE FrameInv'
  BY <1>1 DEF SendRegistration, FrameInv
<1>2. ASSUME NEW r \in Preferences, SendPreference(r) PROVE FrameInv'
  BY <1>2 DEF SendPreference, FrameInv
<1>3. CASE UNCHANGED frameVars
  BY <1>3 DEF frameVars, FrameInv
<1> QED BY <1>1, <1>2, <1>3 DEF FrameNext

(* Byte by byte, what a registration is made of. *)
RegistrationIs(r, f, impu, n) ==
  /\ DOMAIN f = 0 .. 274 /\ f = [i \in 0 .. 274 |-> f[i]]
  /\ n \in 0 .. 255 /\ n = (IF Len(impu) < 255 THEN Len(impu) ELSE 255)
  /\ impu \in Seq(Bytes) /\ impu = Impu(r)
  /\ f[0] = 19 /\ f[1] = 1 /\ f[5] = 1
  /\ f[7] = If(r.registered, 1) /\ f[8] = RegistrationFeatures(r) /\ f[17] = n
  /\ \A i \in 18 .. 273 : f[i] = IF i - 17 <= n THEN impu[i - 17] ELSE 0
  /\ f[274] = ModemRat(r.rilRat)
  /\ \A i \in {2, 3, 4, 6} \cup (9 .. 16) : f[i] \in Bytes

LEMMA RegistrationAt ==
  ASSUME NEW r \in Registrations
  PROVE  RegistrationIs(r, Registration(r), Impu(r), ImpuLen(Impu(r)))
<1> DEFINE impu == Impu(r)
           n == ImpuLen(impu)
           f == Frame(SUB_REGISTRATION, REG_BODY_LEN)
           g == [f EXCEPT ![7] = If(r.registered, 1), ![8] = RegistrationFeatures(r),
                          ![9] = 11, ![17] = n % 256]
           c == [i \in 0 .. 274 |-> IF i \in 18 .. 18 + n - 1 THEN impu[i - 18 + 1]
                                                              ELSE g[i]]
<1>1. impu \in Seq(Bytes)
  BY ImpusAssumption DEF Registrations, Impu
<1>2. n \in 0 .. 255 /\ n = IF Len(impu) < 255 THEN Len(impu) ELSE 255
  <2>1. Len(impu) \in Nat
    BY <1>1
  <2> HIDE DEF impu
  <2>2. n = IF Len(impu) < 255 THEN Len(impu) ELSE 255
    BY DEF ImpuLen, MAX_IMPU_UTF8
  <2> HIDE DEF n
  <2>3. \A k \in Nat : k < 255 => k \in 0 .. 255
    OBVIOUS
  <2>4. CASE Len(impu) < 255
    <3>1. n = Len(impu)
      BY <2>2, <2>4, Zenon
    <3> QED BY <2>1, <2>2, <2>3, <2>4, <3>1
  <2>5. CASE ~(Len(impu) < 255)
    <3>1. n = 255
      BY <2>2, <2>5, Zenon
    <3>2. 255 \in 0 .. 255
      OBVIOUS
    <3> QED BY <2>2, <3>1, <3>2, Zenon
  <2> QED BY <2>4, <2>5, Zenon
<1>3. f = [[i \in 0 .. 274 |-> 0] EXCEPT ![0] = 19, ![1] = 1, ![4] = 112, ![5] = 1, ![6] = 3]
  BY DEF Frame, HEADER_LEN, REG_BODY_LEN, SUB_REGISTRATION, MAIN_IIL, TYPE_NOTI
<1>4. /\ DOMAIN f = 0 .. 274
      /\ f[0] = 19 /\ f[1] = 1 /\ f[4] = 112 /\ f[5] = 1 /\ f[6] = 3
      /\ \A i \in 2 .. 3 : f[i] = 0
      /\ \A i \in 7 .. 274 : f[i] = 0
  BY <1>3
<1> HIDE DEF f
<1>5. /\ DOMAIN g = 0 .. 274
      /\ g[0] = 19 /\ g[1] = 1 /\ g[4] = 112 /\ g[5] = 1 /\ g[6] = 3
      /\ g[7] = If(r.registered, 1) /\ g[8] = RegistrationFeatures(r) /\ g[9] = 11
      /\ g[17] = n % 256
      /\ \A i \in 2 .. 3 : g[i] = 0
      /\ \A i \in 10 .. 16 : g[i] = 0
      /\ \A i \in 18 .. 274 : g[i] = 0
  BY <1>4
<1>6. Registration(r) = [c EXCEPT ![274] = ModemRat(r.rilRat)]
  <2>1. /\ 7 + 0 = 7 /\ 7 + 1 = 8 /\ 7 + 2 = 9 /\ 7 + 10 = 17 /\ 7 + 11 = 18
        /\ 7 + 267 = 274
    OBVIOUS
  <2>2. Registration(r) =
          [Copied([f EXCEPT ![7 + 0] = If(r.registered, 1),
                            ![7 + 1] = RegistrationFeatures(r),
                            ![7 + 2] = 11, ![7 + 10] = n % 256], 7 + 11, impu, n)
             EXCEPT ![7 + 267] = ModemRat(r.rilRat)]
    BY Zenon DEF Registration, HEADER_LEN, REG_STATE, REG_FEATURES, REG_PDN_TYPE,
                 REG_IMPU_LEN, REG_IMPU, REG_RAT, f
  <2>3. Registration(r) = [Copied(g, 18, impu, n) EXCEPT ![274] = ModemRat(r.rilRat)]
    BY <2>1, <2>2, Zenon
  <2>4. Copied(g, 18, impu, n) = c
    <3> HIDE DEF g, n, impu
    <3> QED BY <1>5 DEF Copied
  <2> QED BY <2>3, <2>4, Zenon
<1>7. n % 256 = n
  <2> HIDE DEF n
  <2>1. \A k \in 0 .. 255 : k % 256 = k
    OBVIOUS
  <2> QED BY <1>2, <2>1, ZenonT(40)
<1> HIDE DEF g, n, impu
<1>8. /\ DOMAIN Registration(r) = 0 .. 274 /\ Registration(r)[274] = ModemRat(r.rilRat)
      /\ \A i \in 0 .. 273 : Registration(r)[i] = c[i]
  BY <1>6
<1>9. /\ \A i \in 0 .. 17 : c[i] = g[i]
      /\ \A i \in 18 .. 273 : c[i] = IF i - 17 <= n THEN impu[i - 17] ELSE 0
  <2>1. ASSUME NEW i \in 0 .. 17 PROVE c[i] = g[i]
    <3>1. n \in Nat
      BY <1>2
    <3>2. i \in 0 .. 274 /\ ~(i \in 18 .. 18 + n - 1)
      BY <3>1
    <3> QED BY <3>2
  <2>2. ASSUME NEW i \in 18 .. 273 PROVE c[i] = IF i - 17 <= n THEN impu[i - 17] ELSE 0
    <3>1. i - 18 + 1 = i - 17 /\ (i \in 18 .. 18 + n - 1 <=> i - 17 <= n)
      BY <1>2
    <3>2. g[i] = 0
      BY <1>5
    <3> QED BY <3>1, <3>2
  <2> QED BY <2>1, <2>2
<1> HIDE DEF c
<1>10. \A i \in {2, 3, 4, 6} \cup (9 .. 16) : Registration(r)[i] \in Bytes
  <2>1. \A i \in {2, 3, 4, 6} \cup (9 .. 16) : g[i] \in {0, 3, 11, 112}
    BY <1>5
  <2> QED BY <2>1, <1>8, <1>9 DEF Bytes
<1>11. \A i \in 18 .. 273 : Registration(r)[i] = IF i - 17 <= n THEN impu[i - 17] ELSE 0
  BY <1>8, <1>9, SMTT(30)
<1>13. Registration(r) = [i \in 0 .. 274 |-> Registration(r)[i]]
  <2>1. c = [i \in 0 .. 274 |-> c[i]]
    BY DEF c
  <2> QED BY <1>6, <2>1
<1>12. /\ Registration(r)[0] = 19 /\ Registration(r)[1] = 1 /\ Registration(r)[5] = 1
       /\ Registration(r)[7] = If(r.registered, 1)
       /\ Registration(r)[8] = RegistrationFeatures(r)
       /\ Registration(r)[17] = n
  BY <1>5, <1>7, <1>8, <1>9
<1> QED BY <1>1, <1>2, <1>8, <1>10, <1>11, <1>12, <1>13, Zenon DEF n, impu, RegistrationIs

LEMMA FeatureBits ==
  ASSUME NEW a \in BOOLEAN, NEW b \in BOOLEAN, NEW c \in BOOLEAN, NEW f,
         f = If(a, 1) + If(b, 2) + If(c, 8)
  PROVE  /\ f \in Bytes
         /\ (f \div 1) % 2 = 1 <=> a
         /\ (f \div 2) % 2 = 1 <=> b
         /\ (f \div 8) % 2 = 1 <=> c
<1>1. CASE a /\ b /\ c
  BY <1>1 DEF If, Bytes
<1>2. CASE a /\ b /\ ~c
  BY <1>2 DEF If, Bytes
<1>3. CASE a /\ ~b /\ c
  BY <1>3 DEF If, Bytes
<1>4. CASE a /\ ~b /\ ~c
  BY <1>4 DEF If, Bytes
<1>5. CASE ~a /\ b /\ c
  BY <1>5 DEF If, Bytes
<1>6. CASE ~a /\ b /\ ~c
  BY <1>6 DEF If, Bytes
<1>7. CASE ~a /\ ~b /\ c
  BY <1>7 DEF If, Bytes
<1>8. CASE ~a /\ ~b /\ ~c
  BY <1>8 DEF If, Bytes
<1> QED BY <1>1, <1>2, <1>3, <1>4, <1>5, <1>6, <1>7, <1>8

LEMMA SupportBits ==
  ASSUME NEW a \in BOOLEAN, NEW b \in BOOLEAN
  PROVE  /\ If(a, 1) + If(b, 2) \in Bytes
         /\ ((If(a, 1) + If(b, 2)) \div 1) % 2 = 1 <=> a
         /\ ((If(a, 1) + If(b, 2)) \div 2) % 2 = 1 <=> b
<1>1. CASE a /\ b
  BY <1>1 DEF If, Bytes
<1>2. CASE a /\ ~b
  BY <1>2 DEF If, Bytes
<1>3. CASE ~a /\ b
  BY <1>3 DEF If, Bytes
<1>4. CASE ~a /\ ~b
  BY <1>4 DEF If, Bytes
<1> QED BY <1>1, <1>2, <1>3, <1>4

LEMMA RatsApart ==
  /\ \A x \in RilRats \cup {0} : ModemRat(x) \in Bytes
  /\ \A x \in RilRats \cup {0}, y \in RilRats : x # y => ModemRat(x) # ModemRat(y)
<1>1. ModemRat(14) = 13 /\ ModemRat(18) = 18 /\ ModemRat(20) = 20 /\ ModemRat(0) = 0
  BY DEF ModemRat
<1> QED BY <1>1 DEF RilRats, Bytes

LEMMA RegistrationSafe ==
  ASSUME request \in Registrations, frame = Registration(request)
  PROVE  FrameTypeOK /\ FrameReadsBack
<1> DEFINE n == ImpuLen(Impu(request))
           impu == Impu(request)
<1>0. RegistrationIs(request, frame, impu, n)
  BY RegistrationAt, SMTT(30)
<1> HIDE DEF n, impu
<1>1. /\ DOMAIN frame = 0 .. 274 /\ frame = [i \in 0 .. 274 |-> frame[i]]
      /\ frame[0] = 19 /\ frame[1] = 1 /\ frame[5] = 1
      /\ frame[7] = If(request.registered, 1)
      /\ frame[8] = RegistrationFeatures(request) /\ frame[17] = n
      /\ frame[274] = ModemRat(request.rilRat)
  BY <1>0, ZenonT(40) DEF RegistrationIs
<1>m. /\ impu \in Seq(Bytes) /\ impu = Impu(request)
      /\ n = IF Len(impu) < 255 THEN Len(impu) ELSE 255
  BY <1>0, Zenon DEF RegistrationIs
<1>n. n \in 0 .. 255
  BY <1>0 DEF RegistrationIs
<1>b. /\ \A i \in 18 .. 273 : frame[i] = IF i - 17 <= n THEN impu[i - 17] ELSE 0
      /\ \A i \in {2, 3, 4, 6} \cup (9 .. 16) : frame[i] \in Bytes
  BY <1>0, Zenon DEF RegistrationIs
<1>2. /\ request.kind = "registration" /\ request.rilRat \in RilRats \cup {0}
      /\ request.registered \in BOOLEAN /\ request.volte \in BOOLEAN
      /\ request.smsIp \in BOOLEAN /\ request.video \in BOOLEAN
  BY DEF Registrations
<1>3. /\ frame[8] \in Bytes
      /\ (frame[8] \div 1) % 2 = 1 <=> request.registered /\ request.volte
      /\ (frame[8] \div 2) % 2 = 1 <=> request.registered /\ request.smsIp
      /\ (frame[8] \div 8) % 2 = 1 <=> request.registered /\ request.video
  <2>1. CASE request.registered
    <3>1. frame[8] = If(request.volte, 1) + If(request.smsIp, 2) + If(request.video, 8)
      BY <1>1, <2>1
         DEF RegistrationFeatures, FEATURE_VOLTE, FEATURE_SMSIP, FEATURE_PSVT
    <3>2. /\ frame[8] \in Bytes
          /\ (frame[8] \div 1) % 2 = 1 <=> request.volte
          /\ (frame[8] \div 2) % 2 = 1 <=> request.smsIp
          /\ (frame[8] \div 8) % 2 = 1 <=> request.video
      BY <1>2, <3>1, FeatureBits
    <3> QED BY <2>1, <3>2
  <2>2. CASE ~request.registered
    <3>1. frame[8] = 0
      BY <1>1, <2>2 DEF RegistrationFeatures
    <3> QED BY <2>2, <3>1 DEF Bytes
  <2> QED BY <1>2, <2>1, <2>2
<1>4. LengthReads
  BY <1>1 DEF LengthReads
<1>5. frame[7] \in Bytes /\ (frame[7] = 1 <=> request.registered)
  BY <1>1, <1>2 DEF If, Bytes
<1>6. frame[274] \in Bytes /\ \A y \in RilRats \ {request.rilRat} : frame[274] # ModemRat(y)
  BY <1>1, <1>2, RatsApart
<1>7. RegistrationReads
  BY <1>1, <1>3, <1>5, <1>6
     DEF RegistrationReads, Body, Has, HEADER_LEN, REG_STATE, REG_FEATURES, REG_RAT,
         FEATURE_VOLTE, FEATURE_SMSIP, FEATURE_PSVT, SUB_REGISTRATION
<1>8. AddressReads
  <2>1. n <= Len(impu) /\ (n < Len(impu) => n = 255)
    <3>1. Len(impu) \in Nat
      BY <1>m
    <3> QED BY <1>m, <3>1
  <2>2. ASSUME NEW i \in 1 .. n PROVE frame[18 + i - 1] = impu[i]
    <3>1. 18 + i - 1 \in 18 .. 273 /\ (18 + i - 1) - 17 = i /\ i <= n
      BY <1>n
    <3> QED BY <1>b, <3>1
  <2>3. ASSUME NEW i \in n + 1 .. 256 PROVE frame[18 + i - 1] = 0
    <3>1. 18 + i - 1 \in 18 .. 273 /\ (18 + i - 1) - 17 = i /\ ~(i <= n)
      BY <1>n
    <3> QED BY <1>b, <3>1
  <2>4. /\ Body(REG_IMPU_LEN) = n
        /\ \A i \in 1 .. 256 : Body(REG_IMPU + i - 1) = frame[18 + i - 1]
    <3>1. \A i \in 1 .. 256 : 7 + (11 + i - 1) = 18 + i - 1
      OBVIOUS
    <3> QED BY <1>1, <3>1 DEF Body, HEADER_LEN, REG_IMPU_LEN, REG_IMPU
  <2>5. (\A i \in 1 .. n : i \in 1 .. 256) /\ (\A i \in n + 1 .. 256 : i \in 1 .. 256)
    <3>1. n \in Nat /\ n <= 255
      BY <1>n
    <3>2. ASSUME NEW i \in 1 .. n PROVE i \in 1 .. 256
      BY <3>1
    <3>3. ASSUME NEW i \in n + 1 .. 256 PROVE i \in 1 .. 256
      BY <3>1
    <3> QED BY <3>2, <3>3
  <2>6. /\ \A i \in 1 .. n : Body(REG_IMPU + i - 1) = impu[i]
        /\ \A i \in n + 1 .. 256 : Body(REG_IMPU + i - 1) = 0
    BY <2>2, <2>3, <2>4, <2>5
  <2> QED BY <2>1, <2>4, <2>6, <1>m, ZenonT(40) DEF AddressReads
<1>9. PreferenceReads
  BY <1>2 DEF PreferenceReads
<1>10. frame \in [0 .. 274 -> Bytes]
  <2>1. ASSUME NEW i \in 18 .. 273 PROVE frame[i] \in Bytes
    <3>1. CASE i - 17 <= n
      <4>1. i - 17 \in 1 .. Len(impu)
        <5>1. Len(impu) \in Nat
          BY <1>m
        <5> QED BY <5>1, <1>m, <3>1
      <4>2. impu[i - 17] \in Bytes
        BY <1>m, <4>1
      <4> QED BY <1>b, <3>1, <4>2
    <3>2. CASE ~(i - 17 <= n)
      <4>1. frame[i] = 0
        BY <1>b, <3>2
      <4> QED BY <4>1 DEF Bytes
    <3> QED BY <3>1, <3>2
  <2>2. /\ frame[0] \in Bytes /\ frame[1] \in Bytes /\ frame[5] \in Bytes
        /\ frame[17] \in Bytes
    BY <1>1, <1>n DEF Bytes
  <2>4. \A i \in {0, 1, 5, 7, 8, 17, 274} : frame[i] \in Bytes
    BY <1>3, <1>5, <1>6, <2>2
  <2>5. \A i \in 0 .. 274 : frame[i] \in Bytes
    <3> SUFFICES ASSUME NEW i \in 0 .. 274 PROVE frame[i] \in Bytes
      OBVIOUS
    <3>1. CASE i \in {0, 1, 5, 7, 8, 17, 274}
      BY <2>4, <3>1, Zenon
    <3>2. CASE i \in {2, 3, 4, 6} \cup (9 .. 16)
      BY <1>b, <3>2, Zenon
    <3>3. CASE i \in 18 .. 273
      BY <2>1, <3>3, Zenon
    <3>4. \/ i \in {0, 1, 5, 7, 8, 17, 274}
          \/ i \in {2, 3, 4, 6} \cup (9 .. 16)
          \/ i \in 18 .. 273
      OBVIOUS
    <3> QED BY <3>1, <3>2, <3>3, <3>4
  <2> QED BY <1>1, <2>5
<1>11. FrameTypeOK
  BY <1>10 DEF FrameTypeOK, HEADER_LEN, REG_BODY_LEN
<1> QED BY <1>4, <1>7, <1>8, <1>9, <1>11 DEF FrameReadsBack

LEMMA PreferenceSafe ==
  ASSUME request \in Preferences, frame = Preference(request)
  PROVE  FrameTypeOK /\ FrameReadsBack
<1> DEFINE body == <<0, If(request.smsOverIms, 1), 0, UNSET, 3, 1, 3, 1, 0, UNSET,
                     If(request.volte, SUPPORT_VOLTE) + If(request.video, SUPPORT_VIDEO),
                     10, 1, 3>>
           f == Frame(SUB_PREFERENCE, PREF_BODY_LEN)
<1>1. /\ request.kind = "preference" /\ request.smsOverIms \in BOOLEAN
      /\ request.volte \in BOOLEAN /\ request.video \in BOOLEAN
  BY DEF Preferences
<1>2. f = [[i \in 0 .. 20 |-> 0] EXCEPT ![0] = 21, ![1] = 0, ![4] = 112, ![5] = 6, ![6] = 3]
  BY DEF Frame, HEADER_LEN, PREF_BODY_LEN, SUB_PREFERENCE, MAIN_IIL, TYPE_NOTI
<1>3. /\ DOMAIN f = 0 .. 20 /\ f[0] = 21 /\ f[1] = 0 /\ f[5] = 6
      /\ \A i \in 0 .. 20 : f[i] \in {0, 3, 6, 21, 112}
  BY <1>2
<1>4. /\ If(request.volte, 1) + If(request.video, 2) \in Bytes
      /\ ((If(request.volte, 1) + If(request.video, 2)) \div 1) % 2 = 1 <=> request.volte
      /\ ((If(request.volte, 1) + If(request.video, 2)) \div 2) % 2 = 1 <=> request.video
  BY <1>1, SupportBits
<1>5. If(request.smsOverIms, 1) \in {0, 1} /\ (If(request.smsOverIms, 1) = 1 <=> request.smsOverIms)
  BY <1>1 DEF If
<1>6. /\ body[2] = If(request.smsOverIms, 1)
      /\ body[11] = If(request.volte, 1) + If(request.video, 2)
      /\ \A j \in 1 .. 14 : body[j] \in Bytes
  <2>1. body[11] = If(request.volte, 1) + If(request.video, 2) /\ body[2] = If(request.smsOverIms, 1)
    BY DEF SUPPORT_VOLTE, SUPPORT_VIDEO
  <2>2. body[11] \in Bytes /\ body[2] \in Bytes
    BY <2>1, <1>4, <1>5 DEF Bytes
  <2>3. /\ body[1] = 0 /\ body[3] = 0 /\ body[4] = 255 /\ body[5] = 3 /\ body[6] = 1
        /\ body[7] = 3 /\ body[8] = 1 /\ body[9] = 0 /\ body[10] = 255
        /\ body[12] = 10 /\ body[13] = 1 /\ body[14] = 3
    BY DEF UNSET
  <2>4. \A j \in 1 .. 14 : j \in {1, 2, 3, 4, 5, 6, 7, 8, 9, 10, 11, 12, 13, 14}
    OBVIOUS
  <2> HIDE DEF body
  <2>5. \A j \in {1, 3, 4, 5, 6, 7, 8, 9, 10, 12, 13, 14} : body[j] \in Bytes
    BY <2>3 DEF Bytes
  <2> QED BY <2>1, <2>2, <2>4, <2>5
<1> HIDE DEF body, f
<1>7. Preference(request) =
        [i \in 0 .. 20 |-> IF i \in 7 .. 7 + 14 - 1 THEN body[i - 7 + 1] ELSE f[i]]
  BY <1>3 DEF Preference, Copied, HEADER_LEN, PREF_BODY_LEN, body, f
<1>8. /\ DOMAIN frame = 0 .. 20
      /\ \A i \in 0 .. 6 : frame[i] = f[i]
      /\ \A i \in 7 .. 20 : frame[i] = body[i - 6]
  <2>1. \A i \in 7 .. 20 : i \in 7 .. 7 + 14 - 1 /\ i - 7 + 1 = i - 6
    OBVIOUS
  <2>2. \A i \in 0 .. 6 : ~(i \in 7 .. 7 + 14 - 1)
    OBVIOUS
  <2> QED BY <1>7, <2>1, <2>2
<1>9. /\ frame[0] = 21 /\ frame[1] = 0 /\ frame[5] = 6
      /\ frame[8] = body[2] /\ frame[17] = body[11]
  <2>1. 8 - 6 = 2 /\ 17 - 6 = 11
    OBVIOUS
  <2> QED BY <1>3, <1>8, <2>1
<1>10. LengthReads
  BY <1>8, <1>9 DEF LengthReads
<1>11. PreferenceReads
  BY <1>1, <1>4, <1>5, <1>6, <1>9
     DEF PreferenceReads, Body, Has, HEADER_LEN, SUB_PREFERENCE, SUPPORT_VOLTE, SUPPORT_VIDEO
<1>12. RegistrationReads /\ AddressReads
  BY <1>1 DEF RegistrationReads, AddressReads
<1>13. frame \in [0 .. 20 -> Bytes]
  <2>1. \A i \in 0 .. 6 : frame[i] \in Bytes
    BY <1>3, <1>8 DEF Bytes
  <2>2. \A i \in 7 .. 20 : i - 6 \in 1 .. 14
    OBVIOUS
  <2>3. \A i \in 7 .. 20 : frame[i] \in Bytes
    BY <1>6, <1>8, <2>2
  <2>4. \A i \in 0 .. 20 : frame[i] \in Bytes
    BY <2>1, <2>3
  <2>5. frame = [i \in 0 .. 20 |-> frame[i]]
    BY <1>7
  <2> QED BY <2>4, <2>5
<1>14. FrameTypeOK
  BY <1>13 DEF FrameTypeOK, HEADER_LEN, PREF_BODY_LEN
<1> QED BY <1>10, <1>11, <1>12, <1>14 DEF FrameReadsBack

LEMMA FrameSafe == FrameInv => FrameTypeOK /\ FrameReadsBack
<1> SUFFICES ASSUME FrameInv PROVE FrameTypeOK /\ FrameReadsBack
  OBVIOUS
<1>1. CASE request = NoRequest /\ frame = <<>>
  BY <1>1 DEF FrameTypeOK, FrameReadsBack
<1> QED BY <1>1, RegistrationSafe, PreferenceSafe DEF FrameInv

-----------------------------------------------------------------------------
(* All five. *)

ProbeInv == EngineOK /\ RecordOK /\ PlaceOK /\ SeenOK /\ CleanOK
ToolsInv == ProbeInv /\ FaceInv /\ PanicInv /\ GateInv /\ FrameInv

LEMMA ProbeStart == ProbeInit => ProbeInv
<1> SUFFICES ASSUME ProbeInit PROVE ProbeInv
  OBVIOUS
<1>1. EngineOK
  <2>1. held \in 0 .. 1 /\ taken \in 0 .. MaxTaken /\ code \in 0 .. 5
    BY ProbeBoundsAssumption DEF ProbeInit
  <2> QED BY <2>1 DEF ProbeInit, EngineOK
<1>2. RecordOK
  BY DEF ProbeInit, RecordOK, DumpShowsRecord
<1>3. PlaceOK
  BY ProbeBoundsAssumption DEF ProbeInit, PlaceOK, Looking
<1>4. SeenOK
  BY DEF ProbeInit, SeenOK, Looking
<1>5. CleanOK
  BY DEF ProbeInit, CleanOK
<1> QED BY <1>1, <1>2, <1>3, <1>4, <1>5 DEF ProbeInv

LEMMA PanicStart == PanicInit => PanicInv
<1> SUFFICES ASSUME PanicInit PROVE PanicInv
  OBVIOUS
<1>1. PanicType
  <2>1. pending \in 0 .. 2
    BY DEF PanicInit
  <2>2. asked \in BOOLEAN /\ refusedSet \in BOOLEAN /\ down \in BOOLEAN
    BY DEF PanicInit
  <2> QED BY <2>1, <2>2 DEF PanicInit, PanicType
<1>2. BootOK
  BY DEF PanicInit, BootOK
<1>3. ReasonOK /\ AskOK
  BY DEF PanicInit, ReasonOK, AskOK
<1> QED BY <1>1, <1>2, <1>3 DEF PanicInv

LEMMA ToolsStep == ToolsInv /\ [Next]_vars => ToolsInv'
<1> SUFFICES ASSUME ToolsInv, [Next]_vars PROVE ToolsInv'
  OBVIOUS
<1>1. /\ [ProbeNext]_probeVars /\ [FaceNext]_faceVars
      /\ [PanicNext]_panicVars /\ [GateNext]_gateVars /\ [FrameNext]_frameVars
  BY DEF Next, Probe, Face, Panic, Gate, Frames, Abi, vars
<1>2. ProbeInv'
  <2>1. EngineOK' /\ RecordOK' /\ PlaceOK' /\ CleanOK'
    BY <1>1, EngineStep, RecordStep, PlaceStep, CleanStep DEF ToolsInv, ProbeInv
  <2>2. SeenOK'
    BY <1>1, <2>1, SeenStep DEF ToolsInv, ProbeInv
  <2> QED BY <2>1, <2>2 DEF ProbeInv
<1>3. FaceInv' /\ PanicInv' /\ GateInv' /\ FrameInv'
  BY <1>1, FaceStep, PanicStep, GateStep, FrameStep DEF ToolsInv
<1> QED BY <1>2, <1>3 DEF ToolsInv

(* The strengthening of the invariants below is inductive. *)
THEOREM ToolsAlways == Spec => []ToolsInv
<1>1. Init => ToolsInv
  BY ProbeStart, FaceStart, PanicStart, GateStart, FrameStart DEF Init, ToolsInv
<1> QED BY <1>1, ToolsStep, PTL DEF Spec

LEMMA ProbeSafe == ProbeInv => ProbeTypeOK /\ ProbeIsSound
<1> SUFFICES ASSUME ProbeInv PROVE ProbeTypeOK /\ ProbeIsSound
  OBVIOUS
<1>1. ProbeTypeOK
  BY DEF ProbeInv, EngineOK, RecordOK, PlaceOK, SeenOK, ProbeTypeOK
<1>2. EngineAlive
  BY DEF ProbeInv, EngineOK, EngineAlive
<1>3. DumpShowsRecord
  BY DEF ProbeInv, RecordOK
<1>4. ASSUME stage = "unload", config # Missing PROVE seen = Counted
  <2>1. \A c, s \in Nat : <<c, s>> \in seen <=> InModel(c, s)
    BY <1>4 DEF ProbeInv, SeenOK
  <2>2. Len(config) \in Nat
    BY <1>4, ConfigurationOf, ProbeBoundsAssumption DEF ProbeInv, PlaceOK
  <2>3. \A c \in 1 .. Len(config) : c \in Nat
    BY <2>2
  <2>4. ASSUME NEW p \in seen PROVE p \in Counted
    <3>1. PICK c \in 1 .. MaxCameras, s \in 0 .. MaxSurfaces : p = <<c, s>>
      BY DEF ProbeInv, SeenOK
    <3>2. c \in Nat /\ s \in Nat
      BY ProbeBoundsAssumption
    <3>3. InModel(c, s)
      BY <2>1, <3>1, <3>2
    <3> QED BY <3>1, <3>3 DEF InModel, Counted
  <2>5. ASSUME NEW p \in Counted PROVE p \in seen
    <3>1. CASE \E c \in 1 .. Len(config) : p = <<c, 0>>
      BY <3>1, <2>1, <2>3 DEF InModel
    <3>2. ASSUME NEW c \in 1 .. Len(config), config[c] # Missing,
                 NEW s \in 1 .. Len(config[c].surfaces), p = <<c, s>>
          PROVE  p \in seen
      <4>1. Len(config[c].surfaces) \in Nat
        BY <3>2, <1>4, ConfigurationOf, CameraOf, ProbeBoundsAssumption DEF ProbeInv, PlaceOK
      <4>2. s \in Nat /\ c \in Nat
        BY <4>1, <2>3
      <4> QED BY <4>2, <3>2, <2>1 DEF InModel
    <3> QED BY <3>1, <3>2 DEF Counted
  <2> QED BY <2>4, <2>5
<1>5. WalkVisitsAll
  BY <1>4 DEF WalkVisitsAll
<1>6. CleanMeansStock
  BY DEF ProbeInv, CleanOK, IsClean, CleanMeansStock
<1> QED BY <1>1, <1>2, <1>3, <1>5, <1>6 DEF ProbeIsSound

(* Type correctness of the five programs, for a capture model and a record *)
(* of any size, any layouts, letters and addresses.                        *)
THEOREM ToolsTypeOK == Spec => []TypeOK
<1>1. PanicInv => PanicTypeOK
  BY DEF PanicInv, PanicType, PanicTypeOK
<1>2. ToolsInv => TypeOK
  BY <1>1, ProbeSafe, FaceSafe, GateSafe, FrameSafe DEF ToolsInv, TypeOK
<1> QED BY <1>2, ToolsAlways, PTL

(* SecfrProbe.cpp: the engine lives through every call, the dump loses no  *)
(* byte of the record, the walk sees every camera and surface, and a clean *)
(* run means the stock model.                                              *)
THEOREM ProbeIsSoundHolds == Spec => []ProbeIsSound
<1>1. ToolsInv => ProbeIsSound
  BY ProbeSafe DEF ToolsInv
<1> QED BY <1>1, ToolsAlways, PTL

(* FaceBlobAbiGuard.cpp and the AHandler shim: whatever layouts a build    *)
(* can lead to, of what the guards let through every table is found where  *)
(* the blob has stored it, the objects fit, and the bytes that the         *)
(* system's code touches in a handler are nobody else's.                   *)
THEOREM ClosureIsSafeHolds == Spec => []ClosureIsSafe
<1>1. ToolsInv => ClosureIsSafe
  BY FaceSafe DEF ToolsInv
<1> QED BY <1>1, ToolsAlways, PTL

(* recovery_updater.cpp: for any letters, any names of other bootloaders   *)
(* and any argument, an update goes on Samsung's firmware exactly if it is *)
(* of the major version the update names, and on nothing whose name is     *)
(* shorter than four characters.                                           *)
THEOREM InstallsOnEnoughHolds == Spec => []InstallsOnEnough
<1>1. ToolsInv => InstallsOnEnough
  BY GateSafe DEF ToolsInv
<1> QED BY <1>1, ToolsAlways, PTL

(* panic_to_recovery.c: a boot goes to recovery only if bootstat called    *)
(* the last one a panic, whatever the property holds when a helper runs.   *)
THEOREM RecoveryNeedsPanicHolds == Spec => []RecoveryNeedsPanic
<1>1. ToolsInv => RecoveryNeedsPanic
  BY DEF ToolsInv, PanicInv, AskOK, RecoveryNeedsPanic
<1> QED BY <1>1, ToolsAlways, PTL

(* IilFrame.java: a reader who goes by a frame's own length bytes and the  *)
(* places of its fields gets what the client said, for any address: at     *)
(* 255 bytes it is cut, and no byte of it falls into another field.        *)
THEOREM FrameReadsBackHolds == Spec => []FrameReadsBack
<1>1. ToolsInv => FrameReadsBack
  BY FrameSafe DEF ToolsInv
<1> QED BY <1>1, ToolsAlways, PTL

-----------------------------------------------------------------------------
(* BlobAbi: numbers. *)

SlebBytes(s, n) == IF -64 <= n /\ n <= 63 THEN <<n % 128>>
                   ELSE <<128 + (n % 128)>> \o s[n \div 128]

(* Right for all numbers up to m, either sign. *)
SlebUpTo(s, m) == /\ s = [n \in Int |-> s[n]]
                  /\ \A n \in -m .. m : s[n] = SlebBytes(s, n)
Abs(n) == IF n < 0 THEN -n ELSE n

LEMMA SlebSmaller ==
  ASSUME NEW n \in Int, ~(-64 <= n /\ n <= 63)
  PROVE  n \div 128 \in Int /\ Abs(n \div 128) \in Nat /\ Abs(n \div 128) < Abs(n)
<1>1. n \div 128 \in Int
  OBVIOUS
<1>2. n < -64 \/ n > 63
  OBVIOUS
<1> QED BY <1>1, <1>2 DEF Abs

LEMMA SlebUpToExists ==
  ASSUME NEW m \in Nat
  PROVE  \E s : SlebUpTo(s, m)
<1> DEFINE T == {k \in Nat : ~\E s : SlebUpTo(s, k)}
<1>1. \E s : SlebUpTo(s, 0)
  <2> DEFINE s == [n \in Int |-> <<n % 128>>]
  <2>1. \A n \in -0 .. 0 : s[n] = SlebBytes(s, n)
    BY DEF SlebBytes
  <2>2. s = [n \in Int |-> s[n]]
    OBVIOUS
  <2> HIDE DEF s
  <2> QED BY <2>1, <2>2 DEF SlebUpTo
<1>2. ASSUME NEW k \in Nat, \E s : SlebUpTo(s, k) PROVE \E s : SlebUpTo(s, k + 1)
  <2>1. PICK s : SlebUpTo(s, k)
    BY <1>2
  <2> DEFINE t == [n \in Int |-> IF Abs(n) = k + 1 THEN SlebBytes(s, n) ELSE s[n]]
  <2>2. ASSUME NEW n \in -(k + 1) .. k + 1 PROVE t[n] = SlebBytes(t, n)
    <3>1. t[n] = SlebBytes(s, n)
      <4>1. CASE Abs(n) = k + 1
        BY <4>1
      <4>2. CASE Abs(n) # k + 1
        <5>1. n \in -k .. k
          BY <4>2 DEF Abs
        <5>2. s[n] = SlebBytes(s, n)
          BY <2>1, <5>1 DEF SlebUpTo
        <5> QED BY <4>2, <5>2
      <4> QED BY <4>1, <4>2
    <3>2. ASSUME ~(-64 <= n /\ n <= 63) PROVE t[n \div 128] = s[n \div 128]
      <4>1. n \div 128 \in Int /\ Abs(n \div 128) < Abs(n) /\ Abs(n \div 128) \in Nat
        BY <3>2, SlebSmaller
      <4>2. Abs(n) <= k + 1 /\ Abs(n) \in Nat
        BY DEF Abs
      <4>3. Abs(n \div 128) # k + 1
        BY <4>1, <4>2
      <4> DEFINE d == n \div 128
      <4> HIDE DEF d
      <4>4. t[d] = s[d]
        BY <4>1, <4>3 DEF d
      <4> HIDE DEF t
      <4> QED BY <4>4 DEF d
    <3> HIDE DEF t
    <3> QED BY <3>1, <3>2, Zenon DEF SlebBytes
  <2>3. t = [n \in Int |-> t[n]]
    OBVIOUS
  <2> HIDE DEF t
  <2> QED BY <2>2, <2>3 DEF SlebUpTo
<1> HIDE DEF T
<1>3. T = {}
  <2> SUFFICES ASSUME T # {} PROVE FALSE
    OBVIOUS
  <2>1. PICK k \in T : \A y \in T : ~(y < k)
    BY LeastNat DEF T
  <2>2. k # 0 /\ k \in Nat
    BY <1>1 DEF T
  <2>3. k - 1 \in Nat /\ k - 1 < k /\ k - 1 + 1 = k
    BY <2>2
  <2>4. \E s : SlebUpTo(s, k - 1)
    BY <2>1, <2>3 DEF T
  <2>5. \E s : SlebUpTo(s, k - 1 + 1)
    BY <1>2, <2>3, <2>4
  <2> QED BY <2>3, <2>5 DEF T
<1> QED BY <1>3 DEF T

LEMMA SlebUpToSame ==
  ASSUME NEW s, NEW t, NEW k \in Nat, NEW m \in Nat, SlebUpTo(s, k), SlebUpTo(t, m),
         NEW n \in Int, Abs(n) <= k, Abs(n) <= m
  PROVE  s[n] = t[n]
<1> DEFINE T == {a \in Nat : a <= k /\ a <= m /\ \E i \in Int : Abs(i) = a /\ s[i] # t[i]}
<1>0. \A i \in Int : Abs(i) \in Nat
  BY DEF Abs
<1>1. T = {}
  <2> SUFFICES ASSUME T # {} PROVE FALSE
    OBVIOUS
  <2>1. PICK a \in T : \A y \in T : ~(y < a)
    BY LeastNat
  <2>2. PICK i \in Int : Abs(i) = a /\ s[i] # t[i]
    OBVIOUS
  <2>3. i \in -k .. k /\ i \in -m .. m
    BY <2>2 DEF Abs
  <2>4. s[i] = SlebBytes(s, i) /\ t[i] = SlebBytes(t, i)
    BY <2>3 DEF SlebUpTo
  <2>5. CASE -64 <= i /\ i <= 63
    BY <2>2, <2>4, <2>5, Zenon DEF SlebBytes
  <2>6. CASE ~(-64 <= i /\ i <= 63)
    <3>1. i \div 128 \in Int /\ Abs(i \div 128) < a /\ Abs(i \div 128) \in Nat
      BY <2>2, <2>6, SlebSmaller
    <3> DEFINE d == i \div 128
    <3> HIDE DEF d
    <3>2. d \in Int /\ Abs(d) < a /\ Abs(d) \in Nat
      BY <3>1 DEF d
    <3>3. Abs(d) <= k /\ Abs(d) <= m
      BY <3>2
    <3>4. Abs(d) \notin T
      BY <2>1, <3>2
    <3>5. s[d] = t[d]
      BY <3>2, <3>3, <3>4
    <3> QED BY <2>2, <2>4, <2>6, <3>5, Zenon DEF SlebBytes, d
  <2> QED BY <2>5, <2>6
<1> QED BY <1>0, <1>1

(* The bytes of every number are what the definition says. *)
LEMMA SlebAll ==
  \A n \in Int : Sleb128[n] = SlebBytes(Sleb128, n)
<1> DEFINE P(s) == s = [n \in Int |-> IF -64 <= n /\ n <= 63 THEN <<n % 128>>
                                      ELSE <<128 + (n % 128)>> \o s[n \div 128]]
           Some(m) == CHOOSE s : SlebUpTo(s, m)
           g == [n \in Int |-> Some(Abs(n))[n]]
<1>0. \A n \in Int : Abs(n) \in Nat
  BY DEF Abs
<1>1. \A m \in Nat : SlebUpTo(Some(m), m)
  <2> TAKE m \in Nat
  <2>1. \E s : SlebUpTo(s, m)
    BY SlebUpToExists
  <2> QED BY <2>1, Zenon
<1> HIDE DEF Some
<1>2. ASSUME NEW n \in Int PROVE g[n] = SlebBytes(g, n)
  <2>1. n \in -Abs(n) .. Abs(n)
    BY DEF Abs
  <2>2. g[n] = Some(Abs(n))[n]
    OBVIOUS
  <2>3. g[n] = SlebBytes(Some(Abs(n)), n)
    BY <1>0, <1>1, <2>1, <2>2 DEF SlebUpTo
  <2>4. ASSUME ~(-64 <= n /\ n <= 63) PROVE Some(Abs(n))[n \div 128] = g[n \div 128]
    <3> DEFINE d == n \div 128
    <3>1. d \in Int /\ Abs(d) \in Nat /\ Abs(d) < Abs(n)
      BY <2>4, SlebSmaller
    <3> HIDE DEF d
    <3>2. g[d] = Some(Abs(d))[d]
      BY <3>1
    <3>3. Abs(d) <= Abs(n) /\ Abs(d) <= Abs(d) /\ Abs(n) \in Nat
      BY <1>0, <3>1
    <3>4. Some(Abs(n))[d] = Some(Abs(d))[d]
      BY <1>1, <3>1, <3>3, SlebUpToSame
    <3> HIDE DEF g
    <3> QED BY <3>2, <3>4 DEF d
  <2> HIDE DEF g
  <2> QED BY <2>3, <2>4, Zenon DEF SlebBytes
<1>3. P(g)
  <2>1. g = [n \in Int |-> g[n]]
    OBVIOUS
  <2> HIDE DEF g
  <2>2. g = [n \in Int |-> SlebBytes(g, n)]
    BY <1>2, <2>1
  <2> QED BY <2>2, Zenon DEF SlebBytes
<1>4. Sleb128 = CHOOSE s : P(s)
  BY Zenon DEF Sleb128
<1>5. P(CHOOSE s : P(s))
  <2> HIDE DEF P, g
  <2> QED BY <1>3, Zenon
<1>6. P(Sleb128)
  <2> HIDE DEF P
  <2> QED BY <1>4, <1>5, Zenon
<1>7. ASSUME NEW s, P(s), NEW n \in Int PROVE s[n] = SlebBytes(s, n)
  BY <1>7, Zenon DEF SlebBytes
<1> HIDE DEF P
<1> QED BY <1>6, <1>7

LEMMA SlebIsSeq ==
  \A n \in Int : Sleb128[n] \in Seq(Nat)
<1> DEFINE T == {a \in Nat : \E n \in Int : Abs(n) = a /\ Sleb128[n] \notin Seq(Nat)}
<1>0. \A i \in Int : Abs(i) \in Nat
  BY DEF Abs
<1>1. T = {}
  <2> SUFFICES ASSUME T # {} PROVE FALSE
    OBVIOUS
  <2>1. PICK a \in T : \A y \in T : ~(y < a)
    BY LeastNat
  <2>2. PICK n \in Int : Abs(n) = a /\ Sleb128[n] \notin Seq(Nat)
    OBVIOUS
  <2>3. n % 128 \in 0 .. 127
    OBVIOUS
  <2>4. CASE -64 <= n /\ n <= 63
    <3>1. Sleb128[n] = <<n % 128>>
      BY <2>4, SlebAll DEF SlebBytes
    <3> QED BY <2>2, <2>3, <3>1
  <2>5. CASE ~(-64 <= n /\ n <= 63)
    <3>1. Sleb128[n] = <<128 + (n % 128)>> \o Sleb128[n \div 128]
      BY <2>5, SlebAll, Zenon DEF SlebBytes
    <3> DEFINE d == n \div 128
    <3>2. d \in Int /\ Abs(d) < a /\ Abs(d) \in Nat
      BY <2>2, <2>5, SlebSmaller
    <3> HIDE DEF d
    <3>3. Sleb128[d] \in Seq(Nat)
      BY <2>1, <3>2
    <3>4. 128 + (n % 128) \in Nat
      BY <2>3
    <3> DEFINE c == 128 + (n % 128)
    <3> HIDE DEF c
    <3>5. <<c>> \in Seq(Nat)
      BY <3>4 DEF c
    <3>6. <<c>> \o Sleb128[d] \in Seq(Nat)
      BY <3>3, <3>5, ConcatProperties
    <3> QED BY <2>2, <3>1, <3>6 DEF c, d
  <2> QED BY <2>4, <2>5
<1> QED BY <1>0, <1>1

(* read_sleb128 *)
ReadBody(r, buf, p) ==
  IF p = 0 \/ p > Len(buf) THEN <<0, 0>>
  ELSE IF buf[p] < 64 THEN <<buf[p], p + 1>>
  ELSE IF buf[p] < 128 THEN <<buf[p] - 128, p + 1>>
  ELSE <<buf[p] - 128 + 128 * r[p + 1][1], r[p + 1][2]>>

LEMMA ReadAll ==
  ASSUME NEW buf \in Seq(Nat)
  PROVE  \E r : /\ \A p \in 0 .. Len(buf) + 1 : r[p] = ReadBody(r, buf, p)
                /\ \A p : Read(buf, p) = r[p]
<1> DEFINE L == Len(buf)
           Good(m) == \E r : /\ r = [p \in 0 .. L + 1 |-> r[p]]
                             /\ \A p \in 0 .. L + 1 : p + m > L => r[p] = ReadBody(r, buf, p)
           T == {m \in Nat : ~Good(m)}
           P(r) == r = [p \in 0 .. L + 1 |->
                          IF p = 0 \/ p > Len(buf) THEN <<0, 0>>
                          ELSE IF buf[p] < 64 THEN <<buf[p], p + 1>>
                          ELSE IF buf[p] < 128 THEN <<buf[p] - 128, p + 1>>
                          ELSE <<buf[p] - 128 + 128 * r[p + 1][1], r[p + 1][2]>>]
<1>0. L \in Nat
  BY LenProperties
<1>1. Good(0)
  <2> DEFINE r == [p \in 0 .. L + 1 |-> <<0, 0>>]
  <2>1. ASSUME NEW p \in 0 .. L + 1, p + 0 > L PROVE r[p] = ReadBody(r, buf, p)
    <3>1. p > Len(buf)
      BY <1>0, <2>1
    <3> QED BY <3>1 DEF ReadBody
  <2>2. r = [p \in 0 .. L + 1 |-> r[p]]
    OBVIOUS
  <2> HIDE DEF r
  <2> QED BY <2>1, <2>2
<1>2. ASSUME NEW m \in Nat, Good(m) PROVE Good(m + 1)
  <2>1. PICK r : /\ r = [p \in 0 .. L + 1 |-> r[p]]
                 /\ \A p \in 0 .. L + 1 : p + m > L => r[p] = ReadBody(r, buf, p)
    BY <1>2
  <2> DEFINE t == [p \in 0 .. L + 1 |-> IF p + m = L THEN ReadBody(r, buf, p) ELSE r[p]]
  <2>2. ASSUME NEW p \in 0 .. L + 1, p + (m + 1) > L PROVE t[p] = ReadBody(t, buf, p)
    <3> HIDE DEF L
    <3>1. t[p] = ReadBody(r, buf, p)
      <4>1. CASE p + m = L
        BY <4>1
      <4>2. CASE p + m # L
        <5>1. p + m > L
          BY <1>0, <2>2, <4>2
        <5> QED BY <2>1, <4>2, <5>1
      <4> QED BY <4>1, <4>2
    <3>2. ASSUME ~(p > L) PROVE t[p + 1] = r[p + 1]
      <4>1. p + 1 \in 0 .. L + 1 /\ p + 1 + m # L
        BY <1>0, <2>2, <3>2
      <4> QED BY <4>1
    <3> HIDE DEF t
    <3> QED BY <3>1, <3>2, Zenon DEF ReadBody, L
  <2>3. t = [p \in 0 .. L + 1 |-> t[p]]
    OBVIOUS
  <2> HIDE DEF t
  <2> QED BY <2>2, <2>3
<1>3. T = {}
  <2> SUFFICES ASSUME T # {} PROVE FALSE
    OBVIOUS
  <2> HIDE DEF Good
  <2>1. PICK k \in T : \A y \in T : ~(y < k)
    BY LeastNat
  <2>2. k # 0
    BY <1>1
  <2>3. k - 1 \in Nat /\ k - 1 < k /\ k - 1 + 1 = k
    BY <2>2
  <2>4. Good(k - 1)
    BY <2>1, <2>3
  <2>5. Good(k - 1 + 1)
    BY <1>2, <2>3, <2>4
  <2> QED BY <2>3, <2>5
<1>4. Good(L + 1)
  <2> HIDE DEF Good
  <2> QED BY <1>0, <1>3
<1>5. PICK r : /\ r = [p \in 0 .. L + 1 |-> r[p]]
               /\ \A p \in 0 .. L + 1 : p + (L + 1) > L => r[p] = ReadBody(r, buf, p)
  BY <1>4
<1>6. \A p \in 0 .. L + 1 : r[p] = ReadBody(r, buf, p)
  BY <1>0, <1>5
<1>7. r = [p \in 0 .. L + 1 |-> ReadBody(r, buf, p)]
  BY <1>5, <1>6
<1>8. P(r)
  BY <1>7, Zenon DEF ReadBody
<1> DEFINE R == CHOOSE q : P(q)
<1>9. P(R)
  <2> HIDE DEF P
  <2> QED BY <1>8, Zenon
<1>10. \A p : Read(buf, p) = R[p]
  BY Zenon DEF Read
<1>11. ASSUME NEW q, P(q), NEW p \in 0 .. L + 1 PROVE q[p] = ReadBody(q, buf, p)
  BY <1>11, Zenon DEF ReadBody
<1>12. \A p \in 0 .. L + 1 : R[p] = ReadBody(R, buf, p)
  <2> HIDE DEF P, R
  <2> QED BY <1>9, <1>11
<1> QED BY <1>10, <1>12

(* From place p on, buf is z or as much of it as buf has room for. *)
Shows(buf, p, z) ==
  \A j \in 1 .. Len(z) : p - 1 + j <= Len(buf) => buf[p - 1 + j] = z[j]

LEMMA ShowsBoth ==
  ASSUME NEW y \in Seq(Nat), NEW z \in Seq(Nat), NEW buf \in Seq(Nat), NEW p \in Nat \ {0}
  PROVE  /\ y \o z \in Seq(Nat) /\ Len(y \o z) = Len(y) + Len(z)
         /\ Shows(buf, p, y \o z) => Shows(buf, p, y) /\ Shows(buf, p + Len(y), z)
<1>1. /\ y \o z \in Seq(Nat) /\ Len(y \o z) = Len(y) + Len(z)
      /\ \A i \in 1 .. Len(y) + Len(z) : (y \o z)[i] = IF i <= Len(y) THEN y[i] ELSE z[i - Len(y)]
  BY ConcatProperties
<1>2. Len(y) \in Nat /\ Len(z) \in Nat /\ Len(buf) \in Nat
  BY LenProperties
<1> DEFINE x == y \o z
           a == Len(y)
           b == Len(z)
<1> HIDE DEF x, a, b
<1>3. ASSUME Shows(buf, p, x) PROVE Shows(buf, p, y)
  <2> SUFFICES ASSUME NEW j \in 1 .. a, p - 1 + j <= Len(buf) PROVE buf[p - 1 + j] = y[j]
    BY DEF Shows, a
  <2>1. j \in 1 .. a + b /\ j <= a
    BY <1>2 DEF a, b
  <2>2. x[j] = y[j] /\ j \in 1 .. Len(x)
    BY <1>1, <2>1 DEF x, a, b
  <2> QED BY <1>3, <2>2 DEF Shows
<1>4. ASSUME Shows(buf, p, x) PROVE Shows(buf, p + a, z)
  <2> DEFINE q == p + a
  <2>1. q \in Int /\ q = p + a /\ a \in Nat /\ b \in Nat /\ b = Len(z)
    BY <1>2 DEF a, b
  <2> HIDE DEF q
  <2>2. ASSUME NEW j \in 1 .. Len(z), q - 1 + j <= Len(buf) PROVE buf[q - 1 + j] = z[j]
    <3>1. a + j \in 1 .. a + b /\ ~(a + j <= a) /\ a + j - a = j /\ p - 1 + (a + j) = q - 1 + j
      BY <2>1
    <3>2. x[a + j] = z[j] /\ a + j \in 1 .. Len(x)
      BY <1>1, <3>1 DEF x, a, b
    <3>3. p - 1 + (a + j) <= Len(buf)
      BY <2>2, <3>1
    <3>4. buf[p - 1 + (a + j)] = x[a + j]
      BY <1>4, <3>2, <3>3 DEF Shows
    <3> QED BY <3>1, <3>2, <3>4
  <2>3. Shows(buf, q, z)
    BY <2>2, Zenon DEF Shows
  <2> QED BY <2>3 DEF q
<1> QED BY <1>1, <1>3, <1>4 DEF x, a

LEMMA SlebSmall ==
  ASSUME NEW n \in Int, -64 <= n, n <= 63
  PROVE  n % 128 \in 0 .. 127 /\ IF n % 128 < 64 THEN n % 128 = n ELSE (n % 128) - 128 = n
OBVIOUS

(* A number is read back as it was written, or the end of the buffer comes  *)
(* first.                                                                   *)
LEMMA ReadsBack ==
  ASSUME NEW buf \in Seq(Nat), NEW n \in Int, NEW p \in 1 .. Len(buf) + 1,
         Shows(buf, p, Sleb128[n])
  PROVE  IF p + Len(Sleb128[n]) <= Len(buf) + 1
           THEN Read(buf, p) = <<n, p + Len(Sleb128[n])>>
           ELSE Read(buf, p)[2] = 0
<1> DEFINE Back(i, q) ==
             IF q + Len(Sleb128[i]) <= Len(buf) + 1
               THEN Read(buf, q) = <<i, q + Len(Sleb128[i])>>
               ELSE Read(buf, q)[2] = 0
           T == {a \in Nat : \E i \in Int : \E q \in 1 .. Len(buf) + 1 :
                   Abs(i) = a /\ Shows(buf, q, Sleb128[i]) /\ ~Back(i, q)}
<1>0. Len(buf) \in Nat /\ \A i \in Int : Abs(i) \in Nat
  BY LenProperties DEF Abs
<1>1. PICK r : /\ \A q \in 0 .. Len(buf) + 1 : r[q] = ReadBody(r, buf, q)
               /\ \A q : Read(buf, q) = r[q]
  BY ReadAll
<1>2. T = {}
  <2> SUFFICES ASSUME T # {} PROVE FALSE
    OBVIOUS
  <2>1. PICK a \in T : \A y \in T : ~(y < a)
    BY LeastNat
  <2>2. PICK i \in Int, q \in 1 .. Len(buf) + 1 :
           Abs(i) = a /\ Shows(buf, q, Sleb128[i]) /\ ~Back(i, q)
    OBVIOUS
  <2>3. i % 128 \in 0 .. 127 /\ i \div 128 \in Int
    <3>1. i % 128 \in 0 .. 127
      OBVIOUS
    <3>2. i \div 128 \in Int
      OBVIOUS
    <3> QED BY <3>1, <3>2
  <2>a. q \in 0 .. Len(buf) + 1 /\ q # 0 /\ q \in Nat
    BY <1>0
  <2>4. Read(buf, q) = ReadBody(r, buf, q) /\ q # 0 /\ q \in Nat
    BY <1>1, <2>a, Zenon
  <2>5. CASE q > Len(buf)
    <3>1. Read(buf, q) = <<0, 0>>
      BY <2>4, <2>5 DEF ReadBody
    <3>2. Sleb128[i] \in Seq(Nat) /\ Sleb128[i] # <<>>
      <4>1. CASE -64 <= i /\ i <= 63
        <5>1. Sleb128[i] = <<i % 128>>
          BY <4>1, SlebAll, Zenon DEF SlebBytes
        <5>2. Sleb128[i] \in Seq(Nat)
          BY SlebIsSeq
        <5> QED BY <5>1, <5>2
      <4>2. CASE ~(-64 <= i /\ i <= 63)
        <5>1. Sleb128[i] = <<128 + (i % 128)>> \o Sleb128[i \div 128]
          BY <4>2, SlebAll, Zenon DEF SlebBytes
        <5>2. Sleb128[i \div 128] \in Seq(Nat) /\ Sleb128[i] \in Seq(Nat)
          BY <2>3, SlebIsSeq
        <5> DEFINE d == Sleb128[i \div 128]
                   c == 128 + (i % 128)
        <5>3. c \in Nat
          BY <2>3
        <5> HIDE DEF d, c
        <5>4. <<c>> \in Seq(Nat) /\ <<c>> # <<>>
          BY <5>3
        <5>5. <<c>> \o d # <<>>
          BY <5>2, <5>4, ConcatEqualIffEmpty DEF d
        <5> QED BY <5>1, <5>2, <5>5 DEF d, c
      <4> QED BY <4>1, <4>2
    <3>3. Len(Sleb128[i]) \in Nat \ {0}
      BY <3>2, EmptySeq
    <3>4. ~(q + Len(Sleb128[i]) <= Len(buf) + 1)
      <4> DEFINE l == Len(Sleb128[i])
      <4>1. l \in Nat \ {0}
        BY <3>3
      <4> HIDE DEF l
      <4>2. ~(q + l <= Len(buf) + 1)
        BY <1>0, <2>a, <2>5, <4>1
      <4> QED BY <4>2 DEF l
    <3>5. Read(buf, q)[2] = 0
      BY <3>1
    <3> QED BY <2>2, <3>4, <3>5
  <2>6. CASE ~(q > Len(buf)) /\ -64 <= i /\ i <= 63
    <3>1. Sleb128[i] = <<i % 128>>
      BY <2>6, SlebAll DEF SlebBytes
    <3>2. Len(Sleb128[i]) = 1 /\ Sleb128[i][1] = i % 128
      BY <3>1
    <3>3. q - 1 + 1 = q /\ q <= Len(buf) /\ 1 \in 1 .. 1
      BY <1>0, <2>6
    <3>4. buf[q] = i % 128
      BY <2>2, <3>2, <3>3 DEF Shows
    <3>5. Read(buf, q) = <<i, q + 1>>
      <4> DEFINE x == i % 128
      <4>1. x \in 0 .. 127 /\ IF x < 64 THEN x = i ELSE x - 128 = i
        BY <2>6, SlebSmall
      <4>2. buf[q] = x
        BY <3>4
      <4> HIDE DEF x
      <4>3. Read(buf, q) = IF x < 64 THEN <<x, q + 1>> ELSE IF x < 128 THEN <<x - 128, q + 1>>
                           ELSE <<x - 128 + 128 * r[q + 1][1], r[q + 1][2]>>
        BY <2>4, <2>6, <4>2, Zenon DEF ReadBody
      <4>4. CASE x < 64
        BY <4>1, <4>3, <4>4
      <4>5. CASE ~(x < 64)
        <5>1. x < 128 /\ x - 128 = i
          BY <4>1, <4>5
        <5> QED BY <4>3, <4>5, <5>1
      <4> QED BY <4>4, <4>5
    <3>6. q + Len(Sleb128[i]) = q + 1 /\ q + 1 <= Len(buf) + 1
      BY <1>0, <3>2, <3>3
    <3> QED BY <2>2, <3>5, <3>6
  <2>7. CASE ~(q > Len(buf)) /\ ~(-64 <= i /\ i <= 63)
    <3> DEFINE c == 128 + (i % 128)
               d == i \div 128
    <3>1. Sleb128[i] = <<c>> \o Sleb128[d]
      BY <2>7, SlebAll, Zenon DEF SlebBytes
    <3>2. c \in Nat /\ c >= 128 /\ c - 128 + 128 * d = i
      <4>1. i = 128 * (i \div 128) + (i % 128)
        OBVIOUS
      <4> QED BY <2>3, <4>1
    <3>3. d \in Int /\ Abs(d) < a /\ Abs(d) \in Nat
      BY <2>2, <2>7, SlebSmaller
    <3> HIDE DEF c, d
    <3>4. <<c>> \in Seq(Nat) /\ Len(<<c>>) = 1 /\ <<c>>[1] = c /\ Sleb128[d] \in Seq(Nat)
      BY <3>2, <3>3, SlebIsSeq
    <3>5. /\ Len(Sleb128[i]) = 1 + Len(Sleb128[d]) /\ Shows(buf, q, <<c>>)
          /\ Shows(buf, q + 1, Sleb128[d])
      <4> DEFINE y == <<c>>
                 z == Sleb128[d]
      <4>1. y \in Seq(Nat) /\ z \in Seq(Nat) /\ Len(y) = 1 /\ q \in Nat \ {0}
        BY <2>4, <3>4
      <4>2. Shows(buf, q, y \o z)
        BY <2>2, <3>1
      <4>3. Sleb128[i] = y \o z
        BY <3>1
      <4> HIDE DEF y, z
      <4>4. Len(y \o z) = Len(y) + Len(z) /\ Shows(buf, q, y) /\ Shows(buf, q + Len(y), z)
        BY <4>1, <4>2, ShowsBoth
      <4> QED BY <4>1, <4>3, <4>4 DEF y, z
    <3>6. q - 1 + 1 = q /\ q <= Len(buf) /\ 1 \in 1 .. 1 /\ q + 1 \in 1 .. Len(buf) + 1
      BY <1>0, <2>7
    <3>7. buf[q] = c
      BY <3>4, <3>5, <3>6 DEF Shows
    <3>8. Back(d, q + 1)
      BY <2>1, <3>3, <3>5, <3>6
    <3>9. ~(c < 64) /\ ~(c < 128)
      BY <3>2
    <3>10. Read(buf, q) = <<c - 128 + 128 * Read(buf, q + 1)[1], Read(buf, q + 1)[2]>>
      BY <1>1, <2>4, <2>7, <3>7, <3>9, Zenon DEF ReadBody
    <3>11. Len(Sleb128[d]) \in Nat
      BY <3>4, LenProperties
    <3>12. q + Len(Sleb128[i]) = q + 1 + Len(Sleb128[d])
      <4> DEFINE l == Len(Sleb128[d])
                 k == Len(Sleb128[i])
      <4>1. k = 1 + l /\ l \in Nat
        BY <3>5, <3>11
      <4> HIDE DEF l, k
      <4>2. q + k = q + 1 + l
        BY <2>a, <4>1
      <4> QED BY <4>2 DEF l, k
    <3>13. CASE q + 1 + Len(Sleb128[d]) <= Len(buf) + 1
      <4>1. Read(buf, q + 1) = <<d, q + 1 + Len(Sleb128[d])>>
        BY <3>8, <3>13
      <4>a. Read(buf, q + 1)[1] = d /\ Read(buf, q + 1)[2] = q + 1 + Len(Sleb128[d])
        <5> DEFINE e == q + 1 + Len(Sleb128[d])
                   t == Read(buf, q + 1)
        <5>1. t = <<d, e>>
          BY <4>1
        <5> HIDE DEF e, t
        <5>2. t[1] = d /\ t[2] = e
          BY <5>1
        <5> QED BY <5>2 DEF e, t
      <4>2. Read(buf, q) = <<c - 128 + 128 * d, q + 1 + Len(Sleb128[d])>>
        BY <3>10, <4>a, Zenon
      <4> QED BY <2>2, <3>2, <3>12, <3>13, <4>2, ZenonT(40)
    <3>14. CASE ~(q + 1 + Len(Sleb128[d]) <= Len(buf) + 1)
      <4>1. Read(buf, q + 1)[2] = 0
        BY <3>8, <3>14
      <4>2. Read(buf, q)[2] = 0
        BY <3>10, <4>1
      <4> QED BY <2>2, <3>12, <3>14, <4>2
    <3> QED BY <3>13, <3>14
  <2> QED BY <2>5, <2>6, <2>7
<1> QED BY <1>0, <1>2
-----------------------------------------------------------------------------
(* BlobAbi: a place from which the rest of the bytes is z, or which has run *)
(* off the end of a table that is cut; whole is its length when it is not. *)
Sees(buf, whole, p, z) ==
  \/ p = 0 /\ Len(buf) < whole
  \/ p \in 1 .. Len(buf) + 1 /\ p + Len(z) = whole + 1 /\ Shows(buf, p, z)

LEMMA SeesNumber ==
  ASSUME NEW buf \in Seq(Nat), NEW whole \in Nat, NEW n \in Int, NEW z \in Seq(Nat), NEW p,
         Sees(buf, whole, p, Sleb128[n] \o z)
  PROVE  /\ Sees(buf, whole, Read(buf, p)[2], z)
         /\ Read(buf, p)[2] # 0 => p # 0 /\ Read(buf, p)[1] = n
<1> DEFINE y == Sleb128[n]
           l == Len(y)
           m == Len(z)
           k == Len(buf)
<1>1. y \in Seq(Nat) /\ l \in Nat /\ m \in Nat /\ k \in Nat
  BY SlebIsSeq, LenProperties
<1>2. CASE p = 0 /\ k < whole
  <2>1. PICK r : /\ \A q \in 0 .. Len(buf) + 1 : r[q] = ReadBody(r, buf, q)
                 /\ \A q : Read(buf, q) = r[q]
    BY ReadAll
  <2>2. Read(buf, 0) = <<0, 0>>
    <3>1. 0 \in 0 .. Len(buf) + 1
      BY <1>1
    <3> QED BY <2>1, <3>1, Zenon DEF ReadBody
  <2>3. Read(buf, p)[2] = 0
    BY <1>2, <2>2
  <2> QED BY <1>2, <2>3 DEF Sees
<1>3. CASE /\ p \in 1 .. k + 1 /\ p + Len(y \o z) = whole + 1
           /\ Shows(buf, p, y \o z)
  <2>1. p \in Nat \ {0} /\ p \in 1 .. Len(buf) + 1
    BY <1>1, <1>3
  <2> HIDE DEF y, l, m, k
  <2>2. Len(y \o z) = Len(y) + Len(z) /\ Shows(buf, p, y) /\ Shows(buf, p + Len(y), z)
    BY <1>1, <1>3, <2>1, ShowsBoth
  <2>3. Len(y \o z) = l + m
    BY <2>2 DEF l, m
  <2>4. p + l + m = whole + 1
    BY <1>1, <1>3, <2>1, <2>3
  <2>5. IF p + l <= k + 1 THEN Read(buf, p) = <<n, p + l>> ELSE Read(buf, p)[2] = 0
    BY <2>1, <2>2, ReadsBack DEF y, l, k
  <2>6. CASE p + l <= k + 1
    <3> DEFINE q == p + l
               t == Read(buf, p)
    <3>1. t = <<n, q>>
      BY <2>5, <2>6
    <3>2. q \in 1 .. k + 1 /\ q + m = whole + 1 /\ Shows(buf, q, z)
      BY <1>1, <2>1, <2>2, <2>4, <2>6 DEF l
    <3> HIDE DEF q, t
    <3>3. t[1] = n /\ t[2] = q
      BY <3>1
    <3>4. Sees(buf, whole, q, z)
      BY <3>2 DEF Sees, k, m
    <3> QED BY <2>1, <3>3, <3>4 DEF t
  <2>7. CASE ~(p + l <= k + 1)
    <3>1. Read(buf, p)[2] = 0
      BY <2>5, <2>7
    <3>2. k < whole
      BY <1>1, <2>1, <2>4, <2>7
    <3> QED BY <3>1, <3>2 DEF Sees, k
  <2> QED BY <2>6, <2>7
<1> QED BY <1>2, <1>3 DEF Sees

LEMMA SeesIf ==
  ASSUME packed \in Seq(Nat), NEW whole \in Nat, NEW n \in Int, NEW z \in Seq(Nat), NEW p,
         NEW there \in BOOLEAN, NEW otherwise,
         Sees(packed, whole, p, Number(there, n) \o z)
  PROVE  LET r == ReadIf(there, otherwise, p) IN
         /\ Sees(packed, whole, r[2], z)
         /\ r[2] # 0 => p # 0 /\ r[1] = IF there THEN n ELSE otherwise
<1>1. CASE there = TRUE
  <2>1. Number(there, n) = Sleb128[n] /\ ReadIf(there, otherwise, p) = Read(packed, p)
    BY <1>1 DEF Number, ReadIf
  <2>2. Sees(packed, whole, p, Sleb128[n] \o z)
    BY <2>1
  <2> QED BY <1>1, <2>1, <2>2, SeesNumber
<1>2. CASE there = FALSE
  <2>1. Number(there, n) = <<>> /\ ReadIf(there, otherwise, p) = <<otherwise, p>>
    BY <1>2 DEF Number, ReadIf
  <2>2. <<>> \o z = z
    BY ConcatEmptySeq
  <2>3. Sees(packed, whole, p, z)
    BY <2>1, <2>2
  <2> DEFINE r == ReadIf(there, otherwise, p)
  <2> HIDE DEF r
  <2>4. r[1] = otherwise /\ r[2] = p
    BY <2>1 DEF r
  <2> QED BY <1>2, <2>3, <2>4 DEF r
<1> QED BY <1>1, <1>2
(* What the relocation before leaves behind *)
Relocation == [offset : Int, info : Int, addend : Int]
OffsetBefore(rels, i) == IF i = 1 THEN 0 ELSE rels[i - 1].offset
AddendBefore(rels, i) == IF i = 1 THEN 0 ELSE rels[i - 1].addend

LEMMA StepIs ==
  ASSUME NEW rels \in Seq(Relocation), NEW i \in 1 .. Len(rels)
  PROVE  /\ rels[i].offset \in Int /\ rels[i].info \in Int /\ rels[i].addend \in Int
         /\ OffsetBefore(rels, i) \in Int /\ AddendBefore(rels, i) \in Int
         /\ Step(rels, i, "offset") \in Int /\ Step(rels, i, "addend") \in Int
         /\ OffsetBefore(rels, i) + Step(rels, i, "offset") = rels[i].offset
         /\ AddendBefore(rels, i) + Step(rels, i, "addend") = rels[i].addend
<1>1. Len(rels) \in Nat /\ \A j \in 1 .. Len(rels) : rels[j] \in Relocation
  BY LenProperties
<1>2. rels[i].offset \in Int /\ rels[i].info \in Int /\ rels[i].addend \in Int
  BY <1>1 DEF Relocation
<1>3. i # 1 => rels[i - 1].offset \in Int /\ rels[i - 1].addend \in Int
  <2> SUFFICES ASSUME i # 1 PROVE rels[i - 1].offset \in Int /\ rels[i - 1].addend \in Int
    OBVIOUS
  <2>1. i - 1 \in 1 .. Len(rels)
    BY <1>1
  <2>2. rels[i - 1] \in Relocation
    BY <1>1, <2>1
  <2> QED BY <2>2 DEF Relocation
<1>4. /\ Step(rels, i, "offset") = rels[i].offset - OffsetBefore(rels, i)
      /\ Step(rels, i, "addend") = rels[i].addend - AddendBefore(rels, i)
  BY DEF Step, OffsetBefore, AddendBefore
<1>5. OffsetBefore(rels, i) \in Int /\ AddendBefore(rels, i) \in Int
  BY <1>3 DEF OffsetBefore, AddendBefore
<1> DEFINE a == rels[i].offset
           b == rels[i].addend
           c == OffsetBefore(rels, i)
           d == AddendBefore(rels, i)
<1>6. a \in Int /\ b \in Int /\ c \in Int /\ d \in Int
  BY <1>2, <1>5
<1> HIDE DEF a, b, c, d
<1>7. a - c \in Int /\ b - d \in Int /\ c + (a - c) = a /\ d + (b - d) = b
  BY <1>6
<1> QED BY <1>2, <1>4, <1>5, <1>7 DEF a, b, c, d

LEMMA NumberIsSeq ==
  ASSUME NEW there \in BOOLEAN, NEW n \in Int
  PROVE  Number(there, n) \in Seq(Nat)
BY SlebIsSeq, EmptySeq DEF Number

LEMMA FieldsIsSeq ==
  ASSUME NEW rels \in Seq(Relocation), NEW i \in 1 .. Len(rels),
         NEW o \in BOOLEAN, NEW f \in BOOLEAN, NEW a \in BOOLEAN
  PROVE  Fields(rels, i, o, f, a) \in Seq(Nat)
<1> DEFINE x == Number(o, Step(rels, i, "offset"))
           y == Number(f, rels[i].info)
           w == Number(a, Step(rels, i, "addend"))
<1>1. x \in Seq(Nat) /\ y \in Seq(Nat) /\ w \in Seq(Nat)
  BY StepIs, NumberIsSeq
<1>2. Fields(rels, i, o, f, a) = x \o (y \o w)
  BY DEF Fields
<1> HIDE DEF x, y, w
<1>3. y \o w \in Seq(Nat)
  BY <1>1, ConcatProperties
<1>4. x \o (y \o w) \in Seq(Nat)
  BY <1>1, <1>3, ConcatProperties
<1> QED BY <1>2, <1>4

(* Seq(Nat) under a name of its own: the provers then take concatenation as *)
(* one more operation, with nothing known of it but these two facts.        *)
Written == Seq(Nat)

LEMMA WrittenJoins ==
  \A s, t \in Written : s \o t \in Written
BY ConcatProperties DEF Written

LEMMA WrittenAssociates ==
  \A s, t, u \in Written : (s \o t) \o u = s \o (t \o u)
BY ConcatAssociative, SMTT(30) DEF Written

(* Three fields of an entry, or of the head of a group, one after another *)
ReadsFields(whole, z, p, rels, i, o, oo, f, ff, a, aa) ==
  LET delta == ReadIf(o, oo, p)
      info == ReadIf(f, ff, delta[2])
      addend == ReadIf(a, aa, info[2])
  IN  /\ Sees(packed, whole, addend[2], z)
      /\ addend[2] # 0 =>
           /\ p # 0
           /\ delta[1] = IF o THEN Step(rels, i, "offset") ELSE oo
           /\ info[1] = IF f THEN rels[i].info ELSE ff
           /\ addend[1] = IF a THEN Step(rels, i, "addend") ELSE aa

LEMMA SeesFields ==
  ASSUME packed \in Seq(Nat), NEW whole \in Nat, NEW z \in Seq(Nat), NEW p,
         NEW rels \in Seq(Relocation), NEW i \in 1 .. Len(rels),
         NEW o \in BOOLEAN, NEW f \in BOOLEAN, NEW a \in BOOLEAN, NEW oo, NEW ff, NEW aa,
         Sees(packed, whole, p, Fields(rels, i, o, f, a) \o z)
  PROVE  ReadsFields(whole, z, p, rels, i, o, oo, f, ff, a, aa)
<1> DEFINE delta == ReadIf(o, oo, p)
           info == ReadIf(f, ff, delta[2])
           addend == ReadIf(a, aa, info[2])
<1>1. PICK x \in Written, y \in Written, w \in Written :
         /\ x = Number(o, Step(rels, i, "offset"))
         /\ y = Number(f, rels[i].info)
         /\ w = Number(a, Step(rels, i, "addend"))
  BY StepIs, NumberIsSeq DEF Written
<1>2. Fields(rels, i, o, f, a) = x \o (y \o w)
  BY <1>1 DEF Fields
<1>3. /\ (x \o (y \o w)) \o z = x \o (y \o (w \o z))
      /\ w \o z \in Written /\ y \o (w \o z) \in Written
  <2>1. z \in Written
    BY DEF Written
  <2>2. y \o w \in Written /\ w \o z \in Written
    BY <2>1, WrittenJoins
  <2>3. y \o (w \o z) \in Written
    BY <2>2, WrittenJoins
  <2>4. (x \o (y \o w)) \o z = x \o ((y \o w) \o z)
    BY <2>1, <2>2, WrittenAssociates, ZenonT(40)
  <2>5. (y \o w) \o z = y \o (w \o z)
    BY <2>1, WrittenAssociates, ZenonT(40)
  <2> QED BY <2>2, <2>3, <2>4, <2>5, Zenon
<1>a. Step(rels, i, "offset") \in Int /\ rels[i].info \in Int /\ Step(rels, i, "addend") \in Int
  BY StepIs
<1>4. Sees(packed, whole, p, x \o (y \o (w \o z)))
  BY <1>2, <1>3
<1> HIDE DEF delta
<1>5. /\ Sees(packed, whole, delta[2], y \o (w \o z))
      /\ delta[2] # 0 => p # 0 /\ delta[1] = IF o THEN Step(rels, i, "offset") ELSE oo
  <2> DEFINE u == y \o (w \o z)
             s == Step(rels, i, "offset")
  <2>1. u \in Seq(Nat) /\ s \in Int
    BY <1>3, <1>a DEF Written
  <2>2. Sees(packed, whole, p, Number(o, s) \o u)
    BY <1>1, <1>4
  <2> HIDE DEF u, s
  <2>3. /\ Sees(packed, whole, delta[2], u)
        /\ delta[2] # 0 => p # 0 /\ delta[1] = IF o THEN s ELSE oo
    BY <2>1, <2>2, SeesIf DEF delta
  <2> QED BY <2>3 DEF u, s
<1> HIDE DEF info
<1>6. /\ Sees(packed, whole, info[2], w \o z)
      /\ info[2] # 0 => delta[2] # 0 /\ info[1] = IF f THEN rels[i].info ELSE ff
  <2> DEFINE u == w \o z
             s == rels[i].info
             q == delta[2]
  <2>1. u \in Seq(Nat) /\ s \in Int
    BY <1>3, <1>a DEF Written
  <2>2. Sees(packed, whole, q, Number(f, s) \o u)
    BY <1>1, <1>5
  <2>a. info = ReadIf(f, ff, q)
    BY DEF info
  <2> HIDE DEF u, s, q
  <2>3. /\ Sees(packed, whole, info[2], u)
        /\ info[2] # 0 => q # 0 /\ info[1] = IF f THEN s ELSE ff
    BY <2>1, <2>2, <2>a, SeesIf
  <2> QED BY <2>3 DEF u, s, q
<1> HIDE DEF addend
<1>7. /\ Sees(packed, whole, addend[2], z)
      /\ addend[2] # 0 => info[2] # 0 /\ addend[1] = IF a THEN Step(rels, i, "addend") ELSE aa
  <2> DEFINE s == Step(rels, i, "addend")
             q == info[2]
  <2>1. s \in Int
    BY <1>a
  <2>2. Sees(packed, whole, q, Number(a, s) \o z)
    BY <1>1, <1>6
  <2>a. addend = ReadIf(a, aa, q)
    BY DEF addend
  <2> HIDE DEF s, q
  <2>3. /\ Sees(packed, whole, addend[2], z)
        /\ addend[2] # 0 => q # 0 /\ addend[1] = IF a THEN s ELSE aa
    BY <2>1, <2>2, <2>a, SeesIf
  <2> QED BY <2>3 DEF s, q
<1> QED BY <1>5, <1>6, <1>7 DEF ReadsFields, delta, info, addend
-----------------------------------------------------------------------------
(* BlobAbi: groups. *)
LEMMA GroupHasIs ==
  ASSUME NEW flags, NEW i, NEW flag
  PROVE  GroupHas(flags, i, flag) \in BOOLEAN
BY DEF GroupHas, IsSet

(* What the linker can have made of a table *)
Grouping(rels, flags) ==
  /\ 1 \in DOMAIN flags
  /\ \A b \in DOMAIN flags : b \in Nat \ {0} /\ flags[b] \in 0 .. 15
  /\ \A b \in DOMAIN flags : b # 1 => b <= Len(rels)
  /\ Fits(rels, flags)

LEMMA GroupingsAre ==
  ASSUME NEW rels, Len(rels) \in Nat, NEW flags \in Groupings(rels)
  PROVE  Grouping(rels, flags)
<1>1. PICK starts \in SUBSET (2 .. Len(rels)) :
           flags \in [{1} \cup starts -> 0 .. 15] /\ Fits(rels, flags)
  BY DEF Groupings
<1>2. DOMAIN flags = {1} \cup starts
  BY <1>1
<1>3. \A b \in DOMAIN flags : flags[b] \in 0 .. 15
  BY <1>1
<1>4. \A b \in DOMAIN flags : b = 1 \/ b \in 2 .. Len(rels)
  BY <1>2
<1>5. \A b \in DOMAIN flags : b \in Nat \ {0} /\ (b # 1 => b <= Len(rels))
  BY <1>4
<1> QED BY <1>1, <1>2, <1>3, <1>5 DEF Grouping

(* The group of i is the last that starts at i or before. *)
LEMMA GroupIs ==
  ASSUME NEW rels, Len(rels) \in Nat, NEW flags, Grouping(rels, flags), NEW i \in 1 .. Len(rels)
  PROVE  /\ Group(flags, i) \in DOMAIN flags /\ Group(flags, i) <= i
         /\ \A c \in DOMAIN flags : c <= i => c <= Group(flags, i)
         /\ Group(flags, i) \in 1 .. Len(rels)
<1> DEFINE S == {b \in DOMAIN flags : b <= i}
           P(b) == b <= i /\ \A c \in DOMAIN flags : c <= i => c <= b
<1>1. S \in SUBSET (1 .. i) /\ 1 \in S /\ i \in Nat
  <2>1. \A b \in DOMAIN flags : b \in Nat \ {0}
    BY DEF Grouping
  <2>2. 1 \in DOMAIN flags
    BY DEF Grouping
  <2> QED BY <2>1, <2>2
<1> HIDE DEF S
<1>2. S # {}
  BY <1>1
<1>3. PICK b \in S : \A j \in S : j <= b
  BY <1>1, <1>2, LastOne
<1>4. b \in DOMAIN flags /\ P(b)
  BY <1>3 DEF S
<1>5. Group(flags, i) = CHOOSE a \in DOMAIN flags : P(a)
  BY Zenon DEF Group
<1>6. Group(flags, i) \in DOMAIN flags /\ P(Group(flags, i))
  <2> HIDE DEF P
  <2> QED BY <1>4, <1>5, Zenon
<1>7. Group(flags, i) \in Nat \ {0}
  BY <1>6 DEF Grouping
<1> QED BY <1>6, <1>7

LEMMA GroupOnly ==
  ASSUME NEW rels, Len(rels) \in Nat, NEW flags, Grouping(rels, flags), NEW i \in 1 .. Len(rels),
         NEW b \in DOMAIN flags, b <= i, \A c \in DOMAIN flags : c <= i => c <= b
  PROVE  Group(flags, i) = b
<1> DEFINE g == Group(flags, i)
<1>1. g \in DOMAIN flags /\ g <= i /\ \A c \in DOMAIN flags : c <= i => c <= g
  BY GroupIs
<1> HIDE DEF g
<1>2. g \in Nat /\ b \in Nat
  BY <1>1 DEF Grouping
<1>3. g <= b /\ b <= g
  BY <1>1
<1>4. g = b
  BY <1>2, <1>3, SMTT(30)
<1> QED BY <1>4 DEF g

(* A group goes as far as the next one starts, or to the end of the table, *)
(* and its size says how far.                                              *)
LEMMA GroupSpan ==
  ASSUME NEW rels, Len(rels) \in Nat, DOMAIN rels = 1 .. Len(rels), NEW flags,
         Grouping(rels, flags), NEW b \in DOMAIN flags, b <= Len(rels)
  PROVE  \E e \in b .. Len(rels) :
           /\ Size(rels, flags, b) = e - b + 1
           /\ \A j \in b .. e : Group(flags, j) = b
           /\ e = Len(rels) \/ e + 1 \in DOMAIN flags
<1> DEFINE n == Len(rels)
           S == {j \in 1 .. n : b <= j /\ \A c \in DOMAIN flags : c <= j => c <= b}
<1>1. n \in Nat /\ b \in 1 .. n /\ \A c \in DOMAIN flags : c \in Nat \ {0}
  BY DEF Grouping
<1>2. b \in S
  BY <1>1
<1>3. PICK e \in S : \A j \in S : j <= e
  <2>1. S \in SUBSET (1 .. n) /\ S # {}
    BY <1>2
  <2> HIDE DEF S
  <2> QED BY <1>1, <2>1, LastOne
<1>4. e \in b .. n /\ e \in 1 .. n
  BY <1>1, <1>3
<1>5. \A j \in b .. e : j \in S
  <2> SUFFICES ASSUME NEW j \in b .. e PROVE j \in S
    OBVIOUS
  <2>1. j \in 1 .. n /\ b <= j
    BY <1>1, <1>4
  <2>2. ASSUME NEW c \in DOMAIN flags, c <= j PROVE c <= b
    <3>1. c <= e
      BY <1>1, <1>4, <2>2
    <3> QED BY <1>3, <3>1
  <2> QED BY <2>1, <2>2
<1>6. \A j \in S : Group(flags, j) = b
  <2> SUFFICES ASSUME NEW j \in S PROVE Group(flags, j) = b
    OBVIOUS
  <2>1. j \in 1 .. Len(rels) /\ b <= j /\ \A c \in DOMAIN flags : c <= j => c <= b
    OBVIOUS
  <2> HIDE DEF S, n
  <2> QED BY <2>1, GroupOnly
<1>7. e = n \/ e + 1 \in DOMAIN flags
  <2> SUFFICES ASSUME e # n PROVE e + 1 \in DOMAIN flags
    OBVIOUS
  <2> HIDE DEF S, n
  <2>1. e + 1 \in 1 .. n /\ b <= e + 1
    BY <1>1, <1>4
  <2>2. e + 1 \notin S
    <3>1. ~(e + 1 <= e)
      BY <1>4
    <3>2. ASSUME e + 1 \in S PROVE e + 1 <= e
      BY <1>3, <3>2
    <3> QED BY <3>1, <3>2
  <2>3. PICK c \in DOMAIN flags : c <= e + 1 /\ ~(c <= b)
    BY <2>1, <2>2, Zenon DEF S
  <2>4. ~(c <= e)
    <3>1. \A d \in DOMAIN flags : d <= e => d <= b
      BY <1>3, Zenon DEF S
    <3> QED BY <2>3, <3>1
  <2>5. c = e + 1
    BY <1>1, <1>4, <2>3, <2>4
  <2> QED BY <2>5, SMTT(30)
<1>8. {i \in DOMAIN rels : Group(flags, i) = b} = b .. e
  <2>1. ASSUME NEW i \in DOMAIN rels, Group(flags, i) = b PROVE i \in b .. e
    <3>1. i \in 1 .. Len(rels)
      OBVIOUS
    <3>2. b <= i /\ \A c \in DOMAIN flags : c <= i => c <= b
      <4> HIDE DEF S, n
      <4> QED BY <2>1, <3>1, GroupIs
    <3>3. i \in S
      BY <3>1, <3>2
    <3>4. i <= e
      BY <1>3, <3>3
    <3> QED BY <1>1, <1>4, <3>1, <3>2, <3>4
  <2>2. ASSUME NEW i \in b .. e PROVE i \in DOMAIN rels /\ Group(flags, i) = b
    <3>1. i \in S
      BY <1>5
    <3> QED BY <1>6, <3>1
  <2> HIDE DEF S, n
  <2> QED BY <2>1, <2>2
<1>9. Cardinality(b .. e) = e - b + 1
  <2>1. b \in Int /\ e \in Int /\ ~(b > e)
    BY <1>1, <1>4
  <2> QED BY <2>1, FS_Interval
<1>10. Size(rels, flags, b) = e - b + 1
  BY <1>8, <1>9 DEF Size
<1>11. \A j \in b .. e : Group(flags, j) = b
  BY <1>5, <1>6
<1> HIDE DEF S
<1> QED BY <1>4, <1>7, <1>10, <1>11
-----------------------------------------------------------------------------
(* BlobAbi: what the linker writes from a relocation on. *)
FromBody(f, rels, flags, i) ==
  IF i \notin DOMAIN rels THEN <<>>
  ELSE (IF i \in DOMAIN flags THEN GroupHead(rels, flags, i) ELSE <<>>)
       \o (Own(rels, flags, i) \o f[i + 1])

LEMMA FromAll ==
  ASSUME NEW rels \in Seq(Relocation), NEW flags
  PROVE  \A i \in Nat : From(rels, flags)[i] = FromBody(From(rels, flags), rels, flags, i)
<1> DEFINE n == Len(rels)
           Good(m) == \E f : /\ f = [i \in Nat |-> f[i]]
                             /\ \A i \in Nat : i + m > n => f[i] = FromBody(f, rels, flags, i)
           T == {m \in Nat : ~Good(m)}
           P(f) == f = [i \in Nat |->
                    IF i \notin DOMAIN rels THEN <<>>
                    ELSE (IF i \in DOMAIN flags THEN GroupHead(rels, flags, i) ELSE <<>>)
                         \o (Own(rels, flags, i) \o f[i + 1])]
<1>0. n \in Nat /\ DOMAIN rels = 1 .. n
  BY LenProperties
<1>1. Good(0)
  <2> DEFINE f == [i \in Nat |-> <<>>]
  <2>1. ASSUME NEW i \in Nat, i + 0 > n PROVE f[i] = FromBody(f, rels, flags, i)
    <3>1. i \notin DOMAIN rels
      BY <1>0, <2>1
    <3> QED BY <3>1 DEF FromBody
  <2>2. f = [i \in Nat |-> f[i]]
    OBVIOUS
  <2> HIDE DEF f
  <2> QED BY <2>1, <2>2
<1>2. ASSUME NEW m \in Nat, Good(m) PROVE Good(m + 1)
  <2>1. PICK f : /\ f = [i \in Nat |-> f[i]]
                 /\ \A i \in Nat : i + m > n => f[i] = FromBody(f, rels, flags, i)
    BY <1>2
  <2> DEFINE g == [i \in Nat |-> IF i + m = n THEN FromBody(f, rels, flags, i) ELSE f[i]]
  <2>2. ASSUME NEW i \in Nat, i + (m + 1) > n PROVE g[i] = FromBody(g, rels, flags, i)
    <3> HIDE DEF n
    <3>1. g[i] = FromBody(f, rels, flags, i)
      <4>1. CASE i + m = n
        BY <4>1
      <4>2. CASE i + m # n
        <5>1. i + m > n
          BY <1>0, <2>2, <4>2
        <5> QED BY <2>1, <4>2, <5>1
      <4> QED BY <4>1, <4>2
    <3>2. g[i + 1] = f[i + 1]
      <4>1. i + 1 \in Nat /\ i + 1 + m # n
        BY <1>0, <2>2
      <4> QED BY <4>1
    <3> HIDE DEF g
    <3> QED BY <3>1, <3>2, Zenon DEF FromBody
  <2>3. g = [i \in Nat |-> g[i]]
    OBVIOUS
  <2> HIDE DEF g
  <2> QED BY <2>2, <2>3
<1>3. T = {}
  <2> SUFFICES ASSUME T # {} PROVE FALSE
    OBVIOUS
  <2> HIDE DEF Good
  <2>1. PICK k \in T : \A y \in T : ~(y < k)
    BY LeastNat
  <2>2. k # 0
    BY <1>1
  <2>3. k - 1 \in Nat /\ k - 1 < k /\ k - 1 + 1 = k
    BY <2>2
  <2>4. Good(k - 1)
    BY <2>1, <2>3
  <2>5. Good(k - 1 + 1)
    BY <1>2, <2>3, <2>4
  <2> QED BY <2>3, <2>5
<1>4. Good(n + 1)
  <2> HIDE DEF Good
  <2> QED BY <1>0, <1>3
<1>5. PICK f : /\ f = [i \in Nat |-> f[i]]
               /\ \A i \in Nat : i + (n + 1) > n => f[i] = FromBody(f, rels, flags, i)
  BY <1>4
<1>6. \A i \in Nat : f[i] = FromBody(f, rels, flags, i)
  <2> HIDE DEF n
  <2> QED BY <1>0, <1>5
<1>7. f = [i \in Nat |-> FromBody(f, rels, flags, i)]
  BY <1>5, <1>6
<1>8. P(f)
  BY <1>7, Zenon DEF FromBody
<1> DEFINE F == CHOOSE g : P(g)
<1>9. P(F)
  <2> HIDE DEF P
  <2> QED BY <1>8, Zenon
<1>10. From(rels, flags) = F
  BY Zenon DEF From
<1>11. ASSUME NEW g, P(g), NEW i \in Nat PROVE g[i] = FromBody(g, rels, flags, i)
  BY <1>11, Zenon DEF FromBody
<1>12. \A i \in Nat : F[i] = FromBody(F, rels, flags, i)
  <2> HIDE DEF P, F
  <2> QED BY <1>9, <1>11
<1> HIDE DEF F
<1> QED BY <1>10, <1>12

LEMMA OwnIsSeq ==
  ASSUME NEW rels \in Seq(Relocation), NEW flags, NEW i \in 1 .. Len(rels)
  PROVE  Own(rels, flags, i) \in Seq(Nat)
<1>1. PICK o \in BOOLEAN, f \in BOOLEAN, a \in BOOLEAN :
         Own(rels, flags, i) = Fields(rels, i, o, f, a)
  <2> DEFINE o == ~GroupHas(flags, i, RELOCATION_GROUPED_BY_OFFSET_DELTA)
             f == ~GroupHas(flags, i, RELOCATION_GROUPED_BY_INFO)
             a == /\ GroupHas(flags, i, RELOCATION_GROUP_HAS_ADDEND)
                  /\ ~GroupHas(flags, i, RELOCATION_GROUPED_BY_ADDEND)
  <2>1. o \in BOOLEAN /\ f \in BOOLEAN /\ a \in BOOLEAN
    BY GroupHasIs
  <2>2. Own(rels, flags, i) = Fields(rels, i, o, f, a)
    BY Zenon DEF Own
  <2> HIDE DEF o, f, a
  <2> QED BY <2>1, <2>2
<1> QED BY <1>1, FieldsIsSeq

(* The head of a group has fields after its size and its flags. *)
HeadFields(rels, flags, b) ==
  Fields(rels, b, GroupHas(flags, b, RELOCATION_GROUPED_BY_OFFSET_DELTA),
                  GroupHas(flags, b, RELOCATION_GROUPED_BY_INFO),
                  /\ GroupHas(flags, b, RELOCATION_GROUP_HAS_ADDEND)
                  /\ GroupHas(flags, b, RELOCATION_GROUPED_BY_ADDEND))

LEMMA HeadIsSeq ==
  ASSUME NEW rels \in Seq(Relocation), NEW flags, Grouping(rels, flags),
         NEW b \in DOMAIN flags, b <= Len(rels)
  PROVE  /\ Size(rels, flags, b) \in Nat /\ flags[b] \in Nat
         /\ HeadFields(rels, flags, b) \in Seq(Nat) /\ GroupHead(rels, flags, b) \in Seq(Nat)
         /\ GroupHead(rels, flags, b) =
              Sleb128[Size(rels, flags, b)] \o (Sleb128[flags[b]] \o HeadFields(rels, flags, b))
<1>1. Len(rels) \in Nat /\ DOMAIN rels = 1 .. Len(rels)
  BY LenProperties
<1>2. b \in 1 .. Len(rels) /\ flags[b] \in Nat
  BY <1>1, SMTT(30) DEF Grouping
<1>3. Size(rels, flags, b) \in Nat
  <2>1. PICK e \in b .. Len(rels) : Size(rels, flags, b) = e - b + 1
    BY <1>1, GroupSpan
  <2> QED BY <1>1, <1>2, <2>1
<1>4. HeadFields(rels, flags, b) \in Seq(Nat)
  <2> DEFINE o == GroupHas(flags, b, RELOCATION_GROUPED_BY_OFFSET_DELTA)
             f == GroupHas(flags, b, RELOCATION_GROUPED_BY_INFO)
             a == /\ GroupHas(flags, b, RELOCATION_GROUP_HAS_ADDEND)
                  /\ GroupHas(flags, b, RELOCATION_GROUPED_BY_ADDEND)
  <2>1. o \in BOOLEAN /\ f \in BOOLEAN /\ a \in BOOLEAN
    BY GroupHasIs
  <2>2. HeadFields(rels, flags, b) = Fields(rels, b, o, f, a)
    BY Zenon DEF HeadFields
  <2> HIDE DEF o, f, a
  <2> QED BY <1>2, <2>1, <2>2, FieldsIsSeq
<1>5. GroupHead(rels, flags, b) =
        Sleb128[Size(rels, flags, b)] \o (Sleb128[flags[b]] \o HeadFields(rels, flags, b))
  BY Zenon DEF GroupHead, HeadFields
<1>6. PICK s \in Written, k \in Written, h \in Written :
        s = Sleb128[Size(rels, flags, b)] /\ k = Sleb128[flags[b]] /\ h = HeadFields(rels, flags, b)
  BY <1>2, <1>3, <1>4, SlebIsSeq DEF Written
<1>7. s \o (k \o h) \in Written
  <2>1. k \o h \in Written
    BY WrittenJoins
  <2> QED BY <2>1, WrittenJoins
<1> QED BY <1>2, <1>3, <1>4, <1>5, <1>6, <1>7 DEF Written

LEMMA FromIsSeq ==
  ASSUME NEW rels \in Seq(Relocation), NEW flags, Grouping(rels, flags)
  PROVE  /\ From(rels, flags)[Len(rels) + 1] = <<>>
         /\ \A i \in 1 .. Len(rels) + 1 : From(rels, flags)[i] \in Seq(Nat)
         /\ \A i \in 1 .. Len(rels) :
              From(rels, flags)[i] = FromBody(From(rels, flags), rels, flags, i)
<1> DEFINE n == Len(rels)
           F == From(rels, flags)
           T == {k \in Nat : \E i \in 1 .. n + 1 : i + k = n + 1 /\ F[i] \notin Seq(Nat)}
<1>1. n \in Nat /\ DOMAIN rels = 1 .. n
  BY LenProperties
<1>2. \A i \in Nat : F[i] = FromBody(F, rels, flags, i)
  BY FromAll
<1>3. F[n + 1] = <<>>
  <2>1. n + 1 \in Nat /\ n + 1 \notin DOMAIN rels
    BY <1>1
  <2> HIDE DEF F
  <2> QED BY <1>2, <2>1 DEF FromBody
<1>4. T = {}
  <2> SUFFICES ASSUME T # {} PROVE FALSE
    OBVIOUS
  <2>1. PICK k \in T : \A y \in T : ~(y < k)
    BY LeastNat
  <2>2. PICK i \in 1 .. n + 1 : i + k = n + 1 /\ F[i] \notin Seq(Nat)
    OBVIOUS
  <2>3. i # n + 1
    BY <1>3, <2>2, EmptySeq
  <2> HIDE DEF F, n
  <2>4. i \in 1 .. n /\ i \in Nat /\ i \in DOMAIN rels
    BY <1>1, <2>2, <2>3
  <2>5. F[i + 1] \in Seq(Nat)
    <3>1. k \in Nat /\ k - 1 \in Nat /\ k - 1 < k /\ i + 1 + (k - 1) = n + 1 /\ i + 1 \in 1 .. n + 1
      BY <1>1, <2>2, <2>4
    <3>2. k - 1 \notin T
      BY <2>1, <3>1
    <3> QED BY <3>1, <3>2
  <2> HIDE DEF T
  <2>6. PICK h \in Written, o \in Written, f \in Written :
           /\ h = IF i \in DOMAIN flags THEN GroupHead(rels, flags, i) ELSE <<>>
           /\ o = Own(rels, flags, i) /\ f = F[i + 1]
    <3>1. Own(rels, flags, i) \in Written
      BY <2>4, OwnIsSeq DEF n, Written
    <3>2. i \in DOMAIN flags => GroupHead(rels, flags, i) \in Written
      <4> SUFFICES ASSUME i \in DOMAIN flags PROVE GroupHead(rels, flags, i) \in Written
        OBVIOUS
      <4>1. i <= Len(rels)
        BY <1>1, <2>4 DEF n
      <4> QED BY <4>1, HeadIsSeq DEF Written
    <3>3. <<>> \in Written
      BY EmptySeq DEF Written
    <3> QED BY <2>5, <3>1, <3>2, <3>3 DEF Written
  <2>7. F[i] = h \o (o \o f)
    BY <1>2, <2>4, <2>6, Zenon DEF FromBody
  <2>8. h \o (o \o f) \in Written
    <3>1. o \o f \in Written
      BY WrittenJoins
    <3> QED BY <3>1, WrittenJoins
  <2> QED BY <2>2, <2>7, <2>8 DEF Written
<1>5. ASSUME NEW i \in 1 .. n + 1 PROVE F[i] \in Seq(Nat)
  <2> HIDE DEF F, n
  <2>1. n + 1 - i \in Nat /\ i + (n + 1 - i) = n + 1
    BY <1>1
  <2>2. n + 1 - i \notin T
    BY <1>4
  <2> QED BY <2>1, <2>2
<1> HIDE DEF F, T
<1>6. \A i \in 1 .. n : i \in Nat
  OBVIOUS
<1> QED BY <1>2, <1>3, <1>5, <1>6 DEF F
-----------------------------------------------------------------------------
(* BlobAbi: a group and an entry read back. *)
LEMMA OffTheEnd ==
  ASSUME packed \in Seq(Nat), NEW there \in BOOLEAN, NEW otherwise
  PROVE  ReadIf(there, otherwise, 0)[2] = 0
<1>1. PICK r : /\ \A q \in 0 .. Len(packed) + 1 : r[q] = ReadBody(r, packed, q)
               /\ \A q : Read(packed, q) = r[q]
  BY ReadAll
<1>2. Read(packed, 0) = <<0, 0>>
  <2>1. 0 \in 0 .. Len(packed) + 1
    BY LenProperties
  <2> QED BY <1>1, <2>1, Zenon DEF ReadBody
<1>3. Read(packed, 0)[2] = 0
  BY <1>2
<1>4. <<otherwise, 0>>[2] = 0
  OBVIOUS
<1>5. CASE there
  BY <1>3, <1>5, Zenon DEF ReadIf
<1>6. CASE ~there
  BY <1>4, <1>6, Zenon DEF ReadIf
<1> QED BY <1>5, <1>6

(* Reading the head of the group that starts at b leaves z to read. *)
ReadsHead(whole, z, p, rels, flags, b, ff) ==
  LET size == Read(packed, p)
      fl == Read(packed, size[2])
      has(flag) == IsSet(fl[1], flag)
      delta == ReadIf(has(RELOCATION_GROUPED_BY_OFFSET_DELTA), 0, fl[2])
      info == ReadIf(has(RELOCATION_GROUPED_BY_INFO), ff, delta[2])
      addend == ReadIf(/\ has(RELOCATION_GROUP_HAS_ADDEND)
                       /\ has(RELOCATION_GROUPED_BY_ADDEND), 0, info[2])
      is(flag) == GroupHas(flags, b, flag)
  IN  /\ Sees(packed, whole, addend[2], z)
      /\ addend[2] # 0 =>
           /\ size[1] = Size(rels, flags, b) /\ fl[1] = flags[b]
           /\ delta[1] = IF is(RELOCATION_GROUPED_BY_OFFSET_DELTA)
                         THEN Step(rels, b, "offset") ELSE 0
           /\ info[1] = IF is(RELOCATION_GROUPED_BY_INFO) THEN rels[b].info ELSE ff
           /\ addend[1] = IF /\ is(RELOCATION_GROUP_HAS_ADDEND)
                             /\ is(RELOCATION_GROUPED_BY_ADDEND)
                          THEN Step(rels, b, "addend") ELSE 0

LEMMA SeesGroup ==
  ASSUME packed \in Seq(Nat), NEW whole \in Nat, NEW z \in Seq(Nat), NEW p, NEW ff,
         NEW rels \in Seq(Relocation), NEW flags, Grouping(rels, flags),
         NEW b \in DOMAIN flags, b <= Len(rels),
         Sees(packed, whole, p, GroupHead(rels, flags, b) \o z)
  PROVE  ReadsHead(whole, z, p, rels, flags, b, ff)
<1> DEFINE size == Read(packed, p)
           fl == Read(packed, size[2])
           has(flag) == IsSet(fl[1], flag)
           delta == ReadIf(has(RELOCATION_GROUPED_BY_OFFSET_DELTA), 0, fl[2])
           info == ReadIf(has(RELOCATION_GROUPED_BY_INFO), ff, delta[2])
           addend == ReadIf(/\ has(RELOCATION_GROUP_HAS_ADDEND)
                            /\ has(RELOCATION_GROUPED_BY_ADDEND), 0, info[2])
           is(flag) == GroupHas(flags, b, flag)
<1>0. Len(rels) \in Nat /\ DOMAIN rels = 1 .. Len(rels) /\ b \in 1 .. Len(rels)
  BY LenProperties DEF Grouping
<1>1. PICK s \in Written, k \in Written, h \in Written :
         /\ s = Sleb128[Size(rels, flags, b)] /\ k = Sleb128[flags[b]]
         /\ h = HeadFields(rels, flags, b)
  <2>1. /\ Size(rels, flags, b) \in Nat /\ flags[b] \in Nat
        /\ HeadFields(rels, flags, b) \in Seq(Nat)
    BY HeadIsSeq
  <2>2. Sleb128[Size(rels, flags, b)] \in Seq(Nat) /\ Sleb128[flags[b]] \in Seq(Nat)
    BY <2>1, SlebIsSeq
  <2> QED BY <2>1, <2>2 DEF Written
<1>2. GroupHead(rels, flags, b) = s \o (k \o h)
  BY <1>1, HeadIsSeq
<1>3. /\ (s \o (k \o h)) \o z = s \o (k \o (h \o z))
      /\ h \o z \in Written /\ k \o (h \o z) \in Written
  <2>1. z \in Written
    BY DEF Written
  <2>2. k \o h \in Written /\ h \o z \in Written
    BY <2>1, WrittenJoins
  <2>3. k \o (h \o z) \in Written
    BY <2>2, WrittenJoins
  <2>4. (s \o (k \o h)) \o z = s \o ((k \o h) \o z)
    BY <2>1, <2>2, WrittenAssociates, ZenonT(40)
  <2>5. (k \o h) \o z = k \o (h \o z)
    BY <2>1, WrittenAssociates, ZenonT(40)
  <2> QED BY <2>2, <2>3, <2>4, <2>5, Zenon
<1>4. Sees(packed, whole, p, s \o (k \o (h \o z)))
  BY <1>2, <1>3
<1>5. /\ Sees(packed, whole, size[2], k \o (h \o z))
      /\ size[2] # 0 => size[1] = Size(rels, flags, b)
  <2> DEFINE u == k \o (h \o z)
             m == Size(rels, flags, b)
  <2>1. u \in Seq(Nat) /\ m \in Int
    <3>1. Size(rels, flags, b) \in Nat
      BY HeadIsSeq
    <3> QED BY <1>3, <3>1 DEF Written
  <2>2. Sees(packed, whole, p, Sleb128[m] \o u)
    BY <1>1, <1>4
  <2> HIDE DEF u, m
  <2>3. Sees(packed, whole, size[2], u) /\ (size[2] # 0 => size[1] = m)
    BY <2>1, <2>2, SeesNumber
  <2> QED BY <2>3 DEF u, m
<1>6. /\ Sees(packed, whole, fl[2], h \o z)
      /\ fl[2] # 0 => size[2] # 0 /\ fl[1] = flags[b]
  <2> DEFINE u == h \o z
             m == flags[b]
             q == size[2]
  <2>1. u \in Seq(Nat) /\ m \in Int
    <3>1. flags[b] \in Nat
      BY HeadIsSeq
    <3> QED BY <1>3, <3>1 DEF Written
  <2>2. Sees(packed, whole, q, Sleb128[m] \o u)
    BY <1>1, <1>5
  <2>3. fl = Read(packed, q)
    OBVIOUS
  <2> HIDE DEF u, m, q, fl
  <2>4. Sees(packed, whole, fl[2], u) /\ (fl[2] # 0 => q # 0 /\ fl[1] = m)
    BY <2>1, <2>2, <2>3, SeesNumber
  <2> QED BY <2>4 DEF u, m, q
<1> HIDE DEF size, fl
<1>7. CASE fl[2] = 0
  <2>1. delta[2] = 0
    BY <1>7, OffTheEnd DEF IsSet
  <2>2. info[2] = 0
    <3> HIDE DEF delta
    <3> QED BY <2>1, OffTheEnd DEF IsSet
  <2>3. addend[2] = 0
    <3> HIDE DEF delta, info
    <3> QED BY <2>2, OffTheEnd DEF IsSet
  <2>4. Sees(packed, whole, 0, z)
    BY <1>6, <1>7 DEF Sees
  <2> HIDE DEF delta, info, addend
  <2> QED BY <2>3, <2>4 DEF ReadsHead, delta, info, addend, size, fl
<1>8. CASE fl[2] # 0
  <2>1. Group(flags, b) = b
    <3>1. PICK e \in b .. Len(rels) : \A j \in b .. e : Group(flags, j) = b
      BY <1>0, GroupSpan
    <3> QED BY <1>0, <3>1
  <2>2. \A flag : has(flag) = is(flag)
    BY <1>6, <1>8, <2>1 DEF GroupHas
  <2> DEFINE o == has(RELOCATION_GROUPED_BY_OFFSET_DELTA)
             f == has(RELOCATION_GROUPED_BY_INFO)
             a == has(RELOCATION_GROUP_HAS_ADDEND) /\ has(RELOCATION_GROUPED_BY_ADDEND)
  <2>3. o \in BOOLEAN /\ f \in BOOLEAN /\ a \in BOOLEAN
    BY DEF IsSet
  <2>4. h = Fields(rels, b, o, f, a)
    <3> HIDE DEF has
    <3> QED BY <1>1, <2>2, Zenon DEF HeadFields
  <2>5. Sees(packed, whole, fl[2], Fields(rels, b, o, f, a) \o z)
    <3> HIDE DEF o, f, a
    <3> QED BY <1>6, <2>4
  <2>6. /\ delta = ReadIf(o, 0, fl[2]) /\ info = ReadIf(f, ff, delta[2])
        /\ addend = ReadIf(a, 0, info[2])
    OBVIOUS
  <2> HIDE DEF o, f, a, delta, info, addend
  <2>7. /\ Sees(packed, whole, addend[2], z)
        /\ addend[2] # 0 =>
             /\ delta[1] = IF o THEN Step(rels, b, "offset") ELSE 0
             /\ info[1] = IF f THEN rels[b].info ELSE ff
             /\ addend[1] = IF a THEN Step(rels, b, "addend") ELSE 0
    <3>1. ReadsFields(whole, z, fl[2], rels, b, o, 0, f, ff, a, 0)
      BY <1>0, <2>3, <2>5, SeesFields
    <3> QED BY <2>6, <3>1, Zenon DEF ReadsFields
  <2>8. /\ o = is(RELOCATION_GROUPED_BY_OFFSET_DELTA) /\ f = is(RELOCATION_GROUPED_BY_INFO)
        /\ a = (is(RELOCATION_GROUP_HAS_ADDEND) /\ is(RELOCATION_GROUPED_BY_ADDEND))
    <3> HIDE DEF has, is
    <3> QED BY <2>2 DEF o, f, a
  <2> HIDE DEF is
  <2>9. addend[2] # 0 => size[1] = Size(rels, flags, b) /\ fl[1] = flags[b]
    BY <1>5, <1>6, <1>8
  <2> QED BY <2>7, <2>8, <2>9, Zenon DEF ReadsHead, is, delta, info, addend, size, fl
<1> QED BY <1>7, <1>8

(* Reading what an entry has of its own leaves z to read. *)
ReadsOwn(whole, z, p, rels, flags, i, fl, dd, ff) ==
  LET has(flag) == IsSet(fl, flag)
      delta == ReadIf(~has(RELOCATION_GROUPED_BY_OFFSET_DELTA), dd, p)
      info == ReadIf(~has(RELOCATION_GROUPED_BY_INFO), ff, delta[2])
      addend == ReadIf(/\ has(RELOCATION_GROUP_HAS_ADDEND)
                       /\ ~has(RELOCATION_GROUPED_BY_ADDEND), 0, info[2])
      is(flag) == GroupHas(flags, i, flag)
  IN  /\ Sees(packed, whole, addend[2], z)
      /\ addend[2] # 0 =>
           /\ delta[1] = IF is(RELOCATION_GROUPED_BY_OFFSET_DELTA)
                         THEN dd ELSE Step(rels, i, "offset")
           /\ info[1] = IF is(RELOCATION_GROUPED_BY_INFO) THEN ff ELSE rels[i].info
           /\ addend[1] = IF /\ is(RELOCATION_GROUP_HAS_ADDEND)
                             /\ ~is(RELOCATION_GROUPED_BY_ADDEND)
                          THEN Step(rels, i, "addend") ELSE 0

LEMMA SeesEntry ==
  ASSUME packed \in Seq(Nat), NEW whole \in Nat, NEW z \in Seq(Nat), NEW p, NEW dd, NEW ff,
         NEW rels \in Seq(Relocation), NEW flags, NEW i \in 1 .. Len(rels), NEW fl,
         fl = flags[Group(flags, i)],
         Sees(packed, whole, p, Own(rels, flags, i) \o z)
  PROVE  ReadsOwn(whole, z, p, rels, flags, i, fl, dd, ff)
<1> DEFINE has(flag) == IsSet(fl, flag)
           is(flag) == GroupHas(flags, i, flag)
           o == ~has(RELOCATION_GROUPED_BY_OFFSET_DELTA)
           f == ~has(RELOCATION_GROUPED_BY_INFO)
           a == has(RELOCATION_GROUP_HAS_ADDEND) /\ ~has(RELOCATION_GROUPED_BY_ADDEND)
           delta == ReadIf(o, dd, p)
           info == ReadIf(f, ff, delta[2])
           addend == ReadIf(a, 0, info[2])
<1>1. \A flag : has(flag) = is(flag)
  BY DEF GroupHas
<1>2. o \in BOOLEAN /\ f \in BOOLEAN /\ a \in BOOLEAN
  BY DEF IsSet
<1>3. Own(rels, flags, i) = Fields(rels, i, o, f, a)
  <2> HIDE DEF has
  <2> QED BY <1>1, Zenon DEF Own
<1>4. Sees(packed, whole, p, Fields(rels, i, o, f, a) \o z)
  <2> HIDE DEF o, f, a
  <2> QED BY <1>3
<1>5. /\ o = ~is(RELOCATION_GROUPED_BY_OFFSET_DELTA) /\ f = ~is(RELOCATION_GROUPED_BY_INFO)
      /\ a = (is(RELOCATION_GROUP_HAS_ADDEND) /\ ~is(RELOCATION_GROUPED_BY_ADDEND))
  <2> HIDE DEF has, is
  <2> QED BY <1>1
<1> HIDE DEF o, f, a, is
<1>6. /\ Sees(packed, whole, addend[2], z)
      /\ addend[2] # 0 =>
           /\ delta[1] = IF o THEN Step(rels, i, "offset") ELSE dd
           /\ info[1] = IF f THEN rels[i].info ELSE ff
           /\ addend[1] = IF a THEN Step(rels, i, "addend") ELSE 0
  <2>1. /\ delta = ReadIf(o, dd, p) /\ info = ReadIf(f, ff, delta[2])
        /\ addend = ReadIf(a, 0, info[2])
    OBVIOUS
  <2> HIDE DEF delta, info, addend
  <2>2. ReadsFields(whole, z, p, rels, i, o, dd, f, ff, a, 0)
    BY <1>2, <1>4, SeesFields
  <2> QED BY <2>1, <2>2, Zenon DEF ReadsFields
<1> HIDE DEF delta, info, addend
<1>7. /\ is(RELOCATION_GROUPED_BY_OFFSET_DELTA) \in BOOLEAN
      /\ is(RELOCATION_GROUPED_BY_INFO) \in BOOLEAN
  BY GroupHasIs DEF is
<1>8. addend[2] # 0 =>
        /\ delta[1] = IF is(RELOCATION_GROUPED_BY_OFFSET_DELTA)
                      THEN dd ELSE Step(rels, i, "offset")
        /\ info[1] = IF is(RELOCATION_GROUPED_BY_INFO) THEN ff ELSE rels[i].info
        /\ addend[1] = IF is(RELOCATION_GROUP_HAS_ADDEND) /\ ~is(RELOCATION_GROUPED_BY_ADDEND)
                       THEN Step(rels, i, "addend") ELSE 0
  BY <1>5, <1>6, <1>7, Zenon
<1> QED BY <1>6, <1>8, Zenon DEF ReadsOwn, is, delta, info, addend, o, f, a
-----------------------------------------------------------------------------
(* BlobAbi: the decoder against what the linker wrote. *)
IsCursor(c) ==
  c = [at |-> c.at, count |-> c.count, left |-> c.left, flags |-> c.flags,
       delta |-> c.delta, offset |-> c.offset, info |-> c.info, addend |-> c.addend]

PackedLength(rels, flags) == Len(Packing(rels, flags))

(* Between groups, or at the end of the table *)
AtGroup(buf, c, rels, flags, i) ==
  /\ i = Len(rels) + 1 \/ i \in DOMAIN flags
  /\ c.left = 0
  /\ c.offset = OffsetBefore(rels, i) /\ c.addend = AddendBefore(rels, i)
  /\ Sees(buf, PackedLength(rels, flags), c.at, From(rels, flags)[i])

(* In a group that goes as far as e *)
InGroup(buf, c, rels, flags, i) ==
  /\ i <= Len(rels)
  /\ \E e \in i .. Len(rels) :
       /\ c.left = e - i + 1
       /\ \A j \in i .. e : Group(flags, j) = Group(flags, i)
       /\ e = Len(rels) \/ e + 1 \in DOMAIN flags
  /\ c.flags = flags[Group(flags, i)]
  /\ c.offset = OffsetBefore(rels, i)
  /\ GroupHas(flags, i, RELOCATION_GROUPED_BY_OFFSET_DELTA) =>
       c.delta = Step(rels, Group(flags, i), "offset")
  /\ GroupHas(flags, i, RELOCATION_GROUPED_BY_INFO) => c.info = rels[Group(flags, i)].info
  /\ c.addend =
       IF ~GroupHas(flags, i, RELOCATION_GROUP_HAS_ADDEND) THEN 0
       ELSE IF GroupHas(flags, i, RELOCATION_GROUPED_BY_ADDEND) THEN rels[Group(flags, i)].addend
       ELSE AddendBefore(rels, i)
  /\ Sees(buf, PackedLength(rels, flags), c.at,
          Own(rels, flags, i) \o From(rels, flags)[i + 1])

(* The first i - 1 entries have been read, and are those of the table. *)
InStep(lib, buf, c, es, flags, i) ==
  /\ flags \in Groupings(lib.rels) /\ i \in 1 .. Len(lib.rels) + 1
  /\ buf \in Seq(Nat)
  /\ lib.extra < 0 <=> Len(buf) < PackedLength(lib.rels, flags)
  /\ lib.extra = 0 <=> Len(buf) = PackedLength(lib.rels, flags)
  /\ es = [j \in 1 .. i - 1 |-> Table(lib.rels)[j]]
  /\ c.at # 0 /\ c.count = Len(lib.rels)
  /\ AtGroup(buf, c, lib.rels, flags, i) \/ InGroup(buf, c, lib.rels, flags, i)

Lost(lib, c) == c.at = 0 /\ lib.extra < 0
Plain(lib, buf, c, es) ==
  /\ lib.extra = 0 /\ buf = <<0>> /\ es = Table(lib.rels)
  /\ c.at = 2 /\ c.left = 0 /\ c.count = Len(es)

AbiInv ==
  /\ IsCursor(cursor)
  /\ \/ /\ libgui = <<>> /\ header = <<>> /\ entries = <<>>
        /\ cursor.left = 0 /\ cursor.offset = 0 /\ cursor.addend = 0
     \/ /\ libgui \in Libraries
        /\ header = <<>> =>
             \/ Lost(libgui, cursor) \/ Plain(libgui, packed, cursor, entries)
             \/ \E flags, i : InStep(libgui, packed, cursor, entries, flags, i)
        /\ MeasuresOrRefuses

LEMMA LibrariesAre ==
  ASSUME NEW lib \in Libraries
  PROVE  /\ lib # <<>> /\ lib.rels \in Seq(Relocation) /\ lib.extra \in Int /\ lib.extra <= 1
         /\ lib.compiled = IF lib.extra = 0 /\ Readable(lib, Table(lib.rels))
                             THEN {Measured(lib, Table(lib.rels))} ELSE {}
BY LibraryAssumption, Zenon DEF Relocation

LEMMA PackingIs ==
  ASSUME NEW rels \in Seq(Relocation), NEW flags, Grouping(rels, flags)
  PROVE  /\ Packing(rels, flags) \in Seq(Nat)
         /\ Packing(rels, flags) = Sleb128[Len(rels)] \o (Sleb128[0] \o From(rels, flags)[1])
         /\ Sleb128[0] \o From(rels, flags)[1] \in Seq(Nat)
         /\ From(rels, flags)[1] \in Seq(Nat)
         /\ PackedLength(rels, flags) \in Nat \ {0}
<1>1. Len(rels) \in Nat /\ 1 \in 1 .. Len(rels) + 1
  BY LenProperties
<1>2. PICK s \in Written, o \in Written, f \in Written :
        s = Sleb128[Len(rels)] /\ o = Sleb128[0] /\ f = From(rels, flags)[1]
  BY <1>1, SlebIsSeq, FromIsSeq DEF Written
<1>3. Packing(rels, flags) = s \o (o \o f)
  BY <1>2, Zenon DEF Packing
<1>4. o \o f \in Written /\ s \o (o \o f) \in Written
  <2>1. o \o f \in Written
    BY WrittenJoins
  <2> QED BY <2>1, WrittenJoins
<1>5. Len(s \o (o \o f)) = Len(s) + Len(o \o f) /\ Len(o \o f) = Len(o) + Len(f)
  <2>1. \A a, b \in Written : Len(a \o b) = Len(a) + Len(b)
    BY ConcatProperties DEF Written
  <2> HIDE DEF Written
  <2> QED BY <1>4, <2>1
<1>6. Len(o) = 1
  <2>1. -64 <= 0 /\ 0 <= 63 /\ 0 \in Int
    OBVIOUS
  <2>2. Sleb128[0] = <<0 % 128>>
    BY <2>1, SlebAll, Zenon DEF SlebBytes
  <2> QED BY <1>2, <2>2
<1>7. Len(s) \in Nat /\ Len(f) \in Nat
  BY LenProperties DEF Written
<1>8. Len(s \o (o \o f)) \in Nat \ {0}
  BY <1>5, <1>6, <1>7
<1> QED BY <1>2, <1>3, <1>4, <1>8 DEF Written, PackedLength

(* What was written, cut or with one byte more *)
CutOf(buf, whole, x) ==
  /\ buf \in Seq(Nat)
  /\ x < 0 <=> Len(buf) < Len(whole)
  /\ x = 0 <=> Len(buf) = Len(whole)
  /\ Sees(buf, Len(whole), 1, whole)

LEMMA CutShows ==
  ASSUME NEW whole \in Seq(Nat), Len(whole) \in Nat \ {0}, NEW x \in Int, x <= 1,
         NEW buf, buf = SubSeq(whole \o << 0 >>, 1, Len(whole) + x)
  PROVE  CutOf(buf, whole, x)
<1> DEFINE w == Len(whole)
           l == Len(buf)
<1>1. w \in Nat \ {0} /\ w + x \in Int /\ w + x <= w + 1 /\ 1 \in Int
  OBVIOUS
<1>2. << 0 >> \in Seq(Nat) /\ Len(<< 0 >>) = 1 /\ << 0 >>[1] = 0
  OBVIOUS
<1>3. \A i \in 1 .. w + 1 :
        (whole \o << 0 >>)[i] \in Nat /\ (i <= w => (whole \o << 0 >>)[i] = whole[i])
  <2>1. \A i \in 1 .. Len(whole) + Len(<< 0 >>) :
          (whole \o << 0 >>)[i] = IF i <= Len(whole) THEN whole[i] ELSE << 0 >>[i - Len(whole)]
    BY <1>2, ConcatProperties
  <2>2. \A i \in 1 .. w : whole[i] \in Nat
    BY LenProperties
  <2> SUFFICES ASSUME NEW i \in 1 .. w + 1
      PROVE  (whole \o << 0 >>)[i] \in Nat /\ (i <= w => (whole \o << 0 >>)[i] = whole[i])
    OBVIOUS
  <2> DEFINE y == (whole \o << 0 >>)[i]
  <2>3. y = IF i <= w THEN whole[i] ELSE << 0 >>[i - w]
    BY <1>2, <2>1
  <2> HIDE DEF y, w
  <2>4. CASE i <= w
    <3>1. i \in 1 .. w
      BY <1>1, <2>4
    <3>2. whole[i] \in Nat /\ y = whole[i]
      BY <2>2, <2>3, <2>4, <3>1
    <3> QED BY <3>2 DEF y
  <2>5. CASE ~(i <= w)
    <3>1. i - w = 1
      BY <1>1, <2>5
    <3> DEFINE k == i - w
    <3>2. k = 1 /\ y = << 0 >>[k]
      BY <2>3, <2>5, <3>1
    <3> HIDE DEF k
    <3>3. y = 0
      BY <3>2
    <3>4. y \in Nat
      BY <3>3
    <3> QED BY <2>5, <3>4, Zenon DEF y
  <2> QED BY <2>4, <2>5
<1>4. /\ buf \in Seq(Nat)
      /\ l = IF 1 <= w + x THEN w + x ELSE 0
      /\ \A i \in 1 .. w + x : buf[i] = (whole \o << 0 >>)[i]
  <2> DEFINE s == whole \o << 0 >>
             n == w + x
  <2>1. \A i \in 1 .. n : s[i] \in Nat
    <3> SUFFICES ASSUME NEW i \in 1 .. n PROVE s[i] \in Nat
      OBVIOUS
    <3> HIDE DEF w
    <3>1. i \in 1 .. w + 1
      BY <1>1
    <3> HIDE DEF s
    <3> QED BY <1>3, <3>1 DEF s
  <2>2. buf = SubSeq(s, 1, n)
    OBVIOUS
  <2>3. n \in Int
    BY <1>1
  <2> HIDE DEF s, n, w, l
  <2>4. /\ SubSeq(s, 1, n) \in Seq(Nat)
        /\ Len(SubSeq(s, 1, n)) = IF 1 <= n THEN n - 1 + 1 ELSE 0
        /\ \A i \in 1 .. n - 1 + 1 : SubSeq(s, 1, n)[i] = s[1 + i - 1]
    BY <2>1, <2>3, SubSeqProperties
  <2>5. n - 1 + 1 = n /\ \A i \in 1 .. n : 1 + i - 1 = i
    BY <2>3
  <2>6. \A i \in 1 .. n : buf[i] = s[i]
    BY <2>2, <2>4, <2>5
  <2> QED BY <2>2, <2>4, <2>5, <2>6 DEF s, n, w, l
<1> HIDE DEF w, l
<1>5. (x < 0 <=> l < w) /\ (x = 0 <=> l = w) /\ l \in Nat
  BY <1>1, <1>4
<1>6. Shows(buf, 1, whole)
  <2> SUFFICES ASSUME NEW j \in 1 .. w, 1 - 1 + j <= l PROVE buf[1 - 1 + j] = whole[j]
    BY DEF Shows, w, l
  <2>1. 1 - 1 + j = j /\ j \in 1 .. w + 1 /\ j \in 1 .. w + x /\ j <= w
    BY <1>1, <1>4
  <2> QED BY <1>3, <1>4, <2>1
<1>7. 1 \in 1 .. l + 1 /\ 1 + w = w + 1
  BY <1>1, <1>5
<1> QED BY <1>4, <1>5, <1>6, <1>7 DEF CutOf, Sees, w, l

LEMMA EntriesSoFar ==
  ASSUME NEW rels \in Seq(Relocation), NEW i \in 1 .. Len(rels) + 1, NEW es,
         es = [j \in 1 .. i - 1 |-> Table(rels)[j]]
  PROVE  /\ Len(es) = i - 1
         /\ i = 1 <=> es = <<>>
         /\ i = Len(rels) + 1 => es = Table(rels)
         /\ i <= Len(rels) =>
              Append(es, Table(rels)[i]) = [j \in 1 .. i |-> Table(rels)[j]]
<1> DEFINE n == Len(rels)
           S == {Table(rels)[j] : j \in 1 .. n}
<1>1. n \in Nat /\ DOMAIN rels = 1 .. n /\ i \in 1 .. n + 1
  BY LenProperties
<1>2. Table(rels) = [j \in 1 .. n |-> Table(rels)[j]]
  BY <1>1 DEF Table
<1> DEFINE T == Table(rels)
<1> HIDE DEF n, T
<1>3. es = [j \in 1 .. i - 1 |-> T[j]] /\ T = [j \in 1 .. n |-> T[j]]
  BY <1>2 DEF T
<1>4. i - 1 \in Nat /\ \A j \in 1 .. i - 1 : T[j] \in S
  BY <1>1 DEF T
<1> HIDE DEF S
<1>5. es \in Seq(S) /\ Len(es) = i - 1
  <2> DEFINE m == i - 1
  <2>1. m \in Nat /\ es = [j \in 1 .. m |-> T[j]] /\ \A j \in 1 .. m : T[j] \in S
    BY <1>3, <1>4
  <2> HIDE DEF m
  <2>2. es \in [1 .. m -> S]
    BY <2>1
  <2>3. es \in Seq(S)
    BY <2>1, <2>2, IsASeq
  <2>4. Len(es) \in Nat /\ DOMAIN es = 1 .. Len(es)
    BY <2>3, LenProperties
  <2>5. 1 .. Len(es) = 1 .. m
    BY <2>2, <2>4
  <2>6. Len(es) = m
    <3> DEFINE l == Len(es)
    <3>1. l \in Nat /\ 1 .. l = 1 .. m
      BY <2>4, <2>5
    <3> HIDE DEF l
    <3>2. l <= m /\ m <= l
      <4>1. l = 0 \/ l \in 1 .. m
        <5>1. l = 0 \/ l \in 1 .. l
          BY <3>1
        <5> QED BY <3>1, <5>1
      <4>2. m = 0 \/ m \in 1 .. l
        <5>1. m = 0 \/ m \in 1 .. m
          BY <2>1
        <5> QED BY <3>1, <5>1
      <4> QED BY <2>1, <3>1, <4>1, <4>2
    <3>3. l = m
      BY <2>1, <3>1, <3>2
    <3> QED BY <3>3 DEF l
  <2> QED BY <2>3, <2>6 DEF m
<1>6. i = 1 <=> es = <<>>
  <2>1. i = 1 => es = <<>>
    BY <1>3
  <2>2. es = <<>> => i = 1
    BY <1>1, <1>5
  <2> QED BY <2>1, <2>2
<1>7. i = n + 1 => es = T
  <2> SUFFICES ASSUME i = n + 1 PROVE es = T
    OBVIOUS
  <2>1. i - 1 = n
    BY <1>1
  <2> QED BY <1>3, <2>1
<1>8. ASSUME i <= n PROVE Append(es, T[i]) = [j \in 1 .. i |-> T[j]]
  <2>1. T[i] \in S
    BY <1>1, <1>8 DEF S, T
  <2> DEFINE a == Append(es, T[i])
  <2>2. /\ a \in Seq(S) /\ Len(a) = i - 1 + 1
        /\ \A j \in 1 .. i - 1 : a[j] = es[j]
        /\ a[i - 1 + 1] = T[i]
    BY <1>5, <2>1, AppendProperties
  <2> HIDE DEF a
  <2>3. i - 1 + 1 = i
    BY <1>1
  <2>4. a \in [1 .. i -> S]
    BY <2>2, <2>3, LenProperties
  <2>5. ASSUME NEW j \in 1 .. i PROVE a[j] = T[j]
    <3>1. CASE j = i
      BY <2>2, <2>3, <3>1
    <3>2. CASE j # i
      <4>1. j \in 1 .. i - 1
        BY <1>1, <3>2
      <4> QED BY <1>3, <2>2, <4>1
    <3> QED BY <3>1, <3>2
  <2> QED BY <2>4, <2>5 DEF a
<1> QED BY <1>5, <1>6, <1>7, <1>8 DEF n, T

(* A place of 0 in a table that something is still to be read of *)
LEMMA RanOff ==
  ASSUME NEW lib, NEW buf \in Seq(Nat), NEW flags, NEW z, NEW p, p = 0,
         lib.extra < 0 <=> Len(buf) < PackedLength(lib.rels, flags),
         Sees(buf, PackedLength(lib.rels, flags), p, z)
  PROVE  lib.extra < 0
BY LenProperties DEF Sees

LEMMA Continues ==
  ASSUME NEW rels \in Seq(Relocation), NEW flags, Grouping(rels, flags), NEW i \in 1 .. Len(rels)
  PROVE  /\ Own(rels, flags, i) \o From(rels, flags)[i + 1] \in Seq(Nat)
         /\ From(rels, flags)[i + 1] \in Seq(Nat)
         /\ From(rels, flags)[i] =
              (IF i \in DOMAIN flags THEN GroupHead(rels, flags, i) ELSE <<>>)
              \o (Own(rels, flags, i) \o From(rels, flags)[i + 1])
<1>1. Len(rels) \in Nat /\ DOMAIN rels = 1 .. Len(rels)
  BY LenProperties
<1>2. i + 1 \in 1 .. Len(rels) + 1 /\ i \in DOMAIN rels
  BY <1>1
<1>3. PICK o \in Written, f \in Written :
        o = Own(rels, flags, i) /\ f = From(rels, flags)[i + 1]
  BY <1>2, OwnIsSeq, FromIsSeq DEF Written
<1>4. o \o f \in Written
  BY WrittenJoins
<1>5. From(rels, flags)[i] = FromBody(From(rels, flags), rels, flags, i)
  BY FromIsSeq
<1>6. From(rels, flags)[i] =
        (IF i \in DOMAIN flags THEN GroupHead(rels, flags, i) ELSE <<>>)
        \o (Own(rels, flags, i) \o From(rels, flags)[i + 1])
  BY <1>2, <1>5, Zenon DEF FromBody
<1> QED BY <1>3, <1>4, <1>6 DEF Written

(* What ReadsGroup reads, and the cursor it leaves *)
HeadRead(size, fl, delta, info, addend) ==
  /\ size = Read(packed, cursor.at) /\ fl = Read(packed, size[2])
  /\ delta = ReadIf(IsSet(fl[1], RELOCATION_GROUPED_BY_OFFSET_DELTA), 0, fl[2])
  /\ info = ReadIf(IsSet(fl[1], RELOCATION_GROUPED_BY_INFO), cursor.info, delta[2])
  /\ addend = ReadIf(/\ IsSet(fl[1], RELOCATION_GROUP_HAS_ADDEND)
                     /\ IsSet(fl[1], RELOCATION_GROUPED_BY_ADDEND), 0, info[2])
AfterHead(c, size, fl, delta, info, addend) ==
  /\ c.at = addend[2] /\ c.count = cursor.count /\ c.left = size[1] /\ c.flags = fl[1]
  /\ c.delta = delta[1] /\ c.offset = cursor.offset /\ c.info = info[1]
  /\ c.addend = GroupAddend(fl[1], cursor.addend, addend[1])

LEMMA GroupStep ==
  ASSUME NEW lib \in Libraries, NEW rels \in Seq(Relocation), rels = lib.rels,
         NEW es, NEW flags, NEW i \in 1 .. Len(rels),
         InStep(lib, packed, cursor, es, flags, i),
         AtGroup(packed, cursor, rels, flags, i),
         NEW size, NEW fl, NEW delta, NEW info, NEW addend, NEW c,
         HeadRead(size, fl, delta, info, addend),
         AfterHead(c, size, fl, delta, info, addend)
  PROVE  Lost(lib, c) \/ InStep(lib, packed, c, es, flags, i)
<1> DEFINE whole == PackedLength(rels, flags)
           z == Own(rels, flags, i) \o From(rels, flags)[i + 1]
<1>1. Len(rels) \in Nat /\ DOMAIN rels = 1 .. Len(rels)
  BY LenProperties
<1>a. /\ flags \in Groupings(rels) /\ packed \in Seq(Nat)
      /\ i = Len(rels) + 1 \/ i \in DOMAIN flags
  BY Zenon DEF InStep, AtGroup
<1>2. Grouping(rels, flags) /\ packed \in Seq(Nat)
  BY <1>1, <1>a, GroupingsAre
<1>3. i \in DOMAIN flags /\ i \in Nat /\ i <= Len(rels)
  <2>1. i # Len(rels) + 1 /\ i \in Nat /\ i <= Len(rels)
    BY <1>1
  <2> QED BY <1>a, <2>1, Zenon
<1>4. whole \in Nat
  BY <1>1, <1>2, PackingIs
<1>5. z \in Seq(Nat)
  BY <1>1, <1>2, Continues
<1>6. Sees(packed, whole, cursor.at, GroupHead(rels, flags, i) \o z)
  <2>1. From(rels, flags)[i] = GroupHead(rels, flags, i) \o z
    BY <1>1, <1>2, <1>3, Continues
  <2>2. Sees(packed, whole, cursor.at, From(rels, flags)[i])
    BY Zenon DEF AtGroup
  <2> QED BY <2>1, <2>2
<1>7. ReadsHead(whole, z, cursor.at, rels, flags, i, cursor.info)
  <2> DEFINE q == cursor.at
             ff == cursor.info
  <2>1. Sees(packed, whole, q, GroupHead(rels, flags, i) \o z)
    BY <1>6
  <2>2. i <= Len(rels)
    BY <1>3
  <2> HIDE DEF q, ff, whole, z
  <2>3. ReadsHead(whole, z, q, rels, flags, i, ff)
    BY <1>1, <1>2, <1>3, <1>4, <1>5, <2>1, <2>2, SeesGroup
  <2> QED BY <2>3 DEF q, ff
<1> HIDE DEF whole, z
<1>8. /\ Sees(packed, whole, addend[2], z)
      /\ addend[2] # 0 =>
           /\ size[1] = Size(rels, flags, i) /\ fl[1] = flags[i]
           /\ delta[1] = IF GroupHas(flags, i, RELOCATION_GROUPED_BY_OFFSET_DELTA)
                         THEN Step(rels, i, "offset") ELSE 0
           /\ info[1] = IF GroupHas(flags, i, RELOCATION_GROUPED_BY_INFO)
                        THEN rels[i].info ELSE cursor.info
           /\ addend[1] = IF /\ GroupHas(flags, i, RELOCATION_GROUP_HAS_ADDEND)
                             /\ GroupHas(flags, i, RELOCATION_GROUPED_BY_ADDEND)
                          THEN Step(rels, i, "addend") ELSE 0
  BY <1>7, Zenon DEF ReadsHead, HeadRead
<1>9. CASE addend[2] = 0
  <2>1. lib.extra < 0 <=> Len(packed) < PackedLength(lib.rels, flags)
    BY DEF InStep
  <2>2. Sees(packed, PackedLength(lib.rels, flags), addend[2], z)
    BY <1>8 DEF whole
  <2>3. lib.extra < 0
    BY <1>2, <1>9, <2>1, <2>2, RanOff
  <2> QED BY <1>9, <2>3 DEF Lost, AfterHead
<1>10. CASE addend[2] # 0
  <2>1. PICK e \in i .. Len(rels) :
           /\ Size(rels, flags, i) = e - i + 1
           /\ \A j \in i .. e : Group(flags, j) = i
           /\ e = Len(rels) \/ e + 1 \in DOMAIN flags
    <3> HIDE DEF whole, z
    <3> QED BY <1>1, <1>2, <1>3, GroupSpan
  <2>2. Group(flags, i) = i
    <3>1. i \in i .. e
      BY <1>3
    <3> QED BY <2>1, <3>1
  <2>3. /\ c.left = e - i + 1
        /\ \A j \in i .. e : Group(flags, j) = Group(flags, i)
        /\ e = Len(rels) \/ e + 1 \in DOMAIN flags
    BY <1>8, <1>10, <2>1, <2>2 DEF AfterHead
  <2>4. c.flags = flags[Group(flags, i)] /\ c.offset = OffsetBefore(rels, i)
    BY <1>8, <1>10, <2>2 DEF AtGroup, AfterHead
  <2>5. GroupHas(flags, i, RELOCATION_GROUPED_BY_OFFSET_DELTA) =>
          c.delta = Step(rels, Group(flags, i), "offset")
    BY <1>8, <1>10, <2>2 DEF AfterHead
  <2>6. GroupHas(flags, i, RELOCATION_GROUPED_BY_INFO) => c.info = rels[Group(flags, i)].info
    BY <1>8, <1>10, <2>2 DEF AfterHead
  <2>7. c.addend =
          IF ~GroupHas(flags, i, RELOCATION_GROUP_HAS_ADDEND) THEN 0
          ELSE IF GroupHas(flags, i, RELOCATION_GROUPED_BY_ADDEND)
            THEN rels[Group(flags, i)].addend
          ELSE AddendBefore(rels, i)
    <3> DEFINE has == GroupHas(flags, i, RELOCATION_GROUP_HAS_ADDEND)
               by == GroupHas(flags, i, RELOCATION_GROUPED_BY_ADDEND)
               before == AddendBefore(rels, i)
               step == Step(rels, i, "addend")
    <3>1. has = IsSet(fl[1], RELOCATION_GROUP_HAS_ADDEND)
      BY <1>8, <1>10, <2>2 DEF GroupHas
    <3>2. cursor.addend = before
      BY DEF AtGroup
    <3>3. addend[1] = IF has /\ by THEN step ELSE 0
      BY <1>8, <1>10
    <3>4. before \in Int /\ step \in Int /\ before + step = rels[i].addend
      BY <1>1, <1>2, StepIs
    <3>5. has \in BOOLEAN /\ by \in BOOLEAN
      BY GroupHasIs
    <3> HIDE DEF has, by, before, step
    <3>6. c.addend = IF has THEN before + addend[1] ELSE 0
      BY <3>1, <3>2, Zenon DEF GroupAddend, AfterHead
    <3>7. c.addend = IF ~has THEN 0 ELSE IF by THEN rels[i].addend ELSE before
      <4>1. CASE ~has
        BY <3>6, <4>1
      <4>2. CASE has /\ by
        BY <3>3, <3>4, <3>6, <4>2
      <4>3. CASE has /\ ~by
        <5>1. addend[1] = 0
          BY <3>3, <4>3, Zenon
        <5>2. c.addend = before + 0
          BY <3>6, <4>3, <5>1, Zenon
        <5>3. before + 0 = before
          BY <3>4
        <5> QED BY <4>3, <5>2, <5>3, Zenon
      <4> QED BY <3>5, <4>1, <4>2, <4>3
    <3> QED BY <2>2, <3>7, Zenon DEF has, by, before
  <2>8. Sees(packed, PackedLength(rels, flags), c.at, z)
    BY <1>8 DEF whole, AfterHead
  <2>9. i <= Len(rels)
    BY <1>3
  <2>10. InGroup(packed, c, rels, flags, i)
    BY <2>1, <2>3, <2>4, <2>5, <2>6, <2>7, <2>8, <2>9, Zenon DEF InGroup, z
  <2>11. c.at # 0 /\ c.count = Len(rels)
    BY <1>10, Zenon DEF InStep, AfterHead
  <2> QED BY <2>10, <2>11, Zenon DEF InStep
<1> QED BY <1>9, <1>10

LEMMA FitsAt ==
  ASSUME NEW rels \in Seq(Relocation), NEW flags, Grouping(rels, flags), NEW i \in 1 .. Len(rels),
         NEW b, b = Group(flags, i)
  PROVE  /\ GroupHas(flags, i, RELOCATION_GROUPED_BY_INFO) => rels[i].info = rels[b].info
         /\ GroupHas(flags, i, RELOCATION_GROUPED_BY_OFFSET_DELTA) =>
              Step(rels, i, "offset") = Step(rels, b, "offset")
         /\ IF GroupHas(flags, i, RELOCATION_GROUP_HAS_ADDEND)
              THEN GroupHas(flags, i, RELOCATION_GROUPED_BY_ADDEND) =>
                     rels[i].addend = rels[b].addend
              ELSE rels[i].addend = 0
<1>1. i \in DOMAIN rels
  BY LenProperties
<1>2. Fits(rels, flags)
  BY DEF Grouping
<1> QED BY <1>1, <1>2, Zenon DEF Fits

(* What ReadsEntry reads, and the cursor it leaves *)
OwnRead(delta, info, addend) ==
  /\ delta = ReadIf(~IsSet(cursor.flags, RELOCATION_GROUPED_BY_OFFSET_DELTA),
                    cursor.delta, cursor.at)
  /\ info = ReadIf(~IsSet(cursor.flags, RELOCATION_GROUPED_BY_INFO), cursor.info, delta[2])
  /\ addend = ReadIf(/\ IsSet(cursor.flags, RELOCATION_GROUP_HAS_ADDEND)
                     /\ ~IsSet(cursor.flags, RELOCATION_GROUPED_BY_ADDEND), 0, info[2])
AfterOwn(c, delta, info, addend) ==
  /\ c.at = addend[2] /\ c.count = cursor.count /\ c.left = cursor.left - 1
  /\ c.flags = cursor.flags /\ c.delta = cursor.delta /\ c.offset = cursor.offset + delta[1]
  /\ c.info = info[1] /\ c.addend = cursor.addend + addend[1]

LEMMA EntryStep ==
  ASSUME NEW lib \in Libraries, NEW rels \in Seq(Relocation), rels = lib.rels,
         NEW es, NEW flags, NEW i \in 1 .. Len(rels),
         InStep(lib, packed, cursor, es, flags, i),
         InGroup(packed, cursor, rels, flags, i),
         NEW delta, NEW info, NEW addend, NEW c,
         OwnRead(delta, info, addend), AfterOwn(c, delta, info, addend)
  PROVE  \/ Lost(lib, c)
         \/ InStep(lib, packed, c, Append(es, Entry(c.offset, c.info, c.addend)), flags, i + 1)
<1> DEFINE whole == PackedLength(rels, flags)
           z == From(rels, flags)[i + 1]
           b == Group(flags, i)
           byOffset == GroupHas(flags, i, RELOCATION_GROUPED_BY_OFFSET_DELTA)
           byInfo == GroupHas(flags, i, RELOCATION_GROUPED_BY_INFO)
           has == GroupHas(flags, i, RELOCATION_GROUP_HAS_ADDEND)
           by == GroupHas(flags, i, RELOCATION_GROUPED_BY_ADDEND)
<1>1. Len(rels) \in Nat /\ DOMAIN rels = 1 .. Len(rels) /\ i \in Nat
  BY LenProperties
<1>2. flags \in Groupings(rels) /\ packed \in Seq(Nat)
  BY Zenon DEF InStep
<1>3. Grouping(rels, flags)
  BY <1>1, <1>2, GroupingsAre
<1>4. whole \in Nat
  BY <1>3, PackingIs
<1>5. z \in Seq(Nat)
  BY <1>3, Continues
<1>6. /\ Sees(packed, whole, cursor.at, Own(rels, flags, i) \o z)
      /\ cursor.flags = flags[b] /\ cursor.offset = OffsetBefore(rels, i)
      /\ byOffset => cursor.delta = Step(rels, b, "offset")
      /\ byInfo => cursor.info = rels[b].info
      /\ cursor.addend = IF ~has THEN 0 ELSE IF by THEN rels[b].addend ELSE AddendBefore(rels, i)
  BY Zenon DEF InGroup
<1>7. ReadsOwn(whole, z, cursor.at, rels, flags, i, cursor.flags, cursor.delta, cursor.info)
  <2> DEFINE q == cursor.at
             fl == cursor.flags
             dd == cursor.delta
             ff == cursor.info
  <2>1. Sees(packed, whole, q, Own(rels, flags, i) \o z)
    BY <1>6
  <2>2. fl = flags[Group(flags, i)]
    BY <1>6
  <2> HIDE DEF q, fl, dd, ff, whole, z
  <2>3. ReadsOwn(whole, z, q, rels, flags, i, fl, dd, ff)
    BY <1>2, <1>4, <1>5, <2>1, <2>2, SeesEntry
  <2> QED BY <2>3 DEF q, fl, dd, ff
<1> HIDE DEF whole, z
<1>8. /\ Sees(packed, whole, addend[2], z)
      /\ addend[2] # 0 =>
           /\ delta[1] = IF byOffset THEN cursor.delta ELSE Step(rels, i, "offset")
           /\ info[1] = IF byInfo THEN cursor.info ELSE rels[i].info
           /\ addend[1] = IF has /\ ~by THEN Step(rels, i, "addend") ELSE 0
  BY <1>7, Zenon DEF ReadsOwn, OwnRead
<1>9. CASE addend[2] = 0
  <2>1. lib.extra < 0 <=> Len(packed) < PackedLength(lib.rels, flags)
    BY DEF InStep
  <2>2. Sees(packed, PackedLength(lib.rels, flags), addend[2], z)
    BY <1>8 DEF whole
  <2>3. lib.extra < 0
    BY <1>2, <1>9, <2>1, <2>2, RanOff
  <2> QED BY <1>9, <2>3 DEF Lost, AfterOwn
<1> HIDE DEF b, byOffset, byInfo, has, by
<1>10. ASSUME addend[2] # 0
       PROVE  InStep(lib, packed, c, Append(es, Entry(c.offset, c.info, c.addend)), flags, i + 1)
  <2>1. byOffset \in BOOLEAN /\ byInfo \in BOOLEAN /\ has \in BOOLEAN /\ by \in BOOLEAN
    BY GroupHasIs DEF byOffset, byInfo, has, by
  <2>2. /\ byInfo => rels[i].info = rels[b].info
        /\ byOffset => Step(rels, i, "offset") = Step(rels, b, "offset")
        /\ IF has THEN by => rels[i].addend = rels[b].addend ELSE rels[i].addend = 0
    <3>1. b = Group(flags, i)
      BY DEF b
    <3> QED BY <1>3, <3>1, FitsAt DEF byOffset, byInfo, has, by
  <2>3. c.offset = rels[i].offset
    <3>1. delta[1] = Step(rels, i, "offset")
      BY <1>6, <1>8, <1>10, <2>1, <2>2, Zenon
    <3>2. c.offset = OffsetBefore(rels, i) + Step(rels, i, "offset")
      BY <1>6, <3>1, Zenon DEF AfterOwn
    <3> QED BY <3>2, StepIs
  <2>4. c.info = rels[i].info
    BY <1>6, <1>8, <1>10, <2>1, <2>2, Zenon DEF AfterOwn
  <2>5. c.addend = rels[i].addend
    <3> DEFINE before == AddendBefore(rels, i)
               step == Step(rels, i, "addend")
               now == rels[i].addend
    <3>1. before \in Int /\ step \in Int /\ now \in Int /\ before + step = now
      BY StepIs
    <3>2. c.addend = cursor.addend + addend[1]
      BY Zenon DEF AfterOwn
    <3>3. addend[1] = IF has /\ ~by THEN step ELSE 0
      BY <1>8, <1>10
    <3>4. cursor.addend = IF has /\ ~by THEN before ELSE now
      BY <1>6, <2>1, <2>2, Zenon
    <3> HIDE DEF before, step, now
    <3>5. CASE has /\ ~by
      <4>1. c.addend = before + step
        BY <3>2, <3>3, <3>4, <3>5, Zenon
      <4> QED BY <3>1, <4>1 DEF now
    <3>6. CASE ~(has /\ ~by)
      <4>1. c.addend = now + 0
        BY <3>2, <3>3, <3>4, <3>6, Zenon
      <4>2. now + 0 = now
        BY <3>1
      <4> QED BY <4>1, <4>2 DEF now
    <3> QED BY <3>5, <3>6
  <2>6. Append(es, Entry(c.offset, c.info, c.addend)) =
          [j \in 1 .. i + 1 - 1 |-> Table(rels)[j]]
    <3>1. Table(rels)[i] = Entry(c.offset, c.info, c.addend)
      BY <1>1, <2>3, <2>4, <2>5 DEF Table
    <3>2. es = [j \in 1 .. i - 1 |-> Table(rels)[j]]
      BY Zenon DEF InStep
    <3>3. i \in 1 .. Len(rels) + 1 /\ i <= Len(rels) /\ i + 1 - 1 = i
      BY <1>1
    <3>4. Append(es, Table(rels)[i]) = [j \in 1 .. i |-> Table(rels)[j]]
      BY <3>2, <3>3, EntriesSoFar
    <3> QED BY <3>1, <3>3, <3>4, Zenon
  <2>7. i + 1 \in 1 .. Len(rels) + 1
    BY <1>1
  <2>8. c.at # 0 /\ c.count = Len(rels)
    BY <1>10, Zenon DEF InStep, AfterOwn
  <2>9. OffsetBefore(rels, i + 1) = rels[i].offset /\ AddendBefore(rels, i + 1) = rels[i].addend
    <3>1. i + 1 # 1 /\ i + 1 - 1 = i
      BY <1>1
    <3> QED BY <3>1 DEF OffsetBefore, AddendBefore
  <2>10. PICK e \in i .. Len(rels) :
           /\ cursor.left = e - i + 1
           /\ \A j \in i .. e : Group(flags, j) = b
           /\ e = Len(rels) \/ e + 1 \in DOMAIN flags
    BY Zenon DEF InGroup, b
  <2>11. Sees(packed, PackedLength(rels, flags), c.at, From(rels, flags)[i + 1])
    BY <1>8, Zenon DEF AfterOwn, whole, z
  <2>12. AtGroup(packed, c, rels, flags, i + 1) \/ InGroup(packed, c, rels, flags, i + 1)
    <3>1. CASE e = i
      <4>1. c.left = 0
        <5>1. cursor.left = 1
          BY <1>1, <2>10, <3>1
        <5> QED BY <5>1 DEF AfterOwn
      <4>2. i + 1 = Len(rels) + 1 \/ i + 1 \in DOMAIN flags
        BY <2>10, <3>1, Zenon
      <4> QED BY <2>3, <2>5, <2>9, <2>11, <4>1, <4>2, Zenon DEF AtGroup
    <3>2. CASE e # i
      <4>1. /\ i + 1 \in i .. e /\ i + 1 \in 1 .. Len(rels)
            /\ i + 1 <= Len(rels) /\ e \in i + 1 .. Len(rels)
        BY <1>1, <3>2
      <4>2. Group(flags, i + 1) = b /\ Group(flags, i) = b
        <5>1. i \in i .. e
          BY <1>1
        <5> QED BY <2>10, <4>1, <5>1
      <4>3. c.left = e - (i + 1) + 1
        <5>1. c.left = e - i + 1 - 1
          BY <2>10 DEF AfterOwn
        <5>2. e - i + 1 - 1 = e - (i + 1) + 1
          BY <1>1
        <5> QED BY <5>1, <5>2, Zenon
      <4>4. \A j \in i + 1 .. e : Group(flags, j) = Group(flags, i + 1)
        <5>1. \A j \in i + 1 .. e : j \in i .. e
          BY <1>1
        <5> QED BY <2>10, <4>2, <5>1, Zenon
      <4>5. \A flag : GroupHas(flags, i + 1, flag) = GroupHas(flags, i, flag)
        BY <4>2, Zenon DEF GroupHas
      <4>6. /\ GroupHas(flags, i + 1, RELOCATION_GROUPED_BY_OFFSET_DELTA) = byOffset
            /\ GroupHas(flags, i + 1, RELOCATION_GROUPED_BY_INFO) = byInfo
            /\ GroupHas(flags, i + 1, RELOCATION_GROUP_HAS_ADDEND) = has
            /\ GroupHas(flags, i + 1, RELOCATION_GROUPED_BY_ADDEND) = by
        BY <4>5 DEF byOffset, byInfo, has, by
      <4>7. c.flags = flags[Group(flags, i + 1)] /\ c.offset = OffsetBefore(rels, i + 1)
        BY <1>6, <2>3, <2>9, <4>2, Zenon DEF AfterOwn, b
      <4>8. byOffset => c.delta = Step(rels, Group(flags, i + 1), "offset")
        BY <1>6, <4>2, Zenon DEF AfterOwn
      <4>9. byInfo => c.info = rels[Group(flags, i + 1)].info
        BY <2>2, <2>4, <4>2, Zenon
      <4>10. c.addend = IF ~has THEN 0 ELSE IF by THEN rels[Group(flags, i + 1)].addend
                        ELSE AddendBefore(rels, i + 1)
        BY <2>1, <2>2, <2>5, <2>9, <4>2, Zenon
      <4>11. Sees(packed, PackedLength(rels, flags), c.at,
                  Own(rels, flags, i + 1) \o From(rels, flags)[i + 1 + 1])
        <5>1. i + 1 \notin DOMAIN flags
          <6>1. \A d \in DOMAIN flags : d <= i + 1 => d <= b
            BY <1>1, <1>3, <4>1, <4>2, GroupIs
          <6>2. b <= i /\ b \in Nat
            BY <1>1, <1>3, <4>2, GroupIs
          <6>3. ~(i + 1 <= b) /\ i + 1 <= i + 1
            BY <1>1, <6>2
          <6> QED BY <6>1, <6>3
        <5> DEFINE m == i + 1
        <5>2. m \in 1 .. Len(rels) /\ m \notin DOMAIN flags
          BY <4>1, <5>1
        <5> HIDE DEF m
        <5>3. /\ Own(rels, flags, m) \o From(rels, flags)[m + 1] \in Seq(Nat)
              /\ From(rels, flags)[m] = <<>> \o (Own(rels, flags, m) \o From(rels, flags)[m + 1])
          BY <1>3, <5>2, Continues, ZenonT(40)
        <5> DEFINE y == Own(rels, flags, i + 1) \o From(rels, flags)[i + 1 + 1]
        <5>4. y \in Seq(Nat) /\ From(rels, flags)[i + 1] = <<>> \o y
          BY <5>3 DEF m
        <5> HIDE DEF y
        <5>5. From(rels, flags)[i + 1] = y
          BY <5>4, ConcatEmptySeq
        <5> QED BY <2>11, <5>5 DEF y
      <4> QED BY <2>10, <4>1, <4>3, <4>4, <4>6, <4>7, <4>8, <4>9, <4>10, <4>11, Zenon DEF InGroup
    <3> QED BY <3>1, <3>2
  <2>13. /\ flags \in Groupings(lib.rels) /\ packed \in Seq(Nat)
         /\ lib.extra < 0 <=> Len(packed) < PackedLength(lib.rels, flags)
         /\ lib.extra = 0 <=> Len(packed) = PackedLength(lib.rels, flags)
    BY Zenon DEF InStep
  <2>14. /\ i + 1 \in 1 .. Len(lib.rels) + 1 /\ c.at # 0 /\ c.count = Len(lib.rels)
         /\ Append(es, Entry(c.offset, c.info, c.addend)) =
              [j \in 1 .. i + 1 - 1 |-> Table(lib.rels)[j]]
         /\ \/ AtGroup(packed, c, lib.rels, flags, i + 1)
            \/ InGroup(packed, c, lib.rels, flags, i + 1)
    BY <2>6, <2>7, <2>8, <2>12, Zenon
  <2> QED BY <2>13, <2>14 DEF InStep
<1> QED BY <1>9, <1>10

-----------------------------------------------------------------------------
(* BlobAbi: its steps. *)
LEMMA AbiStarts ==
  ASSUME AbiInit
  PROVE  AbiInv
BY DEF AbiInit, AbiInv, IsCursor

(* Before it links, nothing is built. *)
LEMMA Unbuilt ==
  ASSUME AbiInv, libgui = <<>>
  PROVE  /\ header = <<>> /\ entries = <<>> /\ IsCursor(cursor)
         /\ cursor.left = 0 /\ cursor.offset = 0 /\ cursor.addend = 0
BY LibrariesAre DEF AbiInv

LEMMA LinksStep ==
  ASSUME AbiInv, Links
  PROVE  AbiInv'
<1>1. /\ header = <<>> /\ entries = <<>> /\ IsCursor(cursor)
      /\ cursor.left = 0 /\ cursor.offset = 0 /\ cursor.addend = 0
  BY Unbuilt DEF Links
<1>2. header' = <<>> /\ entries' = <<>> /\ libgui' \in Libraries
  BY <1>1 DEF Links
<1> DEFINE lib == libgui'
           buf == packed'
           c == cursor'
<1>3. PICK flags \in Groupings(lib.rels) :
        buf = SubSeq(Packing(lib.rels, flags) \o << 0 >>,
                     1, Len(Packing(lib.rels, flags)) + lib.extra)
  BY Zenon DEF Links
<1>4. PICK rels \in Seq(Relocation) :
        /\ rels = lib.rels /\ lib.extra \in Int /\ lib.extra <= 1
  BY <1>2, LibrariesAre
<1>5. Len(rels) \in Nat
  BY LenProperties
<1>6. Grouping(rels, flags)
  BY <1>3, <1>4, <1>5, GroupingsAre
<1> DEFINE whole == Packing(rels, flags)
           rest == Sleb128[0] \o From(rels, flags)[1]
           first == From(rels, flags)[1]
           count == Read(buf, 1)
           offset == Read(buf, count[2])
<1>7. /\ whole \in Seq(Nat) /\ rest \in Seq(Nat) /\ first \in Seq(Nat)
      /\ whole = Sleb128[Len(rels)] \o rest
      /\ Len(whole) = PackedLength(rels, flags) /\ Len(whole) \in Nat \ {0}
  BY <1>6, PackingIs DEF PackedLength
<1>8. /\ buf \in Seq(Nat)
      /\ lib.extra < 0 <=> Len(buf) < Len(whole)
      /\ lib.extra = 0 <=> Len(buf) = Len(whole)
      /\ Sees(buf, Len(whole), 1, whole)
  <2> DEFINE x == lib.extra
  <2>1. x \in Int /\ x <= 1 /\ buf = SubSeq(whole \o << 0 >>, 1, Len(whole) + x)
    BY <1>3, <1>4
  <2> HIDE DEF whole, x, buf
  <2>2. CutOf(buf, whole, x)
    BY <1>7, <2>1, CutShows
  <2> QED BY <2>2 DEF CutOf, x
<1>9. c = [cursor EXCEPT !.at = offset[2], !.count = count[1], !.offset = offset[1]]
  BY Zenon DEF Links
<1>10. /\ IsCursor(c) /\ c.at = offset[2] /\ c.count = count[1] /\ c.offset = offset[1]
       /\ c.left = 0 /\ c.addend = 0
  <2> HIDE DEF c, offset, count
  <2> QED BY <1>1, <1>9 DEF IsCursor
<1> HIDE DEF lib, buf, c
<1>11. /\ Sees(buf, Len(whole), count[2], rest)
       /\ count[2] # 0 => count[1] = Len(rels)
  <2> DEFINE w == Len(whole)
             n == Len(rels)
  <2>1. w \in Nat /\ n \in Int /\ Sees(buf, w, 1, Sleb128[n] \o rest)
    BY <1>5, <1>7, <1>8
  <2> HIDE DEF w, n, rest
  <2>2. Sees(buf, w, count[2], rest) /\ (count[2] # 0 => count[1] = n)
    BY <1>7, <1>8, <2>1, SeesNumber
  <2> QED BY <2>2 DEF w, n
<1>12. /\ Sees(buf, Len(whole), offset[2], first)
       /\ offset[2] # 0 => count[2] # 0 /\ offset[1] = 0
  <2> DEFINE w == Len(whole)
             q == count[2]
  <2>1. w \in Nat /\ 0 \in Int /\ Sees(buf, w, q, Sleb128[0] \o first)
    BY <1>7, <1>11
  <2> HIDE DEF w, q, first
  <2>2. /\ Sees(buf, w, Read(buf, q)[2], first)
        /\ Read(buf, q)[2] # 0 => q # 0 /\ Read(buf, q)[1] = 0
    BY <1>7, <1>8, <2>1, SeesNumber
  <2> QED BY <2>2 DEF w, q
<1> HIDE DEF whole, rest, first, count, offset
<1>13. CASE offset[2] = 0
  <2>1. lib.extra < 0
    <3>1. lib.extra < 0 <=> Len(buf) < PackedLength(lib.rels, flags)
      BY <1>4, <1>7, <1>8
    <3>2. Sees(buf, PackedLength(lib.rels, flags), offset[2], first)
      BY <1>4, <1>7, <1>12
    <3> QED BY <1>8, <1>13, <3>1, <3>2, RanOff
  <2>2. Lost(lib, c)
    BY <1>10, <1>13, <2>1 DEF Lost
  <2> QED BY <1>2, <1>10, <2>2, Zenon DEF AbiInv, MeasuresOrRefuses, lib, c
<1>14. CASE offset[2] # 0
  <2>1. c.at # 0 /\ c.count = Len(rels) /\ c.offset = 0
    BY <1>10, <1>11, <1>12, <1>14
  <2>2. AtGroup(buf, c, rels, flags, 1)
    <3>1. 1 \in DOMAIN flags
      BY <1>6 DEF Grouping
    <3>2. OffsetBefore(rels, 1) = 0 /\ AddendBefore(rels, 1) = 0
      BY DEF OffsetBefore, AddendBefore
    <3>3. Sees(buf, PackedLength(rels, flags), c.at, From(rels, flags)[1])
      BY <1>7, <1>10, <1>12 DEF first
    <3> QED BY <1>10, <2>1, <3>1, <3>2, <3>3, Zenon DEF AtGroup
  <2>3. 1 \in 1 .. Len(rels) + 1
    BY <1>5
  <2>4. <<>> = [j \in 1 .. 1 - 1 |-> Table(rels)[j]]
    OBVIOUS
  <2>5. /\ flags \in Groupings(lib.rels) /\ 1 \in 1 .. Len(lib.rels) + 1 /\ buf \in Seq(Nat)
        /\ lib.extra < 0 <=> Len(buf) < PackedLength(lib.rels, flags)
        /\ lib.extra = 0 <=> Len(buf) = PackedLength(lib.rels, flags)
        /\ entries' = [j \in 1 .. 1 - 1 |-> Table(lib.rels)[j]]
        /\ c.at # 0 /\ c.count = Len(lib.rels) /\ AtGroup(buf, c, lib.rels, flags, 1)
    BY <1>2, <1>3, <1>4, <1>7, <1>8, <2>1, <2>2, <2>3, <2>4
  <2>6. InStep(lib, buf, c, entries', flags, 1)
    BY <2>5 DEF InStep
  <2> QED BY <1>2, <1>10, <2>6, Zenon DEF AbiInv, MeasuresOrRefuses, lib, buf, c
<1> QED BY <1>13, <1>14

LEMMA LinksPlainlyStep ==
  ASSUME AbiInv, LinksPlainly
  PROVE  AbiInv'
<1>1. header = <<>> /\ IsCursor(cursor) /\ cursor.left = 0
  BY Unbuilt DEF LinksPlainly
<1>2. /\ header' = <<>> /\ libgui' \in Libraries /\ libgui'.extra = 0 /\ packed' = <<0>>
      /\ entries' = Table(libgui'.rels)
      /\ cursor' = [cursor EXCEPT !.at = 2, !.count = Len(entries')]
  BY <1>1 DEF LinksPlainly
<1>3. IsCursor(cursor') /\ cursor'.at = 2 /\ cursor'.count = Len(entries') /\ cursor'.left = 0
  <2> DEFINE c == cursor'
             n == Len(entries')
  <2>1. c = [cursor EXCEPT !.at = 2, !.count = n]
    BY <1>2
  <2> HIDE DEF c, n
  <2>2. IsCursor(c) /\ c.at = 2 /\ c.count = n /\ c.left = 0
    BY <1>1, <2>1 DEF IsCursor
  <2> QED BY <2>2 DEF c, n
<1>4. Plain(libgui', packed', cursor', entries')
  BY <1>2, <1>3, Zenon DEF Plain
<1> QED BY <1>2, <1>3, <1>4, Zenon DEF AbiInv, MeasuresOrRefuses

(* While it decodes a packed table, it is in step with it. *)
LEMMA DecodesInStep ==
  ASSUME AbiInv, Decoding, ~Plain(libgui, packed, cursor, entries)
  PROVE  /\ libgui \in Libraries /\ IsCursor(cursor)
         /\ \E flags, i : InStep(libgui, packed, cursor, entries, flags, i)
BY Zenon DEF AbiInv, Decoding, Lost

LEMMA PlainIsRead ==
  ASSUME Plain(libgui, packed, cursor, entries)
  PROVE  Len(entries) = cursor.count /\ cursor.left = 0
BY DEF Plain

LEMMA InStepIs ==
  ASSUME NEW lib \in Libraries, NEW buf, NEW c, NEW es, NEW flags, NEW i,
         InStep(lib, buf, c, es, flags, i)
  PROVE  /\ lib.rels \in Seq(Relocation) /\ Len(lib.rels) \in Nat
         /\ i \in 1 .. Len(lib.rels) + 1 /\ Len(es) = i - 1
         /\ InGroup(buf, c, lib.rels, flags, i) => c.left > 0 /\ i \in 1 .. Len(lib.rels)
         /\ ~InGroup(buf, c, lib.rels, flags, i) => AtGroup(buf, c, lib.rels, flags, i)
         /\ c.count = Len(lib.rels)
<1>1. PICK rels \in Seq(Relocation) : rels = lib.rels
  BY LibrariesAre
<1>2. Len(rels) \in Nat
  BY LenProperties
<1>3. i \in 1 .. Len(rels) + 1 /\ es = [j \in 1 .. i - 1 |-> Table(rels)[j]]
  BY <1>1, Zenon DEF InStep
<1>4. Len(es) = i - 1
  BY <1>3, EntriesSoFar
<1>5. InGroup(buf, c, rels, flags, i) => c.left > 0 /\ i \in 1 .. Len(rels)
  <2> SUFFICES ASSUME InGroup(buf, c, rels, flags, i) PROVE c.left > 0 /\ i \in 1 .. Len(rels)
    OBVIOUS
  <2> DEFINE n == Len(rels)
             k == c.left
  <2>1. PICK e \in i .. n : k = e - i + 1
    BY DEF InGroup
  <2>2. i <= n
    BY DEF InGroup
  <2>3. n \in Nat /\ i \in 1 .. n + 1
    BY <1>2, <1>3
  <2> HIDE DEF n, k
  <2>4. k > 0 /\ i \in 1 .. n
    BY <2>1, <2>2, <2>3
  <2> QED BY <2>4 DEF n, k
<1>6. /\ ~InGroup(buf, c, lib.rels, flags, i) => AtGroup(buf, c, lib.rels, flags, i)
      /\ c.count = Len(lib.rels)
  BY Zenon DEF InStep
<1> QED BY <1>1, <1>2, <1>3, <1>4, <1>5, <1>6

LEMMA ReadsGroupStep ==
  ASSUME AbiInv, ReadsGroup
  PROVE  AbiInv'
<1> DEFINE size == Read(packed, cursor.at)
           fl == Read(packed, size[2])
           has(flag) == IsSet(fl[1], flag)
           delta == ReadIf(has(RELOCATION_GROUPED_BY_OFFSET_DELTA), 0, fl[2])
           info == ReadIf(has(RELOCATION_GROUPED_BY_INFO), cursor.info, delta[2])
           addend == ReadIf(/\ has(RELOCATION_GROUP_HAS_ADDEND)
                            /\ has(RELOCATION_GROUPED_BY_ADDEND), 0, info[2])
           c == cursor'
<1>1. /\ Decoding /\ cursor.left <= 0 /\ Len(entries) < cursor.count
      /\ UNCHANGED <<libgui, packed, entries, header>>
  BY Zenon DEF ReadsGroup
<1>2. c = [cursor EXCEPT !.at = addend[2], !.left = size[1], !.flags = fl[1],
             !.delta = delta[1], !.info = info[1],
             !.addend = GroupAddend(fl[1], cursor.addend, addend[1])]
  BY Zenon DEF ReadsGroup
<1>3. HeadRead(size, fl, delta, info, addend)
  BY Zenon DEF HeadRead
<1> HIDE DEF size, fl, delta, info, addend, c
<1>4. ~Plain(libgui, packed, cursor, entries)
  <2> SUFFICES ASSUME Plain(libgui, packed, cursor, entries) PROVE FALSE
    OBVIOUS
  <2>1. Len(entries) = cursor.count /\ cursor.count = Len(entries)
    BY PlainIsRead
  <2>2. Len(entries) \in Nat
    <3>1. entries = Table(libgui.rels) /\ libgui \in Libraries
      BY <1>1, LibrariesAre DEF Plain, AbiInv, Decoding
    <3>2. libgui.rels \in Seq(Relocation)
      BY <3>1, LibrariesAre
    <3>3. Len(libgui.rels) \in Nat /\ Len(libgui.rels) + 1 \in 1 .. Len(libgui.rels) + 1
      BY <3>2, LenProperties
    <3> DEFINE rels == libgui.rels
               n == Len(rels)
    <3>4. rels \in Seq(Relocation) /\ n \in Nat
      BY <3>2, <3>3
    <3>5. DOMAIN rels = 1 .. n
      BY <3>4, LenProperties
    <3>6. entries = [j \in 1 .. n |-> Table(rels)[j]]
      BY <3>1, <3>5 DEF Table
    <3>7. n + 1 - 1 = n /\ n + 1 \in 1 .. n + 1
      BY <3>4
    <3>8. entries = [j \in 1 .. n + 1 - 1 |-> Table(rels)[j]]
      BY <3>6, <3>7
    <3> HIDE DEF rels
    <3>9. Len(entries) = n + 1 - 1
      BY <3>4, <3>7, <3>8, EntriesSoFar
    <3> QED BY <3>4, <3>7, <3>9
  <2> QED BY <1>1, <2>1, <2>2
<1>5. /\ libgui \in Libraries /\ IsCursor(cursor)
      /\ \E flags, i : InStep(libgui, packed, cursor, entries, flags, i)
  BY <1>1, <1>4, DecodesInStep
<1>6. PICK flags, i : InStep(libgui, packed, cursor, entries, flags, i)
  BY <1>5
<1>7. PICK rels \in Seq(Relocation) : rels = libgui.rels /\ Len(rels) \in Nat
  BY <1>5, LibrariesAre, LenProperties
<1>8. AtGroup(packed, cursor, rels, flags, i) /\ i \in 1 .. Len(rels)
  <2>1. /\ i \in 1 .. Len(rels) + 1 /\ Len(entries) = i - 1
        /\ ~InGroup(packed, cursor, rels, flags, i) => AtGroup(packed, cursor, rels, flags, i)
        /\ cursor.count = Len(rels)
    BY <1>5, <1>6, <1>7, InStepIs
  <2>2. ~InGroup(packed, cursor, rels, flags, i)
    <3> SUFFICES ASSUME InGroup(packed, cursor, rels, flags, i) PROVE FALSE
      OBVIOUS
    <3> DEFINE k == cursor.left
    <3>1. k <= 0
      BY <1>1
    <3>2. PICK e \in i .. Len(rels) : k = e - i + 1
      BY DEF InGroup
    <3> DEFINE n == Len(rels)
    <3>3. n \in Nat /\ i \in 1 .. n + 1 /\ e \in i .. n
      BY <1>7, <2>1
    <3> HIDE DEF k, n
    <3> QED BY <3>1, <3>2, <3>3
  <2>3. AtGroup(packed, cursor, rels, flags, i)
    BY <2>1, <2>2
  <2>4. i \in 1 .. Len(rels)
    <3> DEFINE n == Len(rels)
    <3>1. n \in Nat /\ i \in 1 .. n + 1 /\ i - 1 < n
      BY <1>1, <1>7, <2>1
    <3> HIDE DEF n
    <3>2. i \in 1 .. n
      BY <3>1
    <3> QED BY <3>2 DEF n
  <2> QED BY <2>3, <2>4
<1>9. AfterHead(c, size, fl, delta, info, addend) /\ IsCursor(c)
  <2> DEFINE l == size[1]
             g == GroupAddend(fl[1], cursor.addend, addend[1])
  <2>1. c = [cursor EXCEPT !.at = addend[2], !.left = l, !.flags = fl[1],
               !.delta = delta[1], !.info = info[1], !.addend = g]
    BY <1>2
  <2> HIDE DEF l, g
  <2>2. /\ IsCursor(c) /\ c.at = addend[2] /\ c.count = cursor.count /\ c.left = l
        /\ c.flags = fl[1] /\ c.delta = delta[1] /\ c.offset = cursor.offset /\ c.info = info[1]
        /\ c.addend = g
    BY <1>5, <2>1 DEF IsCursor
  <2> QED BY <2>2 DEF AfterHead, l, g
<1>10. Lost(libgui, c) \/ InStep(libgui, packed, c, entries, flags, i)
  BY <1>3, <1>5, <1>6, <1>7, <1>8, <1>9, GroupStep
<1>11. /\ libgui' = libgui /\ packed' = packed /\ entries' = entries /\ header' = header
       /\ header = <<>>
  BY <1>1 DEF Decoding
<1>12. Lost(libgui', cursor') \/ InStep(libgui', packed', cursor', entries', flags, i)
  BY <1>10, <1>11 DEF c
<1> QED BY <1>5, <1>9, <1>11, <1>12, Zenon DEF AbiInv, MeasuresOrRefuses, c

LEMMA ReadsEntryStep ==
  ASSUME AbiInv, ReadsEntry
  PROVE  AbiInv'
<1> DEFINE has(flag) == IsSet(cursor.flags, flag)
           delta == ReadIf(~has(RELOCATION_GROUPED_BY_OFFSET_DELTA), cursor.delta, cursor.at)
           info == ReadIf(~has(RELOCATION_GROUPED_BY_INFO), cursor.info, delta[2])
           addend == ReadIf(/\ has(RELOCATION_GROUP_HAS_ADDEND)
                            /\ ~has(RELOCATION_GROUPED_BY_ADDEND), 0, info[2])
           c == cursor'
<1>1. /\ Decoding /\ cursor.left > 0
      /\ UNCHANGED <<libgui, packed, header>>
  BY Zenon DEF ReadsEntry
<1>2. /\ c = [cursor EXCEPT !.at = addend[2], !.left = cursor.left - 1, !.info = info[1],
                !.offset = cursor.offset + delta[1], !.addend = cursor.addend + addend[1]]
      /\ entries' = Append(entries, Entry(c.offset, c.info, c.addend))
  BY Zenon DEF ReadsEntry
<1>3. OwnRead(delta, info, addend)
  BY Zenon DEF OwnRead
<1> HIDE DEF delta, info, addend, c
<1>4. ~Plain(libgui, packed, cursor, entries)
  BY <1>1, PlainIsRead
<1>5. /\ libgui \in Libraries /\ IsCursor(cursor)
      /\ \E flags, i : InStep(libgui, packed, cursor, entries, flags, i)
  BY <1>1, <1>4, DecodesInStep
<1>6. PICK flags, i : InStep(libgui, packed, cursor, entries, flags, i)
  BY <1>5
<1>7. PICK rels \in Seq(Relocation) : rels = libgui.rels
  BY <1>5, LibrariesAre
<1>8. InGroup(packed, cursor, rels, flags, i) /\ i \in 1 .. Len(rels)
  <2>1. /\ InGroup(packed, cursor, rels, flags, i) => i \in 1 .. Len(rels)
        /\ ~InGroup(packed, cursor, rels, flags, i) => AtGroup(packed, cursor, rels, flags, i)
    BY <1>5, <1>6, <1>7, InStepIs
  <2>2. ~AtGroup(packed, cursor, rels, flags, i)
    BY <1>1 DEF AtGroup
  <2> QED BY <2>1, <2>2
<1>9. AfterOwn(c, delta, info, addend) /\ IsCursor(c)
  <2> DEFINE l == cursor.left - 1
             o == cursor.offset + delta[1]
             g == cursor.addend + addend[1]
  <2>1. c = [cursor EXCEPT !.at = addend[2], !.left = l, !.info = info[1], !.offset = o,
                           !.addend = g]
    BY <1>2
  <2> HIDE DEF l, o, g
  <2>2. /\ IsCursor(c) /\ c.at = addend[2] /\ c.count = cursor.count /\ c.left = l
        /\ c.flags = cursor.flags /\ c.delta = cursor.delta /\ c.offset = o /\ c.info = info[1]
        /\ c.addend = g
    BY <1>5, <2>1 DEF IsCursor
  <2> QED BY <2>2 DEF AfterOwn, l, o, g
<1>10. \/ Lost(libgui, c)
       \/ InStep(libgui, packed, c, Append(entries, Entry(c.offset, c.info, c.addend)),
                 flags, i + 1)
  BY <1>3, <1>5, <1>6, <1>7, <1>8, <1>9, EntryStep
<1>11. /\ libgui' = libgui /\ packed' = packed /\ header' = header /\ header = <<>>
  BY <1>1 DEF Decoding
<1>12. Lost(libgui', cursor') \/ InStep(libgui', packed', cursor', entries', flags, i + 1)
  BY <1>2, <1>10, <1>11 DEF c
<1> QED BY <1>5, <1>9, <1>11, <1>12, Zenon DEF AbiInv, MeasuresOrRefuses, c

(* What Measures has read when it has come to the end *)
LEMMA AllRead ==
  ASSUME AbiInv, Decoding, cursor.left <= 0, Len(entries) >= cursor.count
  PROVE  /\ libgui \in Libraries /\ IsCursor(cursor) /\ entries = Table(libgui.rels)
         /\ cursor.at = Len(packed) + 1 <=> libgui.extra = 0
<1>1. libgui \in Libraries /\ IsCursor(cursor)
  BY LibrariesAre DEF AbiInv, Decoding
<1>2. CASE Plain(libgui, packed, cursor, entries)
  <2>1. cursor.at = 2 /\ packed = <<0>> /\ libgui.extra = 0 /\ entries = Table(libgui.rels)
    BY <1>2, Zenon DEF Plain
  <2>2. Len(packed) = 1
    BY <2>1
  <2> QED BY <1>1, <2>1, <2>2
<1>3. CASE ~Plain(libgui, packed, cursor, entries)
  <2>1. PICK flags, i : InStep(libgui, packed, cursor, entries, flags, i)
    BY <1>3, DecodesInStep
  <2>2. PICK rels \in Seq(Relocation) : rels = libgui.rels /\ Len(rels) \in Nat
    BY <1>1, LibrariesAre, LenProperties
  <2>3. /\ i \in 1 .. Len(rels) + 1 /\ Len(entries) = i - 1
        /\ InGroup(packed, cursor, rels, flags, i) => i \in 1 .. Len(rels)
        /\ ~InGroup(packed, cursor, rels, flags, i) => AtGroup(packed, cursor, rels, flags, i)
        /\ cursor.count = Len(rels)
    BY <1>1, <2>1, <2>2, InStepIs
  <2> DEFINE n == Len(rels)
  <2>4. n \in Nat /\ i \in 1 .. n + 1 /\ i - 1 >= n
    BY <2>2, <2>3
  <2>5. i = n + 1 /\ i \notin 1 .. n
    <3> HIDE DEF n
    <3> QED BY <2>4
  <2>6. AtGroup(packed, cursor, rels, flags, n + 1)
    BY <2>3, <2>5
  <2>7. entries = Table(rels)
    <3>1. entries = [j \in 1 .. i - 1 |-> Table(rels)[j]]
      BY <2>1, <2>2, Zenon DEF InStep
    <3> QED BY <2>3, <2>5, <3>1, EntriesSoFar
  <2>8. Grouping(rels, flags) /\ packed \in Seq(Nat) /\ cursor.at # 0
        /\ (libgui.extra = 0 <=> Len(packed) = PackedLength(rels, flags))
    <3>1. /\ flags \in Groupings(rels) /\ packed \in Seq(Nat) /\ cursor.at # 0
          /\ (libgui.extra = 0 <=> Len(packed) = PackedLength(rels, flags))
      BY <2>1, <2>2, Zenon DEF InStep
    <3> QED BY <2>2, <3>1, GroupingsAre
  <2>9. Sees(packed, PackedLength(rels, flags), cursor.at, <<>>)
    <3>1. From(rels, flags)[Len(rels) + 1] = <<>>
      BY <2>8, FromIsSeq
    <3> QED BY <2>6, <3>1 DEF AtGroup
  <2> DEFINE w == PackedLength(rels, flags)
             p == cursor.at
             l == Len(packed)
  <2>10. p \in Nat /\ p + 0 = w + 1 /\ w \in Nat /\ l \in Nat
    <3>1. w \in Nat /\ l \in Nat
      BY <2>8, PackingIs, LenProperties
    <3>2. p \in 1 .. l + 1 /\ p + Len(<<>>) = w + 1
      BY <2>8, <2>9 DEF Sees
    <3>3. Len(<<>>) = 0
      BY EmptySeq
    <3> HIDE DEF p, w, l
    <3> QED BY <3>1, <3>2, <3>3
  <2>11. p = l + 1 <=> l = w
    <3> HIDE DEF p, w, l
    <3> QED BY <2>10
  <2> QED BY <1>1, <2>2, <2>7, <2>8, <2>11
<1> QED BY <1>2, <1>3

LEMMA MeasuresStep ==
  ASSUME AbiInv, Measures
  PROVE  AbiInv'
<1>1. /\ Decoding /\ cursor.left <= 0 /\ Len(entries) >= cursor.count
      /\ header' = IF cursor.at = Len(packed) + 1 /\ Readable(libgui, entries)
                   THEN <<"written", Measured(libgui, entries)>> ELSE <<"refused">>
      /\ UNCHANGED <<libgui, packed, cursor, entries>>
  BY Zenon DEF Measures
<1>2. /\ libgui \in Libraries /\ IsCursor(cursor) /\ entries = Table(libgui.rels)
      /\ cursor.at = Len(packed) + 1 <=> libgui.extra = 0
  BY <1>1, AllRead
<1>3. header' = IF libgui.extra = 0 /\ Readable(libgui, Table(libgui.rels))
                THEN <<"written", Measured(libgui, Table(libgui.rels))>> ELSE <<"refused">>
  BY <1>1, <1>2, Zenon
<1>4. libgui.compiled = IF libgui.extra = 0 /\ Readable(libgui, Table(libgui.rels))
                        THEN {Measured(libgui, Table(libgui.rels))} ELSE {}
  BY <1>2, LibrariesAre
<1> DEFINE m == Measured(libgui, Table(libgui.rels))
<1>5. The({m}) = m /\ {m} # {}
  BY DEF The
<1>6. header' = IF libgui.compiled # {} THEN <<"written", The(libgui.compiled)>> ELSE <<"refused">>
  <2> HIDE DEF m
  <2> QED BY <1>3, <1>4, <1>5, Zenon DEF m
<1>7. header' # <<>>
  BY <1>3
<1> QED BY <1>1, <1>2, <1>6, <1>7 DEF AbiInv, MeasuresOrRefuses

LEMMA RunsOffStep ==
  ASSUME AbiInv, RunsOff
  PROVE  AbiInv'
<1>1. /\ header = <<>> /\ libgui # <<>> /\ cursor.at = 0 /\ header' = <<"refused">>
      /\ UNCHANGED <<libgui, packed, cursor, entries>>
  BY Zenon DEF RunsOff
<1>2. libgui \in Libraries /\ IsCursor(cursor)
  BY <1>1, Zenon DEF AbiInv
<1>3. Lost(libgui, cursor)
  <2>1. \A flags, i : ~InStep(libgui, packed, cursor, entries, flags, i)
    BY <1>1, Zenon DEF InStep
  <2>2. ~Plain(libgui, packed, cursor, entries)
    BY <1>1 DEF Plain
  <2> QED BY <1>1, <2>1, <2>2, Zenon DEF AbiInv
<1>4. libgui.compiled = {}
  <2>1. libgui.extra \in Int /\ libgui.extra < 0
    BY <1>2, <1>3, LibrariesAre DEF Lost
  <2>2. libgui.extra # 0
    BY <2>1
  <2> QED BY <1>2, <2>2, LibrariesAre
<1>5. header' # <<>>
  BY <1>1
<1> QED BY <1>1, <1>2, <1>4, <1>5 DEF AbiInv, MeasuresOrRefuses

LEMMA AbiStep ==
  ASSUME AbiInv, AbiNext \/ UNCHANGED abiVars
  PROVE  AbiInv'
<1>1. CASE AbiNext
  BY <1>1, LinksStep, LinksPlainlyStep, ReadsGroupStep, ReadsEntryStep, MeasuresStep, RunsOffStep
     DEF AbiNext
<1>2. CASE UNCHANGED abiVars
  <2>1. /\ libgui' = libgui /\ packed' = packed /\ cursor' = cursor /\ entries' = entries
        /\ header' = header
    BY <1>2 DEF abiVars
  <2> QED BY <2>1, Zenon DEF AbiInv, MeasuresOrRefuses
<1> QED BY <1>1, <1>2

(* The header holds the layout the library was compiled with, or it was    *)
(* refused, for every table of relocations, every grouping of it the linker *)
(* may choose, and every end that is missing or one byte too long: read     *)
(* back, the bytes are the table.  That the table gives the layout is       *)
(* LibraryAssumption.                                                       *)
THEOREM MeasuresOrRefusesHolds == Spec => []MeasuresOrRefuses
<1>1. Init => AbiInv
  BY AbiStarts DEF Init
<1>2. AbiInv /\ [Next]_vars => AbiInv'
  <2> SUFFICES ASSUME AbiInv, [Next]_vars PROVE AbiInv'
    OBVIOUS
  <2>1. AbiNext \/ UNCHANGED abiVars
    BY Zenon DEF Next, vars, Probe, Face, Panic, Gate, Frames, Abi
  <2> QED BY <2>1, AbiStep
<1>3. AbiInv => MeasuresOrRefuses
  BY DEF AbiInv, MeasuresOrRefuses
<1> QED BY <1>1, <1>2, <1>3, PTL DEF Spec
=============================================================================
