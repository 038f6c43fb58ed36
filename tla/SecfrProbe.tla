----------------------------- MODULE SecfrProbe ------------------------------
(***************************************************************************)
(* The probe of the face library: it makes an engine, has it load and ask  *)
(* the trusted application, prints the record it gets, walks the capture   *)
(* model and takes everything down; its exit code says how far it got.     *)
(*                                                                         *)
(* What Samsung's libraries do behind SecfrSeam.h is external: a call      *)
(* succeeds or not, the engine takes and drops references to itself, the   *)
(* model may have nothing to hand out at an index.  What is printed is     *)
(* kept as far as it says something: bytes of the record, and the lines    *)
(* that begin with FAIL or DIFF.                                           *)
(***************************************************************************)
EXTENDS Naturals, Sequences, FiniteSets

CONSTANTS Missing,      \* a null pointer of the capture model
          RecordBytes,  \* size of sec_fr_generated_challenge
          Row,          \* bytes on a printed line
          MaxCameras, MaxSurfaces,  \* bounds: of the capture model
          MaxTaken                  \* bound: references the engine holds

ASSUME SizesAssumption == RecordBytes \in Nat /\ Row \in Nat \ {0}
ASSUME ProbeBoundsAssumption ==
  MaxCameras \in Nat \ {0} /\ MaxSurfaces \in Nat \ {0} /\ MaxTaken \in Nat

(* The capture model: a rotation per surface, a rotation and surfaces per  *)
(* camera, cameras per configuration; stock: one camera, one surface, 270. *)
Stock == 270
Rotations == {90, Stock}
UpTo(n, S) == UNION {[1 .. k -> S] : k \in 0 .. n}
Cameras == [rotation : Rotations, surfaces : UpTo(MaxSurfaces, Rotations \cup {Missing})]
Records == [1 .. RecordBytes -> {0, 1}]
Configurations == UpTo(MaxCameras, Cameras \cup {Missing})

ASSUME MissingAssumption == Missing \notin Rotations \cup Cameras \cup Configurations

VARIABLES
  stage,      \* what main does next, or "exit"
  held,       \* strong references of the probe on the engine: 0 or 1
  taken,      \* and those of the engine itself
  alive,      \* the engine has not been deleted
  loaded,     \* the trusted application
  record,     \* challenge.opaque: bytes, 0 or not
  printed,    \* indices of the record's bytes that were printed
  config,     \* what getConfig returned
  cam, surf,  \* index of the camera and of the surface looked at
  seen,       \* <<camera, surface>> visited; surface 0: the camera itself
  fails, diffs, \* numbers of FAIL and of DIFF lines
  code        \* the exit code

engine == <<held, taken, alive, loaded>>
walk == <<config, cam, surf, seen, fails, diffs>>
output == <<record, printed>>
probeVars == <<stage, engine, output, walk, code>>

ProbeInit ==
  /\ stage = "create" /\ held = 0 /\ taken = 0 /\ alive = FALSE /\ loaded = FALSE
  /\ record = <<>> /\ printed = {}
  /\ config = Missing /\ cam = 1 /\ surf = 0 /\ seen = {} /\ fails = 0 /\ diffs = 0
  /\ code = 0

Exits(k) == stage' = "exit" /\ code' = k
Goes(next) == stage' = next /\ UNCHANGED code

-----------------------------------------------------------------------------
(* createFaceEngine: the constructor leaves no reference, incStrong adds   *)
(* the probe's.                                                            *)
CreateFaceEngine ==
  /\ stage = "create"
  /\ \/ Exits(1) /\ UNCHANGED <<held, alive>>
     \/ Goes("init") /\ alive' = TRUE /\ held' = 1
  /\ UNCHANGED <<taken, loaded, output, walk>>

(* The engine at work: decStrong of the last reference deletes it. *)
Working == stage \notin {"create", "exit"} /\ alive
EngineTakes ==
  /\ Working /\ taken < MaxTaken
  /\ taken' = taken + 1
  /\ UNCHANGED <<stage, held, alive, loaded, output, walk, code>>
EngineDrops ==
  /\ Working /\ taken > 0
  /\ taken' = taken - 1
  /\ alive' = (held + taken' > 0)
  /\ UNCHANGED <<stage, held, loaded, output, walk, code>>

(* main: a call that fails ends it with the code of its stage. *)
InitEngine ==
  /\ stage = "init"
  /\ Goes("load") \/ Exits(2)
  /\ UNCHANGED <<engine, output, walk>>
LoadTA ==
  /\ stage = "load"
  /\ \/ Goes("challenge") /\ loaded' = TRUE
     \/ Exits(3) /\ UNCHANGED loaded
  /\ UNCHANGED <<held, taken, alive, output, walk>>
GenerateChallenge ==
  /\ stage = "challenge"
  /\ \/ Goes("dump") /\ record' \in Records
     \/ Exits(4) /\ UNCHANGED record
  /\ UNCHANGED <<engine, printed, walk>>

(* dumpChallengeRecord: up to the last byte that is not zero, in rows. *)
Used(r) == IF \A i \in DOMAIN r : r[i] = 0 THEN 0
           ELSE CHOOSE i \in DOMAIN r : r[i] # 0 /\ \A j \in DOMAIN r : j > i => r[j] = 0
RowFrom(offset, used) == {i \in 1 .. used : offset < i /\ i <= offset + Row}
Offsets(used) == {o \in {k * Row : k \in 0 .. used} : o < used}
DumpChallengeRecord ==
  /\ stage = "dump"
  /\ printed' = UNION {RowFrom(o, Used(record)) : o \in Offsets(Used(record))}
  /\ Goes("level")
  /\ UNCHANGED <<engine, record, walk>>

(* The record is of no use any more: the model forgets it. *)
GetSecurityLevel ==
  /\ stage = "level"
  /\ Goes("model") \/ Exits(5)
  /\ record' = <<>> /\ printed' = {}
  /\ UNCHANGED <<engine, walk>>

-----------------------------------------------------------------------------
Diff(actual, expected) == IF actual = expected THEN 0 ELSE 1

(* dumpCaptureModel, up to the loop over the cameras: no model, or no      *)
(* configuration, is a FAIL, but not the end of main.                      *)
GetModel ==
  /\ stage = "model"
  /\ \/ fails' = fails + 1 /\ Goes("unload") /\ UNCHANGED <<config, diffs>>
     \/ /\ config' \in Configurations
        /\ diffs' = Diff(Len(config'), 1)
        /\ Goes("camera") /\ UNCHANGED fails
  /\ UNCHANGED <<engine, output, cam, surf, seen>>

(* A camera that is not retrievable is skipped. *)
LookAtCamera_givesUp ==
  /\ stage = "camera" /\ cam <= Len(config)
  /\ seen' = seen \cup {<<cam, 0>>}
  /\ IF config[cam] = Missing
       THEN fails' = fails + 1 /\ Goes("unload") /\ UNCHANGED <<cam, surf, diffs>>
       ELSE /\ diffs' = diffs + Diff(config[cam].rotation, Stock)
                              + Diff(Len(config[cam].surfaces), 1)
            /\ surf' = 1 /\ Goes("surface") /\ UNCHANGED <<cam, fails>>
  /\ UNCHANGED <<engine, output, config>>
LookAtCamera ==
  /\ stage = "camera" /\ cam <= Len(config)
  /\ seen' = seen \cup {<<cam, 0>>}
  /\ IF config[cam] = Missing
       THEN fails' = fails + 1 /\ cam' = cam + 1 /\ UNCHANGED <<stage, code, surf, diffs>>
       ELSE /\ diffs' = diffs + Diff(config[cam].rotation, Stock)
                              + Diff(Len(config[cam].surfaces), 1)
            /\ surf' = 1 /\ Goes("surface") /\ UNCHANGED <<cam, fails>>
  /\ UNCHANGED <<engine, output, config>>

LookAtSurface ==
  LET surfaces == config[cam].surfaces IN
  /\ stage = "surface" /\ surf <= Len(surfaces)
  /\ seen' = seen \cup {<<cam, surf>>}
  /\ fails' = fails + (IF surfaces[surf] = Missing THEN 1 ELSE 0)
  /\ diffs' = diffs + (IF surfaces[surf] = Missing THEN 0 ELSE Diff(surfaces[surf], Stock))
  /\ surf' = surf + 1
  /\ UNCHANGED <<stage, engine, output, config, cam, code>>

NextCamera ==
  /\ stage = "surface" /\ surf > Len(config[cam].surfaces)
  /\ cam' = cam + 1 /\ surf' = 0 /\ Goes("camera")
  /\ UNCHANGED <<engine, output, config, seen, fails, diffs>>
LastCamera ==
  /\ stage = "camera" /\ cam > Len(config)
  /\ Goes("unload")
  /\ UNCHANGED <<engine, output, walk>>

-----------------------------------------------------------------------------
(* unloadTA and release, whose results are not looked at, then decStrong. *)
UnloadTA ==
  /\ stage = "unload"
  /\ loaded' \in {loaded, FALSE} /\ Goes("release")
  /\ UNCHANGED <<held, taken, alive, output, walk>>
Release ==
  /\ stage = "release"
  /\ Goes("drop")
  /\ UNCHANGED <<engine, output, walk>>
DecStrong ==
  /\ stage = "drop"
  /\ held' = 0 /\ alive' = (taken > 0)
  /\ Exits(0)
  /\ UNCHANGED <<taken, loaded, output, walk>>

ProbeNext ==
  \/ CreateFaceEngine \/ EngineTakes \/ EngineDrops
  \/ InitEngine \/ LoadTA \/ GenerateChallenge \/ DumpChallengeRecord \/ GetSecurityLevel
  \/ GetModel \/ LookAtCamera \/ LookAtSurface \/ NextCamera \/ LastCamera
  \/ UnloadTA \/ Release \/ DecStrong

ProbeTypeOK ==
  /\ stage \in {"create", "init", "load", "challenge", "dump", "level", "model",
                "camera", "surface", "unload", "release", "drop", "exit"}
  /\ held \in 0 .. 1 /\ taken \in 0 .. MaxTaken
  /\ alive \in BOOLEAN /\ loaded \in BOOLEAN
  /\ record \in {<<>>} \cup Records
  /\ printed \subseteq 1 .. RecordBytes
  /\ config \in Configurations \cup {Missing}
  /\ cam \in 1 .. MaxCameras + 1 /\ surf \in 0 .. MaxSurfaces + 1
  /\ seen \subseteq (1 .. MaxCameras) \X (0 .. MaxSurfaces)
  /\ fails \in Nat /\ diffs \in Nat /\ code \in 0 .. 5

(* Every call finds the engine alive, however often the engine drops the   *)
(* references it takes on itself.                                          *)
EngineAlive == stage \notin {"create", "exit"} => alive

(* The dump shows every byte of the record that is not zero, in a last row *)
(* that is not full as well.                                               *)
DumpShowsRecord ==
  stage = "level" => \A i \in DOMAIN record : record[i] # 0 => i \in printed

(* The walk visits every camera and every surface the library counts: one  *)
(* that is not retrievable does not hide the rest.                         *)
Counted ==
  {<<c, 0>> : c \in 1 .. Len(config)}
  \cup UNION {{<<c, s>> : s \in 1 .. Len(config[c].surfaces)} :
                c \in {d \in 1 .. Len(config) : config[d] # Missing}}
WalkVisitsAll == stage = "unload" /\ config # Missing => seen = Counted

(* A run of the probe without FAIL and DIFF means that the capture model   *)
(* is the stock one, and only the stock one gives such a run.              *)
StockConfiguration == <<[rotation |-> Stock, surfaces |-> <<Stock>>]>>
CleanMeansStock ==
  stage = "unload" => (fails + diffs = 0 <=> config = StockConfiguration)

(* What the probe reports can be relied on. *)
ProbeIsSound == EngineAlive /\ DumpShowsRecord /\ WalkVisitsAll /\ CleanMeansStock
=============================================================================
