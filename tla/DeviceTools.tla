----------------------------- MODULE DeviceTools ------------------------------
(* The device's small programs.  They have nothing to do with one another: *)
(* a behaviour is one of one of them, so that the state space is their sum.*)
EXTENDS SecfrProbe, FaceClosure, PanicToRecovery, BootloaderGate, IilFrame,
        BlobAbi

VARIABLE tool  \* the program a behaviour is one of

vars == <<tool, probeVars, faceVars, panicVars, gateVars, frameVars, abiVars>>

Init ==
  /\ tool \in {"probe", "face", "panic", "gate", "frame", "abi"}
  /\ ProbeInit /\ FaceInit /\ PanicInit /\ GateInit /\ FrameInit /\ AbiInit

Probe ==
  /\ tool = "probe" /\ ProbeNext
  /\ UNCHANGED <<tool, faceVars, panicVars, gateVars, frameVars, abiVars>>
Face ==
  /\ tool = "face" /\ FaceNext
  /\ UNCHANGED <<tool, probeVars, panicVars, gateVars, frameVars, abiVars>>
Panic ==
  /\ tool = "panic" /\ PanicNext
  /\ UNCHANGED <<tool, probeVars, faceVars, gateVars, frameVars, abiVars>>
Gate ==
  /\ tool = "gate" /\ GateNext
  /\ UNCHANGED <<tool, probeVars, faceVars, panicVars, frameVars, abiVars>>
Frames ==
  /\ tool = "frame" /\ FrameNext
  /\ UNCHANGED <<tool, probeVars, faceVars, panicVars, gateVars, abiVars>>
Abi ==
  /\ tool = "abi" /\ AbiNext
  /\ UNCHANGED <<tool, probeVars, faceVars, panicVars, gateVars, frameVars>>

Next == Probe \/ Face \/ Panic \/ Gate \/ Frames \/ Abi

Spec == Init /\ [][Next]_vars
(* bootstat, init and the helper go on. *)
FairSpec == Spec /\ WF_vars(Panic)

(* Type invariant of the programs; what BlobAbi holds is read from bytes,  *)
(* and MeasuresOrRefuses says what comes of it.                            *)
TypeOK == ProbeTypeOK /\ FaceTypeOK /\ PanicTypeOK /\ GateTypeOK /\ FrameTypeOK
=============================================================================
