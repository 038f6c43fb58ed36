------------------------------ MODULE HostTools ------------------------------
(* The scripts a developer runs on the host: the packer of the boot images  *)
(* and the check of the probe's libraries.  They share nothing: a behaviour *)
(* is one of one of them, so that the state space is their sum.             *)
EXTENDS UpParamPack, SeamCheck

VARIABLE script  \* the script a behaviour is one of

hostVars == <<script, vars, seamVars>>

(* Of the script that does not run: some input. *)
PackIdles ==
  /\ run = 0 /\ pc = "exited"
  /\ images = (CHOOSE dir \in ImageDirs : TRUE) /\ reference = None
  /\ tmp = None /\ out = None /\ disk = [tmp |-> None, out |-> None]
SeamIdles ==
  /\ found = {} /\ imports = {} /\ direct = <<>>
  /\ needed = [s \in Sonames |-> <<>>] /\ defined = [l \in DOMAIN Seam |-> {}]
  /\ closure = {} /\ unresolved = {} /\ pending = <<>> /\ verdict = "none"

HostInit ==
  \/ script = "pack" /\ Init /\ SeamIdles
  \/ script = "seam" /\ SeamInit /\ PackIdles

Pack == script = "pack" /\ Next /\ UNCHANGED <<script, seamVars>>
CheckSeam == script = "seam" /\ SeamNext /\ UNCHANGED <<script, vars>>

HostNext == Pack \/ CheckSeam

(* verify-seam.py runs to its end: nothing in it waits for anyone. *)
HostSpec == HostInit /\ [][HostNext]_hostVars /\ WF_hostVars(CheckSeam)

-----------------------------------------------------------------------------
(* The walk ends, libraries that need one another included. *)
WalkEnds == script = "seam" ~> verdict # "none"
=============================================================================
