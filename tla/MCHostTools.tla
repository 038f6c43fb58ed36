----------------------------- MODULE MCHostTools -----------------------------
(* Model-checking instance of HostTools: those of its two parts. *)
EXTENDS HostTools, MCUpParamPack, MCSeamCheck
=============================================================================
