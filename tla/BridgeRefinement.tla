------------------------- MODULE BridgeRefinement --------------------------
(***************************************************************************)
(* The refinement mapping from the IMS bridge to ChannelSupervisor: a slot *)
(* is up while callbackInstalled, off while stopped, and its tries are     *)
(* rebindAttempt.                                                          *)
(***************************************************************************)
EXTENDS ImsModemBridge

Supervisor ==
  INSTANCE ChannelSupervisor
    WITH MaxTries <- MaxAttempts,
         up <- [s \in Slots |-> slots[s].callbackInstalled],
         off <- [s \in Slots |-> slots[s].stopped],
         tries <- [s \in Slots |-> slots[s].rebindAttempt]

(* The bridge implements the supervised link: every step of any thread is  *)
(* a supervisor step or none.                                              *)
SupervisorSpec == Supervisor!Spec
=============================================================================
