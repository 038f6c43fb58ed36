------------------------- MODULE ChannelSupervisor -------------------------
(***************************************************************************)
(* What the IMS bridge promises of each slot, without binders, messages,   *)
(* threads or death notices: a supervised link to the modem that is up or  *)
(* down, a switch that stops the supervision, and a bounded run of tries   *)
(* that starts whenever a supervised link goes down.                       *)
(***************************************************************************)
EXTENDS Naturals

CONSTANTS Slots, MaxTries

VARIABLES up,       \* rild holds the slot's callback, as far as is known
          off,      \* supervision is stopped
          tries     \* tries made since the link went down; 0 if none runs

vars == <<up, off, tries>>

Init ==
  /\ up = [s \in Slots |-> FALSE]
  /\ off = [s \in Slots |-> FALSE]
  /\ tries = [s \in Slots |-> 0]

Become(s, u, o, n) ==
  /\ up' = [up EXCEPT ![s] = u]
  /\ off' = [off EXCEPT ![s] = o]
  /\ tries' = [tries EXCEPT ![s] = n]

(* The link comes up, by a try or by a call of the client.                 *)
GoesUp(s) == \E o \in {off[s], FALSE} : Become(s, TRUE, o, 0)

(* The link goes down; unless supervision is off, the first try is set.    *)
GoesDown(s) ==
  /\ up[s]
  /\ \E o \in {off[s], FALSE} : Become(s, FALSE, o, IF o THEN 0 ELSE 1)

(* A call of the client finds the link down and starts the tries.          *)
FirstTry(s) ==
  /\ ~up[s] /\ tries[s] = 0
  /\ \E o \in {off[s], FALSE} : ~o /\ Become(s, FALSE, o, 1)

NextTry(s) ==
  /\ ~up[s] /\ ~off[s] /\ tries[s] \in 1 .. MaxTries - 1
  /\ Become(s, FALSE, FALSE, tries[s] + 1)

GiveUp(s) ==
  /\ ~up[s] /\ ~off[s] /\ tries[s] = MaxTries
  /\ Become(s, FALSE, FALSE, 0)

TurnOn(s) == Become(s, up[s], FALSE, tries[s])

TurnOff(S) ==
  /\ up' = [s \in Slots |-> up[s] /\ s \notin S]
  /\ off' = [s \in Slots |-> off[s] \/ s \in S]
  /\ tries' = [s \in Slots |-> IF s \in S THEN 0 ELSE tries[s]]

Next ==
  \/ \E s \in Slots : \/ GoesUp(s) \/ GoesDown(s) \/ FirstTry(s)
                      \/ NextTry(s) \/ GiveUp(s) \/ TurnOn(s)
  \/ \E S \in SUBSET Slots : TurnOff(S)

Spec == Init /\ [][Next]_vars
=============================================================================
