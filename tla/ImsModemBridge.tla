--------------------------- MODULE ImsModemBridge ---------------------------
(***************************************************************************)
(* SamsungImsModemBridgeImpl: per SIM slot, one binder channel into rild   *)
(* and the callback rild holds on it, kept up across rild restarts.        *)
(*                                                                         *)
(* Four kinds of thread meet in the program: binder threads that run       *)
(* start(), stop() and the two send methods, the thread that delivers      *)
(* death notices, the looper of the re-bind HandlerThread, and the main    *)
(* thread that calls shutdown().  Every synchronized (mLock) block is one  *)
(* atomic action.  What happens outside the lock is a step of its own: a   *)
(* send's transaction, an obituary on its way to binderDied(), a re-bind   *)
(* message taken off the queue but still waiting for mLock.                *)
(*                                                                         *)
(* rild and servicemanager are the environment: rild may die, restart,     *)
(* accept or refuse callbacks at any time, and servicemanager may answer   *)
(* with a channel whose host is already dead.                              *)
(***************************************************************************)
EXTENDS Naturals, Integers

CONSTANTS Slots,          \* SIM slots the IMS client uses
          Threads,        \* binder threads that can be inside a send
          MaxAttempts,    \* REBIND_MAX_ATTEMPTS
          MaxGeneration,  \* bound: rild instances per service
          NoChannel       \* the null binder

ASSUME SlotsAssumption == Slots \subseteq {0, 1}
(* The code has 20.  With 1, a re-bind already off the queue could give up *)
(* while the message of a newer chain is still queued.                     *)
ASSUME AttemptsAssumption == MaxAttempts \in Nat /\ MaxAttempts >= 2
ASSUME GenerationAssumption == MaxGeneration \in Nat

ServiceName(s) == IF s = 0 THEN "imsd" ELSE "imsd2"

Services == {ServiceName(s) : s \in Slots}
Channels == Services \X (1 .. MaxGeneration)
ASSUME ChannelAssumption == NoChannel \notin Channels

NoSlot == -1
Idle == [slot |-> NoSlot, binder |-> NoChannel]

VARIABLES
  slots,       \* mSlots: the SlotState of each slot
  dequeued,    \* slot whose re-bind message the looper has taken, or NoSlot
  looper,      \* mRebindThread: "running", "closing", "quit"
  sending,     \* per binder thread: the slot and binder its send uses
  notices,     \* obituaries on their way to binderDied()
  generation,  \* per service: rild instances started so far
  alive,       \* channels whose rild instance runs
  accepting,   \* channels whose rild instance accepts setCallback
  registered,  \* per service: what servicemanager answers
  callbackAt   \* per channel: the slot whose callbackStub rild holds

bridge == <<slots, dequeued, looper, sending, notices>>
rild == <<generation, alive, accepting, registered>>
vars == <<bridge, rild, callbackAt>>

(***************************************************************************)
(* linked: our death recipient is registered on binder and has not fired.  *)
(* queued: the Handler queue holds a re-bind message with this slot's      *)
(* token; it never holds two, each post removes the one before.            *)
(***************************************************************************)
SlotState ==
  [created : BOOLEAN, binder : Channels \cup {NoChannel}, linked : BOOLEAN,
   callbackInstalled : BOOLEAN, stopped : BOOLEAN,
   rebindAttempt : 0 .. MaxAttempts, queued : BOOLEAN]

NewSlot ==
  [created |-> FALSE, binder |-> NoChannel, linked |-> FALSE,
   callbackInstalled |-> FALSE, stopped |-> FALSE,
   rebindAttempt |-> 0, queued |-> FALSE]

Init ==
  /\ slots = [s \in Slots |-> NewSlot]
  /\ dequeued = NoSlot
  /\ looper = "running"
  /\ sending = [t \in Threads |-> Idle]
  /\ notices = {}
  /\ generation = [n \in Services |-> 0]
  /\ alive = {}
  /\ accepting = {}
  /\ registered = [n \in Services |-> NoChannel]
  /\ callbackAt = [c \in Channels |-> NoSlot]

-----------------------------------------------------------------------------
(***************************************************************************)
(* The ...Locked helpers: operators from a SlotState to a SlotState, or to *)
(* the set of states they may leave behind.                                *)
(***************************************************************************)
SlotLocked(s) == [slots[s] EXCEPT !.created = TRUE]

DropChannelLocked_keepsCallback(st) ==
  [st EXCEPT !.binder = NoChannel, !.linked = FALSE]
DropChannelLocked(st) ==
  [st EXCEPT !.binder = NoChannel, !.linked = FALSE, !.callbackInstalled = FALSE]

(* Posting on a looper that has quit fails, after the old message is gone. *)
PostAccepted == looper # "quit"

ScheduleRebindLocked_offByOne(st) ==
  IF st.rebindAttempt > MaxAttempts
    THEN [st EXCEPT !.rebindAttempt = 0]
    ELSE [st EXCEPT !.rebindAttempt = @ + 1, !.queued = PostAccepted]
ScheduleRebindLocked_neverGivesUp(st) ==
  IF st.rebindAttempt >= MaxAttempts
    THEN [st EXCEPT !.queued = PostAccepted]
    ELSE [st EXCEPT !.rebindAttempt = @ + 1, !.queued = PostAccepted]
ScheduleRebindLocked(st) ==
  IF st.rebindAttempt >= MaxAttempts
    THEN [st EXCEPT !.rebindAttempt = 0]
    ELSE [st EXCEPT !.rebindAttempt = @ + 1, !.queued = PostAccepted]

LoseChannelLocked_ignoresStop(st) ==
  IF st.rebindAttempt # 0 THEN DropChannelLocked(st)
                          ELSE ScheduleRebindLocked(DropChannelLocked(st))
LoseChannelLocked(st) ==
  IF st.stopped \/ st.rebindAttempt # 0
    THEN DropChannelLocked(st)
    ELSE ScheduleRebindLocked(DropChannelLocked(st))

(* isBinderAlive() of a dead binder is true until its death is noticed.    *)
NoticeDeath(st) ==
  {st} \cup {LoseChannelLocked(st) : c \in {st.binder} \ (alive \cup {NoChannel})}

(* linkToDeath on a dead channel may throw; if it does not, the obituary   *)
(* is still to come.                                                       *)
AcquireLocked_neverWatches(s, st) ==
  IF st.binder # NoChannel THEN {st}
  ELSE {[st EXCEPT !.binder = registered[ServiceName(s)]]}
AcquireLocked(s, st) ==
  LET c == registered[ServiceName(s)]
  IN  IF st.binder # NoChannel \/ c = NoChannel
        THEN {st}
        ELSE {[st EXCEPT !.binder = c, !.linked = TRUE]}
             \cup {LoseChannelLocked(st) : x \in {c} \ alive}

(* took: rild stored the callback.  A refusal is a transact that returns   *)
(* false or throws, and rild may have run setCallback all the same.        *)
InstallCallbackLocked(b) ==
  IF b \in accepting
    THEN {[ok |-> TRUE, took |-> TRUE]}
    ELSE {[ok |-> FALSE, took |-> FALSE]}
         \cup {[ok |-> FALSE, took |-> TRUE] : x \in {b} \cap alive}

AfterInstall(st, ok) ==
  IF ok /\ st.rebindAttempt # 0
    THEN [st EXCEPT !.callbackInstalled = TRUE, !.rebindAttempt = 0, !.queued = FALSE]
  ELSE IF ok THEN [st EXCEPT !.callbackInstalled = TRUE]
  ELSE IF ~st.stopped /\ st.rebindAttempt = 0 THEN ScheduleRebindLocked(st)
  ELSE st

ConnectLocked(s, st) ==
  LET bound == UNION {AcquireLocked(s, x) : x \in NoticeDeath(st)}
      needsCallback(x) == x.binder # NoChannel /\ ~x.callbackInstalled
  IN  {[slot |-> x, took |-> FALSE] : x \in {y \in bound : ~needsCallback(y)}}
      \cup UNION {{[slot |-> AfterInstall(x, r.ok), took |-> r.took] :
                      r \in InstallCallbackLocked(x.binder)} :
                      x \in {y \in bound : needsCallback(y)}}

(* The outcome o of a connectLocked on slot s becomes the state.           *)
Connected(s, o) ==
  /\ slots' = [slots EXCEPT ![s] = o.slot]
  /\ callbackAt' = IF o.took THEN [callbackAt EXCEPT ![o.slot.binder] = s]
                             ELSE callbackAt

-----------------------------------------------------------------------------
(* Calls of the IMS client, on binder threads.                             *)
Start(s) ==
  /\ \E o \in ConnectLocked(s, [SlotLocked(s) EXCEPT !.stopped = FALSE]) :
        Connected(s, o)
  /\ UNCHANGED <<dequeued, looper, sending, notices, rild>>

Stopped_keepsMessage(st) ==
  DropChannelLocked([st EXCEPT !.stopped = TRUE, !.rebindAttempt = 0])
Stopped(st) ==
  DropChannelLocked([st EXCEPT !.stopped = TRUE, !.rebindAttempt = 0, !.queued = FALSE])

Stop_clearsQueue(s) ==
  /\ slots[s].created
  /\ slots' = [x \in Slots |-> IF x = s THEN Stopped(slots[s])
                               ELSE [slots[x] EXCEPT !.queued = FALSE]]
  /\ UNCHANGED <<dequeued, looper, sending, notices, rild, callbackAt>>
Stop(s) ==
  /\ slots[s].created
  /\ slots' = [slots EXCEPT ![s] = Stopped(slots[s])]
  /\ UNCHANGED <<dequeued, looper, sending, notices, rild, callbackAt>>

(* sendRegistration and sendPreference: bind() under the lock, the         *)
(* one-way transaction outside it, invalidate() under it if that failed.   *)
BeginSend(t, s) ==
  /\ sending[t] = Idle
  /\ \E o \in ConnectLocked(s, SlotLocked(s)) :
        /\ Connected(s, o)
        /\ sending' = IF o.slot.binder = NoChannel THEN sending
                      ELSE [sending EXCEPT ![t] = [slot |-> s, binder |-> o.slot.binder]]
  /\ UNCHANGED <<dequeued, looper, notices, rild>>

SendReturns(t) ==
  /\ sending[t] # Idle
  /\ sending[t].binder \in alive
  /\ sending' = [sending EXCEPT ![t] = Idle]
  /\ UNCHANGED <<slots, dequeued, looper, notices, rild, callbackAt>>

Invalidate_anyBinder(st, failed) ==
  IF st.binder = NoChannel THEN st ELSE LoseChannelLocked(st)
Invalidate(st, failed) ==
  IF st.binder # failed THEN st ELSE LoseChannelLocked(st)

SendFails(t) ==
  /\ sending[t] # Idle
  /\ LET s == sending[t].slot
     IN  slots' = [slots EXCEPT ![s] = Invalidate(slots[s], sending[t].binder)]
  /\ sending' = [sending EXCEPT ![t] = Idle]
  /\ UNCHANGED <<dequeued, looper, notices, rild, callbackAt>>

-----------------------------------------------------------------------------
(* The binder driver fires the death recipient of a slot's dead channel:   *)
(* from here on unlinkToDeath comes too late.                              *)
Obituary(s) ==
  /\ slots[s].linked
  /\ slots[s].binder \notin alive
  /\ notices' = notices \cup {<<s, slots[s].binder>>}
  /\ slots' = [slots EXCEPT ![s].linked = FALSE]
  /\ UNCHANGED <<dequeued, looper, sending, rild, callbackAt>>

(* ChannelDeathRecipient.binderDied(): the same test as invalidate().      *)
BinderDied(s, c) ==
  /\ <<s, c>> \in notices
  /\ notices' = notices \ {<<s, c>>}
  /\ slots' = [slots EXCEPT ![s] = Invalidate(slots[s], c)]
  /\ UNCHANGED <<dequeued, looper, sending, rild, callbackAt>>

(* The looper takes a due message off the queue, then rebind() waits for   *)
(* mLock: stop() and start() can come in between.                          *)
DequeueRebind(s) ==
  /\ dequeued = NoSlot
  /\ slots[s].queued
  /\ dequeued' = s
  /\ slots' = [slots EXCEPT ![s].queued = FALSE]
  /\ UNCHANGED <<looper, sending, notices, rild, callbackAt>>

RebindApplies(st) == ~st.stopped /\ st.rebindAttempt # 0

RescheduleIfMissing_never(st) == st
RescheduleIfMissing(st) == IF st.callbackInstalled THEN st ELSE ScheduleRebindLocked(st)

Rebind(s) ==
  /\ dequeued = s
  /\ dequeued' = NoSlot
  /\ \/ /\ ~RebindApplies(slots[s])
        /\ UNCHANGED <<slots, callbackAt>>
     \/ /\ RebindApplies(slots[s])
        /\ \E o \in ConnectLocked(s, slots[s]) :
              Connected(s, [slot |-> RescheduleIfMissing(o.slot), took |-> o.took])
  /\ UNCHANGED <<looper, sending, notices, rild>>

-----------------------------------------------------------------------------
(* shutdown(): the locked part, then quitSafely(), which drops the         *)
(* messages that are not yet due.                                          *)
ShutdownDropsChannels ==
  /\ looper = "running"
  /\ looper' = "closing"
  /\ slots' = [s \in Slots |-> IF slots[s].created THEN Stopped(slots[s])
                               ELSE [slots[s] EXCEPT !.queued = FALSE]]
  /\ UNCHANGED <<dequeued, sending, notices, rild, callbackAt>>

ShutdownQuits ==
  /\ looper = "closing"
  /\ looper' = "quit"
  /\ \E due \in SUBSET Slots :
        slots' = [s \in Slots |-> [slots[s] EXCEPT !.queued = @ /\ s \in due]]
  /\ UNCHANGED <<dequeued, sending, notices, rild, callbackAt>>

-----------------------------------------------------------------------------
(* rild and servicemanager.                                                *)
Instance(n) == <<n, generation[n]>>

RildStarts(n) ==
  /\ generation[n] < MaxGeneration
  /\ Instance(n) \notin alive
  /\ generation' = [generation EXCEPT ![n] = @ + 1]
  /\ alive' = alive \cup {<<n, generation[n] + 1>>}
  /\ UNCHANGED <<bridge, accepting, registered, callbackAt>>

RildDies(n) ==
  /\ Instance(n) \in alive
  /\ alive' = alive \ {Instance(n)}
  /\ accepting' = accepting \ {Instance(n)}
  /\ UNCHANGED <<bridge, generation, registered, callbackAt>>

RildAccepts(n) ==
  /\ Instance(n) \in alive \ accepting
  /\ accepting' = accepting \cup {Instance(n)}
  /\ UNCHANGED <<bridge, generation, alive, registered, callbackAt>>

RildRefuses(n) ==
  /\ Instance(n) \in accepting
  /\ accepting' = accepting \ {Instance(n)}
  /\ UNCHANGED <<bridge, generation, alive, registered, callbackAt>>

Register(n) ==
  /\ Instance(n) \in alive
  /\ registered[n] # Instance(n)
  /\ registered' = [registered EXCEPT ![n] = Instance(n)]
  /\ UNCHANGED <<bridge, generation, alive, accepting, callbackAt>>

(* Also a checkService that throws: connectLocked treats it as null.       *)
Unregister(n) ==
  /\ registered[n] # NoChannel
  /\ registered' = [registered EXCEPT ![n] = NoChannel]
  /\ UNCHANGED <<bridge, generation, alive, accepting, callbackAt>>

-----------------------------------------------------------------------------
Client == \/ \E s \in Slots : Start(s) \/ Stop(s)
          \/ \E t \in Threads, s \in Slots : BeginSend(t, s)
          \/ \E t \in Threads : SendReturns(t) \/ SendFails(t)
Deaths == \/ \E s \in Slots : Obituary(s)
          \/ \E n \in notices : BinderDied(n[1], n[2])
Looper == \E s \in Slots : DequeueRebind(s) \/ Rebind(s)
Shutdown == ShutdownDropsChannels \/ ShutdownQuits
Environment ==
  \E n \in Services : \/ RildStarts(n) \/ RildDies(n)
                      \/ RildAccepts(n) \/ RildRefuses(n)
                      \/ Register(n) \/ Unregister(n)

Next == Client \/ Deaths \/ Looper \/ Shutdown \/ Environment

Spec == Init /\ [][Next]_vars

(***************************************************************************)
(* The looper runs its due messages in order of time, so none is passed    *)
(* over for ever; the binder driver delivers obituaries; mLock is free     *)
(* again after each block.  Nothing is assumed of the client or of rild.   *)
(***************************************************************************)
Fairness ==
  /\ \A s \in Slots : SF_vars(DequeueRebind(s)) /\ WF_vars(Rebind(s))
  /\ \A s \in Slots : WF_vars(Obituary(s))
  /\ \A s \in Slots, c \in Channels : WF_vars(BinderDied(s, c))

FairSpec == Spec /\ Fairness
-----------------------------------------------------------------------------
(* Type invariant of the bridge's state and of its environment.            *)
TypeOK ==
  /\ slots \in [Slots -> SlotState]
  /\ dequeued \in Slots \cup {NoSlot}
  /\ looper \in {"running", "closing", "quit"}
  /\ sending \in [Threads -> {Idle} \cup [slot : Slots, binder : Channels]]
  /\ notices \subseteq Slots \X Channels
  /\ generation \in [Services -> 0 .. MaxGeneration]
  /\ alive \subseteq Channels
  /\ accepting \subseteq alive
  /\ registered \in [Services -> Channels \cup {NoChannel}]
  /\ callbackAt \in [Channels -> Slots \cup {NoSlot}]

Up(s) == slots[s].callbackInstalled
Bound(s) == slots[s].binder # NoChannel
Retrying(s) == slots[s].rebindAttempt # 0

(* A slot whose channel is dead always has word of it outstanding: the     *)
(* recipient is still linked or its obituary is on its way to binderDied().*)
(* No order of stop, re-bind, late notice and lazy re-bind to a dead       *)
(* channel leaves a dead binder in SlotState that nothing will ever drop.  *)
NoSilentDeath ==
  \A s \in Slots :
    Bound(s) /\ slots[s].binder \notin alive
      => slots[s].linked \/ <<s, slots[s].binder>> \in notices

(* What callbackInstalled says (SlotState, "rild holds our callback on     *)
(* binder") is true of rild as long as the channel lives: it holds this    *)
(* slot's stub, not the other slot's, on a channel of this slot's service. *)
CallbackIsOurs ==
  \A s \in Slots :
    Up(s) => /\ Bound(s)
             /\ slots[s].binder[1] = ServiceName(s)
             /\ slots[s].binder \in alive => callbackAt[slots[s].binder] = s

(* A counted attempt always has a message that will carry it on, queued or *)
(* held by the looper, until the looper quits: a chain of re-binds never   *)
(* stalls with rebindAttempt set, which would bar every later chain.       *)
NoStalledChain ==
  \A s \in Slots :
    Retrying(s) /\ looper # "quit" => slots[s].queued \/ dequeued = s

(* No re-bind is left over for a slot that is stopped or whose callback is *)
(* installed: only a message already off the queue can still reach it.     *)
NoLeftoverRebind ==
  \A s \in Slots :
    slots[s].stopped \/ Up(s) \/ ~Retrying(s)
      => ~Retrying(s) /\ ~slots[s].queued

(* A live channel is given up only by stop() or shutdown(), or because a   *)
(* send that used that very channel has failed: neither a death notice nor *)
(* a failed send of an older channel costs the slot a newer one.           *)
LiveChannelKept ==
  [][\A s \in Slots :
       LET c == slots[s].binder
       IN  c \in alive /\ slots'[s].binder # c
             => \/ slots'[s].stopped /\ UNCHANGED <<sending, notices>>
                \/ \E t \in Threads : sending[t] = [slot |-> s, binder |-> c]
                                      /\ sending'[t] = Idle]_vars

(* A slot that is not stopped and loses its installed callback leaves the  *)
(* step with a re-bind posted, whichever of death notice, failed send or   *)
(* dead-binder check found out, and even if the channel is replaced at     *)
(* once but rild refuses the callback.                                     *)
LossStartsRebind ==
  [][\A s \in Slots :
       Up(s) /\ ~Up(s)' /\ ~slots'[s].stopped
         => slots'[s].rebindAttempt = 1 /\ (looper # "quit" => slots'[s].queued)]_vars

(* The same of a channel, also one that rild has refused the callback on:  *)
(* a slot that loses it and is not stopped ends the step with its callback *)
(* on another, with a chain under way, or with the last attempt used.      *)
ChannelLossStartsRebind ==
  [][\A s \in Slots :
       slots[s].binder \notin {NoChannel, slots'[s].binder} /\ ~slots'[s].stopped
         => \/ Up(s)' \/ Retrying(s)'
            \/ slots[s].rebindAttempt = MaxAttempts /\ dequeued = s]_vars

(* A chain of re-binds ends in one of three ways: the callback is          *)
(* installed, the slot is stopped, or all MaxAttempts attempts were used   *)
(* and the looper itself gave up.                                          *)
ChainEndsForAReason ==
  [][\A s \in Slots :
       Retrying(s) /\ ~Retrying(s)'
         => \/ Up(s)' \/ slots'[s].stopped
            \/ slots[s].rebindAttempt = MaxAttempts /\ dequeued = s]_vars

(* Every chain of re-binds ends while the looper runs, however often rild  *)
(* dies, refuses or comes back and the client sends, stops and starts.     *)
ChainEnds ==
  \A s \in Slots : Retrying(s) ~> (~Retrying(s) \/ looper = "quit")

(* rild serves the slot and takes callbacks. *)
Serving(s) ==
  LET c == registered[ServiceName(s)] IN c \in alive /\ c \in accepting

(* If a chain is pending and rild serves the slot from then on, the slot   *)
(* gets its callback back without a further call from the client, unless   *)
(* it is stopped or the bridge is shut down.                               *)
RebindRestoresCallback ==
  \A s \in Slots :
    (Retrying(s) /\ []Serving(s)) ~> (Up(s) \/ slots[s].stopped \/ looper = "quit")

(* SlotState's comment on rebindAttempt, "0 while no re-bind is pending",  *)
(* read as the program states it: at all times.                            *)
AttemptMeansPending ==
  \A s \in Slots : Retrying(s) => slots[s].queued \/ dequeued = s
=============================================================================
