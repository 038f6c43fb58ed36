-------------------------- MODULE BridgeStepProofs --------------------------
(***************************************************************************)
(* What a step of the bridge may do to a slot: the action properties and   *)
(* the refinement of ChannelSupervisor, from the invariant IInv.           *)
(***************************************************************************)
EXTENDS ImsModemBridgeProofs, BridgeRefinement

(* The ways a slot's record st can become d.  Same, Lost and Begun are     *)
(* what losing a channel or missing a callback does, o being the stopped   *)
(* flag under which it happens.  Kept: a channel that goes while all else  *)
(* stays goes under a chain that is on already.                            *)
Same(st, d) ==
  /\ d.callbackInstalled = st.callbackInstalled
  /\ d.rebindAttempt = st.rebindAttempt /\ d.queued = st.queued
Kept(st, o, d) ==
  o \/ st.binder \in {NoChannel, d.binder} \/ d.rebindAttempt # 0
Lost(st, o, d) ==
  o /\ st.callbackInstalled /\ ~d.callbackInstalled /\ d.rebindAttempt = 0
Begun(st, o, d) ==
  /\ ~o /\ st.rebindAttempt = 0 /\ ~d.callbackInstalled /\ d.rebindAttempt = 1
  /\ d.queued <=> looper # "quit"
Held(st, o, d) ==
  /\ d.stopped = o
  /\ \/ Same(st, d) /\ Kept(st, o, d)
     \/ Lost(st, o, d) \/ Begun(st, o, d)
Came(o, d) == d.stopped = o /\ d.callbackInstalled /\ d.rebindAttempt = 0
Linked(st, o, d) == Held(st, o, d) \/ Came(o, d)

TurnedOff(d) == d.stopped /\ ~d.callbackInstalled /\ d.rebindAttempt = 0
Tried(s, st, d) ==
  /\ dequeued = s /\ ~st.stopped /\ ~d.stopped
  /\ ~st.callbackInstalled /\ ~d.callbackInstalled
  /\ \/ /\ st.rebindAttempt \in 1 .. MaxAttempts - 1
        /\ d.rebindAttempt = st.rebindAttempt + 1
     \/ st.rebindAttempt = MaxAttempts /\ d.rebindAttempt = 0
Calm(st, d) ==
  /\ Kept(st, d.stopped, d)
  /\ d.callbackInstalled = st.callbackInstalled
  /\ d.rebindAttempt = st.rebindAttempt /\ d.stopped = st.stopped

SlotStep(s, st, d) ==
  \/ \E o \in {st.stopped, FALSE} : Linked(st, o, d)
  \/ TurnedOff(d) \/ Tried(s, st, d) \/ Calm(st, d)

-----------------------------------------------------------------------------
(* Two such changes in a row are one of them. *)
LEMMA HeldTwice ==
  ASSUME NEW st, NEW a, NEW d, NEW o,
         a.stopped = o, Held(st, o, a), Linked(a, o, d)
  PROVE  Linked(st, o, d)
  BY DEF Linked, Held, Same, Kept, Lost, Begun, Came

LEMMA LoseHeld ==
  ASSUME NEW s \in Slots, NEW st, SlotOK(s, st), st.created,
         NEW d, d = LoseChannelLocked(st)
  PROVE  Held(st, st.stopped, d)
<1>1. PICK e : e = DropChannelLocked(st)
  OBVIOUS
<1>2. st \in SlotState
  BY DEF SlotOK, RecordOK
<1>3. /\ e \in SlotState
      /\ ~e.callbackInstalled /\ e.queued = st.queued
      /\ e.stopped = st.stopped /\ e.rebindAttempt = st.rebindAttempt
  BY <1>1, <1>2 DEF DropChannelLocked, SlotState
<1>4. CASE st.stopped \/ st.rebindAttempt # 0
  <2>1. d = e
    BY <1>1, <1>4 DEF LoseChannelLocked
  <2>2. CASE st.callbackInstalled
    BY <1>3, <1>4, <2>1, <2>2 DEF SlotOK, RecordOK, Held, Lost
  <2>3. CASE ~st.callbackInstalled
    <3>1. st.callbackInstalled = FALSE /\ e.callbackInstalled = FALSE
      BY <1>2, <1>3, <2>3 DEF SlotState
    <3> QED
      BY <1>3, <1>4, <2>1, <3>1 DEF Held, Same, Kept
  <2> QED
    BY <2>2, <2>3
<1>5. CASE ~st.stopped /\ st.rebindAttempt = 0
  <2>1. d = ScheduleRebindLocked(e) /\ e.rebindAttempt < MaxAttempts
    BY <1>1, <1>3, <1>5, AttemptsAssumption DEF LoseChannelLocked
  <2>2. /\ d.rebindAttempt = e.rebindAttempt + 1
        /\ d.queued <=> looper # "quit"
        /\ d.callbackInstalled = e.callbackInstalled /\ d.stopped = e.stopped
    BY <1>3, <2>1, ScheduleNext
  <2>3. d.rebindAttempt = 1
    BY <1>3, <1>5, <2>2
  <2> QED
    BY <1>3, <1>5, <2>2, <2>3 DEF Held, Begun
<1> QED
  BY <1>4, <1>5

(* connectLocked: what it does to the link, and that it never gives up a   *)
(* live channel.                                                           *)
LEMMA ConnectHeld ==
  ASSUME TypeOK, RegisteredOK,
         NEW s \in Slots, NEW st, SlotOK(s, st), st.created,
         NEW o \in ConnectLocked(s, st)
  PROVE  /\ Linked(st, st.stopped, o.slot)
         /\ st.binder \in alive => o.slot.binder = st.binder
<1>1. PICK a, x : /\ a \in NoticeDeath(st) /\ x \in AcquireLocked(s, a)
                  /\ \/ o = [slot |-> x, took |-> FALSE]
                     \/ /\ x.binder # NoChannel /\ ~x.callbackInstalled
                        /\ \E r \in InstallCallbackLocked(x.binder) :
                             o = [slot |-> AfterInstall(x, r.ok), took |-> r.took]
  BY DEF ConnectLocked
<1>2. NoChannel \notin alive
  BY ChannelAssumption DEF TypeOK
<1>3. a = st \/ (a = LoseChannelLocked(st) /\ st.binder \notin alive)
  BY <1>1 DEF NoticeDeath
<1>4. SlotOK(s, a) /\ a.stopped = st.stopped /\ a.created
  BY <1>1, NoticeDeathOK
<1>5. Held(st, st.stopped, a) /\ (st.binder \in alive => a = st)
  BY <1>3, LoseHeld DEF Held, Same, Kept
<1>6. Held(a, st.stopped, x) /\ (st.binder \in alive => x.binder = st.binder)
  <2>1. CASE x = a
    BY <1>4, <1>5, <2>1 DEF Held, Same, Kept
  <2>2. CASE x = LoseChannelLocked(a) /\ a.binder = NoChannel
    BY <1>2, <1>4, <1>5, <2>2, LoseHeld
  <2>3. CASE \E c : x = [a EXCEPT !.binder = c, !.linked = TRUE] /\ a.binder = NoChannel
    <3>1. PICK c : x = [a EXCEPT !.binder = c, !.linked = TRUE] /\ a.binder = NoChannel
      BY <2>3
    <3>2. a \in SlotState
      BY <1>4 DEF SlotOK, RecordOK
    <3>3. Same(a, x) /\ x.stopped = a.stopped
      BY <3>1, <3>2 DEF Same, Kept, SlotState
    <3> QED
      BY <1>2, <1>4, <1>5, <3>1, <3>3 DEF Held, Kept
  <2> QED
    BY <1>1, <2>1, <2>2, <2>3 DEF AcquireLocked
<1>7. SlotOK(s, x) /\ x.stopped = st.stopped /\ x.created
  BY <1>1, <1>4, AcquireOK
<1>8. Held(st, st.stopped, x)
  <2>1. Linked(a, st.stopped, x)
    BY <1>6 DEF Linked
  <2>2. Linked(st, st.stopped, x)
    BY <1>4, <1>5, <2>1, HeldTwice
  <2> QED
    BY <1>5, <1>6, <2>2 DEF Linked, Held, Same, Kept, Lost, Begun, Came
<1>9. CASE o = [slot |-> x, took |-> FALSE]
  BY <1>6, <1>8, <1>9 DEF Linked
<1>10. CASE /\ x.binder # NoChannel /\ ~x.callbackInstalled
            /\ \E r \in InstallCallbackLocked(x.binder) :
                 o = [slot |-> AfterInstall(x, r.ok), took |-> r.took]
  <2>1. PICK r \in InstallCallbackLocked(x.binder) :
             o = [slot |-> AfterInstall(x, r.ok), took |-> r.took]
    BY <1>10
  <2>2. PICK d : d = AfterInstall(x, r.ok)
    OBVIOUS
  <2>3. o.slot = d
    BY <2>1, <2>2
  <2>4. d.binder = x.binder /\ d.stopped = x.stopped /\ (d.callbackInstalled <=> r.ok)
        /\ RecordOK(s, d)
    BY <1>7, <1>10, <2>2, AfterInstallOK
  <2>5. Linked(x, st.stopped, d)
    <3>1. CASE r.ok
      BY <1>7, <2>4, <3>1 DEF RecordOK, Linked, Came
    <3>2. CASE ~r.ok /\ ~x.stopped /\ x.rebindAttempt = 0
      <4>1. /\ d = ScheduleRebindLocked(x) /\ x \in SlotState
            /\ x.rebindAttempt < MaxAttempts
        BY <1>7, <2>2, <3>2, AttemptsAssumption DEF AfterInstall, SlotOK, RecordOK
      <4>2. d.rebindAttempt = x.rebindAttempt + 1 /\ (d.queued <=> looper # "quit")
        BY <4>1, ScheduleNext
      <4>3. d.rebindAttempt = 1
        BY <3>2, <4>2
      <4> QED
        BY <1>7, <2>4, <3>2, <4>2, <4>3 DEF Linked, Held, Begun
    <3>3. CASE ~r.ok /\ ~(~x.stopped /\ x.rebindAttempt = 0)
      <4>1. d = x
        BY <2>2, <3>3 DEF AfterInstall
      <4> QED
        BY <1>7, <4>1 DEF Linked, Held, Same, Kept
    <3> QED
      BY <3>1, <3>2, <3>3
  <2> QED
    BY <1>6, <1>7, <1>8, <2>3, <2>4, <2>5, HeldTwice
<1> QED
  BY <1>1, <1>9, <1>10

-----------------------------------------------------------------------------
(* One slot moves, or some slots are turned off and the others keep calm.  *)
OneSlot(s) ==
  /\ SlotStep(s, slots[s], slots'[s])
  /\ \A x \in Slots : x # s => slots'[x] = slots[x]
SomeOff(S) ==
  \A x \in Slots : IF x \in S THEN TurnedOff(slots'[x])
                              ELSE Calm(slots[x], slots'[x])
Moves == (\E s \in Slots : OneSlot(s)) \/ (\E S \in SUBSET Slots : SomeOff(S))

LEMMA StoppedOff ==
  ASSUME NEW st \in SlotState, NEW d, d = Stopped(st)
  PROVE  TurnedOff(d)
<1>1. PICK e : e = [st EXCEPT !.stopped = TRUE, !.rebindAttempt = 0, !.queued = FALSE]
  OBVIOUS
<1>2. e.stopped /\ e.rebindAttempt = 0
  BY <1>1 DEF SlotState
<1>3. d = [e EXCEPT !.binder = NoChannel, !.linked = FALSE, !.callbackInstalled = FALSE]
  BY <1>1 DEF Stopped, DropChannelLocked
<1> QED
  BY <1>1, <1>2, <1>3 DEF TurnedOff, SlotState

LEMMA InvalidateStep ==
  ASSUME NEW s \in Slots, NEW st, SlotOK(s, st), NEW c \in Channels,
         NEW d, d = Invalidate(st, c)
  PROVE  SlotStep(s, st, d)
<1>1. CASE st.binder # c
  BY <1>1 DEF Invalidate, SlotStep, Calm, Kept
<1>2. CASE st.binder = c
  <2>1. d = LoseChannelLocked(st) /\ st.created
    BY <1>2, ChannelAssumption DEF Invalidate, SlotOK, RecordOK
  <2> QED
    BY <2>1, LoseHeld DEF SlotStep, Linked
<1> QED
  BY <1>1, <1>2

(* A call of the client moves at most the slot it names. *)
LEMMA ClientMoves == IInv /\ Client => Moves
<1>1. ASSUME IInv, NEW s \in Slots, NEW o, Connected(s, o),
             NEW p, Linked(slots[s], p, o.slot), p \in {slots[s].stopped, FALSE}
      PROVE  Moves
  <2>1. slots'[s] = o.slot /\ \A x \in Slots : x # s => slots'[x] = slots[x]
    BY <1>1 DEF Connected, IInv, TypeOK
  <2> QED
    BY <1>1, <2>1 DEF Moves, OneSlot, SlotStep
<1>2. ASSUME IInv, NEW s \in Slots
      PROVE  /\ SlotLocked(s).stopped = slots[s].stopped
             /\ SlotLocked(s).binder = slots[s].binder
             /\ \A o, d : Linked(SlotLocked(s), o, d) <=> Linked(slots[s], o, d)
             /\ [SlotLocked(s) EXCEPT !.stopped = FALSE].stopped = FALSE
             /\ [SlotLocked(s) EXCEPT !.stopped = FALSE].binder = slots[s].binder
             /\ \A o, d : Linked([SlotLocked(s) EXCEPT !.stopped = FALSE], o, d)
                            <=> Linked(slots[s], o, d)
  <2>1. PICK st \in SlotState : st = slots[s]
    BY <1>2 DEF IInv, TypeOK
  <2>2. PICK e : e = [st EXCEPT !.created = TRUE]
    OBVIOUS
  <2>3. PICK f : f = [e EXCEPT !.stopped = FALSE]
    OBVIOUS
  <2>4. /\ e \in SlotState /\ e.stopped = st.stopped /\ e.binder = st.binder
        /\ e.callbackInstalled = st.callbackInstalled
        /\ e.rebindAttempt = st.rebindAttempt /\ e.queued = st.queued
    BY <2>2 DEF SlotState
  <2>5. /\ f.stopped = FALSE /\ f.binder = e.binder
        /\ f.callbackInstalled = e.callbackInstalled
        /\ f.rebindAttempt = e.rebindAttempt /\ f.queued = e.queued
    BY <2>3, <2>4 DEF SlotState
  <2>6. SlotLocked(s) = e
    BY <2>1, <2>2 DEF SlotLocked
  <2>7. ASSUME NEW o, NEW d
        PROVE  /\ Linked(e, o, d) <=> Linked(st, o, d)
               /\ Linked(f, o, d) <=> Linked(st, o, d)
    BY <2>4, <2>5 DEF Linked, Held, Came, Same, Kept, Lost, Begun
  <2> QED
    BY <2>1, <2>3, <2>4, <2>5, <2>6, <2>7
<1>3. ASSUME IInv, NEW s \in Slots, Start(s) PROVE Moves
  <2>1. PICK o \in ConnectLocked(s, [SlotLocked(s) EXCEPT !.stopped = FALSE]) :
             Connected(s, o)
    BY <1>3 DEF Start
  <2>2. Linked(slots[s], FALSE, o.slot)
    BY <1>2, <1>3, <2>1, SlotLockedOK, ConnectHeld, ZenonT(40) DEF IInv
  <2> QED
    BY <1>1, <1>3, <2>1, <2>2
<1>4. ASSUME IInv, NEW s \in Slots, Stop(s) PROVE Moves
  <2>1. slots[s] \in SlotState /\ slots'[s] = Stopped(slots[s])
        /\ \A x \in Slots : x # s => slots'[x] = slots[x]
    BY <1>4 DEF Stop, IInv, TypeOK
  <2> QED
    BY <2>1, StoppedOff DEF Moves, OneSlot, SlotStep
<1>5. ASSUME IInv, NEW t \in Threads, NEW s \in Slots, BeginSend(t, s) PROVE Moves
  <2>1. PICK o \in ConnectLocked(s, SlotLocked(s)) : Connected(s, o)
    BY <1>5 DEF BeginSend
  <2>2. Linked(slots[s], slots[s].stopped, o.slot)
    BY <1>2, <1>5, <2>1, SlotLockedOK, ConnectHeld DEF IInv
  <2> QED
    BY <1>1, <1>5, <2>1, <2>2
<1>6. ASSUME IInv, NEW t \in Threads, SendReturns(t) PROVE Moves
  <2>1. SomeOff({})
    BY <1>6 DEF SendReturns, SomeOff, Calm, Kept
  <2> QED
    BY <2>1 DEF Moves
<1>7. ASSUME IInv, NEW t \in Threads, SendFails(t) PROVE Moves
  <2>1. PICK s, c : s = sending[t].slot /\ c = sending[t].binder
    OBVIOUS
  <2>2. s \in Slots /\ c \in Channels
    BY <1>7, <2>1 DEF SendFails, IInv, TypeOK
  <2>3. slots'[s] = Invalidate(slots[s], c)
        /\ \A x \in Slots : x # s => slots'[x] = slots[x]
    BY <1>7, <2>1, <2>2 DEF SendFails, IInv, TypeOK
  <2> QED
    BY <1>7, <2>2, <2>3, InvalidateStep DEF Moves, OneSlot, IInv
<1> QED
  BY <1>3, <1>4, <1>5, <1>6, <1>7 DEF Client

LEMMA DeathsMove == IInv /\ Deaths => Moves
<1>1. ASSUME IInv, NEW s \in Slots, Obituary(s) PROVE Moves
  <2>1. SomeOff({})
    <3> SUFFICES ASSUME NEW x \in Slots PROVE Calm(slots[x], slots'[x])
      BY DEF SomeOff
    <3>1. PICK st \in SlotState : st = slots[x]
      BY <1>1 DEF IInv, TypeOK
    <3>2. slots'[x] = IF x = s THEN [st EXCEPT !.linked = FALSE] ELSE st
      BY <1>1, <3>1 DEF Obituary, IInv, TypeOK
    <3> QED
      BY <3>1, <3>2 DEF Calm, Kept, SlotState
  <2> QED
    BY <2>1 DEF Moves
<1>2. ASSUME IInv, NEW s \in Slots, NEW c \in Channels, BinderDied(s, c) PROVE Moves
  <2>1. slots'[s] = Invalidate(slots[s], c)
        /\ \A x \in Slots : x # s => slots'[x] = slots[x]
    BY <1>2 DEF BinderDied, IInv, TypeOK
  <2> QED
    BY <1>2, <2>1, InvalidateStep DEF Moves, OneSlot, IInv
<1> QED
  BY <1>1, <1>2 DEF Deaths, IInv, TypeOK

(* The looper: a re-bind either links the slot or counts its attempt.      *)
LEMMA LooperMoves == IInv /\ Looper => Moves
<1>1. ASSUME IInv, NEW s \in Slots, DequeueRebind(s) PROVE Moves
  <2>1. SomeOff({})
    <3> SUFFICES ASSUME NEW x \in Slots PROVE Calm(slots[x], slots'[x])
      BY DEF SomeOff
    <3>1. PICK st \in SlotState : st = slots[x]
      BY <1>1 DEF IInv, TypeOK
    <3>2. slots'[x] = IF x = s THEN [st EXCEPT !.queued = FALSE] ELSE st
      BY <1>1, <3>1 DEF DequeueRebind, IInv, TypeOK
    <3> QED
      BY <3>1, <3>2 DEF Calm, Kept, SlotState
  <2> QED
    BY <2>1 DEF Moves
<1>2. ASSUME IInv, NEW s \in Slots, Rebind(s) PROVE Moves
  <2> DEFINE st == slots[s]
  <2>1. st \in SlotState /\ SlotOK(s, st) /\ dequeued = s
    BY <1>2 DEF Rebind, IInv, TypeOK
  <2>2. CASE UNCHANGED slots
    <3>1. SomeOff({})
      BY <2>2 DEF SomeOff, Calm, Kept
    <3> QED
      BY <3>1 DEF Moves
  <2>3. CASE /\ RebindApplies(st)
             /\ \E o \in ConnectLocked(s, st) :
                  Connected(s, [slot |-> RescheduleIfMissing(o.slot), took |-> o.took])
    <3>1. PICK o \in ConnectLocked(s, st) :
               Connected(s, [slot |-> RescheduleIfMissing(o.slot), took |-> o.took])
      BY <2>3
    <3>2. st.created /\ ~st.stopped /\ st.rebindAttempt # 0 /\ ~st.callbackInstalled
      BY <2>1, <2>3 DEF RebindApplies, SlotOK, RecordOK
    <3>3. PICK e : e = o.slot
      OBVIOUS
    <3>4. /\ RecordOK(s, e) /\ e.stopped = st.stopped
          /\ ~e.callbackInstalled => e.rebindAttempt = st.rebindAttempt
      BY <1>2, <2>1, <3>1, <3>2, <3>3, ConnectOK, ZenonT(40) DEF IInv, OutcomeOK
    <3>5. PICK d : d = RescheduleIfMissing(e)
      OBVIOUS
    <3>6. slots'[s] = d /\ \A x \in Slots : x # s => slots'[x] = slots[x]
      BY <1>2, <3>1, <3>3, <3>5 DEF Connected, IInv, TypeOK
    <3>7. SlotStep(s, st, d)
      <4>1. CASE e.callbackInstalled
        BY <3>4, <3>5, <4>1
        DEF RescheduleIfMissing, RecordOK, SlotStep, Linked, Came
      <4>2. CASE ~e.callbackInstalled /\ e.rebindAttempt < MaxAttempts
        <5>1. d = ScheduleRebindLocked(e) /\ e \in SlotState
          BY <3>4, <3>5, <4>2 DEF RescheduleIfMissing, RecordOK
        <5>2. /\ d.rebindAttempt = e.rebindAttempt + 1
              /\ d.callbackInstalled = e.callbackInstalled /\ d.stopped = e.stopped
          BY <4>2, <5>1, ScheduleNext
        <5>3. e.rebindAttempt \in 1 .. MaxAttempts - 1
          BY <3>2, <3>4, <4>2, <5>1, AttemptsAssumption DEF SlotState
        <5>4. Tried(s, st, d)
          BY <2>1, <3>2, <3>4, <4>2, <5>2, <5>3 DEF Tried
        <5> QED
          BY <5>4 DEF SlotStep
      <4>3. CASE ~e.callbackInstalled /\ ~(e.rebindAttempt < MaxAttempts)
        <5>1. e \in SlotState /\ e.rebindAttempt = MaxAttempts
          BY <3>4, <4>3, AttemptsAssumption DEF RecordOK, SlotState
        <5>2. d = [e EXCEPT !.rebindAttempt = 0]
          BY <3>5, <4>3, <5>1, AttemptsAssumption
          DEF RescheduleIfMissing, ScheduleRebindLocked
        <5>3. /\ d.rebindAttempt = 0
              /\ d.callbackInstalled = e.callbackInstalled /\ d.stopped = e.stopped
          BY <5>1, <5>2 DEF SlotState
        <5>4. Tried(s, st, d)
          BY <2>1, <3>2, <3>4, <4>3, <5>1, <5>3 DEF Tried
        <5> QED
          BY <5>4 DEF SlotStep
      <4> QED
        BY <4>1, <4>2, <4>3
    <3> QED
      BY <3>6, <3>7 DEF Moves, OneSlot
  <2> QED
    BY <1>2, <2>2, <2>3 DEF Rebind
<1> QED
  BY <1>1, <1>2 DEF Looper

LEMMA ShutdownMoves == IInv /\ Shutdown => Moves
<1>1. ASSUME IInv, ShutdownDropsChannels PROVE Moves
  <2> DEFINE S == {x \in Slots : slots[x].created}
  <2>1. SomeOff(S)
    <3> SUFFICES ASSUME NEW x \in Slots
                 PROVE  IF x \in S THEN TurnedOff(slots'[x])
                                   ELSE Calm(slots[x], slots'[x])
      BY DEF SomeOff
    <3>1. PICK st \in SlotState : st = slots[x]
      BY <1>1 DEF IInv, TypeOK
    <3>2. CASE x \in S
      BY <1>1, <3>1, <3>2, StoppedOff DEF ShutdownDropsChannels
    <3>3. CASE x \notin S
      <4>1. slots'[x] = [st EXCEPT !.queued = FALSE]
        BY <1>1, <3>1, <3>3 DEF ShutdownDropsChannels
      <4> QED
        BY <3>1, <3>3, <4>1 DEF Calm, Kept, SlotState
    <3> QED
      BY <3>2, <3>3
  <2> QED
    BY <2>1 DEF Moves
<1>2. ASSUME IInv, ShutdownQuits PROVE Moves
  <2>1. PICK due \in SUBSET Slots :
             slots' = [s \in Slots |-> [slots[s] EXCEPT !.queued = @ /\ s \in due]]
    BY <1>2 DEF ShutdownQuits
  <2>2. SomeOff({})
    <3> SUFFICES ASSUME NEW x \in Slots PROVE Calm(slots[x], slots'[x])
      BY DEF SomeOff
    <3>1. PICK st \in SlotState : st = slots[x]
      BY <1>2 DEF IInv, TypeOK
    <3>2. PICK q : q = (st.queued /\ x \in due)
      OBVIOUS
    <3>3. slots'[x] = [st EXCEPT !.queued = q]
      BY <2>1, <3>1, <3>2
    <3> QED
      BY <3>1, <3>3 DEF Calm, Kept, SlotState
  <2> QED
    BY <2>2 DEF Moves
<1> QED
  BY <1>1, <1>2 DEF Shutdown

(* Every step of the bridge is a move of the supervised links.             *)
LEMMA StepMoves == IInv /\ [Next]_vars => Moves
<1>1. ASSUME Environment \/ UNCHANGED vars PROVE Moves
  <2>1. UNCHANGED slots
    BY <1>1 DEF Environment, RildStarts, RildDies, RildAccepts, RildRefuses,
                Register, Unregister, bridge, vars
  <2>2. SomeOff({})
    BY <2>1 DEF SomeOff, Calm, Kept
  <2> QED
    BY <2>2 DEF Moves
<1> QED
  BY <1>1, ClientMoves, DeathsMove, LooperMoves, ShutdownMoves DEF Next

-----------------------------------------------------------------------------
(* A chain of re-binds ends with the callback installed, by stop() or      *)
(* shutdown(), or because the looper used the last attempt.                *)
THEOREM ChainEndsForAReasonHolds == Spec => ChainEndsForAReason
<1>1. IInv /\ [Next]_vars
        => [\A s \in Slots :
              Retrying(s) /\ ~Retrying(s)'
                => \/ Up(s)' \/ slots'[s].stopped
                   \/ slots[s].rebindAttempt = MaxAttempts /\ dequeued = s]_vars
  <2> SUFFICES ASSUME IInv, Moves, NEW s \in Slots, Retrying(s), ~Retrying(s)'
               PROVE  \/ Up(s)' \/ slots'[s].stopped
                      \/ slots[s].rebindAttempt = MaxAttempts /\ dequeued = s
    BY StepMoves
  <2>1. ~slots[s].callbackInstalled
    BY DEF IInv, SlotOK, RecordOK, Retrying
  <2>2. slots[s].rebindAttempt # 0 /\ slots'[s].rebindAttempt = 0
    BY DEF Retrying
  <2>3. TurnedOff(slots'[s]) \/ Calm(slots[s], slots'[s])
        \/ SlotStep(s, slots[s], slots'[s])
    BY DEF Moves, OneSlot, SomeOff, Calm, Kept
  <2>4. CASE Tried(s, slots[s], slots'[s])
    <3>1. slots[s].rebindAttempt \in 1 .. MaxAttempts - 1
            => slots[s].rebindAttempt + 1 # 0
      BY AttemptsAssumption
    <3> QED
      BY <2>2, <2>4, <3>1 DEF Tried
  <2>5. CASE \E o \in {slots[s].stopped, FALSE} : Linked(slots[s], o, slots'[s])
    BY <2>1, <2>2, <2>5 DEF Linked, Held, Same, Kept, Lost, Begun, Came, Up
  <2> QED
    BY <2>2, <2>3, <2>4, <2>5 DEF SlotStep, TurnedOff, Calm, Kept
<1> QED
  BY <1>1, Inductive, PTL DEF Spec, ChainEndsForAReason

(* A slot that is not stopped and loses its callback has a re-bind posted; *)
(* one that loses its channel, with or without a callback on it, has its   *)
(* callback on another, or a chain, or has just used up its attempts.      *)
THEOREM LossStartsRebindHolds == Spec => LossStartsRebind /\ ChannelLossStartsRebind
<1>1. IInv /\ [Next]_vars
        => [\A s \in Slots :
              Up(s) /\ ~Up(s)' /\ ~slots'[s].stopped
                => slots'[s].rebindAttempt = 1
                   /\ (looper # "quit" => slots'[s].queued)]_vars
  <2> SUFFICES ASSUME IInv, Moves, NEW s \in Slots, Up(s), ~Up(s)',
                      ~slots'[s].stopped
               PROVE  slots'[s].rebindAttempt = 1
                      /\ (looper # "quit" => slots'[s].queued)
    BY StepMoves
  <2>1. TurnedOff(slots'[s]) \/ Calm(slots[s], slots'[s])
        \/ SlotStep(s, slots[s], slots'[s])
    BY DEF Moves, OneSlot, SomeOff, Calm, Kept
  <2> QED
    BY <2>1
    DEF SlotStep, Linked, Held, Same, Lost, Begun, Came, TurnedOff, Tried, Calm, Kept, Up
<1>2. IInv /\ [Next]_vars
        => [\A s \in Slots :
              slots[s].binder \notin {NoChannel, slots'[s].binder} /\ ~slots'[s].stopped
                => \/ Up(s)' \/ Retrying(s)'
                   \/ slots[s].rebindAttempt = MaxAttempts /\ dequeued = s]_vars
  <2> SUFFICES ASSUME IInv, Moves, NEW s \in Slots, ~slots'[s].stopped,
                      slots[s].binder \notin {NoChannel, slots'[s].binder}
               PROVE  \/ Up(s)' \/ Retrying(s)'
                      \/ slots[s].rebindAttempt = MaxAttempts /\ dequeued = s
    BY StepMoves
  <2>1. TurnedOff(slots'[s]) \/ Calm(slots[s], slots'[s])
        \/ SlotStep(s, slots[s], slots'[s])
    BY DEF Moves, OneSlot, SomeOff, Calm, Kept
  <2>2. CASE Tried(s, slots[s], slots'[s])
    <3>1. slots[s].rebindAttempt \in 1 .. MaxAttempts - 1
            => slots[s].rebindAttempt + 1 # 0
      BY AttemptsAssumption
    <3> QED
      BY <2>2, <3>1 DEF Tried, Retrying
  <2>3. CASE \E o \in {slots[s].stopped, FALSE} : Linked(slots[s], o, slots'[s])
    BY <2>3 DEF Linked, Held, Kept, Lost, Begun, Came, Up, Retrying
  <2> QED
    BY <2>1, <2>2, <2>3 DEF SlotStep, TurnedOff, Calm, Kept, Retrying
<1> QED
  BY <1>1, <1>2, Inductive, PTL DEF Spec, LossStartsRebind, ChannelLossStartsRebind

-----------------------------------------------------------------------------
(* An obituary on its way is of a channel that was alive and is dead.      *)
NoticesDead == \A n \in notices : n[2] \in Started /\ n[2] \notin alive

LEMMA NoticesDeadInvariant == Spec => []NoticesDead
<1>1. Init => NoticesDead
  BY DEF Init, NoticesDead
<1>2. IInv /\ NoticesDead /\ [Next]_vars => NoticesDead'
  <2> SUFFICES ASSUME IInv, NoticesDead, [Next]_vars PROVE NoticesDead'
    OBVIOUS
  <2>1. ASSUME UNCHANGED rild, notices' \subseteq notices PROVE NoticesDead'
    BY <2>1 DEF NoticesDead, Started, rild
  <2>2. CASE Client \/ Looper \/ Shutdown \/ UNCHANGED vars
    BY <2>1, <2>2 DEF Client, Looper, Shutdown, Start, Stop, BeginSend, SendReturns,
      SendFails, DequeueRebind, Rebind, ShutdownDropsChannels, ShutdownQuits,
      vars, bridge, rild
  <2>3. ASSUME NEW s \in Slots, Obituary(s) PROVE NoticesDead'
    <3>1. /\ notices' = notices \cup {<<s, slots[s].binder>>}
          /\ slots[s].binder \notin alive /\ UNCHANGED rild
      BY <2>3 DEF Obituary
    <3>2. slots[s].binder \in Started
      BY <2>3 DEF Obituary, IInv, SlotOK, RecordOK, RildOK
    <3> QED
      BY <3>1, <3>2 DEF NoticesDead, Started, rild
  <2>4. ASSUME NEW n \in notices, BinderDied(n[1], n[2]) PROVE NoticesDead'
    BY <2>1, <2>4 DEF BinderDied
  <2>5. ASSUME Environment PROVE NoticesDead'
    <3>1. notices' = notices
      BY <2>5 DEF Environment, RildStarts, RildDies, RildAccepts, RildRefuses,
                  Register, Unregister, bridge
    <3>2. Started \subseteq Started' /\ \A c \in Started : c \in alive' => c \in alive
      BY <2>5, EnvironmentGrows
    <3> QED
      BY <3>1, <3>2 DEF NoticesDead
  <2> QED
    BY <2>2, <2>3, <2>4, <2>5 DEF Next, Deaths
<1> QED
  BY <1>1, <1>2, Inductive, PTL DEF Spec

(* A live channel is given up only by stop(), by shutdown() or by a failed *)
(* send on that channel.                                                   *)
LiveKept(s) ==
  slots[s].binder \in alive /\ slots'[s].binder # slots[s].binder
    => \/ slots'[s].stopped /\ UNCHANGED <<sending, notices>>
       \/ \E t \in Threads : /\ sending[t] = [slot |-> s, binder |-> slots[s].binder]
                             /\ sending'[t] = Idle

LEMMA LiveKeptStep ==
  ASSUME IInv, NoticesDead, [Next]_vars, NEW x \in Slots
  PROVE  LiveKept(x)
<1>1. CASE Environment \/ UNCHANGED vars
  BY <1>1 DEF Environment, RildStarts, RildDies, RildAccepts, RildRefuses,
              Register, Unregister, bridge, vars, LiveKept
<1>2. ASSUME NEW s \in Slots, NEW st, SlotOK(s, st), st.created,
             st.binder = slots[s].binder,
             NEW o \in ConnectLocked(s, st), NEW p, Connected(s, p),
             p.slot.binder = o.slot.binder
      PROVE  LiveKept(x)
  <2>1. st.binder \in alive => o.slot.binder = st.binder
    BY <1>2, ConnectHeld DEF IInv
  <2>2. slots'[s] = p.slot /\ (x # s => slots'[x] = slots[x])
    BY <1>2 DEF Connected, IInv, TypeOK
  <2> QED
    BY <1>2, <2>1, <2>2 DEF LiveKept
<1>3. ASSUME NEW s \in Slots, Start(s) PROVE LiveKept(x)
  <2>1. PICK o \in ConnectLocked(s, [SlotLocked(s) EXCEPT !.stopped = FALSE]) :
             Connected(s, o)
    BY <1>3 DEF Start
  <2>2. [SlotLocked(s) EXCEPT !.stopped = FALSE].binder = slots[s].binder
    BY DEF SlotLocked, IInv, TypeOK, SlotState
  <2> QED
    BY <1>2, <2>1, <2>2, SlotLockedOK
<1>4. ASSUME NEW s \in Slots, Stop(s) PROVE LiveKept(x)
  <2>1. slots[s] \in SlotState /\ slots'[s] = Stopped(slots[s])
        /\ (x # s => slots'[x] = slots[x]) /\ UNCHANGED <<sending, notices>>
    BY <1>4 DEF Stop, IInv, TypeOK
  <2> QED
    BY <2>1, StoppedOff DEF TurnedOff, LiveKept
<1>5. ASSUME NEW t \in Threads, NEW s \in Slots, BeginSend(t, s) PROVE LiveKept(x)
  <2>1. PICK o \in ConnectLocked(s, SlotLocked(s)) : Connected(s, o)
    BY <1>5 DEF BeginSend
  <2>2. SlotLocked(s).binder = slots[s].binder
    BY DEF SlotLocked, IInv, TypeOK, SlotState
  <2> QED
    BY <1>2, <2>1, <2>2, SlotLockedOK
<1>6. ASSUME NEW t \in Threads, SendReturns(t) PROVE LiveKept(x)
  BY <1>6 DEF SendReturns, LiveKept
<1>7. ASSUME NEW t \in Threads, SendFails(t) PROVE LiveKept(x)
  <2>1. PICK s, c : s = sending[t].slot /\ c = sending[t].binder
    OBVIOUS
  <2>2. sending[t] = [slot |-> s, binder |-> c] /\ sending'[t] = Idle
        /\ s \in Slots /\ c \in Channels
    BY <1>7, <2>1 DEF SendFails, IInv, TypeOK
  <2>3. slots'[s] = Invalidate(slots[s], c) /\ (x # s => slots'[x] = slots[x])
    BY <1>7, <2>1, <2>2 DEF SendFails, IInv, TypeOK
  <2>4. slots[s].binder # c => slots'[s] = slots[s]
    BY <2>3 DEF Invalidate
  <2> QED
    BY <2>2, <2>3, <2>4 DEF LiveKept
<1>8. ASSUME NEW s \in Slots, Obituary(s) PROVE LiveKept(x)
  <2>1. slots'[x].binder = slots[x].binder
    BY <1>8 DEF Obituary, IInv, TypeOK, SlotState
  <2> QED
    BY <2>1 DEF LiveKept
<1>9. ASSUME NEW n \in notices, BinderDied(n[1], n[2]) PROVE LiveKept(x)
  <2>1. n[1] \in Slots /\ n[2] \notin alive
    BY <1>9 DEF IInv, TypeOK, NoticesDead
  <2>2. slots'[n[1]] = Invalidate(slots[n[1]], n[2])
        /\ (x # n[1] => slots'[x] = slots[x])
    BY <1>9, <2>1 DEF BinderDied, IInv, TypeOK
  <2>3. slots[n[1]].binder # n[2] => slots'[n[1]] = slots[n[1]]
    BY <2>2 DEF Invalidate
  <2> QED
    BY <2>1, <2>2, <2>3 DEF LiveKept
<1>10. ASSUME NEW s \in Slots, DequeueRebind(s) PROVE LiveKept(x)
  <2>1. slots'[x].binder = slots[x].binder
    BY <1>10 DEF DequeueRebind, IInv, TypeOK, SlotState
  <2> QED
    BY <2>1 DEF LiveKept
<1>11. ASSUME NEW s \in Slots, Rebind(s) PROVE LiveKept(x)
  <2>1. CASE UNCHANGED slots
    BY <2>1 DEF LiveKept
  <2>2. CASE /\ RebindApplies(slots[s])
             /\ \E o \in ConnectLocked(s, slots[s]) :
                  Connected(s, [slot |-> RescheduleIfMissing(o.slot), took |-> o.took])
    <3>1. PICK o \in ConnectLocked(s, slots[s]) :
               Connected(s, [slot |-> RescheduleIfMissing(o.slot), took |-> o.took])
      BY <2>2
    <3>2. PICK e, d : e = o.slot /\ d = RescheduleIfMissing(e)
      OBVIOUS
    <3>3. PICK p : p = [slot |-> d, took |-> o.took]
      OBVIOUS
    <3>4. p.slot = d /\ Connected(s, p)
      BY <3>1, <3>2, <3>3
    <3>5. slots[s].created /\ SlotOK(s, slots[s])
      BY <2>2 DEF RebindApplies, IInv, SlotOK, RecordOK
    <3>6. e \in SlotState
      BY <3>1, <3>2, <3>5, ConnectOK DEF IInv, OutcomeOK, RecordOK
    <3>7. d.binder = e.binder
      <4>1. CASE e.rebindAttempt < MaxAttempts
        BY <3>2, <3>6, <4>1, ScheduleNext DEF RescheduleIfMissing
      <4>2. CASE ~(e.rebindAttempt < MaxAttempts)
        <5>1. e.rebindAttempt >= MaxAttempts
          BY <3>6, <4>2, AttemptsAssumption DEF SlotState
        <5>2. d = e \/ d = [e EXCEPT !.rebindAttempt = 0]
          BY <3>2, <5>1 DEF RescheduleIfMissing, ScheduleRebindLocked
        <5> QED
          BY <3>6, <5>2 DEF SlotState
      <4> QED
        BY <4>1, <4>2
    <3> QED
      BY <1>2, <3>1, <3>2, <3>4, <3>5, <3>7
  <2> QED
    BY <1>11, <2>1, <2>2 DEF Rebind
<1>12. CASE ShutdownDropsChannels
  <2>1. PICK st \in SlotState : st = slots[x]
    BY DEF IInv, TypeOK
  <2>2. CASE st.created
    BY <1>12, <2>1, <2>2, StoppedOff DEF ShutdownDropsChannels, TurnedOff, LiveKept
  <2>3. CASE ~st.created
    <3>1. slots'[x] = [st EXCEPT !.queued = FALSE]
      BY <1>12, <2>1, <2>3 DEF ShutdownDropsChannels
    <3> QED
      BY <2>1, <3>1 DEF SlotState, LiveKept
  <2> QED
    BY <2>2, <2>3
<1>13. CASE ShutdownQuits
  <2>1. PICK st \in SlotState : st = slots[x]
    BY DEF IInv, TypeOK
  <2>2. \E q : slots'[x] = [st EXCEPT !.queued = q]
    BY <1>13, <2>1 DEF ShutdownQuits
  <2> QED
    BY <2>1, <2>2 DEF SlotState, LiveKept
<1> QED
  BY <1>1, <1>3, <1>4, <1>5, <1>6, <1>7, <1>8, <1>9, <1>10, <1>11, <1>12, <1>13
  DEF Next, Client, Deaths, Looper, Shutdown

(* Neither a late obituary nor a failed send of an older channel costs a   *)
(* slot a live one.                                                        *)
THEOREM LiveChannelKeptHolds == Spec => LiveChannelKept
<1>1. IInv /\ NoticesDead /\ [Next]_vars
        => [\A s \in Slots :
              LET c == slots[s].binder
              IN  c \in alive /\ slots'[s].binder # c
                    => \/ slots'[s].stopped /\ UNCHANGED <<sending, notices>>
                       \/ \E t \in Threads : sending[t] = [slot |-> s, binder |-> c]
                                             /\ sending'[t] = Idle]_vars
  BY LiveKeptStep DEF LiveKept
<1> QED
  BY <1>1, Inductive, NoticesDeadInvariant, PTL DEF Spec, LiveChannelKept

-----------------------------------------------------------------------------
(* A move of one slot is a Become of the supervisor.                       *)
LEMMA OneSlotBecomes ==
  ASSUME NEW s \in Slots, OneSlot(s),
         NEW u, u = slots'[s].callbackInstalled,
         NEW o, o = slots'[s].stopped,
         NEW n, n = slots'[s].rebindAttempt
  PROVE  Supervisor!Become(s, u, o, n)
<1>1. [x \in Slots |-> slots'[x].callbackInstalled]
        = [[x \in Slots |-> slots[x].callbackInstalled] EXCEPT ![s] = u]
  BY DEF OneSlot
<1>2. [x \in Slots |-> slots'[x].stopped]
        = [[x \in Slots |-> slots[x].stopped] EXCEPT ![s] = o]
  BY DEF OneSlot
<1>3. [x \in Slots |-> slots'[x].rebindAttempt]
        = [[x \in Slots |-> slots[x].rebindAttempt] EXCEPT ![s] = n]
  BY DEF OneSlot
<1> QED
  BY <1>1, <1>2, <1>3 DEF Supervisor!Become

LEMMA SomeOffTurnsOff ==
  ASSUME TypeOK, TypeOK', NEW S \in SUBSET Slots, SomeOff(S)
  PROVE  Supervisor!TurnOff(S)
<1>1. ASSUME NEW x \in Slots
      PROVE  /\ slots'[x].callbackInstalled
                  = (slots[x].callbackInstalled /\ x \notin S)
             /\ slots'[x].stopped = (slots[x].stopped \/ x \in S)
             /\ slots'[x].rebindAttempt
                  = IF x \in S THEN 0 ELSE slots[x].rebindAttempt
  <2>1. /\ slots[x].callbackInstalled \in BOOLEAN /\ slots[x].stopped \in BOOLEAN
        /\ slots'[x].callbackInstalled \in BOOLEAN /\ slots'[x].stopped \in BOOLEAN
    BY DEF TypeOK, SlotState
  <2> QED
    BY <2>1 DEF SomeOff, TurnedOff, Calm, Kept
<1>2. [x \in Slots |-> slots'[x].callbackInstalled]
        = [x \in Slots |-> slots[x].callbackInstalled /\ x \notin S]
  BY <1>1
<1>3. [x \in Slots |-> slots'[x].stopped]
        = [x \in Slots |-> slots[x].stopped \/ x \in S]
  BY <1>1
<1>4. [x \in Slots |-> slots'[x].rebindAttempt]
        = [x \in Slots |-> IF x \in S THEN 0 ELSE slots[x].rebindAttempt]
  BY <1>1
<1> QED
  BY <1>2, <1>3, <1>4 DEF Supervisor!TurnOff

LEMMA MoveIsSupervised ==
  ASSUME IInv, TypeOK', Moves
  PROVE  Supervisor!Next \/ UNCHANGED Supervisor!vars
<1>1. CASE \E S \in SUBSET Slots : SomeOff(S)
  BY <1>1, SomeOffTurnsOff DEF Supervisor!Next, IInv
<1>2. ASSUME NEW s \in Slots, OneSlot(s)
      PROVE  Supervisor!Next \/ UNCHANGED Supervisor!vars
  <2>1. PICK st, d : st = slots[s] /\ d = slots'[s]
    OBVIOUS
  <2>2. st \in SlotState /\ RecordOK(s, st) /\ d \in SlotState
    BY <2>1 DEF IInv, TypeOK, SlotOK
  <2>3. Supervisor!Become(s, d.callbackInstalled, d.stopped, d.rebindAttempt)
    BY <1>2, <2>1, OneSlotBecomes
  <2>4. /\ [x \in Slots |-> slots[x].callbackInstalled][s] = st.callbackInstalled
        /\ [x \in Slots |-> slots[x].stopped][s] = st.stopped
        /\ [x \in Slots |-> slots[x].rebindAttempt][s] = st.rebindAttempt
    BY <2>1
  <2>5. CASE Calm(st, d)
    <3>1. SomeOff({})
      BY <1>2, <2>1, <2>5 DEF OneSlot, SomeOff, Calm, Kept
    <3> QED
      BY <3>1, SomeOffTurnsOff DEF Supervisor!Next, IInv
  <2>6. CASE TurnedOff(d)
    <3>1. SomeOff({s})
      BY <1>2, <2>1, <2>6 DEF OneSlot, SomeOff, Calm, Kept
    <3> QED
      BY <3>1, SomeOffTurnsOff DEF Supervisor!Next, IInv
  <2>7. CASE Tried(s, st, d)
    <3>1. d.callbackInstalled = FALSE /\ d.stopped = FALSE
      BY <2>2, <2>7 DEF Tried, SlotState
    <3>2. Supervisor!NextTry(s) \/ Supervisor!GiveUp(s)
      <4>1. PICK n : n = d.rebindAttempt
        OBVIOUS
      <4>2. Supervisor!Become(s, FALSE, FALSE, n)
        BY <2>3, <3>1, <4>1
      <4>3. CASE st.rebindAttempt \in 1 .. MaxAttempts - 1 /\ n = st.rebindAttempt + 1
        BY <2>4, <2>7, <4>2, <4>3 DEF Tried, Supervisor!NextTry, Supervisor!Become
      <4>4. CASE st.rebindAttempt = MaxAttempts /\ n = 0
        BY <2>4, <2>7, <4>2, <4>4 DEF Tried, Supervisor!GiveUp
      <4> QED
        BY <2>7, <4>1, <4>3, <4>4 DEF Tried
    <3> QED
      BY <3>2 DEF Supervisor!Next
  <2>8. ASSUME NEW o \in {st.stopped, FALSE}, Linked(st, o, d)
        PROVE  Supervisor!Next
    <3>1. d.stopped = o
      BY <2>8 DEF Linked, Held, Came
    <3>2. CASE Same(st, d) /\ Kept(st, o, d)
      <4>1. CASE o = st.stopped
        <5>1. SomeOff({})
          BY <1>2, <2>1, <3>1, <3>2, <4>1 DEF OneSlot, SomeOff, Calm, Same, Kept
        <5> QED
          BY <5>1, SomeOffTurnsOff DEF Supervisor!Next, IInv
      <4>2. CASE o = FALSE
        <5>1. PICK u, n : u = d.callbackInstalled /\ n = d.rebindAttempt
          OBVIOUS
        <5>2. Supervisor!Become(s, u, FALSE, n)
          BY <2>3, <3>1, <4>2, <5>1
        <5>3. /\ [x \in Slots |-> slots[x].callbackInstalled][s] = u
              /\ [x \in Slots |-> slots[x].rebindAttempt][s] = n
          BY <2>4, <3>2, <5>1 DEF Same
        <5>4. Supervisor!TurnOn(s)
          BY <5>2, <5>3 DEF Supervisor!TurnOn, Supervisor!Become
        <5> QED
          BY <5>4 DEF Supervisor!Next
      <4> QED
        BY <4>1, <4>2
    <3>3. CASE Lost(st, o, d)
      <4>1. d.callbackInstalled = FALSE
        BY <2>2, <3>3 DEF Lost, SlotState
      <4>2. Supervisor!GoesDown(s)
        BY <2>3, <2>4, <2>8, <3>1, <3>3, <4>1 DEF Supervisor!GoesDown, Lost
      <4> QED
        BY <4>2 DEF Supervisor!Next
    <3>4. CASE Begun(st, o, d)
      <4>1. d.callbackInstalled = FALSE /\ d.stopped = FALSE /\ o = FALSE
        BY <2>2, <3>1, <3>4 DEF Begun, SlotState
      <4>2. CASE st.callbackInstalled
        <5>1. Supervisor!GoesDown(s)
          BY <2>3, <2>4, <3>4, <4>1, <4>2 DEF Supervisor!GoesDown, Begun
        <5> QED
          BY <5>1 DEF Supervisor!Next
      <4>3. CASE ~st.callbackInstalled
        <5>1. Supervisor!FirstTry(s)
          BY <2>3, <2>4, <3>4, <4>1, <4>3 DEF Supervisor!FirstTry, Begun
        <5> QED
          BY <5>1 DEF Supervisor!Next
      <4> QED
        BY <4>2, <4>3
    <3>5. CASE Came(o, d)
      <4>1. d.callbackInstalled = TRUE
        BY <2>2, <3>5 DEF Came, SlotState
      <4>2. Supervisor!GoesUp(s)
        BY <2>3, <2>4, <2>8, <3>1, <3>5, <4>1 DEF Supervisor!GoesUp, Came
      <4> QED
        BY <4>2 DEF Supervisor!Next
    <3> QED
      BY <2>8, <3>2, <3>3, <3>4, <3>5 DEF Linked, Held
  <2> QED
    BY <1>2, <2>1, <2>5, <2>6, <2>7, <2>8 DEF OneSlot, SlotStep
<1> QED
  BY <1>1, <1>2 DEF Moves

(* The bridge implements ChannelSupervisor: whatever the client, rild, the *)
(* death notices and the looper do, each slot is a supervised link.        *)
THEOREM BridgeImplementsSupervisor == Spec => SupervisorSpec
<1>1. Init => Supervisor!Init
  BY DEF Init, NewSlot, Supervisor!Init
<1>2. IInv /\ IInv' /\ [Next]_vars => [Supervisor!Next]_(Supervisor!vars)
  BY StepMoves, MoveIsSupervised DEF IInv
<1> QED
  BY <1>1, <1>2, Inductive, PTL DEF Spec, SupervisorSpec, Supervisor!Spec
=============================================================================
