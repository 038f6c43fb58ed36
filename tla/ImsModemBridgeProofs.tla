------------------------ MODULE ImsModemBridgeProofs ------------------------
(***************************************************************************)
(* Theorems about ImsModemBridge for every number of attempts, threads and *)
(* rild instances.  The safety invariants are not inductive as they stand; *)
(* IInv adds what ties a slot's record to the looper, to the notices and   *)
(* to rild.                                                                *)
(***************************************************************************)
EXTENDS ImsModemBridge, TLAPS

(* The channels of the rild instances started so far. *)
Started == {c \in Channels : c[2] <= generation[c[1]]}

(* servicemanager answers a service's name with a channel of that service. *)
RegisteredOK ==
  \A n \in Services :
    registered[n] # NoChannel => registered[n][1] = n /\ registered[n] \in Started

(* What one slot's record satisfies by itself. *)
RecordOK(s, st) ==
  /\ st \in SlotState
  /\ st.binder # NoChannel => st.binder[1] = ServiceName(s)
  /\ st.linked => st.binder # NoChannel
  /\ st.callbackInstalled => st.binder # NoChannel /\ st.rebindAttempt = 0
  /\ st.stopped => st.rebindAttempt = 0
  /\ st.queued => st.rebindAttempt # 0
  /\ ~st.created => st.binder = NoChannel /\ st.rebindAttempt = 0

(* The record and the looper: an attempt has its message, and a message    *)
(* queued behind one already taken belongs to a chain's first attempt.     *)
LooperOK(s, st) ==
  /\ st.rebindAttempt # 0 /\ looper # "quit" => st.queued \/ dequeued = s
  /\ st.queued /\ dequeued = s => st.rebindAttempt = 1

(* The record and rild: the channel's death, past or to come, is reported; *)
(* rild holds the callback; the channel is not of an instance to come.     *)
RildOK(s, st) ==
  /\ st.binder # NoChannel => st.linked \/ <<s, st.binder>> \in notices
  /\ st.binder # NoChannel => st.binder \in Started
  /\ st.callbackInstalled /\ st.binder \in alive => callbackAt[st.binder] = s

SlotOK(s, st) == RecordOK(s, st) /\ LooperOK(s, st) /\ RildOK(s, st)

IInv == TypeOK /\ RegisteredOK /\ \A s \in Slots : SlotOK(s, slots[s])

-----------------------------------------------------------------------------
(* The two slots use different services. *)
LEMMA ServiceNameInjective ==
  ASSUME NEW s \in Slots, NEW x \in Slots, ServiceName(s) = ServiceName(x)
  PROVE  s = x
  BY SlotsAssumption, SMT DEF ServiceName

(* Dropping a channel keeps a slot's record sound. *)
LEMMA DropOK ==
  ASSUME NEW s \in Slots, NEW st, SlotOK(s, st),
         NEW d, d = DropChannelLocked(st)
  PROVE  /\ SlotOK(s, d)
         /\ d.binder = NoChannel /\ ~d.callbackInstalled
         /\ d.stopped = st.stopped /\ d.created = st.created
         /\ d.rebindAttempt = st.rebindAttempt
  BY DEF DropChannelLocked, SlotOK, RecordOK, LooperOK, RildOK, SlotState

(* A further attempt: the counter moves and the message is posted. *)
LEMMA ScheduleNext ==
  ASSUME NEW st \in SlotState, st.rebindAttempt < MaxAttempts,
         NEW d, d = ScheduleRebindLocked(st)
  PROVE  /\ d \in SlotState
         /\ d.rebindAttempt = st.rebindAttempt + 1
         /\ d.queued <=> looper # "quit"
         /\ d.binder = st.binder /\ d.linked = st.linked /\ d.created = st.created
         /\ d.callbackInstalled = st.callbackInstalled /\ d.stopped = st.stopped
<1>1. MaxAttempts \in Nat /\ st.rebindAttempt \in Nat
  BY AttemptsAssumption DEF SlotState
<1>2. PICK p \in BOOLEAN : p = PostAccepted /\ (p <=> looper # "quit")
  BY DEF PostAccepted
<1>3. PICK k \in 0 .. MaxAttempts : k = st.rebindAttempt + 1
  BY <1>1
<1>4. d = [st EXCEPT !.rebindAttempt = k, !.queued = p]
  BY <1>1, <1>2, <1>3 DEF ScheduleRebindLocked
<1> QED
  BY <1>2, <1>3, <1>4 DEF SlotState

(* The first attempt of a chain keeps a slot's record sound. *)
LEMMA ScheduleFirstOK ==
  ASSUME NEW s \in Slots, NEW st, SlotOK(s, st),
         ~st.callbackInstalled, ~st.stopped, st.created, st.rebindAttempt = 0,
         NEW d, d = ScheduleRebindLocked(st)
  PROVE  /\ SlotOK(s, d)
         /\ d.binder = st.binder /\ d.linked = st.linked /\ ~d.callbackInstalled
         /\ d.stopped = st.stopped /\ d.created = st.created
         /\ d.rebindAttempt = 1
<1>1. st \in SlotState /\ st.rebindAttempt < MaxAttempts
  BY AttemptsAssumption DEF SlotOK, RecordOK
<1>2. /\ d \in SlotState /\ d.rebindAttempt = st.rebindAttempt + 1
      /\ d.queued <=> looper # "quit"
      /\ d.binder = st.binder /\ d.linked = st.linked /\ d.created = st.created
      /\ d.callbackInstalled = st.callbackInstalled /\ d.stopped = st.stopped
  BY <1>1, ScheduleNext
<1>3. d.rebindAttempt = 1
  BY <1>2
<1> QED
  BY <1>2, <1>3 DEF SlotOK, RecordOK, LooperOK, RildOK

(* Losing a channel keeps a slot's record sound. *)
LEMMA LoseOK ==
  ASSUME NEW s \in Slots, NEW st, SlotOK(s, st), st.created,
         NEW d, d = LoseChannelLocked(st)
  PROVE  /\ SlotOK(s, d)
         /\ d.binder = NoChannel /\ ~d.callbackInstalled
         /\ d.stopped = st.stopped /\ d.created
         /\ st.rebindAttempt # 0 => d.rebindAttempt = st.rebindAttempt
<1>1. PICK e : e = DropChannelLocked(st)
  OBVIOUS
<1>2. /\ SlotOK(s, e)
      /\ e.binder = NoChannel /\ ~e.callbackInstalled
      /\ e.stopped = st.stopped /\ e.created = st.created
      /\ e.rebindAttempt = st.rebindAttempt
  BY <1>1, DropOK
<1>3. CASE st.stopped \/ st.rebindAttempt # 0
  BY <1>1, <1>2, <1>3 DEF LoseChannelLocked
<1>4. CASE ~st.stopped /\ st.rebindAttempt = 0
  <2>1. d = ScheduleRebindLocked(e)
    BY <1>1, <1>4 DEF LoseChannelLocked
  <2> QED
    BY <1>2, <1>4, <2>1, ScheduleFirstOK, ZenonT(40)
<1> QED
  BY <1>3, <1>4

LEMMA NoticeDeathOK ==
  ASSUME NEW s \in Slots, NEW st, SlotOK(s, st), st.created,
         NEW d \in NoticeDeath(st)
  PROVE  /\ SlotOK(s, d)
         /\ d.stopped = st.stopped /\ d.created
         /\ st.rebindAttempt # 0 => d.rebindAttempt = st.rebindAttempt
<1>1. d = st \/ d = LoseChannelLocked(st)
  BY DEF NoticeDeath
<1> QED
  BY <1>1, LoseOK

LEMMA AcquireOK ==
  ASSUME TypeOK, RegisteredOK,
         NEW s \in Slots, NEW st, SlotOK(s, st), st.created,
         NEW d \in AcquireLocked(s, st)
  PROVE  /\ SlotOK(s, d)
         /\ d.stopped = st.stopped /\ d.created
         /\ st.rebindAttempt # 0 => d.rebindAttempt = st.rebindAttempt
<1>1. PICK c : c = registered[ServiceName(s)]
  OBVIOUS
<1>2. \/ d = st
      \/ d = LoseChannelLocked(st)
      \/ /\ st.binder = NoChannel /\ c # NoChannel
         /\ d = [st EXCEPT !.binder = c, !.linked = TRUE]
  BY <1>1 DEF AcquireLocked
<1>3. CASE d = st
  BY <1>3
<1>4. CASE d = LoseChannelLocked(st)
  BY <1>4, LoseOK
<1>5. CASE /\ st.binder = NoChannel /\ c # NoChannel
           /\ d = [st EXCEPT !.binder = c, !.linked = TRUE]
  <2>1. ServiceName(s) \in Services
    BY DEF Services
  <2>2. c \in Channels /\ c[1] = ServiceName(s) /\ c \in Started
    BY <1>1, <1>5, <2>1 DEF TypeOK, RegisteredOK
  <2>3. st \in SlotState
    BY DEF SlotOK, RecordOK
  <2>4. /\ d \in SlotState
        /\ d.binder = c /\ d.linked /\ d.created = st.created
        /\ d.callbackInstalled = st.callbackInstalled /\ d.stopped = st.stopped
        /\ d.rebindAttempt = st.rebindAttempt /\ d.queued = st.queued
    BY <1>5, <2>2, <2>3 DEF SlotState
  <2> QED
    BY <1>5, <2>2, <2>4 DEF SlotOK, RecordOK, LooperOK, RildOK
<1> QED
  BY <1>2, <1>3, <1>4, <1>5

(* Whatever rild answers to setCallback. *)
LEMMA AfterInstallOK ==
  ASSUME NEW s \in Slots, NEW st, SlotOK(s, st), st.created,
         st.binder # NoChannel, ~st.callbackInstalled,
         NEW r \in InstallCallbackLocked(st.binder),
         NEW d, d = AfterInstall(st, r.ok)
  PROVE  /\ RecordOK(s, d) /\ LooperOK(s, d)
         /\ d.binder = st.binder /\ d.linked = st.linked
         /\ d.callbackInstalled <=> r.ok
         /\ r.ok => r.took
         /\ r.took \in BOOLEAN
         /\ d.stopped = st.stopped /\ d.created
         /\ st.rebindAttempt # 0 /\ ~r.ok => d.rebindAttempt = st.rebindAttempt
<1>1. \/ r = [ok |-> TRUE, took |-> TRUE]
      \/ r = [ok |-> FALSE, took |-> TRUE]
      \/ r = [ok |-> FALSE, took |-> FALSE]
  <2>1. CASE st.binder \in accepting
    BY <2>1, Zenon DEF InstallCallbackLocked
  <2>2. CASE st.binder \notin accepting
    BY <2>2, Zenon DEF InstallCallbackLocked
  <2> QED
    BY <2>1, <2>2
<1>2. (r.took = TRUE \/ r.took = FALSE) /\ (r.ok => r.took)
  BY <1>1
<1>3. st \in SlotState
  BY DEF SlotOK, RecordOK
<1>4. CASE r.ok
  <2>1. /\ d \in SlotState
        /\ d.binder = st.binder /\ d.linked = st.linked /\ d.created = st.created
        /\ d.callbackInstalled /\ d.stopped = st.stopped
        /\ d.rebindAttempt = 0 /\ ~d.queued
    <3>1. CASE st.rebindAttempt # 0
      <4>1. d = [st EXCEPT !.callbackInstalled = TRUE, !.rebindAttempt = 0,
                           !.queued = FALSE]
        BY <1>4, <3>1 DEF AfterInstall
      <4>2. 0 \in 0 .. MaxAttempts
        BY AttemptsAssumption
      <4> QED
        BY <1>3, <4>1, <4>2 DEF SlotState
    <3>2. CASE st.rebindAttempt = 0
      <4>1. d = [st EXCEPT !.callbackInstalled = TRUE] /\ ~st.queued
        BY <1>4, <3>2 DEF AfterInstall, SlotOK, RecordOK
      <4> QED
        BY <1>3, <3>2, <4>1 DEF SlotState
    <3> QED
      BY <3>1, <3>2
  <2> QED
    BY <1>2, <1>4, <2>1 DEF SlotOK, RecordOK, LooperOK
<1>5. CASE ~r.ok /\ ~st.stopped /\ st.rebindAttempt = 0
  <2>1. d = ScheduleRebindLocked(st)
    BY <1>5 DEF AfterInstall
  <2> QED
    BY <1>2, <1>5, <2>1, ScheduleFirstOK, ZenonT(40) DEF SlotOK
<1>6. CASE ~r.ok /\ ~(~st.stopped /\ st.rebindAttempt = 0)
  <2>1. d = st
    BY <1>6 DEF AfterInstall
  <2> QED
    BY <1>2, <1>6, <2>1 DEF SlotOK
<1> QED
  BY <1>2, <1>4, <1>5, <1>6
(* What a connectLocked may leave in the slot. *)
OutcomeOK(s, o) ==
  /\ RecordOK(s, o.slot)
  /\ o.slot.binder # NoChannel => o.slot.linked \/ <<s, o.slot.binder>> \in notices
  /\ o.slot.binder # NoChannel => o.slot.binder \in Started
  /\ o.slot.callbackInstalled /\ o.slot.binder \in alive
       => o.took \/ callbackAt[o.slot.binder] = s
  /\ o.took => o.slot.binder # NoChannel

LEMMA ConnectOK ==
  ASSUME TypeOK, RegisteredOK,
         NEW s \in Slots, NEW st, SlotOK(s, st), st.created,
         NEW o \in ConnectLocked(s, st)
  PROVE  /\ OutcomeOK(s, o) /\ LooperOK(s, o.slot)
         /\ o.slot.stopped = st.stopped /\ o.slot.created
         /\ st.rebindAttempt # 0 /\ ~o.slot.callbackInstalled
              => o.slot.rebindAttempt = st.rebindAttempt
<1>1. PICK a, x : /\ a \in NoticeDeath(st) /\ x \in AcquireLocked(s, a)
                  /\ \/ /\ ~(x.binder # NoChannel /\ ~x.callbackInstalled)
                        /\ o = [slot |-> x, took |-> FALSE]
                     \/ /\ x.binder # NoChannel /\ ~x.callbackInstalled
                        /\ \E r \in InstallCallbackLocked(x.binder) :
                             o = [slot |-> AfterInstall(x, r.ok), took |-> r.took]
  BY DEF ConnectLocked
<1>2. /\ SlotOK(s, a) /\ a.stopped = st.stopped /\ a.created
      /\ st.rebindAttempt # 0 => a.rebindAttempt = st.rebindAttempt
  BY <1>1, NoticeDeathOK
<1>3. /\ SlotOK(s, x) /\ x.stopped = st.stopped /\ x.created
      /\ st.rebindAttempt # 0 => x.rebindAttempt = st.rebindAttempt
  <2>1. /\ SlotOK(s, x) /\ x.stopped = a.stopped /\ x.created
        /\ a.rebindAttempt # 0 => x.rebindAttempt = a.rebindAttempt
    BY <1>1, <1>2, AcquireOK
  <2> QED
    BY <1>2, <2>1
<1>4. CASE o = [slot |-> x, took |-> FALSE]
  <2>1. o.slot = x /\ ~o.took
    BY <1>4
  <2> QED
    BY <1>3, <2>1 DEF OutcomeOK, SlotOK, RildOK
<1>5. CASE /\ x.binder # NoChannel /\ ~x.callbackInstalled
           /\ \E r \in InstallCallbackLocked(x.binder) :
                o = [slot |-> AfterInstall(x, r.ok), took |-> r.took]
  <2>1. PICK r \in InstallCallbackLocked(x.binder) :
             o = [slot |-> AfterInstall(x, r.ok), took |-> r.took]
    BY <1>5
  <2>2. PICK d : d = AfterInstall(x, r.ok)
    OBVIOUS
  <2>3. o.slot = d /\ o.took = r.took
    BY <2>1, <2>2
  <2>4. /\ RecordOK(s, d) /\ LooperOK(s, d)
        /\ d.binder = x.binder /\ d.linked = x.linked
        /\ d.callbackInstalled <=> r.ok
        /\ r.ok => r.took
        /\ d.stopped = x.stopped /\ d.created
        /\ x.rebindAttempt # 0 /\ ~r.ok => d.rebindAttempt = x.rebindAttempt
    BY <1>3, <1>5, <2>2, AfterInstallOK
  <2> QED
    BY <1>3, <1>5, <2>3, <2>4 DEF OutcomeOK, SlotOK, RildOK
<1> QED
  BY <1>1, <1>4, <1>5

(* Storing an outcome keeps every slot's record sound: the other slot's    *)
(* callback is on a channel of the other service.                          *)
LEMMA StoreOK ==
  ASSUME IInv, NEW s \in Slots, NEW o, OutcomeOK(s, o),
         o.slot.rebindAttempt # 0 /\ looper # "quit"
           => o.slot.queued \/ dequeued' = s,
         o.slot.queued /\ dequeued' = s => o.slot.rebindAttempt = 1,
         Connected(s, o), UNCHANGED <<looper, notices, rild>>,
         dequeued' = dequeued \/ (dequeued = s /\ dequeued' = NoSlot)
  PROVE  /\ slots' \in [Slots -> SlotState]
         /\ callbackAt' \in [Channels -> Slots \cup {NoSlot}]
         /\ \A x \in Slots : SlotOK(x, slots[x])'
<1>1. /\ o.slot \in SlotState
      /\ o.took => o.slot.binder \in Channels /\ o.slot.binder[1] = ServiceName(s)
  BY DEF OutcomeOK, RecordOK, SlotState
<1>2. slots' \in [Slots -> SlotState] /\ slots'[s] = o.slot
  BY <1>1 DEF IInv, TypeOK, Connected
<1>3. callbackAt' \in [Channels -> Slots \cup {NoSlot}]
  BY <1>1 DEF IInv, TypeOK, Connected
<1>4. \A c \in Channels : callbackAt'[c] = IF o.took /\ c = o.slot.binder
                                           THEN s ELSE callbackAt[c]
  BY <1>1 DEF IInv, TypeOK, Connected
<1>5. ASSUME NEW x \in Slots PROVE SlotOK(x, slots[x])'
  <2>1. CASE x = s
    <3>1. RecordOK(x, slots[x])' /\ LooperOK(x, slots[x])'
      BY <1>2, <2>1 DEF OutcomeOK, RecordOK, LooperOK
    <3>2. RildOK(x, slots[x])'
      BY <1>1, <1>2, <1>4, <2>1 DEF OutcomeOK, RildOK, rild, Started, IInv, TypeOK
    <3> QED
      BY <3>1, <3>2 DEF SlotOK
  <2>2. CASE x # s
    <3>1. slots'[x] = slots[x] /\ SlotOK(x, slots[x])
      BY <2>2 DEF IInv, TypeOK, Connected
    <3>2. RecordOK(x, slots[x])'
      BY <3>1 DEF SlotOK, RecordOK
    <3>3. LooperOK(x, slots[x])'
      BY <2>2, <3>1, SlotsAssumption DEF SlotOK, LooperOK, NoSlot
    <3>4. slots[x].binder \in Channels => callbackAt'[slots[x].binder]
                                           = callbackAt[slots[x].binder]
      BY <1>1, <1>4, <2>2, <3>1, ServiceNameInjective, ChannelAssumption
      DEF SlotOK, RecordOK
    <3>5. RildOK(x, slots[x])'
      BY <3>1, <3>4 DEF SlotOK, RildOK, rild, Started, IInv, TypeOK
    <3> QED
      BY <3>2, <3>3, <3>5 DEF SlotOK
  <2> QED
    BY <2>1, <2>2
<1> QED
  BY <1>2, <1>3, <1>5
(* A step that touches one slot's record and neither the looper nor rild.  *)
LEMMA UpdateOK ==
  ASSUME IInv, NEW s \in Slots, NEW d, SlotOK(s, d),
         slots' = [slots EXCEPT ![s] = d],
         UNCHANGED <<dequeued, looper, notices, rild, callbackAt>>
  PROVE  /\ slots' \in [Slots -> SlotState]
         /\ \A x \in Slots : SlotOK(x, slots[x])'
<1>1. slots' \in [Slots -> SlotState] /\ slots'[s] = d
  BY DEF IInv, TypeOK, SlotOK, RecordOK
<1>2. ASSUME NEW x \in Slots PROVE SlotOK(x, slots[x])'
  <2>1. SlotOK(x, slots'[x])
    BY <1>1 DEF IInv, TypeOK
  <2> QED
    BY <2>1 DEF SlotOK, RecordOK, LooperOK, RildOK, rild, Started
<1> QED
  BY <1>1, <1>2

LEMMA StoppedOK ==
  ASSUME NEW s \in Slots, NEW st, SlotOK(s, st), st.created,
         NEW d, d = Stopped(st)
  PROVE  SlotOK(s, d) /\ ~d.queued
<1>1. st \in SlotState /\ 0 \in 0 .. MaxAttempts
  BY AttemptsAssumption DEF SlotOK, RecordOK
<1>2. PICK e : e = [st EXCEPT !.stopped = TRUE, !.rebindAttempt = 0, !.queued = FALSE]
  OBVIOUS
<1>3. /\ e \in SlotState
      /\ e.rebindAttempt = 0 /\ ~e.queued /\ e.stopped
      /\ e.binder = st.binder /\ e.linked = st.linked /\ e.created = st.created
      /\ e.callbackInstalled = st.callbackInstalled
  BY <1>1, <1>2 DEF SlotState
<1>4. SlotOK(s, e)
  BY <1>3 DEF SlotOK, RecordOK, LooperOK, RildOK
<1>5. d = DropChannelLocked(e)
  BY <1>2 DEF Stopped
<1>6. ~d.queued
  BY <1>3, <1>5 DEF DropChannelLocked, SlotState
<1> QED
  BY <1>4, <1>5, <1>6, DropOK

LEMMA InvalidateOK ==
  ASSUME NEW s \in Slots, NEW st, SlotOK(s, st), NEW c \in Channels,
         NEW d, d = Invalidate(st, c)
  PROVE  SlotOK(s, d) /\ d.binder # c
<1>1. CASE st.binder # c
  BY <1>1 DEF Invalidate
<1>2. CASE st.binder = c
  <2>1. d = LoseChannelLocked(st) /\ c # NoChannel
    BY <1>2, ChannelAssumption DEF Invalidate
  <2>2. st.created
    BY <1>2, <2>1 DEF SlotOK, RecordOK
  <2> QED
    BY <2>1, <2>2, LoseOK
<1> QED
  BY <1>1, <1>2
-----------------------------------------------------------------------------
LEMMA InitOK == Init => IInv
<1> SUFFICES ASSUME Init PROVE IInv
  OBVIOUS
<1>1. NewSlot \in SlotState
  BY AttemptsAssumption DEF NewSlot, SlotState
<1>2. TypeOK
  BY <1>1, GenerationAssumption DEF Init, TypeOK
<1>3. RegisteredOK
  BY DEF Init, RegisteredOK
<1>4. ASSUME NEW s \in Slots PROVE SlotOK(s, slots[s])
  BY <1>1 DEF Init, SlotOK, RecordOK, LooperOK, RildOK, NewSlot
<1> QED
  BY <1>2, <1>3, <1>4 DEF IInv

(* The slot a client's call creates, and start()'s clearing of stopped.    *)
LEMMA SlotLockedOK ==
  ASSUME IInv, NEW s \in Slots
  PROVE  /\ SlotOK(s, SlotLocked(s)) /\ SlotLocked(s).created
         /\ SlotOK(s, [SlotLocked(s) EXCEPT !.stopped = FALSE])
         /\ [SlotLocked(s) EXCEPT !.stopped = FALSE].created
<1>1. PICK st : st = slots[s]
  OBVIOUS
<1>2. st \in SlotState /\ SlotOK(s, st)
  BY <1>1 DEF IInv, TypeOK
<1>3. PICK d : d = [st EXCEPT !.created = TRUE]
  OBVIOUS
<1>4. /\ d \in SlotState /\ d.created
      /\ d.binder = st.binder /\ d.linked = st.linked /\ d.queued = st.queued
      /\ d.callbackInstalled = st.callbackInstalled /\ d.stopped = st.stopped
      /\ d.rebindAttempt = st.rebindAttempt
  BY <1>2, <1>3 DEF SlotState
<1>5. SlotOK(s, d)
  BY <1>2, <1>4 DEF SlotOK, RecordOK, LooperOK, RildOK
<1>6. PICK e : e = [d EXCEPT !.stopped = FALSE]
  OBVIOUS
<1>7. /\ e \in SlotState /\ e.created /\ ~e.stopped
      /\ e.binder = d.binder /\ e.linked = d.linked /\ e.queued = d.queued
      /\ e.callbackInstalled = d.callbackInstalled
      /\ e.rebindAttempt = d.rebindAttempt
  BY <1>4, <1>6 DEF SlotState
<1>8. SlotOK(s, e)
  BY <1>5, <1>7 DEF SlotOK, RecordOK, LooperOK, RildOK
<1> QED
  BY <1>1, <1>3, <1>4, <1>5, <1>6, <1>7, <1>8 DEF SlotLocked

(* The calls of the client. *)
LEMMA ClientStep == IInv /\ Client => IInv'
<1>1. ASSUME IInv, NEW s \in Slots, Start(s) PROVE IInv'
  <2>1. PICK o \in ConnectLocked(s, [SlotLocked(s) EXCEPT !.stopped = FALSE]) :
             Connected(s, o)
    BY <1>1 DEF Start
  <2>2. OutcomeOK(s, o) /\ LooperOK(s, o.slot)
    BY <1>1, <2>1, SlotLockedOK, ConnectOK DEF IInv
  <2>3. /\ o.slot.rebindAttempt # 0 /\ looper # "quit"
             => o.slot.queued \/ dequeued' = s
        /\ o.slot.queued /\ dequeued' = s => o.slot.rebindAttempt = 1
    BY <1>1, <2>2 DEF Start, LooperOK
  <2>4. /\ slots' \in [Slots -> SlotState]
        /\ callbackAt' \in [Channels -> Slots \cup {NoSlot}]
        /\ \A x \in Slots : SlotOK(x, slots[x])'
    <3>1. UNCHANGED <<looper, notices, rild>> /\ dequeued' = dequeued
      BY <1>1 DEF Start
    <3> QED
      BY <1>1, <2>1, <2>2, <2>3, <3>1, StoreOK
  <2> QED
    BY <1>1, <2>4 DEF Start, IInv, TypeOK, RegisteredOK, rild, Started
<1>2. ASSUME IInv, NEW s \in Slots, Stop(s) PROVE IInv'
  <2>1. SlotOK(s, Stopped(slots[s]))
    BY <1>2, StoppedOK DEF Stop, IInv
  <2>2. /\ slots' \in [Slots -> SlotState]
        /\ \A x \in Slots : SlotOK(x, slots[x])'
    BY <1>2, <2>1, UpdateOK DEF Stop
  <2> QED
    BY <1>2, <2>2 DEF Stop, IInv, TypeOK, RegisteredOK, rild, Started
<1>3. ASSUME IInv, NEW t \in Threads, NEW s \in Slots, BeginSend(t, s) PROVE IInv'
  <2>1. PICK o \in ConnectLocked(s, SlotLocked(s)) :
             /\ Connected(s, o)
             /\ sending' = IF o.slot.binder = NoChannel THEN sending
                  ELSE [sending EXCEPT ![t] = [slot |-> s, binder |-> o.slot.binder]]
    BY <1>3 DEF BeginSend
  <2>2. OutcomeOK(s, o) /\ LooperOK(s, o.slot)
    BY <1>3, <2>1, SlotLockedOK, ConnectOK DEF IInv
  <2>3. /\ o.slot.rebindAttempt # 0 /\ looper # "quit"
             => o.slot.queued \/ dequeued' = s
        /\ o.slot.queued /\ dequeued' = s => o.slot.rebindAttempt = 1
    BY <1>3, <2>2 DEF BeginSend, LooperOK
  <2>4. /\ slots' \in [Slots -> SlotState]
        /\ callbackAt' \in [Channels -> Slots \cup {NoSlot}]
        /\ \A x \in Slots : SlotOK(x, slots[x])'
    <3>1. UNCHANGED <<looper, notices, rild>> /\ dequeued' = dequeued
      BY <1>3 DEF BeginSend
    <3> QED
      BY <1>3, <2>1, <2>2, <2>3, <3>1, StoreOK
  <2>5. sending' \in [Threads -> {Idle} \cup [slot : Slots, binder : Channels]]
    BY <1>3, <2>1, <2>2 DEF IInv, TypeOK, OutcomeOK, RecordOK, SlotState
  <2> QED
    BY <1>3, <2>4, <2>5 DEF BeginSend, IInv, TypeOK, RegisteredOK, rild, Started
<1>4. ASSUME IInv, NEW t \in Threads, SendReturns(t) PROVE IInv'
  <2>1. sending' \in [Threads -> {Idle} \cup [slot : Slots, binder : Channels]]
    BY <1>4 DEF IInv, TypeOK, SendReturns
  <2>2. \A x \in Slots : SlotOK(x, slots[x])'
    BY <1>4 DEF IInv, SendReturns, SlotOK, RecordOK, LooperOK, RildOK, rild, Started
  <2> QED
    BY <1>4, <2>1, <2>2 DEF SendReturns, IInv, TypeOK, RegisteredOK, rild, Started
<1>5. ASSUME IInv, NEW t \in Threads, SendFails(t) PROVE IInv'
  <2>1. PICK s, c : s = sending[t].slot /\ c = sending[t].binder
    OBVIOUS
  <2>2. s \in Slots /\ c \in Channels
    BY <1>5, <2>1 DEF SendFails, IInv, TypeOK
  <2>3. SlotOK(s, Invalidate(slots[s], c))
    BY <1>5, <2>2, InvalidateOK DEF IInv
  <2>4. /\ slots' \in [Slots -> SlotState]
        /\ \A x \in Slots : SlotOK(x, slots[x])'
    BY <1>5, <2>1, <2>2, <2>3, UpdateOK DEF SendFails
  <2>5. sending' \in [Threads -> {Idle} \cup [slot : Slots, binder : Channels]]
    BY <1>5 DEF IInv, TypeOK, SendFails
  <2> QED
    BY <1>5, <2>4, <2>5 DEF SendFails, IInv, TypeOK, RegisteredOK, rild, Started
<1> QED
  BY <1>1, <1>2, <1>3, <1>4, <1>5 DEF Client
(* The driver's obituaries and binderDied(). *)
LEMMA DeathsStep == IInv /\ Deaths => IInv'
<1>1. ASSUME IInv, NEW s \in Slots, Obituary(s) PROVE IInv'
  <2>1. PICK st : st = slots[s]
    OBVIOUS
  <2>2. /\ st \in SlotState /\ SlotOK(s, st) /\ st.linked
        /\ notices' = notices \cup {<<s, st.binder>>}
    BY <1>1, <2>1 DEF Obituary, IInv, TypeOK
  <2>3. st.binder \in Channels
    BY <2>2 DEF SlotOK, RecordOK, SlotState
  <2>4. PICK d : d = [st EXCEPT !.linked = FALSE]
    OBVIOUS
  <2>5. /\ d \in SlotState /\ ~d.linked
        /\ d.binder = st.binder /\ d.created = st.created /\ d.queued = st.queued
        /\ d.callbackInstalled = st.callbackInstalled /\ d.stopped = st.stopped
        /\ d.rebindAttempt = st.rebindAttempt
    BY <2>2, <2>4 DEF SlotState
  <2>6. slots' = [slots EXCEPT ![s] = d]
    BY <1>1, <2>1, <2>4 DEF Obituary
  <2>7. TypeOK'
    <3>1. slots' \in [Slots -> SlotState]
      BY <1>1, <2>5, <2>6 DEF IInv, TypeOK
    <3>2. notices' \subseteq Slots \X Channels
      BY <1>1, <2>2, <2>3 DEF IInv, TypeOK
    <3> QED
      BY <1>1, <3>1, <3>2 DEF Obituary, IInv, TypeOK, rild
  <2>8. ASSUME NEW x \in Slots PROVE SlotOK(x, slots[x])'
    <3>1. CASE x = s
      <4>1. slots'[x] = d
        BY <1>1, <2>6, <3>1 DEF IInv, TypeOK
      <4>2. RecordOK(s, d) /\ LooperOK(s, d)
        BY <2>2, <2>5 DEF SlotOK, RecordOK, LooperOK
      <4>3. <<s, d.binder>> \in notices'
        BY <2>2, <2>5
      <4>4. RecordOK(x, slots[x])' /\ LooperOK(x, slots[x])'
        BY <1>1, <3>1, <4>1, <4>2 DEF Obituary, RecordOK, LooperOK
      <4>5. RildOK(x, slots[x])'
        <5>1. /\ d.binder \in Started
              /\ d.callbackInstalled /\ d.binder \in alive => callbackAt[d.binder] = s
          BY <2>2, <2>3, <2>5, ChannelAssumption DEF SlotOK, RildOK
        <5>2. Started' = Started /\ alive' = alive /\ callbackAt' = callbackAt
          BY <1>1 DEF Obituary, rild, Started
        <5> QED
          BY <3>1, <4>1, <4>3, <5>1, <5>2 DEF RildOK
      <4> QED
        BY <4>4, <4>5 DEF SlotOK
    <3>2. CASE x # s
      <4>1. slots'[x] = slots[x] /\ SlotOK(x, slots[x])
        BY <1>1, <2>6, <3>2 DEF IInv, TypeOK
      <4> QED
        BY <1>1, <2>2, <4>1
        DEF Obituary, SlotOK, RecordOK, LooperOK, RildOK, rild, Started
    <3> QED
      BY <3>1, <3>2
  <2> QED
    BY <1>1, <2>7, <2>8 DEF Obituary, IInv, RegisteredOK, rild, Started
<1>2. ASSUME IInv, NEW s \in Slots, NEW c \in Channels, BinderDied(s, c)
      PROVE  IInv'
  <2>1. PICK d : d = Invalidate(slots[s], c)
    OBVIOUS
  <2>2. SlotOK(s, d) /\ d.binder # c
    BY <1>2, <2>1, InvalidateOK DEF IInv
  <2>3. slots' = [slots EXCEPT ![s] = d]
    BY <1>2, <2>1 DEF BinderDied
  <2>4. d \in SlotState
    BY <2>2 DEF SlotOK, RecordOK
  <2>5. TypeOK'
    BY <1>2, <2>3, <2>4 DEF BinderDied, IInv, TypeOK, rild
  <2>6. ASSUME NEW x \in Slots PROVE SlotOK(x, slots[x])'
    <3>1. CASE x = s
      <4>1. slots'[x] = d
        BY <1>2, <2>3, <3>1 DEF IInv, TypeOK
      <4> QED
        BY <1>2, <2>2, <3>1, <4>1
        DEF BinderDied, SlotOK, RecordOK, LooperOK, RildOK, rild, Started
    <3>2. CASE x # s
      <4>1. slots'[x] = slots[x] /\ SlotOK(x, slots[x])
        BY <1>2, <2>3, <3>2 DEF IInv, TypeOK
      <4> QED
        BY <1>2, <3>2, <4>1
        DEF BinderDied, SlotOK, RecordOK, LooperOK, RildOK, rild, Started
    <3> QED
      BY <3>1, <3>2
  <2> QED
    BY <1>2, <2>5, <2>6 DEF BinderDied, IInv, RegisteredOK, rild, Started
<1> QED
  BY <1>1, <1>2 DEF Deaths, IInv, TypeOK

(* The looper takes a message; rebind() runs it. *)
LEMMA LooperStep == IInv /\ Looper => IInv'
<1>1. ASSUME IInv, NEW s \in Slots, DequeueRebind(s) PROVE IInv'
  <2>1. PICK st : st = slots[s]
    OBVIOUS
  <2>2. st \in SlotState /\ SlotOK(s, st) /\ st.queued /\ dequeued' = s
    BY <1>1, <2>1 DEF DequeueRebind, IInv, TypeOK
  <2>3. PICK d : d = [st EXCEPT !.queued = FALSE]
    OBVIOUS
  <2>4. /\ d \in SlotState /\ ~d.queued
        /\ d.binder = st.binder /\ d.created = st.created /\ d.linked = st.linked
        /\ d.callbackInstalled = st.callbackInstalled /\ d.stopped = st.stopped
        /\ d.rebindAttempt = st.rebindAttempt
    BY <2>2, <2>3 DEF SlotState
  <2>5. slots' = [slots EXCEPT ![s] = d]
    BY <1>1, <2>1, <2>3 DEF DequeueRebind
  <2>6. TypeOK'
    BY <1>1, <2>2, <2>4, <2>5 DEF DequeueRebind, IInv, TypeOK, rild
  <2>7. ASSUME NEW x \in Slots PROVE SlotOK(x, slots[x])'
    <3>1. CASE x = s
      <4>1. slots'[x] = d
        BY <1>1, <2>5, <3>1 DEF IInv, TypeOK
      <4>2. RecordOK(s, d)
        BY <2>2, <2>4 DEF SlotOK, RecordOK
      <4>3. RecordOK(x, slots[x])'
        BY <3>1, <4>1, <4>2 DEF RecordOK
      <4>4. LooperOK(x, slots[x])'
        BY <2>2, <2>4, <3>1, <4>1 DEF LooperOK
      <4>5. RildOK(x, slots[x])'
        <5>1. RildOK(s, d)
          BY <2>2, <2>4 DEF SlotOK, RildOK
        <5> QED
          BY <1>1, <3>1, <4>1, <5>1 DEF DequeueRebind, RildOK, rild, Started
      <4> QED
        BY <4>3, <4>4, <4>5 DEF SlotOK
    <3>2. CASE x # s
      <4>1. slots'[x] = slots[x] /\ SlotOK(x, slots[x])
        BY <1>1, <2>5, <3>2 DEF IInv, TypeOK
      <4>2. dequeued # x /\ dequeued' # x
        BY <1>1, <3>2, SlotsAssumption DEF DequeueRebind, NoSlot
      <4> QED
        BY <1>1, <4>1, <4>2
        DEF DequeueRebind, SlotOK, RecordOK, LooperOK, RildOK, rild, Started
    <3> QED
      BY <3>1, <3>2
  <2> QED
    BY <1>1, <2>6, <2>7 DEF DequeueRebind, IInv, RegisteredOK, rild, Started
<1>2. ASSUME IInv, NEW s \in Slots, Rebind(s) PROVE IInv'
  <2> DEFINE st == slots[s]
  <2>1. /\ dequeued = s /\ dequeued' = NoSlot /\ s # NoSlot
        /\ UNCHANGED <<looper, sending, notices, rild>>
    BY <1>2, SlotsAssumption DEF Rebind, NoSlot
  <2>2. st \in SlotState /\ SlotOK(s, st)
    BY <1>2 DEF IInv, TypeOK
  <2>3. CASE ~RebindApplies(st) /\ UNCHANGED <<slots, callbackAt>>
    <3>1. st.rebindAttempt = 0
      BY <2>2, <2>3 DEF RebindApplies, SlotOK, RecordOK
    <3>2. ASSUME NEW x \in Slots PROVE SlotOK(x, slots[x])'
      <4>1. SlotOK(x, slots[x])
        BY <1>2 DEF IInv
      <4> QED
        BY <2>1, <2>3, <3>1, <4>1, SlotsAssumption
        DEF SlotOK, RecordOK, LooperOK, RildOK, rild, Started, NoSlot
    <3> QED
      BY <1>2, <2>1, <2>3, <3>2 DEF IInv, TypeOK, RegisteredOK, rild, Started
  <2>4. CASE /\ RebindApplies(st)
             /\ \E o \in ConnectLocked(s, st) :
                  Connected(s, [slot |-> RescheduleIfMissing(o.slot), took |-> o.took])
    <3>1. PICK o \in ConnectLocked(s, st) :
               Connected(s, [slot |-> RescheduleIfMissing(o.slot), took |-> o.took])
      BY <2>4
    <3>2. st.created /\ ~st.stopped /\ st.rebindAttempt # 0
      BY <2>2, <2>4 DEF RebindApplies, SlotOK, RecordOK
    <3>3. /\ OutcomeOK(s, o) /\ LooperOK(s, o.slot)
          /\ o.slot.stopped = st.stopped /\ o.slot.created
          /\ ~o.slot.callbackInstalled => o.slot.rebindAttempt = st.rebindAttempt
      BY <1>2, <2>2, <3>1, <3>2, ConnectOK DEF IInv
    <3>4. PICK d : d = RescheduleIfMissing(o.slot)
      OBVIOUS
    <3>5. PICK p : p = [slot |-> d, took |-> o.took]
      OBVIOUS
    <3>6. p.slot = d /\ p.took = o.took /\ Connected(s, p)
      BY <3>1, <3>4, <3>5
    <3>7. /\ RecordOK(s, d)
          /\ d.binder = o.slot.binder /\ d.linked = o.slot.linked
          /\ d.callbackInstalled = o.slot.callbackInstalled
          /\ d.rebindAttempt # 0 /\ looper # "quit" => d.queued
      <4>1. CASE o.slot.callbackInstalled
        BY <3>3, <3>4, <4>1 DEF RescheduleIfMissing, OutcomeOK, RecordOK
      <4>2. CASE ~o.slot.callbackInstalled /\ o.slot.rebindAttempt < MaxAttempts
        <5>1. d = ScheduleRebindLocked(o.slot) /\ o.slot \in SlotState
          BY <3>3, <3>4, <4>2 DEF RescheduleIfMissing, OutcomeOK, RecordOK
        <5>2. /\ d \in SlotState
              /\ d.rebindAttempt = o.slot.rebindAttempt + 1
              /\ d.queued <=> looper # "quit"
              /\ d.binder = o.slot.binder /\ d.linked = o.slot.linked
              /\ d.created = o.slot.created /\ d.stopped = o.slot.stopped
              /\ d.callbackInstalled = o.slot.callbackInstalled
          BY <4>2, <5>1, ScheduleNext
        <5>3. d.rebindAttempt # 0
          BY <5>1, <5>2, AttemptsAssumption DEF SlotState
        <5> QED
          BY <3>2, <3>3, <4>2, <5>2, <5>3 DEF OutcomeOK, RecordOK
      <4>3. CASE ~o.slot.callbackInstalled /\ ~(o.slot.rebindAttempt < MaxAttempts)
        <5>1. PICK e : e = o.slot
          OBVIOUS
        <5>2. e \in SlotState /\ e.rebindAttempt = MaxAttempts
          BY <3>3, <4>3, <5>1, AttemptsAssumption DEF OutcomeOK, RecordOK, SlotState
        <5>3. ~e.queued
          BY <2>1, <3>3, <5>1, <5>2, AttemptsAssumption DEF LooperOK
        <5>4. d = [e EXCEPT !.rebindAttempt = 0] /\ 0 \in 0 .. MaxAttempts
          BY <3>4, <4>3, <5>1, <5>2, AttemptsAssumption
          DEF RescheduleIfMissing, ScheduleRebindLocked
        <5>5. /\ d \in SlotState /\ d.rebindAttempt = 0 /\ d.queued = e.queued
              /\ d.binder = e.binder /\ d.linked = e.linked
              /\ d.created = e.created /\ d.stopped = e.stopped
              /\ d.callbackInstalled = e.callbackInstalled
          BY <5>2, <5>4 DEF SlotState
        <5> QED
          BY <3>3, <4>3, <5>1, <5>3, <5>5 DEF OutcomeOK, RecordOK
      <4> QED
        BY <4>1, <4>2, <4>3
    <3>8. OutcomeOK(s, p)
      BY <3>3, <3>6, <3>7 DEF OutcomeOK
    <3>9. /\ slots' \in [Slots -> SlotState]
          /\ callbackAt' \in [Channels -> Slots \cup {NoSlot}]
          /\ \A x \in Slots : SlotOK(x, slots[x])'
      <4>1. /\ p.slot.rebindAttempt # 0 /\ looper # "quit"
                 => p.slot.queued \/ dequeued' = s
            /\ p.slot.queued /\ dequeued' = s => p.slot.rebindAttempt = 1
        BY <2>1, <3>6, <3>7
      <4>2. /\ UNCHANGED <<looper, notices, rild>>
            /\ dequeued' = dequeued \/ (dequeued = s /\ dequeued' = NoSlot)
        BY <2>1
      <4> QED
        BY <1>2, <3>6, <3>8, <4>1, <4>2, StoreOK
    <3> QED
      BY <1>2, <2>1, <3>9 DEF IInv, TypeOK, RegisteredOK, rild, Started
  <2> QED
    BY <1>2, <2>3, <2>4 DEF Rebind
<1> QED
  BY <1>1, <1>2 DEF Looper
(* shutdown(). *)
LEMMA ShutdownStep == IInv /\ Shutdown => IInv'
<1>1. ASSUME IInv, ShutdownDropsChannels PROVE IInv'
  <2>1. ASSUME NEW x \in Slots
        PROVE  slots'[x] \in SlotState /\ SlotOK(x, slots[x])'
    <3>1. PICK st : st = slots[x]
      OBVIOUS
    <3>2. st \in SlotState /\ SlotOK(x, st)
      BY <1>1, <3>1 DEF IInv, TypeOK
    <3>3. PICK d : d = slots'[x]
      OBVIOUS
    <3>4. RecordOK(x, d) /\ d.rebindAttempt = 0 /\ ~d.queued /\ RildOK(x, d)
      <4>1. CASE st.created
        <5>1. d = Stopped(st)
          BY <1>1, <3>1, <3>3, <4>1 DEF ShutdownDropsChannels
        <5>2. SlotOK(x, d) /\ ~d.queued
          BY <3>2, <4>1, <5>1, StoppedOK
        <5>3. d.rebindAttempt = 0
          BY <3>2, <5>1, AttemptsAssumption DEF Stopped, DropChannelLocked, SlotState
        <5> QED
          BY <5>2, <5>3 DEF SlotOK
      <4>2. CASE ~st.created
        <5>1. d = [st EXCEPT !.queued = FALSE]
          BY <1>1, <3>1, <3>3, <4>2 DEF ShutdownDropsChannels
        <5>2. /\ d \in SlotState /\ ~d.queued
              /\ d.binder = st.binder /\ d.created = st.created /\ d.linked = st.linked
              /\ d.callbackInstalled = st.callbackInstalled
              /\ d.stopped = st.stopped /\ d.rebindAttempt = st.rebindAttempt
          BY <3>2, <5>1 DEF SlotState
        <5> QED
          BY <3>2, <4>2, <5>2 DEF SlotOK, RecordOK, RildOK
      <4> QED
        BY <4>1, <4>2
    <3>5. RecordOK(x, slots[x])' /\ LooperOK(x, slots[x])'
      BY <3>3, <3>4 DEF RecordOK, LooperOK
    <3>6. RildOK(x, slots[x])'
      BY <1>1, <3>3, <3>4 DEF ShutdownDropsChannels, RildOK, rild, Started
    <3> QED
      BY <3>3, <3>4, <3>5, <3>6 DEF SlotOK, RecordOK
  <2>2. slots' \in [Slots -> SlotState]
    <3>1. slots' = [x \in Slots |-> slots'[x]]
      BY <1>1 DEF ShutdownDropsChannels
    <3> QED
      BY <2>1, <3>1
  <2> QED
    BY <1>1, <2>1, <2>2
    DEF ShutdownDropsChannels, IInv, TypeOK, RegisteredOK, rild, Started
<1>2. ASSUME IInv, ShutdownQuits PROVE IInv'
  <2>1. PICK due \in SUBSET Slots :
             slots' = [s \in Slots |-> [slots[s] EXCEPT !.queued = @ /\ s \in due]]
    BY <1>2 DEF ShutdownQuits
  <2>2. ASSUME NEW x \in Slots
        PROVE  slots'[x] \in SlotState /\ SlotOK(x, slots[x])'
    <3>1. PICK st : st = slots[x]
      OBVIOUS
    <3>2. st \in SlotState /\ SlotOK(x, st)
      BY <1>2, <3>1 DEF IInv, TypeOK
    <3>3. PICK q \in BOOLEAN : q = (st.queued /\ x \in due)
      OBVIOUS
    <3>4. PICK d : d = slots'[x]
      OBVIOUS
    <3>5. d = [st EXCEPT !.queued = q]
      BY <2>1, <3>1, <3>3, <3>4
    <3>6. /\ d \in SlotState /\ (d.queued => st.queued)
          /\ d.binder = st.binder /\ d.created = st.created /\ d.linked = st.linked
          /\ d.callbackInstalled = st.callbackInstalled
          /\ d.stopped = st.stopped /\ d.rebindAttempt = st.rebindAttempt
      BY <3>2, <3>3, <3>5 DEF SlotState
    <3>7. RecordOK(x, slots[x])'
      BY <3>2, <3>4, <3>6 DEF SlotOK, RecordOK
    <3>8. LooperOK(x, slots[x])'
      BY <1>2, <3>2, <3>4, <3>6 DEF ShutdownQuits, SlotOK, LooperOK
    <3>9. RildOK(x, slots[x])'
      BY <1>2, <3>2, <3>4, <3>6 DEF ShutdownQuits, SlotOK, RildOK, rild, Started
    <3> QED
      BY <3>4, <3>6, <3>7, <3>8, <3>9 DEF SlotOK
  <2>3. slots' \in [Slots -> SlotState]
    <3>1. slots' = [x \in Slots |-> slots'[x]]
      BY <2>1
    <3> QED
      BY <2>2, <3>1
  <2> QED
    BY <1>2, <2>2, <2>3 DEF ShutdownQuits, IInv, TypeOK, RegisteredOK, rild, Started
<1> QED
  BY <1>1, <1>2 DEF Shutdown

(* A step of rild or servicemanager: a new instance is a new channel, and  *)
(* no instance started before comes back to life.                          *)
LEMMA EnvironmentEffect ==
  ASSUME IInv, NEW n \in Services,
         \/ RildStarts(n) \/ RildDies(n)
         \/ RildAccepts(n) \/ RildRefuses(n)
         \/ Register(n) \/ Unregister(n)
  PROVE  /\ UNCHANGED <<slots, dequeued, looper, sending, notices, callbackAt>>
         /\ Started \subseteq Started'
         /\ \A c \in Started : c \in alive' => c \in alive
         /\ generation' \in [Services -> 0 .. MaxGeneration]
         /\ \A m \in Services : generation[m] <= generation'[m]
         /\ alive' \subseteq Channels /\ accepting' \subseteq alive'
         /\ \/ registered' = registered
            \/ registered' = [registered EXCEPT ![n] = NoChannel]
            \/ /\ registered' = [registered EXCEPT ![n] = Instance(n)]
               /\ Instance(n) \in Channels /\ generation' = generation
<1>1. UNCHANGED <<slots, dequeued, looper, sending, notices, callbackAt>>
  BY DEF RildStarts, RildDies, RildAccepts, RildRefuses, Register, Unregister, bridge
<1>2. /\ Instance(n) = <<n, generation[n]>>
      /\ generation[n] \in 0 .. MaxGeneration
  BY DEF Instance, IInv, TypeOK
<1>3. /\ generation' \in [Services -> 0 .. MaxGeneration]
      /\ \A m \in Services : generation[m] <= generation'[m]
      /\ alive' \subseteq Channels /\ accepting' \subseteq alive'
      /\ \A c \in Started : c \in alive' => c \in alive
      /\ \/ registered' = registered
         \/ registered' = [registered EXCEPT ![n] = NoChannel]
         \/ /\ registered' = [registered EXCEPT ![n] = Instance(n)]
            /\ Instance(n) \in Channels /\ generation' = generation
  <2>1. CASE RildStarts(n)
    <3>1. /\ generation[n] < MaxGeneration
          /\ generation' = [generation EXCEPT ![n] = @ + 1]
          /\ alive' = alive \cup {<<n, generation[n] + 1>>}
          /\ accepting' = accepting /\ registered' = registered
      BY <2>1 DEF RildStarts
    <3>2. generation[n] + 1 \in 1 .. MaxGeneration
      BY <1>2, <3>1, GenerationAssumption
    <3>3. <<n, generation[n] + 1>> \in Channels
      BY <3>2 DEF Channels
    <3>4. /\ generation' \in [Services -> 0 .. MaxGeneration]
          /\ \A m \in Services : generation[m] <= generation'[m]
      BY <3>1, <3>2, GenerationAssumption DEF IInv, TypeOK
    <3>5. <<n, generation[n] + 1>> \notin Started
      BY <1>2 DEF Started
    <3> QED
      BY <3>1, <3>3, <3>4, <3>5 DEF IInv, TypeOK
  <2>2. CASE RildDies(n)
    BY <2>2, GenerationAssumption DEF RildDies, IInv, TypeOK
  <2>3. CASE RildAccepts(n)
    BY <2>3, GenerationAssumption DEF RildAccepts, IInv, TypeOK
  <2>4. CASE RildRefuses(n)
    BY <2>4, GenerationAssumption DEF RildRefuses, IInv, TypeOK
  <2>5. CASE Register(n)
    BY <2>5, GenerationAssumption DEF Register, IInv, TypeOK
  <2>6. CASE Unregister(n)
    BY <2>6, GenerationAssumption DEF Unregister, IInv, TypeOK
  <2> QED
    BY <2>1, <2>2, <2>3, <2>4, <2>5, <2>6
<1>4. Started \subseteq Started'
  <2> SUFFICES ASSUME NEW c \in Channels, c[2] <= generation[c[1]]
               PROVE  c[2] <= generation'[c[1]]
    BY DEF Started
  <2>1. c[1] \in Services /\ c[2] \in Int
    BY DEF Channels
  <2>2. generation[c[1]] \in Int /\ generation'[c[1]] \in Int
    BY <1>3, <2>1, GenerationAssumption DEF IInv, TypeOK
  <2> QED
    BY <1>3, <2>1, <2>2
<1> QED
  BY <1>1, <1>3, <1>4

(* What dies keeps its links, and what starts is in no record yet.         *)
LEMMA EnvironmentStep == IInv /\ Environment => IInv'
<1> SUFFICES ASSUME IInv, NEW n \in Services,
                    \/ RildStarts(n) \/ RildDies(n)
                    \/ RildAccepts(n) \/ RildRefuses(n)
                    \/ Register(n) \/ Unregister(n)
             PROVE  IInv'
  BY DEF Environment
<1>1. UNCHANGED <<slots, dequeued, looper, sending, notices, callbackAt>>
  BY EnvironmentEffect
<1>2. /\ Instance(n) = <<n, generation[n]>>
      /\ generation[n] \in 0 .. MaxGeneration
  BY DEF Instance, IInv, TypeOK
<1>3. /\ generation' \in [Services -> 0 .. MaxGeneration]
      /\ \A m \in Services : generation[m] <= generation'[m]
      /\ alive' \subseteq Channels /\ accepting' \subseteq alive'
      /\ \A c \in Started : c \in alive' => c \in alive
      /\ \/ registered' = registered
         \/ registered' = [registered EXCEPT ![n] = NoChannel]
         \/ /\ registered' = [registered EXCEPT ![n] = Instance(n)]
            /\ Instance(n) \in Channels /\ generation' = generation
  BY EnvironmentEffect
<1>4. TypeOK'
  BY <1>1, <1>2, <1>3 DEF IInv, TypeOK
<1>5. Started \subseteq Started'
  BY EnvironmentEffect
<1>6. RegisteredOK'
  <2> SUFFICES ASSUME NEW m \in Services, registered'[m] # NoChannel
               PROVE  registered'[m][1] = m /\ registered'[m] \in Started'
    BY DEF RegisteredOK
  <2>1. CASE registered'[m] = registered[m]
    BY <1>5, <2>1 DEF IInv, RegisteredOK
  <2>2. CASE /\ m = n /\ registered'[m] = Instance(n)
             /\ Instance(n) \in Channels /\ generation' = generation
    BY <1>2, <2>2 DEF Started
  <2> QED
    BY <1>3, <2>1, <2>2 DEF IInv, TypeOK
<1>7. ASSUME NEW x \in Slots PROVE SlotOK(x, slots[x])'
  <2>1. SlotOK(x, slots[x])
    BY DEF IInv
  <2>2. RecordOK(x, slots[x])' /\ LooperOK(x, slots[x])'
    BY <1>1, <2>1 DEF SlotOK, RecordOK, LooperOK
  <2>3. RildOK(x, slots[x])'
    BY <1>1, <1>3, <1>5, <2>1 DEF SlotOK, RildOK, RecordOK
  <2> QED
    BY <2>2, <2>3 DEF SlotOK
<1> QED
  BY <1>4, <1>6, <1>7 DEF IInv

(* Channels are never reused: what has started stays started, and no old   *)
(* channel lives again.                                                    *)
LEMMA EnvironmentGrows ==
  ASSUME IInv, Environment
  PROVE  /\ Started \subseteq Started'
         /\ \A c \in Started : c \in alive' => c \in alive
BY EnvironmentEffect DEF Environment

LEMMA NextStep == IInv /\ [Next]_vars => IInv'
<1>1. CASE Next
  BY <1>1, ClientStep, DeathsStep, LooperStep, ShutdownStep, EnvironmentStep DEF Next
<1>2. ASSUME IInv, UNCHANGED vars PROVE IInv'
  <2>1. /\ UNCHANGED <<slots, dequeued, looper, sending, notices, callbackAt>>
        /\ UNCHANGED <<generation, alive, accepting, registered>>
    BY <1>2 DEF vars, bridge, rild
  <2>2. TypeOK' /\ Started' = Started /\ RegisteredOK'
    BY <1>2, <2>1 DEF IInv, TypeOK, Started, RegisteredOK
  <2>3. ASSUME NEW x \in Slots PROVE SlotOK(x, slots[x])'
    BY <1>2, <2>1, <2>2 DEF IInv, SlotOK, RecordOK, LooperOK, RildOK
  <2> QED
    BY <2>2, <2>3 DEF IInv
<1> QED
  BY <1>1, <1>2

-----------------------------------------------------------------------------
(* IInv is an invariant of the bridge. *)
THEOREM Inductive == Spec => []IInv
  BY InitOK, NextStep, PTL DEF Spec

(* The state of the bridge and of its environment is always well typed; in *)
(* particular no path of calls, deaths and re-binds counts an attempt      *)
(* beyond MaxAttempts.                                                     *)
THEOREM TypeCorrect == Spec => []TypeOK
<1>1. IInv => TypeOK
  BY DEF IInv
<1> QED
  BY <1>1, Inductive, PTL

(* No slot keeps a dead channel whose death will not be reported.          *)
THEOREM NoSilentDeathHolds == Spec => []NoSilentDeath
<1>1. IInv => NoSilentDeath
  BY DEF IInv, NoSilentDeath, SlotOK, RildOK, Bound
<1> QED
  BY <1>1, Inductive, PTL

(* callbackInstalled tells the truth about a living rild, for either slot. *)
THEOREM CallbackIsOursHolds == Spec => []CallbackIsOurs
<1>1. IInv => CallbackIsOurs
  BY DEF IInv, CallbackIsOurs, SlotOK, RecordOK, RildOK, Bound, Up
<1> QED
  BY <1>1, Inductive, PTL

(* No chain of re-binds stalls with its attempt counted.                   *)
THEOREM NoStalledChainHolds == Spec => []NoStalledChain
<1>1. IInv => NoStalledChain
  BY DEF IInv, NoStalledChain, SlotOK, LooperOK, Retrying
<1> QED
  BY <1>1, Inductive, PTL

(* No re-bind is left behind for a slot that is stopped or up.             *)
THEOREM NoLeftoverRebindHolds == Spec => []NoLeftoverRebind
<1>1. IInv => NoLeftoverRebind
  BY DEF IInv, NoLeftoverRebind, SlotOK, RecordOK, Retrying, Up
<1> QED
  BY <1>1, Inductive, PTL
=============================================================================
