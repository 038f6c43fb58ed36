----------------------- MODULE FingerprintSessionProofs -----------------------
(***************************************************************************)
(* What FingerprintSession promises for any number of framework starts and *)
(* sessions and any templates.                                             *)
(***************************************************************************)
EXTENDS FingerprintSession, SequenceTheorems, TLAPS

(***************************************************************************)
(* LinkedIsCurrent is not inductive: what keeps a link from outliving its  *)
(* session's place in mSession is that a session is linked only while it   *)
(* is open, that only mSession is open, and that a session not made yet    *)
(* has no link.                                                            *)
(***************************************************************************)
LinkOK ==
  /\ \A s \in Ids : sessions[s].linked => s <= made /\ ~sessions[s].closed
  /\ \A s \in Ids : s <= made /\ ~sessions[s].closed => s = mSession

(* The call the binder thread is in is at the head of the queue. *)
CallOK == enrolling # "no" => queue # <<>>

OwnInv == TypeOK /\ LinkOK /\ CallOK

USE ConfigAssumption, TemplatesAssumption, BoundAssumption

(* The first piece of work, and what is left when it is taken. *)
LEMMA HeadAndTail ==
  ASSUME NEW S, NEW q \in Seq(S), q # <<>>
  PROVE  Head(q) \in S /\ Tail(q) \in Seq(S)
OBVIOUS

LEMMA AppendNotEmpty ==
  ASSUME NEW S, NEW q \in Seq(S), NEW w \in S
  PROVE  Append(q, w) # <<>>
<1>1. Len(Append(q, w)) = Len(q) + 1 /\ Len(q) \in Nat
  OBVIOUS
<1> QED
  BY <1>1, EmptySeq

LEMMA EnumerationType ==
  /\ Enumeration \in Seq(Report)
  /\ \A r \in Report : r \notin {NoReport, CaptureReady} => r.fid \in Fids
<1>1. Len(Templates) \in Nat
  OBVIOUS
<1>2. \A i \in 1 .. Len(Templates) : Enumeration[i] \in Report
  BY DEF Report
<1>3. DOMAIN Enumeration = 1 .. Len(Templates)
  BY DEF Enumeration
<1>4. Enumeration \in [1 .. Len(Templates) -> Report]
  BY <1>2, <1>3 DEF Enumeration
<1>5. Enumeration \in Seq(Report)
  BY <1>1, <1>4, SeqDef
<1>6. \A i \in 1 .. Len(Templates) : Enumeration[i].fid \in Fids
  BY DEF Enumeration, Fids
<1> QED
  BY <1>5, <1>6 DEF Report

LEMMA NewWork ==
  ASSUME TypeOK, NEW c \in 1 .. MaxClients, NEW s \in 0 .. MaxSessions, NEW op \in Ops
  PROVE  Item(op, c, s) \in Work /\ Append(queue, Item(op, c, s)) \in Seq(Work)
BY DEF TypeOK, Item, Work

LEMMA InitOwn == Init => OwnInv
<1> SUFFICES ASSUME Init PROVE OwnInv
  OBVIOUS
<1>1. NoReport \in Report \ {CaptureReady}
  BY DEF Report, NoReport, CaptureReady
<1>2. TypeOK
  <2>1. 1 \in 1 .. MaxClients
    OBVIOUS
  <2>2. [NewSession(1) EXCEPT !.linked = FALSE] \in Session
    BY <2>1 DEF Session, NewSession
  <2>3. sessions \in [Ids -> Session]
    BY <2>2 DEF Init
  <2>4. queue \in Seq(Work) /\ events \in Seq(Report)
    BY DEF Init
  <2>5. enrollments \in Seq(Fids) /\ reported \in Seq(Fids)
    BY DEF Init
  <2>6. mSession \in 0 .. made /\ made \in 0 .. MaxSessions /\ mine \in 0 .. made
    BY DEF Init, NoSession
  <2>7. enrolling = "no" /\ doing = "nothing" /\ passed = NoReport /\ client = 1
    BY DEF Init
  <2>8. /\ aborted \in BOOLEAN /\ clientUp \in BOOLEAN
        /\ dropped \in BOOLEAN /\ orphaned \in BOOLEAN
    BY DEF Init
  <2> QED
    BY <1>1, <2>1, <2>3, <2>4, <2>5, <2>6, <2>7, <2>8 DEF TypeOK
<1>3. LinkOK
  BY DEF Init, LinkOK, NewSession, NoSession, Ids
<1>4. CallOK
  BY DEF Init, CallOK
<1> QED
  BY <1>2, <1>3, <1>4 DEF OwnInv

LEMMA FrameworkType ==
  ASSUME TypeOK, Framework
  PROVE  TypeOK'
<1> USE DEF TypeOK, service, vendor, NoSession
<1>1. mine \in 0 .. MaxSessions
  OBVIOUS
<1>2. ASSUME NEW op \in {"create", "close", "enumerate", "enroll"}, Asks(op)
      PROVE  TypeOK'
  <2>1. queue' \in Seq(Work)
    BY <1>1, <1>2, NewWork DEF Asks, Ops
  <2> QED
    BY <1>2, <2>1 DEF Asks
<1>3. CASE ClientDies
  <2>1. queue' \in Seq(Work)
    <3>1. CASE UNCHANGED queue
      BY <3>1
    <3>2. CASE \E s \in Linked(client) : queue' = Append(queue, Item("died", client, s))
      BY <3>2, NewWork DEF Linked, Ids, Ops
    <3> QED
      BY <1>3, <3>1, <3>2 DEF ClientDies
  <2>2. /\ clientUp' = FALSE /\ doing' = "nothing" /\ mine' = NoSession
        /\ UNCHANGED <<service, enrolling, client, vendor, orphaned>>
    BY <1>3 DEF ClientDies
  <2>3. mine' \in 0 .. made' /\ mSession' \in 0 .. made' /\ made' \in 0 .. MaxSessions
    BY <2>2
  <2>4. doing' = "nothing" /\ clientUp' \in BOOLEAN /\ enrolling' = enrolling
    BY <2>2
  <2>5. UNCHANGED <<sessions, client, events, passed, enrollments, reported>>
    BY <2>2
  <2>6. aborted' \in BOOLEAN /\ dropped' \in BOOLEAN /\ orphaned' \in BOOLEAN
    BY <2>2
  <2> QED
    BY <2>1, <2>3, <2>4, <2>5, <2>6
<1>4. CASE ClientStarts
  BY <1>4 DEF ClientStarts, binder
<1> QED
  BY <1>2, <1>3, <1>4 DEF Framework, AsksSession, AsksClose, AsksEnumeration, AsksEnroll

LEMMA BinderType ==
  ASSUME TypeOK, CallOK, BinderThread
  PROVE  TypeOK'
<1> USE DEF TypeOK, service, binder, vendor, framework, NoSession
<1>1. ASSUME queue # <<>>
      PROVE  Head(queue) \in Work /\ Tail(queue) \in Seq(Work)
  BY <1>1, HeadAndTail
<1>2. CASE CreateSessionFails
  BY <1>2 DEF CreateSessionFails
<1>3. CASE CreateSession
  <2> DEFINE c == Head(queue).client
             s == made + 1
  <2>1. c \in 1 .. MaxClients /\ s \in Ids /\ s \in 0 .. MaxSessions
    <3>1. Head(queue) \in Work /\ made < MaxSessions
      BY <1>1, <1>3 DEF CreateSession, Takes
    <3>2. c \in 1 .. MaxClients
      BY <3>1 DEF Work
    <3> QED
      BY <3>1, <3>2 DEF Ids
  <2>2. sessions' \in [Ids -> Session]
    BY <1>3, <2>1 DEF CreateSession, NewSession, Session
  <2>3. Notice(c, s) \in Seq(Work)
    <3> HIDE DEF c, s
    <3>1. Item("died", c, s) \in Work
      BY <2>1, NewWork DEF Ops
    <3>2. <<Item("died", c, s)>> \in Seq(Work) /\ <<>> \in Seq(Work)
      BY <3>1
    <3> QED
      BY <3>2 DEF Notice
  <2>4. queue' \in Seq(Work)
    BY <1>1, <1>3, <2>3 DEF CreateSession, Takes
  <2> QED
    BY <1>3, <2>1, <2>2, <2>4 DEF CreateSession, Alive
<1>4. CASE Close
  <2>1. sessions' \in [Ids -> Session]
    BY <1>4, ZenonT(40) DEF Close, Closed, Session
  <2> QED
    BY <1>1, <1>4, <2>1 DEF Close, Takes
<1>5. CASE OnClientDeath
  <2>1. sessions' \in [Ids -> Session]
    BY <1>5, ZenonT(40) DEF OnClientDeath, Closed, Session
  <2> QED
    BY <1>1, <1>5, <2>1 DEF OnClientDeath, Takes
<1>6. CASE EnumerateEnrollments
  <2>1. events' \in Seq(Report)
    BY <1>6, EnumerationType DEF EnumerateEnrollments
  <2> QED
    BY <1>1, <1>6, <2>1 DEF EnumerateEnrollments, Takes
<1>7. CASE Enroll
  BY <1>1, <1>7 DEF Enroll, Takes
<1>8. CASE ClearsReady
  BY <1>8 DEF ClearsReady, Session
<1>9. CASE RequestsCalibration
  BY <1>9 DEF RequestsCalibration, Report
<1>10. CASE EnrollReturns
  <2>1. queue' \in Seq(Work)
    BY <1>1, <1>10 DEF EnrollReturns, CallOK
  <2> QED
    BY <1>10, <2>1 DEF EnrollReturns
<1> QED
  BY <1>2, <1>3, <1>4, <1>5, <1>6, <1>7, <1>8, <1>9, <1>10 DEF BinderThread

LEMMA VendorType ==
  ASSUME TypeOK, VendorThread
  PROVE  TypeOK'
<1> USE DEF TypeOK, service, binder, framework
<1>1. ASSUME events # <<>>
      PROVE  Head(events) \in Report /\ Tail(events) \in Seq(Report)
  BY <1>1, HeadAndTail
<1>2. CASE HandleEvent
  <2>1. sessions' \in [Ids -> Session]
    BY <1>2 DEF HandleEvent, Session
  <2> QED
    BY <1>1, <1>2, <2>1 DEF HandleEvent
<1>3. CASE NotifyTests
  <2>1. NoReport \in Report \ {CaptureReady}
    BY DEF Report, NoReport, CaptureReady
  <2> QED
    BY <1>1, <1>3, <2>1 DEF NotifyTests
<1>4. CASE NotifyEnumerating
  <2>1. passed.fid \in Fids
    BY <1>4, EnumerationType DEF NotifyEnumerating
  <2>2. NoReport \in Report \ {CaptureReady}
    BY DEF Report, NoReport, CaptureReady
  <2>3. Append(enrollments, passed.fid) \in Seq(Fids)
    BY <2>1
  <2> QED
    BY <1>4, <2>2, <2>3 DEF NotifyEnumerating
<1> QED
  BY <1>2, <1>3, <1>4 DEF VendorThread

LEMMA StepOwn == OwnInv /\ [Next]_vars => OwnInv'
<1> SUFFICES ASSUME OwnInv, [Next]_vars PROVE OwnInv'
  OBVIOUS
<1> USE DEF OwnInv
<1>1. TypeOK'
  <2>1. CASE UNCHANGED vars
    BY <2>1 DEF vars, service, binder, framework, vendor, TypeOK
  <2> QED
    BY <2>1, FrameworkType, BinderType, VendorType DEF Next
<1>2. LinkOK'
  <2> USE DEF TypeOK, service, binder, framework, vendor, LinkOK, NoSession
  <2>1. CASE UNCHANGED <<mSession, sessions, made>>
    BY <2>1
  <2>2. CASE CreateSession
    <3>1. made + 1 \in Ids /\ made + 1 > made
      BY <2>2 DEF CreateSession, Ids
    <3>2. mSession \in Ids => sessions[mSession].closed
      BY <2>2 DEF CreateSession, Open, Ids
    <3>3. \A s \in Ids : ~sessions[s].linked /\ (s <= made => sessions[s].closed)
      BY <3>2
    <3>4. /\ sessions'[made + 1].linked /\ ~sessions'[made + 1].closed
          /\ \A s \in Ids \ {made + 1} : sessions'[s] = sessions[s]
      BY <2>2, <3>1 DEF CreateSession, NewSession
    <3>5. mSession' = made + 1 /\ made' = made + 1
      BY <2>2 DEF CreateSession
    <3>6. \A s \in Ids : s <= made + 1 => s = made + 1 \/ s <= made
      BY DEF Ids
    <3>7. \A s \in Ids : sessions'[s].linked => s = made + 1
      BY <3>3, <3>4
    <3>8. \A s \in Ids : s <= made + 1 /\ ~sessions'[s].closed => s = made + 1
      BY <3>3, <3>4, <3>6
    <3>9. made + 1 <= made'
      BY <3>1, <3>5
    <3> HIDE DEF TypeOK
    <3>10. \A s \in Ids : sessions'[s].linked => s <= made' /\ ~sessions'[s].closed
      BY <3>4, <3>7, <3>9
    <3> QED
      BY <3>5, <3>8, <3>10
  <2>3. ASSUME NEW t, sessions' = Closed(t), UNCHANGED <<mSession, made>>
        PROVE  LinkOK'
    <3>1. \A s \in Ids : \/ sessions'[s].closed /\ ~sessions'[s].linked
                         \/ sessions'[s] = sessions[s]
      BY <2>3 DEF Closed, Session
    <3> QED
      BY <2>3, <3>1
  <2>4. ASSUME NEW t, NEW b \in BOOLEAN, UNCHANGED <<mSession, made>>,
               sessions' = [sessions EXCEPT ![t].ready = b]
        PROVE  LinkOK'
    <3>1. \A s \in Ids : /\ sessions'[s].closed = sessions[s].closed
                         /\ sessions'[s].linked = sessions[s].linked
      BY <2>4 DEF Session
    <3> QED
      BY <2>4, <3>1
  <2>5. CASE Close \/ OnClientDeath
    BY <2>1, <2>3, <2>5 DEF Close, OnClientDeath
  <2>6. CASE ClearsReady \/ HandleEvent
    BY <2>1, <2>4, <2>6 DEF ClearsReady, HandleEvent
  <2> QED
    BY <2>1, <2>2, <2>5, <2>6
    DEF Next, Framework, BinderThread, VendorThread, vars, AsksSession, AsksClose,
        AsksEnumeration, AsksEnroll, Asks, ClientDies, ClientStarts,
        CreateSessionFails, EnumerateEnrollments, Enroll, RequestsCalibration,
        EnrollReturns, NotifyTests, NotifyEnumerating
<1>3. CallOK'
  <2>1. \A w \in Work : Append(queue, w) # <<>>
    BY AppendNotEmpty DEF TypeOK
  <2>2. CASE Framework
    <3>1. \A op \in Ops, s \in 0 .. MaxSessions : Item(op, client, s) \in Work
      BY NewWork DEF TypeOK
    <3>2. ASSUME NEW op \in {"create", "close", "enumerate", "enroll"}, Asks(op)
          PROVE  CallOK'
      BY <2>1, <3>1, <3>2 DEF Asks, CallOK, Ops, TypeOK
    <3>3. CASE ClientDies
      BY <2>1, <3>1, <3>3 DEF ClientDies, Linked, Ids, Ops, CallOK
    <3>4. CASE ClientStarts
      BY <3>4 DEF ClientStarts, CallOK, binder
    <3> QED
      BY <2>2, <3>2, <3>3, <3>4
      DEF Framework, AsksSession, AsksClose, AsksEnumeration, AsksEnroll
  <2>3. CASE BinderThread
    BY <2>3
    DEF BinderThread, CreateSessionFails, CreateSession, Close, OnClientDeath,
        EnumerateEnrollments, Enroll, ClearsReady, RequestsCalibration,
        EnrollReturns, Takes, CallOK, binder
  <2>4. CASE VendorThread \/ UNCHANGED vars
    BY <2>4 DEF VendorThread, HandleEvent, NotifyTests, NotifyEnumerating, vars, binder, CallOK
  <2> QED
    BY <2>2, <2>3, <2>4 DEF Next
<1> QED
  BY <1>1, <1>2, <1>3

(* The invariant the theorems below rest on. *)
THEOREM OwnInvariant == Spec => []OwnInv
BY InitOwn, StepOwn, PTL DEF Spec

(* The state of the service, the framework and the vendor thread stays     *)
(* well typed.                                                             *)
THEOREM SessionTypeCorrect == Spec => []TypeOK
<1>1. OwnInv => TypeOK
  BY DEF OwnInv
<1> QED
  BY <1>1, OwnInvariant, PTL

(* A session that is open or linked is the one Fingerprint owns. *)
THEOREM LinkedIsCurrentHolds == Spec => []LinkedIsCurrent
<1>1. OwnInv => LinkedIsCurrent
  BY DEF OwnInv, LinkOK, LinkedIsCurrent, TypeOK, Ids
<1> QED
  BY <1>1, OwnInvariant, PTL

-----------------------------------------------------------------------------
(***************************************************************************)
(* AbortNeedsOrphan: the CHECK in createSession fails when the call that   *)
(* would close the open session, or the notice that would, does not come   *)
(* before the next client's call.  As long as no session was made for a    *)
(* client already dead, it does: a living client waits for the one call it *)
(* has in the queue, the open session of a living client is its own, the   *)
(* one of a dead client has a notice in the queue, and a call that creates *)
(* a session stands behind what closes the open one.                       *)
(***************************************************************************)
QueueOK ==
  /\ \A i \in 1 .. Len(queue) :
       /\ queue[i].client <= client
       /\ queue[i].op \in {"close", "enroll"} => queue[i].session \in Ids
  /\ \A s \in Ids : s <= made => /\ sessions[s].client <= client
                                 /\ ~sessions[s].closed => sessions[s].linked

Waits == {"create", "close", "enroll"}    \* the calls a client waits for
OneCallOK ==
  \A i \in 1 .. Len(queue) :
    queue[i].op \in Waits /\ Alive(queue[i].client) =>
      /\ i = Len(queue) /\ doing = queue[i].op
      /\ queue[i].op = "close" => queue[i].session = mine
MineOK ==
  clientUp /\ Open(mSession) /\ sessions[mSession].client = client => mine = mSession

EndsAt(j) == queue[j].op \in {"close", "died"} /\ queue[j].session = mSession
NoticeOK ==
  Open(mSession) /\ ~Alive(sessions[mSession].client) =>
    \E j \in 1 .. Len(queue) : EndsAt(j)
CreateOK ==
  Open(mSession) =>
    \A i \in 1 .. Len(queue) :
      queue[i].op = "create" => \E j \in 1 .. Len(queue) : j < i /\ EndsAt(j)

OrderParts == OneCallOK /\ MineOK /\ NoticeOK /\ CreateOK /\ ~aborted
OrderOK == ~orphaned => OrderParts

(***************************************************************************)
(* CaptureReadyIsFresh: a request is answered once, and none is made while *)
(* an answer is on its way; the flag that lets enroll go on is clear when  *)
(* the request is made.                                                    *)
(***************************************************************************)
Unanswered == \A i \in 1 .. Len(events) : events[i] # CaptureReady
OneAnswer ==
  \A i, j \in 1 .. Len(events) :
    events[i] = CaptureReady /\ events[j] = CaptureReady => i = j
AwaitOK ==
  /\ enrolling # "no" => Head(queue).op = "enroll"
  /\ OneAnswer
  /\ enrolling # "waiting" => Unanswered
  /\ enrolling = "request" => ~sessions[Head(queue).session].ready
  /\ CaptureReadyIsFresh

CallInv == OwnInv /\ QueueOK /\ AwaitOK /\ OrderOK

LEMMA TailItems ==
  ASSUME NEW S, NEW q \in Seq(S), q # <<>>
  PROVE  /\ Len(q) \in Nat \ {0} /\ Len(Tail(q)) = Len(q) - 1
         /\ Tail(q) \in Seq(S) /\ Head(q) = q[1]
         /\ \A i \in 1 .. Len(q) - 1 : i + 1 \in 1 .. Len(q) /\ Tail(q)[i] = q[i + 1]
OBVIOUS

LEMMA ConcatItems ==
  ASSUME NEW S, NEW q \in Seq(S), NEW r \in Seq(S)
  PROVE  /\ q \o r \in Seq(S) /\ Len(q) \in Nat /\ Len(r) \in Nat
         /\ Len(q \o r) = Len(q) + Len(r)
         /\ \A i \in 1 .. Len(q \o r) :
              \/ i \in 1 .. Len(q) /\ (q \o r)[i] = q[i]
              \/ i - Len(q) \in 1 .. Len(r) /\ (q \o r)[i] = r[i - Len(q)]
<1>1. Len(q) \in Nat /\ Len(r) \in Nat
  OBVIOUS
<1>2. /\ q \o r \in Seq(S) /\ Len(q \o r) = Len(q) + Len(r)
      /\ \A i \in 1 .. Len(q) + Len(r) :
           (q \o r)[i] = IF i <= Len(q) THEN q[i] ELSE r[i - Len(q)]
  BY ConcatProperties
<1> QED
  BY <1>1, <1>2

LEMMA AppendItems ==
  ASSUME NEW S, NEW q \in Seq(S), NEW w \in S
  PROVE  /\ Len(q) \in Nat /\ Len(Append(q, w)) = Len(q) + 1
         /\ Append(q, w) \in Seq(S) /\ Append(q, w)[Len(q) + 1] = w
         /\ \A i \in 1 .. Len(q) : Append(q, w)[i] = q[i]
OBVIOUS

(* What the framework adds is one piece of work, at the end of the queue.  *)
FrameworkAdded ==
  /\ UNCHANGED <<service, enrolling, vendor, orphaned>>
  /\ \/ UNCHANGED queue
     \/ \E w \in Work : /\ w.client = client /\ queue' = Append(queue, w)
                        /\ w.op \in {"close", "enroll"} => w.session \in Ids

LEMMA FrameworkAdds ==
  ASSUME OwnInv, Framework
  PROVE  FrameworkAdded
<1> USE DEF OwnInv, FrameworkAdded
<1>0. TypeOK
  OBVIOUS
<1>1. ASSUME NEW op \in {"create", "close", "enumerate", "enroll"}, Asks(op),
             op \in {"close", "enroll"} => mine # NoSession
      PROVE  FrameworkAdded
  <2>0. mine \in 0 .. MaxSessions /\ client \in 1 .. MaxClients
    BY <1>0 DEF TypeOK
  <2>1. Item(op, client, mine) \in Work
    BY <1>0, <2>0, NewWork DEF Ops
  <2>a. Item(op, client, mine).client = client /\ Item(op, client, mine).op = op
    BY DEF Item
  <2>b. Item(op, client, mine).op \in {"close", "enroll"} => Item(op, client, mine).session \in Ids
    BY <1>1, <2>0 DEF Item, NoSession, Ids
  <2>2. queue' = Append(queue, Item(op, client, mine))
    BY <1>1 DEF Asks
  <2>3. UNCHANGED <<service, enrolling, vendor, orphaned>>
    BY <1>1 DEF Asks
  <2> HIDE DEF FrameworkAdded
  <2>4. \E w \in Work : /\ w.client = client /\ queue' = Append(queue, w)
                        /\ w.op \in {"close", "enroll"} => w.session \in Ids
    BY <2>1, <2>2, <2>a, <2>b
  <2> QED
    BY <2>3, <2>4 DEF FrameworkAdded
<1>2. CASE ClientDies
  <2>0. client \in 1 .. MaxClients
    BY <1>0 DEF TypeOK
  <2>1. ASSUME NEW s \in Linked(client)
        PROVE  /\ Item("died", client, s) \in Work
               /\ Item("died", client, s).client = client
               /\ Item("died", client, s).op = "died"
    <3>1. s \in 0 .. MaxSessions /\ "died" \in Ops
      BY DEF Linked, Ids, Ops
    <3>2. Item("died", client, s) \in Work
      BY <1>0, <2>0, <3>1, NewWork
    <3> QED
      BY <3>2 DEF Item
  <2>2. UNCHANGED <<service, enrolling, vendor, orphaned>>
    BY <1>2 DEF ClientDies
  <2>3. UNCHANGED queue \/ \E s \in Linked(client) : queue' = Append(queue, Item("died", client, s))
    BY <1>2 DEF ClientDies
  <2> QED
    BY <2>1, <2>2, <2>3
<1>3. CASE ClientStarts
  BY <1>3 DEF ClientStarts, binder
<1> QED
  BY <1>1, <1>2, <1>3 DEF Framework, AsksSession, AsksClose, AsksEnumeration, AsksEnroll

(* What the binder thread takes is the head of the queue. *)
LEMMA BinderTakes ==
  ASSUME OwnInv, BinderThread, ~CreateSession
  PROVE  /\ UNCHANGED <<client, clientUp, orphaned>>
         /\ UNCHANGED queue \/ (queue # <<>> /\ queue' = Tail(queue))
<1> USE DEF OwnInv, CallOK, binder, framework, Takes
<1>1. CASE CreateSessionFails \/ Close \/ OnClientDeath \/ EnumerateEnrollments
  BY <1>1 DEF CreateSessionFails, Close, OnClientDeath, EnumerateEnrollments
<1>2. CASE Enroll \/ ClearsReady \/ RequestsCalibration \/ EnrollReturns
  BY <1>2 DEF Enroll, ClearsReady, RequestsCalibration, EnrollReturns
<1> QED
  BY <1>1, <1>2 DEF BinderThread

LEMMA VendorLeaves ==
  ASSUME VendorThread
  PROVE  UNCHANGED <<mSession, made, aborted, queue, enrolling, client, clientUp, mine,
                     orphaned>>
BY DEF VendorThread, HandleEvent, NotifyTests, NotifyEnumerating, service, binder, framework

(* A session's client never changes, and none is opened again. *)
SessionsKept ==
  /\ UNCHANGED <<mSession, made>>
  /\ \A s \in Ids : /\ sessions'[s].client = sessions[s].client
                    /\ ~sessions'[s].closed => /\ ~sessions[s].closed
                                               /\ sessions'[s].linked = sessions[s].linked

LEMMA SessionsKeep ==
  ASSUME OwnInv, Next, ~CreateSession
  PROVE  SessionsKept
<1> USE DEF service, binder, framework, vendor, SessionsKept
<1>0. sessions \in [Ids -> Session]
  BY DEF OwnInv, TypeOK
<1>1. CASE UNCHANGED <<mSession, sessions, made>>
  BY <1>1
<1>2. ASSUME NEW t, sessions' = Closed(t), UNCHANGED <<mSession, made>>
      PROVE  SessionsKept
  BY <1>0, <1>2 DEF Closed, Session
<1>3. ASSUME NEW t, NEW b \in BOOLEAN, UNCHANGED <<mSession, made>>,
             sessions' = [sessions EXCEPT ![t].ready = b]
      PROVE  SessionsKept
  BY <1>0, <1>3 DEF Session
<1>4. CASE Close \/ OnClientDeath
  BY <1>1, <1>2, <1>4 DEF Close, OnClientDeath
<1>5. CASE ClearsReady \/ HandleEvent
  BY <1>1, <1>3, <1>5 DEF ClearsReady, HandleEvent
<1>6. CASE Framework
  <2>1. UNCHANGED service
    BY <1>6, FrameworkAdds DEF FrameworkAdded
  <2> QED
    BY <1>1, <2>1
<1> QED
  BY <1>1, <1>4, <1>5, <1>6
  DEF Next, BinderThread, VendorThread, CreateSessionFails, EnumerateEnrollments, Enroll,
      RequestsCalibration, EnrollReturns, NotifyTests, NotifyEnumerating

LEMMA CreateTakes ==
  ASSUME OwnInv, CreateSession
  PROVE  /\ queue # <<>> /\ Head(queue) \in Work /\ Head(queue).op = "create"
         /\ made + 1 \in Ids /\ made' = made + 1 /\ mSession' = made + 1 /\ ~Open(mSession)
         /\ sessions'[made + 1] = NewSession(Head(queue).client)
         /\ \A s \in Ids \ {made + 1} : sessions'[s] = sessions[s]
         /\ Alive(Head(queue).client) => queue' = Tail(queue)
         /\ ~Alive(Head(queue).client) =>
              queue' = Append(Tail(queue), Item("died", Head(queue).client, made + 1))
         /\ UNCHANGED <<client, clientUp, enrolling, aborted, events>>
<1> USE DEF CreateSession, Takes
<1>1. queue # <<>> /\ queue \in Seq(Work)
  BY DEF OwnInv, TypeOK
<1>2. Head(queue) \in Work /\ Tail(queue) \in Seq(Work) /\ Head(queue).op = "create"
  BY <1>1, HeadAndTail
<1>3. made + 1 \in Ids /\ made + 1 \in 0 .. MaxSessions
  BY DEF OwnInv, TypeOK, Ids
<1>4. Item("died", Head(queue).client, made + 1) \in Work
  BY <1>2, <1>3, NewWork DEF OwnInv, Work, Ops
<1>5. \A w \in Work : Tail(queue) \o <<w>> = Append(Tail(queue), w)
  BY <1>2, AppendIsConcat
<1>6. Tail(queue) \o <<>> = Tail(queue)
  BY <1>2, ConcatEmptySeq
<1>7. /\ sessions'[made + 1] = NewSession(Head(queue).client)
      /\ \A s \in Ids \ {made + 1} : sessions'[s] = sessions[s]
  BY <1>3 DEF OwnInv, TypeOK
<1>8. /\ made' = made + 1 /\ mSession' = made + 1 /\ ~Open(mSession)
      /\ UNCHANGED <<client, clientUp, enrolling, aborted, events>>
  BY DEF vendor
<1>9. queue' = Tail(queue) \o Notice(Head(queue).client, made + 1)
  OBVIOUS
<1> QED
  BY <1>1, <1>2, <1>3, <1>4, <1>5, <1>6, <1>7, <1>8, <1>9 DEF Notice

LEMMA QueueStep ==
  ASSUME OwnInv, QueueOK, Next
  PROVE  QueueOK'
<1> DEFINE FitsIn(w, n) == w.client <= n /\ (w.op \in {"close", "enroll"} => w.session \in Ids)
<1>0. queue \in Seq(Work) /\ made \in 0 .. MaxSessions /\ client \in Nat
  BY DEF OwnInv, TypeOK
<1>1. \A i \in 1 .. Len(queue) : FitsIn(queue[i], client)
  BY DEF QueueOK
<1>2. client' \in Nat /\ client <= client'
  <2>1. CASE Framework
    BY <1>0, <2>1 DEF Framework, AsksSession, AsksClose, AsksEnumeration, AsksEnroll, Asks,
                      ClientDies, ClientStarts
  <2> QED
    BY <1>0, <2>1, BinderTakes, CreateTakes, VendorLeaves DEF Next
<1>3. \A w \in Work : FitsIn(w, client) => FitsIn(w, client')
  BY <1>0, <1>2 DEF Work
<1>4. \A i \in 1 .. Len(queue) : queue[i] \in Work
  BY <1>0
<1>5. queue # <<>> => \A i \in 1 .. Len(Tail(queue)) : FitsIn(Tail(queue)[i], client)
  <2> HIDE DEF FitsIn
  <2> QED
    BY <1>0, <1>1, TailItems
<1>6. ASSUME NEW q \in Seq(Work), NEW w \in Work, queue' = Append(q, w), FitsIn(w, client'),
             \A i \in 1 .. Len(q) : FitsIn(q[i], client)
      PROVE  \A i \in 1 .. Len(queue') : FitsIn(queue'[i], client')
  <2> HIDE DEF FitsIn
  <2>1. \A i \in 1 .. Len(q) : q[i] \in Work
    OBVIOUS
  <2>2. \A i \in 1 .. Len(queue') : i \in 1 .. Len(q) \/ i = Len(q) + 1
    BY <1>6, AppendItems
  <2> QED
    BY <1>3, <1>6, <2>1, <2>2, AppendItems
<1>7. \A i \in 1 .. Len(queue') : FitsIn(queue'[i], client')
  <2>0. queue # <<>> => Head(queue) \in Work /\ FitsIn(Head(queue), client)
                        /\ Tail(queue) \in Seq(Work)
    <3> HIDE DEF FitsIn
    <3> QED
      BY <1>0, <1>1, <1>4, TailItems
  <2>1. CASE UNCHANGED queue
    <3> HIDE DEF FitsIn
    <3> QED
      BY <1>1, <1>3, <1>4, <2>1
  <2>2. CASE queue # <<>> /\ queue' = Tail(queue)
    <3>1. \A i \in 1 .. Len(Tail(queue)) : Tail(queue)[i] \in Work
      BY <2>0, <2>2
    <3> HIDE DEF FitsIn
    <3> QED
      BY <1>3, <1>5, <2>2, <3>1
  <2>3. ASSUME NEW w \in Work, w.client = client, queue' = Append(queue, w),
               w.op \in {"close", "enroll"} => w.session \in Ids
        PROVE  \A i \in 1 .. Len(queue') : FitsIn(queue'[i], client')
    <3>1. FitsIn(w, client')
      BY <1>2, <2>3
    <3> HIDE DEF FitsIn
    <3> QED
      BY <1>0, <1>1, <1>6, <2>3, <3>1
  <2>4. CASE CreateSession /\ ~Alive(Head(queue).client)
    <3> DEFINE w == Item("died", Head(queue).client, made + 1)
    <3>1. queue # <<>> /\ queue' = Append(Tail(queue), w) /\ made + 1 \in 0 .. MaxSessions
      BY <2>4, CreateTakes DEF Ids
    <3>2. w \in Work /\ w.client = Head(queue).client /\ w.op = "died"
      BY <2>0, <3>1, NewWork DEF Item, Work, Ops, OwnInv
    <3>3. FitsIn(w, client')
      BY <1>3, <2>0, <3>1, <3>2
    <3> HIDE DEF FitsIn, w
    <3> QED
      BY <1>5, <1>6, <2>0, <3>1, <3>2, <3>3
  <2> HIDE DEF FitsIn
  <2> QED
    BY <2>1, <2>2, <2>3, <2>4, FrameworkAdds, BinderTakes, CreateTakes, VendorLeaves
       DEF Next, FrameworkAdded
<1>8. \A s \in Ids : s <= made' => /\ sessions'[s].client <= client'
                                   /\ ~sessions'[s].closed => sessions'[s].linked
  <2>0. \A s \in Ids : s \in Nat /\ sessions[s].client \in Nat
    BY DEF OwnInv, TypeOK, Ids, Session
  <2>1. CASE CreateSession
    <3>1. \A s \in Ids \ {made + 1} : s <= made + 1 => s <= made
      BY <1>0, <2>0
    <3>2. Head(queue).client <= client
      BY <1>0, <1>1, <2>1, TailItems, CreateTakes
    <3>3. /\ sessions'[made + 1].client <= client' /\ sessions'[made + 1].linked
      BY <2>1, <3>2, CreateTakes DEF NewSession
    <3>4. \A s \in Ids \ {made + 1} : s <= made + 1 =>
            /\ sessions'[s].client <= client'
            /\ ~sessions'[s].closed => sessions'[s].linked
      BY <2>1, <3>1, CreateTakes DEF QueueOK
    <3> QED
      BY <2>1, <3>3, <3>4, CreateTakes
  <2>2. CASE ~CreateSession
    BY <1>0, <1>2, <2>0, <2>2, SessionsKeep DEF QueueOK, SessionsKept
  <2> QED
    BY <2>1, <2>2
<1> QED
  BY <1>7, <1>8 DEF QueueOK

LEMMA NoneAnswered == OneAnswer /\ events \in Seq(Report) /\ events # <<>>
                        /\ Head(events) = CaptureReady /\ events' = Tail(events) => Unanswered'
<1> SUFFICES ASSUME OneAnswer, events \in Seq(Report), events # <<>>,
                    Head(events) = CaptureReady, events' = Tail(events),
                    NEW i \in 1 .. Len(events'), events'[i] = CaptureReady
             PROVE  FALSE
  BY DEF Unanswered
<1>1. /\ Head(events) = events[1] /\ 1 \in 1 .. Len(events)
      /\ i + 1 \in 1 .. Len(events) /\ Tail(events)[i] = events[i + 1] /\ i + 1 # 1
  BY TailItems
<1> QED
  BY <1>1 DEF OneAnswer

LEMMA AwaitStep ==
  ASSUME OwnInv, QueueOK, AwaitOK, Next
  PROVE  AwaitOK'
<1> USE DEF AwaitOK, CaptureReadyIsFresh
<1>0. /\ queue \in Seq(Work) /\ events \in Seq(Report) /\ (enrolling # "no" => queue # <<>>)
      /\ sessions \in [Ids -> Session]
      /\ enrolling \in {"no", "reset", "request", "waiting"}
  BY DEF OwnInv, TypeOK, CallOK
<1>1. Unanswered' => OneAnswer' /\ CaptureReadyIsFresh'
  BY DEF Unanswered, OneAnswer
<1>2. CASE Framework
  <2>1. UNCHANGED <<sessions, enrolling, events>>
    BY <1>2, FrameworkAdds DEF FrameworkAdded, service, vendor
  <2>2. enrolling # "no" => Head(queue') = Head(queue)
    <3>1. \A w \in Work : queue # <<>> => Head(Append(queue, w)) = Head(queue)
      BY <1>0
    <3> QED
      BY <1>0, <1>2, <3>1, FrameworkAdds DEF FrameworkAdded
  <2> QED
    BY <2>1, <2>2 DEF OneAnswer, Unanswered
<1>3. CASE CreateSessionFails \/ CreateSession \/ Close \/ OnClientDeath
  <2>1. enrolling = "no" /\ UNCHANGED <<enrolling, events>>
    BY <1>3 DEF CreateSessionFails, CreateSession, Close, OnClientDeath, Takes, binder, vendor
  <2> QED
    BY <2>1 DEF OneAnswer, Unanswered
<1>4. CASE EnumerateEnrollments
  <2>1. enrolling = "no" /\ UNCHANGED enrolling /\ events' = events \o Enumeration
    BY <1>4 DEF EnumerateEnrollments, Takes
  <2>2. Enumeration \in Seq(Report) /\ Len(Enumeration) = Len(Templates)
        /\ Len(Templates) \in Nat
    BY EnumerationType DEF Enumeration
  <2>3. \A i \in 1 .. Len(Templates) : Enumeration[i].fid # 0 /\ CaptureReady.fid = 0
    BY DEF Enumeration, CaptureReady
  <2>4. Unanswered'
    <3>1. /\ Len(events') = Len(events) + Len(Templates) /\ Len(events) \in Nat
          /\ \A i \in 1 .. Len(events') :
               \/ i \in 1 .. Len(events) /\ events'[i] = events[i]
               \/ i - Len(events) \in 1 .. Len(Templates)
                    /\ events'[i] = Enumeration[i - Len(events)]
      <4>1. events \o Enumeration = events' /\ events \in Seq(Report)
        BY <1>0, <2>1
      <4>2. /\ Len(events) \in Nat /\ Len(events \o Enumeration) = Len(events) + Len(Enumeration)
            /\ \A i \in 1 .. Len(events \o Enumeration) :
                 \/ i \in 1 .. Len(events) /\ (events \o Enumeration)[i] = events[i]
                 \/ i - Len(events) \in 1 .. Len(Enumeration)
                      /\ (events \o Enumeration)[i] = Enumeration[i - Len(events)]
        BY <2>2, <4>1, ConcatItems, ZenonT(40)
      <4> QED
        BY <2>2, <4>1, <4>2
    <3> QED
      BY <2>1, <2>3, <3>1 DEF Unanswered
  <2> QED
    BY <1>1, <2>1, <2>4
<1>5. CASE Enroll
  BY <1>5 DEF Enroll, Takes, vendor, OneAnswer, Unanswered
<1>6. CASE ClearsReady
  <2>1. Head(queue).session \in Ids
    <3>1. queue # <<>> /\ Head(queue).op = "enroll"
      BY <1>0, <1>6 DEF ClearsReady
    <3>2. Head(queue) = queue[1] /\ 1 \in 1 .. Len(queue)
      BY <1>0, <3>1, TailItems
    <3> QED
      BY <3>1, <3>2 DEF QueueOK
  <2> QED
    BY <1>0, <1>6, <2>1 DEF ClearsReady, vendor, OneAnswer, Unanswered, Session
<1>7. CASE RequestsCalibration
  <2>1. /\ Unanswered /\ UNCHANGED <<sessions, queue>> /\ enrolling' = "waiting"
        /\ Head(queue).op = "enroll" /\ ~sessions[Head(queue).session].ready
        /\ events' = Append(events, CaptureReady)
    BY <1>7 DEF RequestsCalibration, service
  <2>2. CaptureReady \in Report
    BY DEF Report
  <2>3. \A i \in 1 .. Len(events') : events'[i] = CaptureReady => i = Len(events) + 1
    BY <1>0, <2>1, <2>2, AppendItems DEF Unanswered
  <2> QED
    BY <2>1, <2>3 DEF OneAnswer
<1>8. CASE EnrollReturns
  BY <1>8 DEF EnrollReturns, vendor, OneAnswer, Unanswered
<1>9. CASE HandleEvent
  <2>1. Unanswered' /\ ~Unanswered
    <3>1. events # <<>> /\ Head(events) = CaptureReady /\ events' = Tail(events)
      BY <1>9 DEF HandleEvent
    <3>2. events[1] = CaptureReady /\ 1 \in 1 .. Len(events)
      BY <1>0, <3>1, TailItems
    <3> QED
      BY <1>0, <3>1, <3>2, NoneAnswered DEF Unanswered
  <2> QED
    BY <1>1, <1>9, <2>1 DEF HandleEvent, binder
<1>10. CASE NotifyTests
  <2>1. UNCHANGED <<sessions, queue, enrolling>> /\ events' = Tail(events) /\ events # <<>>
    BY <1>10 DEF NotifyTests, service, binder
  <2>2. \A i \in 1 .. Len(events') : /\ events'[i] = events[i + 1] /\ i \in Nat
                                     /\ i + 1 \in 1 .. Len(events)
    <3>1. Len(events) \in Nat /\ Len(events') = Len(events) - 1
      BY <1>0, <2>1, TailItems
    <3>2. \A i \in 1 .. Len(events) - 1 : i + 1 \in 1 .. Len(events) /\ events'[i] = events[i + 1]
      BY <1>0, <2>1, TailItems
    <3> QED
      BY <3>1, <3>2
  <2>3. OneAnswer' /\ (Unanswered => Unanswered')
    <3>1. ASSUME NEW i \in 1 .. Len(events'), NEW j \in 1 .. Len(events'),
                 events'[i] = CaptureReady, events'[j] = CaptureReady
          PROVE  i = j
      <4>1. i + 1 = j + 1
        BY <2>2, <3>1 DEF AwaitOK, OneAnswer
      <4> QED
        BY <2>2, <4>1
    <3>2. Unanswered => Unanswered'
      BY <2>2 DEF Unanswered
    <3> QED
      BY <3>1, <3>2 DEF OneAnswer
  <2> QED
    BY <2>1, <2>3 DEF Unanswered
<1>11. CASE NotifyEnumerating
  BY <1>11 DEF NotifyEnumerating, service, binder, OneAnswer, Unanswered
<1> QED
  BY <1>2, <1>3, <1>4, <1>5, <1>6, <1>7, <1>8, <1>9, <1>10, <1>11
     DEF Next, BinderThread, VendorThread

(* When the head of the queue is taken, what ends the open session moves up. *)
LEMMA TakenKeeps ==
  ASSUME OwnInv, NoticeOK, CreateOK, queue # <<>>, queue' = Tail(queue),
         UNCHANGED <<client, clientUp>>, SessionsKept, Open(mSession)' => ~EndsAt(1)
  PROVE  NoticeOK' /\ CreateOK'
<1> SUFFICES ASSUME Open(mSession)' PROVE NoticeOK' /\ CreateOK'
  BY DEF NoticeOK, CreateOK
<1>0. /\ Len(queue) \in Nat \ {0} /\ Len(queue') = Len(queue) - 1
      /\ \A i \in 1 .. Len(queue) - 1 : i + 1 \in 1 .. Len(queue) /\ queue'[i] = queue[i + 1]
  BY TailItems DEF OwnInv, TypeOK
<1>1. mSession' = mSession /\ mSession \in Ids
  BY DEF OwnInv, TypeOK, SessionsKept, Open, NoSession, Ids
<1>2. /\ Open(mSession) /\ sessions'[mSession'].client = sessions[mSession].client
      /\ ~EndsAt(1)
  BY <1>1 DEF Open, SessionsKept
<1>3. ASSUME NEW j \in 1 .. Len(queue), EndsAt(j)
      PROVE  j - 1 \in 1 .. Len(queue') /\ EndsAt(j - 1)'
  <2>1. j # 1
    BY <1>2, <1>3
  <2>2. j - 1 \in 1 .. Len(queue) - 1 /\ (j - 1) + 1 = j
    BY <1>0, <2>1
  <2>3. queue'[j - 1] = queue[j]
    BY <1>0, <2>2
  <2> QED
    BY <1>0, <1>1, <1>3, <2>2, <2>3 DEF EndsAt
<1>4. NoticeOK'
  BY <1>2, <1>3 DEF NoticeOK, Alive
<1>5. CreateOK'
  <2> SUFFICES ASSUME NEW i \in 1 .. Len(queue'), queue'[i].op = "create"
               PROVE  \E j \in 1 .. Len(queue') : j < i /\ EndsAt(j)'
    BY DEF CreateOK
  <2>1. i + 1 \in 1 .. Len(queue) /\ queue[i + 1].op = "create" /\ i \in Nat
    BY <1>0
  <2>2. PICK j \in 1 .. Len(queue) : j < i + 1 /\ EndsAt(j)
    BY <1>2, <2>1 DEF CreateOK
  <2>3. j - 1 < i
    BY <2>1, <2>2
  <2> QED
    BY <1>3, <2>2, <2>3
<1> QED
  BY <1>4, <1>5

(* A client that gets its answer, or loses nothing, waits for one call.    *)
LEMMA OneCallTaken ==
  ASSUME OwnInv, OneCallOK, queue # <<>>, queue' = Tail(queue), UNCHANGED <<client, clientUp>>,
         \/ UNCHANGED <<doing, mine>>
         \/ Head(queue).op \in Waits /\ Alive(Head(queue).client)
  PROVE  OneCallOK'
<1>0. /\ Len(queue) \in Nat \ {0} /\ Len(queue') = Len(queue) - 1 /\ Head(queue) = queue[1]
      /\ \A i \in 1 .. Len(queue) - 1 : i + 1 \in 1 .. Len(queue) /\ queue'[i] = queue[i + 1]
  BY TailItems DEF OwnInv, TypeOK
<1>1. CASE UNCHANGED <<doing, mine>>
  <2>1. ASSUME NEW i \in 1 .. Len(queue'), queue'[i].op \in Waits,
               clientUp' /\ client' = queue'[i].client
        PROVE  /\ i = Len(queue') /\ doing' = queue'[i].op
               /\ queue'[i].op = "close" => queue'[i].session = mine'
    <3>1. i \in Nat /\ i + 1 \in 1 .. Len(queue) /\ queue'[i] = queue[i + 1]
      BY <1>0
    <3>2. Alive(queue[i + 1].client) /\ queue[i + 1].op \in Waits
      BY <2>1, <3>1 DEF Alive
    <3>3. /\ i + 1 = Len(queue) /\ doing = queue[i + 1].op
          /\ queue[i + 1].op = "close" => queue[i + 1].session = mine
      BY <3>1, <3>2 DEF OneCallOK
    <3>4. i = Len(queue')
      <4>1. Len(queue) \in Nat /\ Len(queue') = Len(queue) - 1
        BY <1>0
      <4> QED
        BY <3>1, <3>3, <4>1
    <3> QED
      BY <1>1, <3>1, <3>3, <3>4
  <2> QED
    BY <2>1 DEF OneCallOK, Alive
<1>2. CASE Head(queue).op \in Waits /\ Alive(Head(queue).client)
  <2>1. 1 \in 1 .. Len(queue) /\ queue[1].op \in Waits /\ Alive(queue[1].client)
    BY <1>0, <1>2
  <2>2. 1 = Len(queue)
    BY <2>1 DEF OneCallOK
  <2>3. Len(queue') \in Int /\ Len(queue') < 1
    <3>1. Len(queue) \in Nat /\ Len(queue') = Len(queue) - 1
      BY <1>0
    <3> QED
      BY <2>2, <3>1
  <2> QED
    BY <2>3 DEF OneCallOK
<1> QED
  BY <1>1, <1>2

LEMMA AddedKeeps ==
  ASSUME OwnInv, CreateOK, NEW w \in Work, queue' = Append(queue, w),
         UNCHANGED <<mSession, sessions, client, clientUp>>,
         Open(mSession) /\ w.op = "create" => \E j \in 1 .. Len(queue) : EndsAt(j)
  PROVE  /\ CreateOK'
         /\ \A j \in 1 .. Len(queue) : EndsAt(j) => j \in 1 .. Len(queue') /\ EndsAt(j)'
<1>0. /\ Len(queue) \in Nat /\ Len(queue') = Len(queue) + 1 /\ queue'[Len(queue) + 1] = w
      /\ \A i \in 1 .. Len(queue) : queue'[i] = queue[i]
  BY AppendItems DEF OwnInv, TypeOK
<1>1. \A j \in 1 .. Len(queue) : EndsAt(j) => j \in 1 .. Len(queue') /\ EndsAt(j)'
  BY <1>0 DEF EndsAt
<1>2. CreateOK'
  <2> SUFFICES ASSUME Open(mSession), NEW i \in 1 .. Len(queue'), queue'[i].op = "create"
               PROVE  \E j \in 1 .. Len(queue') : j < i /\ EndsAt(j)'
    BY DEF CreateOK, Open
  <2>1. CASE i \in 1 .. Len(queue)
    <3>1. PICK j \in 1 .. Len(queue) : j < i /\ EndsAt(j)
      BY <1>0, <2>1 DEF CreateOK
    <3> QED
      BY <1>1, <3>1
  <2>2. CASE i = Len(queue) + 1
    <3>1. PICK j \in 1 .. Len(queue) : EndsAt(j)
      BY <1>0, <2>2
    <3>2. j < i
      BY <1>0, <2>2
    <3> QED
      BY <1>1, <3>1, <3>2
  <2> QED
    BY <1>0, <2>1, <2>2
<1> QED
  BY <1>1, <1>2

(* A living client that does not wait for a call has none in the queue, so *)
(* it is the last work when it waits again.                                *)
LEMMA AsksInOrder ==
  ASSUME OwnInv, OrderParts, ~orphaned, NEW op \in {"create", "close", "enumerate", "enroll"},
         Asks(op), doing \in {"nothing", "enumerate"},
         op = "create" => mine = NoSession
  PROVE  OrderParts'
<1> DEFINE w == Item(op, client, mine)
<1>0. /\ UNCHANGED <<mSession, sessions, client, clientUp, mine>> /\ ~aborted'
      /\ clientUp /\ queue' = Append(queue, w) /\ doing' = op
  BY DEF Asks, service, OrderParts
<1>1. w \in Work /\ w.op = op /\ w.client = client /\ w.session = mine
  <2>1. client \in 1 .. MaxClients /\ mine \in 0 .. MaxSessions /\ op \in Ops
    BY DEF OwnInv, TypeOK, Ops
  <2> QED
    BY <2>1, NewWork DEF OwnInv, Item
<1> HIDE DEF w
<1>2. /\ Len(queue) \in Nat /\ Len(queue') = Len(queue) + 1 /\ queue'[Len(queue) + 1] = w
      /\ \A i \in 1 .. Len(queue) : queue'[i] = queue[i]
  BY <1>0, <1>1, AppendItems DEF OwnInv, TypeOK
<1>3. \A i \in 1 .. Len(queue) : ~(queue[i].op \in Waits /\ Alive(queue[i].client))
  BY DEF OrderParts, OneCallOK, Waits
<1>4. OneCallOK'
  <2>1. \A c : Alive(c)' <=> Alive(c)
    BY <1>0 DEF Alive
  <2>2. ASSUME NEW i \in 1 .. Len(queue'), queue'[i].op \in Waits, Alive(queue'[i].client)
        PROVE  /\ i = Len(queue') /\ doing' = queue'[i].op
               /\ queue'[i].op = "close" => queue'[i].session = mine'
    <3>1. i = Len(queue) + 1
      BY <1>2, <1>3, <2>2
    <3> QED
      BY <1>0, <1>1, <1>2, <3>1
  <2> QED
    BY <1>0, <2>2 DEF OneCallOK, Alive
<1>5. MineOK'
  BY <1>0 DEF OrderParts, MineOK, Open
<1>6. Open(mSession) /\ op = "create" => \E j \in 1 .. Len(queue) : EndsAt(j)
  <2>1. Open(mSession) /\ op = "create" => ~Alive(sessions[mSession].client)
    BY <1>0 DEF OrderParts, MineOK, Open, Alive
  <2> QED
    BY <2>1 DEF OrderParts, NoticeOK
<1>7. /\ CreateOK'
      /\ \A j \in 1 .. Len(queue) : EndsAt(j) => j \in 1 .. Len(queue') /\ EndsAt(j)'
  BY <1>0, <1>1, <1>6, AddedKeeps DEF OrderParts
<1>8. NoticeOK'
  <2>1. ASSUME Open(mSession), ~Alive(sessions[mSession].client)
        PROVE  \E j \in 1 .. Len(queue') : EndsAt(j)'
    BY <1>7, <2>1 DEF OrderParts, NoticeOK
  <2> QED
    BY <1>0, <2>1 DEF NoticeOK, Open, Alive
<1> QED
  BY <1>0, <1>4, <1>5, <1>7, <1>8 DEF OrderParts

LEMMA DiesInOrder ==
  ASSUME OwnInv, QueueOK, OrderParts, ClientDies
  PROVE  OrderParts'
<1>0. /\ UNCHANGED <<mSession, sessions, client>> /\ ~aborted' /\ ~clientUp'
  BY DEF ClientDies, service, OrderParts
<1>1. OneCallOK' /\ MineOK'
  BY <1>0 DEF OneCallOK, MineOK, Alive
<1>2. clientUp /\ queue \in Seq(Work)
  BY DEF ClientDies, OwnInv, TypeOK
<1>3. CASE UNCHANGED queue /\ Linked(client) = {}
  <2>1. CreateOK'
    BY <1>0, <1>3 DEF OrderParts, CreateOK, EndsAt, Open
  <2>2. Open(mSession) => ~Alive(sessions[mSession].client)
    <3>1. ASSUME Open(mSession)
          PROVE  mSession \in Ids /\ sessions[mSession].linked
      BY <3>1 DEF OwnInv, TypeOK, Open, NoSession, Ids, QueueOK
    <3> QED
      BY <1>3, <3>1 DEF Linked, Alive
  <2>3. NoticeOK'
    BY <1>0, <1>3, <2>2 DEF OrderParts, NoticeOK, EndsAt, Open
  <2> QED
    BY <1>0, <1>1, <2>1, <2>3 DEF OrderParts
<1>4. ASSUME NEW s \in Linked(client), queue' = Append(queue, Item("died", client, s))
      PROVE  OrderParts'
  <2> DEFINE w == Item("died", client, s)
  <2>1. w \in Work /\ w.op = "died" /\ w.session = s
    <3>1. s \in 0 .. MaxSessions /\ client \in 1 .. MaxClients /\ "died" \in Ops
      BY DEF Linked, Ids, Ops, OwnInv, TypeOK
    <3> QED
      BY <3>1, NewWork DEF OwnInv, Item
  <2>2. s = mSession
    BY DEF Linked, OwnInv, LinkOK
  <2> HIDE DEF w
  <2>3. /\ Len(queue) \in Nat /\ Len(queue') = Len(queue) + 1 /\ queue'[Len(queue) + 1] = w
    BY <1>2, <1>4, <2>1, AppendItems DEF w
  <2>4. \E j \in 1 .. Len(queue') : EndsAt(j)'
    BY <1>0, <2>1, <2>2, <2>3 DEF EndsAt
  <2>5. NoticeOK'
    BY <2>4 DEF NoticeOK
  <2>6. CreateOK'
    <3>1. UNCHANGED <<client, mSession, sessions>>
      BY <1>0
    <3>2. ASSUME NEW i \in 1 .. Len(queue), Open(mSession), queue[i].op = "create"
          PROVE  \E j \in 1 .. Len(queue) : j < i /\ EndsAt(j)
      BY <3>2 DEF OrderParts, CreateOK
    <3>3. \A i \in 1 .. Len(queue) : queue'[i] = queue[i]
      BY <1>2, <1>4, <2>1, AppendItems DEF w
    <3>4. \A i \in 1 .. Len(queue') : queue'[i].op = "create" => i \in 1 .. Len(queue)
      BY <2>1, <2>3
    <3>5. \A j \in 1 .. Len(queue) : EndsAt(j) => j \in 1 .. Len(queue') /\ EndsAt(j)'
      BY <1>0, <2>3, <3>3 DEF EndsAt
    <3>6. ASSUME NEW i \in 1 .. Len(queue'), Open(mSession), queue'[i].op = "create"
          PROVE  \E j \in 1 .. Len(queue') : j < i /\ EndsAt(j)'
      BY <3>2, <3>3, <3>4, <3>5, <3>6
    <3> QED
      BY <3>1, <3>6 DEF CreateOK, Open
  <2> QED
    BY <1>0, <1>1, <2>5, <2>6 DEF OrderParts
<1> QED
  BY <1>3, <1>4 DEF ClientDies

(* All that is in the queue, and the open session, are of earlier clients. *)
LEMMA StartsInOrder ==
  ASSUME OwnInv, QueueOK, OrderParts, ClientStarts
  PROVE  OrderParts'
<1>0. /\ UNCHANGED <<mSession, sessions, queue, aborted>> /\ client' = client + 1
      /\ ~clientUp /\ client \in Nat
  BY DEF ClientStarts, service, binder, OwnInv, TypeOK
<1>1. \A i \in 1 .. Len(queue) : queue[i].client # client'
  <2>1. \A i \in 1 .. Len(queue) : queue[i] \in Work
    BY DEF OwnInv, TypeOK
  <2>2. \A i \in 1 .. Len(queue) : queue[i].client \in Nat
    BY <2>1 DEF Work
  <2> QED
    BY <1>0, <2>2 DEF QueueOK
<1>2. Open(mSession) => sessions[mSession].client # client'
  <2>1. Open(mSession) => mSession \in Ids /\ mSession <= made
    BY DEF OwnInv, TypeOK, Open, NoSession, Ids
  <2>2. \A s \in Ids : sessions[s].client \in Nat
    BY DEF OwnInv, TypeOK, Session
  <2> QED
    BY <1>0, <2>1, <2>2 DEF QueueOK
<1>3. OneCallOK' /\ MineOK'
  BY <1>0, <1>1, <1>2 DEF OneCallOK, MineOK, Open, Alive
<1>4. CreateOK'
  BY <1>0 DEF OrderParts, CreateOK, EndsAt, Open
<1>5. NoticeOK'
  BY <1>0 DEF OrderParts, NoticeOK, EndsAt, Open, Alive
<1> QED
  BY <1>0, <1>3, <1>4, <1>5 DEF OrderParts

(* The call of a living client is the only one left, and makes its session. *)
LEMMA CreatesInOrder ==
  ASSUME OwnInv, OrderParts, CreateSession, ~orphaned'
  PROVE  OrderParts'
<1> DEFINE s == made + 1
<1>0. Alive(Head(queue).client)
  BY DEF CreateSession
<1>1. /\ queue # <<>> /\ Head(queue).op = "create" /\ queue' = Tail(queue) /\ s \in Ids
      /\ sessions'[s] = NewSession(Head(queue).client) /\ mSession' = s
      /\ UNCHANGED <<client, clientUp, aborted>>
  BY <1>0, CreateTakes
<1>2. Len(queue') \in Int /\ Len(queue') < 1
  <2>0. queue \in Seq(Work)
    BY DEF OwnInv, TypeOK
  <2>1. 1 \in 1 .. Len(queue) /\ queue[1] = Head(queue)
    BY <1>1, <2>0, TailItems
  <2>2. 1 = Len(queue)
    BY <1>0, <1>1, <2>1 DEF OrderParts, OneCallOK, Waits
  <2>3. Len(queue') = Len(queue) - 1
    BY <1>1, <2>0, TailItems
  <2> HIDE DEF s
  <2> QED
    BY <2>2, <2>3
<1>3. OneCallOK' /\ CreateOK'
  BY <1>2 DEF OneCallOK, CreateOK
<1>4. mine' = s
  BY <1>0 DEF CreateSession
<1>5. MineOK' /\ NoticeOK'
  BY <1>0, <1>1, <1>4 DEF MineOK, NoticeOK, NewSession, Alive
<1> QED
  BY <1>1, <1>3, <1>5 DEF OrderParts

LEMMA ClosesInOrder ==
  ASSUME OwnInv, QueueOK, OrderParts, Close
  PROVE  OrderParts'
<1> DEFINE c == Head(queue).client
           s == Head(queue).session
<1>0. /\ queue # <<>> /\ Head(queue).op = "close" /\ queue' = Tail(queue)
      /\ sessions' = Closed(s) /\ UNCHANGED <<mSession, aborted, client, clientUp>>
      /\ mine' = (IF Alive(c) THEN NoSession ELSE mine)
      /\ doing' = (IF Alive(c) THEN "nothing" ELSE doing)
  BY DEF Close, Takes
<1>1. ~CreateSession
  BY <1>0 DEF CreateSession, Takes
<1>2. SessionsKept
  BY <1>1, SessionsKeep DEF Next, BinderThread
<1>3. 1 \in 1 .. Len(queue) /\ queue[1] = Head(queue)
  BY <1>0, TailItems DEF OwnInv, TypeOK
<1>4. mSession' = s => ~Open(mSession)'
  BY <1>0 DEF Closed, Open, OwnInv, TypeOK, NoSession, Ids, Session
<1>5. NoticeOK' /\ CreateOK'
  <2>1. Open(mSession)' => ~EndsAt(1)
    BY <1>0, <1>3, <1>4 DEF EndsAt
  <2> QED
    BY <1>0, <1>2, <2>1, TakenKeeps DEF OrderParts
<1>6. OneCallOK'
  <2>1. Alive(c) \/ UNCHANGED <<doing, mine>>
    BY <1>0
  <2> QED
    BY <1>0, <2>1, OneCallTaken DEF OrderParts, Waits
<1>7. MineOK'
  <2>1. ASSUME clientUp, Open(mSession)', sessions'[mSession].client = client
        PROVE  mine' = mSession
    <3>1. mSession \in Ids /\ Open(mSession) /\ sessions[mSession].client = client
      BY <1>0, <1>2, <2>1 DEF SessionsKept, Open, OwnInv, TypeOK, NoSession, Ids
    <3>2. mine = mSession
      BY <2>1, <3>1 DEF OrderParts, MineOK
    <3>3. Alive(c) => s = mine
      BY <1>0, <1>3 DEF OrderParts, OneCallOK, Waits
    <3>4. s # mSession
      BY <1>0, <1>4, <2>1
    <3> QED
      BY <1>0, <3>2, <3>3, <3>4
  <2> QED
    BY <1>0, <2>1 DEF MineOK, Open
<1> QED
  BY <1>0, <1>5, <1>6, <1>7 DEF OrderParts

(* A notice closes the session it is about, or that session is closed. *)
LEMMA NoticesInOrder ==
  ASSUME OwnInv, QueueOK, OrderParts, OnClientDeath
  PROVE  OrderParts'
<1> DEFINE s == Head(queue).session
<1>0. /\ queue # <<>> /\ Head(queue).op = "died" /\ queue' = Tail(queue)
      /\ sessions' = (IF sessions[s].linked /\ ~sessions[s].closed THEN Closed(s) ELSE sessions)
      /\ UNCHANGED <<mSession, aborted, client, clientUp, mine, doing>>
  BY DEF OnClientDeath, Takes, framework
<1>1. ~CreateSession
  BY <1>0 DEF CreateSession, Takes
<1>2. SessionsKept
  BY <1>1, SessionsKeep DEF Next, BinderThread
<1>3. 1 \in 1 .. Len(queue) /\ queue[1] = Head(queue)
  BY <1>0, TailItems DEF OwnInv, TypeOK
<1>4. mSession = s => ~Open(mSession)'
  <2>1. ASSUME mSession = s, Open(mSession)'
        PROVE  FALSE
    <3>1. s \in Ids /\ s <= made /\ ~sessions'[s].closed
      BY <1>0, <2>1 DEF Open, OwnInv, TypeOK, NoSession, Ids
    <3>2. ~sessions[s].closed
      BY <1>2, <3>1 DEF SessionsKept
    <3>3. sessions[s].linked
      BY <3>1, <3>2 DEF QueueOK
    <3>4. sessions'[s].closed
      BY <1>0, <3>1, <3>2, <3>3 DEF Closed, OwnInv, TypeOK, Session
    <3> QED
      BY <3>1, <3>4
  <2> QED
    BY <2>1
<1>5. NoticeOK' /\ CreateOK'
  <2>1. Open(mSession)' => ~EndsAt(1)
    BY <1>0, <1>3, <1>4 DEF EndsAt
  <2> QED
    BY <1>0, <1>2, <2>1, TakenKeeps DEF OrderParts
<1>6. OneCallOK'
  BY <1>0, OneCallTaken DEF OrderParts
<1>7. MineOK'
  <2>1. Open(mSession)' => mSession \in Ids
    BY <1>0 DEF Open, OwnInv, TypeOK, NoSession, Ids
  <2> QED
    BY <1>0, <1>2, <2>1 DEF MineOK, OrderParts, SessionsKept, Open
<1> QED
  BY <1>0, <1>5, <1>6, <1>7 DEF OrderParts

(* The other calls end no session, and answer the client that waits.      *)
LEMMA OthersInOrder ==
  ASSUME OwnInv, QueueOK, OrderParts, SessionsKept, UNCHANGED <<mine, aborted, client, clientUp>>,
         \/ UNCHANGED <<queue, doing>>
         \/ /\ queue # <<>> /\ queue' = Tail(queue)
            /\ Head(queue).op \in {"enumerate", "enroll"}
            /\ UNCHANGED doing \/ (Head(queue).op \in Waits /\ Alive(Head(queue).client))
         \/ UNCHANGED queue /\ doing = "enumerate"
  PROVE  OrderParts'
<1>0. mSession' = mSession /\ (Open(mSession)' => mSession \in Ids /\ Open(mSession))
  BY DEF OwnInv, TypeOK, Open, NoSession, Ids, SessionsKept
<1>1. MineOK'
  BY <1>0 DEF MineOK, OrderParts, SessionsKept, Open
<1>2. CASE UNCHANGED queue
  <2>1. NoticeOK' /\ CreateOK'
    BY <1>0, <1>2 DEF NoticeOK, CreateOK, OrderParts, SessionsKept, EndsAt, Alive
  <2>2. OneCallOK'
    BY <1>2 DEF OneCallOK, OrderParts, Waits, Alive
  <2> QED
    BY <1>1, <2>1, <2>2 DEF OrderParts
<1>3. CASE queue # <<>> /\ queue' = Tail(queue) /\ Head(queue).op \in {"enumerate", "enroll"}
  <2>1. queue[1] = Head(queue)
    BY <1>3, TailItems DEF OwnInv, TypeOK
  <2>2. ~EndsAt(1)
    BY <1>3, <2>1 DEF EndsAt
  <2>3. NoticeOK' /\ CreateOK'
    BY <1>3, <2>2, TakenKeeps DEF OrderParts
  <2>4. OneCallOK'
    BY <1>3, OneCallTaken DEF OrderParts
  <2> QED
    BY <1>1, <2>3, <2>4 DEF OrderParts
<1> QED
  BY <1>2, <1>3

LEMMA OrderStep ==
  ASSUME OwnInv, QueueOK, AwaitOK, OrderOK, Next
  PROVE  OrderOK'
<1> SUFFICES ASSUME ~orphaned' PROVE OrderParts'
  BY DEF OrderOK
<1>0. ~orphaned
  <2>1. CASE Framework
    BY <2>1, FrameworkAdds DEF FrameworkAdded
  <2>2. CASE BinderThread /\ ~CreateSession
    BY <2>2, BinderTakes
  <2>3. CASE CreateSession
    BY <2>3 DEF CreateSession, OwnInv, TypeOK
  <2>4. CASE VendorThread
    BY <2>4, VendorLeaves
  <2> QED
    BY <2>1, <2>2, <2>3, <2>4 DEF Next
<1>1. OrderParts
  BY <1>0 DEF OrderOK
<1>2. CASE Framework
  <2>1. CASE AsksSession
    BY <1>0, <1>1, <2>1, AsksInOrder DEF AsksSession
  <2>2. CASE AsksClose
    BY <1>0, <1>1, <2>2, AsksInOrder DEF AsksClose
  <2>3. CASE AsksEnumeration \/ AsksEnroll
    BY <1>0, <1>1, <2>3, AsksInOrder DEF AsksEnumeration, AsksEnroll
  <2> QED
    BY <1>1, <1>2, <2>1, <2>2, <2>3, DiesInOrder, StartsInOrder DEF Framework
<1>3. CASE CreateSessionFails
  <2>1. /\ queue # <<>> /\ queue \in Seq(Work) /\ Head(queue).op = "create" /\ Open(mSession)
    BY <1>3 DEF CreateSessionFails, Takes, OwnInv, TypeOK
  <2>2. 1 \in 1 .. Len(queue) /\ queue[1].op = "create"
    BY <2>1, TailItems
  <2>3. \E j \in 1 .. Len(queue) : j < 1
    BY <1>1, <2>1, <2>2 DEF OrderParts, CreateOK
  <2>4. Len(queue) \in Nat
    BY <2>1
  <2> QED
    BY <2>3, <2>4
<1>4. ASSUME ~CreateSession PROVE SessionsKept
  BY <1>4, SessionsKeep
<1>5. CASE EnumerateEnrollments
  <2>1. /\ queue # <<>> /\ queue' = Tail(queue) /\ Head(queue).op = "enumerate"
        /\ UNCHANGED <<mine, aborted, client, clientUp, doing>>
    BY <1>5 DEF EnumerateEnrollments, Takes, service, framework
  <2> QED
    BY <1>1, <1>4, <2>1, OthersInOrder DEF CreateSession, Takes
<1>6. CASE Enroll \/ ClearsReady \/ RequestsCalibration \/ EnrollReturns
  <2>1. ~CreateSession
    BY <1>6 DEF Enroll, ClearsReady, RequestsCalibration, EnrollReturns, CreateSession, Takes
  <2>2. UNCHANGED <<mine, aborted, client, clientUp>>
    BY <1>6 DEF Enroll, ClearsReady, RequestsCalibration, EnrollReturns, service, framework
  <2>3. \/ UNCHANGED <<queue, doing>>
        \/ /\ queue # <<>> /\ queue' = Tail(queue) /\ Head(queue).op = "enroll"
           /\ doing' = (IF Alive(Head(queue).client) THEN "nothing" ELSE doing)
    <3>1. CASE Enroll
      BY <3>1 DEF Enroll, Takes
    <3>2. CASE ClearsReady \/ RequestsCalibration
      BY <3>2 DEF ClearsReady, RequestsCalibration, framework
    <3>3. CASE EnrollReturns
      BY <3>3 DEF EnrollReturns, AwaitOK, OwnInv, CallOK
    <3> QED
      BY <1>6, <3>1, <3>2, <3>3
  <2> QED
    BY <1>1, <1>4, <2>1, <2>2, <2>3, OthersInOrder DEF Waits
<1>7. CASE VendorThread
  <2>1. SessionsKept
    <3>1. CASE CreateSession
      BY <1>7, <3>1, CreateTakes, VendorLeaves DEF OwnInv, TypeOK
    <3> QED
      BY <1>4, <3>1
  <2>2. UNCHANGED <<queue, mine, aborted, client, clientUp>>
    BY <1>7, VendorLeaves
  <2>3. UNCHANGED doing \/ doing = "enumerate"
    BY <1>7 DEF VendorThread, HandleEvent, NotifyTests, NotifyEnumerating, framework
  <2> QED
    BY <1>1, <2>1, <2>2, <2>3, OthersInOrder
<1> QED
  BY <1>0, <1>1, <1>2, <1>3, <1>5, <1>6, <1>7, CreatesInOrder, ClosesInOrder, NoticesInOrder
     DEF Next, BinderThread

LEMMA InitCalls == Init => QueueOK /\ AwaitOK /\ OrderOK
<1> SUFFICES ASSUME Init PROVE QueueOK /\ AwaitOK /\ OrderOK
  OBVIOUS
<1>1. queue = <<>> /\ events = <<>> /\ made = 0 /\ enrolling = "no" /\ mSession = NoSession
      /\ ~aborted
  BY DEF Init
<1>2. (\A i \in 1 .. Len(queue) : FALSE) /\ (\A i \in 1 .. Len(events) : FALSE)
  BY <1>1
<1>3. \A s \in Ids : ~(s <= made)
  BY <1>1 DEF Ids
<1>4. QueueOK /\ AwaitOK
  BY <1>1, <1>2, <1>3 DEF QueueOK, AwaitOK, OneAnswer, Unanswered, CaptureReadyIsFresh
<1>5. OrderOK
  BY <1>1, <1>2 DEF OrderOK, OrderParts, OneCallOK, MineOK, NoticeOK, CreateOK, Open
<1> QED
  BY <1>4, <1>5

(* The order of calls and notices, and of requests and answers, as one     *)
(* inductive invariant.                                                    *)
THEOREM CallInvariant == Spec => []CallInv
<1>1. Init => CallInv
  BY InitOwn, InitCalls DEF CallInv
<1>2. CallInv /\ [Next]_vars => CallInv'
  <2>1. CallInv /\ Next => CallInv'
    BY StepOwn, QueueStep, AwaitStep, OrderStep DEF CallInv
  <2>2. CallInv /\ UNCHANGED vars => CallInv'
    <3> SUFFICES ASSUME CallInv, UNCHANGED vars PROVE CallInv'
      OBVIOUS
    <3>1. OwnInv'
      BY StepOwn DEF CallInv
    <3>2. QueueOK' /\ AwaitOK' /\ OrderOK'
      BY DEF vars, service, binder, framework, vendor, CallInv, QueueOK, AwaitOK, OneAnswer,
             Unanswered, CaptureReadyIsFresh, OrderOK, OrderParts, OneCallOK, MineOK,
             NoticeOK, CreateOK, EndsAt, Open, Alive
    <3> QED
      BY <3>1, <3>2 DEF CallInv
  <2> QED
    BY <2>1, <2>2
<1> QED
  BY <1>1, <1>2, PTL DEF Spec

(* AbortNeedsOrphan: in every order of calls, closes and deaths in which   *)
(* no session was made for a client already dead, createSession's CHECK    *)
(* holds, for any number of framework starts and sessions.                 *)
THEOREM AbortNeedsOrphanHolds == Spec => []AbortNeedsOrphan
<1>1. CallInv => AbortNeedsOrphan
  BY DEF CallInv, OrderOK, OrderParts, AbortNeedsOrphan
<1> QED
  BY <1>1, CallInvariant, PTL

-----------------------------------------------------------------------------
(***************************************************************************)
(* EnumerationExact: what the vendor library has yet to report goes on     *)
(* where the collected list, or the report under way, left off, and every  *)
(* list it starts it finishes.                                             *)
(***************************************************************************)
After(e) ==      \* templates of the running list behind report e
  IF e = CaptureReady \/ e.remaining = 0 THEN 0 ELSE Len(Templates) - e.remaining
Follows(a, e) == \* e can come next when a templates of the list have come
  \/ a = 0 /\ e = CaptureReady
  \/ a + 1 \in 1 .. Len(Templates) /\ e = Enumeration[a + 1]
At(a, q, i) == IF i = 1 THEN a ELSE After(q[i - 1])
Chain(a, q) ==
  /\ \A i \in 1 .. Len(q) : Follows(At(a, q, i), q[i])
  /\ At(a, q, Len(q) + 1) = 0

StreamParts ==
  /\ \A i \in 1 .. Len(enrollments) : i <= Len(Templates) /\ enrollments[i] = Templates[i]
  /\ passed # NoReport => Follows(Len(enrollments), passed)
  /\ Chain(IF passed = NoReport THEN Len(enrollments) ELSE After(passed), events)
  /\ reported \in {<<>>, Templates}
StreamOK == ~dropped => StreamParts

LEMMA EnumerationItems ==
  ASSUME NEW i \in 1 .. Len(Templates)
  PROVE  /\ Enumeration[i] \notin {CaptureReady, NoReport}
         /\ Enumeration[i].fid = Templates[i]
         /\ Enumeration[i].remaining = 0 <=> i = Len(Templates)
         /\ After(Enumeration[i]) = IF i = Len(Templates) THEN 0 ELSE i
<1>1. Len(Templates) \in Nat /\ Templates[i] \in Nat \ {0}
  OBVIOUS
<1>2. Enumeration[i].fid = Templates[i] /\ Enumeration[i].remaining = Len(Templates) - i
  BY DEF Enumeration
<1>3. CaptureReady.fid = 0 /\ NoReport.fid = 0
  BY DEF CaptureReady, NoReport
<1>4. Enumeration[i] # CaptureReady /\ Enumeration[i] # NoReport
  BY <1>1, <1>2, <1>3
<1>5. Len(Templates) - i = 0 <=> i = Len(Templates)
  BY <1>1
<1>6. Len(Templates) - (Len(Templates) - i) = i
  BY <1>1
<1> QED
  <2> DEFINE e == Enumeration[i]
  <2>1. /\ e.remaining = 0 <=> i = Len(Templates)
        /\ Len(Templates) - e.remaining = i /\ e # CaptureReady
    BY <1>2, <1>4, <1>5, <1>6
  <2> HIDE DEF e
  <2>2. After(e) = IF i = Len(Templates) THEN 0 ELSE i
    BY <2>1 DEF After
  <2> QED
    BY <1>2, <1>4, <2>1, <2>2 DEF e

LEMMA ChainTail ==
  ASSUME NEW a \in Nat, NEW q \in Seq(Report), q # <<>>, Chain(a, q)
  PROVE  Follows(a, Head(q)) /\ Chain(After(Head(q)), Tail(q))
<1>1. Len(q) \in Nat \ {0} /\ Len(Tail(q)) = Len(q) - 1 /\ Head(q) = q[1] /\ 1 \in 1 .. Len(q)
  BY TailItems
<1>2. \A i \in 1 .. Len(q) - 1 : i + 1 \in 1 .. Len(q) /\ Tail(q)[i] = q[i + 1]
  BY TailItems
<1>3. Follows(a, Head(q))
  BY <1>1 DEF Chain, At
<1>4. ASSUME NEW i \in 1 .. Len(q)
      PROVE  At(After(Head(q)), Tail(q), i) = At(a, q, i + 1)
  <2>1. CASE i = 1
    BY <1>1, <2>1 DEF At
  <2>2. CASE i # 1
    <3>1. i - 1 \in 1 .. Len(q) - 1 /\ (i - 1) + 1 = i /\ (i + 1) - 1 = i /\ i + 1 # 1
      BY <1>1, <2>2
    <3>2. Tail(q)[i - 1] = q[i]
      BY <1>2, <3>1
    <3> QED
      BY <2>2, <3>1, <3>2 DEF At
  <2> QED
    BY <2>1, <2>2
<1>5. \A i \in 1 .. Len(q) - 1 : Follows(At(After(Head(q)), Tail(q), i), Tail(q)[i])
  <2>1. \A i \in 1 .. Len(q) - 1 : i \in 1 .. Len(q)
    BY <1>1
  <2> QED
    BY <1>2, <1>4, <2>1 DEF Chain
<1>6. At(After(Head(q)), Tail(q), Len(q)) = 0
  <2>1. Len(q) \in 1 .. Len(q)
    BY <1>1
  <2> QED
    BY <1>4, <2>1 DEF Chain
<1>7. Len(Tail(q)) + 1 = Len(q)
  BY <1>1
<1> QED
  BY <1>1, <1>3, <1>5, <1>6, <1>7 DEF Chain

LEMMA ChainAppend ==
  ASSUME NEW a \in Nat, NEW q \in Seq(Report), Chain(a, q)
  PROVE  Chain(a, Append(q, CaptureReady))
<1> DEFINE r == Append(q, CaptureReady)
<1>1. /\ Len(q) \in Nat /\ Len(r) = Len(q) + 1 /\ r[Len(q) + 1] = CaptureReady
      /\ \A i \in 1 .. Len(q) : r[i] = q[i]
  BY AppendItems DEF Report
<1> HIDE DEF r
<1>2. \A i \in 1 .. Len(q) + 1 : At(a, r, i) = At(a, q, i)
  <2>1. \A i \in 1 .. Len(q) + 1 : i # 1 => i - 1 \in 1 .. Len(q)
    BY <1>1
  <2> QED
    BY <1>1, <2>1 DEF At
<1>3. ASSUME NEW i \in 1 .. Len(r) PROVE Follows(At(a, r, i), r[i])
  <2>1. CASE i \in 1 .. Len(q)
    BY <1>1, <1>2, <1>3, <2>1 DEF Chain
  <2>2. CASE i = Len(q) + 1
    BY <1>1, <1>2, <1>3, <2>2 DEF Chain, Follows
  <2> QED
    BY <1>1, <2>1, <2>2
<1>4. At(a, r, Len(r) + 1) = 0
  <2>1. Len(r) + 1 # 1 /\ (Len(r) + 1) - 1 = Len(q) + 1
    BY <1>1
  <2> QED
    BY <1>1, <2>1 DEF At, After
<1> QED
  BY <1>3, <1>4 DEF Chain, r

LEMMA ChainEnumeration ==
  ASSUME NEW a \in Nat, NEW q \in Seq(Report), Chain(a, q)
  PROVE  Chain(a, q \o Enumeration)
<1> DEFINE r == q \o Enumeration
           n == Len(Templates)
<1>1. Enumeration \in Seq(Report) /\ Len(Enumeration) = n /\ n \in Nat
  BY EnumerationType DEF Enumeration
<1>2. /\ Len(q) \in Nat /\ Len(r) = Len(q) + n
      /\ \A i \in 1 .. Len(r) :
           \/ i \in 1 .. Len(q) /\ r[i] = q[i]
           \/ i - Len(q) \in 1 .. n /\ r[i] = Enumeration[i - Len(q)]
  <2> HIDE DEF n
  <2>1. /\ Len(q) \in Nat /\ Len(r) = Len(q) + Len(Enumeration)
        /\ \A i \in 1 .. Len(r) :
             \/ i \in 1 .. Len(q) /\ r[i] = q[i]
             \/ i - Len(q) \in 1 .. Len(Enumeration) /\ r[i] = Enumeration[i - Len(q)]
    BY <1>1, ConcatItems
  <2> QED
    BY <1>1, <2>1
<1> HIDE DEF r, n
<1>3. \A i \in 1 .. Len(q) : r[i] = q[i]
  BY <1>1, <1>2
<1>4. ASSUME NEW k \in 1 .. n PROVE Len(q) + k \in 1 .. Len(r) /\ r[Len(q) + k] = Enumeration[k]
  <2>1. Len(q) + k \in 1 .. Len(r) /\ Len(q) + k \notin 1 .. Len(q) /\ (Len(q) + k) - Len(q) = k
    BY <1>1, <1>2
  <2> QED
    BY <1>2, <2>1
<1>5. \A i \in 1 .. Len(q) + 1 : At(a, r, i) = At(a, q, i)
  <2>1. \A i \in 1 .. Len(q) + 1 : i # 1 => i - 1 \in 1 .. Len(q)
    BY <1>2
  <2> QED
    BY <1>3, <2>1 DEF At
<1>6. ASSUME NEW k \in 1 .. n
      PROVE  At(a, r, Len(q) + k + 1) = IF k = n THEN 0 ELSE k
  <2>1. Len(q) + k + 1 # 1 /\ (Len(q) + k + 1) - 1 = Len(q) + k
    BY <1>1, <1>2
  <2> QED
    BY <1>4, <2>1, EnumerationItems DEF At, n
<1>7. ASSUME NEW i \in 1 .. Len(r) PROVE Follows(At(a, r, i), r[i])
  <2>1. CASE i \in 1 .. Len(q)
    <3>1. i \in 1 .. Len(q) + 1
      BY <1>2, <2>1
    <3> QED
      BY <1>3, <1>5, <2>1, <3>1 DEF Chain
  <2>2. CASE i = Len(q) + 1
    <3>1. 1 \in 1 .. n /\ i \in 1 .. Len(q) + 1
      BY <1>1, <1>2, <2>2
    <3>2. At(a, r, i) = 0
      BY <1>5, <2>2, <3>1 DEF Chain
    <3>3. r[i] = Enumeration[1]
      BY <1>4, <2>2, <3>1
    <3> QED
      BY <3>1, <3>2, <3>3 DEF Follows, n
  <2>3. CASE i \notin 1 .. Len(q) /\ i # Len(q) + 1
    <3> DEFINE k == i - Len(q) - 1
    <3>1. k \in 1 .. n /\ k # n /\ k + 1 \in 1 .. n /\ i = Len(q) + k + 1 /\ i = Len(q) + (k + 1)
      BY <1>1, <1>2, <2>3
    <3> HIDE DEF k
    <3>2. At(a, r, i) = k
      BY <1>6, <3>1
    <3>3. r[i] = Enumeration[k + 1]
      BY <1>4, <3>1
    <3> QED
      BY <3>1, <3>2, <3>3 DEF Follows, n
  <2> QED
    BY <2>1, <2>2, <2>3
<1>8. At(a, r, Len(r) + 1) = 0
  <2>1. CASE n = 0
    <3>1. Len(r) + 1 = Len(q) + 1 /\ Len(q) + 1 \in 1 .. Len(q) + 1
      BY <1>2, <2>1
    <3> QED
      BY <1>5, <3>1 DEF Chain
  <2>2. CASE n # 0
    <3>1. n \in 1 .. n /\ Len(r) + 1 = Len(q) + n + 1
      BY <1>1, <1>2, <2>2
    <3> QED
      BY <1>6, <3>1
  <2> QED
    BY <2>1, <2>2
<1> QED
  BY <1>7, <1>8 DEF Chain, r

(* A report that passed the tests of notify is an item of the enumeration. *)
LEMMA FollowsItem ==
  ASSUME NEW a \in Nat, NEW e, Follows(a, e)
  PROVE  \/ a = 0 /\ e = CaptureReady
         \/ /\ a + 1 \in 1 .. Len(Templates) /\ e = Enumeration[a + 1]
            /\ e \notin {CaptureReady, NoReport} /\ e.fid = Templates[a + 1]
            /\ e.remaining = 0 <=> a + 1 = Len(Templates)
            /\ After(e) = IF e.remaining = 0 THEN 0 ELSE a + 1
BY EnumerationItems DEF Follows

LEMMA CollectStep ==
  ASSUME TypeOK, StreamParts, NotifyEnumerating
  PROVE  StreamParts'
<1> DEFINE n == Len(enrollments)
           list == Append(enrollments, Templates[n + 1])
<1>1. /\ passed # NoReport /\ passed' = NoReport /\ events' = events
      /\ enrollments' = (IF passed.remaining = 0 THEN <<>> ELSE Append(enrollments, passed.fid))
      /\ reported' = (IF passed.remaining = 0 THEN Append(enrollments, passed.fid) ELSE reported)
  BY DEF NotifyEnumerating
<1>2. enrollments \in Seq(Nat \ {0}) /\ n \in Nat /\ Len(Templates) \in Nat
  <2>1. Fids \subseteq Nat \ {0}
    BY DEF Fids
  <2>2. Seq(Fids) \subseteq Seq(Nat \ {0})
    BY <2>1, SeqMonotonic
  <2>3. enrollments \in Seq(Fids)
    BY DEF TypeOK
  <2> QED
    BY <2>2, <2>3
<1>3. /\ n + 1 \in 1 .. Len(Templates) /\ passed.fid = Templates[n + 1]
      /\ passed.remaining = 0 <=> n + 1 = Len(Templates)
      /\ After(passed) = IF passed.remaining = 0 THEN 0 ELSE n + 1
  <2>1. Follows(n, passed) /\ passed # CaptureReady
    BY <1>1 DEF StreamParts, TypeOK
  <2> HIDE DEF n
  <2> QED
    BY <1>2, <2>1, FollowsItem
<1>4. Chain(After(passed), events)
  BY <1>1 DEF StreamParts
<1>5. /\ list \in Seq(Nat \ {0}) /\ Len(list) = n + 1 /\ list[n + 1] = Templates[n + 1]
      /\ \A i \in 1 .. n : list[i] = enrollments[i]
  BY <1>2, <1>3, AppendItems
<1>6. \A i \in 1 .. n + 1 : i \in 1 .. n \/ i = n + 1
  BY <1>2
<1>7. \A i \in 1 .. n + 1 : i <= Len(Templates) /\ list[i] = Templates[i]
  <2>1. \A i \in 1 .. n : i <= Len(Templates) /\ enrollments[i] = Templates[i]
    BY DEF StreamParts
  <2>2. n + 1 <= Len(Templates)
    BY <1>3
  <2> HIDE DEF list, n
  <2> QED
    BY <1>5, <1>6, <2>1, <2>2
<1>8. Append(enrollments, passed.fid) = list
  BY <1>3
<1> HIDE DEF list, n
<1>9. CASE passed.remaining = 0
  <2>1. enrollments' = <<>> /\ reported' = list
    BY <1>1, <1>8, <1>9
  <2>2. list = Templates
    <3>1. Len(list) = Len(Templates) /\ \A i \in 1 .. Len(list) : list[i] = Templates[i]
      BY <1>3, <1>5, <1>7, <1>9
    <3> QED
      BY <1>5, <3>1, SeqEqual
  <2>3. Len(enrollments') = 0 /\ (\A i \in 1 .. Len(enrollments') : FALSE)
    BY <2>1
  <2>4. Chain(Len(enrollments'), events')
    BY <1>1, <1>3, <1>4, <1>9, <2>3
  <2> QED
    BY <1>1, <2>1, <2>2, <2>3, <2>4 DEF StreamParts
<1>10. CASE passed.remaining # 0
  <2>1. enrollments' = list /\ reported' = reported
    BY <1>1, <1>8, <1>10
  <2>2. Len(enrollments') = After(passed)
    BY <1>3, <1>5, <1>10, <2>1
  <2>3. \A i \in 1 .. Len(enrollments') : i <= Len(Templates) /\ enrollments'[i] = Templates[i]
    BY <1>5, <1>7, <2>1
  <2>4. Chain(Len(enrollments'), events')
    BY <1>1, <1>4, <2>2
  <2> QED
    BY <1>1, <2>1, <2>3, <2>4 DEF StreamParts
<1> QED
  BY <1>9, <1>10

LEMMA StreamStep ==
  ASSUME TypeOK, TypeOK', StreamOK, [Next]_vars
  PROVE  StreamOK'
<1> SUFFICES ASSUME ~dropped' PROVE StreamParts'
  BY DEF StreamOK
<1> DEFINE n == Len(enrollments)
           a == IF passed = NoReport THEN n ELSE After(passed)
<1>0. n \in Nat /\ events \in Seq(Report) /\ dropped \in BOOLEAN
  BY DEF TypeOK
<1>1. CASE UNCHANGED vendor
  BY <1>1 DEF vendor, StreamOK, StreamParts
<1>2. CASE Framework
  BY <1>1, <1>2 DEF Framework, AsksSession, AsksClose, AsksEnumeration, AsksEnroll, Asks,
                    ClientDies, ClientStarts
<1>3. CASE CreateSessionFails \/ CreateSession \/ Close \/ OnClientDeath \/ Enroll
           \/ ClearsReady \/ EnrollReturns \/ UNCHANGED vars
  BY <1>1, <1>3 DEF CreateSessionFails, CreateSession, Close, OnClientDeath, Enroll,
                    ClearsReady, EnrollReturns, vars
<1>4. ~dropped => a \in Nat
  <2>1. CASE passed = NoReport
    BY <1>0, <2>1
  <2>2. ASSUME passed # NoReport, ~dropped
        PROVE  After(passed) \in Nat
    <3>1. Follows(n, passed)
      BY <2>2 DEF StreamOK, StreamParts
    <3>2. n + 1 \in Nat
      BY <1>0
    <3> HIDE DEF n
    <3> QED
      BY <1>0, <3>1, <3>2, FollowsItem DEF After
  <2> QED
    BY <2>1, <2>2
<1>5. CASE EnumerateEnrollments
  <2>1. /\ UNCHANGED <<passed, enrollments, reported, dropped>>
        /\ events' = events \o Enumeration
    BY <1>5 DEF EnumerateEnrollments
  <2>2. StreamParts /\ Chain(a, events) /\ a \in Nat
    BY <1>4, <2>1 DEF StreamOK, StreamParts
  <2> HIDE DEF a
  <2>3. Chain(a, events')
    BY <1>0, <2>1, <2>2, ChainEnumeration
  <2> QED
    BY <2>1, <2>2, <2>3 DEF StreamParts, a
<1>6. CASE RequestsCalibration
  <2>1. /\ UNCHANGED <<passed, enrollments, reported, dropped>>
        /\ events' = Append(events, CaptureReady)
    BY <1>6 DEF RequestsCalibration
  <2>2. StreamParts /\ Chain(a, events) /\ a \in Nat
    BY <1>4, <2>1 DEF StreamOK, StreamParts
  <2> HIDE DEF a
  <2>3. Chain(a, events')
    BY <1>0, <2>1, <2>2, ChainAppend
  <2> QED
    BY <2>1, <2>2, <2>3 DEF StreamParts, a
<1>7. CASE HandleEvent
  <2>1. /\ UNCHANGED <<passed, enrollments, reported, dropped>> /\ passed = NoReport
        /\ events # <<>> /\ Head(events) = CaptureReady /\ events' = Tail(events)
    BY <1>7 DEF HandleEvent
  <2>2. StreamParts /\ Chain(n, events)
    BY <2>1 DEF StreamOK, StreamParts
  <2> HIDE DEF n
  <2>3. Follows(n, CaptureReady) /\ Chain(After(CaptureReady), events')
    BY <1>0, <2>1, <2>2, ChainTail
  <2>4. n = 0 /\ After(CaptureReady) = 0
    BY <1>0, <2>3, FollowsItem DEF After
  <2> QED
    BY <2>1, <2>2, <2>3, <2>4 DEF StreamParts, n
<1>8. CASE NotifyTests
  <2>1. /\ UNCHANGED <<enrollments, reported>> /\ passed = NoReport /\ ~dropped
        /\ events # <<>> /\ Head(events) # CaptureReady /\ events' = Tail(events)
        /\ passed' = Head(events)
    BY <1>0, <1>8 DEF NotifyTests
  <2>2. StreamParts /\ Chain(n, events)
    BY <2>1 DEF StreamOK, StreamParts
  <2> HIDE DEF n
  <2>3. Follows(n, passed') /\ Chain(After(passed'), events')
    BY <1>0, <2>1, <2>2, ChainTail
  <2>4. passed' # NoReport
    BY <1>0, <2>1, <2>3, FollowsItem
  <2> QED
    BY <2>1, <2>2, <2>3, <2>4 DEF StreamParts, n
<1>9. CASE NotifyEnumerating
  <2>1. ~dropped
    BY <1>9 DEF NotifyEnumerating
  <2> QED
    BY <1>9, <2>1, CollectStep DEF StreamOK
<1> QED
  BY <1>2, <1>3, <1>5, <1>6, <1>7, <1>8, <1>9 DEF Next, BinderThread, VendorThread

(* AnswersAreFresh, of a library that reports what it was asked for, each  *)
(* enumeration to its end: a list given to the client is one whole         *)
(* enumeration as long as no report was dropped, and enroll goes on only   *)
(* for the answer to its own request; for any templates, sessions and      *)
(* clients.                                                                *)
THEOREM AnswersAreFreshHolds == Spec => []AnswersAreFresh
<1>1. Init => StreamOK
  <2> SUFFICES ASSUME Init PROVE StreamParts
    BY DEF StreamOK
  <2>1. enrollments = <<>> /\ events = <<>> /\ passed = NoReport /\ reported = <<>>
    BY DEF Init
  <2>2. Len(enrollments) = 0 /\ Len(events) = 0
    BY <2>1
  <2>3. (\A i \in 1 .. Len(enrollments) : FALSE) /\ (\A i \in 1 .. Len(events) : FALSE)
    BY <2>1
  <2> QED
    BY <2>1, <2>2, <2>3 DEF StreamParts, Chain, At
<1>2. TypeOK /\ TypeOK' /\ StreamOK /\ [Next]_vars => StreamOK'
  BY StreamStep
<1>3. CallInv => AwaitOK /\ TypeOK
  BY DEF CallInv, OwnInv
<1>4. AwaitOK /\ StreamOK => AnswersAreFresh
  BY DEF AwaitOK, StreamOK, StreamParts, AnswersAreFresh, EnumerationExact
<1> QED
  BY <1>1, <1>2, <1>3, <1>4, CallInvariant, PTL DEF Spec
=============================================================================
