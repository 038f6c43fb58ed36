------------------------- MODULE FingerprintSession -------------------------
(***************************************************************************)
(* Sessions of the fingerprint service: one is open at a time; it is       *)
(* created and closed by the client, or closed by the client's death.      *)
(*                                                                         *)
(* The service has one binder thread (service.cpp: a pool of 0, joined by  *)
(* main).  Calls and death notices wait for it in one queue.  The vendor   *)
(* library's thread reports to the open session: it tests mSession first,  *)
(* and uses it afterwards.  The client is the framework, which dies and    *)
(* starts anew; it opens a session only when it has none, and has one call *)
(* under way at a time.                                                    *)
(*                                                                         *)
(* The calls that only pass on to the vendor library are left out, those   *)
(* of the lockout are in FingerprintLockout.                               *)
(***************************************************************************)
EXTENDS Naturals, Sequences

CONSTANTS ForceCalibrate,  \* the property ro.vendor.fingerprint.force_calibrate
          Templates,       \* the list of fids the vendor library enumerates
          MaxClients,      \* bound: starts of the framework
          MaxSessions      \* bound: sessions created

ASSUME ConfigAssumption == ForceCalibrate \in BOOLEAN
ASSUME TemplatesAssumption == Templates \in Seq(Nat \ {0})
ASSUME BoundAssumption == MaxClients \in Nat \ {0} /\ MaxSessions \in Nat \ {0}

Ids == 1 .. MaxSessions
NoSession == 0

VARIABLES
  mSession,     \* Fingerprint::mSession
  sessions,     \* by id: its client, mClosed, its death link, mCaptureReady
  made,         \* sessions created so far
  queue,        \* work for the binder thread
  enrolling,    \* where the binder thread is in enroll(): "no" or a step
  aborted,      \* the CHECK in createSession has failed
  client, clientUp,  \* the framework: which start of it, and whether it runs
  doing,        \* the call or result the client waits for
  mine,         \* the client's session
  events,       \* what the vendor library has yet to report
  passed,       \* a report that passed the tests of Fingerprint::notify
  enrollments,  \* the static list in Session::notify
  reported,     \* the last list onEnrollmentsEnumerated was given
  dropped,      \* history: a report found no open session
  orphaned      \* history: a session was created for a client already dead

service == <<mSession, sessions, made, aborted>>
binder == <<queue, enrolling>>
framework == <<client, clientUp, doing, mine>>
vendor == <<events, passed, enrollments, reported, dropped>>
vars == <<service, binder, framework, vendor, orphaned>>

Session == [client : 1 .. MaxClients, closed : BOOLEAN, linked : BOOLEAN,
            ready : BOOLEAN]
NewSession(c) == [client |-> c, closed |-> FALSE, linked |-> TRUE, ready |-> FALSE]

(* Work: a call of a client on a session, or the death notice of one. *)
Ops == {"create", "close", "enumerate", "enroll", "died"}
Work == [op : Ops, client : 1 .. MaxClients, session : 0 .. MaxSessions]
Item(op, c, s) == [op |-> op, client |-> c, session |-> s]

(* Reports: a template enumerated, with those that remain; capture ready.  *)
NoReport == [fid |-> 0, remaining |-> 0]
CaptureReady == [fid |-> 0, remaining |-> 1]
Enumeration ==
  [i \in 1 .. Len(Templates) |->
     [fid |-> Templates[i], remaining |-> Len(Templates) - i]]

Init ==
  /\ mSession = NoSession /\ made = 0 /\ aborted = FALSE
  /\ sessions = [s \in Ids |-> [NewSession(1) EXCEPT !.linked = FALSE]]
  /\ queue = <<>> /\ enrolling = "no"
  /\ client = 1 /\ clientUp = TRUE /\ doing = "nothing" /\ mine = NoSession
  /\ events = <<>> /\ passed = NoReport
  /\ enrollments = <<>> /\ reported = <<>>
  /\ dropped = FALSE /\ orphaned = FALSE

Open(s) == s # NoSession /\ ~sessions[s].closed

-----------------------------------------------------------------------------
(* The framework. *)
Asks(op) ==
  /\ clientUp /\ ~aborted
  /\ queue' = Append(queue, Item(op, client, mine))
  /\ doing' = op
  /\ UNCHANGED <<service, enrolling, client, clientUp, mine, vendor, orphaned>>

(* Bound: a session that is asked for can still be made. *)
Creating == Len(SelectSeq(queue, LAMBDA w : w.op = "create"))

AsksSession ==
  /\ doing = "nothing" /\ mine = NoSession
  /\ made + Creating < MaxSessions
  /\ Asks("create")
AsksClose ==
  doing \in {"nothing", "enumerate"} /\ mine # NoSession /\ Asks("close")
AsksEnumeration == doing = "nothing" /\ mine # NoSession /\ Asks("enumerate")
AsksEnroll == doing = "nothing" /\ mine # NoSession /\ Asks("enroll")

(* A death notice is queued for each link; the calls on their way stay. *)
Linked(c) == {s \in Ids : sessions[s].linked /\ sessions[s].client = c}

ClientDies ==
  /\ clientUp /\ ~aborted
  /\ clientUp' = FALSE /\ doing' = "nothing" /\ mine' = NoSession
  /\ \/ /\ Linked(client) = {}
        /\ UNCHANGED queue
     \/ \E s \in Linked(client) : queue' = Append(queue, Item("died", client, s))
  /\ UNCHANGED <<service, enrolling, client, vendor, orphaned>>

ClientStarts ==
  /\ ~clientUp /\ client < MaxClients
  /\ client' = client + 1 /\ clientUp' = TRUE
  /\ UNCHANGED <<service, binder, doing, mine, vendor, orphaned>>

-----------------------------------------------------------------------------
(* The binder thread: takes the next piece of work. *)
Takes(op) ==
  /\ ~aborted /\ enrolling = "no"
  /\ queue # <<>> /\ Head(queue).op = op

Alive(c) == clientUp /\ client = c

(* What a link to a client that is dead already brings: its notice. *)
Notice(c, s) == IF Alive(c) THEN <<>> ELSE <<Item("died", c, s)>>

CreateSessionFails ==
  /\ Takes("create")
  /\ Open(mSession)
  /\ aborted' = TRUE
  /\ UNCHANGED <<mSession, sessions, made, binder, framework, vendor, orphaned>>

CreateSession_unlinked ==
  LET c == Head(queue).client
      s == made + 1
  IN
  /\ Takes("create") /\ made < MaxSessions
  /\ ~Open(mSession)
  /\ mSession' = s /\ made' = s
  /\ sessions' = [sessions EXCEPT ![s] = [NewSession(c) EXCEPT !.linked = FALSE]]
  /\ queue' = Tail(queue)
  /\ mine' = IF Alive(c) THEN s ELSE mine
  /\ doing' = IF Alive(c) THEN "nothing" ELSE doing
  /\ orphaned' = (orphaned \/ ~Alive(c))
  /\ UNCHANGED <<aborted, enrolling, client, clientUp, vendor>>
CreateSession ==
  LET c == Head(queue).client
      s == made + 1
  IN
  /\ Takes("create") /\ made < MaxSessions
  /\ ~Open(mSession)
  /\ mSession' = s /\ made' = s
  /\ sessions' = [sessions EXCEPT ![s] = NewSession(c)]
  /\ queue' = Tail(queue) \o Notice(c, s)
  /\ mine' = IF Alive(c) THEN s ELSE mine
  /\ doing' = IF Alive(c) THEN "nothing" ELSE doing
  /\ orphaned' = (orphaned \/ ~Alive(c))
  /\ UNCHANGED <<aborted, enrolling, client, clientUp, vendor>>

(* Session::close: mClosed, then the recipient is deleted and with it the  *)
(* link; onSessionClosed in between tells the client, if it is alive.      *)
Closed_keepsRecipient(s) == [sessions EXCEPT ![s].closed = TRUE]
Closed(s) == [sessions EXCEPT ![s].closed = TRUE, ![s].linked = FALSE]

Close ==
  LET c == Head(queue).client
      s == Head(queue).session
  IN
  /\ Takes("close")
  /\ sessions' = Closed(s)
  /\ queue' = Tail(queue)
  /\ mine' = IF Alive(c) THEN NoSession ELSE mine
  /\ doing' = IF Alive(c) THEN "nothing" ELSE doing
  /\ UNCHANGED <<mSession, made, aborted, enrolling, client, clientUp, vendor, orphaned>>

(* onClientDeath; libbinder forgets a notice whose recipient was deleted. *)
OnClientDeath_closed ==
  LET s == Head(queue).session IN
  /\ Takes("died")
  /\ sessions' = IF sessions[s].linked /\ sessions[s].closed THEN Closed(s) ELSE sessions
  /\ queue' = Tail(queue)
  /\ UNCHANGED <<mSession, made, aborted, enrolling, framework, vendor, orphaned>>
OnClientDeath ==
  LET s == Head(queue).session IN
  /\ Takes("died")
  /\ sessions' = IF sessions[s].linked /\ ~sessions[s].closed THEN Closed(s) ELSE sessions
  /\ queue' = Tail(queue)
  /\ UNCHANGED <<mSession, made, aborted, enrolling, framework, vendor, orphaned>>

EnumerateEnrollments ==
  /\ Takes("enumerate")
  /\ events' = events \o Enumeration
  /\ queue' = Tail(queue)
  /\ UNCHANGED <<service, enrolling, framework, passed, enrollments, reported,
                 dropped, orphaned>>

(* Session::enroll: mCaptureReady = false, request, wait. *)
Enroll ==
  /\ Takes("enroll")
  /\ IF ForceCalibrate
       THEN enrolling' = "reset" /\ UNCHANGED <<queue, doing>>
       ELSE /\ queue' = Tail(queue)
            /\ doing' = IF Alive(Head(queue).client) THEN "nothing" ELSE doing
            /\ UNCHANGED enrolling
  /\ UNCHANGED <<service, client, clientUp, mine, vendor, orphaned>>

ClearsReady_never ==
  /\ enrolling = "reset"
  /\ enrolling' = "request"
  /\ UNCHANGED <<service, queue, framework, vendor, orphaned>>
ClearsReady ==
  /\ enrolling = "reset"
  /\ sessions' = [sessions EXCEPT ![Head(queue).session].ready = FALSE]
  /\ enrolling' = "request"
  /\ UNCHANGED <<mSession, made, aborted, queue, framework, vendor, orphaned>>

RequestsCalibration ==
  /\ enrolling = "request"
  /\ events' = Append(events, CaptureReady)
  /\ enrolling' = "waiting"
  /\ UNCHANGED <<service, queue, framework, passed, enrollments, reported,
                 dropped, orphaned>>

EnrollReturns ==
  /\ enrolling = "waiting" /\ sessions[Head(queue).session].ready
  /\ enrolling' = "no"
  /\ queue' = Tail(queue)
  /\ doing' = IF Alive(Head(queue).client) THEN "nothing" ELSE doing
  /\ UNCHANGED <<service, client, clientUp, mine, vendor, orphaned>>

-----------------------------------------------------------------------------
(* The vendor library's thread. *)
HandleEvent_closed ==
  /\ ~aborted /\ passed = NoReport
  /\ events # <<>> /\ Head(events) = CaptureReady
  /\ sessions' = IF mSession # NoSession /\ sessions[mSession].closed
                   THEN [sessions EXCEPT ![mSession].ready = TRUE] ELSE sessions
  /\ events' = Tail(events)
  /\ UNCHANGED <<mSession, made, aborted, binder, framework, passed, enrollments,
                 reported, dropped, orphaned>>
HandleEvent ==
  /\ ~aborted /\ passed = NoReport
  /\ events # <<>> /\ Head(events) = CaptureReady
  /\ sessions' = IF Open(mSession) THEN [sessions EXCEPT ![mSession].ready = TRUE]
                                   ELSE sessions
  /\ events' = Tail(events)
  /\ UNCHANGED <<mSession, made, aborted, binder, framework, passed, enrollments,
                 reported, dropped, orphaned>>

(* Fingerprint::notify up to the call of Session::notify *)
NotifyTests ==
  /\ ~aborted /\ passed = NoReport
  /\ events # <<>> /\ Head(events) # CaptureReady
  /\ events' = Tail(events)
  /\ passed' = IF Open(mSession) THEN Head(events) ELSE NoReport
  /\ dropped' = (dropped \/ ~Open(mSession))
  /\ UNCHANGED <<service, binder, framework, enrollments, reported, orphaned>>

(* Session::notify, FINGERPRINT_TEMPLATE_ENUMERATING, on what is mSession  *)
(* by then                                                                 *)
NotifyEnumerating_remaining ==
  LET list == Append(enrollments, passed.remaining) IN
  /\ ~aborted /\ passed # NoReport
  /\ passed' = NoReport
  /\ enrollments' = IF passed.remaining = 0 THEN <<>> ELSE list
  /\ reported' = IF passed.remaining = 0 THEN list ELSE reported
  /\ doing' = IF passed.remaining = 0 /\ Alive(sessions[mSession].client)
                   /\ doing = "enumerate" THEN "nothing" ELSE doing
  /\ UNCHANGED <<service, binder, client, clientUp, mine, events, dropped, orphaned>>
NotifyEnumerating ==
  LET list == Append(enrollments, passed.fid) IN
  /\ ~aborted /\ passed # NoReport
  /\ passed' = NoReport
  /\ enrollments' = IF passed.remaining = 0 THEN <<>> ELSE list
  /\ reported' = IF passed.remaining = 0 THEN list ELSE reported
  /\ doing' = IF passed.remaining = 0 /\ Alive(sessions[mSession].client)
                   /\ doing = "enumerate" THEN "nothing" ELSE doing
  /\ UNCHANGED <<service, binder, client, clientUp, mine, events, dropped, orphaned>>

-----------------------------------------------------------------------------
Framework == \/ AsksSession \/ AsksClose \/ AsksEnumeration \/ AsksEnroll
             \/ ClientDies \/ ClientStarts
BinderThread ==
  \/ CreateSessionFails \/ CreateSession \/ Close \/ OnClientDeath
  \/ EnumerateEnrollments
  \/ Enroll \/ ClearsReady \/ RequestsCalibration \/ EnrollReturns
VendorThread == HandleEvent \/ NotifyTests \/ NotifyEnumerating

Next == Framework \/ BinderThread \/ VendorThread
Spec == Init /\ [][Next]_vars

(* Both threads run when they have work: the vendor library answers a      *)
(* calibration request and an enumeration.  Nothing is assumed of the      *)
(* framework.                                                              *)
FairSpec == Spec /\ WF_vars(BinderThread) /\ WF_vars(VendorThread)

-----------------------------------------------------------------------------
(* Type invariant; the list of enrollments holds fids of templates only.   *)
Fids == {Templates[i] : i \in 1 .. Len(Templates)}
Report == {NoReport, CaptureReady} \cup {Enumeration[i] : i \in 1 .. Len(Templates)}
TypeOK ==
  /\ mSession \in 0 .. made /\ made \in 0 .. MaxSessions
  /\ sessions \in [Ids -> Session]
  /\ queue \in Seq(Work)
  /\ enrolling \in {"no", "reset", "request", "waiting"}
  /\ client \in 1 .. MaxClients
  /\ doing \in {"nothing", "create", "close", "enumerate", "enroll"}
  /\ mine \in 0 .. made
  /\ events \in Seq(Report) /\ passed \in Report \ {CaptureReady}
  /\ enrollments \in Seq(Fids) /\ reported \in Seq(Fids)
  /\ aborted \in BOOLEAN /\ clientUp \in BOOLEAN
  /\ dropped \in BOOLEAN /\ orphaned \in BOOLEAN

(* A session that is open, or that a death notice could still reach        *)
(* through the raw pointer given to linkToDeath, is the one Fingerprint    *)
(* owns: no order of create, close and death leaves a link behind on a     *)
(* session that has been replaced.                                         *)
LinkedIsCurrent ==
  \A s \in 1 .. made : ~sessions[s].closed \/ sessions[s].linked => s = mSession

(* createSession's CHECK can fail only after a session was created for a   *)
(* client that died with its call on the way: in all other orders the      *)
(* client's close, or the notice of its death, is handled before the next  *)
(* client's call.                                                          *)
AbortNeedsOrphan == aborted => orphaned

(* Of a library that reports what it was asked for, and each enumeration   *)
(* to its end: nothing from before a request passes for its answer.  What  *)
(* onEnrollmentsEnumerated is given is one whole enumeration, also when    *)
(* sessions change in between, as long as no report found the session      *)
(* closed (if one did, what was collected stays for the next list); and    *)
(* enroll goes on only when the sensor is ready for this enrollment: the   *)
(* answer to an earlier request does not do.                               *)
EnumerationExact == ~dropped => reported \in {<<>>, Templates}
CaptureReadyIsFresh ==
  enrolling = "waiting" /\ sessions[Head(queue).session].ready
    => \A i \in 1 .. Len(events) : events[i] # CaptureReady
AnswersAreFresh == EnumerationExact /\ CaptureReadyIsFresh

(* A session does not outlive its client: it is closed by its notice.      *)
ClosedAfterDeath ==
  \A s \in Ids :
    (s <= made /\ Open(s) /\ ~Alive(sessions[s].client))
      ~> (~Open(s) \/ aborted)

(* enroll, which keeps the only binder thread waiting, returns: the report *)
(* it waits for comes on another thread.                                   *)
EnrollEnds == (enrolling # "no") ~> (enrolling = "no")

(* "Open session already exists!": the CHECK in createSession.             *)
CheckHolds == ~aborted
=============================================================================
