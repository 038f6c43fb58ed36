----------------------------- MODULE FaceClosure -----------------------------
(***************************************************************************)
(* Samsung's face libraries run on classes this system builds: AHandler,   *)
(* H2BGraphicBufferProducer and Surface.  The libraries have the layouts   *)
(* they were compiled against in their code; the system's code has those   *)
(* of the build.  Two guards let the build through only if these fit, and  *)
(* a replacement of AHandler's deliverMessage keeps off the memory where   *)
(* the face library has members of its own.                                *)
(*                                                                         *)
(* A layout is a record of offsets and sizes.  Memory is where each side   *)
(* has what: code that touches a field touches the bytes it has it at, and *)
(* what the other side has there, or does not have there, is spoiled.      *)
(***************************************************************************)
EXTENDS Integers, Sequences, FiniteSets, Bags

CONSTANTS Layouts,        \* what a build may lead to
          Whats,          \* kinds of messages
          MaxMessages     \* bound: messages delivered

(* What the guards ask for. *)
Primary == 24             \* 0x18
BBinder == 416            \* 0x1a0
RefBase == 608            \* 0x260
Expected ==
  [primaryVTable |-> Primary, bbinderVTable |-> BBinder, refBaseVTable |-> RefBase,
   bbinderAt |-> 8, refBaseAt |-> 104, h2bSize |-> 120, vttSize |-> 160,
   surfaceSize |-> 8168,
   handlerSize |-> 152, verboseStats |-> 40, messageCounter |-> 48, messages |-> 56,
   lock |-> 96]
Layout == [DOMAIN Expected -> Nat]

ASSUME LayoutsAssumption == Layouts \subseteq Layout
ASSUME MessagesAssumption == MaxMessages \in Nat

VARIABLES
  layout,      \* of the classes as built
  built,       \* "no", "yes" or "refused"
  faulted,     \* a library followed a pointer to somewhere else, or wrote
               \* outside its allocation
  spoiled,     \* fields of a handler that one side has changed or missed
               \* for the other
  delivered,   \* messages delivered
  mVerboseStats, mMessageCounter, mMessages

stats == <<mVerboseStats, mMessageCounter, mMessages>>
faceVars == <<layout, built, faulted, spoiled, delivered, stats>>

FaceInit ==
  /\ layout = Expected /\ built = "no"
  /\ faulted = FALSE /\ spoiled = {} /\ delivered = 0
  /\ mVerboseStats = FALSE /\ mMessageCounter = 0 /\ mMessages = EmptyBag

-----------------------------------------------------------------------------
(* The static assertions: of the blob's buffer producer and surface, and   *)
(* of AHandler.                                                            *)
BlobAbiHolds(l) ==
  /\ \A f \in {"primaryVTable", "bbinderVTable", "refBaseVTable", "bbinderAt",
               "refBaseAt", "h2bSize", "vttSize"} : l[f] = Expected[f]
  /\ l.surfaceSize <= Expected.surfaceSize
HandlerLayoutHolds_noBoundary(l) ==
  \A f \in {"handlerSize", "verboseStats", "messageCounter", "messages"} :
    l[f] = Expected[f]
HandlerLayoutHolds(l) ==
  \A f \in {"handlerSize", "verboseStats", "messageCounter", "messages", "lock"} :
    l[f] = Expected[f]

Build ==
  /\ built = "no"
  /\ layout' \in Layouts
  /\ built' = IF BlobAbiHolds(layout') /\ HandlerLayoutHolds(layout')
                THEN "yes" ELSE "refused"
  /\ UNCHANGED <<faulted, spoiled, delivered, stats>>

(* FaceDisplayManager::getANativeWindow: three pointers to tables, stored  *)
(* by hand in an allocation of 120 bytes, and a Surface in one of 8168.    *)
(* The system calls through the pointer it finds where it has the base.    *)
Allocated == 120
Stored == {<<0, 24>>, <<8, 416>>, <<104, 608>>}     \* where, and which
TableBytes == 20 * 8           \* of the VTT, whose indices the blob has in its code

Finds(at, table) == <<at, table>> \in Stored

GetANativeWindow ==
  /\ built = "yes" /\ ~faulted
  /\ faulted' = ~ /\ Finds(0, layout.primaryVTable)
                  /\ Finds(layout.bbinderAt, layout.bbinderVTable)
                  /\ Finds(layout.refBaseAt, layout.refBaseVTable)
                  /\ layout.h2bSize <= Allocated /\ layout.surfaceSize <= 8168
                  /\ layout.vttSize = TableBytes
  /\ UNCHANGED <<layout, built, spoiled, delivered, stats>>

-----------------------------------------------------------------------------
(* The bytes of a handler, as the face library was compiled: its inline    *)
(* constructor and its own code; and as the system's code has them.        *)
Theirs ==
  [verboseStats |-> 40 .. 40, messageCounter |-> 48 .. 51, messages |-> 56 .. 95,
   member |-> 96 .. 103]
TheirStart == [verboseStats |-> 40, messageCounter |-> 48, messages |-> 56, member |-> 96]
Ours(f) ==
  CASE f = "verboseStats" -> layout.verboseStats .. layout.verboseStats
    [] f = "messageCounter" -> layout.messageCounter .. (layout.messageCounter + 3)
    [] f = "messages" -> layout.messages .. (layout.lock - 1)
    [] f = "lock" -> layout.lock .. (layout.handlerSize - 1)

(* The system's code reads and writes a field where it has it. *)
Spoils(f) ==
  {g \in DOMAIN Theirs :
     IF g = f THEN layout[f] # TheirStart[f] ELSE Theirs[g] \cap Ours(f) # {}}
Touches(fs) == spoiled' = spoiled \cup UNION {Spoils(f) : f \in fs}

(* setDeliveryStatus and getDeliveryStatus, which have nothing to keep and *)
(* say that the handler is idle; upstream both take mLock.                 *)
StatusTouches == {}

(* deliverMessage: onMessageReceived of the library's class, which works   *)
(* on its own members; then what the base class counts.                    *)
CanDeliver == built = "yes" /\ ~faulted /\ delivered < MaxMessages

DeliverMessage(what) ==
  /\ CanDeliver
  /\ Touches({"messageCounter", "verboseStats"}
               \cup (IF mVerboseStats THEN {"messages"} ELSE {}))
  /\ delivered' = delivered + 1
  /\ mMessageCounter' = mMessageCounter + 1
  /\ mMessages' = IF mVerboseStats THEN mMessages (+) SetToBag({what}) ELSE mMessages
  /\ UNCHANGED <<layout, built, faulted, mVerboseStats>>

(* ALooperRoster's dump: sets mVerboseStats, asks for the delivery status, *)
(* and may clear the counts.                                               *)
Dump(verbose, clear) ==
  /\ CanDeliver
  /\ Touches({"verboseStats", "messageCounter", "messages"} \cup StatusTouches)
  /\ mVerboseStats' = verbose
  /\ IF clear THEN mMessageCounter' = 0 /\ mMessages' = EmptyBag
              ELSE UNCHANGED <<mMessageCounter, mMessages>>
  /\ UNCHANGED <<layout, built, faulted, delivered>>

FaceNext ==
  \/ Build \/ GetANativeWindow
  \/ \E what \in Whats : DeliverMessage(what)
  \/ \E verbose, clear \in BOOLEAN : Dump(verbose, clear)

FaceTypeOK ==
  /\ layout \in Layouts \cup {Expected} /\ built \in {"no", "yes", "refused"}
  /\ faulted \in BOOLEAN /\ spoiled \subseteq DOMAIN Theirs
  /\ delivered \in 0 .. MaxMessages
  /\ mVerboseStats \in BOOLEAN /\ mMessageCounter \in 0 .. MaxMessages
  /\ BagToSet(mMessages) \subseteq Whats

(* Whatever the build leads to and in whatever order handlers are served   *)
(* and dumped: every call through the tables that the blob has put in      *)
(* place finds the table of the class, nothing leaves its allocation, and  *)
(* neither side of a handler touches what is the other's, the library's    *)
(* own first member, where AHandler has mLock, above all.                  *)
ClosureIsSafe == ~faulted /\ spoiled = {}
=============================================================================
