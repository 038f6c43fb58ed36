# TLA+ models of the Galaxy A51 device tree

The repository is an Android device tree: mostly configuration, with a handful
of programs of its own. This directory holds TLA+ modules for the programs that
have state and concurrency, TLC configurations that check them on small
instances, and theorems that TLAPS proves for every value of the constants.
`PROJECT.json` is the index: components, runs, mutants, the source lines of
every definition, findings, hazards and theorems.

To check a run: `tlc -config BridgeOneSlot.cfg BridgeRefinement`. To check a
proof: `tlapm ImsModemBridgeProofs.tla`.

## 1. The system's parts

Paths are under `src/`. "IMS" is
`SamsungImsModemBridge/src/org/hamelinports/samsung/ims/`.

| part | state it keeps | operations | module |
|---|---|---|---|
| IMS modem bridge, channels (IMS `SamsungImsModemBridgeImpl.java`) | per SIM slot a `SlotState`: binder, callback installed, stopped, re-bind attempt; a looper's queue | `start`, `stop`, `sendRegistration`, `sendPreference`, `shutdown`, `binderDied`, `rebind` | `ImsModemBridge`, `ChannelSupervisor` |
| IMS modem bridge, frames (IMS `IilFrame.java`) | none | encode a registration, a preference | `IilFrame` |
| fingerprint, lockout (`fingerprint/LockoutTracker.cpp`, `Session.cpp` 387-427) | failed count, mode, start of lockout, two timer flags | failed and successful attempt, `onPointerDown`, `resetLockout`, timer expiry | `FingerprintLockout` |
| fingerprint, sessions (`fingerprint/Fingerprint.cpp`, `Session.cpp`) | the one `mSession`, `mClosed`, the death link, `mCaptureReady`, a static list of enumerated templates | `createSession`, `close`, client death, `enroll`, `enumerateEnrollments`, vendor messages | `FingerprintSession` |
| fingerprint, operations, panel and FOD (`Session.cpp`, `TimedRestore.cpp`, `UdfpsHandler/`) | saved brightness, `fod_enable`, the operation asked for and the one that runs | the client's operations, cancel, touches, each report of the library | `FingerprintOperations` |
| fingerprint, vendor library binding (`LegacyHAL.cpp`, `Fingerprint.cpp`, `Legacy2Aidl.h`, `VendorConstants.h`) | table of functions, `uinput` | load, set up, swipe, translate codes | `FingerprintHal`, `VendorTranslation` |
| `secfr-probe/verify-seam.py` | closure, unresolved, pending | walk DT_NEEDED, four checks, verdict | `SeamCheck` |
| `secfr-probe/SecfrProbe.cpp` | the engine, its references, counts of FAIL and DIFF | staged smoke test on a device | `SecfrProbe` |
| `bootloader-screens/up-param-pack.py` | the output file and its temporary | build a tar, compare headers, write | `UpParamPack` |
| `bootloader-screens/render.py` | none | draws pictures | not modelled |
| `face_blob_abi_guard/derive_face_blob_abi.py` | the place in a packed table | decode relocations, measure vtables and classes | `BlobAbi` |
| `face_blob_abi_guard/`, `libsecfr_ahandler_compat/` | statistics of a handler | layout assertions, `deliverMessage` | `FaceClosure` |
| `panic_to_recovery/` | two properties | request recovery after a kernel panic | `PanicToRecovery` |
| `recovery/recovery_updater.cpp` | none | compare bootloader versions | `BootloaderGate` |
| `releasetools/`, `extract-files.py` | none | copy a version into a script; a table of file fixups | not modelled |
| device configuration | read by other programs | - | not modelled |

**How they interact.** The IMS client calls the bridge on binder threads; the
bridge calls into rild with transactions that fail when rild dies, and hears of
deaths through obituaries that another thread delivers, at any later time. Its
re-binds run on a `HandlerThread`'s looper. The fingerprint service has *one*
binder thread (`service.cpp` 15-24 sets a pool of 0 and joins it); the vendor
library reports on a thread of its own; each timed lockout starts a detached
thread. These share `Session` and `LockoutTracker` with no lock. The scripts are
single processes; the packer's output survives crashes, so its file protocol is
modelled with power loss. The guard's script feeds the constants that the guard's
assertions compare. init runs the panic helper when bootstat sets a property,
one helper at a time.

**What is hard.** For the bridge, a channel that is read under the lock and used
after it, obituaries of earlier channels, a re-bind already off the queue when
`stop()` clears the queue, and a looper that quits while the binder interface
stays usable. For the lockout, unsynchronised read-modify-write on a counter,
timers that outlive the lockout they were started for, flags tested in one place
and set in another. For sessions, work queued on the only binder thread by a
client that has died, and a vendor thread that tests `mSession` and then uses
it. For the operations, a pointer that both threads replace and delete, a second
pointer down, a cancellation that crosses the end of the operation it cancels, a
library that lacks functions. For the panic helper, a property that changes
between the trigger and the read. For the frames and the packed relocations,
lengths and signs at the edge of a byte. For the walk, circular and missing
libraries. For the packer, every boundary of three block sizes, and a power loss
between write and rename.

**What makes each correct.** The bridge: a slot never holds a dead channel that
nothing will report, its record of the callback is true of rild, no chain of
re-binds stalls, is left over, or ends without a reason. The lockout: announced
only when earned, permanent until the counter is reset, announced as over. The
sessions: one open at a time, and never a dangling death link. The operations: a
touch finds the panel raised and its end gives it back, the touch controller
reports fingers while an operation runs, whoever waits is answered. The walk:
the verdict is that of the least closed set. The guard: constants that are those
of the classes built, or a refusal; and what passes the assertions does not
fault. The packer: exact refusal, full size, atomic replacement.

## 2. Modules

Each specification has a `MC...` module with the sets that a `.cfg` cannot
write, and a `...Proofs` module. Definitions named `X_something` before a
definition `X` are the faults used as mutants; no run uses them otherwise.

### ImsModemBridge, ChannelSupervisor, BridgeRefinement

Every `synchronized (mLock)` block is one action; what happens between blocks is
a step of its own. `slots[s]` is the `SlotState`, with `linked` for the death
recipient and `queued` for the message in the Handler queue. `dequeued` is the
message the looper has taken but for which it does not have the lock yet:
`removeCallbacksAndMessages` no longer reaches it. `sending[t]` is the slot and
binder a send uses after it has released the lock; it comes back through
`SendReturns` or `SendFails`. `notices` are obituaries sent and not yet run.
`connectLocked`, `acquireLocked`, `installCallbackLocked`, `dropChannelLocked`,
`loseChannelLocked` and `scheduleRebindLocked` are operators on one slot's
record, used by all the actions that call them, as in the code. rild and
servicemanager (`generation`, `alive`, `accepting`, `registered`, `callbackAt`)
are the environment: they die, restart, refuse callbacks, run `setCallback` and
lose the reply, and answer with a channel whose host is already dead.

`receive()` on the callback stub only logs and is left out, and so is the
content of the frames.

`ChannelSupervisor` is what the bridge promises of a slot without binders,
messages, threads or notices: a link that is up or down, a switch, and a bounded
run of tries that starts whenever a supervised link goes down.
`BridgeRefinement` maps `callbackInstalled`, `stopped` and `rebindAttempt` to
it; `SupervisorSpec` is the abstract specification under that map, checked as a
property of the run and proved.

### FingerprintLockout

One session's tracker and timers. A step makes one access to one shared member,
or one callback, and another thread may run between any two: `mFailedCount++` is
a load and a store (`Fails`, `Counts`), each comparison of the count, each store
of the mode and of the start, each test of a flag is a step, and so are the two
stores of `lockoutTimerExpired` (`Ends`, `Rearms`). Where the source reads a
member again with no call in between, the compiler may keep the value it has:
`Weighs`, `ReadsMode` and `ForgetsStart` allow both, and `Answers` is the read at
the end of `getMode`. The stores of one thread are taken in program order. `pc`
says where each thread is, `local` what it holds. `mCurrentMode` and
`mLockoutTimedStart` have no initialiser in the header, so `Init` gives them any
value. Time is counted in ticks as *ages*: how long ago the lockout started, how
long a timer still sleeps.

Four history variables say what the properties need of a past. `failures` counts
the failed attempts since the last reset, by a success or by `resetLockout`.
`crossed` says that the last such reset ran inside or around a call of the other
handler, `tainted` that the mode need not stem from attempts: the session was
born locked out and not reset since, or its last reset was crossed. `overlapped`
becomes TRUE when a call begins while another thread is inside one; `SerialSpec`
is the part of the behaviours in which that never happens, and states what the
flags promise when the accidents of timing are left aside.

### FingerprintSession

The binder thread takes work from one queue, in order: calls and death notices.
The framework is external: it has one call under way, opens a session only when
it has none, dies and starts anew; its calls on their way are still handled.
`CreateSessionFails` is the failing `CHECK`, which aborts the process.
`enroll()` with `force_calibrate` keeps the thread in three steps (clear the
flag, request, wait). The vendor thread's `NotifyTests` and `NotifyEnumerating`
are apart because `Fingerprint::notify` tests `mSession` and then uses what it
has become. The other operations are in `FingerprintOperations`, the lockout's
in `FingerprintLockout`.

### VendorTranslation, FingerprintHal, FingerprintOperations

`VendorTranslation` has the filters of error and acquired codes, the events and
the count of samples; the numbers of the old interface are external.
`FingerprintHal` has the loading of a library that may lack functions (`bound`
is the table, `After` the call of an unset pointer), the service's set-up, and
the swipes of the gesture device with writes that fail in the middle.

`FingerprintOperations` builds on both. Every call of the client and every
report of the library is an action, cut where the other thread can come between:
at the load, the store and the delete of `mBrightnessRestore` (`taken[t]` is the
object a thread holds then), around calls of the library, and before a callback.
`cancel()` asks the library in one step and answers the client in another, and a
success is told in one and switches the touch controller off in another, so that
they can cross. `removeEnrollments` asks for one template per step (`ids` are
those still to ask for); the library may refuse each. The panel's node may fail
to be read, and a `TimedRestore` then has -1 to give back, which it does not.
`restore` and `left` are the `TimedRestore`s of the present session and of one
that is closed, replaced and not yet destroyed. `waits` is what the client
expects an answer to, `lib` what the library runs. Codes are any integers, those
that reach a filter's default branch among them; `told` is the last one told.

History variables say which accident happened: `mixed` what befell the touch (a
second pointer down, a node that was not read, the system moving the brightness,
both threads in `mBrightnessRestore` at once), `refused` that no one will answer
(all of) what the client waits for, `cut` that a swipe broke off. `astray` says
that the client was told that an operation is over while the library was at it
or in its report: by a cancellation that crosses a success, by `close`, by an
error amid a removal. It is set back when an operation begins with the library
idle, for then nothing of the past can come. It is the premise of
`OperationHasFod` and `WaitsForLibrary`: the code lets the old operation's report
reach the next one, whose touches the success then switches off, and no property
of the code as it is could say otherwise.

The client is the framework and the library Samsung's: the client runs one
operation at a time, the library reports on what it runs. A call is made when
the binder thread takes it and a callback arrives when it is made; nothing is on
its way in between. Nodes take every write; the substitute for a library that
does not enumerate is told at once. Four bounds: `MaxIds` templates of one
removal, `Accidents` what may befall one touch together, once the threads have met in
`mBrightnessRestore` each only finishes what it does, and one replaced session at
most waits to be destroyed.

### SeamCheck

The script's loop, one iteration per step (`Skip`, `Miss`, `Visit`), and
`Judge`, its verdict. The ELF files are the input, chosen in `SeamInit`; a
library that no root holds has a list of needs all the same, which the script
does not read.

### UpParamPack

`Tar`, `Headers` and `Matches` are `build()`, `headers()` and
`compare_reference()` on a tar abstracted to the places of its headers, the end
of its data, its length and what follows. The actions are `main()`: build, open
the temporary file, write, fsync, rename. A call may fail, the process may be
killed, and the power may go: then a directory entry is the one on the disk or
the newest, and an unsynced file may have lost any part. Packers run one after
another; the next may find the last one's temporary file. The octal width of
header fields (a member of 8 GiB) is left out: such a tar is refused for its
size as well. What `main()` prints is left out. A reference is any list of
headers, each where the member before it ends, of any sizes and any length, cut
short or not (`InputAssumption`, `IsTar`); of a header's other bytes it matters
only whether they are the ones `header()` writes. A reference whose bytes are no
tar at all is not among the inputs.

### HostTools

The packer and the walk share nothing: a behaviour of `HostTools` is one of one
of them (`script`), so one run checks both at the sum of their state spaces.

### DeviceTools and its six programs

Six small programs that have nothing to do with one another are composed in
`DeviceTools`: a behaviour is one of one of them (`tool`), so the state space is
their sum and one run checks them all. `TypeOK` there is that of all but
`BlobAbi`.

- `SecfrProbe`: the stages of `main`, with the exit code of each that fails. The
  engine takes and drops references to itself between any two calls (`taken`);
  the dump prints the rows of the record that are not all zero; the walk looks at
  each camera and surface that the model counts, some of which it cannot
  retrieve. Samsung's libraries behind `SecfrSeam.h` are external.
- `BlobAbi`: `derive_face_blob_abi.py`. A library is its symbols, mapped words,
  relocations and debug information: reading the ELF file is left out. The
  linker, external, packs the relocations in any grouping the format allows
  (`Packing`, `Groupings`), or leaves them plain; the script reads the bytes back
  one group and one entry per step, through signed numbers of varying length,
  then finds the sub-tables by what the slots of the VTT point at. All numbers
  are far from 2^63, so the mask and the end of sign extension are left out. The
  layout a library was compiled with is a field of it, which the runs give independently
  of the relocations; `LibraryAssumption` says how the two agree, and TLC
  evaluates it for every library of the run.
- `FaceClosure`: the assertions of `FaceBlobAbiGuard.cpp` and
  `AHandlerLayoutGuard.cpp` on the layouts a build may lead to, and the memory
  behind them. The blob stores three pointers at fixed places of a fixed
  allocation (`Stored`), and a call finds the right table if the built class has
  its base where one was stored (`Finds`). The face library and the system's code
  each have a handler's fields at places of their own (`Theirs`, `Ours`); what
  the system's `deliverMessage` and the dump of statistics touch is compared byte
  by byte with what the library has there, its own first member above all
  (`Spoils`). The guard's equalities are used at one step only, the build: that
  nothing faults or is spoiled afterwards is a matter of where the fields lie. It
  asks for more than that needs: the size of `AHandler`, for one, spoils nothing
  as long as the delivery-status functions touch nothing (`StatusTouches`).
- `PanicToRecovery`: bootstat (external) sets the property twice, init queues a
  trigger each time and runs the helpers one after the other; the helper reads
  the property when it runs, and init may refuse what it asks.
- `BootloaderGate`: `VerifyBootloader` on the names of Samsung's firmwares and on
  any other names (`ForeignNames`), with any argument. A foreign name of four
  characters or more is judged by its fourth last as if it were Samsung's, and
  may pass ("unknown" has an n there, which is not below G): the property is
  exact for Samsung's names, has names of up to three characters refused, and
  claims nothing of the longer foreign ones.
- `IilFrame`: both frames byte by byte, as rild reads them. The encoder keeps
  nothing from one frame to the next, so a behaviour is one frame.

## 3. Runs

| run | instance | question |
|---|---|---|
| `bridge_one_slot` | 1 slot, 2 senders, 2 rild instances after the first, 3 attempts, fair | type, three invariants, `LiveChannelKept`, the refinement; does every chain end, is the callback restored |
| `bridge_two_slots` | 2 slots, 1 sender, 1 instance after the first, 2 attempts | do the slots disturb one another through the lock, the looper and rild |
| `bridge_comment` | 1 slot | violated: `AttemptMeansPending` |
| `lockout_races` | thresholds 1 and 2, 1 timer, all interleavings of single accesses | is a lockout told to the client always earned since the last reset |
| `lockout_serial` | the code's thresholds 5 and 20, no overlap | do the flags, the mode and the client agree; do timers end lockouts |
| `lockout_comment` | thresholds 2 and 4 | violated: `CallbacksLeaveBinderFree` |
| `session_life` | 3 clients, 3 sessions, 2 templates, `force_calibrate` | safety of create, close and death; is what is told of this operation; do dead clients' sessions close; does `enroll` return |
| `session_check` | 3 clients, 4 sessions | violated: `CheckHolds` |
| `host_tools` | blocks of 4 in records of 12 in a partition of 40, 2 members, 2 runs; 3 libraries with 6 lists each, 3 symbols | refusal and size, whole output; verdict, end of the walk |
| `seam_docstring` | the walk of `host_tools` | violated: `ClosureIsClean` |
| `fingerprint_operations` | 7 devices, 2 levels, removals of up to 2 templates, one accident of a touch, or a second pointer down and an unread node (1.5 million states) | panel, touch controller, answers, crashes, codes |
| `device_tools` | the six programs below (364,245 states), fair | is the probe sound, are the guards enough, do frames read back, is a panic routed, does the update gate hold |

**Why these bounds are enough to meet the hard cases.** One bridge slot with
three rild instances lets a slot have lived through two channels while the
obituary and a failed send of the first are still on their way; two senders let
one fail while the other succeeds. Three attempts distinguish the first, a
middle and the last. `MaxAttempts >= 2` is an assumption: with 1, a re-bind off
the queue can give up while a newer chain's message is queued; the code has 20.
Lockout thresholds 1 and 2 make every pair of failure and reset meet both
thresholds; the serial run uses the real ones. There two timers are one more
than the flags should allow. Where calls overlap one timer is enough: a lockout
that is announced without being earned needs two calls, or a call and a timer
that clears the count under it, and the theorem about it has no such bound. In
the session run three starts of the framework are two deaths, so a notice can be
late by a whole life. Three libraries make chains, diamonds, repeated names,
circles and a missing one in the middle. The tar's sizes lie below, at and above
a multiple of the block; as in the real image the partition is no multiple of
the record; some tars fit, some exceed it only by their closing blocks. The two
brightness levels lie on either side of the 300 that a touch raises to. Of what
can befall a touch the run has each alone and together the two after which
`PanelFollowsTouch` still promises something; the theorem has them all. The
seven devices are this one with all functions and without `request`, one with a
rear sensor, gestures and a library that counts in per cent, complete or lacking
one function, and one with no library; the error codes have both pairs that look
alike. In `device_tools`: a capture model of up to two cameras of up to two
surfaces, a record of 5 bytes in rows of 2 (the last row is short), two
references that the engine takes; the expected layout, one with each field moved
by 8 bytes, and a surface both smaller and larger; four messages; letters 1 to
3, every other name of up to five characters of the lowest and the highest of
them, and arguments of up to two; IMPUs of 0, 1, 2, 254 to 257 and 300 bytes; a
VTT of four slots whose pointers are stored or made by relocations of two kinds,
three relocations at most in at most three groups under every set of flags that
fits them, and ten libraries that no constants should come of.

The bridge runs check for deadlock. In the session, walk,
packer, operations and tool runs the system may stop: the bound on clients is
reached, or the process has aborted, crashed or ended, so the check is off.

**Fairness.** Bridge: strong fairness for taking a slot's message off the queue
(the looper runs due messages in order of time, so neither slot is passed over
for ever), weak for the re-bind it has taken (the lock is free after each block,
and no block waits), for the driver's obituaries and for `binderDied`. Nothing is
assumed of the client or of rild; `RebindRestoresCallback` has "rild serves the
slot from now on" as its premise. Lockout: weak fairness for the clock and for
threads in a call or done sleeping; none for beginning a call. Sessions: weak
fairness for the binder thread and for the vendor thread when they have work;
that the vendor library answers a calibration request is what the code relies on
and is an assumption here. Walk: weak fairness of the loop. Panic: weak fairness
of bootstat, init and the helper. The operations run states no fairness.

### What the violated runs show

- `AttemptMeansPending`: `SlotState` says of `rebindAttempt` "0 while no re-bind
  is pending" (`SamsungImsModemBridgeImpl.java` 73). After `shutdown()` a call
  can still bind a slot; its re-bind is posted to a looper that has quit, and the
  attempt stays counted with nothing pending.
- `CallbacksLeaveBinderFree`: `Session.h` 98-99 says the client's callback must
  only be called from non-binder threads. `onPointerDown` and `resetLockout`
  call it on the binder thread.
- `CheckHolds`: `createSession` asserts that no session is open
  (`Fingerprint.cpp` 155). A client that dies with its `createSession` on the way
  has its session made after all; if the next client's call is queued before the
  notice of that death, the assertion fails. `AbortNeedsOrphan` (holds) says that
  this is the only way.

- `ClosureIsClean`: `verify-seam.py` says that nothing in the *whole* transitive
  closure is a camera, surface, media or face-service library (14-15, and 147).
  What a library needs that no root holds is never read (246-248): a probe that
  reaches a forbidden library only through one passes. `VerdictExact` (holds) is
  what the script does judge: everything that can be reached through the
  libraries at hand. In the same docstring line 13 has the direct dependencies
  *exactly* the seam, and 230-231 test for a subset.

### Seen while modelling, without a text of the repository to hold it against

- `resetLockout` sets the abort flag but the timer stays "started" until it
  expires. A timed lockout reached meanwhile starts no timer and is never
  announced as over; `TimerEndsLockout` therefore has an unaborted timer as its
  premise.
- A second timed lockout, or one stamped anew by a further failure, is cleared
  when the first one's timer expires, before the time the client was told.
- A failed attempt that overlaps a reset stores its old count, or its mode, over
  it: a lockout can then be announced that was not earned. `LockoutIsEarned`
  excepts what follows such a reset until the next (`tainted`), and so shows that
  nothing else does it: two failures that race lose one, they do not invent one.
- Two touches that overlap start a timer each, and a timer that has no time left
  to sleep can end before its start is flagged, which then stays flagged
  (`Session.cpp` 398-418). No text promises otherwise; `StartedMeansOneTimer`
  speaks of calls that do not overlap.
- A new session copies a tracker whose mode and start are uninitialised: it can
  be born locked out. `LockoutIsEarned`, `ClientKnowsMode` and
  `PermanentOutlastsTimers` except such a session up to its first reset; the runs
  explore all births.
- The static list of enumerated templates keeps what a dropped enumeration had
  collected: `AnswersAreFresh` has `~dropped` as premise for the list. Its
  library reports what it was asked for, each enumeration to the end: unsolicited
  reports, and an enumeration that breaks off, are not in the model.
- The vendor thread tests `mSession` and uses what it has become: a report of the
  old session goes to the next. No property excludes it.
- A second `onPointerDown` without a pointer up saves the brightness it reads,
  which is the raised one: the end of the touch then gives back 300. So does the
  end of a touch whose node could not be read: it gives nothing back
  (`TimedRestore.cpp` 19). Both are premises of one half of `PanelFollowsTouch`,
  that the panel is given back, and of neither for the other half, that it is
  raised.
- `mBrightnessRestore` is a `unique_ptr` that two threads replace and delete with
  no lock. `FaultsNeedReason` admits that meeting as a reason for a crash; it
  says that apart from it only a library that lacks a function is one.
- A cancellation that crosses a success lets the client start the next operation
  before the success switches the touch controller off (`Session.cpp` 300-309
  against 481-490): the next operation then has no finger reports. `astray` is
  the premise that excepts it.
- `cancel` and an error do not switch the touch controller off; a success,
  `revokeChallenge` and `resetLockout` do.
- A removal or an enumeration that the library refuses is logged and never
  answered, and a removal of nothing asks for nothing (`refused` in
  `WaitsForLibrary`).
- The codes 7 and 1007 become the same vendor error, and all codes that a filter
  does not know, -100 among them, look like 2 (`ErrorsAlike`, `AcquiredAlike` in
  `CodesStayApart`).
- A swipe whose writes break off after the first leaves its key pressed.
- Exits 3 to 5 of the probe leave the trusted application loaded.
- An empty argument of `verify_bootloader` compares as 0: every device has at
  least that.
- The IMPU is cut at 255 bytes, possibly within a UTF-8 character.
- A truncated packed table ends `derive_face_blob_abi.py` with an `IndexError`
  rather than one of its messages; no header is written either way.

## 4. Theorems

All proofs are by an inductive invariant checked leaf by leaf; the assumptions
on constants are the `ASSUME`s of the modules.

- **Bridge** (`ImsModemBridgeProofs`, `BridgeStepProofs`). `IInv` is `TypeOK`,
  `RegisteredOK` and, for each slot, `RecordOK`, `LooperOK` and `RildOK`. The
  invariants the runs check are not inductive. `NoSilentDeath` speaks of dead
  channels; a step keeps it only because *every* bound channel is linked or
  reported, alive or not. `NoStalledChain` needs that a message is both queued
  and off the queue only for a first attempt, so that the one the looper holds
  cannot be the last of its chain and drop the other. `CallbackIsOurs` needs
  that servicemanager answers a name with a started instance of that name. The
  invariants follow from `IInv`, and so do the action properties, one of
  them with `NoticesDead` (an obituary speaks of a dead channel). The refinement
  is proved slot by slot: each step of the bridge moves a slot as a step of
  `ChannelSupervisor` does, or leaves it (`Moves`, `SlotStep`).
- **Lockout** (`FingerprintLockoutProofs`). `EarnedInv` adds to `TypeOK` what a
  thread holds where (`LoadOK`, `PlaceOK`), that of a reset in the middle the
  history is not yet settled (`ResetOK`), and, unless the mode is tainted, that
  the count, and one loaded and not yet stored, never exceed the failures
  (`CountOK`), and that a mode, and a thread on its way to set or announce one,
  are earned (`ModeOK`): a racing increment can lose failures, not invent them.
  `SerialInv` adds where each kind of thread can be (`PlaceOK`) and, as long as
  nothing overlapped, that one thread at most is in a call, one timer at most
  lives, and it lives exactly if the flag is set or about to be (`SerialOK`).
  `KnowInv` extends it by what the running call knows: the mode it has read is
  the tracker's (`SawOK`), a mode the client was not told of is about to be told
  by that call (`ToldOK`), at the permanent threshold the mode is permanent or
  about to be (`CountedOK`, `PermanentOK`), and under a permanent lockout a
  sleeping timer has been aborted (`AbortedOK`). `ClientKnowsMode` is what is
  left of that when no call runs, `PermanentOutlastsTimers` what a step may do.
- **Sessions** (`FingerprintSessionProofs`). `OwnInv` adds that only an open
  session is linked and only the current one is open (`LinkOK`), and that the
  call the thread is in heads the queue (`CallOK`). `LinkedIsCurrent` alone does
  not say that `close` takes the link along. `CallInv` adds the order of the
  queue: a living client has one call in it at most (`OneCallOK`), and the close
  or the notice that ends an open session is ahead of every `createSession`
  (`NoticeOK`, `CreateOK`), unless a session was created for a client that was
  already dead. It also counts answers: a `CAPTURE_READY` is on its way only
  for the request that waits, and the flag is clear when the request is made
  (`AwaitOK`). `StreamOK` reads what has been collected, the report in the
  vendor thread's hands and those to come as one chain in which each report can
  follow the one before.
- **Operations** (`FingerprintOperationsProofs`). First a lemma on the shape of
  a step: it leaves the panel's memory alone (`Quiet`) or does one of a few
  things to it (`OnPanel`); the lemmas on the panel go over the latter only.
  `HeldOK` says which thread can hold an object where, `AloneOK` that until the
  threads have met there, one at most is at the pointer, and what it holds is
  not freed. `LitOK` and `GivenBackOK` follow the brightness through the middle
  of a touch, which `PanelFollowsTouch` does not see: that it is raised, also
  after a second pointer down or a node that was not read, and that it is given
  back, if nothing befell the touch (`mixed` is empty). `WaitOK` relates what the client waits for to what the library runs
  at every step of a call, `FodOK` the switch to both, each unless `astray`.
- **Walk** (`SeamCheckProofs`). `WalkInv`: all that a visited library needs is
  seen or pending, and all that is seen or pending lies in every closed set.
  At the end the seen names are the least closed set, for any number of
  libraries and any lists; the verdict follows.
- **Packer** (`UpParamPackProofs`). `PackInv` adds to `TypeOK` that whatever was
  renamed is complete *and synced*, in memory and on the disk; without "synced"
  a power loss breaks it. That the image installed is the run's own, not one that a
  killed run left under the temporary name, holds because `open` emptied that.
  `BuildsExactly`, with its part that the archive and the blocks that close it
  fit in the partition, is proved for every size of every member and every
  reference (`InputAssumption`). `Ends` and the walk of `Headers` are recursive
  functions: each is first shown to exist (`FillingExists`, `WalkExists`), since
  a `CHOOSE` says nothing otherwise. `EndsGrow` has the ends strictly increasing, so no two
  headers share a place; `WalkFinds`, from the last header to the first, has the
  walk find the headers that are left, in order, and the end, unless that is cut
  off. No induction theorem of the library can be instantiated here: each
  induction is on a least counterexample (`LeastNat`).
- **The small programs** (`DeviceToolsProofs`). `ToolsInv` is one invariant per
  program. Probe: the engine lives because the probe's own reference is there
  from the first call to the last; what it has seen is exactly what lies before
  the camera and surface it looks at, and it has said nothing as long as all of
  that is stock. Face: what was built agrees with the
  guards, and with that the bytes of the fields lie apart (`FieldsLieApart`) and
  the tables are found (`TablesAreFound`). Gate: the result compares the name,
  whosever it is. Panic: the property
  is one of the two reasons bootstat gave. Frames: byte by byte what a frame is
  made of, for addresses of any length.
- **Packed relocations** (`DeviceToolsProofs`, too). `MeasuresOrRefuses` is
  proved for every table, every grouping of it and every end that is cut or one
  byte too long. Three recursive functions are first shown to exist (a number's
  bytes, the reading of one, the bytes of a table). A number is read back as it was
  written, and the reader stops behind it, or at 0 if its bytes are cut off. `AbiInv`
  says with that that the decoder is in step (`InStep`): with the first entries
  of the table decoded it stands where the linker wrote the next, its running
  values those of the relocation before, and the entries left in the group are
  the ones the linker put there; or the bytes were cut and it has run off. A
  complete table so ends at its last byte, with the table; one byte more leaves
  the decoder short of the end, and both refuse or write as they should. What is
  assumed is `LibraryAssumption`: that the relocations, if nothing is missing or
  said twice, lead to the layout that was compiled. TLC checks that part.

Proved without a run of their own: `LossStartsRebind`, `ChannelLossStartsRebind`
and `ChainEndsForAReason` (bridge), `ClosureExact` (walk) and `RecoveryNeedsPanic`.

**Only model-checked.** Liveness (`ChainEnds`, `RebindRestoresCallback`,
`TimerEndsLockout`, `ClosedAfterDeath`, `EnrollEnds`, `WalkEnds`,
`PanicIsRouted`), which is beyond the prover. Every safety property of a run has
its theorem.

## 5. Plan, and what is not modelled

Built, in this order: the bridge with its abstract specification, the lockout,
sessions, the walk, the packer, the fingerprint operations with the library's
binding, the small programs. To come: a composition of `FingerprintSession` and
`FingerprintLockout`, for timers that hold the raw pointer of a session that has
been replaced (`Session.cpp` 412).

**Not modelled, and why.** `setFodRect`, written once at start when a property is
set that this device leaves unset. The copy of a token's fields in
`Legacy2Aidl.h`, the bit mask of `UdfpsExtension.cpp` and `getSensorProps`: no
state, no decision. `render.py` draws pictures; `extract-files.py` is a table of
fixups for a tool that is not here; `releasetools.py` copies a version from a
text file into a script; the readers of ELF files are the input of the models
that use them; the configuration is read by programs that are not here. The
vendor libraries are binaries, and appear as external actions with what the code
relies on.
