--------------------------- MODULE FingerprintHal ---------------------------
(***************************************************************************)
(* The fingerprint service comes up: it loads the vendor library, binds    *)
(* its functions by name, and sets up a uinput device for swipe gestures.  *)
(* A step that fails is logged; the service is registered all the same.    *)
(* Once it serves, a swipe the library reports is typed as a key.          *)
(*                                                                         *)
(* A call of a function the library does not have, or of any function when *)
(* there is no library (the pointers have no initialiser), is a crash.     *)
(***************************************************************************)
EXTENDS VendorTranslation

CONSTANT Devices  \* ro.vendor.fingerprint properties, and the vendor library

HalFunctions ==
  {"open", "close", "set_notify_callback", "pre_enroll", "enroll", "post_enroll",
   "get_auth_id", "cancel", "enumerate", "remove", "set_active_group",
   "authenticate", "request"}

(* lacks: the functions the library does not have; HalFunctions: no library.  *)
Device == [type : SensorTypeNames, gestures : BOOLEAN, touchEvent : BOOLEAN,
           percentage : BOOLEAN, cancelOnCompletion : BOOLEAN,
           lacks : SUBSET HalFunctions]

ASSUME DevicesAssumption == Devices \subseteq Device

VARIABLES
  device,     \* constant in a behaviour
  phase,      \* "loading", "setup", "serving" or "crashed"
  bound,      \* the function pointers that are not null
  registered, \* the library has accepted Fingerprint::notify
  uinput,     \* the uinput node: "closed", "open" or a "device"
  keysDown,   \* keys the input system holds for pressed
  cut         \* history: keys of a swipe that broke off

library == <<device, bound, registered>>
gestures == <<uinput, keysDown, cut>>
halVars == <<phase, library, gestures>>

Udfps == device.type \in {"udfps", "udfps_optical"}
Optical == device.type = "udfps_optical"
Serving == phase = "serving"
Keys == {"up", "down"}

HalInit ==
  /\ device \in Devices
  /\ phase = "loading" /\ bound = {} /\ registered = FALSE
  /\ uinput = "closed" /\ keysDown = {} /\ cut = {}

(* The phase after calls of all functions in fs. *)
After(fs, next) == IF fs \subseteq bound THEN next ELSE "crashed"

(* LegacyHAL::openHal: the constructor only logs it when there is no       *)
(* library, or when opening it or setting the callback is an error.        *)
OpenHal ==
  /\ phase = "loading"
  /\ bound' = HalFunctions \ device.lacks
  /\ \/ bound' = {} /\ phase' = "setup" /\ UNCHANGED registered
     \/ "open" \in bound' /\ phase' = "setup" /\ UNCHANGED registered
     \/ /\ {"open", "set_notify_callback"} \subseteq bound'
        /\ phase' = "setup" /\ registered' = TRUE
     \/ /\ bound' # {} /\ ~{"open", "set_notify_callback"} \subseteq bound'
        /\ phase' = "crashed" /\ UNCHANGED registered
  /\ UNCHANGED <<device, gestures>>

(* The constructor: navigation mode, then four calls each of which may     *)
(* skip the rest of the setup; main registers the service after it.        *)
SetUp ==
  /\ phase = "setup"
  /\ \/ ~device.gestures /\ phase' = "serving" /\ UNCHANGED uinput
     \/ /\ device.gestures
        /\ phase' = After({"request"}, "serving")
        /\ uinput' \in {"closed", "open", "device"}
  /\ UNCHANGED <<library, keysDown, cut>>

-----------------------------------------------------------------------------
(* Fingerprint::handleEvent, a swipe: press, SYN, release, SYN; a write    *)
(* that fails ends it.  Only a device takes any of them.                   *)
Written == IF uinput = "device" THEN 0 .. 4 ELSE {0}

HandleSwipe(key) ==
  /\ Serving /\ registered /\ device.gestures
  /\ \E n \in Written :
       /\ keysDown' = (IF n > 0 THEN keysDown \cup {key} ELSE keysDown)
                        \ (IF n > 2 THEN {key} ELSE {})
       /\ cut' = IF n = 4 THEN cut \ {key} ELSE cut \cup {key}
  /\ UNCHANGED <<phase, library, uinput>>

(* There is no library, or it lacks a function the service calls untested. *)
LibraryLacks == ~(device.lacks \subseteq {"enumerate", "close"})

HalTypeOK ==
  /\ device \in Devices
  /\ phase \in {"loading", "setup", "serving", "crashed"}
  /\ bound \subseteq HalFunctions /\ registered \in BOOLEAN
  /\ uinput \in {"closed", "open", "device"}
  /\ keysDown \subseteq Keys /\ cut \subseteq Keys
=============================================================================
