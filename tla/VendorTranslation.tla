-------------------------- MODULE VendorTranslation -------------------------
(***************************************************************************)
(* The values that cross the border between Samsung's library and the AIDL *)
(* client: error and acquired codes, events, sample counts, tokens.        *)
(* Results are named as in the AIDL enumerations; the numbers of the old   *)
(* interface (hardware/fingerprint.h) are external.                        *)
(***************************************************************************)
EXTENDS Integers, Sequences

FINGERPRINT_ERROR_LOCKOUT == 7
FINGERPRINT_ERROR_VENDOR_BASE == 1000
FINGERPRINT_ACQUIRED_VENDOR_BASE == 1000

(* FINGERPRINT_ERROR_HW_UNAVAILABLE = 1 and what follows *)
StandardErrors ==
  <<"HW_UNAVAILABLE", "UNABLE_TO_PROCESS", "TIMEOUT", "NO_SPACE", "CANCELED",
    "UNABLE_TO_REMOVE">>
(* FINGERPRINT_ACQUIRED_GOOD = 0 and what follows *)
StandardAcquired ==
  <<"GOOD", "PARTIAL", "INSUFFICIENT", "SENSOR_DIRTY", "TOO_SLOW", "TOO_FAST">>

(* SEM_FINGERPRINT_...: what this vendor adds *)
SemErrors == 1001 .. 1007 \cup 5000 .. 5004 \cup {-100}
SemAcquired == 1001 .. 1005
SEM_FINGERPRINT_EVENT_BASE == 10000
SemEvents == 10001 .. 10009 \cup 20001 .. 20004 \cup 30001 .. 30002

Said(result, code) == [result |-> result, vendorCode |-> code]

VendorErrorFilter_noLockout(error) ==
  IF error \in 1 .. 6 THEN Said(StandardErrors[error], 0)
  ELSE IF error >= FINGERPRINT_ERROR_VENDOR_BASE
         THEN Said("VENDOR", error - FINGERPRINT_ERROR_VENDOR_BASE)
  ELSE Said("UNABLE_TO_PROCESS", 0)
VendorErrorFilter(error) ==
  IF error \in 1 .. 6 THEN Said(StandardErrors[error], 0)
  ELSE IF error = FINGERPRINT_ERROR_LOCKOUT THEN Said("VENDOR", error)
  ELSE IF error >= FINGERPRINT_ERROR_VENDOR_BASE
         THEN Said("VENDOR", error - FINGERPRINT_ERROR_VENDOR_BASE)
  ELSE Said("UNABLE_TO_PROCESS", 0)

VendorAcquiredFilter(info) ==
  IF info \in 0 .. 5 THEN Said(StandardAcquired[info + 1], 0)
  ELSE IF info >= FINGERPRINT_ACQUIRED_VENDOR_BASE
         THEN Said("VENDOR", info - FINGERPRINT_ACQUIRED_VENDOR_BASE)
  ELSE Said("INSUFFICIENT", 0)

(* Fingerprint::notify: an acquired message that is an event in truth *)
IsEvent(info) == info > SEM_FINGERPRINT_EVENT_BASE

(* ro.vendor.fingerprint.type, and the type the constructor makes of it *)
SensorTypeNames == {"", "default", "rear", "udfps", "udfps_optical", "side", "home"}

(* FINGERPRINT_TEMPLATE_ENROLLING: a library may count up, in per cent *)
SamplesRemaining(percentage, reported) ==
  IF percentage THEN 100 - reported ELSE reported
=============================================================================
