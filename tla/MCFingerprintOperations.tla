---------------------- MODULE MCFingerprintOperations -----------------------
(* Model-checking instance of FingerprintOperations: this device's own     *)
(* settings, with a library that has everything, or no function request;   *)
(* devices with a rear sensor, gestures and a library that counts in per   *)
(* cent and lacks one function or another; a device with no library.       *)
EXTENDS FingerprintOperations

ThisDevice == [type |-> "udfps_optical", gestures |-> FALSE, touchEvent |-> TRUE,
               percentage |-> FALSE, cancelOnCompletion |-> FALSE, lacks |-> {}]
RearSensor == [type |-> "rear", gestures |-> TRUE, touchEvent |-> FALSE,
               percentage |-> TRUE, cancelOnCompletion |-> TRUE, lacks |-> {}]
SomeDevices ==
  {ThisDevice, [ThisDevice EXCEPT !.lacks = {"request"}]}
  \cup {[RearSensor EXCEPT !.lacks = fs] :
          fs \in {{}, {"enumerate"}, {"cancel"}, {"open"}, HalFunctions}}
SomeAccidents == {{}, {"nested"}, {"unread"}, {"moved"}, {"nested", "unread"}}
SomeErrors == {-100, 2, 7, 999, 1007}
SomeAcquired == {-1, 2, 1002, 10010}
=============================================================================
