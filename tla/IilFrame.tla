------------------------------ MODULE IilFrame -------------------------------
(***************************************************************************)
(* The two frames the IMS bridge sends to rild: seven bytes of header, the *)
(* total length first, and a body of fields at fixed places.  The longest, *)
(* the IMPU, has one byte for its length in front of 256 for its text.     *)
(*                                                                         *)
(* A byte is a number below 256, as rild reads it.  The address is the     *)
(* bytes of its UTF-8 form; none at all is sent like an empty one.         *)
(***************************************************************************)
EXTENDS Integers, Sequences

CONSTANT Impus  \* addresses, as bytes

Bytes == 0 .. 255
ASSUME ImpusAssumption == Impus \subseteq Seq(Bytes)

VARIABLES
  request,  \* what the client said, or NoRequest
  frame     \* the frame made of it

frameVars == <<request, frame>>

HEADER_LEN == 7
MAIN_IIL == 112
SUB_REGISTRATION == 1
SUB_PREFERENCE == 6
TYPE_NOTI == 3

REG_BODY_LEN == 268
REG_STATE == 0
REG_FEATURES == 1
REG_PDN_TYPE == 2
REG_IMPU_LEN == 10
REG_IMPU == 11
REG_RAT == 267
MAX_IMPU_UTF8_field == 256
MAX_IMPU_UTF8 == 255
PREF_BODY_LEN == 14
UNSET == 255

FEATURE_VOLTE == 1
FEATURE_SMSIP == 2
FEATURE_PSVT == 8
SUPPORT_VOLTE == 1
SUPPORT_VIDEO == 2

(* Of the bridge's interface: LTE, IWLAN, NR; and the modem's numbers. *)
ModemRat(rilRat) ==
  CASE rilRat = 14 -> 13 [] rilRat = 18 -> 18 [] rilRat = 20 -> 20 [] OTHER -> 0
RilRats == {14, 18, 20}

NoRequest == [kind |-> "none"]
Registrations ==
  [kind : {"registration"}, registered : BOOLEAN, rilRat : RilRats \cup {0},
   volte : BOOLEAN, smsIp : BOOLEAN, video : BOOLEAN, impu : Impus]
Preferences ==
  [kind : {"preference"}, volte : BOOLEAN, video : BOOLEAN, smsOverIms : BOOLEAN]

If(flag, bit) == IF flag THEN bit ELSE 0

(* A zeroed frame with the header filled in *)
Frame(sub, bodyLen) ==
  LET total == HEADER_LEN + bodyLen IN
  [[i \in 0 .. total - 1 |-> 0] EXCEPT
     ![0] = total % 256, ![1] = (total \div 256) % 256,
     ![4] = MAIN_IIL, ![5] = sub, ![6] = TYPE_NOTI]

RegistrationFeatures(r) ==
  IF ~r.registered THEN 0
  ELSE If(r.volte, FEATURE_VOLTE) + If(r.smsIp, FEATURE_SMSIP) + If(r.video, FEATURE_PSVT)

(* System.arraycopy of the first n of seq's elements *)
Copied(buf, place, seq, n) ==
  [i \in DOMAIN buf |-> IF i \in place .. place + n - 1 THEN seq[i - place + 1]
                                                        ELSE buf[i]]

Impu(r) == IF r.registered THEN r.impu ELSE <<>>
ImpuLen(impu) == IF Len(impu) < MAX_IMPU_UTF8 THEN Len(impu) ELSE MAX_IMPU_UTF8

Registration(r) ==
  LET impu == Impu(r)
      impuLen == ImpuLen(impu)
      fields == [Frame(SUB_REGISTRATION, REG_BODY_LEN) EXCEPT
                   ![HEADER_LEN + REG_STATE] = If(r.registered, 1),
                   ![HEADER_LEN + REG_FEATURES] = RegistrationFeatures(r),
                   ![HEADER_LEN + REG_PDN_TYPE] = 11,
                   ![HEADER_LEN + REG_IMPU_LEN] = impuLen % 256]
  IN [Copied(fields, HEADER_LEN + REG_IMPU, impu, impuLen) EXCEPT
        ![HEADER_LEN + REG_RAT] = ModemRat(r.rilRat)]

Preference(r) ==
  Copied(Frame(SUB_PREFERENCE, PREF_BODY_LEN), HEADER_LEN,
         <<0, If(r.smsOverIms, 1), 0, UNSET, 3, 1, 3, 1, 0, UNSET,
           If(r.volte, SUPPORT_VOLTE) + If(r.video, SUPPORT_VIDEO), 10, 1, 3>>,
         PREF_BODY_LEN)

-----------------------------------------------------------------------------
FrameInit == request = NoRequest /\ frame = <<>>

(* The encoder keeps nothing from one frame to the next: one is enough. *)
SendRegistration(r) ==
  /\ request = NoRequest
  /\ request' = r /\ frame' = Registration(r)
SendPreference(r) ==
  /\ request = NoRequest
  /\ request' = r /\ frame' = Preference(r)

FrameNext ==
  \/ \E r \in Registrations : SendRegistration(r)
  \/ \E r \in Preferences : SendPreference(r)

FrameTypeOK ==
  \/ request = NoRequest /\ frame = <<>>
  \/ request \in Registrations /\ frame \in [0 .. HEADER_LEN + REG_BODY_LEN - 1 -> Bytes]
  \/ request \in Preferences /\ frame \in [0 .. HEADER_LEN + PREF_BODY_LEN - 1 -> Bytes]

(* Who reads a frame by its own length bytes and the places of its fields  *)
(* gets what the client said; of an address of more than 255 bytes the     *)
(* first 255, and no byte of it where another field is.                    *)
Body(n) == frame[HEADER_LEN + n]
Has(n, bit) == (Body(n) \div bit) % 2 = 1
LengthReads == DOMAIN frame = 0 .. frame[0] + 256 * frame[1] - 1

RegistrationReads ==
  request.kind = "registration" =>
    /\ frame[5] = SUB_REGISTRATION
    /\ Body(REG_STATE) = 1 <=> request.registered
    /\ Has(REG_FEATURES, FEATURE_VOLTE) <=> request.registered /\ request.volte
    /\ Has(REG_FEATURES, FEATURE_SMSIP) <=> request.registered /\ request.smsIp
    /\ Has(REG_FEATURES, FEATURE_PSVT) <=> request.registered /\ request.video
    /\ \A other \in RilRats \ {request.rilRat} : Body(REG_RAT) # ModemRat(other)
AddressReads ==
  request.kind = "registration" =>
    /\ Body(REG_IMPU_LEN) <= Len(Impu(request))
    /\ Body(REG_IMPU_LEN) < Len(Impu(request)) => Body(REG_IMPU_LEN) = 255
    /\ \A i \in 1 .. Body(REG_IMPU_LEN) : Body(REG_IMPU + i - 1) = Impu(request)[i]
    /\ \A i \in Body(REG_IMPU_LEN) + 1 .. 256 : Body(REG_IMPU + i - 1) = 0
PreferenceReads ==
  request.kind = "preference" =>
    /\ frame[5] = SUB_PREFERENCE
    /\ Body(1) = 1 <=> request.smsOverIms
    /\ Has(10, SUPPORT_VOLTE) <=> request.volte
    /\ Has(10, SUPPORT_VIDEO) <=> request.video

FrameReadsBack ==
  request # NoRequest =>
    LengthReads /\ RegistrationReads /\ AddressReads /\ PreferenceReads
=============================================================================
