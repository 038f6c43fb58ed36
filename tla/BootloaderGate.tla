--------------------------- MODULE BootloaderGate ----------------------------
(***************************************************************************)
(* The update package asserts a lowest firmware version.  The updater      *)
(* takes the version from the name of the bootloader, the fourth character *)
(* from its end, and compares it with the first character of the argument. *)
(***************************************************************************)
EXTENDS Integers, Sequences

CONSTANTS Letters,       \* bound: letters of a version, as numbers
          ForeignNames,  \* what another bootloader may call itself
          Arguments      \* what a package may ask for

ASSUME LettersAssumption == Letters \subseteq Nat \ {0} /\ 1 \in Letters
ASSUME NamesAssumption == ForeignNames \subseteq Seq(Letters)
ASSUME ArgumentsAssumption == Arguments \subseteq Seq(Letters)

(* A firmware: Samsung's name of it ends in its major version, year, month *)
(* and build; the rest, which says the model, may be left out here.        *)
Firmware == [major : Letters, year : Letters, month : Letters]
Name(fw) == <<1, fw.major, fw.year, fw.month, 1>>

VARIABLES
  firmware,    \* of the device
  bootloader,  \* ro.boot.bootloader: a firmware's name, or another's
  required,    \* the package's argument: characters
  result       \* "none", "abort", or the value of the assertion

gateVars == <<firmware, bootloader, required, result>>

GateInit ==
  /\ firmware = [major |-> 1, year |-> 1, month |-> 1]
  /\ bootloader = <<>> /\ required = <<>> /\ result = "none"

Boots(fw, name) ==
  /\ result = "none"
  /\ bootloader = <<>>
  /\ firmware' = fw /\ bootloader' = name
  /\ UNCHANGED <<required, result>>

(* VerifyBootloader; character 0 of an empty string is its terminator. *)
First(arg) == IF arg = <<>> THEN 0 ELSE arg[1]
Version_third(name) == IF Len(name) >= 3 THEN name[Len(name) - 2] ELSE 0
Version(name) == IF Len(name) >= 4 THEN name[Len(name) - 3] ELSE 0

VerifyBootloader(arg, readable) ==
  /\ result = "none"
  /\ required' = arg
  /\ result' = IF bootloader = <<>> \/ ~readable THEN "abort"
               ELSE IF Version(bootloader) >= First(arg) THEN "1" ELSE "0"
  /\ UNCHANGED <<firmware, bootloader>>

GateNext ==
  \/ \E fw \in Firmware : \E name \in {Name(fw)} \cup ForeignNames : Boots(fw, name)
  \/ \E arg \in Arguments, readable \in BOOLEAN : VerifyBootloader(arg, readable)

GateTypeOK ==
  /\ firmware \in Firmware /\ bootloader \in Seq(Letters) /\ required \in Seq(Letters)
  /\ result \in {"none", "abort", "0", "1"}

(* A package that names a version is installed on Samsung's firmware if    *)
(* and only if that is of at least the major version, whatever its year    *)
(* and month and whatever else the package asks for; and on no device      *)
(* whose bootloader has a name too short for a version.  A longer name of  *)
(* another bootloader is taken for a firmware's: nothing is claimed of it. *)
InstallsOnEnough ==
  result \in {"0", "1"} /\ required # <<>> =>
    /\ bootloader = Name(firmware) => (result = "1" <=> firmware.major >= required[1])
    /\ Len(bootloader) < 4 => result = "0"
=============================================================================
