----------------------------- MODULE SeamCheck ------------------------------
(***************************************************************************)
(* verify-seam.py: is the probe binary bounded by the face seam?  It walks *)
(* the DT_NEEDED entries from the probe, keeps the libraries it found in   *)
(* closure and those no root holds in unresolved, and then judges.         *)
(*                                                                         *)
(* The ELF files are the input: which libraries the roots hold, what each  *)
(* needs, what the seam's libraries define, what the probe imports.  Only  *)
(* the probe's imports with a prefix that part 4 looks at are kept.        *)
(***************************************************************************)
EXTENDS Sequences, Naturals, SequencesExt

CONSTANTS Sonames,          \* library names
          Symbols,          \* C++ symbols
          DirectAllowed,    \* PROBE_DIRECT_DEPENDENCIES
          Forbidden,        \* FORBIDDEN_IN_CLOSURE
          Seam,             \* SEAM: the symbols each vendor library provides
          PlatformImports,  \* ALLOWED_PLATFORM_CXX_IMPORTS
          NeededLists       \* bound: the DT_NEEDED lists considered

ASSUME SeamAssumption ==
  /\ DirectAllowed \subseteq Sonames /\ Forbidden \subseteq Sonames
  /\ \E L \in SUBSET Sonames : Seam \in [L -> SUBSET Symbols]
  /\ PlatformImports \subseteq Symbols
  /\ NeededLists \subseteq Seq(Sonames)

VARIABLES
  found,       \* input: sonames some root holds a file for
  needed,      \* input: DT_NEEDED of the library of each soname
  defined,     \* input: what each library of the seam defines of its share
  direct,      \* input: DT_NEEDED of the probe
  imports,     \* input: undefined symbols of the probe
  closure, unresolved, pending,
  verdict      \* "none" before the end, "pass" or "fail"

inputs == <<found, needed, defined, direct, imports>>
seamVars == <<inputs, closure, unresolved, pending, verdict>>

SeamInit ==
  /\ found \in SUBSET Sonames
  /\ needed \in [Sonames -> NeededLists]
  /\ defined \in [DOMAIN Seam -> SUBSET Symbols]
  /\ \A l \in DOMAIN Seam : defined[l] \subseteq Seam[l]
  /\ direct \in NeededLists
  /\ imports \in SUBSET Symbols
  /\ closure = {} /\ unresolved = {}
  /\ pending = direct
  /\ verdict = "none"

-----------------------------------------------------------------------------
(* The body of the while loop, by what becomes of the name it pops.        *)
Seen == closure \cup unresolved

Skip_unpopped ==
  /\ pending # <<>> /\ Last(pending) \in Seen
  /\ UNCHANGED seamVars
Skip ==
  /\ pending # <<>> /\ Last(pending) \in Seen
  /\ pending' = Front(pending)
  /\ UNCHANGED <<inputs, closure, unresolved, verdict>>

Miss_path ==
  /\ pending # <<>> /\ Last(pending) \notin Seen \cup found
  /\ unresolved' = unresolved \cup {"None"}
  /\ pending' = Front(pending)
  /\ UNCHANGED <<inputs, closure, verdict>>
Miss ==
  /\ pending # <<>> /\ Last(pending) \notin Seen \cup found
  /\ unresolved' = unresolved \cup {Last(pending)}
  /\ pending' = Front(pending)
  /\ UNCHANGED <<inputs, closure, verdict>>

Visit ==
  LET soname == Last(pending) IN
  /\ pending # <<>> /\ soname \in found \ Seen
  /\ closure' = closure \cup {soname}
  /\ pending' = Front(pending) \o needed[soname]
  /\ UNCHANGED <<inputs, unresolved, verdict>>

(* What the four checks add to failures. *)
LinksOutside == ~(Range(direct) \subseteq DirectAllowed)
ForbiddenSeen_resolvedOnly == Forbidden \cap closure # {}
ForbiddenSeen == Forbidden \cap Seen # {}
SeamBroken ==
  \E l \in DOMAIN Seam :
    l \notin closure \/ ~(Seam[l] \subseteq defined[l] \cap imports)
Declared == UNION {Seam[l] : l \in DOMAIN Seam}
CreptIn == ~(imports \subseteq Declared \cup PlatformImports)

Judge ==
  /\ pending = <<>> /\ verdict = "none"
  /\ verdict' = IF LinksOutside \/ ForbiddenSeen \/ SeamBroken \/ CreptIn
                  THEN "fail" ELSE "pass"
  /\ UNCHANGED <<inputs, closure, unresolved, pending>>

SeamNext == Skip \/ Miss \/ Visit \/ Judge

SeamSpec == SeamInit /\ [][SeamNext]_seamVars
-----------------------------------------------------------------------------
(* Type invariant of the walk. *)
SeamTypeOK ==
  /\ found \subseteq Sonames
  /\ needed \in [Sonames -> Seq(Sonames)]
  /\ defined \in [DOMAIN Seam -> SUBSET Symbols]
  /\ direct \in Seq(Sonames) /\ imports \subseteq Symbols
  /\ closure \subseteq Sonames /\ unresolved \subseteq Sonames
  /\ pending \in Seq(Sonames)
  /\ verdict \in {"none", "pass", "fail"}

(***************************************************************************)
(* Reference: a set of libraries is closed from the probe if it holds what *)
(* the probe needs and what each member that could be read needs; what is  *)
(* in all of these is reachable.                                           *)
(***************************************************************************)
ClosedUnder(X, readable) ==
  /\ Range(direct) \subseteq X
  /\ \A s \in X \cap readable : Range(needed[s]) \subseteq X
Reachable(readable) == {s \in Sonames : \A X \in SUBSET Sonames :
                                          ClosedUnder(X, readable) => s \in X}

(* When the walk ends it has seen exactly what is reachable through the    *)
(* libraries the roots hold, however the DT_NEEDED entries repeat, branch  *)
(* or run in circles, and closure is the part that was found.              *)
ClosureExact ==
  pending = <<>> =>
    Seen = Reachable(found) /\ closure = Reachable(found) \cap found

(* What the script's four conditions mean, in terms of the reference: with  *)
(* readable = found, of the libraries it can read.                         *)
Bounded(readable) ==
  /\ Range(direct) \subseteq DirectAllowed
  /\ Reachable(readable) \cap Forbidden = {}
  /\ DOMAIN Seam \subseteq Reachable(readable) \cap readable
  /\ \A l \in DOMAIN Seam : Seam[l] \subseteq defined[l] /\ Seam[l] \subseteq imports
  /\ imports \subseteq Declared \cup PlatformImports

(* The script prints PASS for the probes bounded as far as the roots show,  *)
(* and FAIL for the others: no order of the walk and no repetition lets a  *)
(* forbidden library or a stray import slip by.  This is less than the     *)
(* docstring says, in two places: a probe with fewer direct dependencies   *)
(* than the seam's passes, and what an unresolved library needs is unknown *)
(* (ClosureIsClean).                                                       *)
VerdictExact == verdict # "none" => (verdict = "pass" <=> Bounded(found))

(* The docstring: a PASS means that "nothing in the whole transitive       *)
(* closure" is forbidden, what no root holds included.                     *)
ClosureIsClean == verdict = "pass" => Reachable(Sonames) \cap Forbidden = {}
=============================================================================
