---------------------------- MODULE MCDeviceTools ----------------------------
(* Model-checking instance of DeviceTools: the layout the libraries expect, *)
(* and layouts that are off in one field; a surface may be smaller.        *)
EXTENDS DeviceTools

Drifted(f, n) == [Expected EXCEPT ![f] = n]
SomeLayouts ==
  {Expected, Drifted("surfaceSize", 8000), Drifted("surfaceSize", 8176)}
  \cup {Drifted(f, Expected[f] + 8) : f \in DOMAIN Expected}

(* Names on either side of the four characters, of the lowest and the       *)
(* highest letter, and an argument of none to two, of which the updater     *)
(* reads one.                                                               *)
SomeNames == UNION {[1 .. n -> {1, 3}] : n \in 0 .. 5}
SomeArguments == UNION {[1 .. n -> Letters] : n \in 0 .. 2}

(* Addresses around the greatest length that fits in a byte. *)
SomeImpus == {[i \in 1 .. n |-> 1 + (i % 255)] : n \in {0, 1, 2, 254, 255, 256, 257, 300}}

(* A libgui with this device's layout but a VTT of four slots, one of them  *)
(* for a construction vtable.  A slot's pointer is stored, or made by a     *)
(* relocation of either kind; three at most, the relative ones first.       *)
Compiled ==
  [primaryVTable |-> 24, bbinderVTable |-> 416, refBaseVTable |-> 608,
   bbinderAt |-> 8, refBaseAt |-> 104, vttSize |-> 32, h2bSize |-> 120,
   surfaceSize |-> 8160]
H2B == 4096
VTTAt == 200
Construction == 6000
Pointers == <<H2B + 24, H2B + 416, Construction, H2B + 608>>
Words(stored) ==
  [a \in {H2B + 8 * k : k \in 0 .. 79} \cup {VTTAt + 8 * k : k \in 0 .. 3} |->
    CASE a = H2B -> 104 [] a = H2B + 400 -> -8 [] a = H2B + 592 -> -104
      [] a \in VTTAt .. VTTAt + 24 -> stored[(a - VTTAt) \div 8 + 1] [] OTHER -> 0]
Rel(k, how) ==
  [offset |-> VTTAt + 8 * (k - 1),
   info |-> CASE how = "relative" -> 1027
              [] how = "symbol" /\ Pointers[k] = Construction -> 2 * 2048 + 257
              [] OTHER -> 2048 + 257,
   addend |-> CASE how = "relative" -> Pointers[k]
                [] how = "symbol" /\ Pointers[k] = Construction -> 0
                [] OTHER -> Pointers[k] - H2B]
Die(tag, class, where, size) == [tag |-> tag, class |-> class, header |-> where, size |-> size]
Dies ==
  {Die("class", "h2b", "h2b", {120}), Die("class", "h2b", "h2b", {}),
   Die("class", "h2b", "h2b 2.0", {136}),
   Die("typedef", "surface", "surface", {8}), Die("class", "surface", "surface", {8160})}
Library(how) ==
  LET by(h) == SelectSeq(<<1, 2, 3, 4>>, LAMBDA k : how[k] = h)
      order == by("relative") \o by("symbol")
  IN
  [vtable |-> {[at |-> H2B, size |-> 640]}, vtt |-> {[at |-> VTTAt, size |-> 32]},
   bbinderAt |-> {8}, symbols |-> <<H2B, Construction>>, dies |-> Dies,
   words |-> Words([k \in 1 .. 4 |-> IF how[k] = "stored" THEN Pointers[k] ELSE 0]),
   rels |-> [i \in DOMAIN order |-> Rel(order[i], how[order[i]])],
   extra |-> 0, compiled |-> {Compiled}]
Whole ==
  {Library(how) : how \in {h \in [1 .. 4 -> {"stored", "relative", "symbol"}] :
                            \E k \in 1 .. 4 : h[k] = "stored"}}

(* And ones that no constants should come of. *)
Odd0 == [Library(<<"relative", "symbol", "symbol", "stored">>) EXCEPT !.compiled = {}]
Unfit ==
  {[Odd0 EXCEPT !.extra = -1], [Odd0 EXCEPT !.extra = 1],
   [Odd0 EXCEPT !.bbinderAt = {}],
   [Odd0 EXCEPT !.vtt = @ \cup {[at |-> VTTAt + 8, size |-> 32]}],
   [Odd0 EXCEPT !.words[H2B] = 0],
   [Odd0 EXCEPT !.words[H2B + 592] = -8], [Odd0 EXCEPT !.words[H2B + 592] = -16],
   [Odd0 EXCEPT !.words[VTTAt + 24] = 0], [Odd0 EXCEPT !.rels[1].info = 1025],
   [Odd0 EXCEPT !.dies = Dies \cup {Die("structure", "h2b", "h2b", {128})}]}
SomeLibraries == Whole \cup Unfit
=============================================================================
