------------------------------- MODULE BlobAbi -------------------------------
(***************************************************************************)
(* derive_face_blob_abi.py: the layout that the face library's guard       *)
(* compares, measured in a built libgui.  The places of the sub-tables are *)
(* in the pointers of the VTT, and these in relocations, which the linker  *)
(* packs: numbers of one byte or more, differences from the relocation     *)
(* before, and what a group has in common only once.  A decoder out of     *)
(* step reads other numbers, and they are numbers too.                     *)
(*                                                                         *)
(* A library is its symbols, the words that are mapped, its relocations,   *)
(* the classes in its debug information, and the layout it was compiled    *)
(* with, if all is well; reading the ELF file is left out.  Numbers here   *)
(* are far from 2^63: the mask of 64 bits and the end of sign extension    *)
(* there change none of them.                                              *)
(***************************************************************************)
EXTENDS Integers, Sequences, FiniteSets

CONSTANTS Libraries,   \* what a build may lead to
          INFO,        \* weight of the symbol in a relocation's info
          MaxGroups    \* bound: groups the linker makes of a table

VARIABLES
  libgui,    \* the library built, or <<>>
  packed,    \* the bytes of its packed relocations; <<>> before that
  cursor,    \* decode_android_rela's place and running values
  entries,   \* relocations decoded
  header     \* <<>>, <<"refused">> or <<"written", the constants>>

abiVars == <<libgui, packed, cursor, entries, header>>

R_AARCH64_ABS64 == 257
R_AARCH64_RELATIVE == 1027
SUBTABLE_HEADER_WORDS == 2

RELOCATION_GROUPED_BY_INFO == 1
RELOCATION_GROUPED_BY_OFFSET_DELTA == 2
RELOCATION_GROUPED_BY_ADDEND == 4
RELOCATION_GROUP_HAS_ADDEND == 8
IsSet(flags, flag) == (flags \div flag) % 2 = 1

-----------------------------------------------------------------------------
(* The linker: any grouping a reader of the format takes for the table. *)
Sleb128 ==
  LET bytes[n \in Int] == IF -64 <= n /\ n <= 63 THEN <<n % 128>>
                          ELSE <<128 + (n % 128)>> \o bytes[n \div 128]
  IN  bytes

(* Groups start at the places in DOMAIN flags. *)
Group(flags, i) == CHOOSE b \in DOMAIN flags :
                     b <= i /\ \A c \in DOMAIN flags : c <= i => c <= b
Step(rels, i, field) ==
  rels[i][field] - (IF i = 1 THEN 0 ELSE rels[i - 1][field])
GroupHas(flags, i, flag) == IsSet(flags[Group(flags, i)], flag)

Fits(rels, flags) ==
  \A i \in DOMAIN rels :
    LET b == Group(flags, i) IN
    /\ GroupHas(flags, i, RELOCATION_GROUPED_BY_INFO) => rels[i].info = rels[b].info
    /\ GroupHas(flags, i, RELOCATION_GROUPED_BY_OFFSET_DELTA) =>
         Step(rels, i, "offset") = Step(rels, b, "offset")
    /\ IF GroupHas(flags, i, RELOCATION_GROUP_HAS_ADDEND)
         THEN GroupHas(flags, i, RELOCATION_GROUPED_BY_ADDEND) => rels[i].addend = rels[b].addend
         ELSE rels[i].addend = 0

Number(there, n) == IF there THEN Sleb128[n] ELSE <<>>
Fields(rels, i, offset, info, addend) ==
  Number(offset, Step(rels, i, "offset"))
  \o (Number(info, rels[i].info) \o Number(addend, Step(rels, i, "addend")))

Size(rels, flags, b) == Cardinality({i \in DOMAIN rels : Group(flags, i) = b})
GroupHead(rels, flags, b) ==
  Sleb128[Size(rels, flags, b)] \o (Sleb128[flags[b]]
  \o Fields(rels, b, GroupHas(flags, b, RELOCATION_GROUPED_BY_OFFSET_DELTA),
                     GroupHas(flags, b, RELOCATION_GROUPED_BY_INFO),
                     /\ GroupHas(flags, b, RELOCATION_GROUP_HAS_ADDEND)
                     /\ GroupHas(flags, b, RELOCATION_GROUPED_BY_ADDEND)))
Own(rels, flags, i) ==
  Fields(rels, i, ~GroupHas(flags, i, RELOCATION_GROUPED_BY_OFFSET_DELTA),
                  ~GroupHas(flags, i, RELOCATION_GROUPED_BY_INFO),
                  /\ GroupHas(flags, i, RELOCATION_GROUP_HAS_ADDEND)
                  /\ ~GroupHas(flags, i, RELOCATION_GROUPED_BY_ADDEND))
From(rels, flags) ==
  LET from[i \in Nat] ==
        IF i \notin DOMAIN rels THEN <<>>
        ELSE (IF i \in DOMAIN flags THEN GroupHead(rels, flags, i) ELSE <<>>)
             \o (Own(rels, flags, i) \o from[i + 1])
  IN  from
Packing(rels, flags) ==
  Sleb128[Len(rels)] \o (Sleb128[0] \o From(rels, flags)[1])

Groupings(rels) ==
  UNION {{fs \in [{1} \cup starts -> 0 .. 15] : Fits(rels, fs)} :
           starts \in {S \in SUBSET (2 .. Len(rels)) : Cardinality(S) < MaxGroups}}

-----------------------------------------------------------------------------
(* read_sleb128: the number that starts at a place, and the place after it; *)
(* place 0 is past the end, where the script fails.                         *)
Read(buf, p0) ==
  LET read[p \in 0 .. Len(buf) + 1] ==
        IF p = 0 \/ p > Len(buf) THEN <<0, 0>>
        ELSE IF buf[p] < 64 THEN <<buf[p], p + 1>>
        ELSE IF buf[p] < 128 THEN <<buf[p] - 128, p + 1>>
        ELSE <<buf[p] - 128 + 128 * read[p + 1][1], read[p + 1][2]>>
  IN  read[p0]
ReadIf(there, otherwise, p) == IF there THEN Read(packed, p) ELSE <<otherwise, p>>

Entry(offset, info, addend) ==
  [offset |-> offset, symbol |-> info \div INFO, type |-> info % INFO, addend |-> addend]
Table(rels) ==
  [i \in DOMAIN rels |-> Entry(rels[i].offset, rels[i].info, rels[i].addend)]

AbiInit ==
  /\ libgui = <<>> /\ packed = <<>>
  /\ cursor = [at |-> 0, count |-> 0, left |-> 0, flags |-> 0, delta |-> 0,
               offset |-> 0, info |-> 0, addend |-> 0]
  /\ entries = <<>> /\ header = <<>>

(* A table may lack its last bytes or have one more.  The script starts    *)
(* with its count and first offset.                                        *)
Links ==
  /\ libgui = <<>> /\ libgui' \in Libraries
  /\ \E flags \in Groupings(libgui'.rels) :
       LET whole == Packing(libgui'.rels, flags) IN
       packed' = SubSeq(whole \o <<0>>, 1, Len(whole) + libgui'.extra)
  /\ LET count == Read(packed', 1) offset == Read(packed', count[2]) IN
     cursor' = [cursor EXCEPT !.at = offset[2], !.count = count[1], !.offset = offset[1]]
  /\ UNCHANGED <<entries, header>>

(* A library not packed: decode_rela gives what is there. *)
LinksPlainly ==
  /\ libgui = <<>> /\ libgui' \in Libraries /\ libgui'.extra = 0
  /\ packed' = <<0>>
  /\ entries' = Table(libgui'.rels)
  /\ cursor' = [cursor EXCEPT !.at = 2, !.count = Len(entries')]
  /\ UNCHANGED header

Decoding == header = <<>> /\ libgui # <<>> /\ cursor.at # 0

(* The running addend at the head of a group *)
GroupAddend_keeps(flags, addend, delta) == addend + delta
GroupAddend(flags, addend, delta) ==
  IF IsSet(flags, RELOCATION_GROUP_HAS_ADDEND) THEN addend + delta ELSE 0

(* The head of a group *)
ReadsGroup ==
  /\ Decoding /\ cursor.left <= 0 /\ Len(entries) < cursor.count
  /\ LET size == Read(packed, cursor.at)
         flags == Read(packed, size[2])
         has(flag) == IsSet(flags[1], flag)
         delta == ReadIf(has(RELOCATION_GROUPED_BY_OFFSET_DELTA), 0, flags[2])
         info == ReadIf(has(RELOCATION_GROUPED_BY_INFO), cursor.info, delta[2])
         addend == ReadIf(/\ has(RELOCATION_GROUP_HAS_ADDEND)
                          /\ has(RELOCATION_GROUPED_BY_ADDEND), 0, info[2])
     IN cursor' = [cursor EXCEPT
          !.at = addend[2], !.left = size[1], !.flags = flags[1],
          !.delta = delta[1], !.info = info[1],
          !.addend = GroupAddend(flags[1], @, addend[1])]
  /\ UNCHANGED <<libgui, packed, entries, header>>

(* A relocation of the group *)
ReadsEntry ==
  /\ Decoding /\ cursor.left > 0
  /\ LET has(flag) == IsSet(cursor.flags, flag)
         delta == ReadIf(~has(RELOCATION_GROUPED_BY_OFFSET_DELTA), cursor.delta, cursor.at)
         info == ReadIf(~has(RELOCATION_GROUPED_BY_INFO), cursor.info, delta[2])
         addend == ReadIf(/\ has(RELOCATION_GROUP_HAS_ADDEND)
                          /\ ~has(RELOCATION_GROUPED_BY_ADDEND), 0, info[2])
         next == [cursor EXCEPT !.at = addend[2], !.left = @ - 1, !.info = info[1],
                                !.offset = @ + delta[1], !.addend = @ + addend[1]]
     IN /\ cursor' = next
        /\ entries' = Append(entries, Entry(next.offset, next.info, next.addend))
  /\ UNCHANGED <<libgui, packed, header>>

-----------------------------------------------------------------------------
(* measure_vtable_geometry.  What a slot of the VTT points at: the word    *)
(* itself, or what its relocation makes of it; none is a refusal.          *)
Target(lib, table, slot) ==
  LET rels == {i \in DOMAIN table : table[i].offset = slot}
      rel == table[CHOOSE i \in rels : \A j \in rels : j <= i]
  IN  IF lib.words[slot] # 0 THEN {lib.words[slot]}
      ELSE IF rels = {} THEN {}
      ELSE IF rel.type = R_AARCH64_ABS64 THEN {lib.symbols[rel.symbol] + rel.addend}
      ELSE IF rel.type = R_AARCH64_RELATIVE THEN {rel.addend}
      ELSE {}

The(set) == CHOOSE x \in set : TRUE
VTable(lib) == The(lib.vtable)
VTT(lib) == The(lib.vtt)
Slots(lib) == {VTT(lib).at + 8 * k : k \in 0 .. (VTT(lib).size + 7) \div 8 - 1}
SubTables(lib, table) ==
  LET start == VTable(lib).at end == start + VTable(lib).size IN
  {t - start : t \in {t \in UNION {Target(lib, table, s) : s \in Slots(lib)} :
                       start <= t /\ t < end}}

(* The base subobject a sub-table serves stands above it, negated. *)
Serves(lib, offset) == -lib.words[VTable(lib).at + offset - SUBTABLE_HEADER_WORDS * 8]
For(lib, table, subobject) ==
  {o \in SubTables(lib, table) : Serves(lib, o) = subobject}

RefBaseAt(lib) == lib.words[VTable(lib).at]
Measurable(lib, table) ==
  /\ Cardinality(lib.vtable) = 1 /\ Cardinality(lib.vtt) = 1
  /\ lib.bbinderAt # {} /\ RefBaseAt(lib) > 0
  /\ \A s \in Slots(lib) : Target(lib, table, s) # {}
  /\ \A o \in SubTables(lib, table) : For(lib, table, Serves(lib, o)) = {o}
  /\ \A at \in {0, RefBaseAt(lib)} \cup lib.bbinderAt : For(lib, table, at) # {}

(* measure_class_size: the class of that name that the header declares and *)
(* the debug information gives a size.                                     *)
Sizes(lib, class) ==
  UNION {d.size : d \in {d \in lib.dies :
           d.tag \in {"class", "structure"} /\ d.class = class /\ d.header = class}}

Readable(lib, table) ==
  /\ Measurable(lib, table)
  /\ Cardinality(Sizes(lib, "h2b")) = 1 /\ Cardinality(Sizes(lib, "surface")) = 1
Measured(lib, table) ==
  [primaryVTable |-> The(For(lib, table, 0)),
   bbinderVTable |-> The(For(lib, table, The(lib.bbinderAt))),
   refBaseVTable |-> The(For(lib, table, RefBaseAt(lib))),
   bbinderAt |-> The(lib.bbinderAt), refBaseAt |-> RefBaseAt(lib),
   vttSize |-> VTT(lib).size,
   h2bSize |-> The(Sizes(lib, "h2b")), surfaceSize |-> The(Sizes(lib, "surface"))]

(* The compiler put the layout into the library: it is what the library's   *)
(* own relocations say, if the whole of them is there, and what nobody says *)
(* of a library that is cut, padded, ambiguous or lacks a part.             *)
ASSUME LibraryAssumption ==
  /\ <<>> \notin Libraries
  /\ \A lib \in Libraries :
       /\ lib.rels \in Seq([offset : Int, info : Int, addend : Int])
       /\ lib.extra \in Int /\ lib.extra <= 1
       /\ lib.compiled = IF lib.extra = 0 /\ Readable(lib, Table(lib.rels))
                           THEN {Measured(lib, Table(lib.rels))} ELSE {}

(* The table has been read: all of it, or its end was not met. *)
Measures ==
  /\ Decoding /\ cursor.left <= 0 /\ Len(entries) >= cursor.count
  /\ header' = IF cursor.at = Len(packed) + 1 /\ Readable(libgui, entries)
               THEN <<"written", Measured(libgui, entries)>> ELSE <<"refused">>
  /\ UNCHANGED <<libgui, packed, cursor, entries>>

RunsOff ==
  /\ header = <<>> /\ libgui # <<>> /\ cursor.at = 0
  /\ header' = <<"refused">>
  /\ UNCHANGED <<libgui, packed, cursor, entries>>

AbiNext ==
  \/ Links \/ LinksPlainly \/ ReadsGroup \/ ReadsEntry \/ Measures \/ RunsOff

(* Whichever way the linker stored and grouped the pointers, the constants *)
(* are those of the classes the library was compiled from; a library with  *)
(* something missing or said twice, or a table out of step, is refused.    *)
MeasuresOrRefuses ==
  header # <<>> =>
    header = IF libgui.compiled # {}
             THEN <<"written", The(libgui.compiled)>> ELSE <<"refused">>
=============================================================================
