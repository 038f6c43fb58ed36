----------------------------- MODULE UpParamPack -----------------------------
(***************************************************************************)
(* up-param-pack.py: the tar it builds from a directory of JPEGs, the walk *)
(* over the headers of a tar, the comparison with a stock image, and the   *)
(* way the finished image reaches the file --out names, against failing    *)
(* calls, kills and power loss.  Packers run one after another; each may   *)
(* find what an earlier one left behind.                                   *)
(*                                                                         *)
(* A tar is abstracted to where its headers are, where its member data     *)
(* ends, how long it is and whether zeros follow the data.  A file is the  *)
(* run whose image it holds and how much of it has been written, in pieces.*)
(***************************************************************************)
EXTENDS Integers, Sequences

CONSTANTS
  None,          \* no file, no reference, no result
  BLOCK, RECORD, PART_SIZE,
  MEMBERS,       \* the names in S-Boot's order
  ImageDirs,     \* bound: what --images may hold
  References,    \* bound: the tars --reference may name
  Pieces,        \* bound: pieces an image is written in
  MaxRuns        \* bound: packer runs

ASSUME BoundAssumption ==
  /\ BLOCK \in Nat \ {0} /\ RECORD \in Nat \ {0} /\ PART_SIZE \in Nat
  /\ Pieces \in Nat \ {0} /\ MaxRuns \in Nat

VARIABLES
  run,         \* number of the packer, 0 before the first; names its image
  pc,          \* how far main() has come
  images, reference,     \* its arguments
  tmp, out,    \* the two files, or None
  disk         \* the two directory entries a power loss would find

files == <<tmp, out, disk>>
vars == <<run, pc, images, reference, files>>

-----------------------------------------------------------------------------
(* The tar. *)

(* -n % m *)
Padding(n, m) == (m - (n % m)) % m

MemberLength_noPadding(size) == BLOCK + size
MemberLength(size) == BLOCK + size + Padding(size, BLOCK)

(* build()'s loop: where member i's data ends, padding included *)
Ends(sizes) ==
  LET end[i \in 0..Len(sizes)] ==
        IF i = 0 THEN 0 ELSE end[i - 1] + MemberLength(sizes[i])
  IN  end

(* Two zero blocks, then zeros to a whole record. *)
Closed_recordOnly(end) == end + Padding(end, RECORD)
Closed(end) == end + 2 * BLOCK + Padding(end + 2 * BLOCK, RECORD)

Tar(names, sizes) ==
  LET ends == Ends(sizes) end == ends[Len(sizes)] IN
  [headers |-> [i \in DOMAIN sizes |->
                  [name |-> names[i], offset |-> ends[i - 1], size |-> sizes[i],
                   other |-> "stock"]],
   end |-> end, length |-> Closed(end), tail |-> "zeros"]

(* headers(): <<headers found, end>>, or <<>> for PackError.  A read out of *)
(* step takes data for a header; what it then finds is nobody's member.     *)
StepOver_unpadded(size) == BLOCK + size
StepOver(size) == BLOCK + size + Padding(size, BLOCK)

HeaderAt(tar, p) == {i \in DOMAIN tar.headers : tar.headers[i].offset = p}

Headers(tar) ==
  LET walk[p \in Nat] ==
        IF p + BLOCK > tar.length \/ (p < tar.end /\ HeaderAt(tar, p) = {}) THEN <<>>
        ELSE IF p >= tar.end THEN <<<<>>, p>>
        ELSE LET h == tar.headers[CHOOSE i \in HeaderAt(tar, p) : TRUE]
                 rest == walk[p + StepOver(h.size)]
             IN  IF rest = <<>> THEN <<>> ELSE <<<<h>> \o rest[1], rest[2]>>
  IN  walk[0]

(* compare_reference() raises nothing.  `other' stands for a header's       *)
(* bytes but the name, size and chksum.                                     *)
Matches(tar, ref) ==
  LET ours == Headers(tar) stock == Headers(ref) IN
  /\ ours # <<>> /\ stock # <<>>
  /\ Len(ours[1]) = Len(stock[1])
  /\ \A i \in DOMAIN ours[1] : /\ ours[1][i].name = stock[1][i].name
                               /\ ours[1][i].other = stock[1][i].other
  /\ ref.tail = "zeros"

(* What the program is given: a size for every member, and references that  *)
(* are tars, of any members and any length.                                 *)
Header == [name : STRING, offset : Nat, size : Nat, other : {"stock", "changed"}]
SizesOf(tar) == [i \in DOMAIN tar.headers |-> tar.headers[i].size]
IsTar(tar) ==
  /\ tar.headers \in Seq(Header)
  /\ \A i \in DOMAIN tar.headers : tar.headers[i].offset = Ends(SizesOf(tar))[i - 1]
  /\ tar.end = Ends(SizesOf(tar))[Len(tar.headers)]
  /\ tar.length \in Nat
ASSUME InputAssumption ==
  /\ MEMBERS \in Seq(STRING)
  /\ \A dir \in ImageDirs : dir.sizes \in [1..Len(MEMBERS) -> Nat]
  /\ \A tar \in References : IsTar(tar)

(* check_image_dir(), read_jpeg() and build() raise nothing. *)
DirComplete(dir) == dir.names = {MEMBERS[i] : i \in DOMAIN MEMBERS} /\ dir.truncated = {}
OurTar == Tar(MEMBERS, images.sizes)
Builds == DirComplete(images) /\ OurTar.length <= PART_SIZE

-----------------------------------------------------------------------------
(* The file. *)

File == [image : 1..MaxRuns, pieces : 0..Pieces, synced : BOOLEAN]
Entry == File \cup {None}
ASSUME NoneAssumption == None \notin File

Init ==
  /\ run = 0 /\ pc = "exited"
  /\ images \in ImageDirs /\ reference = None
  /\ tmp = None /\ out = None /\ disk = [tmp |-> None, out |-> None]

Starts ==
  /\ pc \in {"exited", "failed", "refused", "done"} /\ run < MaxRuns
  /\ run' = run + 1 /\ pc' = "build"
  /\ images' \in ImageDirs /\ reference' \in References \cup {None}
  /\ UNCHANGED files

Build ==
  /\ pc = "build"
  /\ pc' = IF Builds /\ (reference = None \/ Matches(OurTar, reference))
           THEN "open" ELSE "refused"
  /\ UNCHANGED <<run, images, reference, files>>

Opened == [image |-> run, pieces |-> 0, synced |-> FALSE]

Open ==
  /\ pc = "open"
  /\ tmp' = Opened /\ pc' = "write"
  /\ UNCHANGED <<run, images, reference, out, disk>>

Write_pastTheEnd ==
  /\ pc = "write" /\ tmp.pieces <= Pieces
  /\ tmp' = [tmp EXCEPT !.pieces = @ + 1]
  /\ UNCHANGED <<run, pc, images, reference, out, disk>>
Write ==
  /\ pc = "write" /\ tmp.pieces < Pieces
  /\ tmp' = [tmp EXCEPT !.pieces = @ + 1]
  /\ UNCHANGED <<run, pc, images, reference, out, disk>>

Synced_notYet == tmp
Synced == [tmp EXCEPT !.synced = TRUE]

Fsync ==
  /\ pc = "write" /\ tmp.pieces = Pieces
  /\ tmp' = Synced /\ pc' = "replace"
  /\ UNCHANGED <<run, images, reference, out, disk>>

Replace ==
  /\ pc = "replace"
  /\ out' = tmp /\ tmp' = None /\ pc' = "done"
  /\ UNCHANGED <<run, images, reference, disk>>

(* A call raises OSError, or the packer is killed: the files stay. *)
Fails ==
  /\ pc \in {"build", "open", "write", "replace"}
  /\ pc' = "failed"
  /\ UNCHANGED <<run, images, reference, files>>

(* The kernel writes the directory in its own time. *)
DirectoryReachesDisk ==
  /\ disk' = [tmp |-> tmp, out |-> out] /\ disk' # disk
  /\ UNCHANGED <<run, pc, images, reference, tmp, out>>

(* Power loss: the entries are the ones on the disk or the newest ones, and *)
(* of a file never synced any part may be missing; an entry on the disk     *)
(* stands for what its file held when it got there, or less.                *)
Remains(file) ==
  IF file = None \/ file.synced THEN {file}
  ELSE {[file EXCEPT !.pieces = n] : n \in 0..file.pieces}

PowerLoss ==
  /\ pc' = "failed"
  /\ \E dir \in {disk, [tmp |-> tmp, out |-> out]} :
       /\ tmp' \in Remains(dir.tmp) /\ out' \in Remains(dir.out)
       /\ disk' = [tmp |-> tmp', out |-> out']
  /\ UNCHANGED <<run, images, reference>>

Next ==
  \/ Starts \/ Build \/ Open \/ Write \/ Fsync \/ Replace
  \/ Fails \/ DirectoryReachesDisk \/ PowerLoss

Spec == Init /\ [][Next]_vars

-----------------------------------------------------------------------------
TypeOK ==
  /\ run \in 0..MaxRuns
  /\ pc \in {"exited", "failed", "refused", "done",
             "build", "open", "write", "replace"}
  /\ images \in ImageDirs /\ reference \in References \cup {None}
  /\ tmp \in Entry /\ out \in Entry
  /\ disk \in [tmp : Entry, out : Entry]

(* An image is refused exactly when the directory is not the 25 whole       *)
(* JPEGs, the tar with its closing blocks is larger than the partition, or  *)
(* the reference is no tar of the same members with the same headers and    *)
(* nothing behind it: the walk never loses its way in a tar of our own,     *)
(* whatever the sizes.                                                      *)
SameMembers(tar) ==
  /\ [i \in DOMAIN tar.headers |-> tar.headers[i].name] = MEMBERS
  /\ \A i \in DOMAIN tar.headers : tar.headers[i].other = "stock"
EndsInZeros(tar) == tar.tail = "zeros" /\ tar.length >= tar.end + BLOCK
Acceptable ==
  /\ DirComplete(images) /\ OurTar.length <= PART_SIZE
  /\ reference # None => SameMembers(reference) /\ EndsInZeros(reference)

RefusesExactly ==
  /\ pc = "refused" => ~Acceptable
  /\ pc \in {"open", "write", "replace", "done"} => Acceptable

(* "zero-filled to the full up_param partition (8 MiB), so a dd of the file *)
(* replaces every byte": of what is written the archive, with the two zero  *)
(* blocks that end it, is inside the partition, so that the fill behind it  *)
(* has a length to have.                                                    *)
ArchiveFits ==
  pc \in {"open", "write", "replace", "done"} =>
    OurTar.end + 2 * BLOCK <= OurTar.length /\ OurTar.length <= PART_SIZE

(* What is written is what should be, and all else is refused. *)
BuildsExactly == RefusesExactly /\ ArchiveFits

(* "output image (written atomically)": whatever fails and whenever the     *)
(* power goes, --out holds no image or a whole one; and a packer that       *)
(* reports success left its own there, not what another had begun.          *)
OutIsWhole == out # None => out.pieces = Pieces
DoneMeansInstalled == pc = "done" => out # None /\ out.image = run
OutputIsSafe == OutIsWhole /\ DoneMeansInstalled
=============================================================================
