------------------------------ MODULE TarStream ------------------------------
(***************************************************************************)
(* The tar writer and reader of directory transfers over a raw channel     *)
(* (src/transfer/tar.rs).                                                  *)
(*                                                                         *)
(* A stream is a sequence of units.  A header block is one unit, a record; *)
(* every other unit is a byte.  A block of bytes is Block units.           *)
(* Paths are those of StdPath.                                             *)
(*                                                                         *)
(* A local tree maps the paths below its root to nodes [kind, size, data]: *)
(* size is what symlink_metadata said and data what is there when the file *)
(* is read, which may meanwhile be shorter or longer.                      *)
(***************************************************************************)
EXTENDS StdPath, FiniteSets, SequencesExt

CONSTANTS Block,       \* TAR_BLOCK, 512 in the code
          NameMax,     \* the length of the name field, 100
          PrefixMax,   \* the length of the prefix field, 155
          SizeDigits,  \* the octal digits of the size field, 11
          NameOrder,   \* the names of the local trees, in the order of their text
          NameLen      \* the length of each of them

ASSUME TarConstants ==
  /\ {Block, NameMax, PrefixMax, SizeDigits} \subseteq Nat \ {0}
  /\ NameLen \in [ToSet(NameOrder) -> Nat \ {0}]

Byte(v) == [flag |-> "byte", v |-> v]
Zeros(n) == [i \in 1..n |-> Byte(0)]
Upto(s, n) == SubSeq(s, 1, Min({n, Len(s)}))
Padding(size) == (Block - (size % Block)) % Block

-----------------------------------------------------------------------------
(* Writing. *)

PathLen(path) ==
  FoldLeft(LAMBDA n, c : n + (IF c = "" THEN 0 ELSE NameLen[c]), Len(path) - 1, path)

\* The path goes into the name field, or is cut at its last slash: of a
\* directory, whose path ends with one, nothing is left for the name.
SplitUstarPath(path) ==
  IF PathLen(path) <= NameMax
  THEN [ok |-> TRUE, prefix |-> <<>>, name |-> path]
  ELSE [ok |-> /\ Len(path) > 1
               /\ PathLen(<<Last(path)>>) <= NameMax
               /\ PathLen(Front(path)) <= PrefixMax,
        prefix |-> Front(path), name |-> <<Last(path)>>]

\* How many numbers the digits of the size field can tell apart.
Octals ==
  LET power[i \in 0..SizeDigits] == IF i = 0 THEN 1 ELSE 8 * power[i - 1]
  IN  power[SizeDigits]

\* The digits that do not fit the field are lost.
WriteOctal(value) == value % Octals

WriteHeader(path, size, flag) ==
  LET field == SplitUstarPath(path)
  IN  [ok |-> field.ok,
       out |-> IF ~field.ok THEN <<>>
               ELSE <<[name |-> field.name, prefix |-> field.prefix, ustar |-> TRUE,
                       size |-> WriteOctal(size), flag |-> flag, sum |-> TRUE]>>]

\* copy_exact_len: a file that became shorter is an error, one that became
\* longer is cut.
CopyExactLen(data, size) ==
  [ok |-> Len(data) >= size, out |-> Upto(data, size)]

Then(first, second) ==
  IF first.ok THEN [ok |-> second.ok, out |-> first.out \o second.out] ELSE first

WritePadding(size) == [ok |-> TRUE, out |-> Zeros(Padding(size))]

WriteEntry(path, node) ==
  CASE node.kind = "dir" -> WriteHeader(Append(path, ""), 0, "5")
    [] node.kind = "file" ->
         Then(WriteHeader(path, node.size, "0"),
              Then(CopyExactLen(node.data, node.size), WritePadding(node.size)))
    [] OTHER -> [ok |-> FALSE, out |-> <<>>]     \* a symlink, a device

\* The frames of write_dir_as_tar visit every directory in the order of its
\* names and go into a subdirectory before the next name.
Rank(c) == CHOOSE i \in DOMAIN NameOrder : NameOrder[i] = c

Visited(p, q) ==
  \/ IsStrictPrefix(p, q)
  \/ \E i \in DOMAIN p \cap DOMAIN q :
       /\ Rank(p[i]) < Rank(q[i])
       /\ SubSeq(p, 1, i - 1) = SubSeq(q, 1, i - 1)

Foremost(left) == CHOOSE p \in left : \A q \in left : ~Visited(q, p)

\* One turn of the loop for each path of the tree: left are the paths the
\* frames have not come to, sent is what was written.
Frames(tree) ==
  LET turn[i \in 0..Cardinality(DOMAIN tree)] ==
        IF i = 0 THEN [left |-> DOMAIN tree, sent |-> [ok |-> TRUE, out |-> <<>>]]
        ELSE LET before == turn[i - 1]
                 p == Foremost(before.left)
             IN  [left |-> before.left \ {p}, sent |-> Then(before.sent, WriteEntry(p, tree[p]))]
  IN  turn

WriteDirAsTar(tree) ==
  Then(Frames(tree)[Cardinality(DOMAIN tree)].sent, [ok |-> TRUE, out |-> Zeros(2 * Block)])

\* The tar of the remote host, started on ".": every path begins with "./" and
\* the first entry is the directory itself.
Dotted(u) ==
  CASE u.flag = "byte" -> u
    [] u.flag # "byte" /\ u.prefix = <<>> -> [u EXCEPT !.name = <<".">> \o @]
    [] OTHER -> [u EXCEPT !.prefix = <<".">> \o @]

TopEntry == [name |-> <<".", "">>, prefix |-> <<>>, ustar |-> TRUE,
             size |-> 0, flag |-> "5", sum |-> TRUE]

RemoteTar(tree) ==
  LET archive == WriteDirAsTar(tree)
  IN  [ok |-> archive.ok,
       out |-> <<TopEntry>> \o [i \in DOMAIN archive.out |-> Dotted(archive.out[i])]]

-----------------------------------------------------------------------------
(* Reading. *)

\* Every leading "./" is dropped; a path that is only "." stays.
WithoutDots(path) ==
  LET dots == CHOOSE n \in 0..Len(path) - 1 :
                /\ \A i \in 1..n : path[i] = "."
                /\ n = Len(path) - 1 \/ path[n + 1] # "."
  IN  SubSeq(path, dots + 1, Len(path))

\* The err is "empty" where the caller passes over the entry.
SanitizeTarPath(path) ==
  LET bare == WithoutDots(path)
      rel == Components(bare)
  IN  [path |-> rel,
       err |-> IF bare = <<"">> THEN "empty"
               ELSE IF Absolute(bare) \/ ".." \in ToSet(bare) \/ rel = <<>> THEN "refused"
               ELSE "none"]

\* A header as read: sum says that its checksum is right, size is negative
\* when the field is no octal number.  The prefix counts in ustar headers only.
EntryPath(h) == IF h.ustar THEN h.prefix \o h.name ELSE h.name

\* The end of the stream passes for the end of the archive.
NextBlockEof(s) ==
  IF s # <<>> /\ s[1].flag # "byte" THEN [kind |-> "header", rest |-> Tail(s)]
  ELSE IF Len(s) < Block THEN [kind |-> "zero", rest |-> Zeros(Block)]
  ELSE [kind |-> IF SubSeq(s, 1, Block) = Zeros(Block) THEN "zero" ELSE "garbage",
        rest |-> SubSeq(s, Block + 1, Len(s))]

\* read_exact of one block: a header, a block of zeros, bytes that are no
\* header, or not enough of them.
NextBlock(s) ==
  IF s # <<>> /\ s[1].flag # "byte" THEN [kind |-> "header", rest |-> Tail(s)]
  ELSE IF Len(s) < Block THEN [kind |-> "short", rest |-> s]
  ELSE [kind |-> IF SubSeq(s, 1, Block) = Zeros(Block) THEN "zero" ELSE "garbage",
        rest |-> SubSeq(s, Block + 1, Len(s))]

\* create_dir_all below the extraction root: nothing is made when a file
\* stands where a directory has to be.
CreateDirAll(fs, path) ==
  LET made == {SubSeq(path, 1, i) : i \in 1..Len(path)}
      ok == \A d \in made \cap DOMAIN fs : fs[d].kind = "dir"
  IN  [ok |-> ok,
       fs |-> IF ~ok THEN fs
              ELSE [d \in made \cup DOMAIN fs |->
                      IF d \in made THEN [kind |-> "dir", data |-> <<>>] ELSE fs[d]]]

\* File::create and copy_stream_len: what arrived of the data is in the file
\* even when the stream ends too early.
CreateFile(fs, path, data) ==
  LET parent == CreateDirAll(fs, Front(path))
      ok == parent.ok /\ ~(path \in DOMAIN fs /\ fs[path].kind = "dir")
  IN  [ok |-> ok,
       fs |-> IF ~ok THEN parent.fs
              ELSE [p \in {path} \cup DOMAIN parent.fs |->
                      IF p = path THEN [kind |-> "file", data |-> data] ELSE parent.fs[p]]]

\* One turn of the loop of extract_tar_to_dir: rest is what is left of the
\* stream, fs what was made of it, done how the loop ended.
ExtractEntry(at) ==
  LET block == NextBlock(at.rest)
      h == at.rest[1]
      rel == SanitizeTarPath(EntryPath(h))
      body == h.size + Padding(h.size)
      End(how) == [rest |-> block.rest, fs |-> at.fs, done |-> how]
      After(made) ==
        [rest |-> SubSeq(block.rest, body + 1, Len(block.rest)), fs |-> made.fs,
         done |-> IF made.ok /\ Len(block.rest) >= body THEN "no" ELSE "failed"]
      Pass == After([ok |-> TRUE, fs |-> at.fs])
  IN  IF block.kind = "zero"
      THEN End(IF NextBlock(block.rest).kind # "short" THEN "whole" ELSE "failed")
      ELSE IF block.kind # "header" \/ ~h.sum \/ h.size < 0 \/ rel.err = "refused"
      THEN End("failed")
      ELSE IF rel.err = "empty" \/ h.flag \in {"x", "g"} THEN Pass
      ELSE IF h.flag = "5" /\ h.size = 0 THEN After(CreateDirAll(at.fs, rel.path))
      ELSE IF h.flag = "0" THEN After(CreateFile(at.fs, rel.path, Upto(block.rest, h.size)))
      ELSE End("failed")

\* Every turn that does not end the loop takes a header, so there is at most
\* one more than there are units.
Turns(s) ==
  LET turn[i \in 0..Len(s) + 1] ==
        IF i = 0 THEN [rest |-> s, fs |-> <<>>, done |-> "no"]
        ELSE LET before == turn[i - 1]
             IN  IF before.done = "no" THEN ExtractEntry(before) ELSE before
  IN  turn

ExtractTarToDir(s) ==
  LET last == Turns(s)[Len(s) + 1]
  IN  [ok |-> last.done = "whole", fs |-> last.fs]

=============================================================================
