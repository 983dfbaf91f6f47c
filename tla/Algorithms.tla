----------------------------- MODULE Algorithms -----------------------------
(***************************************************************************)
(* The pure algorithms of the server, each on every input of a bounded     *)
(* set, against a definition of what it should compute that is written     *)
(* another way.  A behaviour takes one input and computes its output; the  *)
(* invariants speak of the states in which the output is there.            *)
(***************************************************************************)
EXTENDS PatchText, TarStream, PathsAndLogs

CONSTANTS PatchInputs,     \* patches, as sequences of lines
          FileTexts,       \* current texts of a file
          Hunks,           \* sequences of hunks
          Trees,           \* local trees
          Foreign,         \* streams of another tar
          ClientPaths,     \* paths given by a client
          Bases,           \* working directories
          Logs, TailSizes, \* log files, numbers of lines asked for
          NoOutput         \* nothing has been computed yet

\* str::split makes at least one line of a patch.
ASSUME PatchLines == \A p \in PatchInputs : p \in Seq(ToSet(p)) /\ p # <<>>

\* What apply_hunks makes of a text before it looks at the hunks: no text but
\* the empty one is without lines, and the last line is empty only when a
\* newline ends it.
IsText(t) ==
  /\ t \in [lines : Seq(STRING), nl : BOOLEAN]
  /\ IF t.nl THEN t.lines # <<>> ELSE t.lines = <<>> \/ Last(t.lines) # Blank

\* A hunk as parse_update makes it: it has old lines.
IsHunk(h) ==
  /\ h \in [anchor : STRING \cup {NoText}, old : Seq(STRING), new : Seq(STRING)]
  /\ h.old # <<>>

ASSUME UpdateInputs ==
  /\ \A c \in FileTexts : c = NoText \/ IsText(c)
  /\ \A hunks \in Hunks :
       hunks \in Seq(ToSet(hunks)) /\ \A i \in DOMAIN hunks : IsHunk(hunks[i])

\* The units of a stream.  A header has a name, if only the empty one; the
\* flag "L" stands for every type that is no file, directory or pax header.
ByteUnits == [flag : {"byte"}, v : Nat]
HeaderUnits ==
  {h \in [name : Seq(STRING), prefix : Seq(STRING), ustar : BOOLEAN,
          size : Int, flag : {"0", "5", "x", "g", "L"}, sum : BOOLEAN] : h.name # <<>>}
Units == ByteUnits \cup HeaderUnits

\* A tree as read_dir yields it: no "." and no "..", and what is below
\* something is below a directory.
IsTree(t) ==
  /\ IsFiniteSet(DOMAIN t)
  /\ t \in [DOMAIN t -> [kind : STRING, size : Nat, data : Seq(ByteUnits)]]
  /\ \A p \in DOMAIN t :
       /\ p \in Seq(ToSet(NameOrder)) /\ p # <<>>
       /\ t[p].kind = "dir" => t[p].data = <<>>
       /\ \A n \in 1..Len(p) - 1 : SubSeq(p, 1, n) \in DOMAIN t /\ t[SubSeq(p, 1, n)].kind = "dir"

\* Parts of a path that name nothing below a directory.
NotNames == {"", ".", ".."}

ASSUME TreeInputs ==
  /\ NameOrder \in Seq(STRING) /\ ToSet(NameOrder) \cap NotNames = {}
  /\ \A t \in Trees : IsTree(t)

\* What another tar sends is made of units.
ASSUME StreamInputs == TopEntry \in Units /\ Foreign \subseteq Seq(Units)

\* local_root is what getcwd returned; a path is never without a part.
\* From one of the working directories no path reaches the root, and none
\* of its names occurs in a path.
ASSUME PathInputs ==
  /\ LocalRoot \in Seq(STRING) /\ Absolute(LocalRoot) /\ ".." \notin ToSet(LocalRoot)
  /\ \A p \in ClientPaths : p \in Seq(STRING) /\ p # <<>>
  /\ \A b \in Bases : b \in Seq(STRING)
  /\ \E b \in Bases :
       \A p \in ClientPaths : Len(p) < Len(b) /\ ToSet(p) \cap ToSet(b) = {}

\* A log is made of bytes, and a number of lines is a usize.
ASSUME LogInputs ==
  /\ \A f \in Logs : f = NoLog \/ f \in Seq({"x", Newline})
  /\ TailSizes \subseteq Nat

VARIABLES task, input, output

algVars == <<task, input, output>>

AlgInit ==
  /\ output = NoOutput
  /\ \/ task = "parse" /\ input \in PatchInputs
     \/ task = "update" /\ \E c \in FileTexts, h \in Hunks : input = <<c, h>>
     \/ task \in {"send", "fetch"} /\ input \in Trees
     \/ task = "extract" /\ input \in Foreign
     \/ task \in {"reserve", "join"} /\ input \in ClientPaths
     \/ task = "tail" /\ \E f \in Logs, n \in TailSizes : input = <<f, n>>

Compute(t, value) ==
  /\ task = t /\ output = NoOutput
  /\ output' = value
  /\ UNCHANGED <<task, input>>

\* The handler parses the whole patch before it looks at a file.
Parse == Compute("parse", ParsePatch(input))

Update ==
  Compute("update", PlanFile([path |-> "f", operation |-> [op |-> "update", hunks |-> input[2]]],
                             input[1]))

\* An archive, cut by a connection that ends at any unit.
Carry(t, archive) ==
  \E cut \in 0..Len(archive.out) :
    Compute(t, [archive |-> archive, cut |-> cut,
                got |-> ExtractTarToDir(SubSeq(archive.out, 1, cut))])

\* An upload is unpacked by the tar of the remote host; that it reads what
\* this reader reads is what "ustar" promises.
Send == task = "send" /\ Carry("send", WriteDirAsTar(input))
Fetch == task = "fetch" /\ Carry("fetch", RemoteTar(input))

Extract == Compute("extract", ExtractTarToDir(input))
Normalize == Compute("reserve", NormalizeRemotePath(input))
Join == Compute("join", SafeJoinLocalRoot(input))
LogTail == Compute("tail", ReadLocalLogTail(input[1], input[2]))

AlgNext == Parse \/ Update \/ Send \/ Fetch \/ Extract \/ Normalize \/ Join \/ LogTail

AlgSpec == AlgInit /\ [][AlgNext]_algVars

Computed(t) == task = t /\ output # NoOutput
Carried == Computed("send") \/ Computed("fetch")

-----------------------------------------------------------------------------
(* Patches. *)

\* The header a line of a patch belongs to: the last one up to it.
Owner(lines, i) ==
  LET heads == {j \in 2..i : IsHeader(lines[j])}
  IN  IF heads = {} THEN 0 ELSE Max(heads)

\* The lines from position i that come before the next line of those kinds.
Run(lines, i, kinds) ==
  {j \in i + 1..Len(lines) - 1 : \A m \in i + 1..j : lines[m].k \notin kinds}

Heads == {"add", "update", "delete"}

\* The language, line by line: which line may stand where.
Grammatical(lines) ==
  /\ Len(lines) >= 3 /\ lines[1].k = "begin" /\ Last(lines).k = "end"
  /\ \A i \in 2..Len(lines) - 1 :
       LET head == Owner(lines, i)
           kind == IF head = 0 THEN "none" ELSE lines[head].k
           here == Run(lines, i, Heads \cup Markers)
       IN  /\ kind # "none"
           /\ i = head => /\ ValidatePath(lines[i].v)
                          /\ \A j \in 2..i - 1 : IsHeader(lines[j]) => lines[j].v # lines[i].v
                          /\ kind = "update" => lines[i + 1].k \in {"@@", "@@ "}
           /\ i # head => \/ kind = "add" /\ lines[i].k = "+"
                          \/ kind = "update" /\ lines[i].k \in {"@@", "@@ ", " ", "-", "+"}
           /\ i # head /\ lines[i].k \in Markers =>
                /\ lines[i].k = "@@ " => lines[i].v # Blank
                /\ \E j \in here : lines[j].k \in {" ", "-"}
                /\ \E j \in here : lines[j].k \in {"-", "+"}

\* The lines below a header or a marker, up to the next one.
Below(lines, i) ==
  LET at == InOrder(Run(lines, i, Heads \cup Markers))
  IN  [n \in DOMAIN at |-> lines[at[n]]]

\* parse_patch takes exactly the patches of the language.  The sections come
\* out in the order of their headers and the hunks of an update in the order
\* of their markers; each has its anchor and all the lines below its marker,
\* removed and kept ones as old, added and kept ones as new.  The loops of
\* the code look at one line or one section at a time, the reference at
\* where each line stands.
ParserExact ==
  Computed("parse") =>
    /\ ~Failed(output) <=> Grammatical(input)
    /\ ~Failed(output) =>
         LET heads == InOrder({i \in DOMAIN input : IsHeader(input[i])})
         IN  /\ Len(output.val) = Len(heads)
             /\ \A n \in DOMAIN heads :
                  LET op == output.val[n].operation
                      marks == InOrder({i \in Run(input, heads[n], Heads) : input[i].k \in Markers})
                      Half(m, kind) == Texts(Below(input, marks[m]), {" ", kind})
                  IN  /\ output.val[n].path = input[heads[n]].v
                      /\ op.op = input[heads[n]].k
                      /\ op.op = "add" =>
                           op.content = [lines |-> Texts(Below(input, heads[n]), {"+"}),
                                         nl |-> Below(input, heads[n]) # <<>>]
                      /\ op.op = "update" =>
                           op.hunks = [m \in DOMAIN marks |->
                             [anchor |-> IF input[marks[m]].k = "@@" THEN NoText
                                         ELSE input[marks[m]].v,
                              old |-> Half(m, "-"), new |-> Half(m, "+")]]

\* Where the lines of a file split into what precedes the old lines of a
\* hunk, the old lines and what follows.
Splits(lines, hunk) ==
  {p \in 0..Len(lines) :
     /\ IsPrefix(hunk.old, SubSeq(lines, p + 1, Len(lines)))
     /\ \/ hunk.anchor = NoText
        \/ \E line \in ToSet(SubSeq(lines, 1, p)) \cup ToSet(hunk.old) :
             <<hunk.anchor, line>> \in Within}

\* An update whose old lines stand at one place only, with the anchor not
\* after them, replaces them there and nothing else; with no such place or
\* with several the file is refused.  A final newline stays what it was,
\* but for what join makes of the new lines: a text without lines has none,
\* and a text without one that now ends in an empty line has gained one.
HunkFindsItsPlace ==
  Computed("update") /\ Len(input[2]) = 1 /\ input[1] # NoText =>
    LET lines == input[1].lines
        hunk == input[2][1]
        at == Splits(lines, hunk)
        p == CHOOSE x \in at : TRUE
    IN  CASE at = {} -> output.err = "context_not_found"
          [] at # {} /\ at # {p} -> output.err = "ambiguous_context"
          [] OTHER -> /\ ~Failed(output)
                      /\ output.val.new = JoinLines(SubSeq(lines, 1, p) \o hunk.new
                                            \o SubSeq(lines, p + Len(hunk.old) + 1, Len(lines)),
                                          input[1].nl)

\* The hunks of an update, each the other way round and the last one first.
Turned(h) == [anchor |-> NoText, old |-> h.new, new |-> h.old]
TakenBack(hunks) == [i \in 1..Len(hunks) |-> Turned(hunks[Len(hunks) - i + 1])]

\* Turning a patch around takes it back: when the hunks of an update applied,
\* and the same hunks with their halves exchanged apply to the result in the
\* opposite order, the file is what it was, its final newline included; but
\* not when the update changed whether a newline ends the text (its new last
\* line was empty and without one), for nothing takes that newline away.
ReverseRestores ==
  Computed("update") /\ ~Failed(output) =>
    LET back == TakenBack(input[2])
        again == ApplyHunks(output.val.new, back)
    IN  (\A i \in DOMAIN back : back[i].old # <<>>) /\ ~Failed(again)
          => (again.val = input[1] <=> output.val.new.nl = input[1].nl)

\* What an update does to a file, forward and back.
HunksExact == HunkFindsItsPlace /\ ReverseRestores

-----------------------------------------------------------------------------
(* Archives. *)

\* The size of every file fits its field.
Fits(tree) ==
  \A p \in DOMAIN tree : tree[p].kind = "file" => tree[p].size < Octals

\* What a tree is after its transfer.
Arrived(tree) ==
  [p \in DOMAIN tree |-> [kind |-> tree[p].kind, data |-> Upto(tree[p].data, tree[p].size)]]

\* A tree that write_dir_as_tar, or the remote tar started on ".", archived
\* without an error and whose sizes fit their field comes out of
\* extract_tar_to_dir as it was: names cut into the two fields of the header,
\* padding, empty directories and files that grew while they were read
\* included.
TarRoundTrip ==
  Carried /\ output.archive.ok /\ Fits(input) =>
    (output.cut = Len(output.archive.out) =>
       output.got.ok /\ output.got.fs = Arrived(input))

\* A download whose stream ended early, or whose sender gave up, is never taken
\* for a whole archive, wherever it was cut: not after an entry, not between
\* the two blocks of the trailer.
CutIsRefused ==
  Computed("fetch") /\ Fits(input)
    /\ (output.cut < Len(output.archive.out) \/ ~output.archive.ok)
    => ~output.got.ok

\* Whatever another tar sends, extraction makes only files and directories
\* below its root, under plain names, inside directories it made.
ExtractStaysBelow ==
  Computed("extract") =>
    \A p \in DOMAIN output.fs :
      /\ p # <<>> /\ ToSet(p) \cap NotNames = {}
      /\ \A n \in 1..Len(p) - 1 : /\ SubSeq(p, 1, n) \in DOMAIN output.fs
                                  /\ output.fs[SubSeq(p, 1, n)].kind = "dir"

\* What the reader accepts is a whole archive, and it becomes what was sent,
\* below the root and nowhere else.
TarExact == TarRoundTrip /\ CutIsRefused /\ ExtractStaysBelow

-----------------------------------------------------------------------------
(* Paths and logs. *)

\* The place a path names when it is followed component by component from a
\* directory, links left aside.
Follow(at, c) ==
  CASE c \in {"", "."} -> at
    [] c = ".." -> IF at = <<>> THEN at ELSE Front(at)
    [] OTHER -> Append(at, c)

Steps(base, path) ==
  LET at[i \in 0..Len(path)] == IF i = 0 THEN base ELSE Follow(at[i - 1], path[i])
  IN  at

Resolve(base, path) == Steps(IF Absolute(path) THEN <<>> ELSE base, path)[Len(path)]

\* Two uploads reserve the same key exactly when their paths name the same
\* place from every working directory.  Two spellings of one place that are
\* such whatever the directory exclude each other, and nothing else does: a
\* relative and an absolute path to the same file have different keys.
DestinationKeyExact ==
  Computed("reserve") =>
    \A other \in ClientPaths :
      (NormalizeRemotePath(other) = output)
        <=> \A b \in Bases : Resolve(b, input) = Resolve(b, other)

\* safe_join_local_root lets through exactly the paths without ".." that lie
\* strictly below local_root, and the joined path is that place.
JoinStaysBelow ==
  Computed("join") =>
    LET root == Resolve(<<>>, LocalRoot)
        place == Resolve(root, input)
    IN  /\ output # Refused <=> IsStrictPrefix(root, place) /\ ".." \notin ToSet(input)
        /\ output # Refused => Resolve(<<>>, output) = place

\* Both path checks decide by the place a path names, not by its spelling.
PathsExact == DestinationKeyExact /\ JoinStaysBelow

\* The tail of a log is its last lines, whole, however the chunks fall; when
\* the bound on what is read comes first, the last lines of that much.
TailExact ==
  Computed("tail") =>
    output = IF input[1] = NoLog THEN <<>>
             ELSE LastOf(Lines(LastOf(input[1], MaxRead)), input[2])

=============================================================================
