------------------------------ MODULE PatchText ------------------------------
(***************************************************************************)
(* The patch language of apply_patch (src/patch.rs): reading the lines of  *)
(* a patch into one operation per file, and computing the new text of a    *)
(* file from its current text.                                             *)
(*                                                                         *)
(* A line of a patch is a record [k, v].  k says how the line starts: the  *)
(* envelope lines "begin" and "end", the headers "add", "update" and       *)
(* "delete" (v is the path), "move", any other line that starts with three *)
(* stars ("stars"), the hunk markers "@@" (bare), "@@ " (v is the anchor)  *)
(* and "@@?" (anything else after the two signs), the lines " ", "-" and   *)
(* "+" (v is the text), the empty line "" and any "other" line.            *)
(*                                                                         *)
(* A text is [lines, nl]: what split('\n') makes of it and whether it ends *)
(* with a newline.  The empty text is [lines |-> <<>>, nl |-> FALSE].      *)
(***************************************************************************)
EXTENDS Integers, Sequences, FiniteSets, SequencesExt

CONSTANTS NoText,      \* no such file, or a hunk without an anchor
          Within       \* the pairs <<anchor, line>> with line.contains(anchor)

EmptyText == [lines |-> <<>>, nl |-> FALSE]

Ok(v) == [err |-> "none", val |-> v]
Err(e) == [err |-> e, val |-> <<>>]
Failed(r) == r.err # "none"

\* validate_path: a path is [name, clean, absolute, slash]; clean says that
\* validate_basic_path_str has nothing against it, slash that it ends with one.
ValidatePath(path) == path.clean /\ path.absolute /\ ~path.slash

\* The first failure of a sequence of results, else the sequence of values.
Collect(rs) ==
  LET bad == {i \in DOMAIN rs : Failed(rs[i])}
  IN  IF bad = {} THEN Ok([i \in DOMAIN rs |-> rs[i].val])
      ELSE Err(rs[CHOOSE i \in bad : \A j \in bad : i <= j].err)

\* The members of a set of numbers in ascending order.
InOrder(S) ==
  [n \in 1..Cardinality(S) |-> CHOOSE x \in S : Cardinality({y \in S : y <= x}) = n]

\* The pieces of s that start at the positions of cuts (1 is one of them).
Pieces(s, cuts) ==
  LET at == InOrder(cuts)
  IN  [i \in DOMAIN at |->
         SubSeq(s, at[i], (IF i < Len(at) THEN at[i + 1] ELSE Len(s) + 1) - 1)]

Texts(lines, kinds) ==
  LET kept == InOrder({i \in DOMAIN lines : lines[i].k \in kinds})
  IN  [i \in DOMAIN kept |-> lines[kept[i]].v]

Blank == ""

-----------------------------------------------------------------------------

SectionTailError(line) ==
  Err(IF line.k = "move" THEN "unsupported_operation" ELSE "invalid_patch")

FirstNot(lines, kinds) == SelectInSeq(lines, LAMBDA l : l.k \notin kinds)

ParseAdd(body) ==
  LET bad == FirstNot(body, {"+"})
  IN  IF bad # 0 THEN SectionTailError(body[bad])
      ELSE Ok([op |-> "add",
               content |-> [lines |-> Texts(body, {"+"}), nl |-> body # <<>>]])

\* A hunk of context only is taken.
ParseHunkUnchanged(piece) ==
  LET marker == Head(piece)
      body == Tail(piece)
      bad == FirstNot(body, {" ", "-", "+"})
      old == Texts(body, {" ", "-"})
  IN  IF marker.k \notin {"@@", "@@ "} \/ (marker.k = "@@ " /\ marker.v = Blank)
      THEN Err("invalid_patch")
      ELSE IF bad # 0 THEN SectionTailError(body[bad])
      ELSE IF old = <<>> THEN Err("invalid_patch")
      ELSE Ok([anchor |-> IF marker.k = "@@" THEN NoText ELSE marker.v,
               old |-> old, new |-> Texts(body, {" ", "+"})])

\* One hunk: its marker and the lines up to the next marker.
ParseHunk(piece) ==
  LET marker == Head(piece)
      body == Tail(piece)
      bad == FirstNot(body, {" ", "-", "+"})
      old == Texts(body, {" ", "-"})
  IN  IF marker.k \notin {"@@", "@@ "} \/ (marker.k = "@@ " /\ marker.v = Blank)
      THEN Err("invalid_patch")
      ELSE IF bad # 0 THEN SectionTailError(body[bad])
      ELSE IF old = <<>> \/ FirstNot(body, {" "}) = 0 THEN Err("invalid_patch")
      ELSE Ok([anchor |-> IF marker.k = "@@" THEN NoText ELSE marker.v,
               old |-> old, new |-> Texts(body, {" ", "+"})])

Markers == {"@@", "@@ ", "@@?"}

ParseUpdate(body) ==
  IF body = <<>> THEN Err("invalid_patch")
  ELSE IF body[1].k \notin Markers THEN SectionTailError(body[1])
  ELSE LET pieces == Pieces(body, {i \in DOMAIN body : body[i].k \in Markers})
           hunks == Collect([i \in DOMAIN pieces |-> ParseHunk(pieces[i])])
       IN  IF Failed(hunks) THEN hunks
           ELSE Ok([op |-> "update", hunks |-> hunks.val])

ParseSection(section) ==
  LET header == Head(section)
      body == Tail(section)
      operation ==
        CASE header.k = "add" -> ParseAdd(body)
          [] header.k = "update" -> ParseUpdate(body)
          [] header.k = "delete" -> IF body = <<>> THEN Ok([op |-> "delete"])
                                    ELSE SectionTailError(body[1])
          [] OTHER -> SectionTailError(header)
  IN  IF Failed(operation) THEN operation
      ELSE IF ~ValidatePath(header.v) THEN Err("invalid_path")
      ELSE Ok([path |-> header.v, operation |-> operation.val])

IsHeader(line) == line.k \in {"add", "update", "delete"}

\* The line after the envelope's first one starts a section whatever it is;
\* every header line starts the next one.  A section that repeats the path
\* of an earlier one fails after it was parsed.
ParsePatch(lines) ==
  IF lines[1].k # "begin" \/ Last(lines).k # "end" \/ Len(lines) < 3
  THEN Err("invalid_patch")
  ELSE LET inner == SubSeq(lines, 2, Len(lines) - 1)
           sections == Pieces(inner, {1} \cup {i \in DOMAIN inner : IsHeader(inner[i])})
           parsed == [i \in DOMAIN sections |-> ParseSection(sections[i])]
           Repeats(i) == \E j \in 1..i - 1 : /\ ~Failed(parsed[j])
                                             /\ parsed[j].val.path = parsed[i].val.path
       IN  Collect([i \in DOMAIN parsed |->
                      IF ~Failed(parsed[i]) /\ Repeats(i) THEN Err("duplicate_path")
                      ELSE parsed[i]])

-----------------------------------------------------------------------------

\* The anchor may stand anywhere in the file.
CandidatesAnyAnchor(lines, hunk) ==
  LET n == Len(hunk.old)
  IN  {s \in 1..Len(lines) - n + 1 :
         /\ SubSeq(lines, s, s + n - 1) = hunk.old
         /\ \/ hunk.anchor = NoText
            \/ \E i \in DOMAIN lines : <<hunk.anchor, lines[i]>> \in Within}

\* Where the old lines of a hunk stand; an anchor must occur in a line up to
\* the last of them.
Candidates(lines, hunk) ==
  LET n == Len(hunk.old)
  IN  {s \in 1..Len(lines) - n + 1 :
         /\ SubSeq(lines, s, s + n - 1) = hunk.old
         /\ \/ hunk.anchor = NoText
            \/ \E i \in 1..s + n - 1 : <<hunk.anchor, lines[i]>> \in Within}

ApplyHunk(lines, hunk) ==
  LET at == Candidates(lines, hunk)
      s == CHOOSE x \in at : TRUE
  IN  IF at = {} THEN Err("context_not_found")
      ELSE IF at # {s} THEN Err("ambiguous_context")
      ELSE Ok(SubSeq(lines, 1, s - 1) \o hunk.new
                \o SubSeq(lines, s + Len(hunk.old), Len(lines)))

\* lines.join("\n") and the final newline, as the text that reads back: an
\* empty last line that has no newline of its own is not read as a line, the
\* newline before it ends the text.
JoinLines(lines, nl) ==
  IF nl \/ lines = <<>> \/ Last(lines) # Blank
  THEN [lines |-> lines, nl |-> nl /\ lines # <<>>]
  ELSE [lines |-> Front(lines), nl |-> Len(lines) > 1]

\* The loop over the hunks: each one works on the lines the one before left.
AfterHunks(lines, hunks) ==
  LET after[i \in 0..Len(hunks)] ==
        IF i = 0 THEN Ok(lines)
        ELSE LET before == after[i - 1]
             IN  IF Failed(before) THEN before ELSE ApplyHunk(before.val, hunks[i])
  IN  after

ApplyHunks(content, hunks) ==
  LET r == AfterHunks(content.lines, hunks)[Len(hunks)]
  IN  IF Failed(r) THEN r ELSE Ok(JoinLines(r.val, content.nl))

\* FilePatch::plan: current is the text of the file, or NoText.
PlanFile(patch, current) ==
  LET op == patch.operation.op
      updated == ApplyHunks(current, patch.operation.hunks)
  IN  IF op = "add"
      THEN IF current # NoText THEN Err("already_exists")
           ELSE Ok([new |-> patch.operation.content, changed |-> TRUE])
      ELSE IF current = NoText THEN Err("not_found")
      ELSE IF op = "delete" THEN Ok([new |-> NoText, changed |-> TRUE])
      ELSE IF Failed(updated) THEN updated
      ELSE Ok([new |-> updated.val, changed |-> updated.val # current])

=============================================================================
