---------------------------- MODULE MCAlgorithms ----------------------------
(***************************************************************************)
(* The inputs of the algorithms.  Every kind of line of a patch, in        *)
(* patches of up to four lines between the envelope and, for the lines     *)
(* that make an update, up to six; texts of up to three lines under hunks  *)
(* of up to two; trees of up to three nodes whose names need the prefix    *)
(* field or are too long for both, with files that are empty, of one byte  *)
(* more or less than a block, shorter or longer than their header says, or *)
(* too large for the size field.                                           *)
(***************************************************************************)
EXTENDS Algorithms

Plain(n) == [name |-> n, clean |-> TRUE, absolute |-> TRUE, slash |-> FALSE]
Line(k, v) == [k |-> k, v |-> v]

PathP == Plain("p")
UpdateLines == {Line("update", PathP), Line("delete", Plain("q")), Line("@@", ""),
                Line(" ", "x"), Line("-", "y"), Line("+", "z")}
AnyLines == UpdateLines \cup
  {Line("add", PathP), Line("delete", [PathP EXCEPT !.slash = TRUE]), Line("move", ""),
   Line("stars", ""), Line("@@ ", "a"), Line("@@ ", ""), Line("@@?", ""), Line("", "")}

Enveloped(bodies) == {<<Line("begin", "")>> \o b \o <<Line("end", "")>> : b \in bodies}

MCPatchInputs ==
  Enveloped(BoundedSeq(AnyLines, 4) \cup SeqOf(UpdateLines, 6))
    \cup (BoundedSeq({Line("begin", ""), Line("end", ""), Line("delete", PathP)}, 3) \ {<<>>})

MCTexts == {"x", "xy", ""}
MCWithin == {<<"x", "x">>, <<"x", "xy">>}

\* The texts of up to three lines; an empty last line has its newline.
MCContents ==
  {NoText, EmptyText}
    \cup {[lines |-> l, nl |-> TRUE] : l \in BoundedSeq(MCTexts, 3) \ {<<>>}}
    \cup {[lines |-> l, nl |-> FALSE] :
            l \in {m \in BoundedSeq(MCTexts, 3) \ {<<>>} : Last(m) # Blank}}

HunkSet(texts, n) ==
  [anchor : {NoText, "x"}, old : BoundedSeq(texts, n) \ {<<>>}, new : BoundedSeq(texts, n)]

MCHunks ==
  {<<h>> : h \in HunkSet(MCTexts, 2)}
    \cup {<<g, h>> : g, h \in {x \in HunkSet({"x", ""}, 1) : x.anchor = NoText}}

-----------------------------------------------------------------------------

MCNameOrder == <<"a", "w">>
MCNameLen == [a |-> 1, w |-> 3]

Bytes(s) == [i \in DOMAIN s |-> Byte(s[i])]
File(size, data) == [kind |-> "file", size |-> size, data |-> Bytes(data)]
Dir == [kind |-> "dir", size |-> 0, data |-> <<>>]
Link == [kind |-> "link", size |-> 0, data |-> <<>>]

Leaves == {Dir, Link, File(0, <<>>), File(1, <<1>>), File(3, <<0, 1, 1>>), File(2, <<0, 0>>),
           File(2, <<1>>), File(1, <<1, 1>>), File(8, [i \in 1..8 |-> 0]),
           File(9, [i \in 1..9 |-> 1])}

TreeShapes == {D \in SUBSET {<<"a">>, <<"w">>, <<"a", "w">>, <<"w", "a">>, <<"w", "w">>} :
                 /\ Cardinality(D) <= 3
                 /\ \A p \in D : Len(p) = 2 => <<p[1]>> \in D}

MCTrees ==
  UNION {{t \in [D -> Leaves] : \A p \in D : Len(p) = 2 => t[<<p[1]>>] = Dir} : D \in TreeShapes}

\* The streams of another tar: one or two entries, any spelling of a path.
Spellings == BoundedSeq({"", ".", "..", "a"}, 3) \ {<<>>}
Entry(name, flag, size, sum) ==
  <<[name |-> name, prefix |-> <<>>, ustar |-> FALSE, size |-> size, flag |-> flag, sum |-> sum]>>
    \o [i \in 1..size |-> Byte(1)] \o Zeros(Padding(size))

Entries == {Entry(n, f, s, TRUE) : n \in Spellings, f \in {"0", "5", "x", "L"}, s \in {0, 1}}
             \cup {Entry(<<"a">>, "0", 1, FALSE)}

MCForeign ==
  {before \o e \o Zeros(2 * Block) :
     before \in {<<>>} \cup {Entry(n, f, 0, TRUE) : n \in {<<"a">>, <<".", "">>}, f \in {"0", "5"}},
     e \in Entries}

-----------------------------------------------------------------------------

MCPaths == (BoundedSeq({"", ".", "..", "a"}, 4) \ {<<>>})
             \cup {<<"", "l">> \o p : p \in BoundedSeq({"", ".", "..", "a", "l"}, 3)}
\* One working directory is deeper than any of the paths can climb.
MCBases == {<<"u">>, <<"q", "r", "s", "t", "u", "v">>}
MCLocalRoot == <<"", "l">>

MCLogs == {NoLog} \cup BoundedSeq({"x", Newline}, 8)

=============================================================================
