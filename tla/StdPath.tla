------------------------------- MODULE StdPath -------------------------------
(***************************************************************************)
(* Paths as text.  A path is the sequence of what stands between its       *)
(* slashes: "a/b" is <<"a", "b">>, "a/" is <<"a", "">>, "/a" is            *)
(* <<"", "a">> and "" is <<"">>.                                           *)
(***************************************************************************)
EXTENDS Integers, Sequences

Absolute(path) == Len(path) > 1 /\ path[1] = ""

\* Path::components, one part of the text after the other: the empty ones and
\* "." are passed over.
Scanned(path) ==
  LET kept[i \in 0..Len(path)] ==
        IF i = 0 THEN <<>>
        ELSE IF path[i] \in {"", "."} THEN kept[i - 1] ELSE Append(kept[i - 1], path[i])
  IN  kept

\* What Path::components yields, without the root.
Components(path) == Scanned(path)[Len(path)]

=============================================================================
