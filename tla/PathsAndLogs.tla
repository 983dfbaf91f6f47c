---------------------------- MODULE PathsAndLogs ----------------------------
(***************************************************************************)
(* Three small algorithms of the server: the key under which an upload     *)
(* reserves its remote destination (normalize_remote_path), the check that *)
(* a local path stays below local_root (safe_join_local_root) and the tail *)
(* of a job's log (read_local_log_tail).                                   *)
(*                                                                         *)
(* Paths are those of StdPath.  A log is a sequence of bytes, "x" or       *)
(* Newline.                                                                *)
(***************************************************************************)
EXTENDS StdPath, FiniteSets, SequencesExt

CONSTANTS LocalRoot,   \* local_root, an absolute path
          Chunk,       \* CHUNK_SIZE, 8192 in the code
          MaxRead,     \* MAX_READ_BYTES, a multiple of Chunk
          NoLog        \* there is no log file

ASSUME ReadBounds == /\ {Chunk, MaxRead} \subseteq Nat \ {0}
                     /\ MaxRead % Chunk = 0

-----------------------------------------------------------------------------

\* ".." takes back whatever comes before it.
NormalizeStepPop(parts, part, absolute) ==
  CASE part \in {"", "."} -> parts
    [] part = ".." /\ parts # <<>> -> Front(parts)
    [] part = ".." /\ parts = <<>> /\ absolute -> parts
    [] OTHER -> Append(parts, part)

\* One component: ".." takes back a name, is kept at the front of a relative
\* path and dropped at the root.
NormalizeStep(parts, part, absolute) ==
  LET named == parts # <<>> /\ Last(parts) # ".."
  IN  CASE part \in {"", "."} -> parts
        [] part = ".." /\ named -> Front(parts)
        [] part = ".." /\ ~named /\ absolute -> parts
        [] OTHER -> Append(parts, part)

\* The parts left after each component of the path.
Normalized(path) ==
  LET parts[i \in 0..Len(path)] ==
        IF i = 0 THEN <<>> ELSE NormalizeStep(parts[i - 1], path[i], Absolute(path))
  IN  parts

NormalizeRemotePath(path) ==
  LET joined == Normalized(path)[Len(path)]
  IN  IF Absolute(path) THEN <<"">> \o (IF joined = <<>> THEN <<"">> ELSE joined)
      ELSE IF joined = <<>> THEN <<".">> ELSE joined

-----------------------------------------------------------------------------

Refused == <<>>

SafeJoinLocalRoot(path) ==
  LET parts == Components(path)
      root == Components(LocalRoot)
      below == SubSeq(parts, Len(root) + 1, Len(parts))
  IN  IF path = <<"">> THEN Refused
      ELSE IF Absolute(path)
      THEN IF ~IsPrefix(root, parts) \/ ".." \in ToSet(below) \/ below = <<>>
           THEN Refused ELSE path
      ELSE IF ".." \in ToSet(parts) \/ parts = <<>> THEN Refused
           ELSE LocalRoot \o path

-----------------------------------------------------------------------------

Newline == "nl"
Newlines(s) == Cardinality({i \in DOMAIN s : s[i] = Newline})

\* str::lines, byte by byte: the lines that a newline has ended and what
\* follows the last of them.
Split(s) ==
  LET split[i \in 0..Len(s)] ==
        IF i = 0 THEN [ended |-> <<>>, open |-> <<>>]
        ELSE LET r == split[i - 1]
             IN  IF s[i] = Newline
                 THEN [ended |-> Append(r.ended, r.open), open |-> <<>>]
                 ELSE [ended |-> r.ended, open |-> Append(r.open, s[i])]
  IN  split

\* The last line may go without its newline.
Lines(s) ==
  LET r == Split(s)[Len(s)]
  IN  IF r.open = <<>> THEN r.ended ELSE Append(r.ended, r.open)

LastOf(s, n) == SubSeq(s, Max({0, Len(s) - n}) + 1, Len(s))

WantsMoreLess(pos, buf, lines) ==
  pos > 0 /\ Newlines(buf) < lines /\ Len(buf) < MaxRead

\* Another chunk is read while there may be fewer whole lines than asked for.
WantsMore(pos, buf, lines) ==
  pos > 0 /\ Newlines(buf) <= lines /\ Len(buf) < MaxRead

\* The loop reads backwards from the end; buf is file[pos + 1 ..].
ReadChunk(file, r) ==
  LET from == r.pos - Min({Chunk, r.pos})
      chunk == SubSeq(file, from + 1, r.pos)
      allowed == MaxRead - Len(r.buf)
  IN  [pos |-> from, buf |-> SubSeq(chunk, 1, Min({Len(chunk), allowed})) \o r.buf]

\* Where the loop stands after each turn; a turn reads at least one byte.
ReadBack(file, lines) ==
  LET read[i \in 0..Len(file)] ==
        IF i = 0 THEN [pos |-> Len(file), buf |-> <<>>]
        ELSE LET r == read[i - 1]
             IN  IF WantsMore(r.pos, r.buf, lines) THEN ReadChunk(file, r) ELSE r
  IN  read

ReadLocalLogTail(file, lines) ==
  IF lines = 0 \/ file = NoLog THEN <<>>
  ELSE LastOf(Lines(ReadBack(file, lines)[Len(file)].buf), lines)

=============================================================================
