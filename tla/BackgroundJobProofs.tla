------------------------ MODULE BackgroundJobProofs -------------------------
(***************************************************************************)
(* The safety of BackgroundJob for any finite set of checks and any number *)
(* of restarts, with and without the su shell.  What makes the properties  *)
(* inductive: every state that is held anywhere is running, lost or the    *)
(* true outcome; a check that decided holds a terminal state; and whoever  *)
(* works on the job finds it in the registry.                              *)
(***************************************************************************)
EXTENDS BackgroundJob, FiniteSetTheorems, TLAPS

(* A state that claims an exit code has the code of the process. *)
Truth(job) == job.status \in {"completed", "failed"} => job = Exited(process)

(* No state held in memory, in the file or in an answer invents an outcome. *)
TruthInv ==
    /\ Truth(outcome) /\ Truth(disk)
    /\ \A r \in Refs : Truth(shared[r])
    /\ \A k \in Checkers : Truth(found[k]) /\ Truth(reply[k])

(* The part of TypeOK about flags. *)
FlagsOK ==
    /\ channelOpen \in BOOLEAN /\ eof \in BOOLEAN
    /\ acked \in BOOLEAN /\ tangled \in BOOLEAN
    /\ ioFailed \in BOOLEAN /\ recorded \in BOOLEAN

(* Who works on the job has a reference to it. *)
ReferenceInv ==
    /\ streamer = "start" => registry = 0
    /\ streamer \notin {"start", "gone"} => registry # 0
    /\ acked => streamer # "start"
    /\ \A k \in Checkers :
          /\ pc[k] # "idle" => acked
          /\ pc[k] \notin {"idle", "get", "insert"} => ref[k] # 0
          /\ k \in Detached /\ pc[k] # "idle" => registry # 0

(* The file is there before the client knows of the job, and later states   *)
(* are terminal.                                                            *)
FileInv ==
    /\ streamer \notin {"start", "persist", "gone"} /\ ~ioFailed => disk # Absent
    /\ AckedJobOnDisk
    /\ streamer \in {"update", "end_persist", "end_write", "done"} => IsTerminal(outcome)
    /\ \A k \in Checkers : pc[k] \in {"apply", "persist", "write"} => IsTerminal(found[k])
    /\ streamer = "done" /\ ~ioFailed => disk # Running

(* What can be known of the job before the server dies: nothing but its      *)
(* being lost until the streamer has stored the outcome, then that too.      *)
Known ==
    {Running, StateLost}
      \cup IF streamer \in {"end_persist", "end_write", "done"} THEN {outcome} ELSE {}

KnownInv ==
    /\ streamer \in {"start", "persist", "write", "ack"} => outcome = Running
    /\ streamer # "gone" =>
         /\ disk \in Known \cup {Torn, Absent}
         /\ \A r \in Refs : shared[r] \in Known
         /\ \A k \in Checkers : found[k] \in Known

(* Unless writers are in each other's way, the one who has the file open is  *)
(* alone, it finds the file empty, and a file nobody has open parses.        *)
WriterInv ==
    /\ ~tangled =>
         /\ FileOpen => disk = Torn
         /\ \A k, j \in Checkers : pc[k] = "write" /\ pc[j] = "write" => k = j
         /\ \A k \in Checkers : pc[k] = "write" => streamer \notin {"write", "end_write"}
    /\ /\ acked \/ streamer \notin {"start", "persist", "gone"}
       /\ ~ioFailed /\ ~FileOpen /\ ~tangled
       => disk \in JobStates

IndInv == TypeOK /\ TruthInv /\ ReferenceInv /\ FileInv /\ KnownInv /\ WriterInv

-----------------------------------------------------------------------------
(* What the states of a job are.                                            *)

LEMMA StateFacts ==
    /\ Running \in JobStates /\ StateLost \in JobStates
    /\ \A code \in Codes : Exited(code) \in JobStates /\ IsTerminal(Exited(code))
    /\ ~IsTerminal(Running) /\ IsTerminal(StateLost) /\ IsTerminal(Torn)
    /\ Torn \notin {Absent, Running} /\ Absent \notin JobStates
    /\ NoCode \notin Codes
BY DEF Running, StateLost, Exited, JobStates, IsTerminal, Torn, Absent, Codes, NoCode

(* States without an exit code claim nothing; neither do the other values   *)
(* of the file and of answers.                                              *)
LEMMA NothingClaimed ==
    /\ Truth(Running) /\ Truth(StateLost) /\ Truth(Torn) /\ Truth(Absent)
    /\ Truth(NoReply) /\ Truth(Error)
    /\ Truth(Exited(process))
BY DEF Truth, Running, StateLost, Torn, Absent, NoReply, Error

(* While the process runs no state can claim an outcome. *)
LEMMA NoOutcomeYet ==
    ASSUME NEW job \in JobStates \cup {Torn, Absent, NoReply, Error}, process = NoCode, Truth(job)
    PROVE  job.status \notin {"completed", "failed"}
<1>1. CASE job \in {Running, StateLost, Torn, Absent, NoReply, Error}
  BY <1>1 DEF Running, StateLost, Torn, Absent, NoReply, Error
<1>2. CASE \E code \in Codes : job = Exited(code)
  BY <1>2 DEF Truth, Exited, Codes, NoCode
<1> QED BY <1>1, <1>2 DEF JobStates

(* Marking a job makes it terminal, as decided or lost. *)
LEMMA MarkIsTerminal ==
    ASSUME NEW job \in JobStates, NEW decided \in JobStates
    PROVE  Mark(job, decided) \in {StateLost, decided} /\ IsTerminal(Mark(job, decided))
<1>1. CASE decided.code = NoCode
  <2>1. Mark(job, decided) = StateLost
    <3>1. CASE job = Running
      BY <1>1, <3>1 DEF Mark, MarkStateLost, Running, StateLost
    <3>2. CASE job = StateLost
      BY <1>1, <3>2 DEF Mark, MarkStateLost, StateLost
    <3>3. CASE \E code \in Codes : job = Exited(code)
      BY <1>1, <3>3 DEF Mark, MarkStateLost, Exited, StateLost
    <3> QED BY <3>1, <3>2, <3>3 DEF JobStates
  <2> QED BY <2>1, StateFacts
<1>2. CASE decided.code # NoCode
  <2>1. PICK code \in Codes : decided = Exited(code)
    BY <1>2 DEF JobStates, Running, StateLost
  <2>2. Mark(job, decided) = Exited(code)
    BY <1>2, <2>1 DEF Mark, MarkExit, JobStates, Running, StateLost, Exited
  <2> QED BY <2>1, <2>2, StateFacts
<1> QED BY <1>1, <1>2

(* A write leaves the state or a file that does not parse. *)
LEMMA WriteLeaves ==
    ASSUME NEW job, Write(job)
    PROVE  disk' \in {Torn, job} /\ tangled' = tangled
BY DEF Write

(* A write into an empty file leaves the state. *)
LEMMA WriteWhole ==
    ASSUME NEW job \in JobStates, Write(job), disk = Torn
    PROVE  disk' = job
<1>1. Size(Torn) = 0
  BY DEF Size, Torn
<1>2. Size(job) \in Nat
  BY DEF Size
<1> QED BY <1>1, <1>2 DEF Write

(* There is a first reference, and none is zero. *)
LEMMA RefFacts == 1 \in Refs /\ 0 \notin Refs
<1>1. Cardinality(Checkers) \in Nat
  BY BackgroundJobAssumption, FS_CardinalityType
<1>2. MaxCrashes * Cardinality(Checkers) \in Nat
  BY <1>1, BackgroundJobAssumption
<1> QED BY <1>2 DEF Refs

(* The initial states: no job yet. *)
LEMMA InitHolds == Init => IndInv
<1> SUFFICES ASSUME Init PROVE IndInv
  OBVIOUS
<1>1. FlagsOK
  BY Zenon DEF Init, FlagsOK
<1>2. TypeOK
  BY <1>1, StateFacts, RefFacts, BackgroundJobAssumption DEF Init, FlagsOK, TypeOK
<1>3. TruthInv
  BY NothingClaimed DEF Init, TruthInv
<1>4. ReferenceInv
  BY DEF Init, ReferenceInv
<1>5. FileInv
  BY StateFacts DEF Init, FileInv, AckedJobOnDisk
<1>6. KnownInv
  BY DEF Init, KnownInv, Known
<1>7. WriterInv
  BY DEF Init, WriterInv, FileOpen
<1> QED BY <1>2, <1>3, <1>4, <1>5, <1>6, <1>7 DEF IndInv

-----------------------------------------------------------------------------
(* One lemma per action. *)

(* The process ends: nobody had claimed an outcome before. *)
LEMMA ProcessExitsHolds ==
    ASSUME IndInv, NEW code \in Codes, ProcessExits(code)
    PROVE  IndInv'
<1> USE DEF IndInv
<1>1. FlagsOK'
  BY Zenon DEF ProcessExits, fileVars, channelVars, jobVars, streamVars, checkVars,
      FlagsOK, TypeOK
<1>2. TypeOK'
  BY <1>1, StateFacts, RefFacts, BackgroundJobAssumption DEF ProcessExits, fileVars,
      channelVars, jobVars, streamVars, checkVars, FlagsOK, TypeOK, ReferenceInv
<1>3. TruthInv'
  BY NoOutcomeYet, StateFacts, RefFacts, NothingClaimed DEF ProcessExits, fileVars,
      channelVars, jobVars, streamVars, checkVars, TypeOK, TruthInv, Truth, ReferenceInv
<1>4. ReferenceInv'
  BY RefFacts DEF ProcessExits, fileVars, channelVars, jobVars, streamVars, checkVars,
      TypeOK, ReferenceInv
<1>5. FileInv'
  BY StateFacts DEF ProcessExits, fileVars, channelVars, jobVars, streamVars, checkVars,
      TypeOK, FileInv, AckedJobOnDisk, ReferenceInv
<1>6. KnownInv'
  BY StateFacts, RefFacts DEF ProcessExits, fileVars, channelVars, jobVars, streamVars,
      checkVars, TypeOK, ReferenceInv, FileInv, KnownInv, Known
<1>7. WriterInv'
  BY StateFacts DEF ProcessExits, fileVars, channelVars, jobVars, streamVars, checkVars,
      TypeOK, ReferenceInv, FileInv, WriterInv, FileOpen
<1> QED BY <1>2, <1>3, <1>4, <1>5, <1>6, <1>7

(* The channel ends. *)
LEMMA ChannelLostHolds ==
    ASSUME IndInv, ChannelLost
    PROVE  IndInv'
<1> USE DEF IndInv
<1>1. FlagsOK'
  BY Zenon DEF ChannelLost, fileVars, jobVars, streamVars, checkVars, FlagsOK, TypeOK
<1>2. TypeOK'
  BY <1>1, StateFacts, RefFacts, BackgroundJobAssumption DEF ChannelLost, fileVars,
      jobVars, streamVars, checkVars, FlagsOK, TypeOK, ReferenceInv
<1>3. TruthInv'
  BY StateFacts, RefFacts, NothingClaimed DEF ChannelLost, fileVars, jobVars, streamVars,
      checkVars, TypeOK, TruthInv, Truth, ReferenceInv
<1>4. ReferenceInv'
  BY RefFacts DEF ChannelLost, fileVars, jobVars, streamVars, checkVars, TypeOK,
      ReferenceInv
<1>5. FileInv'
  BY StateFacts DEF ChannelLost, fileVars, jobVars, streamVars, checkVars, TypeOK,
      FileInv, AckedJobOnDisk, ReferenceInv
<1>6. KnownInv'
  BY StateFacts, RefFacts DEF ChannelLost, fileVars, jobVars, streamVars, checkVars,
      TypeOK, ReferenceInv, FileInv, KnownInv, Known
<1>7. WriterInv'
  BY StateFacts DEF ChannelLost, fileVars, jobVars, streamVars, checkVars, TypeOK,
      ReferenceInv, FileInv, WriterInv, FileOpen
<1> QED BY <1>2, <1>3, <1>4, <1>5, <1>6, <1>7

(* The job enters the registry. *)
LEMMA RegisterHolds ==
    ASSUME IndInv, Register
    PROVE  IndInv'
<1> USE DEF IndInv
<1>1. FlagsOK'
  BY Zenon DEF Register, fileVars, channelVars, RegisterThen, checkVars, FlagsOK, TypeOK
<1>2. TypeOK'
  BY <1>1, StateFacts, RefFacts, BackgroundJobAssumption DEF Register, fileVars,
      channelVars, RegisterThen, checkVars, FlagsOK, TypeOK, ReferenceInv
<1>3. TruthInv'
  BY StateFacts, RefFacts, NothingClaimed DEF Register, fileVars, channelVars,
      RegisterThen, checkVars, TypeOK, TruthInv, Truth, ReferenceInv
<1>4. ReferenceInv'
  BY RefFacts DEF Register, fileVars, channelVars, RegisterThen, checkVars, TypeOK,
      ReferenceInv
<1>5. FileInv'
  BY StateFacts DEF Register, fileVars, channelVars, RegisterThen, checkVars, TypeOK,
      FileInv, AckedJobOnDisk, ReferenceInv
<1>6. KnownInv'
  BY StateFacts, RefFacts DEF Register, fileVars, channelVars, RegisterThen, checkVars,
      TypeOK, ReferenceInv, FileInv, KnownInv, Known
<1>7. WriterInv'
  BY StateFacts DEF Register, fileVars, channelVars, RegisterThen, checkVars, TypeOK,
      ReferenceInv, FileInv, WriterInv, FileOpen
<1> QED BY <1>2, <1>3, <1>4, <1>5, <1>6, <1>7

(* The file is truncated. *)
LEMMA StreamerOpensFileHolds ==
    ASSUME IndInv, StreamerOpensFile
    PROVE  IndInv'
<1> USE DEF IndInv
<1>1. FlagsOK'
  BY Zenon DEF StreamerOpensFile, OpenFile, FileOpen, channelVars, jobVars, checkVars,
      FlagsOK, TypeOK
<1>2. TypeOK'
  BY <1>1, StateFacts, RefFacts, BackgroundJobAssumption DEF StreamerOpensFile, OpenFile,
      FileOpen, channelVars, jobVars, checkVars, FlagsOK, TypeOK, ReferenceInv
<1>3. TruthInv'
  BY StateFacts, RefFacts, NothingClaimed DEF StreamerOpensFile, OpenFile, FileOpen,
      channelVars, jobVars, checkVars, TypeOK, TruthInv, Truth, ReferenceInv
<1>4. ReferenceInv'
  BY RefFacts DEF StreamerOpensFile, OpenFile, FileOpen, channelVars, jobVars, checkVars,
      TypeOK, ReferenceInv
<1>5. FileInv'
  BY StateFacts DEF StreamerOpensFile, OpenFile, FileOpen, channelVars, jobVars,
      checkVars, TypeOK, FileInv, AckedJobOnDisk, ReferenceInv
<1>6. KnownInv'
  BY StateFacts, RefFacts DEF StreamerOpensFile, OpenFile, FileOpen, channelVars, jobVars,
      checkVars, TypeOK, ReferenceInv, FileInv, KnownInv, Known
<1>7. WriterInv'
  BY StateFacts DEF StreamerOpensFile, OpenFile, FileOpen, channelVars, jobVars,
      checkVars, TypeOK, ReferenceInv, FileInv, WriterInv, FileOpen
<1> QED BY <1>2, <1>3, <1>4, <1>5, <1>6, <1>7

(* The running state is written first, a terminal one last. *)
LEMMA StreamerWritesHolds ==
    ASSUME IndInv, StreamerWrites
    PROVE  IndInv'
<1> USE DEF IndInv
<1>a. disk' \in {Torn, outcome}
  BY WriteLeaves DEF StreamerWrites, channelVars, Write
<1>1. FlagsOK'
  BY Zenon DEF StreamerWrites, channelVars, Write, jobVars, checkVars, FlagsOK, TypeOK
<1>2. TypeOK'
  BY <1>a, <1>1, StateFacts, RefFacts, BackgroundJobAssumption DEF StreamerWrites,
      channelVars, Write, jobVars, checkVars, FlagsOK, TypeOK, ReferenceInv
<1>3. TruthInv'
  BY <1>a, StateFacts, RefFacts, NothingClaimed DEF StreamerWrites, channelVars, Write,
      jobVars, checkVars, TypeOK, TruthInv, Truth, ReferenceInv
<1>4. ReferenceInv'
  BY RefFacts DEF StreamerWrites, channelVars, Write, jobVars, checkVars, TypeOK,
      ReferenceInv
<1>5. FileInv'
  BY <1>a, StateFacts DEF StreamerWrites, channelVars, Write, jobVars, checkVars, TypeOK,
      FileInv, AckedJobOnDisk, ReferenceInv
<1>6. KnownInv'
  BY <1>a, StateFacts, RefFacts DEF StreamerWrites, channelVars, Write, jobVars,
      checkVars, TypeOK, ReferenceInv, FileInv, KnownInv, Known
<1>7. WriterInv'
  BY <1>a, WriteWhole, StateFacts DEF StreamerWrites, channelVars, Write, jobVars,
      checkVars, TypeOK, ReferenceInv, FileInv, WriterInv, FileOpen
<1> QED BY <1>2, <1>3, <1>4, <1>5, <1>6, <1>7

(* A failed persist. *)
LEMMA StreamerCannotPersistHolds ==
    ASSUME IndInv, StreamerCannotPersist
    PROVE  IndInv'
<1> USE DEF IndInv
<1>1. FlagsOK'
  BY Zenon DEF StreamerCannotPersist, fileVars, channelVars, jobVars, checkVars, FlagsOK,
      TypeOK
<1>2. TypeOK'
  BY <1>1, StateFacts, RefFacts, BackgroundJobAssumption DEF StreamerCannotPersist,
      fileVars, channelVars, jobVars, checkVars, FlagsOK, TypeOK, ReferenceInv
<1>3. TruthInv'
  BY StateFacts, RefFacts, NothingClaimed DEF StreamerCannotPersist, fileVars,
      channelVars, jobVars, checkVars, TypeOK, TruthInv, Truth, ReferenceInv
<1>4. ReferenceInv'
  BY RefFacts DEF StreamerCannotPersist, fileVars, channelVars, jobVars, checkVars,
      TypeOK, ReferenceInv
<1>5. FileInv'
  BY StateFacts DEF StreamerCannotPersist, fileVars, channelVars, jobVars, checkVars,
      TypeOK, FileInv, AckedJobOnDisk, ReferenceInv
<1>6. KnownInv'
  BY StateFacts, RefFacts DEF StreamerCannotPersist, fileVars, channelVars, jobVars,
      checkVars, TypeOK, ReferenceInv, FileInv, KnownInv, Known
<1>7. WriterInv'
  BY StateFacts DEF StreamerCannotPersist, fileVars, channelVars, jobVars, checkVars,
      TypeOK, ReferenceInv, FileInv, WriterInv, FileOpen
<1> QED BY <1>2, <1>3, <1>4, <1>5, <1>6, <1>7

(* The client learns of the job after its file. *)
LEMMA AcknowledgeHolds ==
    ASSUME IndInv, Acknowledge
    PROVE  IndInv'
<1> USE DEF IndInv
<1>1. FlagsOK'
  BY Zenon DEF Acknowledge, fileVars, channelVars, jobVars, checkVars, FlagsOK, TypeOK
<1>2. TypeOK'
  BY <1>1, StateFacts, RefFacts, BackgroundJobAssumption DEF Acknowledge, fileVars,
      channelVars, jobVars, checkVars, FlagsOK, TypeOK, ReferenceInv
<1>3. TruthInv'
  BY StateFacts, RefFacts, NothingClaimed DEF Acknowledge, fileVars, channelVars, jobVars,
      checkVars, TypeOK, TruthInv, Truth, ReferenceInv
<1>4. ReferenceInv'
  BY RefFacts DEF Acknowledge, fileVars, channelVars, jobVars, checkVars, TypeOK,
      ReferenceInv
<1>5. FileInv'
  BY StateFacts DEF Acknowledge, fileVars, channelVars, jobVars, checkVars, TypeOK,
      FileInv, AckedJobOnDisk, ReferenceInv
<1>6. KnownInv'
  BY StateFacts, RefFacts DEF Acknowledge, fileVars, channelVars, jobVars, checkVars,
      TypeOK, ReferenceInv, FileInv, KnownInv, Known
<1>7. WriterInv'
  BY StateFacts DEF Acknowledge, fileVars, channelVars, jobVars, checkVars, TypeOK,
      ReferenceInv, FileInv, WriterInv, FileOpen
<1> QED BY <1>2, <1>3, <1>4, <1>5, <1>6, <1>7

(* The outcome is the exit code that arrived, or lost. *)
LEMMA StreamEndsHolds ==
    ASSUME IndInv, StreamEnds
    PROVE  IndInv'
<1> USE DEF IndInv
<1>1. FlagsOK'
  BY Zenon DEF StreamEnds, fileVars, channelVars, StreamEndsWhen, jobVars, checkVars,
      FlagsOK, TypeOK
<1>2. TypeOK'
  BY <1>1, StateFacts, RefFacts, BackgroundJobAssumption DEF StreamEnds, fileVars,
      channelVars, StreamEndsWhen, jobVars, checkVars, FlagsOK, TypeOK, ReferenceInv
<1>3. TruthInv'
  BY StateFacts, RefFacts, NothingClaimed DEF StreamEnds, fileVars, channelVars,
      StreamEndsWhen, jobVars, checkVars, TypeOK, TruthInv, Truth, ReferenceInv
<1>4. ReferenceInv'
  BY RefFacts DEF StreamEnds, fileVars, channelVars, StreamEndsWhen, jobVars, checkVars,
      TypeOK, ReferenceInv
<1>5. FileInv'
  BY StateFacts DEF StreamEnds, fileVars, channelVars, StreamEndsWhen, jobVars, checkVars,
      TypeOK, FileInv, AckedJobOnDisk, ReferenceInv
<1>6. KnownInv'
  BY StateFacts, RefFacts DEF StreamEnds, fileVars, channelVars, StreamEndsWhen, jobVars,
      checkVars, TypeOK, ReferenceInv, FileInv, KnownInv, Known
<1>7. WriterInv'
  BY StateFacts DEF StreamEnds, fileVars, channelVars, StreamEndsWhen, jobVars, checkVars,
      TypeOK, ReferenceInv, FileInv, WriterInv, FileOpen
<1> QED BY <1>2, <1>3, <1>4, <1>5, <1>6, <1>7

(* The exit status arrives. *)
LEMMA StreamHearsStatusHolds ==
    ASSUME IndInv, StreamHearsStatus
    PROVE  IndInv'
<1> USE DEF IndInv
<1>1. FlagsOK'
  BY Zenon DEF StreamHearsStatus, fileVars, channelVars, jobVars, checkVars, FlagsOK,
      TypeOK
<1>2. TypeOK'
  BY <1>1, StateFacts, RefFacts, BackgroundJobAssumption DEF StreamHearsStatus, fileVars,
      channelVars, jobVars, checkVars, FlagsOK, TypeOK, ReferenceInv
<1>3. TruthInv'
  BY StateFacts, RefFacts, NothingClaimed DEF StreamHearsStatus, fileVars, channelVars,
      jobVars, checkVars, TypeOK, TruthInv, Truth, ReferenceInv
<1>4. ReferenceInv'
  BY RefFacts DEF StreamHearsStatus, fileVars, channelVars, jobVars, checkVars, TypeOK,
      ReferenceInv
<1>5. FileInv'
  BY StateFacts DEF StreamHearsStatus, fileVars, channelVars, jobVars, checkVars, TypeOK,
      FileInv, AckedJobOnDisk, ReferenceInv
<1>6. KnownInv'
  BY StateFacts, RefFacts DEF StreamHearsStatus, fileVars, channelVars, jobVars,
      checkVars, TypeOK, ReferenceInv, FileInv, KnownInv, Known
<1>7. WriterInv'
  BY StateFacts DEF StreamHearsStatus, fileVars, channelVars, jobVars, checkVars, TypeOK,
      ReferenceInv, FileInv, WriterInv, FileOpen
<1> QED BY <1>2, <1>3, <1>4, <1>5, <1>6, <1>7

(* EOF arrives. *)
LEMMA StreamHearsEofHolds ==
    ASSUME IndInv, StreamHearsEof
    PROVE  IndInv'
<1> USE DEF IndInv
<1>1. FlagsOK'
  BY Zenon DEF StreamHearsEof, fileVars, channelVars, jobVars, checkVars, FlagsOK, TypeOK
<1>2. TypeOK'
  BY <1>1, StateFacts, RefFacts, BackgroundJobAssumption DEF StreamHearsEof, fileVars,
      channelVars, jobVars, checkVars, FlagsOK, TypeOK, ReferenceInv
<1>3. TruthInv'
  BY StateFacts, RefFacts, NothingClaimed DEF StreamHearsEof, fileVars, channelVars,
      jobVars, checkVars, TypeOK, TruthInv, Truth, ReferenceInv
<1>4. ReferenceInv'
  BY RefFacts DEF StreamHearsEof, fileVars, channelVars, jobVars, checkVars, TypeOK,
      ReferenceInv
<1>5. FileInv'
  BY StateFacts DEF StreamHearsEof, fileVars, channelVars, jobVars, checkVars, TypeOK,
      FileInv, AckedJobOnDisk, ReferenceInv
<1>6. KnownInv'
  BY StateFacts, RefFacts DEF StreamHearsEof, fileVars, channelVars, jobVars, checkVars,
      TypeOK, ReferenceInv, FileInv, KnownInv, Known
<1>7. WriterInv'
  BY StateFacts DEF StreamHearsEof, fileVars, channelVars, jobVars, checkVars, TypeOK,
      ReferenceInv, FileInv, WriterInv, FileOpen
<1> QED BY <1>2, <1>3, <1>4, <1>5, <1>6, <1>7

(* The log cannot be written: the outcome is lost. *)
LEMMA StreamFailsHolds ==
    ASSUME IndInv, StreamFails
    PROVE  IndInv'
<1> USE DEF IndInv
<1>1. FlagsOK'
  BY Zenon DEF StreamFails, fileVars, channelVars, jobVars, checkVars, FlagsOK, TypeOK
<1>2. TypeOK'
  BY <1>1, StateFacts, RefFacts, BackgroundJobAssumption DEF StreamFails, fileVars,
      channelVars, jobVars, checkVars, FlagsOK, TypeOK, ReferenceInv
<1>3. TruthInv'
  BY StateFacts, RefFacts, NothingClaimed DEF StreamFails, fileVars, channelVars, jobVars,
      checkVars, TypeOK, TruthInv, Truth, ReferenceInv
<1>4. ReferenceInv'
  BY RefFacts DEF StreamFails, fileVars, channelVars, jobVars, checkVars, TypeOK,
      ReferenceInv
<1>5. FileInv'
  BY StateFacts DEF StreamFails, fileVars, channelVars, jobVars, checkVars, TypeOK,
      FileInv, AckedJobOnDisk, ReferenceInv
<1>6. KnownInv'
  BY StateFacts, RefFacts DEF StreamFails, fileVars, channelVars, jobVars, checkVars,
      TypeOK, ReferenceInv, FileInv, KnownInv, Known
<1>7. WriterInv'
  BY StateFacts DEF StreamFails, fileVars, channelVars, jobVars, checkVars, TypeOK,
      ReferenceInv, FileInv, WriterInv, FileOpen
<1> QED BY <1>2, <1>3, <1>4, <1>5, <1>6, <1>7

(* The outcome is stored. *)
LEMMA UpdateJobTerminalHolds ==
    ASSUME IndInv, UpdateJobTerminal
    PROVE  IndInv'
<1> USE DEF IndInv
<1>a. registry \in Refs
  BY DEF UpdateJobTerminal, fileVars, channelVars, TypeOK, ReferenceInv
<1>b. Mark(shared[registry], outcome) \in {StateLost, outcome}
  BY <1>a, MarkIsTerminal DEF TypeOK
<1>1. FlagsOK'
  BY Zenon DEF UpdateJobTerminal, fileVars, channelVars, StreamerStores, checkVars,
      FlagsOK, TypeOK
<1>2. TypeOK'
  BY <1>a, <1>b, <1>1, StateFacts, RefFacts, BackgroundJobAssumption DEF
      UpdateJobTerminal, fileVars, channelVars, StreamerStores, checkVars, FlagsOK,
      TypeOK, ReferenceInv
<1>3. TruthInv'
  BY <1>a, <1>b, StateFacts, RefFacts, NothingClaimed DEF UpdateJobTerminal, fileVars,
      channelVars, StreamerStores, checkVars, TypeOK, TruthInv, Truth, ReferenceInv
<1>4. ReferenceInv'
  BY RefFacts DEF UpdateJobTerminal, fileVars, channelVars, StreamerStores, checkVars,
      TypeOK, ReferenceInv
<1>5. FileInv'
  BY <1>a, <1>b, StateFacts DEF UpdateJobTerminal, fileVars, channelVars, StreamerStores,
      checkVars, TypeOK, FileInv, AckedJobOnDisk, ReferenceInv
<1>6. KnownInv'
  BY <1>a, <1>b, StateFacts, RefFacts DEF UpdateJobTerminal, fileVars, channelVars,
      StreamerStores, checkVars, TypeOK, ReferenceInv, FileInv, KnownInv, Known
<1>7. WriterInv'
  BY <1>a, <1>b, StateFacts DEF UpdateJobTerminal, fileVars, channelVars, StreamerStores,
      checkVars, TypeOK, ReferenceInv, FileInv, WriterInv, FileOpen
<1> QED BY <1>2, <1>3, <1>4, <1>5, <1>6, <1>7

(* A check is made for a job the client knows. *)
LEMMA CheckBeginsHolds ==
    ASSUME IndInv, NEW k \in Checkers, CheckBegins(k)
    PROVE  IndInv'
<1> USE DEF IndInv
<1>1. FlagsOK'
  BY Zenon DEF CheckBegins, fileVars, channelVars, Goto, jobVars, streamVars, FlagsOK,
      TypeOK
<1>2. TypeOK'
  BY <1>1, StateFacts, RefFacts, BackgroundJobAssumption DEF CheckBegins, fileVars,
      channelVars, Goto, jobVars, streamVars, FlagsOK, TypeOK, ReferenceInv
<1>3. TruthInv'
  BY StateFacts, RefFacts, NothingClaimed DEF CheckBegins, fileVars, channelVars, Goto,
      jobVars, streamVars, TypeOK, TruthInv, Truth, ReferenceInv
<1>4. ReferenceInv'
  BY RefFacts DEF CheckBegins, fileVars, channelVars, Goto, jobVars, streamVars, TypeOK,
      ReferenceInv
<1>5. FileInv'
  BY StateFacts DEF CheckBegins, fileVars, channelVars, Goto, jobVars, streamVars, TypeOK,
      FileInv, AckedJobOnDisk, ReferenceInv
<1>6. KnownInv'
  BY StateFacts, RefFacts DEF CheckBegins, fileVars, channelVars, Goto, jobVars,
      streamVars, TypeOK, ReferenceInv, FileInv, KnownInv, Known
<1>7. WriterInv'
  BY StateFacts DEF CheckBegins, fileVars, channelVars, Goto, jobVars, streamVars, TypeOK,
      ReferenceInv, FileInv, WriterInv, FileOpen
<1> QED BY <1>2, <1>3, <1>4, <1>5, <1>6, <1>7

(* The registry, or the file. *)
LEMMA CheckGetsHolds ==
    ASSUME IndInv, NEW k \in Checkers, CheckGets(k)
    PROVE  IndInv'
<1> USE DEF IndInv
<1>1. FlagsOK'
  BY Zenon DEF CheckGets, fileVars, channelVars, Goto, Answer, Failure, jobVars,
      streamVars, FlagsOK, TypeOK
<1>2. TypeOK'
  BY <1>1, StateFacts, RefFacts, BackgroundJobAssumption DEF CheckGets, fileVars,
      channelVars, Goto, Answer, Failure, jobVars, streamVars, FlagsOK, TypeOK,
      ReferenceInv
<1>3. TruthInv'
  BY StateFacts, RefFacts, NothingClaimed DEF CheckGets, fileVars, channelVars, Goto,
      Answer, Failure, jobVars, streamVars, TypeOK, TruthInv, Truth, ReferenceInv
<1>4. ReferenceInv'
  BY RefFacts DEF CheckGets, fileVars, channelVars, Goto, Answer, Failure, jobVars,
      streamVars, TypeOK, ReferenceInv
<1>5. FileInv'
  BY StateFacts DEF CheckGets, fileVars, channelVars, Goto, Answer, Failure, jobVars,
      streamVars, TypeOK, FileInv, AckedJobOnDisk, ReferenceInv
<1>6. KnownInv'
  BY StateFacts, RefFacts DEF CheckGets, fileVars, channelVars, Goto, Answer, Failure,
      jobVars, streamVars, TypeOK, ReferenceInv, FileInv, KnownInv, Known
<1>7. WriterInv'
  BY StateFacts DEF CheckGets, fileVars, channelVars, Goto, Answer, Failure, jobVars,
      streamVars, TypeOK, ReferenceInv, FileInv, WriterInv, FileOpen
<1> QED BY <1>2, <1>3, <1>4, <1>5, <1>6, <1>7

(* A recovered state gets a reference nobody holds. *)
LEMMA CheckInsertsHolds ==
    ASSUME IndInv, NEW k \in Checkers, CheckInserts(k)
    PROVE  IndInv'
<1> USE DEF IndInv
<1>1. FlagsOK'
  BY Zenon DEF CheckInserts, fileVars, channelVars, InUse, Goto, streamVars, FlagsOK,
      TypeOK
<1>2. TypeOK'
  BY <1>1, StateFacts, RefFacts, BackgroundJobAssumption DEF CheckInserts, fileVars,
      channelVars, InUse, Goto, streamVars, FlagsOK, TypeOK, ReferenceInv
<1>3. TruthInv'
  BY StateFacts, RefFacts, NothingClaimed DEF CheckInserts, fileVars, channelVars, InUse,
      Goto, streamVars, TypeOK, TruthInv, Truth, ReferenceInv
<1>4. ReferenceInv'
  BY RefFacts DEF CheckInserts, fileVars, channelVars, InUse, Goto, streamVars, TypeOK,
      ReferenceInv
<1>5. FileInv'
  BY StateFacts DEF CheckInserts, fileVars, channelVars, InUse, Goto, streamVars, TypeOK,
      FileInv, AckedJobOnDisk, ReferenceInv
<1>6. KnownInv'
  BY StateFacts, RefFacts DEF CheckInserts, fileVars, channelVars, InUse, Goto,
      streamVars, TypeOK, ReferenceInv, FileInv, KnownInv, Known
<1>7. WriterInv'
  BY StateFacts DEF CheckInserts, fileVars, channelVars, InUse, Goto, streamVars, TypeOK,
      ReferenceInv, FileInv, WriterInv, FileOpen
<1> QED BY <1>2, <1>3, <1>4, <1>5, <1>6, <1>7

(* A terminal state is answered. *)
LEMMA CheckSnapshotsHolds ==
    ASSUME IndInv, NEW k \in Checkers, CheckSnapshots(k)
    PROVE  IndInv'
<1> USE DEF IndInv
<1>1. FlagsOK'
  BY Zenon DEF CheckSnapshots, fileVars, channelVars, AnswerWithLog, Goto, jobVars,
      streamVars, Failure, Answer, FlagsOK, TypeOK
<1>2. TypeOK'
  BY <1>1, StateFacts, RefFacts, BackgroundJobAssumption DEF CheckSnapshots, fileVars,
      channelVars, AnswerWithLog, Goto, jobVars, streamVars, Failure, Answer, FlagsOK,
      TypeOK, ReferenceInv
<1>3. TruthInv'
  BY StateFacts, RefFacts, NothingClaimed DEF CheckSnapshots, fileVars, channelVars,
      AnswerWithLog, Goto, jobVars, streamVars, Failure, Answer, TypeOK, TruthInv, Truth,
      ReferenceInv
<1>4. ReferenceInv'
  BY RefFacts DEF CheckSnapshots, fileVars, channelVars, AnswerWithLog, Goto, jobVars,
      streamVars, Failure, Answer, TypeOK, ReferenceInv
<1>5. FileInv'
  BY StateFacts DEF CheckSnapshots, fileVars, channelVars, AnswerWithLog, Goto, jobVars,
      streamVars, Failure, Answer, TypeOK, FileInv, AckedJobOnDisk, ReferenceInv
<1>6. KnownInv'
  BY StateFacts, RefFacts DEF CheckSnapshots, fileVars, channelVars, AnswerWithLog, Goto,
      jobVars, streamVars, Failure, Answer, TypeOK, ReferenceInv, FileInv, KnownInv, Known
<1>7. WriterInv'
  BY StateFacts DEF CheckSnapshots, fileVars, channelVars, AnswerWithLog, Goto, jobVars,
      streamVars, Failure, Answer, TypeOK, ReferenceInv, FileInv, WriterInv, FileOpen
<1> QED BY <1>2, <1>3, <1>4, <1>5, <1>6, <1>7

(* The probe says running. *)
LEMMA CheckSeesRunningHolds ==
    ASSUME IndInv, NEW k \in Checkers, CheckSeesRunning(k)
    PROVE  IndInv'
<1> USE DEF IndInv
<1>1. FlagsOK'
  BY Zenon DEF CheckSeesRunning, fileVars, channelVars, AnswerWithLog, jobVars,
      streamVars, Failure, Answer, Goto, FlagsOK, TypeOK
<1>2. TypeOK'
  BY <1>1, StateFacts, RefFacts, BackgroundJobAssumption DEF CheckSeesRunning, fileVars,
      channelVars, AnswerWithLog, jobVars, streamVars, Failure, Answer, Goto, FlagsOK,
      TypeOK, ReferenceInv
<1>3. TruthInv'
  BY StateFacts, RefFacts, NothingClaimed DEF CheckSeesRunning, fileVars, channelVars,
      AnswerWithLog, jobVars, streamVars, Failure, Answer, Goto, TypeOK, TruthInv, Truth,
      ReferenceInv
<1>4. ReferenceInv'
  BY RefFacts DEF CheckSeesRunning, fileVars, channelVars, AnswerWithLog, jobVars,
      streamVars, Failure, Answer, Goto, TypeOK, ReferenceInv
<1>5. FileInv'
  BY StateFacts DEF CheckSeesRunning, fileVars, channelVars, AnswerWithLog, jobVars,
      streamVars, Failure, Answer, Goto, TypeOK, FileInv, AckedJobOnDisk, ReferenceInv
<1>6. KnownInv'
  BY StateFacts, RefFacts DEF CheckSeesRunning, fileVars, channelVars, AnswerWithLog,
      jobVars, streamVars, Failure, Answer, Goto, TypeOK, ReferenceInv, FileInv, KnownInv,
      Known
<1>7. WriterInv'
  BY StateFacts DEF CheckSeesRunning, fileVars, channelVars, AnswerWithLog, jobVars,
      streamVars, Failure, Answer, Goto, TypeOK, ReferenceInv, FileInv, WriterInv,
      FileOpen
<1> QED BY <1>2, <1>3, <1>4, <1>5, <1>6, <1>7

(* The probe says gone. *)
LEMMA CheckSeesGoneHolds ==
    ASSUME IndInv, NEW k \in Checkers, CheckSeesGone(k)
    PROVE  IndInv'
<1> USE DEF IndInv
<1>1. FlagsOK'
  BY Zenon DEF CheckSeesGone, fileVars, channelVars, Goto, jobVars, streamVars, FlagsOK,
      TypeOK
<1>2. TypeOK'
  BY <1>1, StateFacts, RefFacts, BackgroundJobAssumption DEF CheckSeesGone, fileVars,
      channelVars, Goto, jobVars, streamVars, FlagsOK, TypeOK, ReferenceInv
<1>3. TruthInv'
  BY StateFacts, RefFacts, NothingClaimed DEF CheckSeesGone, fileVars, channelVars, Goto,
      jobVars, streamVars, TypeOK, TruthInv, Truth, ReferenceInv
<1>4. ReferenceInv'
  BY RefFacts DEF CheckSeesGone, fileVars, channelVars, Goto, jobVars, streamVars, TypeOK,
      ReferenceInv
<1>5. FileInv'
  BY StateFacts DEF CheckSeesGone, fileVars, channelVars, Goto, jobVars, streamVars,
      TypeOK, FileInv, AckedJobOnDisk, ReferenceInv
<1>6. KnownInv'
  BY StateFacts, RefFacts DEF CheckSeesGone, fileVars, channelVars, Goto, jobVars,
      streamVars, TypeOK, ReferenceInv, FileInv, KnownInv, Known
<1>7. WriterInv'
  BY StateFacts DEF CheckSeesGone, fileVars, channelVars, Goto, jobVars, streamVars,
      TypeOK, ReferenceInv, FileInv, WriterInv, FileOpen
<1> QED BY <1>2, <1>3, <1>4, <1>5, <1>6, <1>7

(* No probe. *)
LEMMA CheckCannotProbeHolds ==
    ASSUME IndInv, NEW k \in Checkers, CheckCannotProbe(k)
    PROVE  IndInv'
<1> USE DEF IndInv
<1>1. FlagsOK'
  BY Zenon DEF CheckCannotProbe, fileVars, channelVars, Answer, Failure, jobVars,
      streamVars, Goto, FlagsOK, TypeOK
<1>2. TypeOK'
  BY <1>1, StateFacts, RefFacts, BackgroundJobAssumption DEF CheckCannotProbe, fileVars,
      channelVars, Answer, Failure, jobVars, streamVars, Goto, FlagsOK, TypeOK,
      ReferenceInv
<1>3. TruthInv'
  BY StateFacts, RefFacts, NothingClaimed DEF CheckCannotProbe, fileVars, channelVars,
      Answer, Failure, jobVars, streamVars, Goto, TypeOK, TruthInv, Truth, ReferenceInv
<1>4. ReferenceInv'
  BY RefFacts DEF CheckCannotProbe, fileVars, channelVars, Answer, Failure, jobVars,
      streamVars, Goto, TypeOK, ReferenceInv
<1>5. FileInv'
  BY StateFacts DEF CheckCannotProbe, fileVars, channelVars, Answer, Failure, jobVars,
      streamVars, Goto, TypeOK, FileInv, AckedJobOnDisk, ReferenceInv
<1>6. KnownInv'
  BY StateFacts, RefFacts DEF CheckCannotProbe, fileVars, channelVars, Answer, Failure,
      jobVars, streamVars, Goto, TypeOK, ReferenceInv, FileInv, KnownInv, Known
<1>7. WriterInv'
  BY StateFacts DEF CheckCannotProbe, fileVars, channelVars, Answer, Failure, jobVars,
      streamVars, Goto, TypeOK, ReferenceInv, FileInv, WriterInv, FileOpen
<1> QED BY <1>2, <1>3, <1>4, <1>5, <1>6, <1>7

(* The second look decides on a terminal state. *)
LEMMA CheckSettlesHolds ==
    ASSUME IndInv, NEW k \in Checkers, CheckSettles(k)
    PROVE  IndInv'
<1> USE DEF IndInv
<1>1. FlagsOK'
  BY Zenon DEF CheckSettles, fileVars, channelVars, SettleOr, Goto, jobVars, streamVars,
      FlagsOK, TypeOK
<1>2. TypeOK'
  BY <1>1, StateFacts, RefFacts, BackgroundJobAssumption DEF CheckSettles, fileVars,
      channelVars, SettleOr, Goto, jobVars, streamVars, FlagsOK, TypeOK, ReferenceInv
<1>3. TruthInv'
  BY StateFacts, RefFacts, NothingClaimed DEF CheckSettles, fileVars, channelVars,
      SettleOr, Goto, jobVars, streamVars, TypeOK, TruthInv, Truth, ReferenceInv
<1>4. ReferenceInv'
  BY RefFacts DEF CheckSettles, fileVars, channelVars, SettleOr, Goto, jobVars,
      streamVars, TypeOK, ReferenceInv
<1>5. FileInv'
  BY StateFacts DEF CheckSettles, fileVars, channelVars, SettleOr, Goto, jobVars,
      streamVars, TypeOK, FileInv, AckedJobOnDisk, ReferenceInv
<1>6. KnownInv'
  BY StateFacts, RefFacts DEF CheckSettles, fileVars, channelVars, SettleOr, Goto,
      jobVars, streamVars, TypeOK, ReferenceInv, FileInv, KnownInv, Known
<1>7. WriterInv'
  BY StateFacts DEF CheckSettles, fileVars, channelVars, SettleOr, Goto, jobVars,
      streamVars, TypeOK, ReferenceInv, FileInv, WriterInv, FileOpen
<1> QED BY <1>2, <1>3, <1>4, <1>5, <1>6, <1>7

(* The decision is stored. *)
LEMMA CheckAppliesHolds ==
    ASSUME IndInv, NEW k \in Checkers, CheckApplies(k)
    PROVE  IndInv'
<1> USE DEF IndInv
<1>a. ref[k] \in Refs
  BY DEF CheckApplies, fileVars, channelVars, TypeOK, ReferenceInv
<1>b. Mark(shared[ref[k]], found[k]) \in {StateLost, found[k]}
  BY <1>a, MarkIsTerminal DEF TypeOK
<1>1. FlagsOK'
  BY Zenon DEF CheckApplies, fileVars, channelVars, ApplyAs, Goto, streamVars, FlagsOK,
      TypeOK
<1>2. TypeOK'
  BY <1>a, <1>b, <1>1, StateFacts, RefFacts, BackgroundJobAssumption DEF CheckApplies,
      fileVars, channelVars, ApplyAs, Goto, streamVars, FlagsOK, TypeOK, ReferenceInv
<1>3. TruthInv'
  BY <1>a, <1>b, StateFacts, RefFacts, NothingClaimed DEF CheckApplies, fileVars,
      channelVars, ApplyAs, Goto, streamVars, TypeOK, TruthInv, Truth, ReferenceInv
<1>4. ReferenceInv'
  BY RefFacts DEF CheckApplies, fileVars, channelVars, ApplyAs, Goto, streamVars, TypeOK,
      ReferenceInv
<1>5. FileInv'
  BY <1>a, <1>b, StateFacts DEF CheckApplies, fileVars, channelVars, ApplyAs, Goto,
      streamVars, TypeOK, FileInv, AckedJobOnDisk, ReferenceInv
<1>6. KnownInv'
  BY <1>a, <1>b, StateFacts, RefFacts DEF CheckApplies, fileVars, channelVars, ApplyAs,
      Goto, streamVars, TypeOK, ReferenceInv, FileInv, KnownInv, Known
<1>7. WriterInv'
  BY <1>a, <1>b, StateFacts DEF CheckApplies, fileVars, channelVars, ApplyAs, Goto,
      streamVars, TypeOK, ReferenceInv, FileInv, WriterInv, FileOpen
<1> QED BY <1>2, <1>3, <1>4, <1>5, <1>6, <1>7

(* The check truncates the file. *)
LEMMA CheckOpensFileHolds ==
    ASSUME IndInv, NEW k \in Checkers, CheckOpensFile(k)
    PROVE  IndInv'
<1> USE DEF IndInv
<1>1. FlagsOK'
  BY Zenon DEF CheckOpensFile, OpenFile, FileOpen, channelVars, Goto, jobVars, streamVars,
      FlagsOK, TypeOK
<1>2. TypeOK'
  BY <1>1, StateFacts, RefFacts, BackgroundJobAssumption DEF CheckOpensFile, OpenFile,
      FileOpen, channelVars, Goto, jobVars, streamVars, FlagsOK, TypeOK, ReferenceInv
<1>3. TruthInv'
  BY StateFacts, RefFacts, NothingClaimed DEF CheckOpensFile, OpenFile, FileOpen,
      channelVars, Goto, jobVars, streamVars, TypeOK, TruthInv, Truth, ReferenceInv
<1>4. ReferenceInv'
  BY RefFacts DEF CheckOpensFile, OpenFile, FileOpen, channelVars, Goto, jobVars,
      streamVars, TypeOK, ReferenceInv
<1>5. FileInv'
  BY StateFacts DEF CheckOpensFile, OpenFile, FileOpen, channelVars, Goto, jobVars,
      streamVars, TypeOK, FileInv, AckedJobOnDisk, ReferenceInv
<1>6. KnownInv'
  BY StateFacts, RefFacts DEF CheckOpensFile, OpenFile, FileOpen, channelVars, Goto,
      jobVars, streamVars, TypeOK, ReferenceInv, FileInv, KnownInv, Known
<1>7. WriterInv'
  BY StateFacts DEF CheckOpensFile, OpenFile, FileOpen, channelVars, Goto, jobVars,
      streamVars, TypeOK, ReferenceInv, FileInv, WriterInv, FileOpen
<1> QED BY <1>2, <1>3, <1>4, <1>5, <1>6, <1>7

(* The check writes its decision. *)
LEMMA CheckWritesHolds ==
    ASSUME IndInv, NEW k \in Checkers, CheckWrites(k)
    PROVE  IndInv'
<1> USE DEF IndInv
<1>a. disk' \in {Torn, found[k]}
  BY WriteLeaves DEF CheckWrites, channelVars, Write
<1>1. FlagsOK'
  BY Zenon DEF CheckWrites, channelVars, Write, AnswerWithLog, jobVars, streamVars,
      Failure, Answer, Goto, FlagsOK, TypeOK
<1>2. TypeOK'
  BY <1>a, <1>1, StateFacts, RefFacts, BackgroundJobAssumption DEF CheckWrites,
      channelVars, Write, AnswerWithLog, jobVars, streamVars, Failure, Answer, Goto,
      FlagsOK, TypeOK, ReferenceInv
<1>3. TruthInv'
  BY <1>a, StateFacts, RefFacts, NothingClaimed DEF CheckWrites, channelVars, Write,
      AnswerWithLog, jobVars, streamVars, Failure, Answer, Goto, TypeOK, TruthInv, Truth,
      ReferenceInv
<1>4. ReferenceInv'
  BY RefFacts DEF CheckWrites, channelVars, Write, AnswerWithLog, jobVars, streamVars,
      Failure, Answer, Goto, TypeOK, ReferenceInv
<1>5. FileInv'
  BY <1>a, StateFacts DEF CheckWrites, channelVars, Write, AnswerWithLog, jobVars,
      streamVars, Failure, Answer, Goto, TypeOK, FileInv, AckedJobOnDisk, ReferenceInv
<1>6. KnownInv'
  BY <1>a, StateFacts, RefFacts DEF CheckWrites, channelVars, Write, AnswerWithLog,
      jobVars, streamVars, Failure, Answer, Goto, TypeOK, ReferenceInv, FileInv, KnownInv,
      Known
<1>7. WriterInv'
  BY <1>a, WriteWhole, StateFacts DEF CheckWrites, channelVars, Write, AnswerWithLog,
      jobVars, streamVars, Failure, Answer, Goto, TypeOK, ReferenceInv, FileInv,
      WriterInv, FileOpen
<1> QED BY <1>2, <1>3, <1>4, <1>5, <1>6, <1>7

(* The check cannot write. *)
LEMMA CheckCannotPersistHolds ==
    ASSUME IndInv, NEW k \in Checkers, CheckCannotPersist(k)
    PROVE  IndInv'
<1> USE DEF IndInv
<1>1. FlagsOK'
  BY Zenon DEF CheckCannotPersist, fileVars, channelVars, AnswerWithLog, jobVars,
      streamVars, Failure, Answer, Goto, FlagsOK, TypeOK
<1>2. TypeOK'
  BY <1>1, StateFacts, RefFacts, BackgroundJobAssumption DEF CheckCannotPersist, fileVars,
      channelVars, AnswerWithLog, jobVars, streamVars, Failure, Answer, Goto, FlagsOK,
      TypeOK, ReferenceInv
<1>3. TruthInv'
  BY StateFacts, RefFacts, NothingClaimed DEF CheckCannotPersist, fileVars, channelVars,
      AnswerWithLog, jobVars, streamVars, Failure, Answer, Goto, TypeOK, TruthInv, Truth,
      ReferenceInv
<1>4. ReferenceInv'
  BY RefFacts DEF CheckCannotPersist, fileVars, channelVars, AnswerWithLog, jobVars,
      streamVars, Failure, Answer, Goto, TypeOK, ReferenceInv
<1>5. FileInv'
  BY StateFacts DEF CheckCannotPersist, fileVars, channelVars, AnswerWithLog, jobVars,
      streamVars, Failure, Answer, Goto, TypeOK, FileInv, AckedJobOnDisk, ReferenceInv
<1>6. KnownInv'
  BY StateFacts, RefFacts DEF CheckCannotPersist, fileVars, channelVars, AnswerWithLog,
      jobVars, streamVars, Failure, Answer, Goto, TypeOK, ReferenceInv, FileInv, KnownInv,
      Known
<1>7. WriterInv'
  BY StateFacts DEF CheckCannotPersist, fileVars, channelVars, AnswerWithLog, jobVars,
      streamVars, Failure, Answer, Goto, TypeOK, ReferenceInv, FileInv, WriterInv,
      FileOpen
<1> QED BY <1>2, <1>3, <1>4, <1>5, <1>6, <1>7

(* Only the file and the process stay. *)
LEMMA CrashHolds ==
    ASSUME IndInv, Crash
    PROVE  IndInv'
<1> USE DEF IndInv
<1>1. FlagsOK'
  BY Zenon DEF Crash, FileOpen, FlagsOK, TypeOK
<1>2. TypeOK'
  BY <1>1, StateFacts, RefFacts, BackgroundJobAssumption DEF Crash, FileOpen, FlagsOK,
      TypeOK, ReferenceInv
<1>3. TruthInv'
  BY StateFacts, RefFacts, NothingClaimed DEF Crash, FileOpen, TypeOK, TruthInv, Truth,
      ReferenceInv
<1>4. ReferenceInv'
  BY RefFacts DEF Crash, FileOpen, TypeOK, ReferenceInv
<1>5. FileInv'
  BY StateFacts DEF Crash, FileOpen, TypeOK, FileInv, AckedJobOnDisk, ReferenceInv
<1>6. KnownInv'
  BY StateFacts, RefFacts DEF Crash, FileOpen, TypeOK, ReferenceInv, FileInv, KnownInv,
      Known
<1>7. WriterInv'
  BY StateFacts DEF Crash, FileOpen, TypeOK, ReferenceInv, FileInv, WriterInv, FileOpen
<1> QED BY <1>2, <1>3, <1>4, <1>5, <1>6, <1>7

-----------------------------------------------------------------------------

(* Every step keeps the invariant. *)
LEMMA Inductive == IndInv /\ [Next]_vars => IndInv'
<1> SUFFICES ASSUME IndInv, [Next]_vars PROVE IndInv'
  OBVIOUS
<1>1. CASE Streaming
  BY <1>1, RegisterHolds, StreamerOpensFileHolds, StreamerWritesHolds, AcknowledgeHolds,
     StreamEndsHolds, UpdateJobTerminalHolds DEF Streaming
<1>2. ASSUME NEW k \in Checkers, Checking(k) PROVE IndInv'
  BY <1>2, CheckGetsHolds, CheckInsertsHolds, CheckSnapshotsHolds, CheckSeesRunningHolds,
     CheckSeesGoneHolds, CheckSettlesHolds, CheckAppliesHolds, CheckOpensFileHolds,
     CheckWritesHolds DEF Checking
<1>3. CASE UNCHANGED vars
  BY <1>3 DEF vars, channelVars, fileVars, jobVars, streamVars, checkVars, IndInv, TypeOK,
      TruthInv, Truth, ReferenceInv, FileInv, AckedJobOnDisk, KnownInv, Known, WriterInv,
      FileOpen
<1> QED
  BY <1>1, <1>2, <1>3, StreamerCannotPersistHolds, CheckBeginsHolds, CheckCannotProbeHolds,
     CheckCannotPersistHolds, ProcessExitsHolds, ChannelLostHolds, CrashHolds,
     StreamHearsStatusHolds, StreamHearsEofHolds, StreamFailsHolds DEF Next

(* The invariant holds in every state. *)
LEMMA AlwaysInv == Spec => []IndInv
BY InitHolds, Inductive, PTL DEF Spec

(* Every variable keeps its type: what is stored, written and answered is   *)
(* always a state of the job, the fallback of a detached check included.    *)
THEOREM TypeCorrect == Spec => []TypeOK
<1>1. IndInv => TypeOK
  BY DEF IndInv
<1> QED BY <1>1, AlwaysInv, PTL

(* No exit code is ever invented: what streamer, checks, file and answers    *)
(* hold is the exit code of the process, over any number of restarts.       *)
THEOREM OutcomesAreTrue == Spec => []OutcomeIsTrue
<1>1. IndInv => OutcomeIsTrue
  BY DEF IndInv, TruthInv, Truth, OutcomeIsTrue
<1> QED BY <1>1, AlwaysInv, PTL

(* A job the client was told of has a state file, unless a write failed.    *)
THEOREM ToldJobsAreOnDisk == Spec => []AckedJobOnDisk
<1>1. IndInv => AckedJobOnDisk
  BY DEF IndInv, FileInv
<1> QED BY <1>1, AlwaysInv, PTL

(* A state file at rest parses, unless a write failed, writers overlapped   *)
(* or the server died in a write.                                           *)
THEOREM RestingFilesParse == Spec => []FileParses
<1>1. IndInv => FileParses
  BY DEF IndInv, WriterInv, FileParses
<1> QED BY <1>1, AlwaysInv, PTL

(* When the streamer is through, no late write of a check puts the running  *)
(* state back into the file, unless a write failed: it holds the outcome the *)
(* streamer saw, is lost or torn.                                           *)
THEOREM OutcomeStaysOnDisk == Spec => []OutcomeReachesDisk
<1>1. IndInv => OutcomeReachesDisk
  BY DEF IndInv, FileInv, AckedJobOnDisk, KnownInv, Known, OutcomeReachesDisk
<1> QED BY <1>1, AlwaysInv, PTL

(* A job that is over is never running again in the memory that holds it.   *)
THEOREM TerminalIsForever == Spec => TerminalForever
<1> DEFINE A == \A r \in Refs :
         IsTerminal(shared[r]) /\ registry = r /\ registry' = r => IsTerminal(shared'[r])
<1>1. IndInv /\ [Next]_vars => [A]_vars
  <2> SUFFICES ASSUME IndInv, Next, NEW r \in Refs, IsTerminal(shared[r]),
                      registry = r, registry' = r
               PROVE  IsTerminal(shared'[r])
    OBVIOUS
  <2> USE DEF IndInv
  <2>1. CASE UNCHANGED shared
    BY <2>1
  <2>2. CASE Register
    BY <2>2, RefFacts DEF Register, RegisterThen, ReferenceInv
  <2>3. CASE UpdateJobTerminal
    BY <2>3, MarkIsTerminal DEF UpdateJobTerminal, StreamerStores, TypeOK
  <2>4. ASSUME NEW k \in Checkers, CheckInserts(k) PROVE IsTerminal(shared'[r])
    BY <2>4 DEF CheckInserts, InUse, TypeOK
  <2>5. ASSUME NEW k \in Checkers, CheckApplies(k) PROVE IsTerminal(shared'[r])
    <3>1. ref[k] \in Refs
      BY <2>5 DEF CheckApplies, TypeOK, ReferenceInv
    <3>2. IsTerminal(Mark(shared[ref[k]], found[k]))
      BY <3>1, MarkIsTerminal DEF TypeOK
    <3> QED BY <2>5, <3>1, <3>2 DEF CheckApplies, ApplyAs, TypeOK
  <2>6. CASE Crash
    BY <2>6, RefFacts DEF Crash
  <2>7. CASE StreamerOpensFile \/ StreamerWrites \/ Acknowledge \/ StreamEnds
             \/ StreamHearsStatus \/ StreamHearsEof \/ StreamFails
             \/ StreamerCannotPersist \/ ChannelLost \/ (\E code \in Codes : ProcessExits(code))
    BY <2>1, <2>7 DEF StreamerOpensFile, StreamerWrites, Acknowledge, StreamEnds,
                      StreamEndsWhen, StreamHearsStatus, StreamHearsEof, StreamFails,
                      StreamerCannotPersist, ChannelLost, ProcessExits, jobVars
  <2>8. ASSUME NEW k \in Checkers,
               CheckBegins(k) \/ CheckGets(k) \/ CheckSnapshots(k) \/ CheckSeesRunning(k)
                 \/ CheckSeesGone(k) \/ CheckCannotProbe(k) \/ CheckSettles(k)
                 \/ CheckOpensFile(k) \/ CheckWrites(k) \/ CheckCannotPersist(k)
        PROVE  IsTerminal(shared'[r])
    BY <2>1, <2>8 DEF CheckBegins, CheckGets, CheckSnapshots, CheckSeesRunning, CheckSeesGone,
                      CheckCannotProbe, CheckSettles, SettleOr, CheckOpensFile, CheckWrites,
                      CheckCannotPersist, jobVars
  <2> QED
    BY <2>2, <2>3, <2>4, <2>5, <2>6, <2>7, <2>8 DEF Next, Streaming, Checking
<1>2. []IndInv /\ [][Next]_vars => [][A]_vars
  BY <1>1, PTL
<1> QED BY <1>2, AlwaysInv, PTL DEF Spec, TerminalForever

(* What a restarted server finds in the state file of spooler.rs when no     *)
(* write failed: the file of every job the client knows, a state that parses *)
(* unless the last writer was not alone or the server died under it, and      *)
(* after the streamer is through nothing older than the outcome.             *)
THEOREM DiskIsReliable == Spec => []DiskKeepsJob
  BY ToldJobsAreOnDisk, RestingFilesParse, OutcomeStaysOnDisk, PTL DEF DiskKeepsJob

=============================================================================
