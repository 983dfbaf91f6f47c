--------------------------- MODULE RawStreamProofs ---------------------------
(***************************************************************************)
(* Theorems about RawStream, for every length of the input and every       *)
(* capacity of the two queues.                                             *)
(***************************************************************************)
EXTENDS RawStream, SequenceTheorems, FiniteSets, FiniteSetTheorems, TLAPS

(* The chunk the call has read and not queued, and the one the task has    *)
(* taken and not handed over.                                              *)
InSend == IF pc = "send" THEN 1 ELSE 0
InData == IF task = "data" THEN 1 ELSE 0
Sum == left + InSend + inq + InData + given

(* Why the input of a call may be cut.                                     *)
Broken == stopped \/ result = "err"

(* No chunk is made up, and none is lost while both sides are at work.     *)
FlowInv ==
    /\ Sum <= Chunks
    /\ ~Broken /\ task # "ended" => Sum = Chunks

(* stdin_tx is dropped after the last chunk was queued, or on a way out.   *)
SenderInv ==
    /\ ~txOpen => (left = 0 /\ pc # "send") \/ Broken
    /\ result = "stopped" => stopped
    /\ task = "data" => ~stdinClosed
    /\ stdinClosed => ~txOpen
    /\ pc = "loop" /\ stdinDone => ~txOpen
    /\ pc = "send" => ~stdinDone
    /\ pc = "open" => task = "none" /\ ~stdinDone
    /\ pc \in {"open", "loop", "send"} => result = "none"

(* The parts of TypeOK about flags. *)
CallFlags ==
    /\ stopped \in BOOLEAN /\ txOpen \in BOOLEAN /\ stdinDone \in BOOLEAN
    /\ chanClosed \in BOOLEAN /\ outClosed \in BOOLEAN /\ exit \in BOOLEAN
TaskFlags ==
    /\ sentClosed \in BOOLEAN /\ stdinClosed \in BOOLEAN /\ taskOk \in BOOLEAN
    /\ aborted \in BOOLEAN
PeerFlags ==
    /\ eofIn \in BOOLEAN /\ peerEof \in BOOLEAN /\ peerExit \in BOOLEAN
    /\ peerClosed \in BOOLEAN /\ lost \in BOOLEAN

(* The other part. *)
ShapeOK ==
    /\ pc \in {"open", "loop", "send", "unwind", "done"}
    /\ left \in 0..Chunks /\ written \in Nat
    /\ result \in {"none", "ok", "err", "stopped"}
    /\ inq \in 0..InCap
    /\ outq \in Seq(Events) /\ Len(outq) <= OutCap
    /\ task \in {"none", "select", "data", "emit", "drain", "ended"}
    /\ ev \in Events /\ after \in {"select", "ok", "err"}
    /\ given \in 0..Chunks
    /\ wire \in Seq({"data", "exit", "eof", "close"})
    /\ outs \in 0..MaxOut

IndInv == CallFlags /\ TaskFlags /\ PeerFlags /\ ShapeOK /\ FlowInv /\ SenderInv /\ EofMeansAll

(* The initial states: the whole input is still to be read. *)
LEMMA InitInv == Init => IndInv
<1> SUFFICES ASSUME Init PROVE IndInv
  OBVIOUS
<1>1. CallFlags /\ TaskFlags /\ PeerFlags
  BY Zenon DEF Init, CallFlags, TaskFlags, PeerFlags
<1> QED
  BY <1>1, RawAssumption DEF Init, IndInv, CallFlags, TaskFlags, PeerFlags, ShapeOK,
     FlowInv, SenderInv, EofMeansAll, Sum, InSend, InData, Broken, Events

(* The steps of the call, its timers included. *)
LEMMA CallPreserves == IndInv /\ (Call \/ Stop \/ GraceElapses) => IndInv'
<1> SUFFICES ASSUME IndInv, Call \/ Stop \/ GraceElapses PROVE IndInv'
  OBVIOUS
<1>1. CASE Opened
  <2>1. CallFlags'
    BY <1>1 DEF IndInv, CallFlags, Opened, callVars, taskVars, toPeer, peerVars
  <2>2. TaskFlags'
    BY <1>1 DEF IndInv, TaskFlags, Opened, callVars, taskVars, toPeer, peerVars
  <2>3. PeerFlags'
    BY <1>1 DEF IndInv, PeerFlags, Opened, callVars, taskVars, toPeer, peerVars
  <2>4. ShapeOK'
    BY <1>1, RawAssumption DEF Opened, callVars, taskVars, toPeer, peerVars, IndInv,
       ShapeOK, FlowInv, Sum, InSend, InData, CallFlags, TaskFlags
  <2>5. FlowInv'
    BY <1>1, RawAssumption, SMTT(30) DEF Opened, callVars, taskVars, toPeer, peerVars,
       IndInv, ShapeOK, FlowInv, SenderInv, EofMeansAll, Sum, InSend, InData, Broken,
       CallFlags, TaskFlags
  <2>6. SenderInv'
    BY <1>1, RawAssumption, SMTT(30) DEF Opened, callVars, taskVars, toPeer, peerVars,
       IndInv, ShapeOK, FlowInv, SenderInv, EofMeansAll, Sum, InSend, InData, Broken,
       CallFlags, TaskFlags
  <2>7. EofMeansAll'
    BY <1>1, RawAssumption, SMTT(30) DEF Opened, callVars, taskVars, toPeer, peerVars,
       IndInv, ShapeOK, FlowInv, SenderInv, EofMeansAll, Sum, InSend, InData, Broken,
       CallFlags, TaskFlags
  <2> QED BY <2>1, <2>2, <2>3, <2>4, <2>5, <2>6, <2>7 DEF IndInv
<1>2. CASE OpenFails
  <2>1. CallFlags'
    BY <1>2 DEF IndInv, CallFlags, OpenFails, Leave, callVars, taskVars, toPeer, peerVars
  <2>2. TaskFlags'
    BY <1>2 DEF IndInv, TaskFlags, OpenFails, Leave, callVars, taskVars, toPeer, peerVars
  <2>3. PeerFlags'
    BY <1>2 DEF IndInv, PeerFlags, OpenFails, Leave, callVars, taskVars, toPeer, peerVars
  <2>4. ShapeOK'
    BY <1>2, RawAssumption DEF OpenFails, Leave, Outcome, callVars, taskVars, toPeer,
       peerVars, IndInv, ShapeOK, FlowInv, Sum, InSend, InData, CallFlags, TaskFlags
  <2>5. FlowInv'
    BY <1>2, RawAssumption, SMTT(30) DEF OpenFails, Leave, Outcome, callVars, taskVars,
       toPeer, peerVars, IndInv, ShapeOK, FlowInv, SenderInv, EofMeansAll, Sum, InSend,
       InData, Broken, CallFlags, TaskFlags
  <2>6. SenderInv'
    BY <1>2, RawAssumption, SMTT(30) DEF OpenFails, Leave, Outcome, callVars, taskVars,
       toPeer, peerVars, IndInv, ShapeOK, FlowInv, SenderInv, EofMeansAll, Sum, InSend,
       InData, Broken, CallFlags, TaskFlags
  <2>7. EofMeansAll'
    BY <1>2, RawAssumption, SMTT(30) DEF OpenFails, Leave, Outcome, callVars, taskVars,
       toPeer, peerVars, IndInv, ShapeOK, FlowInv, SenderInv, EofMeansAll, Sum, InSend,
       InData, Broken, CallFlags, TaskFlags
  <2> QED BY <2>1, <2>2, <2>3, <2>4, <2>5, <2>6, <2>7 DEF IndInv
<1>3. CASE Read
  <2>1. CallFlags'
    BY <1>3 DEF IndInv, CallFlags, Read, Leave, callVars, taskVars, toPeer, peerVars
  <2>2. TaskFlags'
    BY <1>3 DEF IndInv, TaskFlags, Read, Leave, callVars, taskVars, toPeer, peerVars
  <2>3. PeerFlags'
    BY <1>3 DEF IndInv, PeerFlags, Read, Leave, callVars, taskVars, toPeer, peerVars
  <2>4. ShapeOK'
    BY <1>3, RawAssumption DEF Read, Leave, Outcome, callVars, taskVars, toPeer, peerVars,
       IndInv, ShapeOK, FlowInv, Sum, InSend, InData, CallFlags, TaskFlags
  <2>5. FlowInv'
    BY <1>3, RawAssumption, SMTT(30) DEF Read, Leave, Outcome, callVars, taskVars, toPeer,
       peerVars, IndInv, ShapeOK, FlowInv, SenderInv, EofMeansAll, Sum, InSend, InData,
       Broken, CallFlags, TaskFlags
  <2>6. SenderInv'
    BY <1>3, RawAssumption, SMTT(30) DEF Read, Leave, Outcome, callVars, taskVars, toPeer,
       peerVars, IndInv, ShapeOK, FlowInv, SenderInv, EofMeansAll, Sum, InSend, InData,
       Broken, CallFlags, TaskFlags
  <2>7. EofMeansAll'
    BY <1>3, RawAssumption, SMTT(30) DEF Read, Leave, Outcome, callVars, taskVars, toPeer,
       peerVars, IndInv, ShapeOK, FlowInv, SenderInv, EofMeansAll, Sum, InSend, InData,
       Broken, CallFlags, TaskFlags
  <2> QED BY <2>1, <2>2, <2>3, <2>4, <2>5, <2>6, <2>7 DEF IndInv
<1>4. CASE Send
  <2>1. CallFlags'
    BY <1>4 DEF IndInv, CallFlags, Send, Leave, callVars, taskVars, toPeer, peerVars
  <2>2. TaskFlags'
    BY <1>4 DEF IndInv, TaskFlags, Send, Leave, callVars, taskVars, toPeer, peerVars
  <2>3. PeerFlags'
    BY <1>4 DEF IndInv, PeerFlags, Send, Leave, callVars, taskVars, toPeer, peerVars
  <2>4. ShapeOK'
    BY <1>4, RawAssumption DEF Send, Leave, Outcome, callVars, taskVars, toPeer, peerVars,
       IndInv, ShapeOK, FlowInv, Sum, InSend, InData, CallFlags, TaskFlags
  <2>5. FlowInv'
    BY <1>4, RawAssumption, SMTT(30) DEF Send, Leave, Outcome, callVars, taskVars, toPeer,
       peerVars, IndInv, ShapeOK, FlowInv, SenderInv, EofMeansAll, Sum, InSend, InData,
       Broken, CallFlags, TaskFlags
  <2>6. SenderInv'
    BY <1>4, RawAssumption, SMTT(30) DEF Send, Leave, Outcome, callVars, taskVars, toPeer,
       peerVars, IndInv, ShapeOK, FlowInv, SenderInv, EofMeansAll, Sum, InSend, InData,
       Broken, CallFlags, TaskFlags
  <2>7. EofMeansAll'
    BY <1>4, RawAssumption, SMTT(30) DEF Send, Leave, Outcome, callVars, taskVars, toPeer,
       peerVars, IndInv, ShapeOK, FlowInv, SenderInv, EofMeansAll, Sum, InSend, InData,
       Broken, CallFlags, TaskFlags
  <2> QED BY <2>1, <2>2, <2>3, <2>4, <2>5, <2>6, <2>7 DEF IndInv
<1>5. CASE Recv
  <2>1. CallFlags'
    BY <1>5 DEF IndInv, CallFlags, Recv, Leave, callVars, taskVars, toPeer, peerVars
  <2>2. TaskFlags'
    BY <1>5 DEF IndInv, TaskFlags, Recv, Leave, callVars, taskVars, toPeer, peerVars
  <2>3. PeerFlags'
    BY <1>5 DEF IndInv, PeerFlags, Recv, Leave, callVars, taskVars, toPeer, peerVars
  <2>4. Tail(outq) \in Seq(Events) /\ Len(Tail(outq)) <= OutCap /\ Head(outq) \in Events
    <3>1. outq \in Seq(Events) /\ outq # <<>> /\ Len(outq) <= OutCap /\ OutCap \in Nat
      BY <1>5, RawAssumption DEF Recv, IndInv, ShapeOK
    <3>2. Len(outq) \in Nat /\ Len(Tail(outq)) = Len(outq) - 1
      BY <3>1, HeadTailProperties
    <3> QED BY <3>1, <3>2, HeadTailProperties
  <2>5. ShapeOK'
    BY <1>5, <2>4, RawAssumption DEF Recv, Leave, Outcome, callVars, taskVars, toPeer,
       peerVars, IndInv, ShapeOK, FlowInv, Sum, InSend, InData, CallFlags, TaskFlags
  <2>6. FlowInv'
    BY <1>5, <2>4, RawAssumption, SMTT(30) DEF Recv, Leave, Outcome, callVars, taskVars,
       toPeer, peerVars, IndInv, ShapeOK, FlowInv, SenderInv, EofMeansAll, Sum, InSend,
       InData, Broken, CallFlags, TaskFlags
  <2>7. SenderInv'
    BY <1>5, <2>4, RawAssumption, SMTT(30) DEF Recv, Leave, Outcome, callVars, taskVars,
       toPeer, peerVars, IndInv, ShapeOK, FlowInv, SenderInv, EofMeansAll, Sum, InSend,
       InData, Broken, CallFlags, TaskFlags
  <2>8. EofMeansAll'
    BY <1>5, <2>4, RawAssumption, SMTT(30) DEF Recv, Leave, Outcome, callVars, taskVars,
       toPeer, peerVars, IndInv, ShapeOK, FlowInv, SenderInv, EofMeansAll, Sum, InSend,
       InData, Broken, CallFlags, TaskFlags
  <2> QED BY <2>1, <2>2, <2>3, <2>5, <2>6, <2>7, <2>8 DEF IndInv
<1>6. CASE RecvNone
  <2>1. CallFlags'
    BY <1>6 DEF IndInv, CallFlags, RecvNone, callVars, taskVars, toPeer, peerVars
  <2>2. TaskFlags'
    BY <1>6 DEF IndInv, TaskFlags, RecvNone, callVars, taskVars, toPeer, peerVars
  <2>3. PeerFlags'
    BY <1>6 DEF IndInv, PeerFlags, RecvNone, callVars, taskVars, toPeer, peerVars
  <2>4. ShapeOK'
    BY <1>6, RawAssumption DEF RecvNone, callVars, taskVars, toPeer, peerVars, IndInv,
       ShapeOK, FlowInv, Sum, InSend, InData, CallFlags, TaskFlags
  <2>5. FlowInv'
    BY <1>6, RawAssumption, SMTT(30) DEF RecvNone, callVars, taskVars, toPeer, peerVars,
       IndInv, ShapeOK, FlowInv, SenderInv, EofMeansAll, Sum, InSend, InData, Broken,
       CallFlags, TaskFlags
  <2>6. SenderInv'
    BY <1>6, RawAssumption, SMTT(30) DEF RecvNone, callVars, taskVars, toPeer, peerVars,
       IndInv, ShapeOK, FlowInv, SenderInv, EofMeansAll, Sum, InSend, InData, Broken,
       CallFlags, TaskFlags
  <2>7. EofMeansAll'
    BY <1>6, RawAssumption, SMTT(30) DEF RecvNone, callVars, taskVars, toPeer, peerVars,
       IndInv, ShapeOK, FlowInv, SenderInv, EofMeansAll, Sum, InSend, InData, Broken,
       CallFlags, TaskFlags
  <2> QED BY <2>1, <2>2, <2>3, <2>4, <2>5, <2>6, <2>7 DEF IndInv
<1>7. CASE InputCancelled
  <2>1. CallFlags'
    BY <1>7 DEF IndInv, CallFlags, InputCancelled, callVars, taskVars, toPeer, peerVars
  <2>2. TaskFlags'
    BY <1>7 DEF IndInv, TaskFlags, InputCancelled, callVars, taskVars, toPeer, peerVars
  <2>3. PeerFlags'
    BY <1>7 DEF IndInv, PeerFlags, InputCancelled, callVars, taskVars, toPeer, peerVars
  <2>4. ShapeOK'
    BY <1>7, RawAssumption DEF InputCancelled, callVars, taskVars, toPeer, peerVars,
       IndInv, ShapeOK, FlowInv, Sum, InSend, InData, CallFlags, TaskFlags
  <2>5. FlowInv'
    BY <1>7, RawAssumption, SMTT(30) DEF InputCancelled, callVars, taskVars, toPeer,
       peerVars, IndInv, ShapeOK, FlowInv, SenderInv, EofMeansAll, Sum, InSend, InData,
       Broken, CallFlags, TaskFlags
  <2>6. SenderInv'
    BY <1>7, RawAssumption, SMTT(30) DEF InputCancelled, callVars, taskVars, toPeer,
       peerVars, IndInv, ShapeOK, FlowInv, SenderInv, EofMeansAll, Sum, InSend, InData,
       Broken, CallFlags, TaskFlags
  <2>7. EofMeansAll'
    BY <1>7, RawAssumption, SMTT(30) DEF InputCancelled, callVars, taskVars, toPeer,
       peerVars, IndInv, ShapeOK, FlowInv, SenderInv, EofMeansAll, Sum, InSend, InData,
       Broken, CallFlags, TaskFlags
  <2> QED BY <2>1, <2>2, <2>3, <2>4, <2>5, <2>6, <2>7 DEF IndInv
<1>8. CASE Finish
  <2>1. CallFlags'
    BY <1>8 DEF IndInv, CallFlags, Finish, FinishIf, callVars, taskVars, toPeer, peerVars
  <2>2. TaskFlags'
    BY <1>8 DEF IndInv, TaskFlags, Finish, FinishIf, callVars, taskVars, toPeer, peerVars
  <2>3. PeerFlags'
    BY <1>8 DEF IndInv, PeerFlags, Finish, FinishIf, callVars, taskVars, toPeer, peerVars
  <2>4. ShapeOK'
    BY <1>8, RawAssumption DEF Finish, FinishIf, Outcome, callVars, taskVars, toPeer,
       peerVars, IndInv, ShapeOK, FlowInv, Sum, InSend, InData, CallFlags, TaskFlags
  <2>5. FlowInv'
    BY <1>8, RawAssumption, SMTT(30) DEF Finish, FinishIf, Outcome, callVars, taskVars,
       toPeer, peerVars, IndInv, ShapeOK, FlowInv, SenderInv, EofMeansAll, Sum, InSend,
       InData, Broken, CallFlags, TaskFlags
  <2>6. SenderInv'
    BY <1>8, RawAssumption, SMTT(30) DEF Finish, FinishIf, Outcome, callVars, taskVars,
       toPeer, peerVars, IndInv, ShapeOK, FlowInv, SenderInv, EofMeansAll, Sum, InSend,
       InData, Broken, CallFlags, TaskFlags
  <2>7. EofMeansAll'
    BY <1>8, RawAssumption, SMTT(30) DEF Finish, FinishIf, Outcome, callVars, taskVars,
       toPeer, peerVars, IndInv, ShapeOK, FlowInv, SenderInv, EofMeansAll, Sum, InSend,
       InData, Broken, CallFlags, TaskFlags
  <2> QED BY <2>1, <2>2, <2>3, <2>4, <2>5, <2>6, <2>7 DEF IndInv
<1>9. CASE FlushFails
  <2>1. CallFlags'
    BY <1>9 DEF IndInv, CallFlags, FlushFails, Leave, callVars, taskVars, toPeer, peerVars
  <2>2. TaskFlags'
    BY <1>9 DEF IndInv, TaskFlags, FlushFails, Leave, callVars, taskVars, toPeer, peerVars
  <2>3. PeerFlags'
    BY <1>9 DEF IndInv, PeerFlags, FlushFails, Leave, callVars, taskVars, toPeer, peerVars
  <2>4. ShapeOK'
    BY <1>9, RawAssumption DEF FlushFails, Leave, Outcome, callVars, taskVars, toPeer,
       peerVars, IndInv, ShapeOK, FlowInv, Sum, InSend, InData, CallFlags, TaskFlags
  <2>5. FlowInv'
    BY <1>9, RawAssumption, SMTT(30) DEF FlushFails, Leave, Outcome, callVars, taskVars,
       toPeer, peerVars, IndInv, ShapeOK, FlowInv, SenderInv, EofMeansAll, Sum, InSend,
       InData, Broken, CallFlags, TaskFlags
  <2>6. SenderInv'
    BY <1>9, RawAssumption, SMTT(30) DEF FlushFails, Leave, Outcome, callVars, taskVars,
       toPeer, peerVars, IndInv, ShapeOK, FlowInv, SenderInv, EofMeansAll, Sum, InSend,
       InData, Broken, CallFlags, TaskFlags
  <2>7. EofMeansAll'
    BY <1>9, RawAssumption, SMTT(30) DEF FlushFails, Leave, Outcome, callVars, taskVars,
       toPeer, peerVars, IndInv, ShapeOK, FlowInv, SenderInv, EofMeansAll, Sum, InSend,
       InData, Broken, CallFlags, TaskFlags
  <2> QED BY <2>1, <2>2, <2>3, <2>4, <2>5, <2>6, <2>7 DEF IndInv
<1>10. CASE Unwind
  <2>1. CallFlags'
    BY <1>10 DEF IndInv, CallFlags, Unwind, UnwindWith, callVars, taskVars, toPeer,
       peerVars
  <2>2. TaskFlags'
    BY <1>10 DEF IndInv, TaskFlags, Unwind, UnwindWith, callVars, taskVars, toPeer,
       peerVars
  <2>3. PeerFlags'
    BY <1>10 DEF IndInv, PeerFlags, Unwind, UnwindWith, callVars, taskVars, toPeer,
       peerVars
  <2>4. ShapeOK'
    BY <1>10, RawAssumption DEF Unwind, UnwindWith, callVars, taskVars, toPeer, peerVars,
       IndInv, ShapeOK, FlowInv, Sum, InSend, InData, CallFlags, TaskFlags
  <2>5. FlowInv'
    BY <1>10, RawAssumption, SMTT(30) DEF Unwind, UnwindWith, callVars, taskVars, toPeer,
       peerVars, IndInv, ShapeOK, FlowInv, SenderInv, EofMeansAll, Sum, InSend, InData,
       Broken, CallFlags, TaskFlags
  <2>6. SenderInv'
    BY <1>10, RawAssumption, SMTT(30) DEF Unwind, UnwindWith, callVars, taskVars, toPeer,
       peerVars, IndInv, ShapeOK, FlowInv, SenderInv, EofMeansAll, Sum, InSend, InData,
       Broken, CallFlags, TaskFlags
  <2>7. EofMeansAll'
    BY <1>10, RawAssumption, SMTT(30) DEF Unwind, UnwindWith, callVars, taskVars, toPeer,
       peerVars, IndInv, ShapeOK, FlowInv, SenderInv, EofMeansAll, Sum, InSend, InData,
       Broken, CallFlags, TaskFlags
  <2> QED BY <2>1, <2>2, <2>3, <2>4, <2>5, <2>6, <2>7 DEF IndInv
<1>11. CASE Stop
  <2>1. CallFlags'
    BY <1>11 DEF IndInv, CallFlags, Stop, callVars, taskVars, toPeer, peerVars
  <2>2. TaskFlags'
    BY <1>11 DEF IndInv, TaskFlags, Stop, callVars, taskVars, toPeer, peerVars
  <2>3. PeerFlags'
    BY <1>11 DEF IndInv, PeerFlags, Stop, callVars, taskVars, toPeer, peerVars
  <2>4. ShapeOK'
    BY <1>11, RawAssumption DEF Stop, callVars, taskVars, toPeer, peerVars, IndInv,
       ShapeOK, FlowInv, Sum, InSend, InData, CallFlags, TaskFlags
  <2>5. FlowInv'
    BY <1>11, RawAssumption, SMTT(30) DEF Stop, callVars, taskVars, toPeer, peerVars,
       IndInv, ShapeOK, FlowInv, SenderInv, EofMeansAll, Sum, InSend, InData, Broken,
       CallFlags, TaskFlags
  <2>6. SenderInv'
    BY <1>11, RawAssumption, SMTT(30) DEF Stop, callVars, taskVars, toPeer, peerVars,
       IndInv, ShapeOK, FlowInv, SenderInv, EofMeansAll, Sum, InSend, InData, Broken,
       CallFlags, TaskFlags
  <2>7. EofMeansAll'
    BY <1>11, RawAssumption, SMTT(30) DEF Stop, callVars, taskVars, toPeer, peerVars,
       IndInv, ShapeOK, FlowInv, SenderInv, EofMeansAll, Sum, InSend, InData, Broken,
       CallFlags, TaskFlags
  <2> QED BY <2>1, <2>2, <2>3, <2>4, <2>5, <2>6, <2>7 DEF IndInv
<1>12. CASE GraceElapses
  <2>1. CallFlags'
    BY <1>12 DEF IndInv, CallFlags, GraceElapses, GraceElapsesIf, Leave, callVars,
       taskVars, toPeer, peerVars
  <2>2. TaskFlags'
    BY <1>12 DEF IndInv, TaskFlags, GraceElapses, GraceElapsesIf, Leave, callVars,
       taskVars, toPeer, peerVars
  <2>3. PeerFlags'
    BY <1>12 DEF IndInv, PeerFlags, GraceElapses, GraceElapsesIf, Leave, callVars,
       taskVars, toPeer, peerVars
  <2>4. ShapeOK'
    BY <1>12, RawAssumption DEF GraceElapses, GraceElapsesIf, Leave, Outcome, callVars,
       taskVars, toPeer, peerVars, IndInv, ShapeOK, FlowInv, Sum, InSend, InData,
       CallFlags, TaskFlags
  <2>5. FlowInv'
    BY <1>12, RawAssumption, SMTT(30) DEF GraceElapses, GraceElapsesIf, Leave, Outcome,
       callVars, taskVars, toPeer, peerVars, IndInv, ShapeOK, FlowInv, SenderInv,
       EofMeansAll, Sum, InSend, InData, Broken, CallFlags, TaskFlags
  <2>6. SenderInv'
    BY <1>12, RawAssumption, SMTT(30) DEF GraceElapses, GraceElapsesIf, Leave, Outcome,
       callVars, taskVars, toPeer, peerVars, IndInv, ShapeOK, FlowInv, SenderInv,
       EofMeansAll, Sum, InSend, InData, Broken, CallFlags, TaskFlags
  <2>7. EofMeansAll'
    BY <1>12, RawAssumption, SMTT(30) DEF GraceElapses, GraceElapsesIf, Leave, Outcome,
       callVars, taskVars, toPeer, peerVars, IndInv, ShapeOK, FlowInv, SenderInv,
       EofMeansAll, Sum, InSend, InData, Broken, CallFlags, TaskFlags
  <2> QED BY <2>1, <2>2, <2>3, <2>4, <2>5, <2>6, <2>7 DEF IndInv
<1> QED
  BY <1>1, <1>2, <1>3, <1>4, <1>5, <1>6, <1>7, <1>8, <1>9, <1>10, <1>11, <1>12 DEF Call

(* The steps of raw_channel_task. *)
LEMMA TaskPreserves == IndInv /\ Task => IndInv'
<1> SUFFICES ASSUME IndInv, Task PROVE IndInv'
  OBVIOUS
<1>1. CASE TaskAborted
  <2>1. CallFlags'
    BY <1>1 DEF IndInv, CallFlags, TaskAborted, End, callVars, taskVars, toPeer, peerVars
  <2>2. TaskFlags'
    BY <1>1 DEF IndInv, TaskFlags, TaskAborted, End, callVars, taskVars, toPeer, peerVars
  <2>3. PeerFlags'
    BY <1>1 DEF IndInv, PeerFlags, TaskAborted, End, callVars, taskVars, toPeer, peerVars
  <2>4. ShapeOK'
    BY <1>1, RawAssumption DEF TaskAborted, End, callVars, taskVars, toPeer, peerVars,
       IndInv, ShapeOK, FlowInv, Sum, InSend, InData, CallFlags, TaskFlags
  <2>5. FlowInv'
    BY <1>1, RawAssumption, SMTT(30) DEF TaskAborted, End, callVars, taskVars, toPeer,
       peerVars, IndInv, ShapeOK, FlowInv, SenderInv, EofMeansAll, Sum, InSend, InData,
       Broken, CallFlags, TaskFlags
  <2>6. SenderInv'
    BY <1>1, RawAssumption, SMTT(30) DEF TaskAborted, End, callVars, taskVars, toPeer,
       peerVars, IndInv, ShapeOK, FlowInv, SenderInv, EofMeansAll, Sum, InSend, InData,
       Broken, CallFlags, TaskFlags
  <2>7. EofMeansAll'
    BY <1>1, RawAssumption, SMTT(30) DEF TaskAborted, End, callVars, taskVars, toPeer,
       peerVars, IndInv, ShapeOK, FlowInv, SenderInv, EofMeansAll, Sum, InSend, InData,
       Broken, CallFlags, TaskFlags
  <2> QED BY <2>1, <2>2, <2>3, <2>4, <2>5, <2>6, <2>7 DEF IndInv
<1>2. CASE TaskCancelled
  <2>1. CallFlags'
    BY <1>2 DEF IndInv, CallFlags, TaskCancelled, callVars, taskVars, toPeer, peerVars
  <2>2. TaskFlags'
    BY <1>2 DEF IndInv, TaskFlags, TaskCancelled, callVars, taskVars, toPeer, peerVars
  <2>3. PeerFlags'
    BY <1>2 DEF IndInv, PeerFlags, TaskCancelled, callVars, taskVars, toPeer, peerVars
  <2>4. ShapeOK'
    BY <1>2, RawAssumption DEF TaskCancelled, callVars, taskVars, toPeer, peerVars,
       IndInv, ShapeOK, FlowInv, Sum, InSend, InData, CallFlags, TaskFlags
  <2>5. FlowInv'
    BY <1>2, RawAssumption, SMTT(30) DEF TaskCancelled, callVars, taskVars, toPeer,
       peerVars, IndInv, ShapeOK, FlowInv, SenderInv, EofMeansAll, Sum, InSend, InData,
       Broken, CallFlags, TaskFlags
  <2>6. SenderInv'
    BY <1>2, RawAssumption, SMTT(30) DEF TaskCancelled, callVars, taskVars, toPeer,
       peerVars, IndInv, ShapeOK, FlowInv, SenderInv, EofMeansAll, Sum, InSend, InData,
       Broken, CallFlags, TaskFlags
  <2>7. EofMeansAll'
    BY <1>2, RawAssumption, SMTT(30) DEF TaskCancelled, callVars, taskVars, toPeer,
       peerVars, IndInv, ShapeOK, FlowInv, SenderInv, EofMeansAll, Sum, InSend, InData,
       Broken, CallFlags, TaskFlags
  <2> QED BY <2>1, <2>2, <2>3, <2>4, <2>5, <2>6, <2>7 DEF IndInv
<1>3. CASE TaskDrained
  <2>1. CallFlags'
    BY <1>3 DEF IndInv, CallFlags, TaskDrained, End, Emit, callVars, taskVars, toPeer,
       peerVars
  <2>2. TaskFlags'
    BY <1>3 DEF IndInv, TaskFlags, TaskDrained, End, Emit, callVars, taskVars, toPeer,
       peerVars
  <2>3. PeerFlags'
    BY <1>3 DEF IndInv, PeerFlags, TaskDrained, End, Emit, callVars, taskVars, toPeer,
       peerVars
  <2>4. ShapeOK'
    BY <1>3, RawAssumption DEF TaskDrained, End, Emit, Events, callVars, taskVars, toPeer,
       peerVars, IndInv, ShapeOK, FlowInv, Sum, InSend, InData, CallFlags, TaskFlags
  <2>5. FlowInv'
    BY <1>3, RawAssumption, SMTT(30) DEF TaskDrained, End, Emit, Events, callVars,
       taskVars, toPeer, peerVars, IndInv, ShapeOK, FlowInv, SenderInv, EofMeansAll, Sum,
       InSend, InData, Broken, CallFlags, TaskFlags
  <2>6. SenderInv'
    BY <1>3, RawAssumption, SMTT(30) DEF TaskDrained, End, Emit, Events, callVars,
       taskVars, toPeer, peerVars, IndInv, ShapeOK, FlowInv, SenderInv, EofMeansAll, Sum,
       InSend, InData, Broken, CallFlags, TaskFlags
  <2>7. EofMeansAll'
    BY <1>3, RawAssumption, SMTT(30) DEF TaskDrained, End, Emit, Events, callVars,
       taskVars, toPeer, peerVars, IndInv, ShapeOK, FlowInv, SenderInv, EofMeansAll, Sum,
       InSend, InData, Broken, CallFlags, TaskFlags
  <2> QED BY <2>1, <2>2, <2>3, <2>4, <2>5, <2>6, <2>7 DEF IndInv
<1>4. CASE TaskTakesChunk
  <2>1. CallFlags'
    BY <1>4 DEF IndInv, CallFlags, TaskTakesChunk, callVars, taskVars, toPeer, peerVars
  <2>2. TaskFlags'
    BY <1>4 DEF IndInv, TaskFlags, TaskTakesChunk, callVars, taskVars, toPeer, peerVars
  <2>3. PeerFlags'
    BY <1>4 DEF IndInv, PeerFlags, TaskTakesChunk, callVars, taskVars, toPeer, peerVars
  <2>4. ShapeOK'
    BY <1>4, RawAssumption DEF TaskTakesChunk, callVars, taskVars, toPeer, peerVars,
       IndInv, ShapeOK, FlowInv, Sum, InSend, InData, CallFlags, TaskFlags
  <2>5. FlowInv'
    BY <1>4, RawAssumption, SMTT(30) DEF TaskTakesChunk, callVars, taskVars, toPeer,
       peerVars, IndInv, ShapeOK, FlowInv, SenderInv, EofMeansAll, Sum, InSend, InData,
       Broken, CallFlags, TaskFlags
  <2>6. SenderInv'
    BY <1>4, RawAssumption, SMTT(30) DEF TaskTakesChunk, callVars, taskVars, toPeer,
       peerVars, IndInv, ShapeOK, FlowInv, SenderInv, EofMeansAll, Sum, InSend, InData,
       Broken, CallFlags, TaskFlags
  <2>7. EofMeansAll'
    BY <1>4, RawAssumption, SMTT(30) DEF TaskTakesChunk, callVars, taskVars, toPeer,
       peerVars, IndInv, ShapeOK, FlowInv, SenderInv, EofMeansAll, Sum, InSend, InData,
       Broken, CallFlags, TaskFlags
  <2> QED BY <2>1, <2>2, <2>3, <2>4, <2>5, <2>6, <2>7 DEF IndInv
<1>5. CASE TaskInputOver
  <2>1. CallFlags'
    BY <1>5 DEF IndInv, CallFlags, TaskInputOver, TaskInputOverIf, callVars, taskVars,
       toPeer, peerVars
  <2>2. TaskFlags'
    BY <1>5 DEF IndInv, TaskFlags, TaskInputOver, TaskInputOverIf, callVars, taskVars,
       toPeer, peerVars
  <2>3. PeerFlags'
    BY <1>5 DEF IndInv, PeerFlags, TaskInputOver, TaskInputOverIf, callVars, taskVars,
       toPeer, peerVars
  <2>4. ShapeOK'
    BY <1>5, RawAssumption DEF TaskInputOver, TaskInputOverIf, callVars, taskVars, toPeer,
       peerVars, IndInv, ShapeOK, FlowInv, Sum, InSend, InData, CallFlags, TaskFlags
  <2>5. FlowInv'
    BY <1>5, RawAssumption, SMTT(30) DEF TaskInputOver, TaskInputOverIf, callVars,
       taskVars, toPeer, peerVars, IndInv, ShapeOK, FlowInv, SenderInv, EofMeansAll, Sum,
       InSend, InData, Broken, CallFlags, TaskFlags
  <2>6. SenderInv'
    BY <1>5, RawAssumption, SMTT(30) DEF TaskInputOver, TaskInputOverIf, callVars,
       taskVars, toPeer, peerVars, IndInv, ShapeOK, FlowInv, SenderInv, EofMeansAll, Sum,
       InSend, InData, Broken, CallFlags, TaskFlags
  <2>7. EofMeansAll'
    BY <1>5, RawAssumption, SMTT(30) DEF TaskInputOver, TaskInputOverIf, callVars,
       taskVars, toPeer, peerVars, IndInv, ShapeOK, FlowInv, SenderInv, EofMeansAll, Sum,
       InSend, InData, Broken, CallFlags, TaskFlags
  <2> QED BY <2>1, <2>2, <2>3, <2>4, <2>5, <2>6, <2>7 DEF IndInv
<1>6. CASE TaskData
  <2>1. CallFlags'
    BY <1>6 DEF IndInv, CallFlags, TaskData, End, callVars, taskVars, toPeer, peerVars
  <2>2. TaskFlags'
    BY <1>6 DEF IndInv, TaskFlags, TaskData, End, callVars, taskVars, toPeer, peerVars
  <2>3. PeerFlags'
    BY <1>6 DEF IndInv, PeerFlags, TaskData, End, callVars, taskVars, toPeer, peerVars
  <2>4. ShapeOK'
    BY <1>6, RawAssumption DEF TaskData, End, callVars, taskVars, toPeer, peerVars,
       IndInv, ShapeOK, FlowInv, Sum, InSend, InData, CallFlags, TaskFlags
  <2>5. FlowInv'
    BY <1>6, RawAssumption, SMTT(30) DEF TaskData, End, callVars, taskVars, toPeer,
       peerVars, IndInv, ShapeOK, FlowInv, SenderInv, EofMeansAll, Sum, InSend, InData,
       Broken, CallFlags, TaskFlags
  <2>6. SenderInv'
    BY <1>6, RawAssumption, SMTT(30) DEF TaskData, End, callVars, taskVars, toPeer,
       peerVars, IndInv, ShapeOK, FlowInv, SenderInv, EofMeansAll, Sum, InSend, InData,
       Broken, CallFlags, TaskFlags
  <2>7. EofMeansAll'
    BY <1>6, RawAssumption, SMTT(30) DEF TaskData, End, callVars, taskVars, toPeer,
       peerVars, IndInv, ShapeOK, FlowInv, SenderInv, EofMeansAll, Sum, InSend, InData,
       Broken, CallFlags, TaskFlags
  <2> QED BY <2>1, <2>2, <2>3, <2>4, <2>5, <2>6, <2>7 DEF IndInv
<1>7. CASE TaskMessage
  <2>1. CallFlags'
    BY <1>7 DEF IndInv, CallFlags, TaskMessage, TaskMessageLeaving, Emit, callVars,
       taskVars, toPeer, peerVars
  <2>2. TaskFlags'
    BY <1>7 DEF IndInv, TaskFlags, TaskMessage, TaskMessageLeaving, Emit, callVars,
       taskVars, toPeer, peerVars
  <2>3. PeerFlags'
    BY <1>7 DEF IndInv, PeerFlags, TaskMessage, TaskMessageLeaving, Emit, callVars,
       taskVars, toPeer, peerVars
  <2>4. Tail(wire) \in Seq({"data", "exit", "eof", "close"})
    BY <1>7 DEF TaskMessage, TaskMessageLeaving, IndInv, ShapeOK
  <2>5. ShapeOK'
    BY <1>7, <2>4, RawAssumption DEF TaskMessage, TaskMessageLeaving, Emit, Events,
       callVars, taskVars, toPeer, peerVars, IndInv, ShapeOK, FlowInv, Sum, InSend,
       InData, CallFlags, TaskFlags
  <2>6. FlowInv'
    BY <1>7, <2>4, RawAssumption, SMTT(30) DEF TaskMessage, TaskMessageLeaving, Emit,
       Events, callVars, taskVars, toPeer, peerVars, IndInv, ShapeOK, FlowInv, SenderInv,
       EofMeansAll, Sum, InSend, InData, Broken, CallFlags, TaskFlags
  <2>7. SenderInv'
    BY <1>7, <2>4, RawAssumption, SMTT(30) DEF TaskMessage, TaskMessageLeaving, Emit,
       Events, callVars, taskVars, toPeer, peerVars, IndInv, ShapeOK, FlowInv, SenderInv,
       EofMeansAll, Sum, InSend, InData, Broken, CallFlags, TaskFlags
  <2>8. EofMeansAll'
    BY <1>7, <2>4, RawAssumption, SMTT(30) DEF TaskMessage, TaskMessageLeaving, Emit,
       Events, callVars, taskVars, toPeer, peerVars, IndInv, ShapeOK, FlowInv, SenderInv,
       EofMeansAll, Sum, InSend, InData, Broken, CallFlags, TaskFlags
  <2> QED BY <2>1, <2>2, <2>3, <2>5, <2>6, <2>7, <2>8 DEF IndInv
<1>8. CASE TaskChannelOver
  <2>1. CallFlags'
    BY <1>8 DEF IndInv, CallFlags, TaskChannelOver, End, Emit, callVars, taskVars, toPeer,
       peerVars
  <2>2. TaskFlags'
    BY <1>8 DEF IndInv, TaskFlags, TaskChannelOver, End, Emit, callVars, taskVars, toPeer,
       peerVars
  <2>3. PeerFlags'
    BY <1>8 DEF IndInv, PeerFlags, TaskChannelOver, End, Emit, callVars, taskVars, toPeer,
       peerVars
  <2>4. ShapeOK'
    BY <1>8, RawAssumption DEF TaskChannelOver, End, Emit, Events, callVars, taskVars,
       toPeer, peerVars, IndInv, ShapeOK, FlowInv, Sum, InSend, InData, CallFlags,
       TaskFlags
  <2>5. FlowInv'
    BY <1>8, RawAssumption, SMTT(30) DEF TaskChannelOver, End, Emit, Events, callVars,
       taskVars, toPeer, peerVars, IndInv, ShapeOK, FlowInv, SenderInv, EofMeansAll, Sum,
       InSend, InData, Broken, CallFlags, TaskFlags
  <2>6. SenderInv'
    BY <1>8, RawAssumption, SMTT(30) DEF TaskChannelOver, End, Emit, Events, callVars,
       taskVars, toPeer, peerVars, IndInv, ShapeOK, FlowInv, SenderInv, EofMeansAll, Sum,
       InSend, InData, Broken, CallFlags, TaskFlags
  <2>7. EofMeansAll'
    BY <1>8, RawAssumption, SMTT(30) DEF TaskChannelOver, End, Emit, Events, callVars,
       taskVars, toPeer, peerVars, IndInv, ShapeOK, FlowInv, SenderInv, EofMeansAll, Sum,
       InSend, InData, Broken, CallFlags, TaskFlags
  <2> QED BY <2>1, <2>2, <2>3, <2>4, <2>5, <2>6, <2>7 DEF IndInv
<1>9. CASE TaskEmits
  <2>1. CallFlags'
    BY <1>9 DEF IndInv, CallFlags, TaskEmits, End, callVars, taskVars, toPeer, peerVars
  <2>2. TaskFlags'
    BY <1>9 DEF IndInv, TaskFlags, TaskEmits, End, callVars, taskVars, toPeer, peerVars
  <2>3. PeerFlags'
    BY <1>9 DEF IndInv, PeerFlags, TaskEmits, End, callVars, taskVars, toPeer, peerVars
  <2>4. Append(outq, ev) \in Seq(Events) /\ Len(Append(outq, ev)) <= OutCap
    BY <1>9, RawAssumption DEF TaskEmits, IndInv, ShapeOK
  <2>5. ShapeOK'
    BY <1>9, <2>4, RawAssumption DEF TaskEmits, End, callVars, taskVars, toPeer, peerVars,
       IndInv, ShapeOK, FlowInv, Sum, InSend, InData, CallFlags, TaskFlags
  <2>6. FlowInv'
    BY <1>9, <2>4, RawAssumption, SMTT(30) DEF TaskEmits, End, callVars, taskVars, toPeer,
       peerVars, IndInv, ShapeOK, FlowInv, SenderInv, EofMeansAll, Sum, InSend, InData,
       Broken, CallFlags, TaskFlags
  <2>7. SenderInv'
    BY <1>9, <2>4, RawAssumption, SMTT(30) DEF TaskEmits, End, callVars, taskVars, toPeer,
       peerVars, IndInv, ShapeOK, FlowInv, SenderInv, EofMeansAll, Sum, InSend, InData,
       Broken, CallFlags, TaskFlags
  <2>8. EofMeansAll'
    BY <1>9, <2>4, RawAssumption, SMTT(30) DEF TaskEmits, End, callVars, taskVars, toPeer,
       peerVars, IndInv, ShapeOK, FlowInv, SenderInv, EofMeansAll, Sum, InSend, InData,
       Broken, CallFlags, TaskFlags
  <2> QED BY <2>1, <2>2, <2>3, <2>5, <2>6, <2>7, <2>8 DEF IndInv
<1> QED
  BY <1>1, <1>2, <1>3, <1>4, <1>5, <1>6, <1>7, <1>8, <1>9 DEF Task

(* The steps of the peer and of the transport. *)
LEMMA PeerPreserves ==
  ASSUME IndInv,
         TransportLost \/ \E m \in {"data", "exit", "eof", "close"} : PeerSends(m)
  PROVE  IndInv'
<1>1. CASE TransportLost
  <2>1. CallFlags'
    BY <1>1 DEF IndInv, CallFlags, TransportLost, callVars, taskVars, toPeer, peerVars
  <2>2. TaskFlags'
    BY <1>1 DEF IndInv, TaskFlags, TransportLost, callVars, taskVars, toPeer, peerVars
  <2>3. PeerFlags'
    BY <1>1 DEF IndInv, PeerFlags, TransportLost, callVars, taskVars, toPeer, peerVars
  <2>4. ShapeOK' /\ FlowInv' /\ SenderInv' /\ EofMeansAll'
    BY <1>1 DEF TransportLost, callVars, taskVars, toPeer, peerVars, IndInv, ShapeOK,
       FlowInv, SenderInv, EofMeansAll, Sum, InSend, InData, Broken
  <2> QED BY <2>1, <2>2, <2>3, <2>4 DEF IndInv
<1>2. ASSUME NEW m \in {"data", "exit", "eof", "close"}, PeerSends(m) PROVE IndInv'
  <2>1. CallFlags'
    BY <1>2 DEF IndInv, CallFlags, PeerSends, callVars, taskVars, toPeer, peerVars
  <2>2. TaskFlags'
    BY <1>2 DEF IndInv, TaskFlags, PeerSends, callVars, taskVars, toPeer, peerVars
  <2>3. PeerFlags'
    BY <1>2 DEF IndInv, PeerFlags, PeerSends, callVars, taskVars, toPeer, peerVars
  <2>4. Append(wire, m) \in Seq({"data", "exit", "eof", "close"})
    BY DEF IndInv, ShapeOK
  <2>5. outs' \in 0..MaxOut
    BY <1>2, RawAssumption DEF PeerSends, IndInv, ShapeOK
  <2>6. ShapeOK' /\ FlowInv' /\ SenderInv' /\ EofMeansAll'
    BY <1>2, <2>4, <2>5 DEF PeerSends, callVars, taskVars, toPeer, peerVars, IndInv,
       ShapeOK, FlowInv, SenderInv, EofMeansAll, Sum, InSend, InData, Broken
  <2> QED BY <2>1, <2>2, <2>3, <2>6 DEF IndInv
<1> QED BY <1>1, <1>2

(* IndInv is an invariant of the stream. *)
LEMMA AlwaysInv == Spec => []IndInv
<1>1. IndInv /\ [Next]_vars => IndInv'
  <2>1. IndInv /\ UNCHANGED vars => IndInv'
    BY DEF IndInv, CallFlags, TaskFlags, PeerFlags, ShapeOK, FlowInv, SenderInv,
       EofMeansAll, Sum, InSend, InData, Broken, vars, callVars, taskVars, toPeer,
       peerVars
  <2> QED BY <2>1, CallPreserves, TaskPreserves, PeerPreserves DEF Next
<1> QED BY <1>1, InitInv, PTL DEF Spec

(* Every variable of the raw stream keeps its type: neither queue exceeds  *)
(* its capacity, and no more chunks are handed to the transport than the   *)
(* local input has.                                                        *)
THEOREM TypeCorrect == Spec => []TypeOK
<1>1. IndInv => TypeOK
  BY DEF IndInv, CallFlags, TaskFlags, PeerFlags, ShapeOK, TypeOK
<1> QED BY <1>1, AlwaysInv, PTL

(* raw_channel_task sends EOF after the whole input, or for a call that    *)
(* was stopped or fails.                                                   *)
THEOREM EofFollowsInput == Spec => []EofMeansAll
<1>1. IndInv => EofMeansAll
  BY DEF IndInv
<1> QED BY <1>1, AlwaysInv, PTL

-----------------------------------------------------------------------------
(* The way of the output *)

(* Where e stands in a sequence of messages or events, and how often. *)
At(s, e) == {i \in 1..Len(s) : s[i] = e}
Count(s, e) == Cardinality(At(s, e))

(* How often e is on its way from the peer to the call: in the channel, in *)
(* the hands of the task or in the output queue.                           *)
Held(e) == IF task = "emit" /\ ev = e THEN 1 ELSE 0
OnTheWay(e) == Count(wire, e) + Held(e) + Count(outq, e)

(* The call goes away and leaves behind what is on its way. *)
GivenUp == result \in {"err", "stopped"}

(* What the peer has sent has arrived or is on its way. *)
OutputInv ==
    /\ ~GivenUp => written + OnTheWay("data") = outs
    /\ ~GivenUp => (IF exit THEN 1 ELSE 0) + OnTheWay("exit")
                       = (IF peerExit THEN 1 ELSE 0)

(* When the task ends well the channel is over and empty; out_rx.recv      *)
(* gives None when the queue is empty for good; the call succeeds after    *)
(* both.                                                                   *)
EndInv ==
    /\ aborted => GivenUp
    /\ pc = "unwind" => GivenUp
    /\ taskOk => task = "ended"
    /\ taskOk \/ (task = "emit" /\ after = "ok") => wire = <<>> /\ (peerClosed \/ lost)
    /\ outClosed => outq = <<>> /\ task = "ended"
    /\ result = "ok" => pc = "done" /\ taskOk /\ outClosed

DrainInv == OutputInv /\ EndInv

(* Counting in the empty sequence. *)
LEMMA CountEmpty == \A e : Count(<<>>, e) = 0
<1> SUFFICES ASSUME NEW e PROVE Count(<<>>, e) = 0
  OBVIOUS
<1>1. At(<<>>, e) = {}
  BY DEF At
<1> QED BY <1>1, FS_EmptySet DEF Count

(* A count is a number, and it is taken of a finite set. *)
LEMMA CountType ==
  ASSUME NEW S, NEW s \in Seq(S), NEW e
  PROVE  IsFiniteSet(At(s, e)) /\ Count(s, e) \in Nat
<1>1. Len(s) \in Nat
  BY LenProperties
<1>2. IsFiniteSet(1..Len(s))
  BY <1>1, FS_Interval
<1>3. At(s, e) \in SUBSET (1..Len(s))
  BY DEF At
<1>4. IsFiniteSet(At(s, e))
  BY <1>2, <1>3, FS_Subset
<1> QED BY <1>4, FS_CardinalityType DEF Count

(* Append adds the element it appends. *)
LEMMA CountAppend ==
  ASSUME NEW S, NEW s \in Seq(S), NEW x \in S, NEW e
  PROVE  Count(Append(s, x), e) = Count(s, e) + (IF x = e THEN 1 ELSE 0)
<1>1. Len(s) \in Nat /\ Len(Append(s, x)) = Len(s) + 1
  BY LenProperties
<1>2. \A i \in 1..Len(s) : Append(s, x)[i] = s[i]
  OBVIOUS
<1>3. Append(s, x)[Len(s) + 1] = x
  OBVIOUS
<1>4. IsFiniteSet(At(s, e)) /\ Count(s, e) \in Nat
  BY CountType
<1>5. CASE x = e
  <2>1. At(Append(s, x), e) = At(s, e) \cup {Len(s) + 1}
    BY <1>1, <1>2, <1>3, <1>5 DEF At
  <2>2. Len(s) + 1 \notin At(s, e)
    BY <1>1 DEF At
  <2> QED BY <2>1, <2>2, <1>4, <1>5, FS_AddElement DEF Count
<1>6. CASE x # e
  <2>1. At(Append(s, x), e) = At(s, e)
    BY <1>1, <1>2, <1>3, <1>6 DEF At
  <2> QED BY <2>1, <1>4, <1>6 DEF Count
<1> QED BY <1>5, <1>6

(* Tail takes the head away. *)
LEMMA CountTail ==
  ASSUME NEW S, NEW s \in Seq(S), s # <<>>, NEW e
  PROVE  Count(s, e) = Count(Tail(s), e) + (IF Head(s) = e THEN 1 ELSE 0)
<1> DEFINE T == At(Tail(s), e)
           U == At(s, e) \ {1}
           f == [i \in T |-> i + 1]
<1>1. Tail(s) \in Seq(S) /\ Len(s) \in Nat /\ Len(Tail(s)) = Len(s) - 1
  BY HeadTailProperties, LenProperties
<1>2. \A i \in 1..Len(s) - 1 : Tail(s)[i] = s[i + 1]
  BY <1>1, HeadTailProperties
<1>3. Head(s) = s[1] /\ Len(s) > 0
  BY EmptySeq
<1>4. IsFiniteSet(T) /\ Cardinality(T) \in Nat
  BY <1>1, CountType DEF Count
<1>5. T \subseteq Int
  BY <1>1 DEF At
<1>6. f \in Bijection(T, U)
  <2>1. \A i \in T : f[i] \in U
    BY <1>1, <1>2 DEF At
  <2>2. \A i, j \in T : f[i] = f[j] => i = j
    BY <1>5
  <2>3. \A k \in U : \E i \in T : f[i] = k
    <3> SUFFICES ASSUME NEW k \in U PROVE \E i \in T : f[i] = k
      OBVIOUS
    <3>1. k - 1 \in T /\ k \in Int
      BY <1>1, <1>2 DEF At
    <3> QED BY <3>1
  <2> QED BY <2>1, <2>2, <2>3 DEF Bijection, Injection, Surjection, IsInjective
<1>7. ExistsBijection(T, U)
  BY <1>6 DEF ExistsBijection
<1>8. Cardinality(U) = Cardinality(T)
  BY <1>4, <1>7, FS_Bijection
<1>9. IsFiniteSet(At(s, e)) /\ Cardinality(At(s, e)) \in Nat
  BY CountType DEF Count
<1>10. 1 \in At(s, e) <=> Head(s) = e
  BY <1>1, <1>3 DEF At
<1> HIDE DEF T, U, f
<1>11. Cardinality(U) = IF Head(s) = e THEN Cardinality(At(s, e)) - 1
                                       ELSE Cardinality(At(s, e))
  BY <1>9, <1>10, FS_RemoveElement DEF U
<1> QED BY <1>4, <1>8, <1>9, <1>11 DEF Count, T

(* What is on its way is counted in numbers. *)
LEMMA WayType == ASSUME IndInv, NEW e PROVE OnTheWay(e) \in Nat
<1>1. wire \in Seq({"data", "exit", "eof", "close"}) /\ outq \in Seq(Events)
  BY DEF IndInv, ShapeOK
<1>2. Count(wire, e) \in Nat /\ Count(outq, e) \in Nat
  BY <1>1, CountType
<1>3. Held(e) \in Nat
  BY DEF Held
<1> QED BY <1>2, <1>3 DEF OnTheWay

(* A step that leaves the channel and the queue alone and neither begins   *)
(* nor ends the sending of e leaves what is on its way.                    *)
LEMMA WayKept ==
  ASSUME NEW e, UNCHANGED <<wire, outq>>, Held(e)' = Held(e)
  PROVE  OnTheWay(e)' = OnTheWay(e)
BY DEF OnTheWay

(* The numbers at both ends of the way. *)
Arrived == IF exit THEN 1 ELSE 0
Exited == IF peerExit THEN 1 ELSE 0

(* A step that leaves both ends and what is on its way between them. *)
LEMMA OutputKept ==
  ASSUME OutputInv, GivenUp => GivenUp', UNCHANGED <<written, outs, exit, peerExit>>,
         OnTheWay("data")' = OnTheWay("data"), OnTheWay("exit")' = OnTheWay("exit")
  PROVE  OutputInv'
BY DEF OutputInv

(* The initial states: nothing has been sent. *)
LEMMA DrainInit == Init => DrainInv
<1> SUFFICES ASSUME Init PROVE DrainInv
  OBVIOUS
<1>1. OnTheWay("data") = 0 /\ OnTheWay("exit") = 0
  BY CountEmpty DEF Init, OnTheWay, Held
<1> QED BY <1>1 DEF Init, DrainInv, OutputInv, EndInv, GivenUp

(* The steps of the call: it takes an event from the queue and counts it. *)
LEMMA CallDrains ==
  ASSUME IndInv, DrainInv, Call \/ Stop \/ GraceElapses PROVE DrainInv'
<1>1. CASE Opened
  <2>1. \A e \in {"data", "exit"} : Held(e)' = Held(e)
    BY <1>1 DEF Opened, taskVars, Held, IndInv, SenderInv
  <2>2. UNCHANGED <<wire, outq>>
    BY <1>1 DEF Opened
  <2>3. \A e \in {"data", "exit"} : OnTheWay(e)' = OnTheWay(e)
    BY <2>1, <2>2, WayKept
  <2>7. UNCHANGED <<written, outs, exit, peerExit>> /\ (GivenUp => GivenUp')
    BY <1>1 DEF Opened, GivenUp, callVars, peerVars, IndInv, SenderInv
  <2>8. OutputInv'
    BY <2>3, <2>7, OutputKept DEF DrainInv
  <2>9. EndInv'
    BY <1>1, SMTT(30) DEF Opened, callVars, taskVars, toPeer, peerVars, DrainInv,
       EndInv, GivenUp, IndInv, ShapeOK, SenderInv, CallFlags, TaskFlags, PeerFlags
  <2> QED BY <2>8, <2>9 DEF DrainInv
<1>2. CASE OpenFails
  <2>1. \A e \in {"data", "exit"} : Held(e)' = Held(e)
    BY <1>2 DEF OpenFails, Leave, taskVars, Held
  <2>2. UNCHANGED <<wire, outq>>
    BY <1>2 DEF OpenFails, Leave
  <2>3. \A e \in {"data", "exit"} : OnTheWay(e)' = OnTheWay(e)
    BY <2>1, <2>2, WayKept
  <2>7. UNCHANGED <<written, outs, exit, peerExit>> /\ (GivenUp => GivenUp')
    BY <1>2 DEF OpenFails, Leave, Outcome, GivenUp, callVars, peerVars, IndInv, SenderInv
  <2>8. OutputInv'
    BY <2>3, <2>7, OutputKept DEF DrainInv
  <2>9. EndInv'
    BY <1>2, SMTT(30) DEF OpenFails, Leave, Outcome, callVars, taskVars, toPeer,
       peerVars, DrainInv, EndInv, GivenUp, IndInv, ShapeOK, SenderInv, CallFlags,
       TaskFlags, PeerFlags
  <2> QED BY <2>8, <2>9 DEF DrainInv
<1>3. CASE Read
  <2>1. \A e \in {"data", "exit"} : Held(e)' = Held(e)
    BY <1>3 DEF Read, Leave, taskVars, Held
  <2>2. UNCHANGED <<wire, outq>>
    BY <1>3 DEF Read, Leave
  <2>3. \A e \in {"data", "exit"} : OnTheWay(e)' = OnTheWay(e)
    BY <2>1, <2>2, WayKept
  <2>7. UNCHANGED <<written, outs, exit, peerExit>> /\ (GivenUp => GivenUp')
    BY <1>3 DEF Read, Leave, Outcome, GivenUp, callVars, peerVars, IndInv, SenderInv
  <2>8. OutputInv'
    BY <2>3, <2>7, OutputKept DEF DrainInv
  <2>9. EndInv'
    BY <1>3, SMTT(30) DEF Read, Leave, Outcome, callVars, taskVars, toPeer, peerVars,
       DrainInv, EndInv, GivenUp, IndInv, ShapeOK, SenderInv, CallFlags, TaskFlags,
       PeerFlags
  <2> QED BY <2>8, <2>9 DEF DrainInv
<1>4. CASE Send
  <2>1. \A e \in {"data", "exit"} : Held(e)' = Held(e)
    BY <1>4 DEF Send, Leave, taskVars, Held
  <2>2. UNCHANGED <<wire, outq>>
    BY <1>4 DEF Send, Leave
  <2>3. \A e \in {"data", "exit"} : OnTheWay(e)' = OnTheWay(e)
    BY <2>1, <2>2, WayKept
  <2>7. UNCHANGED <<written, outs, exit, peerExit>> /\ (GivenUp => GivenUp')
    BY <1>4 DEF Send, Leave, Outcome, GivenUp, callVars, peerVars, IndInv, SenderInv
  <2>8. OutputInv'
    BY <2>3, <2>7, OutputKept DEF DrainInv
  <2>9. EndInv'
    BY <1>4, SMTT(30) DEF Send, Leave, Outcome, callVars, taskVars, toPeer, peerVars,
       DrainInv, EndInv, GivenUp, IndInv, ShapeOK, SenderInv, CallFlags, TaskFlags,
       PeerFlags
  <2> QED BY <2>8, <2>9 DEF DrainInv
<1>5. CASE Recv
  <2>1. outq \in Seq(Events) /\ outq # <<>> /\ outq' = Tail(outq)
    BY <1>5 DEF Recv, IndInv, ShapeOK
  <2>2. \A e : Count(outq, e) = Count(outq, e)' + (IF Head(outq) = e THEN 1 ELSE 0)
    BY <2>1, CountTail
  <2>3. UNCHANGED wire /\ \A e : Held(e)' = Held(e)
    BY <1>5 DEF Recv, taskVars, Held
  <2>4. ASSUME NEW e
        PROVE  OnTheWay(e) = OnTheWay(e)' + (IF Head(outq) = e THEN 1 ELSE 0)
    <3>1. Count(outq, e)' \in Nat /\ Count(wire, e) \in Nat /\ Held(e) \in Nat
      <4>1. wire \in Seq({"data", "exit", "eof", "close"}) /\ Tail(outq) \in Seq(Events)
        BY <2>1, HeadTailProperties DEF IndInv, ShapeOK
      <4> QED BY <4>1, <2>1, CountType DEF Held
    <3> QED BY <3>1, <2>2, <2>3 DEF OnTheWay
  <2>5. OnTheWay("data")' \in Nat /\ OnTheWay("exit")' \in Nat
    <3>1. outq' \in Seq(Events) /\ wire' \in Seq({"data", "exit", "eof", "close"})
      BY <2>1, <2>3, HeadTailProperties DEF IndInv, ShapeOK
    <3>2. \A e : Count(outq, e)' \in Nat /\ Count(wire, e)' \in Nat
      BY <3>1, CountType
    <3> QED BY <3>2 DEF OnTheWay, Held
  <2>6. OutputInv'
    <3>1. CASE GivenUp'
      BY <3>1 DEF OutputInv
    <3>2. CASE ~GivenUp'
      <4>1. /\ written' = written + (IF Head(outq) = "data" THEN 1 ELSE 0)
            /\ exit' = (exit \/ Head(outq) = "exit") /\ UNCHANGED <<outs, peerExit>>
            /\ ~GivenUp
        BY <1>5, <3>2 DEF Recv, Leave, Outcome, GivenUp, peerVars, IndInv, SenderInv
      <4>2. written' + OnTheWay("data")' = outs'
        BY <4>1, <2>4, <2>5, SMT DEF DrainInv, OutputInv, IndInv, ShapeOK
      <4>3. Arrived + OnTheWay("exit") = Exited
        BY <4>1 DEF DrainInv, OutputInv, Arrived, Exited
      <4>4. Exited \in {0, 1} /\ Exited' = Exited /\ Arrived \in {0, 1}
        BY <4>1 DEF Exited, Arrived
      <4>5. CASE Head(outq) = "exit"
        <5>1. Arrived = 0
          BY <4>3, <4>4, <4>5, <2>4, <2>5
        <5>2. Arrived' = 1
          BY <4>1, <4>5 DEF Arrived
        <5> QED BY <5>1, <5>2, <4>3, <4>4, <4>5, <2>4, <2>5, <4>2 DEF OutputInv,
                   Arrived, Exited
      <4>6. CASE Head(outq) # "exit"
        <5>1. Arrived' = Arrived
          BY <4>1, <4>6 DEF Arrived
        <5> QED BY <5>1, <4>3, <4>4, <4>6, <2>4, <2>5, <4>2 DEF OutputInv, Arrived, Exited
      <4> QED BY <4>5, <4>6
    <3> QED BY <3>1, <3>2
  <2>8. EndInv'
    <3>1. ~outClosed
      BY <2>1 DEF DrainInv, EndInv
    <3> QED BY <1>5, <3>1, SMTT(30) DEF Recv, Leave, Outcome, callVars, taskVars,
               toPeer, peerVars, DrainInv, EndInv, GivenUp, IndInv, ShapeOK, SenderInv,
               CallFlags, TaskFlags, PeerFlags
  <2> QED BY <2>6, <2>8 DEF DrainInv
<1>6. CASE RecvNone
  <2>1. \A e \in {"data", "exit"} : Held(e)' = Held(e)
    BY <1>6 DEF RecvNone, taskVars, Held
  <2>2. UNCHANGED <<wire, outq>>
    BY <1>6 DEF RecvNone
  <2>3. \A e \in {"data", "exit"} : OnTheWay(e)' = OnTheWay(e)
    BY <2>1, <2>2, WayKept
  <2>7. UNCHANGED <<written, outs, exit, peerExit>> /\ (GivenUp => GivenUp')
    BY <1>6 DEF RecvNone, GivenUp, callVars, peerVars, IndInv, SenderInv
  <2>8. OutputInv'
    BY <2>3, <2>7, OutputKept DEF DrainInv
  <2>9. EndInv'
    BY <1>6, SMTT(30) DEF RecvNone, callVars, taskVars, toPeer, peerVars, DrainInv,
       EndInv, GivenUp, IndInv, ShapeOK, SenderInv, CallFlags, TaskFlags, PeerFlags
  <2> QED BY <2>8, <2>9 DEF DrainInv
<1>7. CASE InputCancelled
  <2>1. \A e \in {"data", "exit"} : Held(e)' = Held(e)
    BY <1>7 DEF InputCancelled, taskVars, Held
  <2>2. UNCHANGED <<wire, outq>>
    BY <1>7 DEF InputCancelled
  <2>3. \A e \in {"data", "exit"} : OnTheWay(e)' = OnTheWay(e)
    BY <2>1, <2>2, WayKept
  <2>7. UNCHANGED <<written, outs, exit, peerExit>> /\ (GivenUp => GivenUp')
    BY <1>7 DEF InputCancelled, GivenUp, callVars, peerVars, IndInv, SenderInv
  <2>8. OutputInv'
    BY <2>3, <2>7, OutputKept DEF DrainInv
  <2>9. EndInv'
    BY <1>7, SMTT(30) DEF InputCancelled, callVars, taskVars, toPeer, peerVars,
       DrainInv, EndInv, GivenUp, IndInv, ShapeOK, SenderInv, CallFlags, TaskFlags,
       PeerFlags
  <2> QED BY <2>8, <2>9 DEF DrainInv
<1>8. CASE Finish
  <2>1. \A e \in {"data", "exit"} : Held(e)' = Held(e)
    BY <1>8 DEF Finish, FinishIf, taskVars, Held
  <2>2. UNCHANGED <<wire, outq>>
    BY <1>8 DEF Finish, FinishIf
  <2>3. \A e \in {"data", "exit"} : OnTheWay(e)' = OnTheWay(e)
    BY <2>1, <2>2, WayKept
  <2>7. UNCHANGED <<written, outs, exit, peerExit>> /\ (GivenUp => GivenUp')
    BY <1>8 DEF Finish, FinishIf, Outcome, GivenUp, callVars, peerVars, IndInv, SenderInv
  <2>8. OutputInv'
    BY <2>3, <2>7, OutputKept DEF DrainInv
  <2>9. EndInv'
    BY <1>8, SMTT(30) DEF Finish, FinishIf, Outcome, callVars, taskVars, toPeer,
       peerVars, DrainInv, EndInv, GivenUp, IndInv, ShapeOK, SenderInv, CallFlags,
       TaskFlags, PeerFlags
  <2> QED BY <2>8, <2>9 DEF DrainInv
<1>9. CASE FlushFails
  <2>1. \A e \in {"data", "exit"} : Held(e)' = Held(e)
    BY <1>9 DEF FlushFails, Leave, taskVars, Held
  <2>2. UNCHANGED <<wire, outq>>
    BY <1>9 DEF FlushFails, Leave
  <2>3. \A e \in {"data", "exit"} : OnTheWay(e)' = OnTheWay(e)
    BY <2>1, <2>2, WayKept
  <2>7. UNCHANGED <<written, outs, exit, peerExit>> /\ (GivenUp => GivenUp')
    BY <1>9 DEF FlushFails, Leave, Outcome, GivenUp, callVars, peerVars, IndInv, SenderInv
  <2>8. OutputInv'
    BY <2>3, <2>7, OutputKept DEF DrainInv
  <2>9. EndInv'
    BY <1>9, SMTT(30) DEF FlushFails, Leave, Outcome, callVars, taskVars, toPeer,
       peerVars, DrainInv, EndInv, GivenUp, IndInv, ShapeOK, SenderInv, CallFlags,
       TaskFlags, PeerFlags
  <2> QED BY <2>8, <2>9 DEF DrainInv
<1>10. CASE Unwind
  <2>1. \A e \in {"data", "exit"} : Held(e)' = Held(e)
    BY <1>10 DEF Unwind, UnwindWith, taskVars, Held
  <2>2. UNCHANGED <<wire, outq>>
    BY <1>10 DEF Unwind, UnwindWith
  <2>3. \A e \in {"data", "exit"} : OnTheWay(e)' = OnTheWay(e)
    BY <2>1, <2>2, WayKept
  <2>7. UNCHANGED <<written, outs, exit, peerExit>> /\ (GivenUp => GivenUp')
    BY <1>10 DEF Unwind, UnwindWith, GivenUp, callVars, peerVars, IndInv, SenderInv
  <2>8. OutputInv'
    BY <2>3, <2>7, OutputKept DEF DrainInv
  <2>9. EndInv'
    BY <1>10, SMTT(30) DEF Unwind, UnwindWith, callVars, taskVars, toPeer, peerVars,
       DrainInv, EndInv, GivenUp, IndInv, ShapeOK, SenderInv, CallFlags, TaskFlags,
       PeerFlags
  <2> QED BY <2>8, <2>9 DEF DrainInv
<1>11. CASE Stop
  <2>1. \A e \in {"data", "exit"} : Held(e)' = Held(e)
    BY <1>11 DEF Stop, taskVars, Held
  <2>2. UNCHANGED <<wire, outq>>
    BY <1>11 DEF Stop
  <2>3. \A e \in {"data", "exit"} : OnTheWay(e)' = OnTheWay(e)
    BY <2>1, <2>2, WayKept
  <2>7. UNCHANGED <<written, outs, exit, peerExit>> /\ (GivenUp => GivenUp')
    BY <1>11 DEF Stop, GivenUp, callVars, peerVars, IndInv, SenderInv
  <2>8. OutputInv'
    BY <2>3, <2>7, OutputKept DEF DrainInv
  <2>9. EndInv'
    BY <1>11, SMTT(30) DEF Stop, callVars, taskVars, toPeer, peerVars, DrainInv, EndInv,
       GivenUp, IndInv, ShapeOK, SenderInv, CallFlags, TaskFlags, PeerFlags
  <2> QED BY <2>8, <2>9 DEF DrainInv
<1>12. CASE GraceElapses
  <2>1. \A e \in {"data", "exit"} : Held(e)' = Held(e)
    BY <1>12 DEF GraceElapses, GraceElapsesIf, Leave, taskVars, Held
  <2>2. UNCHANGED <<wire, outq>>
    BY <1>12 DEF GraceElapses, GraceElapsesIf, Leave
  <2>3. \A e \in {"data", "exit"} : OnTheWay(e)' = OnTheWay(e)
    BY <2>1, <2>2, WayKept
  <2>7. UNCHANGED <<written, outs, exit, peerExit>> /\ (GivenUp => GivenUp')
    BY <1>12 DEF GraceElapses, GraceElapsesIf, Leave, Outcome, GivenUp, callVars,
       peerVars, IndInv, SenderInv
  <2>8. OutputInv'
    BY <2>3, <2>7, OutputKept DEF DrainInv
  <2>9. EndInv'
    BY <1>12, SMTT(30) DEF GraceElapses, GraceElapsesIf, Leave, Outcome, callVars,
       taskVars, toPeer, peerVars, DrainInv, EndInv, GivenUp, IndInv, ShapeOK,
       SenderInv, CallFlags, TaskFlags, PeerFlags
  <2> QED BY <2>8, <2>9 DEF DrainInv
<1> QED
  BY <1>1, <1>2, <1>3, <1>4, <1>5, <1>6, <1>7, <1>8, <1>9, <1>10, <1>11, <1>12 DEF Call

(* The steps of the task: it passes a message on, or ends. *)
LEMMA TaskDrains == ASSUME IndInv, DrainInv, Task PROVE DrainInv'
<1>1. CASE TaskAborted
  <2>1. GivenUp /\ UNCHANGED result
    BY <1>1 DEF TaskAborted, callVars, DrainInv, EndInv
  <2>2. OutputInv'
    BY <2>1 DEF OutputInv, GivenUp
  <2>3. EndInv'
    BY <1>1, <2>1 DEF TaskAborted, End, callVars, taskVars, toPeer, peerVars, DrainInv,
       EndInv, GivenUp, IndInv, ShapeOK, SenderInv, CallFlags, TaskFlags, PeerFlags
  <2> QED BY <2>2, <2>3 DEF DrainInv
<1>2. CASE TaskCancelled
  <2>1. \A e \in {"data", "exit"} : Held(e)' = Held(e)
    BY <1>2 DEF TaskCancelled, taskVars, Held
  <2>2. UNCHANGED <<wire, outq>>
    BY <1>2 DEF TaskCancelled
  <2>3. \A e \in {"data", "exit"} : OnTheWay(e)' = OnTheWay(e)
    BY <2>1, <2>2, WayKept
  <2>7. UNCHANGED <<written, outs, exit, peerExit>> /\ (GivenUp => GivenUp')
    BY <1>2 DEF TaskCancelled, GivenUp, callVars, peerVars, IndInv, SenderInv
  <2>8. OutputInv'
    BY <2>3, <2>7, OutputKept DEF DrainInv
  <2>9. EndInv'
    BY <1>2, SMTT(30) DEF TaskCancelled, callVars, taskVars, toPeer, peerVars, DrainInv,
       EndInv, GivenUp, IndInv, ShapeOK, SenderInv, CallFlags, TaskFlags, PeerFlags
  <2> QED BY <2>8, <2>9 DEF DrainInv
<1>3. CASE TaskDrained
  <2>1. \A e \in {"data", "exit"} : Held(e)' = Held(e)
    BY <1>3 DEF TaskDrained, End, Emit, taskVars, Held
  <2>2. UNCHANGED <<wire, outq>>
    BY <1>3 DEF TaskDrained, End, Emit
  <2>3. \A e \in {"data", "exit"} : OnTheWay(e)' = OnTheWay(e)
    BY <2>1, <2>2, WayKept
  <2>7. UNCHANGED <<written, outs, exit, peerExit>> /\ (GivenUp => GivenUp')
    BY <1>3 DEF TaskDrained, End, Emit, GivenUp, callVars, peerVars, IndInv, SenderInv
  <2>8. OutputInv'
    BY <2>3, <2>7, OutputKept DEF DrainInv
  <2>9. EndInv'
    BY <1>3, SMTT(30) DEF TaskDrained, End, Emit, callVars, taskVars, toPeer, peerVars,
       DrainInv, EndInv, GivenUp, IndInv, ShapeOK, SenderInv, CallFlags, TaskFlags,
       PeerFlags
  <2> QED BY <2>8, <2>9 DEF DrainInv
<1>4. CASE TaskTakesChunk
  <2>1. \A e \in {"data", "exit"} : Held(e)' = Held(e)
    BY <1>4 DEF TaskTakesChunk, taskVars, Held
  <2>2. UNCHANGED <<wire, outq>>
    BY <1>4 DEF TaskTakesChunk
  <2>3. \A e \in {"data", "exit"} : OnTheWay(e)' = OnTheWay(e)
    BY <2>1, <2>2, WayKept
  <2>7. UNCHANGED <<written, outs, exit, peerExit>> /\ (GivenUp => GivenUp')
    BY <1>4 DEF TaskTakesChunk, GivenUp, callVars, peerVars, IndInv, SenderInv
  <2>8. OutputInv'
    BY <2>3, <2>7, OutputKept DEF DrainInv
  <2>9. EndInv'
    BY <1>4, SMTT(30) DEF TaskTakesChunk, callVars, taskVars, toPeer, peerVars,
       DrainInv, EndInv, GivenUp, IndInv, ShapeOK, SenderInv, CallFlags, TaskFlags,
       PeerFlags
  <2> QED BY <2>8, <2>9 DEF DrainInv
<1>5. CASE TaskInputOver
  <2>1. \A e \in {"data", "exit"} : Held(e)' = Held(e)
    BY <1>5 DEF TaskInputOver, TaskInputOverIf, taskVars, Held
  <2>2. UNCHANGED <<wire, outq>>
    BY <1>5 DEF TaskInputOver, TaskInputOverIf
  <2>3. \A e \in {"data", "exit"} : OnTheWay(e)' = OnTheWay(e)
    BY <2>1, <2>2, WayKept
  <2>7. UNCHANGED <<written, outs, exit, peerExit>> /\ (GivenUp => GivenUp')
    BY <1>5 DEF TaskInputOver, TaskInputOverIf, GivenUp, callVars, peerVars, IndInv,
       SenderInv
  <2>8. OutputInv'
    BY <2>3, <2>7, OutputKept DEF DrainInv
  <2>9. EndInv'
    BY <1>5, SMTT(30) DEF TaskInputOver, TaskInputOverIf, callVars, taskVars, toPeer,
       peerVars, DrainInv, EndInv, GivenUp, IndInv, ShapeOK, SenderInv, CallFlags,
       TaskFlags, PeerFlags
  <2> QED BY <2>8, <2>9 DEF DrainInv
<1>6. CASE TaskData
  <2>1. \A e \in {"data", "exit"} : Held(e)' = Held(e)
    BY <1>6 DEF TaskData, End, taskVars, Held
  <2>2. UNCHANGED <<wire, outq>>
    BY <1>6 DEF TaskData, End
  <2>3. \A e \in {"data", "exit"} : OnTheWay(e)' = OnTheWay(e)
    BY <2>1, <2>2, WayKept
  <2>7. UNCHANGED <<written, outs, exit, peerExit>> /\ (GivenUp => GivenUp')
    BY <1>6 DEF TaskData, End, GivenUp, callVars, peerVars, IndInv, SenderInv
  <2>8. OutputInv'
    BY <2>3, <2>7, OutputKept DEF DrainInv
  <2>9. EndInv'
    BY <1>6, SMTT(30) DEF TaskData, End, callVars, taskVars, toPeer, peerVars, DrainInv,
       EndInv, GivenUp, IndInv, ShapeOK, SenderInv, CallFlags, TaskFlags, PeerFlags
  <2> QED BY <2>8, <2>9 DEF DrainInv
<1>7. CASE TaskMessage
  <2>1. wire \in Seq({"data", "exit", "eof", "close"}) /\ wire # <<>> /\ wire' = Tail(wire)
    BY <1>7 DEF TaskMessage, TaskMessageLeaving, Emit, IndInv, ShapeOK
  <2>2. \A e : Count(wire, e) = Count(wire, e)' + (IF Head(wire) = e THEN 1 ELSE 0)
    BY <2>1, CountTail
  <2>3. \A e : Count(wire, e)' \in Nat /\ Count(outq, e) \in Nat
    <3>1. Tail(wire) \in Seq({"data", "exit", "eof", "close"}) /\ outq \in Seq(Events)
      BY <2>1, HeadTailProperties DEF IndInv, ShapeOK
    <3> QED BY <3>1, <2>1, CountType
  <2>4. ASSUME NEW e \in {"data", "exit"}
        PROVE  Held(e) = 0 /\ Held(e)' = IF Head(wire) = e THEN 1 ELSE 0
    <3>1. Head(wire) \in {"data", "exit", "eof", "close"}
      BY <2>1, HeadTailProperties
    <3> QED BY <1>7, <3>1 DEF TaskMessage, TaskMessageLeaving, Emit, Held
  <2>5. UNCHANGED outq
    BY <1>7 DEF TaskMessage, TaskMessageLeaving, Emit
  <2>6. ASSUME NEW e \in {"data", "exit"} PROVE OnTheWay(e)' = OnTheWay(e)
    BY <2>2, <2>3, <2>4, <2>5 DEF OnTheWay
  <2>7. UNCHANGED <<written, outs, exit, peerExit>> /\ (GivenUp => GivenUp')
    BY <1>7 DEF TaskMessage, TaskMessageLeaving, Emit, GivenUp, callVars, peerVars,
       IndInv, SenderInv
  <2>8. OutputInv'
    BY <2>6, <2>7, OutputKept DEF DrainInv
  <2>9. EndInv'
    BY <1>7, SMTT(30) DEF TaskMessage, TaskMessageLeaving, Emit, callVars, taskVars,
       toPeer, peerVars, DrainInv, EndInv, GivenUp, IndInv, ShapeOK, SenderInv,
       CallFlags, TaskFlags, PeerFlags
  <2> QED BY <2>8, <2>9 DEF DrainInv
<1>8. CASE TaskChannelOver
  <2>1. \A e \in {"data", "exit"} : Held(e)' = Held(e)
    BY <1>8 DEF TaskChannelOver, End, Emit, taskVars, Held
  <2>2. UNCHANGED <<wire, outq>>
    BY <1>8 DEF TaskChannelOver, End, Emit
  <2>3. \A e \in {"data", "exit"} : OnTheWay(e)' = OnTheWay(e)
    BY <2>1, <2>2, WayKept
  <2>7. UNCHANGED <<written, outs, exit, peerExit>> /\ (GivenUp => GivenUp')
    BY <1>8 DEF TaskChannelOver, End, Emit, GivenUp, callVars, peerVars, IndInv, SenderInv
  <2>8. OutputInv'
    BY <2>3, <2>7, OutputKept DEF DrainInv
  <2>9. EndInv'
    BY <1>8, SMTT(30) DEF TaskChannelOver, End, Emit, callVars, taskVars, toPeer,
       peerVars, DrainInv, EndInv, GivenUp, IndInv, ShapeOK, SenderInv, CallFlags,
       TaskFlags, PeerFlags
  <2> QED BY <2>8, <2>9 DEF DrainInv
<1>9. CASE TaskEmits
  <2>1. outq \in Seq(Events) /\ ev \in Events /\ outq' = Append(outq, ev)
    BY <1>9 DEF TaskEmits, End, IndInv, ShapeOK
  <2>2. \A e : Count(outq, e)' = Count(outq, e) + (IF ev = e THEN 1 ELSE 0)
    BY <2>1, CountAppend
  <2>3. \A e : Count(wire, e) \in Nat /\ Count(outq, e) \in Nat
    BY CountType DEF IndInv, ShapeOK
  <2>4. \A e : Held(e) = (IF ev = e THEN 1 ELSE 0) /\ Held(e)' = 0
    BY <1>9 DEF TaskEmits, End, Held
  <2>5. UNCHANGED wire
    BY <1>9 DEF TaskEmits, End
  <2>6. ASSUME NEW e \in {"data", "exit"} PROVE OnTheWay(e)' = OnTheWay(e)
    BY <2>2, <2>3, <2>4, <2>5 DEF OnTheWay
  <2>7. UNCHANGED <<written, outs, exit, peerExit>> /\ (GivenUp => GivenUp')
    BY <1>9 DEF TaskEmits, End, GivenUp, callVars, peerVars, IndInv, SenderInv
  <2>8. OutputInv'
    BY <2>6, <2>7, OutputKept DEF DrainInv
  <2>9. EndInv'
    BY <1>9, SMTT(30) DEF TaskEmits, End, callVars, taskVars, toPeer, peerVars,
       DrainInv, EndInv, GivenUp, IndInv, ShapeOK, SenderInv, CallFlags, TaskFlags,
       PeerFlags
  <2> QED BY <2>8, <2>9 DEF DrainInv
<1> QED
  BY <1>1, <1>2, <1>3, <1>4, <1>5, <1>6, <1>7, <1>8, <1>9 DEF Task

(* The steps of the peer: what it sends is on its way. *)
LEMMA PeerDrains ==
  ASSUME IndInv, DrainInv,
         TransportLost \/ \E m \in {"data", "exit", "eof", "close"} : PeerSends(m)
  PROVE  DrainInv'
<1>1. CASE TransportLost
  <2>1. \A e \in {"data", "exit"} : Held(e)' = Held(e)
    BY <1>1 DEF TransportLost, taskVars, Held
  <2>2. UNCHANGED <<wire, outq>>
    BY <1>1 DEF TransportLost
  <2>3. \A e \in {"data", "exit"} : OnTheWay(e)' = OnTheWay(e)
    BY <2>1, <2>2, WayKept
  <2>7. UNCHANGED <<written, outs, exit, peerExit>> /\ (GivenUp => GivenUp')
    BY <1>1 DEF TransportLost, GivenUp, callVars, peerVars, IndInv, SenderInv
  <2>8. OutputInv'
    BY <2>3, <2>7, OutputKept DEF DrainInv
  <2>9. EndInv'
    BY <1>1, SMTT(30) DEF TransportLost, callVars, taskVars, toPeer, peerVars, DrainInv,
       EndInv, GivenUp, IndInv, ShapeOK, SenderInv, CallFlags, TaskFlags, PeerFlags
  <2> QED BY <2>8, <2>9 DEF DrainInv
<1>2. ASSUME NEW m \in {"data", "exit", "eof", "close"}, PeerSends(m) PROVE DrainInv'
  <2>1. /\ wire \in Seq({"data", "exit", "eof", "close"}) /\ wire' = Append(wire, m)
        /\ UNCHANGED outq
    BY <1>2 DEF PeerSends, IndInv, ShapeOK
  <2>2. \A e : Count(wire, e)' = Count(wire, e) + (IF m = e THEN 1 ELSE 0)
    BY <2>1, CountAppend
  <2>3. \A e : Count(wire, e) \in Nat /\ Count(outq, e) \in Nat
    BY CountType DEF IndInv, ShapeOK
  <2>4. \A e : Held(e)' = Held(e) /\ Held(e) \in Nat
    BY <1>2 DEF PeerSends, taskVars, Held
  <2>5. ASSUME NEW e PROVE OnTheWay(e)' = OnTheWay(e) + (IF m = e THEN 1 ELSE 0)
    BY <2>1, <2>2, <2>3, <2>4 DEF OnTheWay
  <2>6. OnTheWay("data") \in Nat /\ OnTheWay("exit") \in Nat
    BY WayType
  <2>7. OutputInv'
    <3>1. /\ UNCHANGED <<written, exit, result>> /\ outs' = outs + (IF m = "data" THEN 1 ELSE 0)
          /\ peerExit' = (peerExit \/ m = "exit") /\ (m = "exit" => ~peerExit)
      BY <1>2 DEF PeerSends, callVars
    <3>2. ~GivenUp => written' + OnTheWay("data")' = outs'
      BY <3>1, <2>5, <2>6 DEF DrainInv, OutputInv, IndInv, ShapeOK
    <3>3. ~GivenUp => Arrived + OnTheWay("exit") = Exited
      BY DEF DrainInv, OutputInv, Arrived, Exited
    <3>4. Arrived' = Arrived /\ Arrived \in Nat
      BY <3>1 DEF Arrived
    <3>5. CASE m = "exit"
      <4>1. Exited = 0 /\ Exited' = 1
        BY <3>1, <3>5 DEF Exited
      <4> QED BY <4>1, <3>1, <3>2, <3>3, <3>4, <3>5, <2>5, <2>6
              DEF OutputInv, Arrived, Exited, GivenUp
    <3>6. CASE m # "exit"
      <4>1. Exited' = Exited
        BY <3>1, <3>6 DEF Exited
      <4> QED BY <4>1, <3>1, <3>2, <3>3, <3>4, <3>6, <2>5, <2>6
              DEF OutputInv, Arrived, Exited, GivenUp
    <3> QED BY <3>5, <3>6
  <2>8. EndInv'
    BY <1>2, SMTT(30) DEF PeerSends, callVars, taskVars, toPeer, peerVars, DrainInv,
       EndInv, GivenUp, IndInv, ShapeOK, SenderInv, CallFlags, TaskFlags, PeerFlags
  <2> QED BY <2>7, <2>8 DEF DrainInv
<1> QED BY <1>1, <1>2

(* DrainInv is an invariant of the stream. *)
LEMMA AlwaysDrains == Spec => []DrainInv
<1>1. IndInv /\ DrainInv /\ [Next]_vars => DrainInv'
  <2>1. DrainInv /\ UNCHANGED vars => DrainInv'
    BY DEF DrainInv, OutputInv, EndInv, GivenUp, OnTheWay, Held, Count, At, vars,
       callVars, taskVars, toPeer, peerVars
  <2> QED BY <2>1, CallDrains, TaskDrains, PeerDrains DEF Next
<1> QED BY <1>1, DrainInit, AlwaysInv, PTL DEF Spec

(* A call of exec_raw_streaming_cancellable that returns Ok has drained    *)
(* the channel and the queue: every chunk of output is written and the     *)
(* exit status is there if the peer sent one, whatever the capacities of   *)
(* the queues and however the output and the end of the input interleave.  *)
THEOREM OkFollowsDrain == Spec => []OkMeansDrained
<1>1. IndInv /\ DrainInv => OkMeansDrained
  <2> SUFFICES ASSUME IndInv, DrainInv, result = "ok" PROVE OkMeansDrained
    BY DEF OkMeansDrained
  <2>1. wire = <<>> /\ outq = <<>> /\ task = "ended" /\ ~GivenUp
    BY DEF DrainInv, EndInv, GivenUp
  <2>2. OnTheWay("data") = 0 /\ OnTheWay("exit") = 0
    BY <2>1, CountEmpty DEF OnTheWay, Held
  <2>3. written = outs
    BY <2>1, <2>2 DEF DrainInv, OutputInv, IndInv, ShapeOK
  <2>4. Arrived = Exited
    BY <2>1, <2>2 DEF DrainInv, OutputInv, Arrived, Exited
  <2>5. exit = peerExit
    BY <2>4 DEF Arrived, Exited, IndInv, CallFlags, PeerFlags
  <2> QED BY <2>1, <2>3, <2>5 DEF OkMeansDrained
<1> QED BY <1>1, AlwaysInv, AlwaysDrains, PTL

=============================================================================
