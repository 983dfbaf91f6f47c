------------------------------ MODULE RawStream ------------------------------
(***************************************************************************)
(* exec_raw_streaming_cancellable of src/ssh/command.rs: the byte stream   *)
(* under every exec-raw transfer.  The call (`pc') pumps the local input   *)
(* and output; a spawned task (`task', raw_channel_task) owns the channel; *)
(* two bounded queues join them.  While the call waits for room in the     *)
(* input queue it does not read the output queue, and the task waits in    *)
(* the same way for room in the output queue or for the peer's window.     *)
(*                                                                         *)
(* The caller's token and the timeout are one event (`stopped').  Bytes    *)
(* are chunks; stderr, its truncation and the value of the exit status are *)
(* left out, a signal counts as an exit status.                            *)
(***************************************************************************)
EXTENDS Naturals, Sequences

CONSTANTS
    Chunks,         \* chunks of the local input
    InCap,          \* capacity of the input queue (4 in the code)
    OutCap,         \* capacity of the output queue (8 in the code)
    MaxOut          \* bound: chunks of output the command produces

ASSUME RawAssumption ==
    Chunks \in Nat /\ InCap \in Nat \ {0} /\ OutCap \in Nat \ {0} /\ MaxOut \in Nat

VARIABLES
    pc,             \* the call: opening, in its loop, in tx.send, leaving, gone
    stopped,        \* timed out or cancelled: operation_cancellation
    left,           \* chunks not yet read from the local input
    txOpen,         \* stdin_tx is there
    stdinDone, chanClosed, outClosed,     \* the three flags that end the loop
    written,        \* chunks written to the local output
    exit,           \* output.exit_code is there
    result,         \* what the call returns
    inq,            \* chunks in the input queue
    outq,           \* RawStreamEvents in the output queue
    task,           \* raw_channel_task
    ev, after,      \* the event it is sending, and what it does next
    sentClosed, stdinClosed,
    taskOk,         \* its result
    aborted,        \* JoinAbortGuard was dropped with the handle
    given,          \* chunks handed to the transport
    eofIn,          \* the peer was told that the input is over
    wire,           \* messages of the peer waiting in the channel
    outs, peerEof, peerExit, peerClosed,  \* what the peer has sent
    lost            \* the transport is gone

callVars == <<pc, stopped, left, txOpen, stdinDone, chanClosed, outClosed, written,
              exit, result>>
taskVars == <<task, ev, after, sentClosed, stdinClosed, taskOk>>
toPeer == <<given, eofIn>>
peerVars == <<outs, peerEof, peerExit, peerClosed, lost>>
vars == <<callVars, inq, outq, taskVars, aborted, toPeer, wire, peerVars>>

Events == {"data", "exit", "closed"}

TypeOK ==
    /\ pc \in {"open", "loop", "send", "unwind", "done"}
    /\ stopped \in BOOLEAN /\ left \in 0..Chunks /\ txOpen \in BOOLEAN
    /\ stdinDone \in BOOLEAN /\ chanClosed \in BOOLEAN /\ outClosed \in BOOLEAN
    /\ written \in Nat /\ exit \in BOOLEAN
    /\ result \in {"none", "ok", "err", "stopped"}
    /\ inq \in 0..InCap
    /\ outq \in Seq(Events) /\ Len(outq) <= OutCap
    /\ task \in {"none", "select", "data", "emit", "drain", "ended"}
    /\ ev \in Events /\ after \in {"select", "ok", "err"}
    /\ sentClosed \in BOOLEAN /\ stdinClosed \in BOOLEAN /\ taskOk \in BOOLEAN
    /\ aborted \in BOOLEAN
    /\ given \in 0..Chunks /\ eofIn \in BOOLEAN
    /\ wire \in Seq({"data", "exit", "eof", "close"})
    /\ outs \in 0..MaxOut /\ peerEof \in BOOLEAN /\ peerExit \in BOOLEAN
    /\ peerClosed \in BOOLEAN /\ lost \in BOOLEAN

Init ==
    /\ pc = "open" /\ stopped = FALSE /\ left = Chunks /\ txOpen = TRUE
    /\ stdinDone = FALSE /\ chanClosed = FALSE /\ outClosed = FALSE
    /\ written = 0 /\ exit = FALSE /\ result = "none"
    /\ inq = 0 /\ outq = <<>>
    /\ task = "none" /\ ev = "closed" /\ after = "select"
    /\ sentClosed = FALSE /\ stdinClosed = FALSE /\ taskOk = FALSE
    /\ aborted = FALSE
    /\ given = 0 /\ eofIn = FALSE
    /\ wire = <<>> /\ outs = 0 /\ peerEof = FALSE /\ peerExit = FALSE
    /\ peerClosed = FALSE /\ lost = FALSE

-----------------------------------------------------------------------------
(* The call *)

(* an outcome that comes after the stop is not returned *)
Outcome(o) == IF stopped THEN "stopped" ELSE o

(* the future is left: its locals are dropped, stdin_tx before the guard *)
Leave(o) ==
    /\ pc' = "unwind" /\ txOpen' = FALSE
    /\ result' = Outcome(o)

(* the channel is open and the command runs: the task is spawned *)
Opened ==
    /\ pc = "open"
    /\ pc' = "loop" /\ task' = "select"
    /\ UNCHANGED <<stopped, left, txOpen, stdinDone, chanClosed, outClosed, written,
                   exit, result, inq, outq, ev, after, sentClosed, stdinClosed,
                   taskOk, aborted, toPeer, wire, peerVars>>

OpenFails ==
    /\ pc = "open"
    /\ Leave("err")
    /\ UNCHANGED <<stopped, left, stdinDone, chanClosed, outClosed, written, exit,
                   inq, outq, taskVars, aborted, toPeer, wire, peerVars>>

(* a chunk, the end of the input, or an error of the local read *)
Read ==
    /\ pc = "loop" /\ ~stdinDone
    /\ \/ /\ left > 0
          /\ left' = left - 1 /\ pc' = "send"
          /\ UNCHANGED <<stdinDone, txOpen, result>>
       \/ /\ left = 0
          /\ stdinDone' = TRUE /\ txOpen' = FALSE
          /\ UNCHANGED <<left, pc, result>>
       \/ Leave("err") /\ UNCHANGED <<left, stdinDone>>
    /\ UNCHANGED <<stopped, chanClosed, outClosed, written, exit, inq, outq,
                   taskVars, aborted, toPeer, wire, peerVars>>

(* tx.send waits for room; it fails once the task has dropped stdin_rx *)
Send ==
    /\ pc = "send"
    /\ \/ /\ task # "ended" /\ inq < InCap
          /\ inq' = inq + 1 /\ pc' = "loop"
          /\ UNCHANGED <<txOpen, result>>
       \/ task = "ended" /\ Leave("err") /\ UNCHANGED inq
    /\ UNCHANGED <<stopped, left, stdinDone, chanClosed, outClosed, written, exit,
                   outq, taskVars, aborted, toPeer, wire, peerVars>>

(* out_rx.recv gives an event; the write to the local output may fail *)
Recv ==
    /\ pc = "loop" /\ outq # <<>>
    /\ outq' = Tail(outq)
    /\ \/ /\ written' = written + (IF Head(outq) = "data" THEN 1 ELSE 0)
          /\ exit' = (exit \/ Head(outq) = "exit")
          /\ chanClosed' = (chanClosed \/ Head(outq) = "closed")
          /\ UNCHANGED <<pc, txOpen, result>>
       \/ /\ Head(outq) = "data" /\ Leave("err")
          /\ UNCHANGED <<written, exit, chanClosed>>
    /\ UNCHANGED <<stopped, left, stdinDone, outClosed, inq, taskVars, aborted,
                   toPeer, wire, peerVars>>

RecvNone ==
    /\ pc = "loop" /\ outq = <<>> /\ task = "ended" /\ ~outClosed
    /\ outClosed' = TRUE
    /\ UNCHANGED <<pc, stopped, left, txOpen, stdinDone, chanClosed, written, exit,
                   result, inq, outq, taskVars, aborted, toPeer, wire, peerVars>>

(* the cancelled() branch of the loop *)
InputCancelled ==
    /\ pc = "loop" /\ stopped /\ ~stdinDone
    /\ stdinDone' = TRUE /\ txOpen' = FALSE
    /\ UNCHANGED <<pc, stopped, left, chanClosed, outClosed, written, exit, result,
                   inq, outq, taskVars, aborted, toPeer, wire, peerVars>>

(* the loop is over: flush, then the result of the joined task *)
FinishIf(over) ==
    /\ pc = "loop" /\ over /\ task = "ended"
    /\ pc' = "done"
    /\ result' = Outcome(IF taskOk THEN "ok" ELSE "err")
    /\ UNCHANGED <<stopped, left, txOpen, stdinDone, chanClosed, outClosed, written,
                   exit, inq, outq, taskVars, aborted, toPeer, wire, peerVars>>

(* Mutant: the loop ends with the Closed event *)
FinishAtClosed == FinishIf(stdinDone /\ chanClosed)

Finish == FinishIf(stdinDone /\ chanClosed /\ outClosed)

FlushFails ==
    /\ pc = "loop" /\ stdinDone /\ chanClosed /\ outClosed
    /\ Leave("err")
    /\ UNCHANGED <<stopped, left, stdinDone, chanClosed, outClosed, written, exit,
                   inq, outq, taskVars, aborted, toPeer, wire, peerVars>>

(* the timeout or the caller's token: operation_cancellation.cancel() *)
Stop ==
    /\ pc \in {"open", "loop", "send"} /\ ~stopped
    /\ stopped' = TRUE
    /\ UNCHANGED <<pc, left, txOpen, stdinDone, chanClosed, outClosed, written, exit,
                   result, inq, outq, taskVars, aborted, toPeer, wire, peerVars>>

(* CHANNEL_TEARDOWN_GRACE is over and the future is dropped *)
GraceElapsesIf(cut) ==
    /\ pc \in {"open", "loop", "send"} /\ stopped /\ cut
    /\ Leave("stopped")
    /\ UNCHANGED <<stopped, left, stdinDone, chanClosed, outClosed, written, exit,
                   inq, outq, taskVars, aborted, toPeer, wire, peerVars>>

(* Mutant: the teardown is awaited without a limit once the channel is open *)
GraceWhileOpening == GraceElapsesIf(pc = "open")

GraceElapses == GraceElapsesIf(TRUE)

(* JoinAbortGuard::drop with the handle still in it *)
UnwindWith(abort) ==
    /\ pc = "unwind"
    /\ pc' = "done" /\ aborted' = abort
    /\ UNCHANGED <<stopped, left, txOpen, stdinDone, chanClosed, outClosed, written,
                   exit, result, inq, outq, taskVars, toPeer, wire, peerVars>>

(* Mutant: the handle is only detached *)
UnwindDetached == UnwindWith(FALSE)

Unwind == UnwindWith(TRUE)

-----------------------------------------------------------------------------
(* raw_channel_task *)

End(good) == task' = "ended" /\ taskOk' = good

(* start to send event e, then go on as a says *)
Emit(e, a) == task' = "emit" /\ ev' = e /\ after' = a /\ UNCHANGED taskOk

TaskAborted ==
    /\ aborted /\ task \notin {"none", "ended"}
    /\ End(FALSE)
    /\ UNCHANGED <<callVars, inq, outq, ev, after, sentClosed, stdinClosed, aborted,
                   toPeer, wire, peerVars>>

(* cancelled(): eof and close are sent, what arrives is thrown away *)
TaskCancelled ==
    /\ task = "select" /\ stopped
    /\ task' = "drain" /\ eofIn' = TRUE
    /\ UNCHANGED <<callVars, inq, outq, ev, after, sentClosed, stdinClosed, taskOk,
                   aborted, given, wire, peerVars>>

(* until Close or for two seconds *)
TaskDrained ==
    /\ task = "drain"
    /\ IF sentClosed THEN End(FALSE) /\ UNCHANGED <<ev, after>>
                     ELSE Emit("closed", "err")
    /\ UNCHANGED <<callVars, inq, outq, sentClosed, stdinClosed, aborted, toPeer,
                   wire, peerVars>>

TaskTakesChunk ==
    /\ task = "select" /\ ~stdinClosed /\ inq > 0
    /\ inq' = inq - 1 /\ task' = "data"
    /\ UNCHANGED <<callVars, outq, ev, after, sentClosed, stdinClosed, taskOk,
                   aborted, toPeer, wire, peerVars>>

(* stdin_rx.recv gives None: the sender is gone and the queue is empty *)
TaskInputOverIf(drained) ==
    /\ task = "select" /\ ~stdinClosed /\ ~txOpen /\ drained
    /\ stdinClosed' = TRUE /\ eofIn' = TRUE
    /\ UNCHANGED <<callVars, inq, outq, task, ev, after, sentClosed, taskOk, aborted,
                   given, wire, peerVars>>

(* Mutant: EOF as soon as the sender is gone *)
TaskInputOverEarly == TaskInputOverIf(TRUE)

TaskInputOver == TaskInputOverIf(inq = 0)

(* channel.data: waits for the peer's window, fails on a lost transport;   *)
(* then no Closed event is sent                                            *)
TaskData ==
    /\ task = "data"
    /\ \/ ~lost /\ given' = given + 1 /\ task' = "select" /\ UNCHANGED taskOk
       \/ lost /\ End(FALSE) /\ UNCHANGED given
    /\ UNCHANGED <<callVars, inq, outq, ev, after, sentClosed, stdinClosed, aborted,
                   eofIn, wire, peerVars>>

(* channel.wait gives a message: Eof and Close make one Closed event       *)
TaskMessageLeaving(rest) ==
    /\ task = "select" /\ wire # <<>>
    /\ wire' = rest
    /\ LET e == CASE Head(wire) \in {"data", "exit"} -> Head(wire)
                  [] OTHER -> "closed"
       IN  IF e = "closed" /\ sentClosed
           THEN UNCHANGED <<task, ev, after, taskOk, sentClosed>>
           ELSE Emit(e, "select") /\ sentClosed' = (sentClosed \/ e = "closed")
    /\ UNCHANGED <<callVars, inq, outq, stdinClosed, aborted, toPeer, peerVars>>

TaskMessage == TaskMessageLeaving(Tail(wire))

(* channel.wait gives None: the channel is closed or its transport is gone *)
TaskChannelOver ==
    /\ task = "select" /\ wire = <<>> /\ (peerClosed \/ lost)
    /\ IF sentClosed THEN End(TRUE) /\ UNCHANGED <<ev, after>>
                     ELSE Emit("closed", "ok")
    /\ UNCHANGED <<callVars, inq, outq, sentClosed, stdinClosed, aborted, toPeer,
                   wire, peerVars>>

(* out_tx.send finds room *)
TaskEmits ==
    /\ task = "emit" /\ Len(outq) < OutCap
    /\ outq' = Append(outq, ev)
    /\ IF after = "select" THEN task' = "select" /\ UNCHANGED taskOk
                           ELSE End(after = "ok")
    /\ UNCHANGED <<callVars, inq, ev, after, sentClosed, stdinClosed, aborted,
                   toPeer, wire, peerVars>>

-----------------------------------------------------------------------------
(* The peer *)

PeerSends(m) ==
    /\ task # "none" /\ ~lost /\ ~peerClosed
    /\ wire' = Append(wire, m)
    /\ m = "data" => outs < MaxOut /\ ~peerEof
    /\ m = "eof" => ~peerEof
    /\ m = "exit" => ~peerExit
    /\ outs' = outs + (IF m = "data" THEN 1 ELSE 0)
    /\ peerEof' = (peerEof \/ m = "eof")
    /\ peerExit' = (peerExit \/ m = "exit")
    /\ peerClosed' = (m = "close")
    /\ UNCHANGED <<callVars, inq, outq, taskVars, aborted, toPeer, lost>>

TransportLost ==
    /\ ~lost
    /\ lost' = TRUE
    /\ UNCHANGED <<callVars, inq, outq, taskVars, aborted, toPeer, wire, outs,
                   peerEof, peerExit, peerClosed>>

Call == \/ Opened \/ OpenFails \/ Read \/ Send \/ Recv \/ RecvNone
        \/ InputCancelled \/ Finish \/ FlushFails \/ Unwind
Task == \/ TaskAborted \/ TaskCancelled \/ TaskDrained \/ TaskTakesChunk
        \/ TaskInputOver \/ TaskData \/ TaskMessage \/ TaskChannelOver \/ TaskEmits
Next == \/ Call \/ Stop \/ GraceElapses \/ Task
        \/ \E m \in {"data", "exit", "eof", "close"} : PeerSends(m)
        \/ TransportLost

Spec == Init /\ [][Next]_vars

(* The timeout, the grace and the two seconds of the drain are timers, and *)
(* Tokio polls what is ready.  Nothing is assumed of the peer, which may   *)
(* say nothing and take nothing for ever.                                  *)
FairSpec ==
    /\ Spec
    /\ WF_vars(Stop) /\ WF_vars(GraceElapses) /\ WF_vars(Unwind)
    /\ WF_vars(TaskAborted) /\ WF_vars(TaskDrained)

-----------------------------------------------------------------------------
(* Properties *)

(* A call that succeeds has written every chunk the command produced and   *)
(* has the exit status the peer sent, also when that came after EOF: no    *)
(* event is left in the channel or in the queue.  Only a lost transport    *)
(* may cut the output short.                                               *)
OkMeansDrained ==
    result = "ok" =>
        /\ wire = <<>> /\ outq = <<>> /\ task = "ended"
        /\ ~lost => written = outs /\ exit = peerExit

(* The peer is told that the input is over only when it was given all of   *)
(* it, unless the call was stopped or failed: then the cut input may well  *)
(* be followed by an EOF (see the partial put_dir in Staging).             *)
EofMeansAll ==
    eofIn => given = Chunks \/ stopped \/ result = "err"

(* The call returns and its channel task ends, however the two queues, the *)
(* peer's window and the peer's silence have left them waiting for each    *)
(* other.                                                                  *)
StreamEnds == pc = "open" ~> (pc = "done" /\ task \in {"none", "ended"})
=============================================================================
