---------------------------- MODULE RouterosExec ----------------------------
(***************************************************************************)
(* exec_routeros_command of src/ssh/routeros.rs: one native EXEC per       *)
(* request, never wrapped and never replayed.  A spawned owner task holds  *)
(* the command slot, the pending OPEN and the channel until they are       *)
(* cleaned up; the caller's future only waits for the owner's single       *)
(* answer and may be dropped at any time.                                  *)
(*                                                                         *)
(* A stop is a deadline, a cancellation or a dropped caller (`stopped') or *)
(* the manager's shutdown (`shutting'); which of them is named in the      *)
(* answer's text is left out, and so are the bytes of the output.          *)
(***************************************************************************)
EXTENDS Naturals, FiniteSets

CONSTANTS
    Reqs,           \* the requests; each is made once
    Slots,          \* capacity of channel_semaphore
    MaxFaults,      \* bound: transports that die by themselves
    NoReq           \* nobody holds the session mutex

ASSUME RouterosAssumption ==
    /\ Slots \in Nat \ {0}
    /\ MaxFaults \in Nat
    /\ NoReq \notin Reqs

VARIABLES
    current,        \* generation of the installed route, 0 if none
    highest,        \* latest generation installed
    dead,           \* the installed route's transport is closed
    shutting,       \* shutdown_token
    session,        \* holder of the session mutex: it is held across an OPEN
    permits,        \* free command slots
    stopped,        \* the request's own token or deadline
    pc,             \* where the owner task is
    opn,            \* generation captured by the owner's OPEN, 0 before
    chan,           \* the request's channel at the peer
    exec,           \* the EXEC request at the peer
    status, signal, \* Collector: exit_code, exit_signal
    mayRun,         \* Collector: may_have_run
    result,         \* Collector's verdict
    answer,         \* what send_result sent to the caller
    unclosed,       \* the close budget ran out before the close was queued
    faults

routeVars == <<current, highest, dead, shutting>>
collector == <<status, signal, mayRun, result>>
vars == <<routeVars, session, permits, stopped, pc, opn, chan, exec, collector,
          answer, unclosed, faults>>

Pcs == {"new", "slot", "connect", "ready", "open", "opened", "run", "close",
        "retire", "done"}

SlotPcs == {"connect", "ready", "open", "opened", "run", "close", "retire"}

TypeOK ==
    /\ current \in Nat /\ highest \in Nat /\ current <= highest
    /\ dead \in BOOLEAN /\ shutting \in BOOLEAN
    /\ session \in Reqs \cup {NoReq}
    /\ permits \in 0..Slots
    /\ stopped \in [Reqs -> BOOLEAN]
    /\ pc \in [Reqs -> Pcs]
    /\ opn \in [Reqs -> Nat]
    /\ chan \in [Reqs -> {"none", "requested", "open", "closed"}]
    /\ exec \in [Reqs -> {"no", "queued", "started", "rejected"}]
    /\ status \in [Reqs -> BOOLEAN] /\ signal \in [Reqs -> BOOLEAN]
    /\ mayRun \in [Reqs -> BOOLEAN]
    /\ result \in [Reqs -> {"none", "ok", "err"}]
    /\ answer \in [Reqs -> {"none", "ok", "may_have_run", "not_started"}]
    /\ unclosed \in [Reqs -> BOOLEAN]
    /\ faults \in 0..MaxFaults

Init ==
    /\ current = 0 /\ highest = 0 /\ dead = FALSE /\ shutting = FALSE
    /\ session = NoReq
    /\ permits = Slots
    /\ stopped = [r \in Reqs |-> FALSE]
    /\ pc = [r \in Reqs |-> "new"]
    /\ opn = [r \in Reqs |-> 0]
    /\ chan = [r \in Reqs |-> "none"]
    /\ exec = [r \in Reqs |-> "no"]
    /\ status = [r \in Reqs |-> FALSE] /\ signal = [r \in Reqs |-> FALSE]
    /\ mayRun = [r \in Reqs |-> FALSE]
    /\ result = [r \in Reqs |-> "none"]
    /\ answer = [r \in Reqs |-> "none"]
    /\ unclosed = [r \in Reqs |-> FALSE]
    /\ faults = 0

-----------------------------------------------------------------------------
(* Helpers *)

(* Mutant: the request's own deadline is not a reason to stop *)
StoppedByShutdown(r) == shutting

(* RequestStop::reason *)
Stopped(r) == shutting \/ stopped[r]

(* the transport the request's channel lives on is the installed, live one *)
Carried(r) == opn[r] # 0 /\ opn[r] = current /\ ~dead

Goto(r, p) == pc' = [pc EXCEPT ![r] = p]

(* send_result: the sender is taken by the first answer *)
SendResult(r, a) ==
    answer' = IF answer[r] = "none" THEN [answer EXCEPT ![r] = a] ELSE answer

(* the owner returns: its permit is dropped last *)
Return(r) == Goto(r, "done") /\ permits' = permits + 1

Drop(r) == session' = IF session = r THEN NoReq ELSE session

-----------------------------------------------------------------------------
(* The owner task *)

(* exec_routeros_with_open_budget spawns the owner *)
Call(r) ==
    /\ pc[r] = "new"
    /\ Goto(r, "slot")
    /\ UNCHANGED <<routeVars, session, permits, stopped, opn, chan, exec, collector,
                   answer, unclosed, faults>>

(* the wait for the slot; a stop ends it without a permit *)
AcquireSlotOr(r, freed) ==
    /\ pc[r] = "slot"
    /\ \/ /\ ~Stopped(r) /\ permits > 0
          /\ permits' = permits - 1
          /\ Goto(r, "connect")
          /\ UNCHANGED answer
       \/ /\ Stopped(r)
          /\ SendResult(r, "not_started")
          /\ Goto(r, "done")
          /\ permits' = permits + freed
    /\ UNCHANGED <<routeVars, session, stopped, opn, chan, exec, collector, unclosed,
                   faults>>

AcquireSlot(r) == AcquireSlotOr(r, 0)

(* ensure_connected_transport_only finds the route up or establishes one *)
Connect(r) ==
    /\ pc[r] = "connect"
    /\ ~Stopped(r)
    /\ session = NoReq
    /\ IF current # 0 /\ ~dead
       THEN UNCHANGED <<current, highest, dead>>
       ELSE current' = highest + 1 /\ highest' = highest + 1 /\ dead' = FALSE
    /\ Goto(r, "ready")
    /\ UNCHANGED <<shutting, session, permits, stopped, opn, chan, exec, collector,
                   answer, unclosed, faults>>

(* it fails, or a stop ends it *)
ConnectFails(r) ==
    /\ pc[r] = "connect"
    /\ SendResult(r, "not_started")
    /\ Return(r)
    /\ UNCHANGED <<routeVars, session, stopped, opn, chan, exec, collector, unclosed,
                   faults>>

(* the check before the OPEN *)
CheckReady(r) ==
    /\ pc[r] = "ready"
    /\ IF Stopped(r)
       THEN SendResult(r, "not_started") /\ Return(r)
       ELSE Goto(r, "open") /\ UNCHANGED <<permits, answer>>
    /\ UNCHANGED <<routeVars, session, stopped, opn, chan, exec, collector, unclosed,
                   faults>>

(* open_channel_attempt_detailed gets the session mutex: it captures the   *)
(* generation and queues the OPEN, or fails on a missing or closed route   *)
OpenSession(r) ==
    /\ pc[r] = "open" /\ opn[r] = 0
    /\ session = NoReq
    /\ IF shutting \/ current = 0 \/ dead
       THEN /\ SendResult(r, "not_started")
            /\ Return(r)
            /\ UNCHANGED <<session, opn, chan>>
       ELSE /\ session' = r
            /\ opn' = [opn EXCEPT ![r] = current]
            /\ chan' = [chan EXCEPT ![r] = "requested"]
            /\ UNCHANGED <<pc, permits, answer>>
    /\ UNCHANGED <<routeVars, stopped, exec, collector, unclosed, faults>>

(* Mutant: the owner returns with the answer and abandons the OPEN *)
AbandonOpen(r) ==
    /\ pc[r] = "open" /\ Stopped(r) /\ answer[r] = "none"
    /\ SendResult(r, "not_started")
    /\ Drop(r)
    /\ Return(r)
    /\ UNCHANGED <<routeVars, stopped, opn, chan, exec, collector, unclosed, faults>>

(* the stop wins while the OPEN is pending: the request is answered, the   *)
(* owner goes on awaiting the OPEN                                         *)
StopDuringOpen(r) ==
    /\ pc[r] = "open" /\ Stopped(r) /\ answer[r] = "none"
    /\ SendResult(r, "not_started")
    /\ UNCHANGED <<routeVars, session, permits, stopped, pc, opn, chan, exec,
                   collector, unclosed, faults>>

OpenConfirmed(r) ==
    /\ pc[r] = "open" /\ session = r /\ chan[r] = "open"
    /\ Goto(r, "opened")
    /\ Drop(r)
    /\ UNCHANGED <<routeVars, permits, stopped, opn, chan, exec, collector, answer,
                   unclosed, faults>>

(* the peer refuses the OPEN, or its transport is gone *)
OpenFails(r) ==
    /\ pc[r] = "open" /\ session = r
    /\ chan[r] = "requested" \/ ~Carried(r)
    /\ chan' = [chan EXCEPT ![r] = "closed"]
    /\ Drop(r)
    /\ SendResult(r, "not_started")
    /\ Return(r)
    /\ UNCHANGED <<routeVars, stopped, opn, exec, collector, unclosed, faults>>

(* BudgetElapsed, on the mutex (nothing captured) or on the OPEN itself    *)
OpenBudgetElapsesIf(r, armed) ==
    /\ pc[r] = "open" /\ armed
    /\ Drop(r)
    /\ SendResult(r, "not_started")
    /\ IF opn[r] = 0
       THEN Return(r)
       ELSE Goto(r, "retire") /\ UNCHANGED permits
    /\ UNCHANGED <<routeVars, stopped, opn, chan, exec, collector, unclosed, faults>>

(* Mutant: once the request is answered the OPEN is awaited without budget *)
OpenBudgetUnlessAnswered(r) == OpenBudgetElapsesIf(r, answer[r] = "none")

OpenBudgetElapses(r) == OpenBudgetElapsesIf(r, TRUE)

(* invalidate_session_for_generation with the captured generation *)
RetireIf(r, matches) ==
    /\ pc[r] = "retire" /\ session = NoReq
    /\ IF matches
       THEN current' = 0 /\ dead' = FALSE
       ELSE UNCHANGED <<current, dead>>
    /\ Return(r)
    /\ UNCHANGED <<highest, shutting, session, stopped, opn, chan, exec, collector,
                   answer, unclosed, faults>>

(* Mutant: retires whatever route is installed *)
RetireInstalled(r) == RetireIf(r, current # 0)

Retire(r) == RetireIf(r, current = opn[r])

Verdict(r, v) == result' = [result EXCEPT ![r] = v] /\ Goto(r, "close")

(* the channel is there: another look at the stop, then the EXEC, whose    *)
(* queueing is one cancellation-safe send                                  *)
ExecUnless(r, stop) ==
    /\ pc[r] = "opened"
    /\ IF ~stop /\ Carried(r)
       THEN /\ exec' = [exec EXCEPT ![r] = "queued"]
            /\ mayRun' = [mayRun EXCEPT ![r] = TRUE]
            /\ Goto(r, "run")
            /\ UNCHANGED result
       ELSE /\ Verdict(r, "err")
            /\ UNCHANGED <<exec, mayRun>>
    /\ UNCHANGED <<routeVars, session, permits, stopped, opn, chan, status, signal,
                   answer, unclosed, faults>>

(* Mutant: the stop is not looked at again once the channel is there *)
ExecAnyway(r) == ExecUnless(r, FALSE)

Exec(r) == ExecUnless(r, Stopped(r))

(* Collector::event: ExitStatus and ExitSignal *)
EventExit(r) ==
    /\ pc[r] = "run" /\ ~Stopped(r)
    /\ exec[r] = "started" /\ Carried(r)
    /\ \/ ~status[r] /\ status' = [status EXCEPT ![r] = TRUE] /\ UNCHANGED signal
       \/ ~signal[r] /\ signal' = [signal EXCEPT ![r] = TRUE] /\ UNCHANGED status
    /\ UNCHANGED <<routeVars, session, permits, stopped, pc, opn, chan, exec, mayRun,
                   result, answer, unclosed, faults>>

(* Collector::event: Failure *)
EventFailure(r) ==
    /\ pc[r] = "run" /\ ~Stopped(r)
    /\ exec[r] = "rejected"
    /\ mayRun' = [mayRun EXCEPT ![r] = FALSE]
    /\ Verdict(r, "err")
    /\ UNCHANGED <<routeVars, session, permits, stopped, opn, chan, exec, status,
                   signal, answer, unclosed, faults>>

(* Collector::event: Close is a success only after a plain exit status *)
EventCloseIf(r, good) ==
    /\ pc[r] = "run" /\ ~Stopped(r)
    /\ exec[r] # "rejected" /\ Carried(r)
    /\ Verdict(r, IF good THEN "ok" ELSE "err")
    /\ chan' = [chan EXCEPT ![r] = "closed"]
    /\ UNCHANGED <<routeVars, session, permits, stopped, opn, exec, status, signal,
                   mayRun, answer, unclosed, faults>>

(* Mutant: a signal is overlooked once a status has arrived *)
EventCloseOnStatus(r) == EventCloseIf(r, status[r])

(* Mutant: a command whose channel is closed without a status is sent again *)
EventCloseResending(r) ==
    \/ status[r] /\ EventCloseIf(r, ~signal[r])
    \/ /\ ~status[r] /\ pc[r] = "run" /\ ~Stopped(r) /\ Carried(r)
       /\ exec[r] # "rejected" /\ exec' = [exec EXCEPT ![r] = "queued"]
       /\ UNCHANGED <<routeVars, session, permits, stopped, pc, opn, chan, collector,
                      answer, unclosed, faults>>

EventClose(r) == EventCloseIf(r, status[r] /\ ~signal[r])

(* a stop, or the channel ends without Close *)
RunEnds(r) ==
    /\ pc[r] = "run"
    /\ Stopped(r) \/ ~Carried(r)
    /\ Verdict(r, "err")
    /\ UNCHANGED <<routeVars, session, permits, stopped, opn, chan, exec, status,
                   signal, mayRun, answer, unclosed, faults>>

(* close_channel within CLOSE_BUDGET, then finish and send_result *)
CloseChannel(r) ==
    /\ pc[r] = "close"
    /\ \/ chan' = [chan EXCEPT ![r] = "closed"] /\ UNCHANGED unclosed
       \/ unclosed' = [unclosed EXCEPT ![r] = TRUE] /\ UNCHANGED chan
    /\ SendResult(r, CASE result[r] = "ok" -> "ok"
                       [] result[r] = "err" /\ mayRun[r] -> "may_have_run"
                       [] OTHER -> "not_started")
    /\ Return(r)
    /\ UNCHANGED <<routeVars, session, stopped, opn, exec, collector, faults>>

-----------------------------------------------------------------------------
(* The caller, the manager and the peer *)

(* the deadline passes, the call is cancelled, or its future is dropped    *)
RequestStops(r) ==
    /\ pc[r] # "new" /\ ~stopped[r]
    /\ stopped' = [stopped EXCEPT ![r] = TRUE]
    /\ UNCHANGED <<routeVars, session, permits, pc, opn, chan, exec, collector,
                   answer, unclosed, faults>>

(* begin_shutdown, and close taking the route *)
Shutdown ==
    /\ \/ ~shutting /\ shutting' = TRUE /\ UNCHANGED <<current, dead>>
       \/ /\ shutting /\ current # 0 /\ session = NoReq
          /\ current' = 0 /\ dead' = FALSE /\ UNCHANGED shutting
    /\ UNCHANGED <<highest, session, permits, stopped, pc, opn, chan, exec, collector,
                   answer, unclosed, faults>>

RouteDies ==
    /\ current # 0 /\ ~dead /\ faults < MaxFaults
    /\ dead' = TRUE
    /\ faults' = faults + 1
    /\ UNCHANGED <<current, highest, shutting, session, permits, stopped, pc, opn,
                   chan, exec, collector, answer, unclosed>>

(* the peer confirms an OPEN, however late *)
PeerConfirms(r) ==
    /\ chan[r] = "requested" /\ Carried(r)
    /\ chan' = [chan EXCEPT ![r] = "open"]
    /\ UNCHANGED <<routeVars, session, permits, stopped, pc, opn, exec, collector,
                   answer, unclosed, faults>>

(* the peer acts on a queued EXEC; it may be in flight when the client is  *)
(* already gone                                                            *)
PeerExecs(r) ==
    /\ exec[r] = "queued"
    /\ \E e \in {"started", "rejected"} : exec' = [exec EXCEPT ![r] = e]
    /\ UNCHANGED <<routeVars, session, permits, stopped, pc, opn, chan, collector,
                   answer, unclosed, faults>>

(* every request is answered and every owner has returned *)
AllDone ==
    /\ \A r \in Reqs : pc[r] = "done"
    /\ UNCHANGED vars

Owner(r) ==
    \/ AcquireSlot(r) \/ Connect(r) \/ ConnectFails(r) \/ CheckReady(r)
    \/ OpenSession(r) \/ StopDuringOpen(r) \/ OpenConfirmed(r) \/ OpenFails(r)
    \/ Retire(r) \/ Exec(r) \/ EventExit(r) \/ EventFailure(r) \/ EventClose(r)
    \/ RunEnds(r) \/ CloseChannel(r)

Next ==
    \/ \E r \in Reqs : \/ Call(r) \/ Owner(r) \/ OpenBudgetElapses(r)
                       \/ RequestStops(r) \/ PeerConfirms(r) \/ PeerExecs(r)
    \/ Shutdown \/ RouteDies \/ AllDone

Spec == Init /\ [][Next]_vars

(* Tokio polls a ready task; the deadline and the OPEN budget are timers.  *)
(* Nothing is assumed of the peer, and nothing of an attempt to connect.   *)
FairSpec ==
    /\ Spec
    /\ \A r \in Reqs :
         /\ WF_vars(AcquireSlot(r)) /\ WF_vars(ConnectFails(r) /\ Stopped(r))
         /\ WF_vars(CheckReady(r)) /\ WF_vars(StopDuringOpen(r))
         /\ WF_vars(OpenConfirmed(r)) /\ SF_vars(Retire(r)) /\ WF_vars(Exec(r))
         /\ WF_vars(RunEnds(r)) /\ WF_vars(CloseChannel(r))
         /\ WF_vars(OpenBudgetElapses(r)) /\ WF_vars(RequestStops(r))

-----------------------------------------------------------------------------
(* Properties *)

(* failure_result tells the user "Command not started" only for a command  *)
(* the router did not run and never will: no EXEC of it is at the peer or  *)
(* on its way, whatever order the stop, the confirmation of the OPEN and   *)
(* the answer come in.                                                     *)
NotStartedIsTrue ==
    \A r \in Reqs : answer[r] = "not_started" => exec[r] \in {"no", "rejected"}

(* A success is reported only for a command that ran and whose exit status *)
(* arrived; a signal, a lost status or a lost channel is never a success.  *)
OkMeansExited ==
    \A r \in Reqs : answer[r] = "ok" =>
        exec[r] = "started" /\ status[r] /\ ~signal[r]

(* The two answers a caller acts upon are true: "not started" may be tried  *)
(* again, a success is final.                                              *)
AnswersAreTrue == NotStartedIsTrue /\ OkMeansExited

(* What the caller concludes from the owner's answer. *)
Concluded(r) ==
    CASE answer[r] = "ok" -> "done"
      [] answer[r] = "may_have_run" -> "unknown"
      [] answer[r] = "not_started" -> "never"
      [] OTHER -> "none"

Request == INSTANCE AtMostOnce WITH
    Calls <- Reqs,
    happened <- {r \in Reqs : exec[r] = "started"},
    verdict <- [r \in Reqs |-> Concluded(r)]

(* exec_routeros_command implements AtMostOnce: the router runs a command   *)
(* once, the answer is sent once and stays true, although the owner goes on *)
(* after it, the OPEN may be confirmed late and an EXEC may be in flight.   *)
ImplementsAtMostOnce == Request!Spec

(* An OPEN that is pending or a channel that is open on the live route     *)
(* still has an owner with its slot, unless its close did not get out in   *)
(* time: neither a dropped caller nor a late confirmation leaves a channel *)
(* behind that the slots do not count.                                     *)
ChannelsOwned ==
    \A r \in Reqs : chan[r] \in {"requested", "open"} /\ Carried(r) =>
        pc[r] \in SlotPcs \/ unclosed[r]

(* A route goes away because it died, because of shutdown, or because an   *)
(* OPEN on that very route stayed unresolved: an old request never retires *)
(* a newer route.                                                          *)
OnlyUnresolvedRetires ==
    [][current # 0 /\ current' = 0 /\ ~shutting =>
         \E r \in Reqs : /\ opn[r] = current /\ pc[r] = "retire"
                         /\ chan[r] \in {"requested", "open"}]_vars

(* Every request is answered and its slot comes back, with a silent peer   *)
(* and a stuck OPEN of somebody else too.                                  *)
RequestsSettle ==
    \A r \in Reqs : pc[r] = "slot" ~> (answer[r] # "none" /\ pc[r] = "done")
=============================================================================
