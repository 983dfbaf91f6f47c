------------------------- MODULE RouterosExecProofs -------------------------
(***************************************************************************)
(* The safety of RouterosExec for any set of requests and any number of    *)
(* slots and faults.  What makes the properties inductive: the slots are   *)
(* the permits and the owners that have one; and at each place of the      *)
(* owner, what it may already have told its caller and asked of the peer.  *)
(***************************************************************************)
EXTENDS RouterosExec, FiniteSetTheorems, TLAPS

Holders == {r \in Reqs : pc[r] \in SlotPcs}

(* The part of TypeOK about flags. *)
FlagsOK ==
    /\ dead \in BOOLEAN /\ shutting \in BOOLEAN
    /\ stopped \in [Reqs -> BOOLEAN] /\ status \in [Reqs -> BOOLEAN]
    /\ signal \in [Reqs -> BOOLEAN] /\ mayRun \in [Reqs -> BOOLEAN]
    /\ unclosed \in [Reqs -> BOOLEAN]

(* Permits and holders together are the slots. *)
SlotInv == IsFiniteSet(Holders) /\ permits + Cardinality(Holders) = Slots

(* Before the EXEC nothing ran; whoever was answered early has stopped. *)
BeforeExec(r) ==
    /\ pc[r] \in {"new", "slot", "connect", "ready"} => opn[r] = 0 /\ answer[r] = "none"
    /\ pc[r] \notin {"run", "close", "done"} => exec[r] = "no"
    /\ pc[r] \in {"open", "opened"} /\ answer[r] # "none" => Stopped(r)

(* A pending OPEN has its channel at the peer, and a generation once installed. *)
OpenInv(r) ==
    /\ opn[r] <= highest
    /\ pc[r] = "retire" \/ (pc[r] = "open" /\ opn[r] # 0) =>
          chan[r] \in {"requested", "open"}

(* may_have_run follows the EXEC, and the verdict what was collected. *)
CollectInv(r) ==
    /\ exec[r] = "no" => ~mayRun[r]
    /\ pc[r] \notin {"close", "done"} => result[r] = "none"
    /\ pc[r] = "run" => exec[r] # "no" /\ mayRun[r] /\ answer[r] = "none"
    /\ pc[r] = "close" =>
          \/ exec[r] = "no" /\ result[r] = "err"
          \/ /\ answer[r] = "none" /\ result[r] # "none"
             /\ mayRun[r] \/ exec[r] = "rejected"
    /\ status[r] => exec[r] = "started"
    /\ result[r] = "ok" => status[r] /\ ~signal[r]

(* What the caller has been told is true. *)
AnswerInv(r) ==
    /\ answer[r] = "not_started" => exec[r] \in {"no", "rejected"}
    /\ answer[r] = "ok" => exec[r] = "started" /\ status[r] /\ ~signal[r]

ChannelInv(r) ==
    chan[r] \in {"requested", "open"} /\ Carried(r) => pc[r] \in SlotPcs \/ unclosed[r]

RequestInv ==
    \A r \in Reqs :
        BeforeExec(r) /\ OpenInv(r) /\ CollectInv(r) /\ AnswerInv(r) /\ ChannelInv(r)

IndInv == TypeOK /\ SlotInv /\ RequestInv

-----------------------------------------------------------------------------

(* The initial states: all slots are free, nothing was asked or answered. *)
LEMMA InitHolds == Init => IndInv
<1> SUFFICES ASSUME Init PROVE IndInv
  OBVIOUS
<1>1. TypeOK
  <2>1. /\ stopped \in [Reqs -> BOOLEAN] /\ status \in [Reqs -> BOOLEAN]
        /\ signal \in [Reqs -> BOOLEAN] /\ mayRun \in [Reqs -> BOOLEAN]
        /\ unclosed \in [Reqs -> BOOLEAN] /\ dead \in BOOLEAN /\ shutting \in BOOLEAN
    BY Zenon DEF Init
  <2>2. /\ current \in Nat /\ highest \in Nat /\ current <= highest
        /\ session \in Reqs \cup {NoReq}
        /\ permits \in 0..Slots /\ faults \in 0..MaxFaults
    BY RouterosAssumption DEF Init
  <2>3. /\ pc \in [Reqs -> Pcs] /\ opn \in [Reqs -> Nat]
        /\ chan \in [Reqs -> {"none", "requested", "open", "closed"}]
        /\ exec \in [Reqs -> {"no", "queued", "started", "rejected"}]
        /\ result \in [Reqs -> {"none", "ok", "err"}]
        /\ answer \in [Reqs -> {"none", "ok", "may_have_run", "not_started"}]
    BY DEF Init, Pcs
  <2> QED BY <2>1, <2>2, <2>3 DEF TypeOK
<1>2. SlotInv
  <2>1. Holders = {}
    BY DEF Init, Holders, SlotPcs
  <2> QED BY <2>1, FS_EmptySet, RouterosAssumption DEF SlotInv, Init
<1>3. RequestInv
  BY DEF Init, RequestInv, BeforeExec, OpenInv, CollectInv, AnswerInv, ChannelInv, Carried
<1> QED BY <1>1, <1>2, <1>3 DEF IndInv

(* A step within the places with a slot, or within those without. *)
LEMMA SlotKept ==
    ASSUME IndInv, NEW r \in Reqs, NEW p \in Pcs,
           pc' = [pc EXCEPT ![r] = p], pc[r] \in SlotPcs <=> p \in SlotPcs,
           permits' = permits
    PROVE  SlotInv' /\ permits' \in 0..Slots
<1>1. Holders' = Holders
  BY DEF Holders, IndInv, TypeOK
<1> QED BY <1>1 DEF SlotInv, IndInv, TypeOK

(* Taking a permit. *)
LEMMA SlotTaken ==
    ASSUME IndInv, NEW r \in Reqs, NEW p \in SlotPcs,
           pc' = [pc EXCEPT ![r] = p], pc[r] \notin SlotPcs,
           permits > 0, permits' = permits - 1
    PROVE  SlotInv' /\ permits' \in 0..Slots
<1>1. Holders' = Holders \cup {r} /\ r \notin Holders
  BY DEF Holders, IndInv, TypeOK
<1>2. IsFiniteSet(Holders') /\ Cardinality(Holders') = Cardinality(Holders) + 1
  BY <1>1, FS_AddElement DEF IndInv, SlotInv
<1>3. Cardinality(Holders) \in Nat
  BY FS_CardinalityType DEF IndInv, SlotInv
<1> QED BY <1>2, <1>3, RouterosAssumption DEF SlotInv, IndInv, TypeOK

(* Giving it back: there was a holder, so the permits stay below the slots. *)
LEMMA SlotFreed ==
    ASSUME IndInv, NEW r \in Reqs, pc[r] \in SlotPcs, Return(r)
    PROVE  SlotInv' /\ permits' \in 0..Slots
<1>1. Holders' = Holders \ {r} /\ r \in Holders
  BY DEF Holders, IndInv, TypeOK, Return, Goto, SlotPcs
<1>2. IsFiniteSet(Holders') /\ Cardinality(Holders') = Cardinality(Holders) - 1
  BY <1>1, FS_RemoveElement DEF IndInv, SlotInv
<1>3. Cardinality(Holders) \in Nat /\ Cardinality(Holders') \in Nat
  BY <1>2, FS_CardinalityType DEF IndInv, SlotInv
<1> QED BY <1>2, <1>3, RouterosAssumption DEF SlotInv, IndInv, TypeOK, Return

(* A step that moves no owner and no permit. *)
LEMMA SlotStays ==
    ASSUME IndInv, UNCHANGED <<pc, permits>>
    PROVE  SlotInv' /\ permits' \in 0..Slots
BY DEF IndInv, SlotInv, Holders, TypeOK

-----------------------------------------------------------------------------
(* One lemma per action: slots, types, and what is known of each request. *)

(* The request is made and its owner spawned. *)
LEMMA CallHolds ==
    ASSUME IndInv, NEW r \in Reqs, Call(r)
    PROVE  IndInv'
<1> USE DEF IndInv
<1>1. SlotInv' /\ permits' \in 0..Slots
  BY SlotKept DEF Call, Goto, Pcs, SlotPcs
<1>2. FlagsOK'
  BY Zenon DEF Call, Goto, routeVars, collector, FlagsOK, TypeOK
<1>3. TypeOK'
  BY <1>1, <1>2, RouterosAssumption DEF Call, Goto, routeVars, collector, FlagsOK,
      TypeOK, Pcs
<1>4. RequestInv'
  BY DEF Call, Goto, routeVars, collector, RequestInv, BeforeExec, OpenInv,
      CollectInv, AnswerInv, ChannelInv, Carried, Stopped, TypeOK, SlotPcs
<1> QED BY <1>1, <1>3, <1>4

(* The slot, or a stop before it. *)
LEMMA AcquireSlotHolds ==
    ASSUME IndInv, NEW r \in Reqs, AcquireSlot(r)
    PROVE  IndInv'
<1> USE DEF IndInv
<1>1. SlotInv' /\ permits' \in 0..Slots
  BY SlotTaken, SlotKept DEF AcquireSlot, AcquireSlotOr, Goto, TypeOK, Pcs, SlotPcs
<1>2. FlagsOK'
  BY Zenon DEF AcquireSlot, AcquireSlotOr, Goto, SendResult, routeVars, collector,
      FlagsOK, TypeOK
<1>3. TypeOK'
  BY <1>1, <1>2, RouterosAssumption DEF AcquireSlot, AcquireSlotOr, Goto, SendResult,
      routeVars, collector, FlagsOK, TypeOK, Pcs
<1>4. RequestInv'
  BY DEF AcquireSlot, AcquireSlotOr, Goto, SendResult, routeVars, collector,
      RequestInv, BeforeExec, OpenInv, CollectInv, AnswerInv, ChannelInv, Carried,
      Stopped, TypeOK, SlotPcs
<1> QED BY <1>1, <1>3, <1>4

(* A new route has a generation above every captured one. *)
LEMMA ConnectHolds ==
    ASSUME IndInv, NEW r \in Reqs, Connect(r)
    PROVE  IndInv'
<1> USE DEF IndInv
<1>1. SlotInv' /\ permits' \in 0..Slots
  BY SlotKept DEF Connect, Goto, Pcs, SlotPcs
<1>2. FlagsOK'
  BY Zenon DEF Connect, Goto, collector, FlagsOK, TypeOK
<1>3. TypeOK'
  BY <1>1, <1>2, RouterosAssumption DEF Connect, Goto, collector, FlagsOK, TypeOK, Pcs
<1>4. RequestInv'
  BY DEF Connect, Goto, collector, RequestInv, BeforeExec, OpenInv, CollectInv,
      AnswerInv, ChannelInv, Carried, Stopped, TypeOK, SlotPcs
<1> QED BY <1>1, <1>3, <1>4

(* Without a route nothing was asked of the peer. *)
LEMMA ConnectFailsHolds ==
    ASSUME IndInv, NEW r \in Reqs, ConnectFails(r)
    PROVE  IndInv'
<1> USE DEF IndInv
<1>1. SlotInv' /\ permits' \in 0..Slots
  BY SlotFreed DEF ConnectFails, Return, Goto, SlotPcs
<1>2. FlagsOK'
  BY Zenon DEF ConnectFails, Return, Goto, SendResult, routeVars, collector, FlagsOK,
      TypeOK
<1>3. TypeOK'
  BY <1>1, <1>2, RouterosAssumption DEF ConnectFails, Return, Goto, SendResult,
      routeVars, collector, FlagsOK, TypeOK, Pcs
<1>4. RequestInv'
  BY DEF ConnectFails, Return, Goto, SendResult, routeVars, collector, RequestInv,
      BeforeExec, OpenInv, CollectInv, AnswerInv, ChannelInv, Carried, Stopped,
      TypeOK, SlotPcs
<1> QED BY <1>1, <1>3, <1>4

(* The stop before the OPEN. *)
LEMMA CheckReadyHolds ==
    ASSUME IndInv, NEW r \in Reqs, CheckReady(r)
    PROVE  IndInv'
<1> USE DEF IndInv
<1>1. SlotInv' /\ permits' \in 0..Slots
  BY SlotKept, SlotFreed DEF CheckReady, Return, Goto, TypeOK, Pcs, SlotPcs
<1>2. FlagsOK'
  BY Zenon DEF CheckReady, Return, Goto, SendResult, routeVars, collector, FlagsOK,
      TypeOK
<1>3. TypeOK'
  BY <1>1, <1>2, RouterosAssumption DEF CheckReady, Return, Goto, SendResult,
      routeVars, collector, FlagsOK, TypeOK, Pcs
<1>4. RequestInv'
  BY DEF CheckReady, Return, Goto, SendResult, routeVars, collector, RequestInv,
      BeforeExec, OpenInv, CollectInv, AnswerInv, ChannelInv, Carried, Stopped,
      TypeOK, SlotPcs
<1> QED BY <1>1, <1>3, <1>4

(* The OPEN is queued with the current generation. *)
LEMMA OpenSessionHolds ==
    ASSUME IndInv, NEW r \in Reqs, OpenSession(r)
    PROVE  IndInv'
<1> USE DEF IndInv
<1>1. SlotInv' /\ permits' \in 0..Slots
  BY SlotStays, SlotFreed DEF OpenSession, Return, Goto, TypeOK, Pcs, SlotPcs
<1>2. FlagsOK'
  BY Zenon DEF OpenSession, Return, Goto, SendResult, routeVars, collector, FlagsOK,
      TypeOK
<1>3. TypeOK'
  BY <1>1, <1>2, RouterosAssumption DEF OpenSession, Return, Goto, SendResult,
      routeVars, collector, FlagsOK, TypeOK, Pcs
<1>4. RequestInv'
  BY DEF OpenSession, Return, Goto, SendResult, routeVars, collector, RequestInv,
      BeforeExec, OpenInv, CollectInv, AnswerInv, ChannelInv, Carried, Stopped,
      TypeOK, SlotPcs
<1> QED BY <1>1, <1>3, <1>4

(* An early answer is given to a stopped request only. *)
LEMMA StopDuringOpenHolds ==
    ASSUME IndInv, NEW r \in Reqs, StopDuringOpen(r)
    PROVE  IndInv'
<1> USE DEF IndInv
<1>1. SlotInv' /\ permits' \in 0..Slots
  BY SlotStays DEF StopDuringOpen
<1>2. FlagsOK'
  BY Zenon DEF StopDuringOpen, SendResult, routeVars, collector, FlagsOK, TypeOK
<1>3. TypeOK'
  BY <1>1, <1>2, RouterosAssumption DEF StopDuringOpen, SendResult, routeVars,
      collector, FlagsOK, TypeOK, Pcs
<1>4. RequestInv'
  BY DEF StopDuringOpen, SendResult, routeVars, collector, RequestInv, BeforeExec,
      OpenInv, CollectInv, AnswerInv, ChannelInv, Carried, Stopped, TypeOK, SlotPcs
<1> QED BY <1>1, <1>3, <1>4

(* The channel is there, for a stopped request too. *)
LEMMA OpenConfirmedHolds ==
    ASSUME IndInv, NEW r \in Reqs, OpenConfirmed(r)
    PROVE  IndInv'
<1> USE DEF IndInv
<1>1. SlotInv' /\ permits' \in 0..Slots
  BY SlotKept DEF OpenConfirmed, Goto, Pcs, SlotPcs
<1>2. FlagsOK'
  BY Zenon DEF OpenConfirmed, Goto, Drop, routeVars, collector, FlagsOK, TypeOK
<1>3. TypeOK'
  BY <1>1, <1>2, RouterosAssumption DEF OpenConfirmed, Goto, Drop, routeVars,
      collector, FlagsOK, TypeOK, Pcs
<1>4. RequestInv'
  BY DEF OpenConfirmed, Goto, Drop, routeVars, collector, RequestInv, BeforeExec,
      OpenInv, CollectInv, AnswerInv, ChannelInv, Carried, Stopped, TypeOK, SlotPcs
<1> QED BY <1>1, <1>3, <1>4

(* A refused OPEN leaves no channel. *)
LEMMA OpenFailsHolds ==
    ASSUME IndInv, NEW r \in Reqs, OpenFails(r)
    PROVE  IndInv'
<1> USE DEF IndInv
<1>1. SlotInv' /\ permits' \in 0..Slots
  BY SlotFreed DEF OpenFails, Return, Goto, SlotPcs
<1>2. FlagsOK'
  BY Zenon DEF OpenFails, Return, Goto, SendResult, Drop, routeVars, collector,
      FlagsOK, TypeOK
<1>3. TypeOK'
  BY <1>1, <1>2, RouterosAssumption DEF OpenFails, Return, Goto, SendResult, Drop,
      routeVars, collector, FlagsOK, TypeOK, Pcs
<1>4. RequestInv'
  BY DEF OpenFails, Return, Goto, SendResult, Drop, routeVars, collector, RequestInv,
      BeforeExec, OpenInv, CollectInv, AnswerInv, ChannelInv, Carried, Stopped,
      TypeOK, SlotPcs
<1> QED BY <1>1, <1>3, <1>4

(* A captured OPEN goes on to its retirement, with the slot. *)
LEMMA OpenBudgetElapsesHolds ==
    ASSUME IndInv, NEW r \in Reqs, OpenBudgetElapses(r)
    PROVE  IndInv'
<1> USE DEF IndInv
<1>1. SlotInv' /\ permits' \in 0..Slots
  BY SlotKept, SlotFreed DEF OpenBudgetElapses, OpenBudgetElapsesIf, Return, Goto,
      TypeOK, Pcs, SlotPcs
<1>2. FlagsOK'
  BY Zenon DEF OpenBudgetElapses, OpenBudgetElapsesIf, Return, Goto, SendResult, Drop,
      routeVars, collector, FlagsOK, TypeOK
<1>3. TypeOK'
  BY <1>1, <1>2, RouterosAssumption DEF OpenBudgetElapses, OpenBudgetElapsesIf,
      Return, Goto, SendResult, Drop, routeVars, collector, FlagsOK, TypeOK, Pcs
<1>4. RequestInv'
  BY DEF OpenBudgetElapses, OpenBudgetElapsesIf, Return, Goto, SendResult, Drop,
      routeVars, collector, RequestInv, BeforeExec, OpenInv, CollectInv, AnswerInv,
      ChannelInv, Carried, Stopped, TypeOK, SlotPcs
<1> QED BY <1>1, <1>3, <1>4

(* The owner leaves when its route is not the installed one any more. *)
LEMMA RetireHolds ==
    ASSUME IndInv, NEW r \in Reqs, Retire(r)
    PROVE  IndInv'
<1> USE DEF IndInv
<1>1. SlotInv' /\ permits' \in 0..Slots
  BY SlotFreed DEF Retire, RetireIf, Return, Goto, SlotPcs
<1>2. FlagsOK'
  BY Zenon DEF Retire, RetireIf, Return, Goto, collector, FlagsOK, TypeOK
<1>3. TypeOK'
  BY <1>1, <1>2, RouterosAssumption DEF Retire, RetireIf, Return, Goto, collector,
      FlagsOK, TypeOK, Pcs
<1>4. RequestInv'
  BY DEF Retire, RetireIf, Return, Goto, collector, RequestInv, BeforeExec, OpenInv,
      CollectInv, AnswerInv, ChannelInv, Carried, Stopped, TypeOK, SlotPcs
<1> QED BY <1>1, <1>3, <1>4

(* The EXEC goes out only for a request that has no answer yet. *)
LEMMA ExecHolds ==
    ASSUME IndInv, NEW r \in Reqs, Exec(r)
    PROVE  IndInv'
<1> USE DEF IndInv
<1>1. SlotInv' /\ permits' \in 0..Slots
  BY SlotKept DEF Exec, ExecUnless, Goto, Verdict, Pcs, SlotPcs
<1>2. FlagsOK'
  BY Zenon DEF Exec, ExecUnless, Goto, Verdict, routeVars, FlagsOK, TypeOK
<1>3. TypeOK'
  BY <1>1, <1>2, RouterosAssumption DEF Exec, ExecUnless, Goto, Verdict, routeVars,
      FlagsOK, TypeOK, Pcs
<1>4. RequestInv'
  <2> USE DEF TypeOK, RequestInv
  <2>1. ASSUME NEW q \in Reqs PROVE BeforeExec(q)' /\ OpenInv(q)'
    BY DEF Exec, ExecUnless, Goto, Verdict, routeVars, BeforeExec, OpenInv, Stopped
  <2>2. ASSUME NEW q \in Reqs PROVE CollectInv(q)'
    BY DEF Exec, ExecUnless, Goto, Verdict, routeVars, BeforeExec, CollectInv, Stopped
  <2>3. ASSUME NEW q \in Reqs PROVE AnswerInv(q)'
    BY DEF Exec, ExecUnless, Goto, Verdict, routeVars, BeforeExec, CollectInv,
      AnswerInv, Stopped
  <2>4. ASSUME NEW q \in Reqs PROVE ChannelInv(q)'
    BY DEF Exec, ExecUnless, Goto, Verdict, routeVars, ChannelInv, Carried, SlotPcs
  <2> QED BY <2>1, <2>2, <2>3, <2>4
<1> QED BY <1>1, <1>3, <1>4

(* Status and signal come from a started command. *)
LEMMA EventExitHolds ==
    ASSUME IndInv, NEW r \in Reqs, EventExit(r)
    PROVE  IndInv'
<1> USE DEF IndInv
<1>1. SlotInv' /\ permits' \in 0..Slots
  BY SlotStays DEF EventExit
<1>2. FlagsOK'
  BY Zenon DEF EventExit, routeVars, FlagsOK, TypeOK
<1>3. TypeOK'
  BY <1>1, <1>2, RouterosAssumption DEF EventExit, routeVars, FlagsOK, TypeOK, Pcs
<1>4. RequestInv'
  BY DEF EventExit, routeVars, RequestInv, BeforeExec, OpenInv, CollectInv, AnswerInv,
      ChannelInv, Carried, Stopped, TypeOK, SlotPcs
<1> QED BY <1>1, <1>3, <1>4

(* Only a rejected EXEC takes may_have_run back. *)
LEMMA EventFailureHolds ==
    ASSUME IndInv, NEW r \in Reqs, EventFailure(r)
    PROVE  IndInv'
<1> USE DEF IndInv
<1>1. SlotInv' /\ permits' \in 0..Slots
  BY SlotKept DEF EventFailure, Goto, Verdict, Pcs, SlotPcs
<1>2. FlagsOK'
  BY Zenon DEF EventFailure, Goto, Verdict, routeVars, FlagsOK, TypeOK
<1>3. TypeOK'
  BY <1>1, <1>2, RouterosAssumption DEF EventFailure, Goto, Verdict, routeVars,
      FlagsOK, TypeOK, Pcs
<1>4. RequestInv'
  BY DEF EventFailure, Goto, Verdict, routeVars, RequestInv, BeforeExec, OpenInv,
      CollectInv, AnswerInv, ChannelInv, Carried, Stopped, TypeOK, SlotPcs
<1> QED BY <1>1, <1>3, <1>4

(* The verdict on Close. *)
LEMMA EventCloseHolds ==
    ASSUME IndInv, NEW r \in Reqs, EventClose(r)
    PROVE  IndInv'
<1> USE DEF IndInv
<1>1. SlotInv' /\ permits' \in 0..Slots
  BY SlotKept DEF EventClose, EventCloseIf, Goto, Verdict, Pcs, SlotPcs
<1>2. FlagsOK'
  BY Zenon DEF EventClose, EventCloseIf, Goto, Verdict, routeVars, FlagsOK, TypeOK
<1>3. TypeOK'
  BY <1>1, <1>2, RouterosAssumption DEF EventClose, EventCloseIf, Goto, Verdict,
      routeVars, FlagsOK, TypeOK, Pcs
<1>4. RequestInv'
  BY DEF EventClose, EventCloseIf, Goto, Verdict, routeVars, RequestInv, BeforeExec,
      OpenInv, CollectInv, AnswerInv, ChannelInv, Carried, Stopped, TypeOK, SlotPcs
<1> QED BY <1>1, <1>3, <1>4

(* A stop or a lost channel keeps may_have_run. *)
LEMMA RunEndsHolds ==
    ASSUME IndInv, NEW r \in Reqs, RunEnds(r)
    PROVE  IndInv'
<1> USE DEF IndInv
<1>1. SlotInv' /\ permits' \in 0..Slots
  BY SlotKept DEF RunEnds, Goto, Verdict, Pcs, SlotPcs
<1>2. FlagsOK'
  BY Zenon DEF RunEnds, Goto, Verdict, routeVars, FlagsOK, TypeOK
<1>3. TypeOK'
  BY <1>1, <1>2, RouterosAssumption DEF RunEnds, Goto, Verdict, routeVars, FlagsOK,
      TypeOK, Pcs
<1>4. RequestInv'
  BY DEF RunEnds, Goto, Verdict, routeVars, RequestInv, BeforeExec, OpenInv,
      CollectInv, AnswerInv, ChannelInv, Carried, Stopped, TypeOK, SlotPcs
<1> QED BY <1>1, <1>3, <1>4

(* The answer follows from the verdict. *)
LEMMA CloseChannelHolds ==
    ASSUME IndInv, NEW r \in Reqs, CloseChannel(r)
    PROVE  IndInv'
<1> USE DEF IndInv
<1>1. SlotInv' /\ permits' \in 0..Slots
  BY SlotFreed DEF CloseChannel, Return, Goto, SlotPcs
<1>2. FlagsOK'
  BY Zenon DEF CloseChannel, Return, Goto, SendResult, routeVars, collector, FlagsOK,
      TypeOK
<1>3. TypeOK'
  BY <1>1, <1>2, RouterosAssumption DEF CloseChannel, Return, Goto, SendResult,
      routeVars, collector, FlagsOK, TypeOK, Pcs
<1>4. RequestInv'
  <2> USE DEF TypeOK, RequestInv
  <2>1. ASSUME NEW q \in Reqs PROVE BeforeExec(q)' /\ OpenInv(q)'
    BY DEF CloseChannel, Return, Goto, SendResult, routeVars, collector, BeforeExec,
        OpenInv, Stopped
  <2>2. ASSUME NEW q \in Reqs PROVE CollectInv(q)'
    BY DEF CloseChannel, Return, Goto, SendResult, routeVars, collector, BeforeExec,
      CollectInv
  <2>3. ASSUME NEW q \in Reqs PROVE AnswerInv(q)'
    BY DEF CloseChannel, Return, Goto, SendResult, routeVars, collector, BeforeExec,
      CollectInv, AnswerInv
  <2>4. ASSUME NEW q \in Reqs PROVE ChannelInv(q)'
    BY DEF CloseChannel, Return, Goto, SendResult, routeVars, collector, ChannelInv,
      Carried, SlotPcs
  <2> QED BY <2>1, <2>2, <2>3, <2>4
<1> QED BY <1>1, <1>3, <1>4

(* A stop of a request is for ever. *)
LEMMA RequestStopsHolds ==
    ASSUME IndInv, NEW r \in Reqs, RequestStops(r)
    PROVE  IndInv'
<1> USE DEF IndInv
<1>1. SlotInv' /\ permits' \in 0..Slots
  BY SlotStays DEF RequestStops
<1>2. FlagsOK'
  BY Zenon DEF RequestStops, routeVars, collector, FlagsOK, TypeOK
<1>3. TypeOK'
  BY <1>1, <1>2, RouterosAssumption DEF RequestStops, routeVars, collector, FlagsOK,
      TypeOK, Pcs
<1>4. RequestInv'
  BY DEF RequestStops, routeVars, collector, RequestInv, BeforeExec, OpenInv,
      CollectInv, AnswerInv, ChannelInv, Carried, Stopped, TypeOK, SlotPcs
<1> QED BY <1>1, <1>3, <1>4

(* A confirmation changes the channel of an owner that still waits. *)
LEMMA PeerConfirmsHolds ==
    ASSUME IndInv, NEW r \in Reqs, PeerConfirms(r)
    PROVE  IndInv'
<1> USE DEF IndInv
<1>1. SlotInv' /\ permits' \in 0..Slots
  BY SlotStays DEF PeerConfirms
<1>2. FlagsOK'
  BY Zenon DEF PeerConfirms, routeVars, collector, FlagsOK, TypeOK
<1>3. TypeOK'
  BY <1>1, <1>2, RouterosAssumption DEF PeerConfirms, routeVars, collector, FlagsOK,
      TypeOK, Pcs
<1>4. RequestInv'
  BY DEF PeerConfirms, routeVars, collector, RequestInv, BeforeExec, OpenInv,
      CollectInv, AnswerInv, ChannelInv, Carried, Stopped, TypeOK, SlotPcs
<1> QED BY <1>1, <1>3, <1>4

(* The peer acts on a queued EXEC, which no answer denies. *)
LEMMA PeerExecsHolds ==
    ASSUME IndInv, NEW r \in Reqs, PeerExecs(r)
    PROVE  IndInv'
<1> USE DEF IndInv
<1>1. SlotInv' /\ permits' \in 0..Slots
  BY SlotStays DEF PeerExecs
<1>2. FlagsOK'
  BY Zenon DEF PeerExecs, routeVars, collector, FlagsOK, TypeOK
<1>3. TypeOK'
  BY <1>1, <1>2, RouterosAssumption DEF PeerExecs, routeVars, collector, FlagsOK,
      TypeOK, Pcs
<1>4. RequestInv'
  BY DEF PeerExecs, routeVars, collector, RequestInv, BeforeExec, OpenInv, CollectInv,
      AnswerInv, ChannelInv, Carried, Stopped, TypeOK, SlotPcs
<1> QED BY <1>1, <1>3, <1>4

(* Shutdown, and the route it takes. *)
LEMMA ShutdownHolds ==
    ASSUME IndInv, Shutdown
    PROVE  IndInv'
<1> USE DEF IndInv
<1>1. SlotInv' /\ permits' \in 0..Slots
  BY SlotStays DEF Shutdown
<1>2. FlagsOK'
  BY Zenon DEF Shutdown, collector, FlagsOK, TypeOK
<1>3. TypeOK'
  BY <1>1, <1>2, RouterosAssumption DEF Shutdown, collector, FlagsOK, TypeOK, Pcs
<1>4. RequestInv'
  BY DEF Shutdown, collector, RequestInv, BeforeExec, OpenInv, CollectInv, AnswerInv,
      ChannelInv, Carried, Stopped, TypeOK, SlotPcs
<1> QED BY <1>1, <1>3, <1>4

(* A dead route carries nothing. *)
LEMMA RouteDiesHolds ==
    ASSUME IndInv, RouteDies
    PROVE  IndInv'
<1> USE DEF IndInv
<1>1. SlotInv' /\ permits' \in 0..Slots
  BY SlotStays DEF RouteDies
<1>2. FlagsOK'
  BY Zenon DEF RouteDies, collector, FlagsOK, TypeOK
<1>3. TypeOK'
  BY <1>1, <1>2, RouterosAssumption DEF RouteDies, collector, FlagsOK, TypeOK, Pcs
<1>4. RequestInv'
  BY DEF RouteDies, collector, RequestInv, BeforeExec, OpenInv, CollectInv, AnswerInv,
      ChannelInv, Carried, Stopped, TypeOK, SlotPcs
<1> QED BY <1>1, <1>3, <1>4

(* The end. *)
LEMMA AllDoneHolds ==
    ASSUME IndInv, AllDone
    PROVE  IndInv'
<1> USE DEF IndInv
<1>1. SlotInv' /\ permits' \in 0..Slots
  BY SlotStays DEF AllDone, vars
<1>2. FlagsOK'
  BY Zenon DEF AllDone, vars, routeVars, collector, FlagsOK, TypeOK
<1>3. TypeOK'
  BY <1>1, <1>2, RouterosAssumption DEF AllDone, vars, routeVars, collector, FlagsOK,
      TypeOK, Pcs
<1>4. RequestInv'
  BY DEF AllDone, vars, routeVars, collector, RequestInv, BeforeExec, OpenInv,
      CollectInv, AnswerInv, ChannelInv, Carried, Stopped, TypeOK, SlotPcs
<1> QED BY <1>1, <1>3, <1>4

-----------------------------------------------------------------------------

(* Every step keeps the invariant. *)
LEMMA Inductive == IndInv /\ [Next]_vars => IndInv'
<1> SUFFICES ASSUME IndInv, [Next]_vars PROVE IndInv'
  OBVIOUS
<1>1. ASSUME NEW r \in Reqs, Owner(r) PROVE IndInv'
  BY <1>1, AcquireSlotHolds, ConnectHolds, ConnectFailsHolds, CheckReadyHolds,
      OpenSessionHolds, StopDuringOpenHolds, OpenConfirmedHolds, OpenFailsHolds,
      RetireHolds, ExecHolds, EventExitHolds, EventFailureHolds, EventCloseHolds,
      RunEndsHolds, CloseChannelHolds DEF Owner
<1>2. ASSUME NEW r \in Reqs,
             Call(r) \/ OpenBudgetElapses(r) \/ RequestStops(r) \/ PeerConfirms(r) \/ PeerExecs(r)
      PROVE  IndInv'
  BY <1>2, CallHolds, OpenBudgetElapsesHolds, RequestStopsHolds, PeerConfirmsHolds,
     PeerExecsHolds
<1>3. CASE UNCHANGED vars
  <2>1. UNCHANGED <<pc, permits>>
    BY <1>3 DEF vars
  <2>2. SlotInv'
    BY <2>1, SlotStays
  <2>3. TypeOK' /\ RequestInv'
    BY <1>3 DEF vars, routeVars, collector, IndInv, TypeOK, RequestInv, BeforeExec, OpenInv,
                CollectInv, AnswerInv, ChannelInv, Carried, Stopped
  <2> QED BY <2>2, <2>3 DEF IndInv
<1> QED BY <1>1, <1>2, <1>3, ShutdownHolds, RouteDiesHolds, AllDoneHolds DEF Next

(* The invariant holds in every state. *)
LEMMA AlwaysInv == Spec => []IndInv
BY InitHolds, Inductive, PTL DEF Spec

(* Every variable keeps its type; in particular the permits never exceed    *)
(* the slots, on whatever way an owner leaves.                              *)
THEOREM TypeCorrect == Spec => []TypeOK
<1>1. IndInv => TypeOK
  BY DEF IndInv
<1> QED BY <1>1, AlwaysInv, PTL

(* "Command not started" is told only of a command the router did not run   *)
(* and never will: the answer of failure_result and of the stop during the  *)
(* OPEN, for every order of stop, confirmation and EXEC.                    *)
THEOREM NotStartedNeverRuns == Spec => []NotStartedIsTrue
<1>1. IndInv => NotStartedIsTrue
  BY DEF IndInv, RequestInv, AnswerInv, NotStartedIsTrue
<1> QED BY <1>1, AlwaysInv, PTL

(* A success is told only of a command that ran and whose exit status was   *)
(* collected without a signal.                                              *)
THEOREM SuccessHasStatus == Spec => []OkMeansExited
<1>1. IndInv => OkMeansExited
  BY DEF IndInv, RequestInv, AnswerInv, OkMeansExited
<1> QED BY <1>1, AlwaysInv, PTL

(* No channel of a live route is without an owner that holds a slot, except *)
(* where the close itself did not get out.                                  *)
THEOREM NoStrayChannel == Spec => []ChannelsOwned
<1>1. IndInv => ChannelsOwned
  BY DEF IndInv, RequestInv, ChannelInv, ChannelsOwned
<1> QED BY <1>1, AlwaysInv, PTL

(* Outside of shutdown the owner task removes a route only if its own OPEN  *)
(* on that very route stayed unresolved.                                    *)
THEOREM RetiresOnlyItsRoute == Spec => OnlyUnresolvedRetires
<1> DEFINE A == current # 0 /\ current' = 0 /\ ~shutting =>
         \E r \in Reqs : /\ opn[r] = current /\ pc[r] = "retire"
                         /\ chan[r] \in {"requested", "open"}
<1>1. IndInv /\ [Next]_vars => [A]_vars
  <2> SUFFICES ASSUME IndInv, Next, current # 0, current' = 0, ~shutting
               PROVE  A
    OBVIOUS
  <2>1. PICK r \in Reqs : Retire(r)
    <3>1. ASSUME NEW r \in Reqs, Owner(r) PROVE Retire(r)
      BY <3>1 DEF Owner, AcquireSlot, AcquireSlotOr, Connect, ConnectFails, CheckReady,
                  OpenSession, StopDuringOpen, OpenConfirmed, OpenFails, Exec, ExecUnless,
                  EventExit, EventFailure, EventClose, EventCloseIf, RunEnds, CloseChannel,
                  routeVars, IndInv, TypeOK
    <3>2. \A r \in Reqs : ~(Call(r) \/ OpenBudgetElapses(r) \/ RequestStops(r)
                              \/ PeerConfirms(r) \/ PeerExecs(r))
      BY DEF Call, OpenBudgetElapses, OpenBudgetElapsesIf, RequestStops, PeerConfirms,
             PeerExecs, routeVars
    <3>3. ~(Shutdown \/ RouteDies \/ AllDone)
      BY DEF Shutdown, RouteDies, AllDone, vars, routeVars
    <3> QED BY <3>1, <3>2, <3>3 DEF Next
  <2>2. opn[r] = current /\ pc[r] = "retire"
    BY <2>1 DEF Retire, RetireIf
  <2>3. chan[r] \in {"requested", "open"}
    BY <2>2 DEF IndInv, RequestInv, OpenInv
  <2> QED BY <2>2, <2>3
<1>2. []IndInv /\ [][Next]_vars => [][A]_vars
  BY <1>1, PTL
<1> QED BY <1>2, AlwaysInv, PTL DEF Spec, OnlyUnresolvedRetires

(* The answers of exec_routeros_command: "not started" and success are true *)
(* whatever the peer, the stop and shutdown do.                             *)
THEOREM AnswersHold == Spec => []AnswersAreTrue
  BY NotStartedNeverRuns, SuccessHasStatus, PTL DEF AnswersAreTrue

-----------------------------------------------------------------------------
(* The abstract call *)

(* A step of the abstract call, or none of it. *)
Allowed == Request!Next \/ UNCHANGED Request!vars

(* A step that neither starts a command nor answers. *)
LEMMA QuietStep ==
    ASSUME UNCHANGED answer,
           \A r \in Reqs : exec'[r] = "started" <=> exec[r] = "started"
    PROVE  Allowed
<1>1. [r \in Reqs |-> Concluded(r)]' = [r \in Reqs |-> Concluded(r)]
  BY DEF Concluded
<1>2. {r \in Reqs : exec[r] = "started"}' = {r \in Reqs : exec[r] = "started"}
  OBVIOUS
<1> QED BY <1>1, <1>2 DEF Allowed, Request!vars

(* The first answer is the verdict, and a later one is not heard. *)
LEMMA AnswerStep ==
    ASSUME IndInv, NEW r \in Reqs, NEW a \in {"ok", "may_have_run", "not_started"},
           SendResult(r, a), UNCHANGED exec,
           a = "ok" => exec[r] = "started",
           a = "not_started" => exec[r] # "started"
    PROVE  Allowed
<1>1. CASE answer[r] # "none"
  BY <1>1, QuietStep DEF SendResult
<1>2. CASE answer[r] = "none"
  <2> DEFINE v == CASE a = "ok" -> "done" [] a = "may_have_run" -> "unknown"
                    [] OTHER -> "never"
  <2>1. answer' = [answer EXCEPT ![r] = a] /\ answer \in [Reqs ->
          {"none", "ok", "may_have_run", "not_started"}]
    BY <1>2 DEF SendResult, IndInv, TypeOK
  <2>2. Concluded(r) = "none" /\ Concluded(r)' = v
    BY <1>2, <2>1 DEF Concluded
  <2>3. \A q \in Reqs : q # r => Concluded(q)' = Concluded(q)
    BY <2>1 DEF Concluded
  <2>4. [q \in Reqs |-> Concluded(q)]' = [[q \in Reqs |-> Concluded(q)] EXCEPT ![r] = v]
    BY <2>2, <2>3
  <2>5. Request!Tells(r, v)
    BY <2>2, <2>4 DEF Request!Tells
  <2>6. v \in Request!Verdicts
    BY DEF Request!Verdicts
  <2> QED BY <2>5, <2>6 DEF Allowed, Request!Next
<1> QED BY <1>1, <1>2

(* The router starts a queued command: nobody was told that it never would. *)
LEMMA StartStep == ASSUME IndInv, NEW r \in Reqs, PeerExecs(r) PROVE Allowed
<1>1. PICK e \in {"started", "rejected"} : exec' = [exec EXCEPT ![r] = e]
  BY DEF PeerExecs
<1>2. exec[r] = "queued" /\ UNCHANGED answer
  BY DEF PeerExecs
<1>3. exec \in [Reqs -> {"no", "queued", "started", "rejected"}]
  BY DEF IndInv, TypeOK
<1>4. CASE e = "rejected"
  BY <1>1, <1>2, <1>3, <1>4, QuietStep
<1>5. CASE e = "started"
  <2>1. {q \in Reqs : exec[q] = "started"}' = {q \in Reqs : exec[q] = "started"} \cup {r}
    BY <1>1, <1>3, <1>5
  <2>2. answer[r] # "not_started"
    BY <1>2 DEF IndInv, RequestInv, AnswerInv
  <2>3. Concluded(r) # "never"
    BY <2>2 DEF Concluded
  <2>4. [q \in Reqs |-> Concluded(q)]' = [q \in Reqs |-> Concluded(q)]
    BY <1>2 DEF Concluded
  <2>5. Request!Happens(r)
    BY <1>2, <2>1, <2>3, <2>4 DEF Request!Happens
  <2> QED BY <2>5 DEF Allowed, Request!Next
<1> QED BY <1>4, <1>5

(* The owner's steps: before the EXEC it can only say "not started", and    *)
(* after it what the collector has seen.                                    *)
LEMMA OwnerStep == ASSUME IndInv, NEW r \in Reqs, Owner(r) PROVE Allowed
<1>1. CASE \/ AcquireSlot(r) \/ ConnectFails(r) \/ CheckReady(r) \/ OpenSession(r)
           \/ StopDuringOpen(r) \/ OpenFails(r)
  <2>1. exec[r] = "no" /\ UNCHANGED exec
    BY <1>1 DEF IndInv, RequestInv, BeforeExec, AcquireSlot, AcquireSlotOr, ConnectFails,
       CheckReady, OpenSession, StopDuringOpen, OpenFails
  <2>2. SendResult(r, "not_started") \/ UNCHANGED answer
    BY <1>1 DEF AcquireSlot, AcquireSlotOr, ConnectFails, CheckReady, OpenSession,
       StopDuringOpen, OpenFails
  <2> QED BY <2>1, <2>2, AnswerStep, QuietStep
<1>2. CASE \/ Connect(r) \/ OpenConfirmed(r) \/ Retire(r) \/ EventExit(r)
           \/ EventFailure(r) \/ EventClose(r) \/ RunEnds(r)
  BY <1>2, QuietStep DEF Connect, OpenConfirmed, Retire, RetireIf, EventExit,
     EventFailure, EventClose, EventCloseIf, RunEnds
<1>3. CASE Exec(r)
  <2>1. exec[r] = "no"
    BY <1>3 DEF Exec, ExecUnless, IndInv, RequestInv, BeforeExec
  <2>2. exec \in [Reqs -> {"no", "queued", "started", "rejected"}]
    BY DEF IndInv, TypeOK
  <2> QED BY <1>3, <2>1, <2>2, QuietStep DEF Exec, ExecUnless
<1>4. CASE CloseChannel(r)
  <2>1. PICK a \in {"ok", "may_have_run", "not_started"} :
          /\ SendResult(r, a)
          /\ a = "ok" => result[r] = "ok"
          /\ a = "not_started" => ~(result[r] = "err" /\ mayRun[r]) /\ result[r] # "ok"
    BY <1>4 DEF CloseChannel
  <2>2. UNCHANGED exec /\ pc[r] = "close"
    BY <1>4 DEF CloseChannel
  <2>3. a = "ok" => exec[r] = "started"
    BY <2>1 DEF IndInv, RequestInv, CollectInv
  <2>4. a = "not_started" => exec[r] # "started"
    BY <2>1, <2>2 DEF IndInv, TypeOK, RequestInv, CollectInv
  <2> QED BY <2>1, <2>2, <2>3, <2>4, AnswerStep
<1> QED BY <1>1, <1>2, <1>3, <1>4 DEF Owner

(* exec_routeros_command runs a command at most once and gives one true     *)
(* answer, for any number of requests on any number of routes.              *)
THEOREM RequestsRunAtMostOnce == Spec => ImplementsAtMostOnce
<1>1. Init => Request!Init
  BY DEF Init, Request!Init, Concluded
<1>2. IndInv /\ [Next]_vars => [Request!Next]_(Request!vars)
  <2> SUFFICES ASSUME IndInv, [Next]_vars PROVE Allowed
    BY DEF Allowed
  <2>1. ASSUME NEW r \in Reqs, Call(r) \/ RequestStops(r) \/ PeerConfirms(r) PROVE Allowed
    BY <2>1, QuietStep DEF Call, RequestStops, PeerConfirms
  <2>2. ASSUME NEW r \in Reqs, OpenBudgetElapses(r) PROVE Allowed
    <3>1. exec[r] = "no" /\ SendResult(r, "not_started") /\ UNCHANGED exec
      BY <2>2 DEF OpenBudgetElapses, OpenBudgetElapsesIf, IndInv, RequestInv, BeforeExec
    <3> QED BY <3>1, AnswerStep
  <2>3. CASE Shutdown \/ RouteDies \/ AllDone \/ UNCHANGED vars
    BY <2>3, QuietStep DEF Shutdown, RouteDies, AllDone, vars
  <2> QED BY <2>1, <2>2, <2>3, OwnerStep, StartStep DEF Next
<1> QED
  BY <1>1, <1>2, AlwaysInv, PTL DEF Spec, ImplementsAtMostOnce, Request!Spec

=============================================================================
