---------------------------- MODULE StagingProofs ----------------------------
(***************************************************************************)
(* Theorems about Staging: why what was at the destination survives, why   *)
(* the answer is true and why nothing of others is touched.                *)
(*                                                                         *)
(* The order of the phases is used only through PhaseFollows, which says   *)
(* what may come after each of them in any plan.                           *)
(***************************************************************************)
EXTENDS Staging, SequenceTheorems, TLAPS

(* The phases before anything is written, and those after the copy. *)
Looking == {"home", "kind", "config", "paths", "probe", "ssh", "client", "peer", "source"}
Verifying == {"size", "sync", "count", "check"}

(* The phases of a plan, and those which have another after them. *)
Phases == Looking \cup {"prepare", "reset", "copy", "commit"} \cup Verifying
Passed == Phases \ {"commit"}

InPlan(p) == \E k \in 1..Len(Plan) : Plan[k] = p

(* The last thing to do when the copy is good. *)
Publish == IF InPlace THEN "end" ELSE "commit"

(* What may come after a phase. *)
Following(p) ==
    CASE p \in Looking -> Looking \cup {"prepare"}
      [] p = "prepare" -> IF op.via = "scp" /\ op.dir THEN {"reset"} ELSE {"copy"}
      [] p = "reset" -> {"copy"}
      [] p = "copy" -> IF op.via = "raw" THEN {"check", "sync"}
                                         ELSE {"size", "count", Publish}
      [] p = "sync" -> {"check"}
      [] p \in {"size", "count", "check"} -> {Publish}
      [] OTHER -> {}

-----------------------------------------------------------------------------
(* The inductive invariant *)

(* Where the worker is in its plan; the worker of a plan without a commit  *)
(* never commits, and only scp removes what it has prepared.               *)
PlanInv ==
    /\ at \in Phases => InPlan(at)
    /\ at \in {"commit", "install", "rollback", "unbackup"} => ~InPlace
    /\ at \in {"install", "rollback", "unbackup"} => op.dir
    /\ at \in {"unlink", "again"} => ~op.dir /\ op.over /\ ~op.put
    /\ at = "reset" => op.via = "scp" /\ op.dir
    /\ at \in {"size", "count"} => op.via # "raw"

Owning == {"reset", "copy", "clean"} \cup Verifying
Replacing == {"commit", "unlink", "again", "install", "rollback", "unbackup"}

(* The destination before it is replaced, with what a stranger put there. *)
AsItWas == dst = was \/ (dst = "foreign" /\ was = "none")

(* Who has created what: the destination is still as it was before the     *)
(* worker owns a path, and a stranger came only to a free name.            *)
BeforeInv ==
    /\ dst = "foreign" => stranger
    /\ backup = "foreign" => stranger
    /\ at \in Looking \cup {"prepare", "commit", "unlink"} => AsItWas
    /\ at = "again" /\ ~unlinked => AsItWas
    /\ at \in Looking \cup {"prepare", "reset", "copy"} => ~cut
    /\ at \in Owning \ {"clean"} /\ ~InPlace => AsItWas
    /\ at \in Looking \cup Verifying
                 \cup {"prepare", "reset", "copy", "commit", "unlink", "again"} =>
         ~had /\ ~kept /\ ~failed
    /\ InPlace => ~had /\ ~kept
    /\ op.via # "raw" => ~cut
    /\ unlinked => /\ at \in {"again", "clean", "end", "dead"}
                   /\ ~op.dir /\ ~op.put

(* A directory built in its place: there was nothing, and unless scp makes *)
(* it again nobody else can have come.                                     *)
InPlaceInv ==
    InPlace =>
      /\ at \in Owning => was = "none" /\ dst \in {"none", "foreign", "part", "full"}
      /\ sweep => was = "none" /\ ScpWindow
      /\ at \in Owning /\ ~ScpWindow => dst \in {"part", "full"}
      /\ at \in Verifying /\ ~gone => dst = "full" \/ cut \/ nested

(* The stage is ours from its preparation on, and when it is committed it  *)
(* is whole, or gone by the sweep of a caller who has left.                *)
StageInv ==
    ~InPlace =>
      /\ at \in Owning \cup Replacing => stage # "junk"
      /\ sweep => stage # "junk"
      /\ at \in Verifying => stage \in {"full", "none"} \/ cut
      /\ at \in {"commit", "unlink", "again", "install"} =>
           stage \in {"full", "none"} \/ CutUnnoticed
      /\ ~op.put /\ at \in Verifying \cup {"commit", "unlink", "again"} => stage # "none"

(* A directory that is exchanged: what was there waits under the backup's  *)
(* name.                                                                   *)
BackupInv ==
    /\ had => backup # "junk"
    /\ had /\ was = "none" => stranger
    /\ at \in {"install", "rollback"} => dst \in {"none", "foreign"}
    /\ at \in {"install", "rollback"} /\ was # "none" => had /\ backup = was
    /\ at \in {"install", "rollback"} /\ was = "none" /\ had =>
         dst = "none" /\ backup = "foreign"
    /\ at \in {"install", "rollback", "unbackup"} => ~failed /\ ~kept
    /\ at = "unbackup" => dst = "full" \/ CutUnnoticed \/ nested

(* What a failure leaves. *)
Restored ==
    \/ dst \in {was, "foreign"} /\ (had => dst = was \/ backup = was)
    \/ kept /\ backup = was
    \/ InPlace /\ dst \in {"part", "full"}
    \/ nested \/ unlinked

(* The end of the worker, and what the caller was told of it. *)
EndInv ==
    /\ at = "clean" => failed
    /\ at = "end" /\ ~failed /\ ~gone => dst = "full" \/ CutUnnoticed \/ nested
    /\ failed /\ at \in {"clean", "end"} /\ ~cut => Restored
    /\ sweep => gone /\ op.put
    /\ result = "ok" /\ ~gone => at = "end" /\ ~failed
    /\ result = "err" /\ ~gone => at = "end" /\ (failed \/ cut)

(* The two parts of TypeOK. *)
Flags ==
    /\ had \in BOOLEAN /\ cut \in BOOLEAN /\ failed \in BOOLEAN /\ kept \in BOOLEAN
    /\ gone \in BOOLEAN /\ sweep \in BOOLEAN /\ stranger \in BOOLEAN
    /\ nested \in BOOLEAN /\ unlinked \in BOOLEAN

Shape ==
    /\ op \in Ops
    /\ was \in {"none", "old", "other"}
    /\ dst \in Contents \ {"junk"}
    /\ stage \in {"none", "junk", "part", "full"}
    /\ backup \in {"none", "junk", "old", "other", "foreign"}
    /\ at \in WorkerPcs
    /\ result \in {"none", "ok", "err"}

IndInv ==
    /\ Flags /\ Shape /\ PlanInv /\ BeforeInv /\ InPlaceInv /\ StageInv /\ BackupInv
    /\ OldNeverLost /\ EndInv

-----------------------------------------------------------------------------
(* The order of the phases *)

(* Phases of which each may follow the one before it. *)
Linked(s, first, last) ==
    /\ s \in Seq(Phases) /\ s # <<>>
    /\ \A i \in 1..Len(s) - 1 : s[i + 1] \in Following(s[i])
    /\ s[1] = first /\ s[Len(s)] = last

(* A plan: nothing comes after its last phase. *)
Whole(s) ==
    \E first \in Looking \cup {"prepare"}, last \in Phases :
      Linked(s, first, last) /\ (last = "commit" \/ "end" \in Following(last))

(* Two linked sequences make one. *)
LEMMA JoinLinked ==
  ASSUME NEW s, NEW t, NEW a, NEW b, NEW c, NEW d,
         Linked(s, a, b), Linked(t, c, d), c \in Following(b)
  PROVE  Linked(s \o t, a, d)
<1> DEFINE u == s \o t
<1>1. s \in Seq(Phases) /\ t \in Seq(Phases) /\ s # <<>> /\ t # <<>>
  BY DEF Linked
<1>2. Len(s) \in Nat /\ Len(s) > 0 /\ Len(t) \in Nat /\ Len(t) > 0
  BY <1>1, LenProperties, EmptySeq
<1>3. u \in Seq(Phases) /\ Len(u) = Len(s) + Len(t)
  BY <1>1, ConcatProperties
<1>4. \A i \in 1..Len(u) : u[i] = IF i <= Len(s) THEN s[i] ELSE t[i - Len(s)]
  BY <1>1, <1>3, ConcatProperties
<1> HIDE DEF u
<1>5. u # <<>>
  BY <1>2, <1>3, EmptySeq
<1>6. ASSUME NEW i \in 1..Len(u) - 1 PROVE u[i + 1] \in Following(u[i])
  <2>1. CASE i < Len(s)
    <3>1. u[i] = s[i] /\ u[i + 1] = s[i + 1] /\ i \in 1..Len(s) - 1
      BY <2>1, <1>2, <1>3, <1>4
    <3> QED BY <3>1 DEF Linked
  <2>2. CASE i = Len(s)
    <3>1. u[i] = s[Len(s)] /\ u[i + 1] = t[1]
      BY <2>2, <1>2, <1>3, <1>4
    <3> QED BY <3>1 DEF Linked
  <2>3. CASE i > Len(s)
    <3>1. i - Len(s) \in 1..Len(t) - 1
      BY <2>3, <1>2, <1>3
    <3>2. u[i] = t[i - Len(s)] /\ u[i + 1] = t[i - Len(s) + 1]
      BY <2>3, <1>2, <1>3, <1>4
    <3> QED BY <3>1, <3>2 DEF Linked
  <2> QED BY <2>1, <2>2, <2>3, <1>2
<1>7. u[1] = a /\ u[Len(u)] = d
  BY <1>2, <1>3, <1>4 DEF Linked
<1> QED BY <1>3, <1>5, <1>6, <1>7 DEF Linked, u

(* A phase that is done under a condition. *)
LEMMA StepLinked ==
  ASSUME NEW s, NEW a, NEW b, NEW c, NEW p \in Phases,
         Linked(s, a, b), c => p \in Following(b)
  PROVE  Linked(s \o Step(c, p), a, IF c THEN p ELSE b)
<1>1. CASE c
  <2>1. Linked(<<p>>, p, p)
    BY DEF Linked
  <2> QED BY <1>1, <2>1, JoinLinked DEF Step
<1>2. CASE ~c
  <2>1. s \o <<>> = s
    BY ConcatEmptySeq DEF Linked
  <2> QED BY <1>2, <2>1 DEF Step
<1> QED BY <1>1, <1>2

(* After a look come looks and the preparation. *)
LEMMA AfterLook == \A p \in Looking : Following(p) = Looking \cup {"prepare"}
BY DEF Following, Looking

(* Looks are linked in any order. *)
LEMMA LooksLinked ==
  ASSUME NEW h \in Seq(Looking), h # <<>>
  PROVE  h[1] \in Looking /\ h[Len(h)] \in Looking /\ Linked(h, h[1], h[Len(h)])
<1>1. Len(h) \in Nat /\ Len(h) > 0
  BY LenProperties, EmptySeq
<1>2. \A i \in 1..Len(h) : h[i] \in Looking
  BY ElementOfSeq
<1>3. h \in Seq(Phases)
  BY SeqMonotonic DEF Phases
<1>4. ASSUME NEW i \in 1..Len(h) - 1 PROVE h[i + 1] \in Following(h[i])
  BY <1>1, <1>2, AfterLook
<1> QED BY <1>1, <1>2, <1>3, <1>4 DEF Linked

(* Looks may come before any plan. *)
LEMMA LooksFirst ==
  ASSUME NEW h \in Seq(Looking), h # <<>>, NEW s, Whole(s)
  PROVE  Whole(h \o s)
<1>1. PICK first \in Looking \cup {"prepare"}, last \in Phases :
        Linked(s, first, last) /\ (last = "commit" \/ "end" \in Following(last))
  BY DEF Whole
<1>2. Linked(h \o s, h[1], last)
  BY <1>1, LooksLinked, AfterLook, JoinLinked
<1> QED BY <1>1, <1>2, LooksLinked DEF Whole

(* Looks under a condition. *)
LEMMA StepLooks ==
  ASSUME NEW h \in Seq(Looking), NEW c, NEW p \in Looking
  PROVE  h \o Step(c, p) \in Seq(Looking) /\ Step(c, p) \in Seq(Looking)
<1>1. Step(c, p) \in Seq(Looking)
  BY DEF Step
<1> QED BY <1>1, ConcatProperties

(* What comes first in every plan are looks, and home is the first of them. *)
LEMMA OnlyLooks ==
  /\ RunInner \in Seq(Looking) /\ RunInner # <<>> /\ RunInner[1] = "home"
  /\ RunExecRaw \in Seq(Looking) /\ RunExecRaw # <<>>
  /\ RunOpenSsh \o OpenSshPreflight \in Seq(Looking)
  /\ RunOpenSsh \o OpenSshPreflight # <<>>
  /\ RunRsync \o RsyncPreflight \in Seq(Looking) /\ RunRsync \o RsyncPreflight # <<>>
<1>1. /\ <<"home">> \in Seq(Looking) /\ <<"paths">> \in Seq(Looking)
      /\ <<"config", "paths">> \in Seq(Looking) /\ <<"client">> \in Seq(Looking)
      /\ <<"client", "peer">> \in Seq(Looking) /\ <<>> \in Seq(Looking)
      /\ {"kind", "probe", "ssh"} \subseteq Looking
  BY DEF Looking
<1>2. ASSUME NEW s \in Seq(Looking), NEW t \in Seq(Looking), s # <<>>
      PROVE  s \o t \in Seq(Looking) /\ s \o t # <<>> /\ (s \o t)[1] = s[1]
  <2>1. Len(s) \in Nat /\ Len(s) > 0 /\ Len(t) \in Nat
    BY <1>2, LenProperties, EmptySeq
  <2>2. s \o t \in Seq(Looking) /\ Len(s \o t) = Len(s) + Len(t)
    BY ConcatProperties
  <2>3. (s \o t)[1] = s[1]
    BY <2>1, ConcatProperties
  <2> QED BY <2>1, <2>2, <2>3, EmptySeq
<1>3. /\ Step(~op.given, "kind") \in Seq(Looking) /\ ProbeKind \in Seq(Looking)
      /\ Step(op.jump, "ssh") \in Seq(Looking)
  BY <1>1, StepLooks DEF ProbeKind
<1>4. RunInner \in Seq(Looking) /\ RunInner # <<>> /\ RunInner[1] = "home"
  BY <1>1, <1>2, <1>3 DEF RunInner
<1>5. RunExecRaw \in Seq(Looking) /\ RunExecRaw # <<>>
  BY <1>1, <1>2, <1>3 DEF RunExecRaw
<1>6. RunOpenSsh \in Seq(Looking) /\ RunOpenSsh # <<>>
  BY <1>1, <1>2, <1>3 DEF RunOpenSsh
<1>7. RunRsync \in Seq(Looking) /\ RunRsync # <<>>
  BY <1>6 DEF RunRsync, RunOpenSsh
<1>8. OpenSshPreflight \in Seq(Looking) /\ RsyncPreflight \in Seq(Looking)
  BY <1>1, <1>3, ConcatProperties DEF OpenSshPreflight, RsyncPreflight
<1> QED BY <1>2, <1>4, <1>5, <1>6, <1>7, <1>8

(* What is done for a file. *)
LEMMA FilesWhole ==
  ASSUME op \in Ops, ~op.dir
  PROVE  IF op.via = "raw" THEN Whole(PutFileExecRaw) /\ Whole(GetFileExecRaw)
                           ELSE Whole(PutFileStaged) /\ Whole(GetFileStaged)
<1>1. CASE op.via = "raw"
  <2>1. Linked(PutFileExecRaw, "source", "commit")
    BY <1>1 DEF PutFileExecRaw, Linked, Phases, Looking, Verifying, Following, Publish,
       InPlace
  <2>2. Linked(GetFileExecRaw, "prepare", "commit")
    BY <1>1 DEF GetFileExecRaw, Linked, Phases, Looking, Verifying, Following, Publish,
       InPlace
  <2> QED BY <1>1, <2>1, <2>2 DEF Whole, Looking, Phases
<1>2. CASE op.via # "raw"
  <2>1. Linked(PutFileStaged, "source", "commit")
    BY <1>2 DEF PutFileStaged, Linked, Phases, Looking, Verifying, Following, Publish,
       InPlace
  <2>2. Linked(GetFileStaged, "prepare", "commit")
    BY <1>2 DEF GetFileStaged, Linked, Phases, Looking, Verifying, Following, Publish,
       InPlace
  <2> QED BY <1>2, <2>1, <2>2 DEF Whole, Looking, Phases
<1> QED BY <1>1, <1>2

(* What is done for a directory: the commit only if it replaces one. *)
LEMMA DirsWhole ==
  ASSUME op \in Ops, op.dir
  PROVE  IF op.via = "raw" THEN Whole(PutDirExecRaw) /\ Whole(GetDirExecRaw)
                           ELSE Whole(PutDirStaged) /\ Whole(GetDirStaged)
<1>1. ASSUME NEW s, NEW a \in Looking \cup {"prepare"},
             NEW b \in {"copy", "check", "count"}, Linked(s, a, b),
             b = "copy" => op.via # "raw"
      PROVE  Whole(s \o Step(op.over, "commit"))
  <2>1. Publish \in Following(b)
    BY <1>1 DEF Following, Looking
  <2>2. Linked(s \o Step(op.over, "commit"), a, IF op.over THEN "commit" ELSE b)
    BY <1>1, <2>1, StepLinked DEF Phases, Publish, InPlace
  <2> QED BY <2>1, <2>2, <1>1 DEF Whole, Phases, Verifying, Publish, InPlace
<1>2. CASE op.via = "raw"
  <2>1. Linked(<<"source", "prepare", "copy", "check">>, "source", "check")
    BY <1>2 DEF Linked, Phases, Looking, Verifying, Following
  <2>2. Linked(<<"prepare", "copy", "check">>, "prepare", "check")
    BY <1>2 DEF Linked, Phases, Looking, Verifying, Following
  <2> QED BY <1>1, <1>2, <2>1, <2>2 DEF PutDirExecRaw, GetDirExecRaw, Looking
<1>3. CASE op.via # "raw"
  <2>1. Linked(<<"source", "prepare">>, "source", "prepare")
    BY DEF Linked, Phases, Looking, Following
  <2>2. op.via = "scp" => "reset" \in Following("prepare")
    BY DEF Following, Looking
  <2> DEFINE begin == <<"source", "prepare">> \o Step(op.via = "scp", "reset")
             ready == IF op.via = "scp" THEN "reset" ELSE "prepare"
  <2>3. Linked(begin, "source", ready)
    BY <2>1, <2>2, StepLinked DEF Phases
  <2>4. "copy" \in Following(ready)
    BY DEF Following, Looking
  <2>5. Linked(<<"copy">>, "copy", "copy")
    BY DEF Linked, Phases
  <2>6. Linked(<<"copy", "count">>, "copy", "count")
    BY <1>3 DEF Linked, Phases, Verifying, Following, Looking
  <2> HIDE DEF begin, ready
  <2>7. Linked(begin \o <<"copy">>, "source", "copy")
    BY <2>3, <2>4, <2>5, JoinLinked
  <2>8. Linked(begin \o <<"copy", "count">>, "source", "count")
    BY <2>3, <2>4, <2>6, JoinLinked
  <2> QED BY <1>1, <1>3, <2>7, <2>8 DEF PutDirStaged, GetDirStaged, begin, Looking
<1> QED BY <1>2, <1>3

(* The plan of every operation over every transport begins at home. *)
LEMMA PlanWhole ==
  ASSUME op \in Ops
  PROVE  Whole(Plan) /\ Plan[1] = "home"
<1>1. op.via \in {"raw", "sftp", "scp", "rsync"}
  BY ViaAssumption DEF Ops
<1>2. op.dir \in BOOLEAN /\ op.put \in BOOLEAN
  BY DEF Ops
<1>3. op.via = "raw" => Whole(Dispatch(PutFileExecRaw, GetFileExecRaw, PutDirExecRaw,
                                       GetDirExecRaw))
  BY <1>2, FilesWhole, DirsWhole DEF Dispatch
<1>4. op.via # "raw" => Whole(Staged)
  BY <1>2, FilesWhole, DirsWhole DEF Dispatch, Staged
<1>5. PICK rest : Plan = RunInner \o rest /\ Whole(rest)
  <2>1. CASE op.via = "raw"
    <3>1. Whole(RunExecRaw \o Dispatch(PutFileExecRaw, GetFileExecRaw, PutDirExecRaw,
                                       GetDirExecRaw))
      BY <1>3, <2>1, OnlyLooks, LooksFirst
    <3> QED BY <2>1, <3>1 DEF Plan
  <2>2. CASE op.via \in {"sftp", "scp"}
    <3>1. Whole(RunOpenSsh \o OpenSshPreflight \o Staged)
      BY <1>4, <2>2, OnlyLooks, LooksFirst
    <3> QED BY <2>2, <3>1 DEF Plan
  <2>3. CASE op.via = "rsync"
    <3>1. Whole(RunRsync \o RsyncPreflight \o Staged)
      BY <1>4, <2>3, OnlyLooks, LooksFirst
    <3> QED BY <2>3, <3>1 DEF Plan
  <2> QED BY <1>1, <2>1, <2>2, <2>3
<1>6. Whole(Plan)
  BY <1>5, OnlyLooks, LooksFirst
<1>7. Plan[1] = "home"
  <2>1. RunInner \in Seq(Phases) /\ rest \in Seq(Phases)
    BY <1>5, OnlyLooks, SeqMonotonic DEF Whole, Linked, Phases
  <2>2. Len(RunInner) \in Nat /\ Len(RunInner) > 0 /\ Len(rest) \in Nat
    BY <2>1, OnlyLooks, LenProperties, EmptySeq
  <2>3. (RunInner \o rest)[1] = RunInner[1]
    BY <2>1, <2>2, ConcatProperties
  <2> QED BY <1>5, <2>3, OnlyLooks
<1> QED BY <1>6, <1>7

(* What comes after a phase of the plan may follow it, and is a phase of   *)
(* the plan again.                                                         *)
LEMMA PhaseFollows ==
  ASSUME op \in Ops, NEW p \in Passed, InPlan(p)
  PROVE  /\ After(p) \in Following(p)
         /\ After(p) \in Phases => InPlan(After(p))
<1>1. PICK first \in Looking \cup {"prepare"}, last \in Phases :
        Linked(Plan, first, last) /\ (last = "commit" \/ "end" \in Following(last))
  BY PlanWhole DEF Whole
<1> DEFINE i == CHOOSE k \in 1..Len(Plan) : Plan[k] = p
<1>2. i \in 1..Len(Plan) /\ Plan[i] = p
  BY DEF InPlan
<1>3. After(p) = IF i = Len(Plan) THEN "end" ELSE Plan[i + 1]
  BY DEF After
<1>4. Len(Plan) \in Nat
  BY <1>1, LenProperties DEF Linked
<1> HIDE DEF i
<1>5. CASE i = Len(Plan)
  BY <1>1, <1>2, <1>3, <1>5 DEF Linked, Passed, Phases, Looking, Verifying
<1>6. CASE i # Len(Plan)
  <2>1. i \in 1..Len(Plan) - 1 /\ i + 1 \in 1..Len(Plan)
    BY <1>2, <1>4, <1>6
  <2> QED BY <1>1, <1>2, <1>3, <1>6, <2>1 DEF Linked, InPlan
<1> QED BY <1>5, <1>6

-----------------------------------------------------------------------------
(* The invariant *)

(* The plan is that of the operation, which stays the same. *)
LEMMA PlanKept == ASSUME UNCHANGED op, NEW p PROVE InPlan(p)' <=> InPlan(p)
<1>1. UNCHANGED <<RunInner, ProbeKind, RunExecRaw, RunOpenSsh, RunRsync,
                  OpenSshPreflight, RsyncPreflight, PutDirStaged, GetDirStaged,
                  PutDirExecRaw, GetDirExecRaw>>
  BY DEF RunInner, ProbeKind, RunExecRaw, RunOpenSsh, RunRsync, OpenSshPreflight,
         RsyncPreflight, PutDirStaged, GetDirStaged, PutDirExecRaw, GetDirExecRaw
<1>2. UNCHANGED Plan
  BY <1>1 DEF Plan, Staged, Dispatch, PutFileStaged, GetFileStaged, PutFileExecRaw,
     GetFileExecRaw
<1> QED BY <1>2 DEF InPlan

(* The initial states. *)
LEMMA InitInv == Init => IndInv
<1> SUFFICES ASSUME Init PROVE IndInv
  OBVIOUS
<1>1. InPlan("home")
  <2>1. Len(Plan) \in Nat \ {0} /\ Plan[1] = "home"
    BY PlanWhole, EmptySeq DEF Init, Whole, Linked
  <2> QED BY <2>1 DEF InPlan
<1>2. Flags /\ Shape
  BY DEF Init, Flags, Shape, Contents, WorkerPcs, CheckPhases
<1> QED
  BY <1>1, <1>2 DEF Init, IndInv, PlanInv, BeforeInv, AsItWas, InPlaceInv, StageInv,
     BackupInv, OldNeverLost, EndInv, Looking, Verifying, Phases, Owning, Replacing

(* A look that may refuse; a file that was downloaded may be looked at. *)
LEMMA CheckPreserves ==
  ASSUME IndInv, NEW phase \in Looking \cup {"size", "sync"}, CheckAt(phase)
  PROVE  IndInv'
<1> USE DEF IndInv, CheckAt, Goto, Fail, unasked, paths, Restored, AsItWas,
        CutUnnoticed, ScpWindow, MadeRoom, mishaps, InPlace, Following, Publish,
        Looking, Verifying, Phases, Passed, Owning, Replacing, CheckPhases,
        WorkerPcs, Contents
<1>1. UNCHANGED op /\ UNCHANGED was
  OBVIOUS
<1>2. \A p : InPlan(p)' <=> InPlan(p)
  BY <1>1, PlanKept
<1>3. at \in Passed /\ InPlan(at)
  BY DEF PlanInv
<1>4. After(at) \in Following(at) /\ (After(at) \in Phases => InPlan(After(at)))
  BY <1>3, PhaseFollows DEF Shape
<1>5. Flags'
  BY DEF Flags
<1>6. Shape'
  BY <1>4 DEF Shape
<1>7. PlanInv'
  BY <1>2, <1>4 DEF PlanInv
<1>8. BeforeInv'
  BY <1>4 DEF BeforeInv
<1>9. InPlaceInv'
  BY <1>4 DEF InPlaceInv
<1>10. StageInv'
  BY <1>4 DEF StageInv, PlanInv, BeforeInv
<1>11. BackupInv'
  BY <1>4 DEF BackupInv
<1>12. OldNeverLost'
  BY DEF OldNeverLost
<1>13. EndInv'
  BY <1>4 DEF EndInv, PlanInv, BeforeInv, InPlaceInv
<1> QED BY <1>5, <1>6, <1>7, <1>8, <1>9, <1>10, <1>11, <1>12, <1>13

(* ClientRuns: a client of OpenSSH or rsync copies. *)
LEMMA ClientRunsPreserves == ASSUME IndInv, ClientRuns, op.via # "raw" PROVE IndInv'
<1> USE DEF IndInv, ClientRuns, Goto, FailOwning, SetTarget, Target, unasked, paths,
        Restored, AsItWas, CutUnnoticed, ScpWindow, MadeRoom, mishaps, InPlace,
        Following, Publish, Looking, Verifying, Phases, Passed, Owning, Replacing,
        CheckPhases, WorkerPcs, Contents
<1>1. UNCHANGED op /\ UNCHANGED was
  OBVIOUS
<1>2. \A p : InPlan(p)' <=> InPlan(p)
  BY <1>1, PlanKept
<1>3. at \in Passed /\ InPlan(at)
  BY DEF PlanInv
<1>4. After(at) \in Following(at) /\ (After(at) \in Phases => InPlan(After(at)))
  BY <1>3, PhaseFollows DEF Shape
<1>5. Flags'
  BY DEF Flags
<1>6. Shape'
  BY <1>4 DEF Shape
<1>7. PlanInv'
  BY <1>2, <1>4 DEF PlanInv
<1>8. BeforeInv'
  BY <1>4 DEF BeforeInv
<1>9. InPlaceInv'
  BY DEF InPlaceInv, BeforeInv
<1>10. StageInv'
  BY DEF StageInv, Shape
<1>11. BackupInv'
  BY <1>4 DEF BackupInv
<1>12. OldNeverLost'
  BY DEF OldNeverLost, InPlaceInv
<1>13. EndInv'
  BY <1>4 DEF EndInv, BeforeInv, InPlaceInv
<1> QED BY <1>5, <1>6, <1>7, <1>8, <1>9, <1>10, <1>11, <1>12, <1>13

(* RawStreams: a raw stream copies. *)
LEMMA RawStreamsPreserves == ASSUME IndInv, RawStreams PROVE IndInv'
<1> USE DEF IndInv, RawStreams, Goto, FailOwning, SetTarget, unasked, paths,
        Restored, AsItWas, CutUnnoticed, ScpWindow, MadeRoom, mishaps, InPlace,
        Following, Publish, Looking, Verifying, Phases, Passed, Owning, Replacing,
        CheckPhases, WorkerPcs, Contents
<1>1. UNCHANGED op /\ UNCHANGED was
  OBVIOUS
<1>2. \A p : InPlan(p)' <=> InPlan(p)
  BY <1>1, PlanKept
<1>3. at \in Passed /\ InPlan(at)
  BY DEF PlanInv
<1>4. After(at) \in Following(at) /\ (After(at) \in Phases => InPlan(After(at)))
  BY <1>3, PhaseFollows DEF Shape
<1>5. Flags'
  BY DEF Flags
<1>6. Shape'
  BY <1>4 DEF Shape
<1>7. PlanInv'
  BY <1>2, <1>4 DEF PlanInv
<1>8. BeforeInv'
  BY <1>4 DEF BeforeInv
<1>9. InPlaceInv'
  BY DEF InPlaceInv
<1>10. StageInv'
  BY <1>4 DEF StageInv
<1>11. BackupInv'
  BY <1>4 DEF BackupInv
<1>12. OldNeverLost'
  BY DEF OldNeverLost, InPlaceInv, BeforeInv
<1>13. EndInv'
  BY <1>4 DEF EndInv, BeforeInv
<1> QED BY <1>5, <1>6, <1>7, <1>8, <1>9, <1>10, <1>11, <1>12, <1>13

(* CountDir: a downloaded directory is counted. *)
LEMMA CountDirPreserves == ASSUME IndInv, CountDir PROVE IndInv'
<1> USE DEF IndInv, CountDir, Goto, FailOwning, unasked, paths, Restored, AsItWas,
        CutUnnoticed, ScpWindow, MadeRoom, mishaps, InPlace, Following, Publish,
        Looking, Verifying, Phases, Passed, Owning, Replacing, CheckPhases,
        WorkerPcs, Contents
<1>1. UNCHANGED op /\ UNCHANGED was
  OBVIOUS
<1>2. \A p : InPlan(p)' <=> InPlan(p)
  BY <1>1, PlanKept
<1>3. at \in Passed /\ InPlan(at)
  BY DEF PlanInv
<1>4. After(at) \in Following(at) /\ (After(at) \in Phases => InPlan(After(at)))
  BY <1>3, PhaseFollows DEF Shape
<1>5. Flags'
  BY DEF Flags
<1>6. Shape'
  BY <1>4 DEF Shape
<1>7. PlanInv'
  BY <1>2, <1>4 DEF PlanInv
<1>8. BeforeInv'
  BY <1>4 DEF BeforeInv
<1>9. InPlaceInv'
  BY DEF InPlaceInv
<1>10. StageInv'
  BY DEF StageInv, PlanInv, BeforeInv
<1>11. BackupInv'
  BY <1>4 DEF BackupInv
<1>12. OldNeverLost'
  BY DEF OldNeverLost
<1>13. EndInv'
  BY <1>4 DEF EndInv, PlanInv, BeforeInv, InPlaceInv
<1> QED BY <1>5, <1>6, <1>7, <1>8, <1>9, <1>10, <1>11, <1>12, <1>13

(* Prepare: the stage is ours from here on. *)
LEMMA PreparePreserves == ASSUME IndInv, Prepare PROVE IndInv'
<1> USE DEF IndInv, Prepare, Goto, Fail, unasked, paths, Restored, AsItWas,
        CutUnnoticed, ScpWindow, MadeRoom, mishaps, InPlace, Following, Publish,
        Looking, Verifying, Phases, Passed, Owning, Replacing, CheckPhases,
        WorkerPcs, Contents
<1>1. UNCHANGED op /\ UNCHANGED was
  OBVIOUS
<1>2. \A p : InPlan(p)' <=> InPlan(p)
  BY <1>1, PlanKept
<1>3. at \in Passed /\ InPlan(at)
  BY DEF PlanInv
<1>4. After(at) \in Following(at) /\ (After(at) \in Phases => InPlan(After(at)))
  BY <1>3, PhaseFollows DEF Shape
<1>5. Flags'
  BY DEF Flags
<1>6. Shape'
  BY <1>4 DEF Shape
<1>7. PlanInv'
  BY <1>2, <1>4 DEF PlanInv
<1>8. BeforeInv'
  BY DEF BeforeInv
<1>9. InPlaceInv'
  BY DEF InPlaceInv
<1>10. StageInv'
  BY <1>4 DEF StageInv
<1>11. BackupInv'
  BY <1>4 DEF BackupInv
<1>12. OldNeverLost'
  BY DEF OldNeverLost, BeforeInv
<1>13. EndInv'
  BY <1>4 DEF EndInv, BeforeInv
<1> QED BY <1>5, <1>6, <1>7, <1>8, <1>9, <1>10, <1>11, <1>12, <1>13

(* PrepareInPlace: the destination is ours from here on. *)
LEMMA PrepareInPlacePreserves == ASSUME IndInv, PrepareInPlace PROVE IndInv'
<1> USE DEF IndInv, PrepareInPlace, Goto, Fail, unasked, paths, Restored, AsItWas,
        CutUnnoticed, ScpWindow, MadeRoom, mishaps, InPlace, Following, Publish,
        Looking, Verifying, Phases, Passed, Owning, Replacing, CheckPhases,
        WorkerPcs, Contents
<1>1. UNCHANGED op /\ UNCHANGED was
  OBVIOUS
<1>2. \A p : InPlan(p)' <=> InPlan(p)
  BY <1>1, PlanKept
<1>3. at \in Passed /\ InPlan(at)
  BY DEF PlanInv
<1>4. After(at) \in Following(at) /\ (After(at) \in Phases => InPlan(After(at)))
  BY <1>3, PhaseFollows DEF Shape
<1>5. Flags'
  BY DEF Flags
<1>6. Shape'
  BY <1>4 DEF Shape
<1>7. PlanInv'
  BY <1>2, <1>4 DEF PlanInv
<1>8. BeforeInv'
  BY <1>4 DEF BeforeInv
<1>9. InPlaceInv'
  BY <1>4 DEF InPlaceInv, BeforeInv
<1>10. StageInv'
  BY DEF StageInv
<1>11. BackupInv'
  BY <1>4 DEF BackupInv
<1>12. OldNeverLost'
  BY DEF OldNeverLost, BeforeInv
<1>13. EndInv'
  BY <1>4 DEF EndInv, BeforeInv
<1> QED BY <1>5, <1>6, <1>7, <1>8, <1>9, <1>10, <1>11, <1>12, <1>13

(* ResetScp: what was prepared is removed. *)
LEMMA ResetScpPreserves == ASSUME IndInv, ResetScp PROVE IndInv'
<1> USE DEF IndInv, ResetScp, Goto, FailOwning, SetTarget, unasked, paths, Restored,
        AsItWas, CutUnnoticed, ScpWindow, MadeRoom, mishaps, InPlace, Following,
        Publish, Looking, Verifying, Phases, Passed, Owning, Replacing, CheckPhases,
        WorkerPcs, Contents
<1>1. UNCHANGED op /\ UNCHANGED was
  OBVIOUS
<1>2. \A p : InPlan(p)' <=> InPlan(p)
  BY <1>1, PlanKept
<1>3. at \in Passed /\ InPlan(at)
  BY DEF PlanInv
<1>4. After(at) \in Following(at) /\ (After(at) \in Phases => InPlan(After(at)))
  BY <1>3, PhaseFollows DEF Shape
<1>5. Flags'
  BY DEF Flags
<1>6. Shape'
  BY <1>4 DEF Shape
<1>7. PlanInv'
  BY <1>2, <1>4 DEF PlanInv
<1>8. BeforeInv'
  BY <1>4 DEF BeforeInv
<1>9. InPlaceInv'
  BY <1>4 DEF InPlaceInv, PlanInv
<1>10. StageInv'
  BY <1>4 DEF StageInv, PlanInv
<1>11. BackupInv'
  BY <1>4 DEF BackupInv
<1>12. OldNeverLost'
  BY DEF OldNeverLost, InPlaceInv, BeforeInv
<1>13. EndInv'
  BY <1>4 DEF EndInv, BeforeInv, InPlaceInv
<1> QED BY <1>5, <1>6, <1>7, <1>8, <1>9, <1>10, <1>11, <1>12, <1>13

(* CheckCopy: only a cut that nobody can notice passes. *)
LEMMA CheckCopyPreserves == ASSUME IndInv, CheckCopy PROVE IndInv'
<1> USE DEF IndInv, CheckCopy, CheckCopyOf, Goto, FailOwning, unasked, paths,
        Restored, AsItWas, CutUnnoticed, ScpWindow, MadeRoom, mishaps, InPlace,
        Following, Publish, Looking, Verifying, Phases, Passed, Owning, Replacing,
        CheckPhases, WorkerPcs, Contents
<1>1. UNCHANGED op /\ UNCHANGED was
  OBVIOUS
<1>2. \A p : InPlan(p)' <=> InPlan(p)
  BY <1>1, PlanKept
<1>3. at \in Passed /\ InPlan(at)
  BY DEF PlanInv
<1>4. After(at) \in Following(at) /\ (After(at) \in Phases => InPlan(After(at)))
  BY <1>3, PhaseFollows DEF Shape
<1>5. Flags'
  BY DEF Flags
<1>6. Shape'
  BY <1>4 DEF Shape
<1>7. PlanInv'
  BY <1>2, <1>4 DEF PlanInv
<1>8. BeforeInv'
  BY <1>4 DEF BeforeInv
<1>9. InPlaceInv'
  BY DEF InPlaceInv
<1>10. StageInv'
  BY DEF StageInv
<1>11. BackupInv'
  BY <1>4 DEF BackupInv
<1>12. OldNeverLost'
  BY DEF OldNeverLost
<1>13. EndInv'
  BY <1>4 DEF EndInv, BeforeInv, InPlaceInv
<1> QED BY <1>5, <1>6, <1>7, <1>8, <1>9, <1>10, <1>11, <1>12, <1>13

(* CommitReplace: a whole stage, or a cut that nobody noticed, is the destination. *)
LEMMA CommitReplacePreserves == ASSUME IndInv, CommitReplace PROVE IndInv'
<1> USE DEF IndInv, CommitReplace, Goto, FailOwning, unasked, paths, Restored,
        AsItWas, CutUnnoticed, ScpWindow, MadeRoom, mishaps, InPlace, Looking,
        Verifying, Phases, Passed, Owning, Replacing, CheckPhases, WorkerPcs,
        Contents
<1>1. UNCHANGED op /\ UNCHANGED was
  OBVIOUS
<1>2. \A p : InPlan(p)' <=> InPlan(p)
  BY <1>1, PlanKept
<1>3. Flags'
  BY DEF Flags
<1>4. Shape'
  BY DEF Shape, StageInv
<1>5. PlanInv'
  BY DEF PlanInv
<1>6. BeforeInv'
  BY DEF BeforeInv, Shape
<1>7. InPlaceInv'
  BY DEF InPlaceInv
<1>8. StageInv'
  BY DEF StageInv
<1>9. BackupInv'
  BY DEF BackupInv
<1>10. OldNeverLost'
  BY DEF OldNeverLost, StageInv
<1>11. EndInv'
  BY DEF EndInv, BeforeInv, StageInv
<1> QED BY <1>3, <1>4, <1>5, <1>6, <1>7, <1>8, <1>9, <1>10, <1>11

(* ReplaceUnlink: the whole stage waits for the name. *)
LEMMA ReplaceUnlinkPreserves == ASSUME IndInv, ReplaceUnlink PROVE IndInv'
<1> USE DEF IndInv, ReplaceUnlink, Goto, FailOwning, unasked, paths, Restored,
        AsItWas, CutUnnoticed, ScpWindow, MadeRoom, mishaps, InPlace, Looking,
        Verifying, Phases, Passed, Owning, Replacing, CheckPhases, WorkerPcs,
        Contents
<1>1. UNCHANGED op /\ UNCHANGED was
  OBVIOUS
<1>2. \A p : InPlan(p)' <=> InPlan(p)
  BY <1>1, PlanKept
<1>3. Flags'
  BY DEF Flags
<1>4. Shape'
  BY DEF Shape, StageInv
<1>5. PlanInv'
  BY DEF PlanInv
<1>6. BeforeInv'
  BY DEF BeforeInv, Shape, PlanInv
<1>7. InPlaceInv'
  BY DEF InPlaceInv
<1>8. StageInv'
  BY DEF StageInv
<1>9. BackupInv'
  BY DEF BackupInv
<1>10. OldNeverLost'
  BY DEF OldNeverLost, StageInv, PlanInv, BeforeInv
<1>11. EndInv'
  BY DEF EndInv, BeforeInv, StageInv
<1> QED BY <1>3, <1>4, <1>5, <1>6, <1>7, <1>8, <1>9, <1>10, <1>11

(* ReplaceAgain: the stage is the destination, or both are gone. *)
LEMMA ReplaceAgainPreserves == ASSUME IndInv, ReplaceAgain PROVE IndInv'
<1> USE DEF IndInv, ReplaceAgain, Goto, FailOwning, unasked, paths, Restored,
        AsItWas, CutUnnoticed, ScpWindow, MadeRoom, mishaps, InPlace, Looking,
        Verifying, Phases, Passed, Owning, Replacing, CheckPhases, WorkerPcs,
        Contents
<1>1. UNCHANGED op /\ UNCHANGED was
  OBVIOUS
<1>2. \A p : InPlan(p)' <=> InPlan(p)
  BY <1>1, PlanKept
<1>3. Flags'
  BY DEF Flags
<1>4. Shape'
  BY DEF Shape, StageInv, PlanInv
<1>5. PlanInv'
  BY DEF PlanInv
<1>6. BeforeInv'
  BY DEF BeforeInv, Shape
<1>7. InPlaceInv'
  BY DEF InPlaceInv, PlanInv
<1>8. StageInv'
  BY DEF StageInv
<1>9. BackupInv'
  BY DEF BackupInv
<1>10. OldNeverLost'
  BY DEF OldNeverLost, StageInv, PlanInv, BeforeInv
<1>11. EndInv'
  BY DEF EndInv, BeforeInv, StageInv, PlanInv
<1> QED BY <1>3, <1>4, <1>5, <1>6, <1>7, <1>8, <1>9, <1>10, <1>11

(* CommitLink: the name was free. *)
LEMMA CommitLinkPreserves == ASSUME IndInv, CommitLink PROVE IndInv'
<1> USE DEF IndInv, CommitLink, CommitLinkIf, Goto, FailOwning, unasked, paths,
        Restored, AsItWas, CutUnnoticed, ScpWindow, MadeRoom, mishaps, InPlace,
        Looking, Verifying, Phases, Passed, Owning, Replacing, CheckPhases,
        WorkerPcs, Contents
<1>1. UNCHANGED op /\ UNCHANGED was
  OBVIOUS
<1>2. \A p : InPlan(p)' <=> InPlan(p)
  BY <1>1, PlanKept
<1>3. Flags'
  BY DEF Flags
<1>4. Shape'
  BY DEF Shape, StageInv
<1>5. PlanInv'
  BY DEF PlanInv
<1>6. BeforeInv'
  BY DEF BeforeInv, Shape
<1>7. InPlaceInv'
  BY DEF InPlaceInv
<1>8. StageInv'
  BY DEF StageInv
<1>9. BackupInv'
  BY DEF BackupInv
<1>10. OldNeverLost'
  BY DEF OldNeverLost
<1>11. EndInv'
  BY DEF EndInv, BeforeInv, StageInv
<1> QED BY <1>3, <1>4, <1>5, <1>6, <1>7, <1>8, <1>9, <1>10, <1>11

(* CommitBackup: what was there is under the backup's name. *)
LEMMA CommitBackupPreserves == ASSUME IndInv, CommitBackup PROVE IndInv'
<1> USE DEF IndInv, CommitBackup, Goto, FailOwning, unasked, paths, Restored,
        AsItWas, CutUnnoticed, ScpWindow, MadeRoom, mishaps, InPlace, Looking,
        Verifying, Phases, Passed, Owning, Replacing, CheckPhases, WorkerPcs,
        Contents
<1>1. UNCHANGED op /\ UNCHANGED was
  OBVIOUS
<1>2. \A p : InPlan(p)' <=> InPlan(p)
  BY <1>1, PlanKept
<1>3. Flags'
  BY DEF Flags
<1>4. Shape'
  BY DEF Shape, BeforeInv
<1>5. PlanInv'
  BY DEF PlanInv
<1>6. BeforeInv'
  BY DEF BeforeInv, PlanInv
<1>7. InPlaceInv'
  BY DEF InPlaceInv, PlanInv
<1>8. StageInv'
  BY <1>1 DEF StageInv, Flags, PlanInv, EndInv
<1>9. BackupInv'
  BY DEF BackupInv, Shape, BeforeInv
<1>10. OldNeverLost'
  BY DEF OldNeverLost, BeforeInv
<1>11. EndInv'
  BY DEF EndInv, BeforeInv
<1> QED BY <1>3, <1>4, <1>5, <1>6, <1>7, <1>8, <1>9, <1>10, <1>11

(* Install: the stage gets the name, or nothing has changed. *)
LEMMA InstallPreserves == ASSUME IndInv, Install PROVE IndInv'
<1> USE DEF IndInv, Install, Goto, unasked, paths, Restored, AsItWas, CutUnnoticed,
        ScpWindow, MadeRoom, mishaps, InPlace, Looking, Verifying, Phases, Passed,
        Owning, Replacing, CheckPhases, WorkerPcs, Contents
<1>1. UNCHANGED op /\ UNCHANGED was
  OBVIOUS
<1>2. \A p : InPlan(p)' <=> InPlan(p)
  BY <1>1, PlanKept
<1>3. Flags'
  BY DEF Flags
<1>4. Shape'
  BY DEF Shape, PlanInv, StageInv
<1>5. PlanInv'
  BY DEF PlanInv
<1>6. BeforeInv'
  BY DEF BeforeInv, Shape
<1>7. InPlaceInv'
  BY DEF InPlaceInv
<1>8. StageInv'
  BY DEF StageInv
<1>9. BackupInv'
  BY DEF BackupInv, PlanInv, BeforeInv, StageInv
<1>10. OldNeverLost'
  BY DEF OldNeverLost
<1>11. EndInv'
  BY DEF EndInv
<1> QED BY <1>3, <1>4, <1>5, <1>6, <1>7, <1>8, <1>9, <1>10, <1>11

(* RollBack: what was there gets its name back or is named. *)
LEMMA RollBackPreserves == ASSUME IndInv, RollBack PROVE IndInv'
<1> USE DEF IndInv, RollBack, RollBackTo, Goto, FailOwning, unasked, paths,
        Restored, AsItWas, CutUnnoticed, ScpWindow, MadeRoom, mishaps, InPlace,
        Looking, Verifying, Phases, Passed, Owning, Replacing, CheckPhases,
        WorkerPcs, Contents
<1>1. UNCHANGED op /\ UNCHANGED was
  OBVIOUS
<1>2. \A p : InPlan(p)' <=> InPlan(p)
  BY <1>1, PlanKept
<1>3. Flags'
  BY DEF Flags
<1>4. Shape'
  BY DEF Shape, BackupInv
<1>5. PlanInv'
  BY DEF PlanInv
<1>6. BeforeInv'
  BY DEF BeforeInv
<1>7. InPlaceInv'
  BY DEF InPlaceInv, PlanInv
<1>8. StageInv'
  BY DEF StageInv
<1>9. BackupInv'
  BY DEF BackupInv
<1>10. OldNeverLost'
  BY DEF OldNeverLost
<1>11. EndInv'
  BY DEF EndInv, BackupInv
<1> QED BY <1>3, <1>4, <1>5, <1>6, <1>7, <1>8, <1>9, <1>10, <1>11

(* RemoveBackup: the source is in place, so the old tree may go. *)
LEMMA RemoveBackupPreserves == ASSUME IndInv, RemoveBackup PROVE IndInv'
<1> USE DEF IndInv, RemoveBackup, RemoveBackupIf, Goto, unasked, paths, Restored,
        AsItWas, CutUnnoticed, ScpWindow, MadeRoom, mishaps, InPlace, Looking,
        Verifying, Phases, Passed, Owning, Replacing, CheckPhases, WorkerPcs,
        Contents
<1>1. UNCHANGED op /\ UNCHANGED was
  OBVIOUS
<1>2. \A p : InPlan(p)' <=> InPlan(p)
  BY <1>1, PlanKept
<1>3. Flags'
  BY DEF Flags
<1>4. Shape'
  BY DEF Shape
<1>5. PlanInv'
  BY DEF PlanInv
<1>6. BeforeInv'
  BY DEF BeforeInv
<1>7. InPlaceInv'
  BY DEF InPlaceInv
<1>8. StageInv'
  BY DEF StageInv
<1>9. BackupInv'
  BY DEF BackupInv
<1>10. OldNeverLost'
  BY DEF OldNeverLost, BackupInv
<1>11. EndInv'
  BY DEF EndInv, BackupInv
<1> QED BY <1>3, <1>4, <1>5, <1>6, <1>7, <1>8, <1>9, <1>10, <1>11

(* Clean: only what is ours is removed. *)
LEMMA CleanPreserves == ASSUME IndInv, Clean PROVE IndInv'
<1> USE DEF IndInv, Clean, Goto, SetTarget, unasked, paths, Restored, AsItWas,
        CutUnnoticed, ScpWindow, MadeRoom, mishaps, InPlace, Looking, Verifying,
        Phases, Passed, Owning, Replacing, CheckPhases, WorkerPcs, Contents
<1>1. UNCHANGED op /\ UNCHANGED was
  OBVIOUS
<1>2. \A p : InPlan(p)' <=> InPlan(p)
  BY <1>1, PlanKept
<1>3. Flags'
  BY DEF Flags
<1>4. Shape'
  BY DEF Shape
<1>5. PlanInv'
  BY DEF PlanInv
<1>6. BeforeInv'
  BY DEF BeforeInv
<1>7. InPlaceInv'
  BY DEF InPlaceInv
<1>8. StageInv'
  BY DEF StageInv
<1>9. BackupInv'
  BY DEF BackupInv
<1>10. OldNeverLost'
  BY DEF OldNeverLost, InPlaceInv, BeforeInv, EndInv
<1>11. EndInv'
  BY DEF EndInv, InPlaceInv
<1> QED BY <1>3, <1>4, <1>5, <1>6, <1>7, <1>8, <1>9, <1>10, <1>11

(* Answer: the answer is that of the end. *)
LEMMA AnswerPreserves == ASSUME IndInv, Answer PROVE IndInv'
<1> USE DEF IndInv, Answer, unasked, paths, Restored, AsItWas, CutUnnoticed,
        ScpWindow, MadeRoom, mishaps, InPlace, Looking, Verifying, Phases, Passed,
        Owning, Replacing, CheckPhases, WorkerPcs, Contents
<1>1. UNCHANGED op /\ UNCHANGED was
  OBVIOUS
<1>2. \A p : InPlan(p)' <=> InPlan(p)
  BY <1>1, PlanKept
<1>3. Flags'
  BY DEF Flags
<1>4. Shape'
  BY DEF Shape
<1>5. PlanInv'
  BY DEF PlanInv
<1>6. BeforeInv'
  BY DEF BeforeInv
<1>7. InPlaceInv'
  BY DEF InPlaceInv
<1>8. StageInv'
  BY DEF StageInv
<1>9. BackupInv'
  BY DEF BackupInv
<1>10. OldNeverLost'
  BY DEF OldNeverLost
<1>11. EndInv'
  BY DEF EndInv
<1> QED BY <1>3, <1>4, <1>5, <1>6, <1>7, <1>8, <1>9, <1>10, <1>11

(* StatusMissing: nobody waits any more. *)
LEMMA StatusMissingPreserves == ASSUME IndInv, StatusMissing PROVE IndInv'
<1> USE DEF IndInv, StatusMissing, OneScript, unasked, paths, Restored, AsItWas,
        CutUnnoticed, ScpWindow, MadeRoom, mishaps, InPlace, Looking, Verifying,
        Phases, Passed, Owning, Replacing, CheckPhases, WorkerPcs, Contents
<1>1. UNCHANGED op /\ UNCHANGED was
  OBVIOUS
<1>2. \A p : InPlan(p)' <=> InPlan(p)
  BY <1>1, PlanKept
<1>3. Flags'
  BY DEF Flags
<1>4. Shape'
  BY DEF Shape
<1>5. PlanInv'
  BY <1>2 DEF PlanInv
<1>6. BeforeInv'
  BY DEF BeforeInv
<1>7. InPlaceInv'
  BY DEF InPlaceInv
<1>8. StageInv'
  BY <1>1 DEF StageInv, Flags
<1>9. BackupInv'
  BY <1>1 DEF BackupInv, Flags
<1>10. OldNeverLost'
  BY <1>1 DEF OldNeverLost, Flags
<1>11. EndInv'
  BY DEF EndInv
<1> QED BY <1>3, <1>4, <1>5, <1>6, <1>7, <1>8, <1>9, <1>10, <1>11

(* GiveUp: nobody waits any more. *)
LEMMA GiveUpPreserves == ASSUME IndInv, GiveUp PROVE IndInv'
<1> USE DEF IndInv, GiveUp, LocalPcs, OneScript, unasked, paths, Restored, AsItWas,
        CutUnnoticed, ScpWindow, MadeRoom, mishaps, InPlace, Looking, Verifying,
        Phases, Passed, Owning, Replacing, CheckPhases, WorkerPcs, Contents
<1>1. UNCHANGED op /\ UNCHANGED was
  OBVIOUS
<1>2. \A p : InPlan(p)' <=> InPlan(p)
  BY <1>1, PlanKept
<1>3. Flags'
  BY DEF Flags
<1>4. Shape'
  BY DEF Shape
<1>5. PlanInv'
  BY <1>2 DEF PlanInv
<1>6. BeforeInv'
  BY DEF BeforeInv
<1>7. InPlaceInv'
  BY DEF InPlaceInv, PlanInv
<1>8. StageInv'
  BY DEF StageInv
<1>9. BackupInv'
  BY DEF BackupInv
<1>10. OldNeverLost'
  BY DEF OldNeverLost
<1>11. EndInv'
  BY DEF EndInv
<1> QED BY <1>3, <1>4, <1>5, <1>6, <1>7, <1>8, <1>9, <1>10, <1>11

(* WorkerDies: only what is ours is removed. *)
LEMMA WorkerDiesPreserves == ASSUME IndInv, WorkerDies PROVE IndInv'
<1> USE DEF IndInv, WorkerDies, Goto, SetTarget, OneScript, unasked, paths,
        Restored, AsItWas, CutUnnoticed, ScpWindow, MadeRoom, mishaps, InPlace,
        Looking, Verifying, Phases, Passed, Owning, Replacing, CheckPhases,
        WorkerPcs, Contents
<1>1. UNCHANGED op /\ UNCHANGED was
  OBVIOUS
<1>2. \A p : InPlan(p)' <=> InPlan(p)
  BY <1>1, PlanKept
<1>3. Flags'
  BY DEF Flags
<1>4. Shape'
  BY DEF Shape
<1>5. PlanInv'
  BY DEF PlanInv
<1>6. BeforeInv'
  BY DEF BeforeInv
<1>7. InPlaceInv'
  BY DEF InPlaceInv
<1>8. StageInv'
  BY DEF StageInv
<1>9. BackupInv'
  BY DEF BackupInv
<1>10. OldNeverLost'
  BY <1>1 DEF OldNeverLost, Flags, InPlaceInv, BeforeInv
<1>11. EndInv'
  BY DEF EndInv
<1> QED BY <1>3, <1>4, <1>5, <1>6, <1>7, <1>8, <1>9, <1>10, <1>11

(* Sweep: only what is ours is removed. *)
LEMMA SweepPreserves == ASSUME IndInv, Sweep PROVE IndInv'
<1> USE DEF IndInv, Sweep, SetTarget, unasked, paths, Restored, AsItWas,
        CutUnnoticed, ScpWindow, MadeRoom, mishaps, InPlace, Looking, Verifying,
        Phases, Passed, Owning, Replacing, CheckPhases, WorkerPcs, Contents
<1>1. UNCHANGED op /\ UNCHANGED was
  OBVIOUS
<1>2. \A p : InPlan(p)' <=> InPlan(p)
  BY <1>1, PlanKept
<1>3. Flags'
  BY DEF Flags
<1>4. Shape'
  BY DEF Shape
<1>5. PlanInv'
  BY <1>2 DEF PlanInv
<1>6. BeforeInv'
  BY DEF BeforeInv, InPlaceInv
<1>7. InPlaceInv'
  BY DEF InPlaceInv, EndInv
<1>8. StageInv'
  BY DEF StageInv, EndInv, PlanInv
<1>9. BackupInv'
  BY DEF BackupInv, PlanInv
<1>10. OldNeverLost'
  BY DEF OldNeverLost, InPlaceInv, BeforeInv, EndInv
<1>11. EndInv'
  BY DEF EndInv, InPlaceInv
<1> QED BY <1>3, <1>4, <1>5, <1>6, <1>7, <1>8, <1>9, <1>10, <1>11

(* StrangerCreates: a free name is taken. *)
LEMMA StrangerCreatesPreserves == ASSUME IndInv, StrangerCreates PROVE IndInv'
<1> USE DEF IndInv, StrangerCreates, unasked, paths, Restored, AsItWas,
        CutUnnoticed, ScpWindow, MadeRoom, mishaps, InPlace, Looking, Verifying,
        Phases, Passed, Owning, Replacing, CheckPhases, WorkerPcs, Contents
<1>1. UNCHANGED op /\ UNCHANGED was
  OBVIOUS
<1>2. \A p : InPlan(p)' <=> InPlan(p)
  BY <1>1, PlanKept
<1>3. Flags'
  BY DEF Flags
<1>4. Shape'
  BY DEF Shape
<1>5. PlanInv'
  BY <1>2 DEF PlanInv
<1>6. BeforeInv'
  BY DEF BeforeInv
<1>7. InPlaceInv'
  BY DEF InPlaceInv
<1>8. StageInv'
  BY DEF StageInv
<1>9. BackupInv'
  BY DEF BackupInv
<1>10. OldNeverLost'
  BY DEF OldNeverLost
<1>11. EndInv'
  BY DEF EndInv, BackupInv
<1> QED BY <1>3, <1>4, <1>5, <1>6, <1>7, <1>8, <1>9, <1>10, <1>11

(* IndInv is an invariant of the transfer. *)
LEMMA StepInv == IndInv /\ [Next]_vars => IndInv'
<1> SUFFICES ASSUME IndInv, [Next]_vars PROVE IndInv'
  OBVIOUS
<1>1. CASE UNCHANGED vars
  <2>1. UNCHANGED op
    BY <1>1 DEF vars
  <2>2. \A p : InPlan(p)' <=> InPlan(p)
    BY <2>1, PlanKept
  <2> QED
    BY <1>1, <2>2 DEF vars, paths, IndInv, Flags, Shape, PlanInv, BeforeInv, AsItWas,
       InPlaceInv, StageInv, BackupInv, OldNeverLost, EndInv, Restored, CutUnnoticed,
       ScpWindow, MadeRoom, mishaps, InPlace
<1>2. CASE Worker
  <2>1. ASSUME NEW phase \in Looking \cup {"size", "sync"}, CheckAt(phase) PROVE IndInv'
    BY <2>1, CheckPreserves
  <2>2. CASE Copies
    <3>1. CASE RawStreams
      BY <3>1, RawStreamsPreserves
    <3>2. CASE ClientRuns /\ op.via # "raw"
      BY <3>2, ClientRunsPreserves
    <3> QED
      BY <2>2, <3>1, <3>2 DEF Copies, OpenSsh, OpenSshPutFile, OpenSshGetFile,
         OpenSshPutDir, OpenSshGetDir, RsyncPutFile, RsyncGetFile, RsyncPutDir,
         RsyncGetDir
  <2> QED
    BY <1>2, <2>1, <2>2, CountDirPreserves, PreparePreserves, PrepareInPlacePreserves,
       ResetScpPreserves, CheckCopyPreserves, CommitReplacePreserves,
       ReplaceUnlinkPreserves, ReplaceAgainPreserves,
       CommitLinkPreserves, CommitBackupPreserves, InstallPreserves, RollBackPreserves,
       RemoveBackupPreserves, CleanPreserves
       DEF Worker, ResolveHome, ResolveKind, RequireKeys, ValidateLocalPaths,
           ProbeRemoteKind, CheckLocalSsh, CheckClient, CheckRemoteRsync, CheckSource,
           LookAtStage, Looking
<1> QED
  BY <1>1, <1>2, AnswerPreserves, StatusMissingPreserves, GiveUpPreserves,
     WorkerDiesPreserves, SweepPreserves, StrangerCreatesPreserves DEF Next, Finished

LEMMA AlwaysInv == Spec => []IndInv
BY InitInv, StepInv, PTL DEF Spec

-----------------------------------------------------------------------------
(* The theorems *)

(* Every variable keeps its type: in particular only what was at the       *)
(* destination gets the backup's name, and never a leftover the           *)
(* destination's.                                                          *)
THEOREM TypeCorrect == Spec => []TypeOK
<1>1. IndInv => TypeOK
  BY DEF IndInv, Flags, Shape, TypeOK
<1> QED BY <1>1, AlwaysInv, PTL

(* Whatever step of atomic_replace_dir, of the remote scripts or of the    *)
(* one-script uploads fails, and whenever the shell dies or the caller     *)
(* leaves, what was at the destination is there, under the backup's name,  *)
(* or replaced by the whole source, unless it was lost in one of the three *)
(* ways OldNeverLost names.                                                *)
THEOREM OldSurvives == Spec => []OldNeverLost
<1>1. IndInv => OldNeverLost
  BY DEF IndInv
<1> QED BY <1>1, AlwaysInv, PTL

(* The result of put_file, get_file, put_dir and get_dir says what is at   *)
(* the destination, with the exceptions ResultIsTrue names.                *)
THEOREM ResultsHold == Spec => []ResultIsTrue
<1>1. IndInv => ResultIsTrue
  <2> SUFFICES ASSUME IndInv PROVE ResultIsTrue
    OBVIOUS
  <2>1. result = "ok" => dst = "full" \/ CutUnnoticed \/ nested \/ gone
    BY DEF IndInv, EndInv
  <2>2. ASSUME result = "err", ~gone, ~cut PROVE Restored
    BY <2>2 DEF IndInv, EndInv
  <2> QED BY <2>1, <2>2 DEF ResultIsTrue, Restored
<1> QED BY <1>1, AlwaysInv, PTL

(* What a step does to what is not this transfer's. *)
Untouched ==
    /\ ~op.over /\ dst \in {"old", "other", "foreign"} /\ ~ScpWindow => dst' = dst
    /\ stage = "junk" => stage' = "junk"
    /\ backup = "junk" => backup' = "junk"

(* A step that removes or fills the target: the target is ours. *)
LEMMA TargetIsOurs ==
  ASSUME IndInv, at \in {"reset", "copy", "check", "clean"} \/ sweep
  PROVE  /\ InPlace => dst \notin {"old", "other", "foreign"} \/ ScpWindow
         /\ ~InPlace => stage # "junk"
BY DEF IndInv, InPlaceInv, StageInv, Owning, Verifying, ScpWindow

(* No step touches what is not ours. *)
LEMMA StepUntouched == ASSUME IndInv, Next PROVE Untouched
<1>1. CASE UNCHANGED paths
  BY <1>1 DEF Untouched, paths
<1>2. CASE Prepare \/ PrepareInPlace
  BY <1>2 DEF Prepare, PrepareInPlace, Untouched
<1>3. ASSUME NEW c, SetTarget(c), UNCHANGED backup,
             at \in {"reset", "copy", "check", "clean"} \/ sweep
      PROVE  Untouched
  BY <1>3, TargetIsOurs DEF SetTarget, Untouched
<1>4. CASE ResetScp
  BY <1>3, <1>4 DEF ResetScp
<1>5. CASE ClientRuns
  BY <1>3, <1>5 DEF ClientRuns
<1>6. CASE RawStreams
  BY <1>3, <1>6 DEF RawStreams
<1>7. CASE Clean
  BY <1>1, <1>3, <1>7 DEF Clean, paths
<1>8. CASE WorkerDies
  BY <1>1, <1>3, <1>8 DEF WorkerDies, paths
<1>9. CASE Sweep
  BY <1>1, <1>3, <1>9 DEF Sweep, paths
<1>10. CASE CommitReplace \/ ReplaceUnlink \/ ReplaceAgain \/ CommitLink
  <2>1. stage # "junk" /\ (at \in {"unlink", "again"} => op.over)
    BY <1>10 DEF CommitReplace, ReplaceUnlink, ReplaceAgain, InPlace, CommitLink,
       CommitLinkIf, IndInv, StageInv, PlanInv, Replacing
  <2> QED
    BY <1>10, <2>1 DEF CommitReplace, ReplaceUnlink, ReplaceAgain, CommitLink,
       CommitLinkIf, Untouched
<1>11. CASE CommitBackup
  <2>1. op.over
    BY <1>11 DEF CommitBackup, IndInv, PlanInv, InPlace
  <2> QED BY <1>11, <2>1 DEF CommitBackup, Untouched
<1>12. CASE Install
  <2>1. stage # "junk" /\ op.over
    BY <1>12 DEF Install, IndInv, StageInv, PlanInv, InPlace, Replacing
  <2> QED BY <1>12, <2>1 DEF Install, Untouched
<1>13. CASE RollBack
  <2>1. op.over /\ (had => backup # "junk")
    BY <1>13 DEF RollBack, RollBackTo, IndInv, BackupInv, PlanInv, InPlace
  <2> QED BY <1>13, <2>1 DEF RollBack, RollBackTo, Untouched
<1>14. CASE RemoveBackup
  <2>1. had => backup # "junk"
    BY DEF IndInv, BackupInv
  <2> QED BY <1>14, <2>1 DEF RemoveBackup, RemoveBackupIf, Untouched
<1>15. CASE StrangerCreates
  BY <1>15 DEF StrangerCreates, Untouched
<1>16. ASSUME NEW phase, CheckAt(phase) PROVE Untouched
  BY <1>1, <1>16 DEF CheckAt
<1>17. CASE CountDir \/ CheckCopy
  BY <1>1, <1>17 DEF CountDir, CheckCopy, CheckCopyOf
<1>18. CASE Answer \/ StatusMissing \/ GiveUp \/ Finished
  BY <1>1, <1>18 DEF Answer, StatusMissing, GiveUp, Finished, vars
<1>19. CASE Copies
  BY <1>5, <1>6, <1>19 DEF Copies, OpenSshPutFile, OpenSshGetFile, OpenSshPutDir,
     OpenSshGetDir, RsyncPutFile, RsyncGetFile, RsyncPutDir, RsyncGetDir
<1>20. CASE Worker
  BY <1>2, <1>4, <1>7, <1>10, <1>11, <1>12, <1>13, <1>14, <1>16, <1>17, <1>19, <1>20
     DEF Worker, ResolveHome, ResolveKind, RequireKeys, ValidateLocalPaths,
         ProbeRemoteKind, CheckLocalSsh, CheckClient, CheckRemoteRsync, CheckSource,
         LookAtStage
<1> QED BY <1>8, <1>9, <1>15, <1>18, <1>20 DEF Next

(* No rename, link, trap, cleanup or sweep of a transfer touches what a    *)
(* call without overwrite found at the destination, what somebody else put *)
(* there meanwhile, or a leftover at the names of the stage and the        *)
(* backup.                                                                 *)
THEOREM OthersStay == Spec => OthersUntouched
<1>1. IndInv /\ [Next]_vars => [Untouched]_vars
  BY StepUntouched
<1>2. [][Untouched]_vars => OthersUntouched
  BY PTL DEF Untouched, OthersUntouched
<1> QED BY <1>1, <1>2, AlwaysInv, PTL DEF Spec

=============================================================================
