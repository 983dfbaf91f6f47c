-------------------------- MODULE ApplyPatchProofs ---------------------------
(***************************************************************************)
(* Theorems about ApplyPatch, for every number of calls, every patch and   *)
(* every number of spins; and about the patch language of PatchText, for   *)
(* every patch and every text.                                             *)
(***************************************************************************)
EXTENDS ApplyPatch, Algorithms, SequenceTheorems, FiniteSetTheorems, WellFoundedInduction, TLAPS

Statuses == {"not_attempted", "unchanged", "applied", "failed", "unknown"}
Markings == UNION {[DOMAIN Sections[c] -> Statuses] : c \in Calls}
Plannings == [expected : Contents, new : Contents, changed : BOOLEAN]
Locks == [owner : Edits, stamped : BOOLEAN, stale : BOOLEAN]
ScriptPcs == {"none", "start", "hash", "lock", "reclaim", "reclaim_rmdir", "stamp",
              "check", "replace", "clean", "clean_rmdir", "exited", "dead"}

(* The parts of TypeOK: the calls, their scripts, the host. *)
CallShape ==
    /\ pc \in [Calls -> {"prepare", "commit", "run", "await", "done"}]
    /\ at \in [Calls -> Nat]
    /\ plan \in [Calls -> Seq(Plannings)]
    /\ status \in [Calls -> Markings]
ScriptShape ==
    /\ sp \in [Calls -> ScriptPcs]
    /\ stage \in [Calls -> {"none", "part", "whole"}]
    /\ spins \in [Calls -> 0..MaxSpins]
    /\ verdict \in [Calls -> {"none", "ok", "marker", "silent"}]
PayloadShape ==
    /\ payload \in [Calls -> BOOLEAN]
    /\ cut \subseteq Calls
HostShape ==
    /\ file \in [Paths -> Contents]
    /\ lock \in [Paths -> Locks]
    /\ did \in [Calls -> SUBSET Nat]
    /\ stolen \subseteq Paths
    /\ strangers \subseteq Strangers
Shape == CallShape /\ ScriptShape /\ PayloadShape /\ HostShape

(* The script holds the lock, or believes so. *)
Holding == {"stamp", "check", "replace"}
(* It may still find the lock taken. *)
Trying == {"start", "hash", "lock", "reclaim", "reclaim_rmdir"}
Sure == {"applied", "unchanged"}

(* What a section's plan makes of the content it expects. *)
PlanInv(c) ==
    /\ at[c] \in DOMAIN Sections[c] /\ status[c] \in [DOMAIN Sections[c] -> Statuses]
    /\ did[c] \subseteq DOMAIN Sections[c]
    /\ Len(plan[c]) <= Len(Sections[c])
    /\ \A i \in 1..Len(plan[c]) : plan[c][i].changed =>
          plan[c][i].new = CASE Sections[c][i].op = "delete" -> Missing
                             [] Sections[c][i].op = "add" -> Text({c})
                             [] Sections[c][i].op = "update" ->
                                    Text(plan[c][i].expected.edits \cup {c})

(* The sections before the one the call is at are applied or unchanged,    *)
(* those after it are not touched.                                         *)
Committing(c) ==
    /\ Len(plan[c]) = Len(Sections[c])
    /\ \A i \in DOMAIN Sections[c] :
          /\ i < at[c] => status[c][i] \in Sure /\ (i \in did[c] <=> status[c][i] = "applied")
          /\ i > at[c] => status[c][i] = "not_attempted" /\ i \notin did[c]

(* The script of the section the call is at has replaced the target if and *)
(* only if it says so.                                                     *)
ScriptInv(c) ==
    /\ sp[c] \in Trying \cup Holding => at[c] \notin did[c] /\ verdict[c] = "none"
    /\ sp[c] \in {"clean", "clean_rmdir", "exited"} => verdict[c] # "none"
    /\ verdict[c] = "ok" => at[c] \in did[c]
    /\ verdict[c] = "marker" => at[c] \notin did[c]

Gone(c) == sp[c] \in {"none", "exited"}

ReportInv(c) ==
    /\ pc[c] = "prepare" =>
          /\ Len(plan[c]) = at[c] - 1 /\ did[c] = {} /\ sp[c] = "none"
          /\ \A i \in DOMAIN Sections[c] : status[c][i] = "not_attempted"
    /\ pc[c] \in {"commit", "run", "await"} =>
          Committing(c) /\ status[c][at[c]] = "not_attempted"
    /\ pc[c] \in {"commit", "run"} => at[c] \notin did[c] /\ Gone(c)
    /\ pc[c] = "await" => sp[c] # "none" /\ ScriptInv(c)
    /\ pc[c] = "done" =>
          \/ /\ did[c] = {} /\ Gone(c)
             /\ \A i \in DOMAIN Sections[c] : status[c][i] \in {"failed", "not_attempted"}
          \/ /\ Committing(c)
             /\ status[c][at[c]] \in {"applied", "failed", "unchanged", "unknown"}
             /\ status[c][at[c]] = "applied" => at[c] \in did[c]
             /\ status[c][at[c]] \in {"failed", "unchanged"} => at[c] \notin did[c]
             /\ status[c][at[c]] # "unknown" => Gone(c)
    /\ ~Gone(c) => Len(plan[c]) = Len(Sections[c]) /\ Planned(c).changed

(* What a script leaves behind while it runs, and when it was cut off. *)
StageInv(c) ==
    /\ stage[c] = "part" => sp[c] \in {"hash", "clean", "dead"}
    /\ sp[c] \in {"none", "start", "clean_rmdir", "exited"} => stage[c] = "none"
    /\ sp[c] \in Trying => spins[c] < MaxSpins
    /\ sp[c] = "dead" => c \in cut
    /\ pc[c] = "done" => c \in cut \/ Gone(c)
    /\ payload[c] => c \in cut \/ pc[c] \in {"run", "await"}

Local(c) == PlanInv(c) /\ ReportInv(c) /\ StageInv(c)

(* A lock that was never removed under its owner excludes all others. *)
Excludes(p, c) ==
    /\ sp[c] \in Holding /\ Path(c) = p => lock[p].owner = c
    /\ lock[p].owner = c =>
          \/ sp[c] = "dead"
          \/ Path(c) = p /\ sp[c] \in Holding \cup {"clean", "clean_rmdir"}
    /\ lock[p].owner = c /\ sp[c] = "clean_rmdir" => ~lock[p].stamped

LockInv(p) ==
    /\ lock[p].owner = Nobody => lock[p] = Unlocked
    /\ p \notin stolen => \A c \in Calls : Excludes(p, c)

Kept(p) == p \notin stolen \cup (Strangers \ strangers)

(* Under such a lock what was compared is still there when it is replaced, *)
(* so every edit is in the content that follows it.                        *)
FileInv(p) ==
    /\ file[p].whole
    /\ ~file[p].there => file[p].edits = {}
    /\ Kept(p) =>
          /\ \A c \in Calls :
                sp[c] = "replace" /\ Path(c) = p => file[p] = Planned(c).expected
          /\ ~Deleted(p) =>
                \A c \in Calls : \A i \in did[c] :
                    Sections[c][i].path = p => c \in file[p].edits

IndInv ==
    /\ Shape
    /\ \A c \in Calls : Local(c)
    /\ \A p \in Paths : LockInv(p) /\ FileInv(p)
(* The sections of a call are a sequence. *)
LEMMA SectionsSeq ==
  ASSUME NEW c \in Calls
  PROVE  /\ Len(Sections[c]) \in Nat
         /\ DOMAIN Sections[c] = 1..Len(Sections[c])
         /\ \A i \in DOMAIN Sections[c] :
               /\ Sections[c][i].path \in Paths
               /\ Sections[c][i].op \in {"add", "update", "delete"}
               /\ Sections[c][i] = [path |-> Sections[c][i].path, op |-> Sections[c][i].op]
<1> DEFINE S == [path : Paths, op : {"add", "update", "delete"}]
<1>1. Sections[c] \in Seq(S)
  BY PatchAssumption
<1>2. \A i \in 1..Len(Sections[c]) : Sections[c][i] \in S
  BY <1>1, ElementOfSeq
<1>3. Len(Sections[c]) \in Nat /\ DOMAIN Sections[c] = 1..Len(Sections[c])
  BY <1>1, LenProperties
<1>4. \A x \in S : /\ x.path \in Paths /\ x.op \in {"add", "update", "delete"}
                   /\ x = [path |-> x.path, op |-> x.op]
  OBVIOUS
<1> QED BY <1>2, <1>3, <1>4

(* The plan of a call is a sequence. *)
LEMMA PlanSeq ==
  ASSUME CallShape, NEW c \in Calls
  PROVE  /\ plan[c] \in Seq(Plannings) /\ Len(plan[c]) \in Nat
         /\ \A i \in 1..Len(plan[c]) : plan[c][i] \in Plannings
BY DEF CallShape

-----------------------------------------------------------------------------
(* What a step leaves alone *)

(* Nothing of this call and its script changes. *)
Same(c) ==
    /\ pc'[c] = pc[c] /\ at'[c] = at[c] /\ plan'[c] = plan[c] /\ status'[c] = status[c]
    /\ sp'[c] = sp[c] /\ stage'[c] = stage[c] /\ spins'[c] = spins[c]
    /\ verdict'[c] = verdict[c] /\ payload'[c] = payload[c] /\ did'[c] = did[c]
    /\ c \in cut => c \in cut'

LEMMA LocalFrame ==
  ASSUME NEW c \in Calls, Local(c), Same(c)
  PROVE  Local(c)'
<1>1. PlanInv(c)'
  BY DEF Local, PlanInv, Same
<1>2. ReportInv(c)'
  BY DEF Local, ReportInv, Committing, ScriptInv, Gone, Planned, Same
<1>3. StageInv(c)'
  BY DEF Local, StageInv, Gone, Same
<1> QED BY <1>1, <1>2, <1>3 DEF Local

(* The steps of a script that say nothing of the lock and of its target.   *)
Free == Trying \cup {"none", "exited"}
Stays(c) ==
    \/ sp'[c] = sp[c] /\ at'[c] = at[c] /\ plan'[c] = plan[c]
    \/ sp[c] \in Free /\ sp'[c] \notin Holding
    \/ sp[c] \in Holding /\ sp'[c] = "clean" /\ at'[c] = at[c]
    \/ sp'[c] = "dead"

LEMMA LockFrame ==
  ASSUME \A p \in Paths : LockInv(p), UNCHANGED <<lock, stolen>>,
         \A c \in Calls : \/ Stays(c)
                          \/ sp[c] \in Holding /\ sp'[c] \in Holding /\ at'[c] = at[c]
  PROVE  \A p \in Paths : LockInv(p)'
<1> TAKE p \in Paths
<1>1. (lock[p].owner = Nobody => lock[p] = Unlocked)'
  BY DEF LockInv
<1>2. ASSUME p \notin stolen', NEW c \in Calls PROVE Excludes(p, c)'
  <2>1. Excludes(p, c)
    BY <1>2 DEF LockInv
  <2> QED BY <2>1 DEF Excludes, Stays, Free, Trying, Holding, Path
<1> QED BY <1>1, <1>2 DEF LockInv

LEMMA FileFrame ==
  ASSUME \A p \in Paths : FileInv(p), UNCHANGED <<file, did, strangers>>, stolen \subseteq stolen',
         \A c \in Calls : sp'[c] = "replace" =>
             sp[c] = "replace" /\ at'[c] = at[c] /\ plan'[c] = plan[c]
  PROVE  \A p \in Paths : FileInv(p)'
<1> TAKE p \in Paths
<1>1. Kept(p)' => Kept(p)
  BY DEF Kept
<1>2. ASSUME Kept(p)', NEW c \in Calls, sp'[c] = "replace", Path(c)' = p
      PROVE  file'[p] = Planned(c)'.expected
  BY <1>1, <1>2 DEF FileInv, Path, Planned
<1> QED BY <1>1, <1>2 DEF FileInv, Deleted

LEMMA HostFrame ==
  ASSUME \A p \in Paths : LockInv(p) /\ FileInv(p),
         UNCHANGED <<file, lock, did, stolen, strangers>>,
         \A c \in Calls : Stays(c)
  PROVE  \A p \in Paths : LockInv(p)' /\ FileInv(p)'
<1>1. \A p \in Paths : LockInv(p)'
  BY LockFrame
<1>2. \A c \in Calls : sp'[c] = "replace" =>
             sp[c] = "replace" /\ at'[c] = at[c] /\ plan'[c] = plan[c]
  BY DEF Stays, Holding
<1>3. \A p \in Paths : FileInv(p)'
  BY <1>2, FileFrame
<1> QED BY <1>1, <1>3

(* A step of one call or of its script. *)
LEMMA OneCall ==
  ASSUME IndInv, NEW c \in Calls, Shape', \A d \in Calls : d # c => Same(d), Local(c)',
         \A p \in Paths : LockInv(p)' /\ FileInv(p)'
  PROVE  IndInv'
BY LocalFrame DEF IndInv

LEMMA OneCallHost ==
  ASSUME IndInv, NEW c \in Calls, Shape', \A d \in Calls : d # c => Same(d), Local(c)',
         UNCHANGED <<file, lock, did, stolen, strangers>>, Stays(c)
  PROVE  IndInv'
<1>1. \A d \in Calls : Stays(d)
  BY DEF Same, Stays
<1>2. \A p \in Paths : LockInv(p)' /\ FileInv(p)'
  BY <1>1, HostFrame DEF IndInv
<1> QED BY <1>2, OneCall

(* What Report and NextSection do. *)
LEMMA Reported ==
  ASSUME CallShape, NEW c \in Calls, PlanInv(c), NEW s \in Statuses, Report(c, s)
  PROVE  /\ status' \in [Calls -> Markings]
         /\ status'[c] \in [DOMAIN Sections[c] -> Statuses]
         /\ \A i \in DOMAIN Sections[c] :
               status'[c][i] = IF i = at[c] THEN s ELSE status[c][i]
         /\ \A d \in Calls : d # c => status'[d] = status[d]
<1>1. status[c] \in [DOMAIN Sections[c] -> Statuses]
  BY DEF PlanInv
<1>2. status' = [status EXCEPT ![c] = [status[c] EXCEPT ![at[c]] = s]]
  BY DEF Report
<1> DEFINE m == [status[c] EXCEPT ![at[c]] = s]
<1>3. /\ m \in [DOMAIN Sections[c] -> Statuses]
      /\ \A i \in DOMAIN Sections[c] : m[i] = IF i = at[c] THEN s ELSE status[c][i]
  BY <1>1
<1>4. m \in Markings
  BY <1>3 DEF Markings
<1> HIDE DEF m
<1> QED BY <1>2, <1>3, <1>4 DEF CallShape, m

LEMMA NextSectionIs ==
  ASSUME CallShape, NEW c \in Calls, PlanInv(c), NextSection(c)
  PROVE  /\ pc' \in [Calls -> {"prepare", "commit", "run", "await", "done"}]
         /\ at' \in [Calls -> Nat]
         /\ \A d \in Calls : d # c => pc'[d] = pc[d] /\ at'[d] = at[d]
         /\ \/ at[c] = Len(Sections[c]) /\ pc'[c] = "done" /\ at'[c] = at[c]
            \/ at[c] < Len(Sections[c]) /\ pc'[c] = "commit" /\ at'[c] = at[c] + 1
<1>1. at[c] \in 1..Len(Sections[c]) /\ Len(Sections[c]) \in Nat
  BY SectionsSeq DEF PlanInv
<1>2. CASE at[c] = Len(Sections[c])
  BY <1>1, <1>2 DEF CallShape, NextSection
<1>3. CASE at[c] # Len(Sections[c])
  <2>1. /\ pc' = [pc EXCEPT ![c] = "commit"] /\ at' = [at EXCEPT ![c] = at[c] + 1]
        /\ at[c] \in Nat /\ at[c] < Len(Sections[c])
    BY <1>1, <1>3 DEF NextSection
  <2> QED BY <2>1 DEF CallShape
<1> QED BY <1>2, <1>3

-----------------------------------------------------------------------------
(* The initial states *)

LEMMA InitInv == Init => IndInv
<1> SUFFICES ASSUME Init PROVE IndInv
  OBVIOUS
<1>1. \A c \in Calls : status[c] \in [DOMAIN Sections[c] -> Statuses]
  BY DEF Init, Statuses
<1>2. CallShape
  <2>1. \A c \in Calls : status[c] \in Markings
    BY <1>1 DEF Markings
  <2>2. status \in [Calls -> Markings]
    BY <2>1 DEF Init
  <2>3. plan \in [Calls -> Seq(Plannings)]
    BY DEF Init
  <2> QED BY <2>2, <2>3 DEF Init, CallShape
<1>3. ScriptShape
  BY PatchAssumption DEF Init, ScriptShape, ScriptPcs
<1>4. PayloadShape
  BY DEF Init, PayloadShape
<1>5. HostShape
  <2>1. Missing \in Contents /\ Text({}) \in Contents
    BY DEF Missing, Text, Contents
  <2>2. Unlocked \in Locks
    BY DEF Unlocked, Locks, Edits
  <2> QED BY <2>1, <2>2 DEF Init, HostShape
<1>6. ASSUME NEW c \in Calls PROVE Local(c)
  <2>1. Len(Sections[c]) \in Nat \ {0} /\ DOMAIN Sections[c] = 1..Len(Sections[c])
    <3>1. /\ Sections[c] # <<>>
          /\ Sections[c] \in Seq([path : Paths, op : {"add", "update", "delete"}])
      BY PatchAssumption
    <3> QED BY <3>1, EmptySeq, LenProperties, SectionsSeq
  <2>2. plan[c] = <<>> /\ Len(plan[c]) = 0
    BY DEF Init
  <2>3. PlanInv(c)
    <3>1. at[c] \in DOMAIN Sections[c] /\ did[c] = {} /\ Len(plan[c]) <= Len(Sections[c])
      BY <2>1, <2>2 DEF Init
    <3>2. \A i \in 1..Len(plan[c]) : FALSE
      BY <2>2
    <3> QED BY <1>1, <3>1, <3>2 DEF PlanInv
  <2>4. ReportInv(c)
    BY <2>1, <2>2 DEF Init, ReportInv, Gone
  <2>5. StageInv(c)
    BY PatchAssumption DEF Init, StageInv, Gone, Trying
  <2> QED BY <2>3, <2>4, <2>5 DEF Local
<1>7. ASSUME NEW p \in Paths PROVE LockInv(p) /\ FileInv(p)
  <2>1. lock[p] = Unlocked /\ \A c \in Calls : lock[p].owner # c
    BY PatchAssumption DEF Init, Unlocked
  <2>2. file[p] \in {Missing, Text({})} /\ file[p].whole /\ file[p].edits = {}
    BY DEF Init, Missing, Text
  <2>3. \A c \in Calls : sp[c] = "none" /\ did[c] = {}
    BY DEF Init
  <2>4. LockInv(p)
    BY <2>1, <2>3 DEF LockInv, Excludes, Holding
  <2>5. FileInv(p)
    BY <2>2, <2>3 DEF FileInv
  <2> QED BY <2>4, <2>5
<1> QED BY <1>2, <1>3, <1>4, <1>5, <1>6, <1>7 DEF IndInv, Shape

-----------------------------------------------------------------------------
(* The steps of a call *)

LEMMA PreparePreserves ==
  ASSUME IndInv, NEW c \in Calls, Prepare(c)
  PROVE  IndInv'
<1>1. CallShape /\ HostShape /\ PlanInv(c) /\ ReportInv(c) /\ StageInv(c)
  BY DEF IndInv, Shape, Local
<1>2. UNCHANGED <<file, lock, status, sp, stage, spins, verdict, payload, cut, did,
                  stolen, strangers>>
  BY DEF Prepare, scriptVars, ghosts
<1>3. /\ at[c] \in 1..Len(Sections[c]) /\ Len(Sections[c]) \in Nat
      /\ DOMAIN Sections[c] = 1..Len(Sections[c])
      /\ Path(c) \in Paths /\ Op(c) \in {"add", "update", "delete"}
  BY <1>1, SectionsSeq DEF PlanInv, Path, Op
<1>4. /\ pc[c] = "prepare" /\ plan[c] \in Seq(Plannings) /\ Len(plan[c]) = at[c] - 1
      /\ did[c] = {} /\ sp[c] = "none"
      /\ \A i \in DOMAIN Sections[c] : status[c][i] = "not_attempted"
  BY <1>1 DEF Prepare, ReportInv, CallShape
<1>5. PICK p \in Plans(c, file[Path(c)]) : plan' = [plan EXCEPT ![c] = Append(plan[c], p)]
  BY DEF Prepare
<1>6. /\ p \in Plannings
      /\ p.changed => p.new = CASE Op(c) = "delete" -> Missing
                                [] Op(c) = "add" -> Text({c})
                                [] Op(c) = "update" -> Text(p.expected.edits \cup {c})
  <2>1. file[Path(c)] \in Contents
    BY <1>1, <1>3 DEF HostShape
  <2>2. Missing \in Contents /\ Text({c}) \in Contents
        /\ Text(file[Path(c)].edits \cup {c}) \in Contents
    BY <2>1 DEF Missing, Text, Contents, Edits
  <2> DEFINE f == file[Path(c)]
  <2>3. CASE Op(c) = "delete"
    <3>1. p = [expected |-> f, new |-> Missing, changed |-> TRUE]
      BY <1>5, <2>3 DEF Plans
    <3> QED BY <2>1, <2>2, <2>3, <3>1 DEF Plannings
  <2>4. CASE Op(c) = "add"
    <3>1. p = [expected |-> f, new |-> Text({c}), changed |-> TRUE]
      BY <1>5, <2>4 DEF Plans
    <3> QED BY <2>1, <2>2, <2>4, <3>1 DEF Plannings
  <2>5. CASE Op(c) = "update"
    <3>1. \/ p = [expected |-> f, new |-> Text(f.edits \cup {c}), changed |-> TRUE]
          \/ p = [expected |-> f, new |-> f, changed |-> FALSE]
      BY <1>5, <2>5 DEF Plans
    <3>2. ASSUME p = [expected |-> f, new |-> Text(f.edits \cup {c}), changed |-> TRUE]
          PROVE  p \in Plannings /\ p.new = Text(p.expected.edits \cup {c})
      BY <2>1, <2>2, <3>2 DEF Plannings
    <3>3. ASSUME p = [expected |-> f, new |-> f, changed |-> FALSE]
          PROVE  p \in Plannings /\ ~p.changed
      BY <2>1, <3>3 DEF Plannings
    <3> QED BY <2>5, <3>1, <3>2, <3>3
  <2> QED BY <1>3, <2>3, <2>4, <2>5
<1>7. /\ Append(plan[c], p) \in Seq(Plannings) /\ Len(Append(plan[c], p)) = at[c]
      /\ \A i \in 1..(at[c] - 1) : Append(plan[c], p)[i] = plan[c][i]
      /\ Append(plan[c], p)[at[c]] = p
  BY <1>3, <1>4, <1>6, AppendProperties
<1>8. /\ plan' \in [Calls -> Seq(Plannings)] /\ plan'[c] = Append(plan[c], p)
      /\ \A d \in Calls : d # c => plan'[d] = plan[d]
  BY <1>1, <1>5, <1>7 DEF CallShape
<1>9. \/ /\ at[c] = Len(Sections[c])
         /\ pc' = [pc EXCEPT ![c] = "commit"] /\ at' = [at EXCEPT ![c] = 1]
      \/ /\ at[c] < Len(Sections[c])
         /\ at' = [at EXCEPT ![c] = at[c] + 1] /\ pc' = pc
  BY <1>3 DEF Prepare
<1>10. /\ pc' \in [Calls -> {"prepare", "commit", "run", "await", "done"}]
       /\ at' \in [Calls -> Nat]
       /\ \A d \in Calls : d # c => pc'[d] = pc[d] /\ at'[d] = at[d]
       /\ \/ at[c] = Len(Sections[c]) /\ pc'[c] = "commit" /\ at'[c] = 1
          \/ at[c] < Len(Sections[c]) /\ pc'[c] = "prepare" /\ at'[c] = at[c] + 1
  <2>1. at[c] + 1 \in Nat /\ at[c] \in Nat
    BY <1>3
  <2>2. CASE at[c] = Len(Sections[c])
    BY <1>1, <1>3, <1>9, <2>2 DEF CallShape
  <2>3. CASE at[c] < Len(Sections[c])
    <3>1. at' = [at EXCEPT ![c] = at[c] + 1] /\ pc' = pc
      BY <1>3, <1>9, <2>3
    <3> QED BY <1>1, <1>4, <2>1, <2>3, <3>1 DEF CallShape
  <2> QED BY <1>3, <2>2, <2>3
<1>11. Shape'
  BY <1>2, <1>8, <1>10 DEF IndInv, Shape, CallShape, ScriptShape, PayloadShape, HostShape
<1>12. \A d \in Calls : d # c => Same(d)
  BY <1>2, <1>8, <1>10 DEF Same
<1>13. PlanInv(c)'
  <2>1. at'[c] \in DOMAIN Sections[c]
    BY <1>3, <1>10
  <2>2. ASSUME NEW i \in 1..Len(plan'[c]), plan'[c][i].changed
        PROVE  plan'[c][i].new = CASE Sections[c][i].op = "delete" -> Missing
                                   [] Sections[c][i].op = "add" -> Text({c})
                                   [] Sections[c][i].op = "update" ->
                                         Text(plan'[c][i].expected.edits \cup {c})
    <3>1. CASE i = at[c]
      BY <1>6, <1>7, <1>8, <2>2, <3>1 DEF Op
    <3>2. CASE i # at[c]
      <4>1. i \in 1..Len(plan[c]) /\ plan'[c][i] = plan[c][i]
        BY <1>3, <1>4, <1>7, <1>8, <3>2
      <4> QED BY <1>1, <2>2, <4>1 DEF PlanInv
    <3> QED BY <3>1, <3>2
  <2>3. Len(plan'[c]) <= Len(Sections[c]) /\ did'[c] = did[c] /\ status'[c] = status[c]
    BY <1>2, <1>3, <1>7, <1>8
  <2> QED BY <1>1, <2>1, <2>2, <2>3 DEF PlanInv
<1>14. ReportInv(c)'
  BY <1>2, <1>3, <1>4, <1>7, <1>8, <1>10 DEF ReportInv, Committing, Gone
<1>15. StageInv(c)'
  BY <1>1, <1>2, <1>4, <1>10 DEF StageInv, Gone
<1>16. Stays(c)
  BY <1>2, <1>4 DEF Stays, Free, Holding
<1> QED BY <1>2, <1>11, <1>12, <1>13, <1>14, <1>15, <1>16, OneCallHost DEF Local

LEMMA PrepareFailsPreserves ==
  ASSUME IndInv, NEW c \in Calls, PrepareFails(c)
  PROVE  IndInv'
<1>1. CallShape /\ PlanInv(c) /\ ReportInv(c) /\ StageInv(c)
  BY DEF IndInv, Shape, Local
<1>2. pc[c] = "prepare" /\ Report(c, "failed") /\ pc' = [pc EXCEPT ![c] = "done"]
  BY DEF PrepareFails, Fail
<1>3. UNCHANGED <<file, lock, at, plan, sp, stage, spins, verdict, payload, cut, did,
                  stolen, strangers>>
  BY DEF PrepareFails, Fail, scriptVars, ghosts
<1>4. /\ status' \in [Calls -> Markings]
      /\ status'[c] \in [DOMAIN Sections[c] -> Statuses]
      /\ \A i \in DOMAIN Sections[c] :
            status'[c][i] = IF i = at[c] THEN "failed" ELSE status[c][i]
      /\ \A d \in Calls : d # c => status'[d] = status[d]
  BY <1>1, <1>2, Reported DEF Statuses
<1>5. pc'[c] = "done" /\ \A d \in Calls : d # c => pc'[d] = pc[d]
  BY <1>1, <1>2 DEF CallShape
<1>6. Shape'
  BY <1>2, <1>3, <1>4 DEF IndInv, Shape, CallShape, ScriptShape, PayloadShape, HostShape
<1>7. \A d \in Calls : d # c => Same(d)
  BY <1>3, <1>4, <1>5 DEF Same
<1>8. PlanInv(c)'
  BY <1>1, <1>3, <1>4 DEF PlanInv
<1>9. ReportInv(c)'
  BY <1>1, <1>2, <1>3, <1>4, <1>5 DEF ReportInv, Gone
<1>10. StageInv(c)'
  BY <1>1, <1>2, <1>3, <1>5 DEF StageInv, ReportInv, Gone
<1>11. Stays(c)
  BY <1>3 DEF Stays
<1> QED BY <1>3, <1>6, <1>7, <1>8, <1>9, <1>10, <1>11, OneCallHost DEF Local

LEMMA SkipUnchangedPreserves ==
  ASSUME IndInv, NEW c \in Calls, SkipUnchanged(c)
  PROVE  IndInv'
<1>1. CallShape /\ PlanInv(c) /\ ReportInv(c) /\ StageInv(c)
  BY DEF IndInv, Shape, Local
<1>2. pc[c] = "commit" /\ Report(c, "unchanged") /\ NextSection(c)
  BY DEF SkipUnchanged
<1>3. UNCHANGED <<file, lock, plan, sp, stage, spins, verdict, payload, cut, did,
                  stolen, strangers>>
  BY DEF SkipUnchanged, scriptVars, ghosts
<1>4. /\ status' \in [Calls -> Markings]
      /\ status'[c] \in [DOMAIN Sections[c] -> Statuses]
      /\ \A i \in DOMAIN Sections[c] :
            status'[c][i] = IF i = at[c] THEN "unchanged" ELSE status[c][i]
      /\ \A d \in Calls : d # c => status'[d] = status[d]
  BY <1>1, <1>2, Reported DEF Statuses
<1>5. /\ pc' \in [Calls -> {"prepare", "commit", "run", "await", "done"}]
      /\ at' \in [Calls -> Nat]
      /\ \A d \in Calls : d # c => pc'[d] = pc[d] /\ at'[d] = at[d]
      /\ \/ at[c] = Len(Sections[c]) /\ pc'[c] = "done" /\ at'[c] = at[c]
         \/ at[c] < Len(Sections[c]) /\ pc'[c] = "commit" /\ at'[c] = at[c] + 1
  BY <1>1, <1>2, NextSectionIs
<1>6. /\ at[c] \in 1..Len(Sections[c]) /\ Len(Sections[c]) \in Nat
      /\ DOMAIN Sections[c] = 1..Len(Sections[c])
  BY <1>1, SectionsSeq DEF PlanInv
<1>7. Shape'
  BY <1>3, <1>4, <1>5 DEF IndInv, Shape, CallShape, ScriptShape, PayloadShape, HostShape
<1>8. \A d \in Calls : d # c => Same(d)
  BY <1>3, <1>4, <1>5 DEF Same
<1>9. PlanInv(c)'
  <2>1. at'[c] \in DOMAIN Sections[c]
    BY <1>5, <1>6
  <2> QED BY <1>1, <1>3, <1>4, <2>1 DEF PlanInv
<1>10. ReportInv(c)'
  <2>1. /\ Committing(c) /\ at[c] \notin did[c] /\ Gone(c)
        /\ \A i \in DOMAIN Sections[c] : i >= at[c] => status[c][i] = "not_attempted"
    BY <1>1, <1>2, <1>6 DEF ReportInv, Committing
  <2>2. Committing(c)'
    BY <1>3, <1>4, <1>5, <1>6, <2>1 DEF Committing, Sure
  <2>3. Gone(c)'
    BY <1>3, <2>1 DEF Gone
  <2>4. CASE pc'[c] = "done"
    BY <1>3, <1>4, <1>5, <1>6, <2>1, <2>2, <2>3, <2>4 DEF ReportInv
  <2>5. CASE pc'[c] = "commit"
    BY <1>3, <1>4, <1>5, <1>6, <2>1, <2>2, <2>3, <2>5 DEF ReportInv, Committing
  <2> QED BY <1>5, <2>4, <2>5
<1>11. StageInv(c)'
  BY <1>1, <1>2, <1>3, <1>5 DEF StageInv, ReportInv, Gone
<1>12. Stays(c)
  BY <1>1, <1>2, <1>3 DEF Stays, Free, Holding, ReportInv, Gone
<1> QED BY <1>3, <1>7, <1>8, <1>9, <1>10, <1>11, <1>12, OneCallHost DEF Local

LEMMA CommitFailsPreserves ==
  ASSUME IndInv, NEW c \in Calls, CommitFails(c)
  PROVE  IndInv'
<1>1. CallShape /\ PayloadShape /\ PlanInv(c) /\ ReportInv(c) /\ StageInv(c)
  BY DEF IndInv, Shape, Local
<1>2. pc[c] = "commit" /\ Report(c, "failed") /\ pc' = [pc EXCEPT ![c] = "done"]
  BY DEF CommitFails, Fail
<1>3. UNCHANGED <<file, lock, at, plan, sp, stage, spins, verdict, did, stolen, strangers>>
  BY DEF CommitFails, Fail
<1>4. /\ status' \in [Calls -> Markings]
      /\ status'[c] \in [DOMAIN Sections[c] -> Statuses]
      /\ \A i \in DOMAIN Sections[c] :
            status'[c][i] = IF i = at[c] THEN "failed" ELSE status[c][i]
      /\ \A d \in Calls : d # c => status'[d] = status[d]
  BY <1>1, <1>2, Reported DEF Statuses
<1>5. pc'[c] = "done" /\ \A d \in Calls : d # c => pc'[d] = pc[d]
  BY <1>1, <1>2 DEF CallShape
<1>6. /\ PayloadShape'
      /\ \A d \in Calls : d # c => payload'[d] = payload[d]
      /\ cut \subseteq cut' /\ (payload'[c] => c \in cut')
  <2>1. CASE UNCHANGED <<payload, cut>>
    <3>1. payload[c] => c \in cut
      BY <1>1, <1>2 DEF StageInv
    <3> QED BY <1>1, <2>1, <3>1 DEF PayloadShape
  <2>2. CASE payload' = [payload EXCEPT ![c] = TRUE] /\ cut' = cut \cup {c}
    BY <1>1, <2>2 DEF PayloadShape
  <2> QED BY <2>1, <2>2 DEF CommitFails
<1>7. Shape'
  BY <1>2, <1>3, <1>4, <1>6 DEF IndInv, Shape, CallShape, ScriptShape, HostShape
<1>8. \A d \in Calls : d # c => Same(d)
  BY <1>3, <1>4, <1>5, <1>6 DEF Same
<1>9. PlanInv(c)'
  BY <1>1, <1>3, <1>4 DEF PlanInv
<1>10. ReportInv(c)'
  <2>1. Committing(c) /\ at[c] \notin did[c] /\ Gone(c) /\ at[c] \in DOMAIN Sections[c]
    BY <1>1, <1>2 DEF ReportInv, PlanInv
  <2>2. Committing(c)'
    BY <1>1, <1>3, <1>4, <2>1, SectionsSeq DEF Committing
  <2> QED BY <1>3, <1>4, <1>5, <2>1, <2>2 DEF ReportInv, Gone
<1>11. StageInv(c)'
  BY <1>1, <1>2, <1>3, <1>5, <1>6 DEF StageInv, ReportInv, Gone
<1>12. Stays(c)
  BY <1>3 DEF Stays
<1> QED BY <1>3, <1>7, <1>8, <1>9, <1>10, <1>11, <1>12, OneCallHost DEF Local

LEMMA UploadPayloadPreserves ==
  ASSUME IndInv, NEW c \in Calls, UploadPayload(c)
  PROVE  IndInv'
<1>1. CallShape /\ PayloadShape /\ PlanInv(c) /\ ReportInv(c) /\ StageInv(c)
  BY DEF IndInv, Shape, Local
<1>2. /\ pc[c] = "commit" /\ pc' = [pc EXCEPT ![c] = "run"]
      /\ payload' = [payload EXCEPT ![c] = TRUE]
  BY DEF UploadPayload
<1>3. UNCHANGED <<file, lock, at, plan, status, sp, stage, spins, verdict, cut, did,
                  stolen, strangers>>
  BY DEF UploadPayload, ghosts
<1>4. pc'[c] = "run" /\ \A d \in Calls : d # c => pc'[d] = pc[d]
  BY <1>1, <1>2 DEF CallShape
<1>5. PayloadShape' /\ \A d \in Calls : d # c => payload'[d] = payload[d]
  BY <1>1, <1>2, <1>3 DEF PayloadShape
<1>6. Shape'
  BY <1>2, <1>3, <1>5 DEF IndInv, Shape, CallShape, ScriptShape, HostShape
<1>7. \A d \in Calls : d # c => Same(d)
  BY <1>3, <1>4, <1>5 DEF Same
<1>8. PlanInv(c)'
  BY <1>1, <1>3 DEF PlanInv
<1>9. ReportInv(c)'
  BY <1>1, <1>2, <1>3, <1>4 DEF ReportInv, Committing, Gone
<1>10. StageInv(c)'
  BY <1>1, <1>2, <1>3, <1>4 DEF StageInv, ReportInv, Gone
<1>11. Stays(c)
  BY <1>3 DEF Stays
<1> QED BY <1>3, <1>6, <1>7, <1>8, <1>9, <1>10, <1>11, OneCallHost DEF Local

LEMMA RunScriptPreserves ==
  ASSUME IndInv, NEW c \in Calls, RunScript(c)
  PROVE  IndInv'
<1>1. /\ CallShape /\ ScriptShape /\ PlanInv(c) /\ ReportInv(c) /\ StageInv(c)
  BY DEF IndInv, Shape, Local
<1>2. /\ pc[c] \in {"commit", "run"} /\ Planned(c).changed
      /\ pc' = [pc EXCEPT ![c] = "await"] /\ sp' = [sp EXCEPT ![c] = "start"]
      /\ spins' = [spins EXCEPT ![c] = 0] /\ verdict' = [verdict EXCEPT ![c] = "none"]
  BY DEF RunScript
<1>3. UNCHANGED <<file, lock, at, plan, status, stage, payload, cut, did, stolen, strangers>>
  BY DEF RunScript, ghosts
<1>4. /\ pc'[c] = "await" /\ sp'[c] = "start" /\ spins'[c] = 0 /\ verdict'[c] = "none"
      /\ \A d \in Calls : d # c => /\ pc'[d] = pc[d] /\ sp'[d] = sp[d]
                                   /\ spins'[d] = spins[d] /\ verdict'[d] = verdict[d]
  BY <1>1, <1>2 DEF CallShape, ScriptShape
<1>5. ScriptShape'
  BY <1>1, <1>2, <1>3, PatchAssumption DEF ScriptShape, ScriptPcs
<1>6. Shape'
  BY <1>2, <1>3, <1>5 DEF IndInv, Shape, CallShape, PayloadShape, HostShape
<1>7. \A d \in Calls : d # c => Same(d)
  BY <1>3, <1>4 DEF Same
<1>8. PlanInv(c)'
  BY <1>1, <1>3 DEF PlanInv
<1>9. Committing(c) /\ status[c][at[c]] = "not_attempted" /\ at[c] \notin did[c] /\ Gone(c)
  BY <1>1, <1>2 DEF ReportInv
<1>10. ReportInv(c)'
  BY <1>2, <1>3, <1>4, <1>9 DEF ReportInv, Committing, Gone, ScriptInv, Planned
<1>11. StageInv(c)'
  BY <1>1, <1>3, <1>4, <1>9, PatchAssumption DEF StageInv, Gone
<1>12. Stays(c)
  BY <1>4, <1>9 DEF Stays, Free, Holding, Gone
<1> QED BY <1>3, <1>6, <1>7, <1>8, <1>10, <1>11, <1>12, OneCallHost DEF Local

LEMMA AnsweredPreserves ==
  ASSUME IndInv, NEW c \in Calls, Answered(c)
  PROVE  IndInv'
<1>1. /\ CallShape /\ ScriptShape /\ PayloadShape
      /\ PlanInv(c) /\ ReportInv(c) /\ StageInv(c)
  BY DEF IndInv, Shape, Local
<1>2. pc[c] = "await" /\ sp[c] = "exited" /\ RemovePayload(c)
  BY DEF Answered, AnsweredThen
<1>3. UNCHANGED <<file, lock, plan, sp, stage, spins, verdict, did, stolen, strangers>>
  BY DEF Answered, AnsweredThen
<1>4. /\ PayloadShape'
      /\ \A d \in Calls : d # c => payload'[d] = payload[d]
      /\ cut \subseteq cut' /\ (payload'[c] => c \in cut')
  <2>1. CASE payload' = [payload EXCEPT ![c] = FALSE] /\ cut' = cut
    BY <1>1, <2>1 DEF PayloadShape
  <2>2. CASE payload' = payload /\ cut' = cut \cup {c}
    BY <1>1, <2>2 DEF PayloadShape
  <2> QED BY <1>2, <2>1, <2>2 DEF RemovePayload
<1>5. /\ Committing(c) /\ ScriptInv(c) /\ Gone(c) /\ status[c][at[c]] = "not_attempted"
      /\ verdict[c] \in {"ok", "marker", "silent"}
  BY <1>1, <1>2 DEF ReportInv, ScriptInv, Gone, ScriptShape
<1>6. \/ verdict[c] = "ok" /\ Report(c, "applied") /\ NextSection(c)
      \/ verdict[c] = "marker" /\ Fail(c, "failed")
      \/ verdict[c] = "silent" /\ Fail(c, "unknown")
  BY <1>5 DEF Answered, AnsweredThen
<1>7. /\ at[c] \in 1..Len(Sections[c]) /\ Len(Sections[c]) \in Nat
      /\ DOMAIN Sections[c] = 1..Len(Sections[c])
  BY <1>1, SectionsSeq DEF PlanInv
<1>8. PICK s \in {"applied", "failed", "unknown"} :
         /\ Report(c, s)
         /\ verdict[c] = (CASE s = "applied" -> "ok" [] s = "failed" -> "marker"
                            [] s = "unknown" -> "silent")
         /\ s = "applied" => NextSection(c)
         /\ s # "applied" => pc' = [pc EXCEPT ![c] = "done"] /\ UNCHANGED at
  BY <1>6 DEF Fail
<1>9. /\ status' \in [Calls -> Markings]
      /\ status'[c] \in [DOMAIN Sections[c] -> Statuses]
      /\ \A i \in DOMAIN Sections[c] :
            status'[c][i] = IF i = at[c] THEN s ELSE status[c][i]
      /\ \A d \in Calls : d # c => status'[d] = status[d]
  BY <1>1, <1>8, Reported DEF Statuses
<1>10. /\ pc' \in [Calls -> {"prepare", "commit", "run", "await", "done"}]
       /\ at' \in [Calls -> Nat]
       /\ \A d \in Calls : d # c => pc'[d] = pc[d] /\ at'[d] = at[d]
       /\ \/ pc'[c] = "done" /\ at'[c] = at[c]
          \/ s = "applied" /\ at[c] < Len(Sections[c]) /\ pc'[c] = "commit" /\ at'[c] = at[c] + 1
  <2>1. CASE s = "applied"
    BY <1>1, <1>8, <2>1, NextSectionIs
  <2>2. CASE s # "applied"
    BY <1>1, <1>8, <2>2 DEF CallShape
  <2> QED BY <2>1, <2>2
<1>11. /\ s = "applied" => at[c] \in did[c]
       /\ s = "failed" => at[c] \notin did[c]
  BY <1>5, <1>8 DEF ScriptInv
<1>12. Shape'
  BY <1>3, <1>4, <1>9, <1>10 DEF IndInv, Shape, CallShape, ScriptShape, HostShape
<1>13. \A d \in Calls : d # c => Same(d)
  BY <1>3, <1>4, <1>9, <1>10 DEF Same
<1>14. PlanInv(c)'
  <2>1. at'[c] \in DOMAIN Sections[c]
    BY <1>7, <1>10
  <2> QED BY <1>1, <1>3, <1>9, <2>1 DEF PlanInv
<1>15. ReportInv(c)'
  <2>1. Gone(c)'
    BY <1>3, <1>5 DEF Gone
  <2>2. CASE pc'[c] = "done" /\ at'[c] = at[c]
    <3>1. Committing(c)'
      BY <1>3, <1>5, <1>7, <1>9, <2>2 DEF Committing
    <3> QED BY <1>3, <1>7, <1>9, <1>11, <2>1, <2>2, <3>1 DEF ReportInv
  <2>3. CASE s = "applied" /\ at[c] < Len(Sections[c]) /\ pc'[c] = "commit" /\ at'[c] = at[c] + 1
    <3>1. Committing(c)'
      BY <1>3, <1>5, <1>7, <1>9, <1>11, <2>3 DEF Committing, Sure
    <3>2. at'[c] \notin did'[c] /\ status'[c][at'[c]] = "not_attempted"
      BY <1>3, <1>5, <1>7, <1>9, <2>3 DEF Committing
    <3> QED BY <2>1, <2>3, <3>1, <3>2 DEF ReportInv
  <2> QED BY <1>10, <2>2, <2>3
<1>16. StageInv(c)'
  BY <1>1, <1>2, <1>3, <1>4, <1>10 DEF StageInv, Gone, Trying
<1>17. Stays(c)
  BY <1>2, <1>3 DEF Stays, Free, Holding
<1> QED BY <1>3, <1>12, <1>13, <1>14, <1>15, <1>16, <1>17, OneCallHost DEF Local

LEMMA GiveUpPreserves ==
  ASSUME IndInv, NEW c \in Calls, GiveUp(c)
  PROVE  IndInv'
<1>1. CallShape /\ PayloadShape /\ PlanInv(c) /\ ReportInv(c) /\ StageInv(c)
  BY DEF IndInv, Shape, Local
<1>2. pc[c] = "await" /\ Report(c, "unknown") /\ pc' = [pc EXCEPT ![c] = "done"]
  BY DEF GiveUp, GiveUpAs, Fail
<1>3. UNCHANGED <<file, lock, at, plan, sp, stage, spins, verdict, did, stolen, strangers>>
  BY DEF GiveUp, GiveUpAs, Fail
<1>4. /\ status' \in [Calls -> Markings]
      /\ status'[c] \in [DOMAIN Sections[c] -> Statuses]
      /\ \A i \in DOMAIN Sections[c] :
            status'[c][i] = IF i = at[c] THEN "unknown" ELSE status[c][i]
      /\ \A d \in Calls : d # c => status'[d] = status[d]
  BY <1>1, <1>2, Reported DEF Statuses
<1>5. pc'[c] = "done" /\ \A d \in Calls : d # c => pc'[d] = pc[d]
  BY <1>1, <1>2 DEF CallShape
<1>6. /\ PayloadShape' /\ c \in cut' /\ cut \subseteq cut'
      /\ \A d \in Calls : d # c => payload'[d] = payload[d]
  <2>1. cut' = cut \cup {c} /\ payload' \in {payload, [payload EXCEPT ![c] = FALSE]}
    BY DEF GiveUp, GiveUpAs
  <2> QED BY <1>1, <2>1 DEF PayloadShape
<1>7. Shape'
  BY <1>2, <1>3, <1>4, <1>6 DEF IndInv, Shape, CallShape, ScriptShape, HostShape
<1>8. \A d \in Calls : d # c => Same(d)
  BY <1>3, <1>4, <1>5, <1>6 DEF Same
<1>9. PlanInv(c)'
  BY <1>1, <1>3, <1>4 DEF PlanInv
<1>10. ReportInv(c)'
  <2>1. /\ Committing(c) /\ at[c] \in DOMAIN Sections[c]
        /\ ~Gone(c) => Len(plan[c]) = Len(Sections[c]) /\ Planned(c).changed
    BY <1>1, <1>2 DEF ReportInv, PlanInv
  <2>2. Committing(c)'
    BY <1>1, <1>3, <1>4, <2>1, SectionsSeq DEF Committing
  <2> QED BY <1>3, <1>4, <1>5, <2>1, <2>2 DEF ReportInv, Gone, Planned
<1>11. StageInv(c)'
  BY <1>1, <1>3, <1>5, <1>6 DEF StageInv
<1>12. Stays(c)
  BY <1>3 DEF Stays
<1> QED BY <1>3, <1>7, <1>8, <1>9, <1>10, <1>11, <1>12, OneCallHost DEF Local

-----------------------------------------------------------------------------
(* The steps of a script *)

(* A script that runs belongs to a call that waits for it or has given up. *)
LEMMA ScriptLocal ==
  ASSUME IndInv, NEW c \in Calls, ~Gone(c), sp'[c] # "none",
         pc'[c] = pc[c], at'[c] = at[c], plan'[c] = plan[c], status'[c] = status[c],
         did'[c] = did[c] \/ did'[c] = did[c] \cup {at[c]},
         ScriptInv(c) => ScriptInv(c)'
  PROVE  PlanInv(c)' /\ ReportInv(c)'
<1>1. CallShape /\ PlanInv(c) /\ ReportInv(c)
  BY DEF IndInv, Shape, Local
<1>2. PlanInv(c)'
  BY <1>1 DEF PlanInv
<1>3. /\ pc[c] = "await" \/ (pc[c] = "done" /\ status[c][at[c]] = "unknown")
      /\ Committing(c) /\ Len(plan[c]) = Len(Sections[c]) /\ Planned(c).changed
  BY <1>1 DEF ReportInv, Gone, CallShape
<1>4. Committing(c)'
  <2>1. ASSUME NEW i \in DOMAIN Sections[c], i # at[c] PROVE i \in did'[c] <=> i \in did[c]
    BY <2>1
  <2>2. at[c] \in Nat /\ \A i \in DOMAIN Sections[c] : i \in Nat
    BY <1>1, SectionsSeq DEF PlanInv
  <2>3. \A i \in DOMAIN Sections[c] : i < at[c] \/ i > at[c] => i # at[c]
    BY <2>2
  <2> QED BY <1>3, <2>1, <2>3 DEF Committing
<1>5. Len(plan'[c]) = Len(Sections[c]) /\ Planned(c)'.changed
  BY <1>3 DEF Planned
<1>6. CASE pc[c] = "await"
  <2>1. status[c][at[c]] = "not_attempted" /\ ScriptInv(c)
    BY <1>1, <1>6 DEF ReportInv
  <2> QED BY <1>2, <1>4, <1>5, <1>6, <2>1 DEF ReportInv
<1>7. CASE pc[c] = "done" /\ status[c][at[c]] = "unknown"
  BY <1>2, <1>4, <1>5, <1>7 DEF ReportInv
<1> QED BY <1>3, <1>6, <1>7

LEMMA ScriptStagesPreserves ==
  ASSUME IndInv, NEW c \in Calls, ScriptStages(c)
  PROVE  IndInv'
<1>1. ScriptShape /\ StageInv(c)
  BY DEF IndInv, Shape, Local
<1>2. sp[c] = "start" /\ ~Gone(c)
  BY DEF ScriptStages, Gone
<1>3. UNCHANGED <<file, lock, pc, at, plan, status, spins, payload, cut, did, stolen, strangers>>
  BY DEF ScriptStages, callVars, ghosts
<1>4. \/ /\ sp' = [sp EXCEPT ![c] = "clean"] /\ verdict' = [verdict EXCEPT ![c] = "marker"]
         /\ stage' = stage
      \/ /\ sp' = [sp EXCEPT ![c] = "lock"] /\ verdict' = verdict /\ stage' = stage
      \/ /\ sp' = [sp EXCEPT ![c] = "hash"] /\ verdict' = verdict
         /\ \E s \in {"part", "whole"} : stage' = [stage EXCEPT ![c] = s]
  BY DEF ScriptStages, Exits, ScriptGoes
<1>5. ScriptShape'
  BY <1>1, <1>3, <1>4 DEF ScriptShape, ScriptPcs
<1>6. \A d \in Calls : d # c =>
         sp'[d] = sp[d] /\ verdict'[d] = verdict[d] /\ stage'[d] = stage[d]
  BY <1>1, <1>4 DEF ScriptShape
<1>7. \/ sp'[c] = "clean" /\ verdict'[c] = "marker" /\ stage'[c] = stage[c]
      \/ sp'[c] = "lock" /\ verdict'[c] = verdict[c] /\ stage'[c] = stage[c]
      \/ sp'[c] = "hash" /\ verdict'[c] = verdict[c]
  BY <1>1, <1>4 DEF ScriptShape
<1>8. Shape'
  BY <1>3, <1>5 DEF IndInv, Shape, CallShape, PayloadShape, HostShape
<1>9. \A d \in Calls : d # c => Same(d)
  BY <1>3, <1>6 DEF Same
<1>10. ScriptInv(c) => ScriptInv(c)'
  BY <1>2, <1>3, <1>7 DEF ScriptInv, Trying, Holding
<1>11. PlanInv(c)' /\ ReportInv(c)'
  BY <1>2, <1>3, <1>7, <1>10, ScriptLocal
<1>12. StageInv(c)'
  BY <1>1, <1>2, <1>3, <1>7 DEF StageInv, Gone, Trying
<1>13. Stays(c)
  BY <1>2, <1>7 DEF Stays, Free, Trying, Holding
<1> QED BY <1>3, <1>8, <1>9, <1>11, <1>12, <1>13, OneCallHost DEF Local

LEMMA ScriptHashesPreserves ==
  ASSUME IndInv, NEW c \in Calls, ScriptHashes(c)
  PROVE  IndInv'
<1>1. ScriptShape /\ StageInv(c)
  BY DEF IndInv, Shape, Local
<1>2. sp[c] = "hash" /\ ~Gone(c)
  BY DEF ScriptHashes, HashIf, Gone
<1>3. UNCHANGED <<file, lock, pc, at, plan, status, stage, spins, payload, cut, did, stolen,
                  strangers>>
  BY DEF ScriptHashes, HashIf, callVars, ghosts
<1>4. \/ sp' = [sp EXCEPT ![c] = "clean"] /\ verdict' = [verdict EXCEPT ![c] = "marker"]
      \/ sp' = [sp EXCEPT ![c] = "lock"] /\ verdict' = verdict /\ stage[c] = "whole"
  BY DEF ScriptHashes, HashIf, Exits, ScriptGoes
<1>5. ScriptShape'
  BY <1>1, <1>3, <1>4 DEF ScriptShape, ScriptPcs
<1>6. \A d \in Calls : d # c => sp'[d] = sp[d] /\ verdict'[d] = verdict[d]
  BY <1>1, <1>4 DEF ScriptShape
<1>7. \/ sp'[c] = "clean" /\ verdict'[c] = "marker"
      \/ sp'[c] = "lock" /\ verdict'[c] = verdict[c] /\ stage[c] = "whole"
  BY <1>1, <1>4 DEF ScriptShape
<1>8. Shape'
  BY <1>3, <1>5 DEF IndInv, Shape, CallShape, PayloadShape, HostShape
<1>9. \A d \in Calls : d # c => Same(d)
  BY <1>3, <1>6 DEF Same
<1>10. ScriptInv(c) => ScriptInv(c)'
  BY <1>2, <1>3, <1>7 DEF ScriptInv, Trying, Holding
<1>11. PlanInv(c)' /\ ReportInv(c)'
  BY <1>2, <1>3, <1>7, <1>10, ScriptLocal
<1>12. StageInv(c)'
  BY <1>1, <1>2, <1>3, <1>7 DEF StageInv, Gone, Trying
<1>13. Stays(c)
  BY <1>2, <1>7 DEF Stays, Free, Trying, Holding
<1> QED BY <1>3, <1>8, <1>9, <1>11, <1>12, <1>13, OneCallHost DEF Local

LEMMA ScriptDiesPreserves ==
  ASSUME IndInv, NEW c \in Calls, ScriptDies(c)
  PROVE  IndInv'
<1>1. ScriptShape /\ PayloadShape /\ StageInv(c)
  BY DEF IndInv, Shape, Local
<1>2. sp' = [sp EXCEPT ![c] = "dead"] /\ cut' = cut \cup {c} /\ ~Gone(c)
  BY DEF ScriptDies, Running, ScriptGoes, Gone
<1>3. UNCHANGED <<file, lock, pc, at, plan, status, stage, spins, verdict, payload, did,
                  stolen, strangers>>
  BY DEF ScriptDies, callVars
<1>4. sp'[c] = "dead" /\ \A d \in Calls : d # c => sp'[d] = sp[d]
  BY <1>1, <1>2 DEF ScriptShape
<1>5. ScriptShape' /\ PayloadShape'
  BY <1>1, <1>2, <1>3 DEF ScriptShape, PayloadShape, ScriptPcs
<1>6. Shape'
  BY <1>3, <1>5 DEF IndInv, Shape, CallShape, HostShape
<1>7. \A d \in Calls : d # c => Same(d)
  BY <1>2, <1>3, <1>4 DEF Same
<1>8. ScriptInv(c) => ScriptInv(c)'
  BY <1>3, <1>4 DEF ScriptInv, Trying, Holding
<1>9. PlanInv(c)' /\ ReportInv(c)'
  BY <1>2, <1>3, <1>4, <1>8, ScriptLocal
<1>10. StageInv(c)'
  BY <1>1, <1>2, <1>3, <1>4 DEF StageInv, Gone, Trying
<1>11. Stays(c)
  BY <1>4 DEF Stays
<1> QED BY <1>3, <1>6, <1>7, <1>9, <1>10, <1>11, OneCallHost DEF Local

(* Another spin, or lock_busy. *)
LEMMA SpinsIs ==
  ASSUME ScriptShape, NEW c \in Calls, StageInv(c), sp[c] \in Trying, Spins(c)
  PROVE  /\ sp' \in [Calls -> ScriptPcs]
         /\ spins' \in [Calls -> 0..MaxSpins]
         /\ verdict' \in [Calls -> {"none", "ok", "marker", "silent"}]
         /\ \A d \in Calls : d # c =>
               sp'[d] = sp[d] /\ spins'[d] = spins[d] /\ verdict'[d] = verdict[d]
         /\ \/ sp'[c] = "clean" /\ verdict'[c] = "marker"
            \/ sp'[c] = "lock" /\ verdict'[c] = verdict[c] /\ spins'[c] < MaxSpins
<1>1. spins[c] \in Nat /\ MaxSpins \in Nat /\ spins[c] < MaxSpins
  BY PatchAssumption DEF ScriptShape, StageInv
<1>2. spins' = [spins EXCEPT ![c] = spins[c] + 1] /\ spins[c] + 1 \in 0..MaxSpins
  BY <1>1 DEF Spins, SpinsUpTo
<1>3. /\ spins' \in [Calls -> 0..MaxSpins] /\ spins'[c] = spins[c] + 1
      /\ \A d \in Calls : d # c => spins'[d] = spins[d]
  BY <1>2 DEF ScriptShape
<1>4. \/ sp' = [sp EXCEPT ![c] = "clean"] /\ verdict' = [verdict EXCEPT ![c] = "marker"]
      \/ sp' = [sp EXCEPT ![c] = "lock"] /\ verdict' = verdict /\ spins'[c] < MaxSpins
  BY <1>1, <1>3 DEF Spins, SpinsUpTo, Exits, ScriptGoes
<1> QED BY <1>3, <1>4 DEF ScriptShape, ScriptPcs

LEMMA ScriptLocksPreserves ==
  ASSUME IndInv, NEW c \in Calls, ScriptLocks(c)
  PROVE  IndInv'
<1>1. ScriptShape /\ HostShape /\ StageInv(c) /\ PlanInv(c)
  BY DEF IndInv, Shape, Local
<1>2. sp[c] = "lock" /\ ~Gone(c) /\ sp[c] \in Trying
  BY DEF ScriptLocks, Gone, Trying
<1>3. UNCHANGED <<file, pc, at, plan, status, stage, payload, cut, did, stolen, strangers>>
  BY DEF ScriptLocks, callVars, ghosts
<1> DEFINE p == Path(c)
<1>4. p \in Paths
  BY <1>1, SectionsSeq DEF PlanInv, Path
<1>5. CASE /\ lock[p].owner = Nobody /\ lock' = [lock EXCEPT ![p].owner = c]
           /\ ScriptGoes(c, "stamp") /\ UNCHANGED <<spins, verdict>>
  <2>1. sp'[c] = "stamp" /\ \A d \in Calls : d # c => sp'[d] = sp[d]
    BY <1>1, <1>5 DEF ScriptShape, ScriptGoes
  <2>2. ScriptShape'
    BY <1>1, <1>3, <1>5 DEF ScriptShape, ScriptPcs, ScriptGoes
  <2>3. /\ lock' \in [Paths -> Locks] /\ lock'[p].owner = c
        /\ \A q \in Paths : q # p => lock'[q] = lock[q]
    BY <1>1, <1>4, <1>5 DEF HostShape, Locks, Edits
  <2>4. Shape'
    BY <1>3, <2>2, <2>3 DEF IndInv, Shape, CallShape, PayloadShape, HostShape
  <2>5. \A d \in Calls : d # c => Same(d)
    BY <1>3, <1>5, <2>1 DEF Same
  <2>6. ScriptInv(c) => ScriptInv(c)'
    BY <1>2, <1>3, <1>5, <2>1 DEF ScriptInv, Trying, Holding
  <2>7. PlanInv(c)' /\ ReportInv(c)'
    BY <1>2, <1>3, <2>1, <2>6, ScriptLocal
  <2>8. StageInv(c)'
    BY <1>1, <1>2, <1>3, <1>5, <2>1 DEF StageInv, Gone, Trying
  <2>9. ASSUME NEW q \in Paths PROVE LockInv(q)'
    <3>1. LockInv(q)
      BY DEF IndInv
    <3>2. (lock[q].owner = Nobody => lock[q] = Unlocked)'
      BY <2>3, <3>1, PatchAssumption DEF LockInv
    <3>3. ASSUME q \notin stolen, NEW d \in Calls PROVE Excludes(q, d)'
      <4>1. Excludes(q, d)
        BY <3>1, <3>3 DEF LockInv
      <4>2. CASE d = c
        BY <1>2, <1>3, <2>1, <2>3, <4>1, <4>2 DEF Excludes, Path, Holding
      <4>3. CASE d # c
        BY <1>3, <1>5, <2>1, <2>3, <4>1, <4>3, PatchAssumption DEF Excludes, Path, Holding
      <4> QED BY <4>2, <4>3
    <3> QED BY <1>3, <3>2, <3>3 DEF LockInv
  <2>10. \A q \in Paths : FileInv(q)'
    BY <1>3, <2>1, <2>5, FileFrame DEF IndInv, Same
  <2> QED BY <2>4, <2>5, <2>7, <2>8, <2>9, <2>10, OneCall DEF Local
<1>6. CASE /\ lock' = lock
           /\ \/ Exits(c, "marker") /\ UNCHANGED spins
              \/ ScriptGoes(c, "reclaim") /\ UNCHANGED <<spins, verdict>>
              \/ Spins(c)
  <2>1. /\ sp' \in [Calls -> ScriptPcs]
        /\ spins' \in [Calls -> 0..MaxSpins]
        /\ verdict' \in [Calls -> {"none", "ok", "marker", "silent"}]
        /\ \A d \in Calls : d # c =>
              sp'[d] = sp[d] /\ spins'[d] = spins[d] /\ verdict'[d] = verdict[d]
        /\ \/ sp'[c] = "clean" /\ verdict'[c] = "marker"
           \/ /\ sp'[c] \in {"lock", "reclaim"} /\ verdict'[c] = verdict[c]
              /\ spins'[c] < MaxSpins
    <3>1. CASE Exits(c, "marker") /\ UNCHANGED spins
      BY <1>1, <3>1 DEF Exits, ScriptGoes, ScriptShape, ScriptPcs
    <3>2. CASE ScriptGoes(c, "reclaim") /\ UNCHANGED <<spins, verdict>>
      BY <1>1, <1>2, <3>2 DEF ScriptGoes, ScriptShape, ScriptPcs, StageInv
    <3>3. CASE Spins(c)
      BY <1>1, <1>2, <3>3, SpinsIs
    <3> QED BY <1>6, <3>1, <3>2, <3>3
  <2>2. Shape'
    BY <1>3, <1>6, <2>1 DEF IndInv, Shape, CallShape, ScriptShape, PayloadShape, HostShape
  <2>3. \A d \in Calls : d # c => Same(d)
    BY <1>3, <2>1 DEF Same
  <2>4. ScriptInv(c) => ScriptInv(c)'
    BY <1>2, <1>3, <2>1 DEF ScriptInv, Trying, Holding
  <2>5. PlanInv(c)' /\ ReportInv(c)'
    BY <1>2, <1>3, <2>1, <2>4, ScriptLocal
  <2>6. StageInv(c)'
    BY <1>1, <1>2, <1>3, <2>1 DEF StageInv, Gone, Trying
  <2>7. Stays(c)
    BY <1>2, <2>1 DEF Stays, Free, Holding
  <2> QED BY <1>3, <1>6, <2>2, <2>3, <2>5, <2>6, <2>7, OneCallHost DEF Local
<1> QED BY <1>5, <1>6 DEF ScriptLocks

(* What Unstamp and RemoveLockDir do to the locks. *)
LEMMA UnstampIs ==
  ASSUME IndInv, NEW c \in Calls, Path(c) \in Paths, Unstamp(Path(c)), stolen' = stolen,
         UNCHANGED at, \A d \in Calls : d # c => sp'[d] = sp[d],
         \/ sp[c] \in Trying /\ sp'[c] \notin Holding
         \/ sp[c] = "clean" /\ sp'[c] = "clean_rmdir"
  PROVE  /\ lock' \in [Paths -> Locks]
         /\ \A q \in Paths : LockInv(q)'
<1> DEFINE p == Path(c)
<1>1. lock \in [Paths -> Locks] /\ lock[p] \in Locks
  BY DEF IndInv, Shape, HostShape
<1>2. lock' = [lock EXCEPT ![p] = [lock[p] EXCEPT !.stamped = FALSE, !.stale = FALSE]]
  BY DEF Unstamp
<1>3. /\ lock' \in [Paths -> Locks] /\ lock'[p].owner = lock[p].owner /\ ~lock'[p].stamped
      /\ lock[p] = Unlocked => lock'[p] = Unlocked
      /\ \A q \in Paths : q # p => lock'[q] = lock[q]
  <2> DEFINE r == [lock[p] EXCEPT !.stamped = FALSE, !.stale = FALSE]
  <2>1. r \in Locks /\ r.owner = lock[p].owner /\ r.stamped = FALSE /\ r.stale = FALSE
    BY <1>1 DEF Locks
  <2> HIDE DEF r
  <2>2. lock[p] = Unlocked => r = Unlocked
    <3>1. r = [owner |-> r.owner, stamped |-> r.stamped, stale |-> r.stale]
      BY <2>1 DEF Locks
    <3> QED BY <2>1, <3>1 DEF Unlocked
  <2>3. lock' = [lock EXCEPT ![p] = r]
    BY <1>2 DEF r
  <2> QED BY <1>1, <2>1, <2>2, <2>3
<1>4. ASSUME NEW q \in Paths PROVE LockInv(q)'
  <2>1. LockInv(q)
    BY DEF IndInv
  <2>2. (lock[q].owner = Nobody => lock[q] = Unlocked)'
    BY <1>3, <2>1 DEF LockInv
  <2>3. ASSUME q \notin stolen, NEW d \in Calls PROVE Excludes(q, d)'
    <3>1. Excludes(q, d)
      BY <2>1, <2>3 DEF LockInv
    <3>2. CASE d = c
      BY <1>3, <3>1, <3>2 DEF Excludes, Path, Holding, Trying
    <3>3. CASE d # c
      BY <1>3, <3>1, <3>3 DEF Excludes, Path, Holding, Trying
    <3> QED BY <3>2, <3>3
  <2> QED BY <2>2, <2>3 DEF LockInv
<1> QED BY <1>3, <1>4

LEMMA RemoveLockDirIs ==
  ASSUME IndInv, NEW c \in Calls, Path(c) \in Paths, RemoveLockDir(c),
         UNCHANGED at, \A d \in Calls : d # c => sp'[d] = sp[d],
         \/ sp[c] \in Trying /\ sp'[c] \notin Holding
         \/ sp[c] = "clean_rmdir" /\ sp'[c] = "exited"
  PROVE  /\ lock' \in [Paths -> Locks]
         /\ stolen \subseteq stolen' /\ stolen' \subseteq Paths
         /\ \A q \in Paths : LockInv(q)'
<1> DEFINE p == Path(c)
<1>1. lock \in [Paths -> Locks] /\ lock[p] \in Locks /\ stolen \subseteq Paths
  BY DEF IndInv, Shape, HostShape
<1>2. CASE lock[p].owner # Nobody /\ ~lock[p].stamped
  <2>1. /\ lock' = [lock EXCEPT ![p] = Unlocked]
        /\ stolen' = IF lock[p].owner # c /\ sp[lock[p].owner] \notin {"exited", "dead"}
                     THEN stolen \cup {p} ELSE stolen
    BY <1>2 DEF RemoveLockDir
  <2>2. /\ lock' \in [Paths -> Locks] /\ lock'[p] = Unlocked /\ lock'[p].owner = Nobody
        /\ \A q \in Paths : q # p => lock'[q] = lock[q]
    BY <1>1, <2>1 DEF Locks, Unlocked, Edits
  <2>3. ASSUME NEW q \in Paths PROVE LockInv(q)'
    <3>1. LockInv(q)
      BY DEF IndInv
    <3>2. (lock[q].owner = Nobody => lock[q] = Unlocked)'
      BY <2>2, <3>1 DEF LockInv
    <3>3. ASSUME q \notin stolen', NEW d \in Calls PROVE Excludes(q, d)'
      <4>1. Excludes(q, d)
        BY <2>1, <3>1, <3>3 DEF LockInv
      <4>2. CASE q # p
        BY <2>2, <4>1, <4>2 DEF Excludes, Path, Holding, Trying
      <4>3. CASE q = p
        <5>1. lock'[q].owner # d
          BY <2>2, <4>3, PatchAssumption
        <5>2. ASSUME sp'[d] \in Holding, Path(d) = p PROVE FALSE
          <6>1. d # c
            BY <5>2 DEF Holding, Trying
          <6>2. lock[p].owner = d /\ sp[d] \in Holding
            BY <4>1, <4>3, <5>2, <6>1 DEF Excludes
          <6>3. p \in stolen'
            BY <2>1, <6>1, <6>2 DEF Holding
          <6> QED BY <3>3, <4>3, <6>3
        <5> QED BY <4>3, <5>1, <5>2 DEF Excludes, Path
      <4> QED BY <4>2, <4>3
    <3> QED BY <3>2, <3>3 DEF LockInv
  <2> QED BY <1>1, <2>1, <2>2, <2>3
<1>3. CASE ~(lock[p].owner # Nobody /\ ~lock[p].stamped)
  <2>1. lock' = lock /\ stolen' = stolen
    BY <1>3 DEF RemoveLockDir
  <2>2. ASSUME NEW q \in Paths PROVE LockInv(q)'
    <3>1. LockInv(q)
      BY DEF IndInv
    <3>2. ASSUME q \notin stolen, NEW d \in Calls PROVE Excludes(q, d)'
      <4>1. Excludes(q, d)
        BY <3>1, <3>2 DEF LockInv
      <4>2. CASE d # c
        BY <2>1, <4>1, <4>2 DEF Excludes, Path
      <4>3. CASE d = c
        <5>1. lock[q].owner # c
          BY <1>3, <4>1, <4>3, PatchAssumption DEF Excludes, Holding, Trying
        <5> QED BY <2>1, <4>3, <5>1 DEF Excludes, Path, Holding
      <4> QED BY <4>2, <4>3
    <3> QED BY <2>1, <3>1, <3>2 DEF LockInv
  <2> QED BY <1>1, <2>1, <2>2
<1> QED BY <1>2, <1>3

LEMMA ScriptReclaimsPreserves ==
  ASSUME IndInv, NEW c \in Calls, ScriptReclaims(c)
  PROVE  IndInv'
<1>1. ScriptShape /\ HostShape /\ StageInv(c) /\ PlanInv(c)
  BY DEF IndInv, Shape, Local
<1>2. sp[c] \in {"reclaim", "reclaim_rmdir"} /\ ~Gone(c) /\ sp[c] \in Trying
  BY DEF ScriptReclaims, Gone, Trying
<1>3. UNCHANGED <<file, pc, at, plan, status, stage, payload, cut, did, strangers>>
  BY DEF ScriptReclaims, callVars
<1> DEFINE p == Path(c)
<1>4. p \in Paths
  BY <1>1, SectionsSeq DEF PlanInv, Path
<1>5. /\ sp' \in [Calls -> ScriptPcs]
      /\ spins' \in [Calls -> 0..MaxSpins]
      /\ verdict' \in [Calls -> {"none", "ok", "marker", "silent"}]
      /\ \A d \in Calls : d # c =>
            sp'[d] = sp[d] /\ spins'[d] = spins[d] /\ verdict'[d] = verdict[d]
      /\ \/ sp'[c] = "clean" /\ verdict'[c] = "marker"
         \/ /\ sp'[c] \in {"lock", "reclaim_rmdir"} /\ verdict'[c] = verdict[c]
            /\ spins'[c] < MaxSpins
  <2>1. CASE /\ ScriptGoes(c, "lock") \/ ScriptGoes(c, "reclaim_rmdir")
             /\ UNCHANGED <<spins, verdict>>
    BY <1>1, <1>2, <2>1 DEF ScriptGoes, ScriptShape, ScriptPcs, StageInv
  <2>2. CASE Spins(c)
    BY <1>1, <1>2, <2>2, SpinsIs
  <2> QED BY <2>1, <2>2 DEF ScriptReclaims
<1>6. \/ sp[c] = "reclaim" /\ Unstamp(p) /\ stolen' = stolen
      \/ sp[c] = "reclaim_rmdir" /\ RemoveLockDir(c)
  BY DEF ScriptReclaims
<1>7. ScriptInv(c) => ScriptInv(c)'
  BY <1>2, <1>3, <1>5 DEF ScriptInv, Trying, Holding
<1>8. PlanInv(c)' /\ ReportInv(c)'
  BY <1>2, <1>3, <1>5, <1>7, ScriptLocal
<1>9. StageInv(c)'
  BY <1>1, <1>2, <1>3, <1>5 DEF StageInv, Gone, Trying
<1>10. \A d \in Calls : d # c => Same(d)
  BY <1>3, <1>5 DEF Same
<1>11. lock' \in [Paths -> Locks] /\ stolen \subseteq stolen' /\ stolen' \subseteq Paths
       /\ \A q \in Paths : LockInv(q)'
  <2>1. CASE Unstamp(p) /\ stolen' = stolen
    <3>1. stolen \subseteq Paths /\ sp'[c] \notin Holding /\ at' = at
      BY <1>1, <1>3, <1>5 DEF HostShape, Holding
    <3> QED BY <1>2, <1>4, <1>5, <2>1, <3>1, UnstampIs
  <2>2. CASE RemoveLockDir(c)
    BY <1>1, <1>2, <1>3, <1>4, <1>5, <2>2, RemoveLockDirIs DEF IndInv, Holding, Trying
  <2> QED BY <1>6, <2>1, <2>2
<1>12. Shape'
  BY <1>3, <1>5, <1>11 DEF IndInv, Shape, CallShape, ScriptShape, PayloadShape, HostShape
<1>13. \A q \in Paths : FileInv(q)'
  BY <1>3, <1>5, <1>11, FileFrame DEF IndInv
<1> QED BY <1>8, <1>9, <1>10, <1>11, <1>12, <1>13, OneCall DEF Local

LEMMA ScriptStampsPreserves ==
  ASSUME IndInv, NEW c \in Calls, ScriptStamps(c)
  PROVE  IndInv'
<1>1. ScriptShape /\ HostShape /\ StageInv(c) /\ PlanInv(c)
  BY DEF IndInv, Shape, Local
<1>2. sp[c] = "stamp" /\ ~Gone(c) /\ sp' = [sp EXCEPT ![c] = "check"]
  BY DEF ScriptStamps, Gone, ScriptGoes
<1>3. UNCHANGED <<file, pc, at, plan, status, stage, spins, verdict, payload, cut, did,
                  stolen, strangers>>
  BY DEF ScriptStamps, callVars, ghosts
<1> DEFINE p == Path(c)
<1>4. p \in Paths /\ lock \in [Paths -> Locks] /\ lock[p] \in Locks
  BY <1>1, SectionsSeq DEF PlanInv, Path, HostShape
<1>5. sp'[c] = "check" /\ \A d \in Calls : d # c => sp'[d] = sp[d]
  BY <1>1, <1>2 DEF ScriptShape
<1>6. ScriptShape'
  BY <1>1, <1>2, <1>3 DEF ScriptShape, ScriptPcs
<1>7. /\ lock' \in [Paths -> Locks] /\ lock'[p].owner = lock[p].owner
      /\ lock[p].owner = Nobody => lock'[p] = lock[p]
      /\ \A q \in Paths : q # p => lock'[q] = lock[q]
  <2>1. CASE lock[p].owner = Nobody /\ lock' = lock
    BY <1>4, <2>1
  <2>2. CASE /\ lock[p].owner # Nobody
             /\ lock' = [lock EXCEPT ![p].stamped = TRUE, ![p].stale = FALSE]
    <3> DEFINE r == [lock[p] EXCEPT !.stamped = TRUE, !.stale = FALSE]
    <3>1. r \in Locks /\ r.owner = lock[p].owner
      BY <1>4 DEF Locks
    <3>2. lock' = [lock EXCEPT ![p] = r]
      BY <2>2
    <3> HIDE DEF r
    <3> QED BY <1>4, <2>2, <3>1, <3>2
  <2> QED BY <2>1, <2>2 DEF ScriptStamps
<1>8. Shape'
  BY <1>3, <1>6, <1>7 DEF IndInv, Shape, CallShape, PayloadShape, HostShape
<1>9. \A d \in Calls : d # c => Same(d)
  BY <1>3, <1>5 DEF Same
<1>10. ScriptInv(c) => ScriptInv(c)'
  BY <1>2, <1>3, <1>5 DEF ScriptInv, Trying, Holding
<1>11. PlanInv(c)' /\ ReportInv(c)'
  BY <1>2, <1>3, <1>5, <1>10, ScriptLocal
<1>12. StageInv(c)'
  BY <1>1, <1>2, <1>3, <1>5 DEF StageInv, Gone, Trying
<1>13. ASSUME NEW q \in Paths PROVE LockInv(q)'
  <2>1. LockInv(q)
    BY DEF IndInv
  <2>2. (lock[q].owner = Nobody => lock[q] = Unlocked)'
    BY <1>7, <2>1 DEF LockInv
  <2>3. ASSUME q \notin stolen, NEW d \in Calls PROVE Excludes(q, d)'
    <3>1. Excludes(q, d) /\ Excludes(q, c)
      BY <2>1, <2>3 DEF LockInv
    <3>2. CASE d = c
      BY <1>2, <1>3, <1>5, <1>7, <3>1, <3>2 DEF Excludes, Path, Holding
    <3>3. CASE d # c
      BY <1>2, <1>3, <1>5, <1>7, <3>1, <3>3 DEF Excludes, Path, Holding
    <3> QED BY <3>2, <3>3
  <2> QED BY <1>3, <2>2, <2>3 DEF LockInv
<1>14. \A q \in Paths : FileInv(q)'
  <2>1. \A d \in Calls : sp'[d] = "replace" =>
           sp[d] = "replace" /\ at'[d] = at[d] /\ plan'[d] = plan[d]
    BY <1>3, <1>5
  <2> QED BY <1>3, <2>1, FileFrame DEF IndInv
<1> QED BY <1>8, <1>9, <1>11, <1>12, <1>13, <1>14, OneCall DEF Local

LEMMA ScriptChecksPreserves ==
  ASSUME IndInv, NEW c \in Calls, ScriptChecks(c)
  PROVE  IndInv'
<1>1. ScriptShape /\ StageInv(c)
  BY DEF IndInv, Shape, Local
<1>2. sp[c] = "check" /\ ~Gone(c)
  BY DEF ScriptChecks, CheckIf, Gone
<1>3. UNCHANGED <<file, lock, pc, at, plan, status, stage, spins, payload, cut, did,
                  stolen, strangers>>
  BY DEF ScriptChecks, CheckIf, callVars, ghosts
<1>4. \/ sp' = [sp EXCEPT ![c] = "clean"] /\ verdict' = [verdict EXCEPT ![c] = "marker"]
      \/ /\ sp' = [sp EXCEPT ![c] = "replace"] /\ verdict' = verdict
         /\ file[Path(c)] = Planned(c).expected
  BY DEF ScriptChecks, CheckIf, Exits, ScriptGoes
<1>5. ScriptShape'
  BY <1>1, <1>3, <1>4 DEF ScriptShape, ScriptPcs
<1>6. \A d \in Calls : d # c => sp'[d] = sp[d] /\ verdict'[d] = verdict[d]
  BY <1>1, <1>4 DEF ScriptShape
<1>7. \/ sp'[c] = "clean" /\ verdict'[c] = "marker"
      \/ sp'[c] = "replace" /\ verdict'[c] = verdict[c] /\ file[Path(c)] = Planned(c).expected
  BY <1>1, <1>4 DEF ScriptShape
<1>8. Shape'
  BY <1>3, <1>5 DEF IndInv, Shape, CallShape, PayloadShape, HostShape
<1>9. \A d \in Calls : d # c => Same(d)
  BY <1>3, <1>6 DEF Same
<1>10. ScriptInv(c) => ScriptInv(c)'
  BY <1>2, <1>3, <1>7 DEF ScriptInv, Trying, Holding
<1>11. PlanInv(c)' /\ ReportInv(c)'
  BY <1>2, <1>3, <1>7, <1>10, ScriptLocal
<1>12. StageInv(c)'
  BY <1>1, <1>2, <1>3, <1>7 DEF StageInv, Gone, Trying
<1>13. \A d \in Calls : \/ Stays(d)
                        \/ sp[d] \in Holding /\ sp'[d] \in Holding /\ at'[d] = at[d]
  BY <1>2, <1>3, <1>6, <1>7 DEF Stays, Holding
<1>14. \A q \in Paths : LockInv(q)'
  BY <1>3, <1>13, LockFrame DEF IndInv
<1>15. ASSUME NEW q \in Paths PROVE FileInv(q)'
  <2>1. FileInv(q)
    BY DEF IndInv
  <2>2. (file[q].whole)' /\ (~file[q].there => file[q].edits = {})'
    BY <1>3, <2>1 DEF FileInv
  <2>3. Kept(q)' => Kept(q)
    BY <1>3 DEF Kept
  <2>4. ASSUME Kept(q), NEW d \in Calls, sp'[d] = "replace", Path(d)' = q
        PROVE  file'[q] = Planned(d)'.expected
    <3>1. Path(d) = q /\ Planned(d)' = Planned(d)
      BY <1>3, <2>4 DEF Path, Planned
    <3>2. CASE d = c
      BY <1>3, <1>7, <2>4, <3>1, <3>2
    <3>3. CASE d # c
      BY <1>3, <1>6, <2>1, <2>4, <3>1, <3>3 DEF FileInv
    <3> QED BY <3>2, <3>3
  <2>5. Kept(q) /\ ~Deleted(q)' => (\A d \in Calls : \A i \in did[d] :
                    Sections[d][i].path = q => d \in file[q].edits)'
    BY <1>3, <2>1 DEF FileInv, Deleted
  <2> QED BY <2>2, <2>3, <2>4, <2>5 DEF FileInv
<1> QED BY <1>8, <1>9, <1>11, <1>12, <1>14, <1>15, OneCall DEF Local

LEMMA ScriptCleansPreserves ==
  ASSUME IndInv, NEW c \in Calls, ScriptCleans(c)
  PROVE  IndInv'
<1>1. /\ CallShape /\ ScriptShape /\ PayloadShape /\ HostShape
      /\ StageInv(c) /\ PlanInv(c)
  BY DEF IndInv, Shape, Local
<1>2. UNCHANGED <<file, pc, at, plan, status, spins, verdict, cut, did, strangers>>
  BY DEF ScriptCleans, CleanRemoving, callVars
<1> DEFINE p == Path(c)
<1>3. p \in Paths
  BY <1>1, SectionsSeq DEF PlanInv, Path
<1>4. \/ /\ sp[c] = "clean" /\ sp' = [sp EXCEPT ![c] = "clean_rmdir"]
         /\ stage' = [stage EXCEPT ![c] = "none"] /\ payload' = payload
         /\ Unstamp(p) /\ stolen' = stolen
      \/ /\ sp[c] = "clean_rmdir" /\ sp' = [sp EXCEPT ![c] = "exited"] /\ stage' = stage
         /\ payload' = [payload EXCEPT ![c] = FALSE]
         /\ RemoveLockDir(c)
  BY DEF ScriptCleans, CleanRemoving, ScriptGoes
<1>5. ScriptShape' /\ PayloadShape'
  BY <1>1, <1>2, <1>4 DEF ScriptShape, PayloadShape, ScriptPcs
<1>6. \A d \in Calls : d # c =>
         sp'[d] = sp[d] /\ stage'[d] = stage[d] /\ payload'[d] = payload[d]
  BY <1>1, <1>4 DEF ScriptShape, PayloadShape
<1>7. /\ ~Gone(c) /\ stage'[c] = "none" /\ (payload'[c] => payload[c])
      /\ \/ sp[c] = "clean" /\ sp'[c] = "clean_rmdir"
         \/ sp[c] = "clean_rmdir" /\ sp'[c] = "exited"
  BY <1>1, <1>4 DEF ScriptShape, PayloadShape, StageInv, Gone
<1>8. \A d \in Calls : d # c => Same(d)
  BY <1>2, <1>6 DEF Same
<1>9. ScriptInv(c) => ScriptInv(c)'
  BY <1>2, <1>7 DEF ScriptInv, Trying, Holding
<1>10. PlanInv(c)' /\ ReportInv(c)'
  BY <1>2, <1>7, <1>9, ScriptLocal
<1>11. StageInv(c)'
  BY <1>1, <1>2, <1>7 DEF StageInv, Gone, Trying
<1>12. lock' \in [Paths -> Locks] /\ stolen \subseteq stolen' /\ stolen' \subseteq Paths
       /\ \A q \in Paths : LockInv(q)'
  <2>1. CASE sp[c] = "clean"
    <3>1. Unstamp(p) /\ stolen' = stolen /\ stolen \subseteq Paths
      BY <1>1, <1>4, <2>1 DEF HostShape
    <3> QED BY <1>2, <1>3, <1>6, <1>7, <2>1, <3>1, UnstampIs
  <2>2. CASE sp[c] = "clean_rmdir"
    <3>1. RemoveLockDir(c)
      BY <1>4, <2>2
    <3> QED BY <1>2, <1>3, <1>6, <1>7, <2>2, <3>1, RemoveLockDirIs
  <2> QED BY <1>7, <2>1, <2>2
<1>13. Shape'
  BY <1>2, <1>5, <1>12 DEF IndInv, Shape, CallShape, HostShape
<1>14. \A q \in Paths : FileInv(q)'
  <2>1. \A d \in Calls : sp'[d] = "replace" =>
           sp[d] = "replace" /\ at'[d] = at[d] /\ plan'[d] = plan[d]
    BY <1>2, <1>6, <1>7
  <2> QED BY <1>2, <1>12, <2>1, FileFrame DEF IndInv
<1> QED BY <1>8, <1>10, <1>11, <1>12, <1>13, <1>14, OneCall DEF Local

(* The content that replaces the target holds the edits of the content it  *)
(* was compared with, unless it is a deletion.                             *)
LEMMA ScriptReplacesPreserves ==
  ASSUME IndInv, NEW c \in Calls, ScriptReplaces(c)
  PROVE  IndInv'
<1>1. /\ CallShape /\ ScriptShape /\ HostShape /\ PlanInv(c) /\ ReportInv(c) /\ StageInv(c)
  BY DEF IndInv, Shape, Local
<1>2. sp[c] = "replace" /\ ~Gone(c)
  BY DEF ScriptReplaces, ReplaceBy, Gone
<1>3. UNCHANGED <<lock, pc, at, plan, status, spins, payload, cut, stolen, strangers>>
  BY DEF ScriptReplaces, ReplaceBy, callVars
<1> DEFINE p == Path(c)
<1>4. CASE Exits(c, "marker") /\ UNCHANGED <<file, did, stage>>
  <2>1. ScriptShape'
    BY <1>1, <1>3, <1>4 DEF ScriptShape, ScriptPcs, Exits, ScriptGoes
  <2>2. /\ sp'[c] = "clean" /\ verdict'[c] = "marker"
        /\ \A d \in Calls : d # c => sp'[d] = sp[d] /\ verdict'[d] = verdict[d]
    BY <1>1, <1>4 DEF ScriptShape, Exits, ScriptGoes
  <2>3. Shape'
    BY <1>3, <1>4, <2>1 DEF IndInv, Shape, CallShape, PayloadShape, HostShape
  <2>4. \A d \in Calls : d # c => Same(d)
    BY <1>3, <1>4, <2>2 DEF Same
  <2>5. ScriptInv(c) => ScriptInv(c)'
    BY <1>2, <1>3, <1>4, <2>2 DEF ScriptInv, Trying, Holding
  <2>6. PlanInv(c)' /\ ReportInv(c)'
    BY <1>2, <1>3, <1>4, <2>2, <2>5, ScriptLocal
  <2>7. StageInv(c)'
    BY <1>1, <1>2, <1>3, <1>4, <2>2 DEF StageInv, Gone, Trying
  <2>8. Stays(c)
    BY <1>2, <1>3, <2>2 DEF Stays, Holding
  <2> QED BY <1>3, <1>4, <2>3, <2>4, <2>6, <2>7, <2>8, OneCallHost DEF Local
<1>5. CASE /\ CASE Op(c) = "add" -> ~file[p].there
                [] Op(c) = "update" -> TRUE
                [] Op(c) = "delete" -> file[p].there
           /\ file' = [file EXCEPT ![p] =
                         [Planned(c).new EXCEPT !.whole = (stage[c] # "part")]]
           /\ did' = [did EXCEPT ![c] = @ \cup {at[c]}]
           /\ stage' = [stage EXCEPT ![c] = IF Op(c) = "update" THEN "none" ELSE @]
           /\ Exits(c, "ok") \/ (Op(c) = "add" /\ Exits(c, "silent"))
  <2>1. /\ at[c] \in DOMAIN Sections[c] /\ at[c] \in Nat /\ p \in Paths
        /\ Op(c) \in {"add", "update", "delete"}
    <3>1. at[c] \in DOMAIN Sections[c] /\ at[c] \in Nat
      BY <1>1 DEF PlanInv, CallShape
    <3> QED BY <3>1, SectionsSeq DEF Path, Op
  <2>2. at[c] \in 1..Len(plan[c]) /\ Planned(c) \in Plannings /\ Planned(c).changed
    <3>1. Len(plan[c]) = Len(Sections[c]) /\ Planned(c).changed
      BY <1>1, <1>2 DEF ReportInv
    <3> QED BY <1>1, <2>1, <3>1, SectionsSeq, PlanSeq DEF Planned
  <2>3. Planned(c).new = CASE Op(c) = "delete" -> Missing
                           [] Op(c) = "add" -> Text({c})
                           [] Op(c) = "update" -> Text(Planned(c).expected.edits \cup {c})
    BY <1>1, <2>2 DEF PlanInv, Planned, Op
  <2>4. stage[c] # "part"
    BY <1>1, <1>2 DEF StageInv
  <2> DEFINE n == Planned(c).new
             m == [n EXCEPT !.whole = (stage[c] # "part")]
  <2>5. m \in Contents /\ m.whole /\ m.edits = n.edits /\ m.there = n.there
    BY <2>2, <2>4 DEF Plannings, Contents
  <2>6. /\ ~m.there => m.edits = {}
        /\ Op(c) # "delete" => c \in m.edits
        /\ Op(c) = "update" => Planned(c).expected.edits \subseteq m.edits
    <3>1. CASE Op(c) = "delete"
      BY <2>3, <2>5, <3>1 DEF Missing
    <3>2. CASE Op(c) = "add"
      BY <2>3, <2>5, <3>2 DEF Text
    <3>3. CASE Op(c) = "update"
      BY <2>3, <2>5, <3>3 DEF Text
    <3> QED BY <2>1, <3>1, <3>2, <3>3
  <2> HIDE DEF m
  <2>7. /\ file' \in [Paths -> Contents] /\ file'[p] = m
        /\ \A q \in Paths : q # p => file'[q] = file[q]
    <3>1. file' = [file EXCEPT ![p] = m]
      BY <1>5 DEF m
    <3> QED BY <1>1, <2>1, <2>5, <3>1 DEF HostShape
  <2>8. /\ did' \in [Calls -> SUBSET Nat] /\ did'[c] = did[c] \cup {at[c]}
        /\ \A d \in Calls : d # c => did'[d] = did[d]
    BY <1>1, <1>5, <2>1 DEF HostShape
  <2>9. /\ sp' \in [Calls -> ScriptPcs] /\ sp'[c] = "clean"
        /\ verdict' \in [Calls -> {"none", "ok", "marker", "silent"}]
        /\ verdict'[c] \in {"ok", "silent"}
        /\ \A d \in Calls : d # c => sp'[d] = sp[d] /\ verdict'[d] = verdict[d]
    BY <1>1, <1>5 DEF ScriptShape, ScriptPcs, Exits, ScriptGoes
  <2>10. /\ stage' \in [Calls -> {"none", "part", "whole"}] /\ stage'[c] # "part"
         /\ \A d \in Calls : d # c => stage'[d] = stage[d]
    BY <1>1, <1>5, <2>4 DEF ScriptShape
  <2>11. Shape'
    BY <1>3, <2>7, <2>8, <2>9, <2>10
       DEF IndInv, Shape, CallShape, ScriptShape, PayloadShape, HostShape
  <2>12. \A d \in Calls : d # c => Same(d)
    BY <1>3, <2>8, <2>9, <2>10 DEF Same
  <2>13. ScriptInv(c) => ScriptInv(c)'
    BY <1>3, <2>8, <2>9 DEF ScriptInv, Trying, Holding
  <2>14. PlanInv(c)' /\ ReportInv(c)'
    BY <1>2, <1>3, <2>8, <2>9, <2>13, ScriptLocal
  <2>15. StageInv(c)'
    BY <1>1, <1>2, <1>3, <2>9, <2>10 DEF StageInv, Gone, Trying
  <2>16. \A q \in Paths : LockInv(q)'
    <3>1. \A d \in Calls : Stays(d)
      BY <1>2, <1>3, <2>9 DEF Stays, Holding
    <3> QED BY <1>3, <3>1, LockFrame DEF IndInv
  <2>17. ASSUME NEW q \in Paths PROVE FileInv(q)'
    <3>1. FileInv(q) /\ LockInv(q)
      BY DEF IndInv
    <3>2. (file[q].whole)' /\ (~file[q].there => file[q].edits = {})'
      BY <2>5, <2>6, <2>7, <3>1 DEF FileInv
    <3>3. ASSUME Kept(q)', NEW d \in Calls, sp'[d] = "replace", Path(d)' = q
          PROVE  file'[q] = Planned(d)'.expected
      <4>1. /\ d # c /\ sp[d] = "replace" /\ Path(d) = q /\ Planned(d)' = Planned(d)
            /\ Kept(q)
        BY <1>3, <2>9, <3>3 DEF Path, Planned, Kept
      <4>2. q # p
        <5>1. Excludes(q, c) /\ Excludes(q, d)
          BY <3>1, <4>1 DEF LockInv, Kept
        <5> QED BY <1>2, <4>1, <5>1 DEF Excludes, Holding
      <4> QED BY <2>7, <3>1, <4>1, <4>2 DEF FileInv
    <3>4. ASSUME Kept(q)', ~Deleted(q)', NEW d \in Calls, NEW i \in did'[d],
                 Sections[d][i].path = q
          PROVE  d \in file'[q].edits
      <4>1. Kept(q) /\ ~Deleted(q)
        <5>1. \A e \in Calls : did[e] \subseteq did'[e]
          BY <2>8
        <5> QED BY <1>3, <3>4, <5>1 DEF Kept, Deleted
      <4>2. CASE d = c /\ i = at[c]
        <5>1. q = p
          BY <3>4, <4>2 DEF Path
        <5>2. Op(c) # "delete"
          <6>1. ASSUME Op(c) = "delete" PROVE FALSE
            <7>1. Sections[c][at[c]] = [path |-> q, op |-> "delete"]
              BY <2>1, <3>4, <4>2, <6>1, SectionsSeq DEF Op
            <7>2. at[c] \in did'[c]
              BY <2>8
            <7> QED BY <3>4, <7>1, <7>2 DEF Deleted
          <6> QED BY <6>1
        <5> QED BY <2>6, <2>7, <4>2, <5>1, <5>2
      <4>3. CASE i \in did[d]
        <5>1. d \in file[q].edits
          BY <3>1, <3>4, <4>1, <4>3 DEF FileInv
        <5>2. CASE q # p
          BY <2>7, <5>1, <5>2
        <5>3. CASE q = p
          <6>1. file[q].there
            BY <3>1, <5>1 DEF FileInv
          <6>2. Op(c) # "add"
            BY <1>5, <5>3, <6>1
          <6>3. CASE Op(c) = "update"
            <7>1. file[q] = Planned(c).expected
              BY <1>2, <3>1, <4>1, <5>3 DEF FileInv
            <7> QED BY <2>6, <2>7, <5>1, <5>3, <6>3, <7>1
          <6>4. Op(c) # "delete"
            <7>1. ASSUME Op(c) = "delete" PROVE FALSE
              <8>1. Sections[c][at[c]] = [path |-> q, op |-> "delete"]
                BY <2>1, <5>3, <7>1, SectionsSeq DEF Op, Path
              <8>2. at[c] \in did'[c]
                BY <2>8
              <8> QED BY <3>4, <8>1, <8>2 DEF Deleted
            <7> QED BY <7>1
          <6> QED BY <2>1, <6>2, <6>3, <6>4
        <5> QED BY <5>2, <5>3
      <4> QED BY <2>8, <4>2, <4>3
    <3> QED BY <3>2, <3>3, <3>4 DEF FileInv
  <2> QED BY <2>11, <2>12, <2>14, <2>15, <2>16, <2>17, OneCall DEF Local
<1> QED BY <1>4, <1>5 DEF ScriptReplaces, ReplaceBy

-----------------------------------------------------------------------------
(* The steps of the host *)

LEMMA LockAgesPreserves ==
  ASSUME IndInv, NEW p \in Paths, LockAges(p)
  PROVE  IndInv'
<1>1. lock \in [Paths -> Locks] /\ lock[p] \in Locks /\ LockInv(p)
  BY DEF IndInv, Shape, HostShape
<1>2. lock[p].stamped /\ lock' = [lock EXCEPT ![p] = [lock[p] EXCEPT !.stale = TRUE]]
  BY DEF LockAges
<1>3. UNCHANGED <<file, callVars, scriptVars, ghosts, strangers>>
  BY DEF LockAges
<1>4. UNCHANGED <<file, pc, at, plan, status, sp, stage, spins, verdict, payload, cut, did,
                  stolen, strangers>>
  BY <1>3 DEF callVars, scriptVars, ghosts
<1> DEFINE r == [lock[p] EXCEPT !.stale = TRUE]
<1>5. r \in Locks /\ r.owner = lock[p].owner /\ r.stamped = lock[p].stamped
  BY <1>1 DEF Locks
<1>6. lock[p].owner # Nobody
  BY <1>1, <1>2 DEF LockInv, Unlocked
<1> HIDE DEF r
<1>7. lock' \in [Paths -> Locks] /\ lock'[p] = r /\ \A q \in Paths : q # p => lock'[q] = lock[q]
  BY <1>1, <1>2, <1>5 DEF r
<1>8. Shape'
  BY <1>4, <1>7 DEF IndInv, Shape, CallShape, ScriptShape, PayloadShape, HostShape
<1>9. \A c \in Calls : Local(c)'
  BY <1>4, LocalFrame DEF IndInv, Same
<1>10. ASSUME NEW q \in Paths PROVE LockInv(q)'
  <2>1. LockInv(q)
    BY DEF IndInv
  <2>2. lock'[q].owner = lock[q].owner /\ lock'[q].stamped = lock[q].stamped
    BY <1>5, <1>7
  <2>3. (lock[q].owner = Nobody => lock[q] = Unlocked)'
    BY <1>5, <1>6, <1>7, <2>1 DEF LockInv
  <2>4. ASSUME q \notin stolen, NEW d \in Calls PROVE Excludes(q, d)'
    BY <1>4, <2>1, <2>2, <2>4 DEF LockInv, Excludes, Path
  <2> QED BY <1>4, <2>3, <2>4 DEF LockInv
<1>11. \A q \in Paths : FileInv(q)'
  BY <1>4, FileFrame DEF IndInv
<1> QED BY <1>8, <1>9, <1>10, <1>11 DEF IndInv

LEMMA StrangerReplacesPreserves ==
  ASSUME IndInv, NEW p \in Paths, StrangerReplaces(p)
  PROVE  IndInv'
<1>1. file \in [Paths -> Contents] /\ strangers \subseteq Strangers
  BY DEF IndInv, Shape, HostShape
<1>2. /\ p \in strangers /\ strangers' = strangers \ {p}
      /\ file' = [file EXCEPT ![p] = Text({Nobody})]
  BY DEF StrangerReplaces
<1>3. UNCHANGED <<lock, callVars, scriptVars, ghosts>>
  BY DEF StrangerReplaces
<1>4. UNCHANGED <<lock, pc, at, plan, status, sp, stage, spins, verdict, payload, cut, did,
                  stolen>>
  BY <1>3 DEF callVars, scriptVars, ghosts
<1>5. Text({Nobody}) \in Contents /\ Text({Nobody}).whole /\ Text({Nobody}).there
  BY DEF Text, Contents, Edits
<1>6. /\ file' \in [Paths -> Contents] /\ file'[p] = Text({Nobody})
      /\ \A q \in Paths : q # p => file'[q] = file[q]
  BY <1>1, <1>2, <1>5
<1>7. Shape'
  BY <1>1, <1>2, <1>4, <1>6 DEF IndInv, Shape, CallShape, ScriptShape, PayloadShape, HostShape
<1>8. \A c \in Calls : Local(c)'
  BY <1>4, LocalFrame DEF IndInv, Same
<1>9. \A q \in Paths : LockInv(q)'
  BY <1>4, LockFrame DEF IndInv, Stays
<1>10. ASSUME NEW q \in Paths PROVE FileInv(q)'
  <2>1. FileInv(q)
    BY DEF IndInv
  <2>2. CASE q = p
    BY <1>1, <1>2, <1>5, <1>6, <2>2 DEF FileInv, Kept
  <2>3. CASE q # p
    <3>1. file'[q] = file[q] /\ (Kept(q)' => Kept(q)) /\ (Deleted(q)' <=> Deleted(q))
      BY <1>2, <1>4, <1>6, <2>3 DEF Kept, Deleted
    <3> QED BY <1>4, <2>1, <3>1 DEF FileInv, Path, Planned
  <2> QED BY <2>2, <2>3
<1> QED BY <1>7, <1>8, <1>9, <1>10 DEF IndInv

-----------------------------------------------------------------------------
(* The theorems *)

LEMMA NextInv == IndInv /\ [Next]_vars => IndInv'
<1> SUFFICES ASSUME IndInv, [Next]_vars PROVE IndInv'
  OBVIOUS
<1>1. ASSUME NEW c \in Calls, Call(c) PROVE IndInv'
  BY <1>1, PreparePreserves, PrepareFailsPreserves, SkipUnchangedPreserves,
     CommitFailsPreserves, UploadPayloadPreserves, RunScriptPreserves, AnsweredPreserves,
     GiveUpPreserves DEF Call
<1>2. ASSUME NEW c \in Calls, Script(c) PROVE IndInv'
  BY <1>2, ScriptStagesPreserves, ScriptHashesPreserves, ScriptLocksPreserves,
     ScriptReclaimsPreserves, ScriptStampsPreserves, ScriptChecksPreserves,
     ScriptReplacesPreserves, ScriptCleansPreserves, ScriptDiesPreserves DEF Script
<1>3. ASSUME NEW p \in Paths, LockAges(p) \/ StrangerReplaces(p) PROVE IndInv'
  BY <1>3, LockAgesPreserves, StrangerReplacesPreserves
<1>4. CASE UNCHANGED vars
  <2>1. UNCHANGED <<file, lock, pc, at, plan, status, sp, stage, spins, verdict, payload,
                    cut, did, stolen, strangers>>
    BY <1>4 DEF vars, callVars, scriptVars, ghosts
  <2>2. Shape'
    BY <2>1 DEF IndInv, Shape, CallShape, ScriptShape, PayloadShape, HostShape
  <2>3. \A c \in Calls : Local(c)'
    BY <2>1, LocalFrame DEF IndInv, Same
  <2>4. \A p \in Paths : LockInv(p)' /\ FileInv(p)'
    BY <2>1, HostFrame DEF IndInv, Stays
  <2> QED BY <2>2, <2>3, <2>4 DEF IndInv
<1> QED BY <1>1, <1>2, <1>3, <1>4 DEF Next

LEMMA AlwaysInv == Spec => []IndInv
BY InitInv, NextInv, PTL DEF Spec

(* Every variable of the patching calls keeps its type: no script finds    *)
(* the lock taken more often than FILE_EDIT_LOCK_MAX_SPINS allows.         *)
THEOREM TypeCorrect == Spec => []TypeOK
<1>1. IndInv => TypeOK
  BY DEF IndInv, Shape, CallShape, ScriptShape, PayloadShape, HostShape, Local, PlanInv,
         LockInv, TypeOK, Statuses, Plannings, Locks, ScriptPcs
<1> QED BY <1>1, AlwaysInv, PTL

(* What execute_apply_patch reports of its sections is what its scripts    *)
(* did and will do.                                                        *)
THEOREM ReportsHold == Spec => []ReportsAreTrue
<1>1. ASSUME IndInv, NEW c \in Calls
      PROVE  /\ \A i \in DOMAIN Sections[c] :
                   /\ status[c][i] = "applied" => i \in did[c]
                   /\ pc[c] = "done" /\ status[c][i] \in {"failed", "unchanged", "not_attempted"} =>
                          i \notin did[c] /\ ~(Running(c) /\ at[c] = i)
             /\ \A i \in did[c] :
                   /\ Len(plan[c]) = Len(Sections[c])
                   /\ \A j \in 1..(i - 1) : status[c][j] \in {"applied", "unchanged"}
  <2>1. PlanInv(c) /\ ReportInv(c) /\ CallShape /\ ScriptShape
    BY <1>1 DEF IndInv, Local, Shape
  <2>2. /\ DOMAIN Sections[c] = 1..Len(Sections[c]) /\ Len(Sections[c]) \in Nat
        /\ at[c] \in 1..Len(Sections[c]) /\ did[c] \subseteq 1..Len(Sections[c])
    BY <2>1, SectionsSeq DEF PlanInv
  <2>3. CASE did[c] = {} /\ Gone(c) /\ \A i \in DOMAIN Sections[c] : status[c][i] # "applied"
    BY <2>3 DEF Gone, Running
  <2>4. CASE pc[c] \in {"commit", "run", "await"}
    BY <2>1, <2>2, <2>4 DEF ReportInv, Committing, Sure
  <2>5. CASE /\ pc[c] = "done" /\ Committing(c)
             /\ status[c][at[c]] \in {"applied", "failed", "unchanged", "unknown"}
             /\ status[c][at[c]] = "applied" => at[c] \in did[c]
             /\ status[c][at[c]] \in {"failed", "unchanged"} => at[c] \notin did[c]
             /\ status[c][at[c]] # "unknown" => Gone(c)
    <3>1. ASSUME NEW i \in DOMAIN Sections[c], i < at[c] \/ i > at[c]
          PROVE  /\ status[c][i] = "applied" => i \in did[c]
                 /\ status[c][i] \in {"failed", "unchanged", "not_attempted"} => i \notin did[c]
      BY <2>5, <3>1 DEF Committing, Sure
    <3>2. \A i \in DOMAIN Sections[c] : i < at[c] \/ i > at[c] \/ i = at[c]
      BY <2>2
    <3>3. \A i \in DOMAIN Sections[c] :
             /\ status[c][i] = "applied" => i \in did[c]
             /\ status[c][i] \in {"failed", "unchanged", "not_attempted"} =>
                    i \notin did[c] /\ ~(Running(c) /\ at[c] = i)
      BY <2>5, <3>1, <3>2 DEF Running, Gone
    <3>4. \A i \in did[c] : \A j \in 1..(i - 1) : status[c][j] \in {"applied", "unchanged"}
      BY <2>2, <2>5 DEF Committing, Sure
    <3> QED BY <2>5, <3>3, <3>4 DEF Committing
  <2>6. pc[c] \in {"prepare", "commit", "run", "await", "done"}
    BY <2>1 DEF CallShape
  <2>7. CASE pc[c] = "prepare"
    BY <2>1, <2>3, <2>7 DEF ReportInv, Gone
  <2>8. CASE pc[c] = "done"
    BY <2>1, <2>3, <2>5, <2>8 DEF ReportInv
  <2> QED BY <2>4, <2>6, <2>7, <2>8
<1>2. IndInv => ReportsAreTrue
  BY <1>1 DEF ReportsAreTrue
<1> QED BY <1>2, AlwaysInv, PTL

(* An edit that was applied is lost only where the lock was removed under  *)
(* its owner, or to a program without the lock, or with a deleted file.    *)
THEOREM EditsSurvive == Spec => []LostOnlyIfStolen
<1>1. ASSUME IndInv, NEW c \in Calls, NEW i \in DOMAIN Sections[c], Lost(c, i)
      PROVE  LET p == Sections[c][i].path
             IN  p \in stolen \cup (Strangers \ strangers) \/ Deleted(p)
  <2> DEFINE p == Sections[c][i].path
  <2>1. p \in Paths /\ FileInv(p) /\ PlanInv(c) /\ ReportInv(c) /\ CallShape
    BY <1>1, SectionsSeq DEF IndInv, Local, Shape
  <2>2. i \in did[c]
    <3>1. Len(Sections[c]) \in Nat /\ DOMAIN Sections[c] = 1..Len(Sections[c])
          /\ at[c] \in 1..Len(Sections[c])
      BY <2>1, SectionsSeq DEF PlanInv
    <3>2. i < at[c] \/ i > at[c] \/ i = at[c]
      BY <3>1
    <3>3. status[c][i] = "applied"
      BY <1>1 DEF Lost
    <3> QED BY <2>1, <3>2, <3>3 DEF ReportInv, Committing, CallShape
  <2>3. c \notin file[p].edits
    BY <1>1 DEF Lost
  <2> QED BY <2>1, <2>2, <2>3 DEF FileInv, Kept
<1>2. IndInv => LostOnlyIfStolen
  BY <1>1 DEF LostOnlyIfStolen
<1> QED BY <1>2, AlwaysInv, PTL

(* A call that lost nothing leaves nothing. *)
THEOREM NothingLeft == Spec => []NoLeftovers
<1>1. ASSUME IndInv, NEW c \in Calls \ cut, pc[c] = "done"
      PROVE  /\ stage[c] = "none" /\ ~payload[c]
             /\ \A p \in Paths \ stolen : lock[p].owner # c
  <2>1. StageInv(c) /\ Gone(c)
    BY <1>1 DEF IndInv, Local, StageInv
  <2>2. stage[c] = "none" /\ ~payload[c]
    BY <1>1, <2>1 DEF StageInv, Gone
  <2>3. ASSUME NEW p \in Paths \ stolen PROVE lock[p].owner # c
    <3>1. Excludes(p, c)
      BY <1>1, <2>3 DEF IndInv, LockInv
    <3> QED BY <2>1, <3>1 DEF Excludes, Gone, Holding
  <2> QED BY <2>2, <2>3
<1>2. IndInv => NoLeftovers
  BY <1>1 DEF NoLeftovers
<1> QED BY <1>2, AlwaysInv, PTL

(* A target is only ever replaced by a whole content, and ln replaces      *)
(* nothing at all.                                                         *)
THEOREM TargetsReplacedWhole == Spec => ReplacedWhole
<1>1. IndInv => \A p \in Paths : file[p].whole
  BY DEF IndInv, FileInv
<1>2. ASSUME IndInv, Next, NEW c \in Calls, did'[c] # did[c], Op(c) = "add"
      PROVE  ~file[Path(c)].there
  <2>1. ASSUME NEW d \in Calls, Call(d) PROVE did' = did
    BY <2>1 DEF Call, Prepare, PrepareFails, SkipUnchanged, CommitFails, UploadPayload,
       RunScript, Answered, AnsweredThen, GiveUp, GiveUpAs, ghosts
  <2>2. ASSUME NEW d \in Calls, Script(d) PROVE did' = did \/ ScriptReplaces(d)
    BY <2>2 DEF Script, ScriptStages, ScriptHashes, HashIf, ScriptLocks, ScriptReclaims,
       ScriptStamps, ScriptChecks, CheckIf, ScriptCleans, CleanRemoving, ScriptDies, ghosts
  <2>3. ASSUME NEW p \in Paths, LockAges(p) \/ StrangerReplaces(p) PROVE did' = did
    BY <2>3 DEF LockAges, StrangerReplaces, ghosts
  <2>4. PICK d \in Calls : ScriptReplaces(d)
    BY <1>2, <2>1, <2>2, <2>3 DEF Next
  <2>5. did \in [Calls -> SUBSET Nat]
    BY <1>2 DEF IndInv, Shape, HostShape
  <2>6. d = c
    BY <1>2, <2>4, <2>5 DEF ScriptReplaces, ReplaceBy
  <2> QED BY <1>2, <2>4, <2>6 DEF ScriptReplaces, ReplaceBy
<1>3. IndInv /\ [Next]_vars =>
        [\A c \in Calls : did'[c] # did[c] /\ Op(c) = "add" => ~file[Path(c)].there]_vars
  BY <1>2
<1> QED BY <1>1, <1>3, AlwaysInv, PTL DEF Spec, ReplacedWhole

-----------------------------------------------------------------------------
(* The abstract call *)

(* A step of the abstract call, or none of it. *)
Allowed == Section!Next \/ UNCHANGED Section!vars

(* What a section is. *)
LEMMA SectionIs ==
  /\ \A c \in Calls : \A i \in DOMAIN Sections[c] : <<c, i>> \in AllSections
  /\ \A e \in AllSections : \E c \in Calls : \E i \in DOMAIN Sections[c] : e = <<c, i>>
BY DEF AllSections

(* A step that neither replaces a target nor reports. *)
LEMMA QuietStep == ASSUME UNCHANGED <<status, did>> PROVE Allowed
<1>1. [e \in AllSections |-> Concluded(e[1], e[2])]'
        = [e \in AllSections |-> Concluded(e[1], e[2])]
  BY DEF Concluded, AllSections
<1>2. {e \in AllSections : e[2] \in did[e[1]]}' = {e \in AllSections : e[2] \in did[e[1]]}
  BY DEF AllSections
<1> QED BY <1>1, <1>2 DEF Allowed, Section!vars

(* A section is reported once, by a status its script cannot contradict. *)
LEMMA ReportStep ==
  ASSUME IndInv, NEW c \in Calls, NEW s \in Statuses \ {"not_attempted"}, Report(c, s),
         UNCHANGED did, status[c][at[c]] = "not_attempted",
         s = "applied" => at[c] \in did[c],
         s \in {"failed", "unchanged"} => at[c] \notin did[c]
  PROVE  Allowed
<1> DEFINE v == CASE s = "applied" -> "done" [] s = "unknown" -> "unknown"
                  [] OTHER -> "never"
<1>1. PICK i \in DOMAIN Sections[c] : i = at[c]
  BY DEF IndInv, Local, PlanInv
<1>2. \A d \in Calls : \A k \in DOMAIN Sections[d] :
        status'[d][k] = IF d = c /\ k = i THEN s ELSE status[d][k]
  BY <1>1, Reported DEF IndInv, Shape, Local
<1>3. Concluded(c, i) = "none" /\ Concluded(c, i)' = v
  <2>1. status'[c][i] = s /\ status[c][i] = "not_attempted"
    BY <1>1, <1>2
  <2> QED BY <2>1 DEF Concluded, Statuses
<1>4. \A d \in Calls : \A k \in DOMAIN Sections[d] :
        d # c \/ k # i => Concluded(d, k)' = Concluded(d, k)
  BY <1>2 DEF Concluded
<1>5. <<c, i>> \in AllSections
  BY SectionIs
<1>6. \A f \in AllSections : f # <<c, i>> => Concluded(f[1], f[2])' = Concluded(f[1], f[2])
  BY <1>4, SectionIs
<1>7. [f \in AllSections |-> Concluded(f[1], f[2])]'
        = [[f \in AllSections |-> Concluded(f[1], f[2])] EXCEPT ![<<c, i>>] = v]
  <2>1. Concluded(<<c, i>>[1], <<c, i>>[2])' = v
    BY <1>3
  <2>2. \A f \in AllSections : Concluded(f[1], f[2])'
          = IF f = <<c, i>> THEN v ELSE Concluded(f[1], f[2])
    BY <1>6, <2>1
  <2>3. [f \in AllSections |-> Concluded(f[1], f[2])]'
          = [f \in AllSections |-> Concluded(f[1], f[2])']
    BY DEF AllSections
  <2> HIDE DEF v
  <2>4. [f \in AllSections |-> Concluded(f[1], f[2])']
          = [f \in AllSections |-> IF f = <<c, i>> THEN v ELSE Concluded(f[1], f[2])]
    BY <2>2
  <2> QED BY <2>3, <2>4
<1>8. {f \in AllSections : f[2] \in did[f[1]]}' = {f \in AllSections : f[2] \in did[f[1]]}
  BY DEF AllSections
<1>9. Section!Tells(<<c, i>>, v)
  BY <1>1, <1>3, <1>5, <1>7, <1>8 DEF Section!Tells, Statuses
<1>10. v \in Section!Verdicts
  BY DEF Section!Verdicts
<1> QED BY <1>5, <1>9, <1>10 DEF Allowed, Section!Next

(* The script replaces the target of a section that was not called failed   *)
(* or unchanged, even if its call has gone.                                 *)
LEMMA ReplaceStep ==
  ASSUME IndInv, NEW c \in Calls, ScriptReplaces(c)
  PROVE  Allowed
<1>1. PICK i \in DOMAIN Sections[c] : i = at[c]
  BY DEF IndInv, Local, PlanInv
<1>2. UNCHANGED status /\ sp[c] = "replace"
  BY DEF ScriptReplaces, ReplaceBy, callVars
<1>3. CASE UNCHANGED did
  BY <1>2, <1>3, QuietStep
<1>4. CASE did' = [did EXCEPT ![c] = did[c] \cup {i}] /\ did' # did
  <2>1. did \in [Calls -> SUBSET Nat]
    BY DEF IndInv, Shape, HostShape
  <2>2. i \notin did[c]
    BY <1>4, <2>1
  <2>3. status[c][i] \in {"not_attempted", "unknown"}
    BY <1>1, <1>2 DEF IndInv, Shape, CallShape, Local, ReportInv, Gone
  <2>4. Concluded(c, i) # "never"
    BY <2>3 DEF Concluded
  <2>5. <<c, i>> \in AllSections
    BY SectionIs
  <2>6. \A f \in AllSections : f[2] \in did'[f[1]] <=> f[2] \in did[f[1]] \/ f = <<c, i>>
    BY <1>4, <2>1, SectionIs
  <2>7. {f \in AllSections : f[2] \in did[f[1]]}'
          = {f \in AllSections : f[2] \in did[f[1]]} \cup {<<c, i>>}
    BY <2>5, <2>6 DEF AllSections
  <2>8. [f \in AllSections |-> Concluded(f[1], f[2])]'
          = [f \in AllSections |-> Concluded(f[1], f[2])]
    BY <1>2 DEF Concluded, AllSections
  <2>9. Section!Happens(<<c, i>>)
    BY <2>2, <2>4, <2>5, <2>7, <2>8 DEF Section!Happens
  <2> QED BY <2>5, <2>9 DEF Allowed, Section!Next
<1> QED BY <1>1, <1>3, <1>4 DEF ScriptReplaces, ReplaceBy

(* Each report of a call is the first of its section. *)
LEMMA CallStep ==
  ASSUME IndInv, NEW c \in Calls, Call(c)
  PROVE  Allowed
<1>1. Local(c)
  BY DEF IndInv
<1>2. CASE PrepareFails(c) \/ CommitFails(c)
  <2>1. status[c][at[c]] = "not_attempted" /\ at[c] \notin did[c]
    BY <1>1, <1>2 DEF Local, PlanInv, ReportInv, PrepareFails, CommitFails
  <2> QED BY <1>2, <2>1, ReportStep DEF PrepareFails, CommitFails, Fail, Statuses, ghosts
<1>3. CASE SkipUnchanged(c)
  <2>1. status[c][at[c]] = "not_attempted" /\ at[c] \notin did[c]
    BY <1>1, <1>3 DEF Local, ReportInv, SkipUnchanged
  <2> QED BY <1>3, <2>1, ReportStep DEF SkipUnchanged, Statuses, ghosts
<1>4. CASE Answered(c)
  <2>1. status[c][at[c]] = "not_attempted" /\ ScriptInv(c) /\ verdict[c] # "none"
    BY <1>1, <1>4 DEF Local, ReportInv, ScriptInv, Answered, AnsweredThen
  <2>2. PICK s \in {"applied", "failed", "unknown"} :
          /\ Report(c, s)
          /\ s = "applied" => verdict[c] = "ok"
          /\ s = "failed" => verdict[c] = "marker"
    <3>1. verdict[c] \in {"ok", "marker", "silent"}
      BY <2>1 DEF IndInv, Shape, ScriptShape
    <3> QED BY <1>4, <3>1 DEF Answered, AnsweredThen, Fail
  <2>3. UNCHANGED did
    BY <1>4 DEF Answered, AnsweredThen
  <2> QED BY <2>1, <2>2, <2>3, ReportStep DEF ScriptInv, Statuses
<1>5. CASE GiveUp(c)
  <2>1. status[c][at[c]] = "not_attempted"
    BY <1>1, <1>5 DEF Local, ReportInv, GiveUp, GiveUpAs
  <2> QED BY <1>5, <2>1, ReportStep DEF GiveUp, GiveUpAs, Fail, Statuses
<1>6. CASE Prepare(c) \/ UploadPayload(c) \/ RunScript(c)
  BY <1>6, QuietStep DEF Prepare, UploadPayload, RunScript, ghosts
<1> QED BY <1>2, <1>3, <1>4, <1>5, <1>6 DEF Call

(* Each section of a patch has its target replaced at most once and gets    *)
(* one true status, whatever becomes of the call, its script and its lock.  *)
THEOREM SectionsReplacedAtMostOnce == Spec => ImplementsAtMostOnce
<1>1. Init => Section!Init
  <2> SUFFICES ASSUME Init PROVE Section!Init
    OBVIOUS
  <2>1. \A e \in AllSections : Concluded(e[1], e[2]) = "none" /\ e[2] \notin did[e[1]]
    BY SectionIs DEF Init, Concluded
  <2> QED BY <2>1 DEF Section!Init
<1>2. IndInv /\ [Next]_vars => [Section!Next]_(Section!vars)
  <2> SUFFICES ASSUME IndInv, [Next]_vars PROVE Allowed
    BY DEF Allowed
  <2>1. ASSUME NEW c \in Calls, Script(c) PROVE Allowed
    <3>1. CASE ScriptReplaces(c)
      BY <3>1, ReplaceStep
    <3>2. CASE ~ScriptReplaces(c)
      <4>1. UNCHANGED <<status, did>>
        BY <2>1, <3>2 DEF Script, ScriptStages, ScriptHashes, HashIf, ScriptLocks,
           ScriptReclaims, ScriptStamps, ScriptChecks, CheckIf, ScriptCleans,
           CleanRemoving, ScriptDies, callVars, ghosts
      <4> QED BY <4>1, QuietStep
    <3> QED BY <3>1, <3>2
  <2>2. ASSUME NEW p \in Paths, LockAges(p) \/ StrangerReplaces(p) PROVE Allowed
    BY <2>2, QuietStep DEF LockAges, StrangerReplaces, callVars, ghosts
  <2>3. CASE UNCHANGED vars
    BY <2>3, QuietStep DEF vars, callVars, ghosts
  <2> QED BY <2>1, <2>2, <2>3, CallStep DEF Next
<1> QED
  BY <1>1, <1>2, AlwaysInv, PTL DEF Spec, ImplementsAtMostOnce, Section!Spec

-----------------------------------------------------------------------------
(* What an update does to the text of a file (modules PatchText and        *)
(* Algorithms).                                                            *)

(* A set of natural numbers that is not empty has a least element. *)
LEMMA Least == ASSUME NEW T \in SUBSET Nat, T # {}
  PROVE \E n \in T : \A m \in T : n <= m
<1> DEFINE R == {ss \in Nat \X Nat : ss[1] < ss[2]}
<1>1. R = OpToRel(<, Nat)
  BY DEF OpToRel
<1>2. IsWellFoundedOn(R, Nat)
  BY <1>1, NatLessThanWellFounded
<1>3. PICK n \in T : \A m \in T : ~(<<m, n>> \in R)
  <2> HIDE DEF R
  <2> QED BY <1>2, WFMin
<1>4. \A m \in T : n <= m
  <2> SUFFICES ASSUME NEW m \in T, m < n PROVE FALSE
    OBVIOUS
  <2>1. <<m, n>> \in Nat \X Nat /\ <<m, n>>[1] < <<m, n>>[2]
    OBVIOUS
  <2>2. <<m, n>> \in R
    BY <2>1, Zenon
  <2> QED BY <1>3, <2>2
<1> QED BY <1>4

(* Induction over the natural numbers. *)
LEMMA Induct == ASSUME NEW S, 0 \in S, \A n \in Nat : n \in S => n + 1 \in S
  PROVE Nat \subseteq S
<1> SUFFICES ASSUME Nat \ S # {} PROVE FALSE
  OBVIOUS
<1>1. PICK n \in Nat \ S : \A m \in Nat \ S : n <= m
  BY Least
<1>2. n - 1 \in Nat /\ n - 1 \in S
  BY <1>1
<1> QED BY <1>1, <1>2

(* Induction over the turns of a loop. *)
LEMMA Climb == ASSUME NEW n \in Nat, NEW S, 0 \in S, \A i \in 1..n : i - 1 \in S => i \in S
  PROVE 0..n \subseteq S
<1> DEFINE T == {i \in Nat : i <= n => i \in S}
<1>1. 0 \in T
  OBVIOUS
<1>2. ASSUME NEW i \in Nat, i \in T PROVE i + 1 \in T
  <2> SUFFICES ASSUME i + 1 <= n PROVE i + 1 \in S
    OBVIOUS
  <2>1. i + 1 \in 1..n /\ (i + 1) - 1 = i /\ i \in S
    BY <1>2
  <2> QED BY <2>1
<1>3. Nat \subseteq T
  <2> HIDE DEF T
  <2> QED BY <1>1, <1>2, Induct
<1> QED BY <1>3

(* The loop over the hunks satisfies its recursive definition. *)
LEMMA AfterHunksRec ==
  ASSUME NEW lines, NEW hunks, Len(hunks) \in Nat
  PROVE  AfterHunks(lines, hunks) =
           [i \in 0..Len(hunks) |->
              IF i = 0 THEN Ok(lines)
              ELSE IF Failed(AfterHunks(lines, hunks)[i - 1])
                   THEN AfterHunks(lines, hunks)[i - 1]
                   ELSE ApplyHunk(AfterHunks(lines, hunks)[i - 1].val, hunks[i])]
<1> DEFINE n == Len(hunks)
           After(b, i) == IF Failed(b) THEN b ELSE ApplyHunk(b.val, hunks[i])
           Is(g, m) == g = [i \in 0..m |-> IF i = 0 THEN Ok(lines) ELSE After(g[i - 1], i)]
           S == {m \in 0..n : \E g : Is(g, m)}
<1>1. 0 \in S
  <2> HIDE DEF After
  <2>1. Is([i \in 0..0 |-> Ok(lines)], 0)
    OBVIOUS
  <2>2. 0 \in 0..n
    OBVIOUS
  <2> QED BY <2>1, <2>2
<1>2. ASSUME NEW m \in 1..n, m - 1 \in S PROVE m \in S
  <2> HIDE DEF After
  <2>1. PICK g : Is(g, m - 1)
    BY <1>2
  <2> DEFINE f == [i \in 0..m |-> IF i = m THEN After(g[m - 1], m) ELSE g[i]]
  <2>2. Is(f, m)
    <3> SUFFICES ASSUME NEW i \in 0..m
                 PROVE  f[i] = IF i = 0 THEN Ok(lines) ELSE After(f[i - 1], i)
      OBVIOUS
    <3>1. CASE i = m
      BY <3>1
    <3>2. CASE i # m
      <4>1. i \in 0..(m - 1) /\ f[i] = g[i] /\ (i # 0 => f[i - 1] = g[i - 1])
        BY <3>2
      <4> HIDE DEF f
      <4> QED BY <2>1, <4>1
    <3> QED BY <3>1, <3>2
  <2>3. m \in 0..n
    OBVIOUS
  <2> HIDE DEF Is, f
  <2> QED BY <2>2, <2>3
<1>3. n \in S
  <2>1. n \in Nat /\ n \in 0..n
    OBVIOUS
  <2> HIDE DEF S, n
  <2>2. \A m \in 1..n : m - 1 \in S => m \in S
    BY <1>2
  <2> QED BY <1>1, <2>1, <2>2, Climb
<1>4. \E g : Is(g, n)
  BY <1>3
<1>5. AfterHunks(lines, hunks) = CHOOSE g : Is(g, n)
  BY DEF AfterHunks
<1> HIDE DEF Is
<1>6. Is(AfterHunks(lines, hunks), n)
  BY <1>4, <1>5
<1> QED BY <1>6 DEF Is

(* A part of a sequence within its bounds. *)
LEMMA SubSeqIs ==
  ASSUME NEW S, NEW s \in Seq(S), NEW m \in 1..Len(s) + 1, NEW n \in m - 1..Len(s)
  PROVE  /\ SubSeq(s, m, n) \in Seq(S)
         /\ Len(SubSeq(s, m, n)) = n - m + 1
         /\ \A i \in 1..n - m + 1 : SubSeq(s, m, n)[i] = s[m + i - 1]
<1>1. \A i \in m..n : s[i] \in S
  BY ElementOfSeq
<1>2. m \in Int /\ n \in Int /\ (m <= n \/ n - m + 1 = 0)
  OBVIOUS
<1> QED BY <1>1, <1>2, SubSeqProperties

(* A sequence cut at two places is put together again. *)
LEMMA CutInThree ==
  ASSUME NEW S, NEW a \in Seq(S), NEW b \in Seq(S), NEW c \in Seq(S)
  PROVE  LET s == a \o b \o c
         IN  /\ s \in Seq(S) /\ Len(s) = Len(a) + Len(b) + Len(c)
             /\ SubSeq(s, 1, Len(a)) = a
             /\ SubSeq(s, Len(a) + 1, Len(a) + Len(b)) = b
             /\ SubSeq(s, Len(a) + Len(b) + 1, Len(s)) = c
<1> DEFINE s == a \o b \o c
<1>1. a \o b \in Seq(S) /\ Len(a \o b) = Len(a) + Len(b)
  BY ConcatProperties
<1>2. s \in Seq(S) /\ Len(s) = Len(a) + Len(b) + Len(c)
  BY <1>1, ConcatProperties
<1>3. Len(a) \in Nat /\ Len(b) \in Nat /\ Len(c) \in Nat
  BY LenProperties
<1>4. \A i \in 1..Len(a) + Len(b) : s[i] = IF i <= Len(a) THEN a[i] ELSE b[i - Len(a)]
  <2> SUFFICES ASSUME NEW i \in 1..Len(a) + Len(b)
               PROVE  s[i] = IF i <= Len(a) THEN a[i] ELSE b[i - Len(a)]
    OBVIOUS
  <2>1. s[i] = (a \o b)[i]
    BY <1>1, <1>3, ConcatProperties
  <2> QED BY <2>1, <1>3, ConcatProperties
<1>5. \A i \in 1..Len(c) : s[Len(a) + Len(b) + i] = c[i]
  <2> SUFFICES ASSUME NEW i \in 1..Len(c) PROVE s[Len(a) + Len(b) + i] = c[i]
    OBVIOUS
  <2>1. Len(a) + Len(b) + i \in 1..Len(a \o b) + Len(c)
        /\ ~(Len(a) + Len(b) + i <= Len(a \o b))
        /\ Len(a) + Len(b) + i - Len(a \o b) = i
    BY <1>1, <1>3
  <2> QED BY <1>1, <2>1, ConcatProperties
<1>6. SubSeq(s, 1, Len(a)) = a
  <2>1. Len(SubSeq(s, 1, Len(a))) = Len(a) /\ SubSeq(s, 1, Len(a)) \in Seq(S)
        /\ \A i \in 1..Len(a) : SubSeq(s, 1, Len(a))[i] = s[i]
    BY <1>2, <1>3, SubSeqIs
  <2> QED BY <2>1, <1>3, <1>4, SeqEqual
<1>7. SubSeq(s, Len(a) + 1, Len(a) + Len(b)) = b
  <2> DEFINE t == SubSeq(s, Len(a) + 1, Len(a) + Len(b))
  <2>1. Len(t) = Len(b) /\ t \in Seq(S) /\ \A i \in 1..Len(b) : t[i] = s[Len(a) + i]
    BY <1>2, <1>3, SubSeqIs
  <2>2. \A i \in 1..Len(b) : t[i] = b[i]
    BY <2>1, <1>3, <1>4
  <2> QED BY <2>1, <2>2, SeqEqual
<1>8. SubSeq(s, Len(a) + Len(b) + 1, Len(s)) = c
  <2> DEFINE t == SubSeq(s, Len(a) + Len(b) + 1, Len(s))
  <2>1. Len(t) = Len(c) /\ t \in Seq(S) /\ \A i \in 1..Len(c) : t[i] = s[Len(a) + Len(b) + i]
    BY <1>2, <1>3, SubSeqIs
  <2>2. \A i \in 1..Len(c) : t[i] = c[i]
    BY <2>1, <1>5
  <2> QED BY <2>1, <2>2, SeqEqual
<1> QED BY <1>2, <1>6, <1>7, <1>8

(* The lines of a file fall into what precedes a hunk's place, its old     *)
(* lines and what follows.                                                 *)
LEMMA PlaceIs ==
  ASSUME NEW lines \in Seq(STRING), NEW h, h.old \in Seq(STRING),
         NEW s \in Candidates(lines, h)
  PROVE  LET pre == SubSeq(lines, 1, s - 1)
             post == SubSeq(lines, s + Len(h.old), Len(lines))
         IN  /\ s \in 1..Len(lines) + 1 /\ s + Len(h.old) - 1 <= Len(lines)
             /\ pre \in Seq(STRING) /\ post \in Seq(STRING) /\ Len(pre) = s - 1
             /\ lines = pre \o h.old \o post
<1> DEFINE n == Len(h.old)
           pre == SubSeq(lines, 1, s - 1)
           post == SubSeq(lines, s + n, Len(lines))
<1>1. n \in Nat /\ Len(lines) \in Nat /\ s \in 1..Len(lines) - n + 1
      /\ SubSeq(lines, s, s + n - 1) = h.old
  BY LenProperties DEF Candidates
<1>2. s \in 1..Len(lines) + 1 /\ s + n - 1 <= Len(lines)
  BY <1>1
<1>3. pre \in Seq(STRING) /\ Len(pre) = s - 1
  <2>1. 1 \in 1..Len(lines) + 1 /\ s - 1 \in 1 - 1..Len(lines) /\ (s - 1) - 1 + 1 = s - 1
    BY <1>1
  <2> QED BY <2>1, SubSeqIs
<1>4. post \in Seq(STRING)
  <2>1. s + n \in 1..Len(lines) + 1 /\ Len(lines) \in (s + n) - 1..Len(lines)
    BY <1>1
  <2> QED BY <2>1, SubSeqIs
<1>5. pre \o h.old = SubSeq(lines, 1, s + n - 1)
  <2>1. 1 \in 1..Len(lines) + 1 /\ s - 1 \in 1 - 1..Len(lines)
        /\ s + n - 1 \in s - 1..Len(lines) /\ (s - 1) + 1 = s
    BY <1>1
  <2> HIDE DEF n
  <2> QED BY <2>1, <1>1, ConcatAdjacentSubSeq
<1>6. SubSeq(lines, 1, s + n - 1) \o post = SubSeq(lines, 1, Len(lines))
  <2>1. 1 \in 1..Len(lines) + 1 /\ s + n - 1 \in 1 - 1..Len(lines)
        /\ Len(lines) \in s + n - 1..Len(lines) /\ (s + n - 1) + 1 = s + n
    BY <1>1
  <2> HIDE DEF n
  <2> QED BY <2>1, <1>1, ConcatAdjacentSubSeq
<1>7. lines = pre \o h.old \o post
  BY <1>5, <1>6, SubSeqFull
<1> QED BY <1>2, <1>3, <1>4, <1>7


(* The place where a hunk went. *)
Went(lines, h, s, r) ==
  /\ Candidates(lines, h) = {s}
  /\ r = Ok(SubSeq(lines, 1, s - 1) \o h.new \o SubSeq(lines, s + Len(h.old), Len(lines)))

(* A hunk finds no place, several, or one. *)
LEMMA ApplyHunkCases ==
  ASSUME NEW lines, NEW h
  PROVE  LET r == ApplyHunk(lines, h)
             found == Candidates(lines, h)
         IN  \/ found = {} /\ r = Err("context_not_found")
             \/ found # {} /\ (\A s : found # {s}) /\ r = Err("ambiguous_context")
             \/ \E s : Went(lines, h, s, r)
<1> DEFINE found == Candidates(lines, h)
           c == CHOOSE x \in found : TRUE
<1>1. CASE found = {}
  BY <1>1 DEF ApplyHunk
<1>2. CASE found # {} /\ found # {c}
  <2>1. ApplyHunk(lines, h) = Err("ambiguous_context")
    BY <1>2 DEF ApplyHunk
  <2>2. ASSUME NEW s, found = {s} PROVE FALSE
    <3>1. c \in found
      BY <2>2
    <3> QED BY <3>1, <2>2, <1>2
  <2> QED BY <1>2, <2>1, <2>2
<1>3. CASE found # {} /\ found = {c}
  BY <1>3 DEF ApplyHunk, Went
<1> QED BY <1>1, <1>2, <1>3

(* Results are told apart. *)
LEMMA OkIs ==
  ASSUME NEW v
  PROVE  Ok(v).val = v /\ ~Failed(Ok(v))
BY DEF Ok, Failed

LEMMA ErrIs ==
  ASSUME NEW e, e # "none"
  PROVE  Err(e).err = e /\ Failed(Err(e))
BY DEF Err, Failed

(* A hunk that does not fail went to its one place. *)
LEMMA ApplyHunkWent ==
  ASSUME NEW lines \in Seq(STRING), NEW h, h.old \in Seq(STRING), h.new \in Seq(STRING),
         ~Failed(ApplyHunk(lines, h))
  PROVE  \E s : Went(lines, h, s, ApplyHunk(lines, h))
<1>1. Failed(Err("context_not_found")) /\ Failed(Err("ambiguous_context"))
  BY ErrIs
<1> QED BY <1>1, ApplyHunkCases

(* A hunk that was applied leaves the lines in three parts, the middle one *)
(* its new lines.                                                          *)
Parted(lines, h, s, r, a, c) ==
  /\ a \in Seq(STRING) /\ c \in Seq(STRING) /\ s = Len(a) + 1
  /\ lines = a \o h.old \o c
  /\ r = Ok(a \o h.new \o c) /\ a \o h.new \o c \in Seq(STRING)

LEMMA WentLeaves ==
  ASSUME NEW lines \in Seq(STRING), NEW h, h.old \in Seq(STRING), h.new \in Seq(STRING),
         NEW s, NEW r, Went(lines, h, s, r)
  PROVE  \E a, c : Parted(lines, h, s, r, a, c)
<1> DEFINE a == SubSeq(lines, 1, s - 1)
           c == SubSeq(lines, s + Len(h.old), Len(lines))
<1>1. s \in Candidates(lines, h) /\ r = Ok(a \o h.new \o c)
  BY DEF Went
<1>2. /\ s \in 1..Len(lines) + 1 /\ a \in Seq(STRING) /\ c \in Seq(STRING) /\ Len(a) = s - 1
      /\ lines = a \o h.old \o c
  BY <1>1, PlaceIs
<1>3. a \o h.new \o c \in Seq(STRING) /\ s = Len(a) + 1
  <2> HIDE DEF a, c
  <2>1. Len(lines) \in Nat
    BY LenProperties
  <2> QED BY <1>2, <2>1, CutInThree
<1>4. Parted(lines, h, s, r, a, c)
  BY <1>1, <1>2, <1>3 DEF Parted
<1> QED BY <1>4

(* A hunk and the same hunk turned around: the second, when it applies,    *)
(* finds the place of the first.                                           *)
LEMMA TurnedRestores ==
  ASSUME NEW lines \in Seq(STRING), NEW h, h.old \in Seq(STRING), h.new \in Seq(STRING),
         NEW s, NEW r, Went(lines, h, s, r),
         NEW back, back = ApplyHunk(r.val, Turned(h)), ~Failed(back)
  PROVE  back = Ok(lines)
<1>0. PICK a, c : Parted(lines, h, s, r, a, c)
  BY WentLeaves
<1> DEFINE m == a \o h.new \o c
           t == Turned(h)
<1>1. /\ a \in Seq(STRING) /\ c \in Seq(STRING) /\ m \in Seq(STRING)
      /\ s = Len(a) + 1 /\ lines = a \o h.old \o c /\ r = Ok(m)
  BY <1>0 DEF Parted
<1>2. r.val = m
  BY <1>1, OkIs
<1>3. t.old = h.new /\ t.new = h.old /\ t.anchor = NoText
  BY DEF Turned
<1>4. /\ Len(m) = Len(a) + Len(h.new) + Len(c)
      /\ SubSeq(m, 1, Len(a)) = a
      /\ SubSeq(m, Len(a) + 1, Len(a) + Len(h.new)) = h.new
      /\ SubSeq(m, Len(a) + Len(h.new) + 1, Len(m)) = c
  <2>1. a \in Seq(STRING) /\ h.new \in Seq(STRING) /\ c \in Seq(STRING)
    BY <1>1
  <2>2. ASSUME NEW b \in Seq(STRING)
        PROVE  LET l == a \o b \o c
               IN  /\ Len(l) = Len(a) + Len(b) + Len(c)
                   /\ SubSeq(l, 1, Len(a)) = a
                   /\ SubSeq(l, Len(a) + 1, Len(a) + Len(b)) = b
                   /\ SubSeq(l, Len(a) + Len(b) + 1, Len(l)) = c
    BY <2>1, <2>2, CutInThree
  <2> QED BY <2>1, <2>2
<1>5. Len(a) \in Nat /\ Len(h.new) \in Nat /\ Len(c) \in Nat /\ s \in Nat /\ s - 1 = Len(a)
  <2>1. Len(a) \in Nat /\ Len(h.new) \in Nat /\ Len(c) \in Nat
    BY <1>1, LenProperties
  <2>2. s = Len(a) + 1
    BY <1>1
  <2> HIDE <1>1
  <2> QED BY <2>1, <2>2
<1>6. s \in Candidates(m, t)
  <2> HIDE DEF m, t
  <2>1. s \in 1..Len(m) - Len(t.old) + 1
    BY <1>1, <1>3, <1>4, <1>5
  <2>2. s + Len(t.old) - 1 = Len(a) + Len(h.new)
    BY <1>3, <1>5
  <2>3. SubSeq(m, s, s + Len(t.old) - 1) = t.old
    BY <1>1, <2>2, <1>3, <1>4
  <2> QED BY <2>1, <2>3, <1>3 DEF Candidates
<1>7. PICK x : Went(m, t, x, back)
  <2>1. m \in Seq(STRING) /\ t.old \in Seq(STRING) /\ t.new \in Seq(STRING)
    BY <1>1, <1>3
  <2> HIDE DEF m, t
  <2> QED BY <2>1, <1>2, ApplyHunkWent DEF t
<1>8. x = s
  BY <1>6, <1>7 DEF Went
<1>9. back = Ok(SubSeq(m, 1, s - 1) \o h.old \o SubSeq(m, s + Len(h.new), Len(m)))
  <2> HIDE DEF m, t
  <2> QED BY <1>3, <1>7, <1>8 DEF Went
<1>10. s - 1 = Len(a) /\ s + Len(h.new) = Len(a) + Len(h.new) + 1
  BY <1>5
<1> HIDE DEF m, t
<1> QED BY <1>1, <1>4, <1>9, <1>10


(* Hunks as parse_update makes them. *)
AreHunks(hunks) ==
  /\ Len(hunks) \in Nat
  /\ \A i \in 1..Len(hunks) : hunks[i].old \in Seq(STRING) /\ hunks[i].new \in Seq(STRING)

IsOk(r) == \E v \in Seq(STRING) : r = Ok(v)

(* The loop, turn by turn. *)
LEMMA AfterHunksAt ==
  ASSUME NEW lines, NEW hunks, Len(hunks) \in Nat
  PROVE  LET a == AfterHunks(lines, hunks)
         IN  /\ a[0] = Ok(lines)
             /\ \A i \in 1..Len(hunks) :
                  a[i] = IF Failed(a[i - 1]) THEN a[i - 1]
                         ELSE ApplyHunk(a[i - 1].val, hunks[i])
<1> DEFINE a == AfterHunks(lines, hunks)
           n == Len(hunks)
           Turn(b, i) == IF Failed(b) THEN b ELSE ApplyHunk(b.val, hunks[i])
<1>1. a = [i \in 0..n |-> IF i = 0 THEN Ok(lines) ELSE Turn(a[i - 1], i)]
  BY AfterHunksRec
<1>2. 0 \in 0..n /\ \A i \in 1..n : i \in 0..n /\ i # 0
  OBVIOUS
<1> HIDE DEF Turn, a, n
<1>3. a[0] = Ok(lines)
  BY <1>1, <1>2
<1>4. \A i \in 1..n : a[i] = Turn(a[i - 1], i)
  BY <1>1, <1>2
<1> QED BY <1>3, <1>4 DEF Turn, a, n

(* The text after every hunk that applied is again a sequence of lines. *)
LEMMA AfterHunksOk ==
  ASSUME NEW lines \in Seq(STRING), NEW hunks, AreHunks(hunks)
  PROVE  \A i \in 0..Len(hunks) : LET a == AfterHunks(lines, hunks)
                                  IN  Failed(a[i]) \/ IsOk(a[i])
<1> DEFINE a == AfterHunks(lines, hunks)
           n == Len(hunks)
           S == {i \in 0..n : Failed(a[i]) \/ IsOk(a[i])}
<1>1. n \in Nat
  BY DEF AreHunks
<1>2. 0 \in S
  <2>1. a[0] = Ok(lines) /\ 0 \in 0..n
    BY <1>1, AfterHunksAt
  <2> QED BY <2>1 DEF IsOk
<1>3. ASSUME NEW i \in 1..n, i - 1 \in S PROVE i \in S
  <2> DEFINE b == a[i - 1]
             h == hunks[i]
  <2>1. i \in 0..n /\ h.old \in Seq(STRING) /\ h.new \in Seq(STRING)
    BY <1>1 DEF AreHunks
  <2>2. a[i] = IF Failed(b) THEN b ELSE ApplyHunk(b.val, h)
    BY <1>1, AfterHunksAt
  <2>3. Failed(b) \/ IsOk(b)
    BY <1>3
  <2> HIDE DEF a, b, h
  <2>4. ASSUME ~Failed(a[i]) PROVE IsOk(a[i])
    <3>1. a[i] = ApplyHunk(b.val, h) /\ IsOk(b)
      BY <2>2, <2>3, <2>4
    <3>2. b.val \in Seq(STRING)
      BY <3>1, OkIs DEF IsOk
    <3>3. PICK s : Went(b.val, h, s, a[i])
      BY <3>1, <3>2, <2>1, <2>4, ApplyHunkWent
    <3>4. PICK p, c : Parted(b.val, h, s, a[i], p, c)
      BY <3>2, <3>3, <2>1, WentLeaves
    <3> QED BY <3>4 DEF Parted, IsOk
  <2> QED BY <2>1, <2>4
<1>4. 0..n \subseteq S
  <2> HIDE DEF S, n
  <2> QED BY <1>1, <1>2, <1>3, Climb
<1> QED BY <1>4

(* A failure stays. *)
LEMMA NoFailureBefore ==
  ASSUME NEW lines, NEW hunks, Len(hunks) \in Nat,
         ~Failed(AfterHunks(lines, hunks)[Len(hunks)])
  PROVE  \A k \in 0..Len(hunks) : ~Failed(AfterHunks(lines, hunks)[Len(hunks) - k])
<1> DEFINE a == AfterHunks(lines, hunks)
           n == Len(hunks)
           S == {k \in 0..n : ~Failed(a[n - k])}
<1>1. 0 \in S
  <2>1. n - 0 = n /\ 0 \in 0..n
    OBVIOUS
  <2> QED BY <2>1
<1>2. ASSUME NEW k \in 1..n, k - 1 \in S PROVE k \in S
  <2> DEFINE i == n - (k - 1)
  <2>1. i \in 1..n /\ i - 1 = n - k /\ k \in 0..n
    OBVIOUS
  <2>2. ~Failed(a[i])
    BY <1>2
  <2> HIDE DEF i
  <2>3. a[i] = IF Failed(a[i - 1]) THEN a[i - 1] ELSE ApplyHunk(a[i - 1].val, hunks[i])
    BY <2>1, AfterHunksAt
  <2>4. ~Failed(a[i - 1])
    BY <2>2, <2>3
  <2> QED BY <2>1, <2>4
<1>3. 0..n \subseteq S
  <2> HIDE DEF S, n
  <2> QED BY <1>1, <1>2, Climb DEF n
<1> QED BY <1>3


(* Hunk after hunk, from the last to the first, the lines come back. *)
LEMMA HunksRestore ==
  ASSUME NEW lines \in Seq(STRING), NEW hunks, AreHunks(hunks),
         NEW m, AfterHunks(lines, hunks)[Len(hunks)] = Ok(m),
         ~Failed(AfterHunks(m, TakenBack(hunks))[Len(hunks)])
  PROVE  AfterHunks(m, TakenBack(hunks))[Len(hunks)] = Ok(lines)
<1> DEFINE n == Len(hunks)
           back == TakenBack(hunks)
           a == AfterHunks(lines, hunks)
           b == AfterHunks(m, back)
           S == {k \in 0..n : b[k] = a[n - k]}
<1>1. n \in Nat /\ Len(back) = n /\ \A k \in 1..n : back[k] = Turned(hunks[n - k + 1])
  BY DEF AreHunks, TakenBack
<1>2. \A k \in 0..n : ~Failed(a[n - k])
  BY <1>1, OkIs, NoFailureBefore
<1>3. \A k \in 0..n : ~Failed(b[n - k])
  <2>1. ~Failed(b[Len(back)]) /\ Len(back) \in Nat
    BY <1>1
  <2> HIDE DEF back, n
  <2>2. \A k \in 0..Len(back) : ~Failed(b[Len(back) - k])
    BY <2>1, NoFailureBefore
  <2> QED BY <1>1, <2>2
<1>4. 0 \in S
  <2>1. b[0] = Ok(m)
    BY <1>1, AfterHunksAt
  <2>2. n - 0 = n /\ 0 \in 0..n
    BY <1>1
  <2> QED BY <2>1, <2>2
<1>5. ASSUME NEW k \in 1..n, k - 1 \in S PROVE k \in S
  <2> DEFINE i == n - (k - 1)
             h == hunks[i]
  <2>1. i \in 1..n /\ i - 1 = n - k /\ k \in 0..n /\ k - 1 \in 0..n /\ i = n - k + 1
        /\ n - k \in 0..n /\ n - (n - k) = k /\ n - (k - 1) \in 0..n
        /\ n - (n - (k - 1)) = k - 1
    BY <1>1
  <2>2. b[k - 1] = a[i]
    BY <1>5
  <2> HIDE DEF i
  <2>3. h.old \in Seq(STRING) /\ h.new \in Seq(STRING)
    BY <2>1 DEF AreHunks
  <2>4. ~Failed(a[i - 1]) /\ ~Failed(a[i]) /\ ~Failed(b[k]) /\ ~Failed(b[k - 1])
    <3>1. ~Failed(a[n - k]) /\ ~Failed(b[n - (n - k)]) /\ ~Failed(a[n - (k - 1)])
      BY <2>1, <1>2, <1>3
    <3> QED BY <2>1, <2>2, <3>1 DEF i
  <2>5. a[i] = ApplyHunk(a[i - 1].val, h)
    BY <2>1, <2>4, <1>1, AfterHunksAt
  <2>6. b[k] = ApplyHunk(b[k - 1].val, back[k])
    <3> HIDE DEF back
    <3> QED BY <2>4, <1>1, AfterHunksAt
  <2>7. back[k] = Turned(h)
    BY <1>1, <2>1
  <2>8. PICK v \in Seq(STRING) : a[i - 1] = Ok(v)
    <3>1. i - 1 \in 0..n
      BY <1>1, <2>1
    <3> QED BY <3>1, <2>4, AfterHunksOk DEF IsOk
  <2>9. a[i - 1].val = v
    BY <2>8, OkIs
  <2> HIDE DEF a, b, h, back
  <2>10. PICK s : Went(v, h, s, a[i])
    BY <2>3, <2>4, <2>5, <2>9, ApplyHunkWent
  <2>11. b[k] = Ok(v)
    BY <2>2, <2>3, <2>4, <2>6, <2>7, <2>10, TurnedRestores
  <2> QED BY <2>1, <2>8, <2>11
<1>6. 0..n \subseteq S
  <2> HIDE DEF S, n
  <2> QED BY <1>1, <1>4, <1>5, Climb
<1>7. b[n] = a[n - n] /\ n - n = 0
  BY <1>1, <1>6
<1>8. a[0] = Ok(lines)
  BY <1>1, AfterHunksAt
<1> QED BY <1>7, <1>8

(* Where the reference splits the lines is where the code finds them. *)
LEMMA SplitsAreCandidates ==
  ASSUME NEW lines \in Seq(STRING), NEW h, h.old \in Seq(STRING)
  PROVE  \A p : p \in Splits(lines, h) <=> p \in Nat /\ p + 1 \in Candidates(lines, h)
<1> DEFINE n == Len(h.old)
           L == Len(lines)
<1>1. n \in Nat /\ L \in Nat
  BY LenProperties
<1>2. ASSUME NEW p \in 0..L, n <= L - p
      PROVE  /\ SubSeq(SubSeq(lines, p + 1, L), 1, n) = SubSeq(lines, p + 1, p + n)
             /\ SubSeq(lines, 1, p) \in Seq(STRING) /\ Len(SubSeq(lines, 1, p)) = p
             /\ \A i \in 1..p : SubSeq(lines, 1, p)[i] = lines[i]
             /\ SubSeq(lines, p + 1, p + n) \in Seq(STRING)
             /\ \A i \in 1..n : SubSeq(lines, p + 1, p + n)[i] = lines[p + i]
  <2> DEFINE rest == SubSeq(lines, p + 1, L)
  <2>1. p + 1 \in 1..L + 1 /\ L \in (p + 1) - 1..L /\ p + n \in (p + 1) - 1..L
        /\ 1 \in 1..L + 1 /\ p \in 1 - 1..L
        /\ L - (p + 1) + 1 = L - p /\ (p + n) - (p + 1) + 1 = n /\ p - 1 + 1 = p
    BY <1>1, <1>2
  <2>2. rest \in Seq(STRING) /\ Len(rest) = L - p
        /\ \A i \in 1..L - p : rest[i] = lines[p + 1 + i - 1]
    <3>1. rest \in Seq(STRING) /\ Len(rest) = L - (p + 1) + 1
          /\ \A i \in 1..L - (p + 1) + 1 : rest[i] = lines[p + 1 + i - 1]
      BY <2>1, SubSeqIs
    <3> HIDE DEF L, rest
    <3> QED BY <2>1, <3>1
  <2>3. SubSeq(lines, 1, p) \in Seq(STRING) /\ Len(SubSeq(lines, 1, p)) = p
        /\ \A i \in 1..p : SubSeq(lines, 1, p)[i] = lines[1 + i - 1]
    <3> QED BY <2>1, SubSeqIs
  <2> DEFINE t == SubSeq(lines, p + 1, p + n)
             u == SubSeq(rest, 1, n)
  <2>4. t \in Seq(STRING) /\ Len(t) = n /\ \A i \in 1..n : t[i] = lines[p + 1 + i - 1]
    <3>1. t \in Seq(STRING) /\ Len(t) = (p + n) - (p + 1) + 1
          /\ \A i \in 1..(p + n) - (p + 1) + 1 : t[i] = lines[p + 1 + i - 1]
      <4> HIDE DEF L, n
      <4> QED BY <2>1, SubSeqIs DEF L
    <3> HIDE DEF t
    <3> QED BY <2>1, <3>1
  <2>5. u \in Seq(STRING) /\ Len(u) = n /\ \A i \in 1..n : u[i] = rest[1 + i - 1]
    <3>1. 1 \in 1..Len(rest) + 1 /\ n \in 1 - 1..Len(rest) /\ n - 1 + 1 = n
      BY <1>1, <1>2, <2>2
    <3> HIDE DEF L, n, rest
    <3> QED BY <3>1, <2>2, SubSeqIs
  <2> HIDE DEF t, u, rest, n, L
  <2>6. \A i \in 1..n : t[i] = lines[p + i] /\ u[i] = lines[p + i]
    <3> SUFFICES ASSUME NEW i \in 1..n PROVE t[i] = lines[p + i] /\ u[i] = lines[p + i]
      OBVIOUS
    <3>1. p + 1 + i - 1 = p + i /\ 1 + i - 1 = i /\ i \in 1..L - p
      BY <1>1, <1>2
    <3> QED BY <3>1, <2>2, <2>4, <2>5
  <2>7. t = u
    <3>1. Len(t) = Len(u) /\ \A i \in 1..Len(t) : t[i] = u[i]
      BY <2>4, <2>5, <2>6
    <3> QED BY <2>4, <2>5, <3>1, SeqEqual
  <2>8. \A i \in 1..p : SubSeq(lines, 1, p)[i] = lines[i]
    <3>1. \A i \in 1..p : 1 + i - 1 = i
      BY <1>1
    <3> QED BY <2>3, <3>1
  <2> QED BY <2>3, <2>4, <2>6, <2>7, <2>8 DEF t, u, rest
<1>3. SubSeq(h.old, 1, n) = h.old
  BY SubSeqFull
<1>4. DOMAIN h.old = 1..n
  BY LenProperties
<1> SUFFICES ASSUME NEW p
             PROVE  p \in Splits(lines, h) <=> p \in Nat /\ p + 1 \in Candidates(lines, h)
  OBVIOUS
<1>5. p \in Nat /\ p + 1 \in 1..L - n + 1 <=> p \in 0..L /\ n <= L - p
  <2> HIDE DEF n, L
  <2>1. ASSUME p \in Nat, p + 1 \in 1..L - n + 1 PROVE p \in 0..L /\ n <= L - p
    BY <1>1, <2>1
  <2>2. ASSUME p \in 0..L, n <= L - p PROVE p \in Nat /\ p + 1 \in 1..L - n + 1
    BY <1>1, <2>2
  <2> QED BY <2>1, <2>2
<1>6. CASE ~(p \in 0..L /\ n <= L - p)
  <2>1. p \notin Splits(lines, h)
    <3>1. ASSUME p \in 0..L PROVE Len(SubSeq(lines, p + 1, L)) = L - p
      <4>1. p + 1 \in 1..L + 1 /\ L \in (p + 1) - 1..L /\ L - (p + 1) + 1 = L - p
        BY <1>1, <3>1
      <4> HIDE DEF L
      <4> QED BY <4>1, SubSeqIs DEF L
    <3> QED BY <1>6, <3>1 DEF Splits, IsPrefix
  <2> QED BY <1>5, <1>6, <2>1 DEF Candidates
<1>7. CASE p \in 0..L /\ n <= L - p
  <2> DEFINE Near == \E line \in ToSet(SubSeq(lines, 1, p)) \cup ToSet(h.old) :
                        <<h.anchor, line>> \in Within
             Anchored == \E i \in 1..p + n : <<h.anchor, lines[i]>> \in Within
             Old == SubSeq(lines, p + 1, p + n) = h.old
  <2>1. p \in Splits(lines, h) <=> Old /\ (h.anchor = NoText \/ Near)
    <3>1. Len(SubSeq(lines, p + 1, L)) = L - p
      <4>1. p + 1 \in 1..L + 1 /\ L \in (p + 1) - 1..L /\ L - (p + 1) + 1 = L - p
        BY <1>1, <1>7
      <4> HIDE DEF L
      <4> QED BY <4>1, SubSeqIs DEF L
    <3>2. IsPrefix(h.old, SubSeq(lines, p + 1, L)) <=> Old
      BY <1>2, <1>3, <1>7, <3>1 DEF IsPrefix
    <3> HIDE DEF Near, Old
    <3> QED BY <1>7, <3>2 DEF Splits, Near
  <2>2. p + 1 \in Candidates(lines, h) <=> Old /\ (h.anchor = NoText \/ Anchored)
    <3>1. p + 1 + n - 1 = p + n
      <4> HIDE DEF n, L
      <4> QED BY <1>1, <1>7
    <3> QED BY <3>1, <1>5, <1>7 DEF Candidates
  <2>3. ASSUME Old PROVE Near <=> Anchored
    <3>1. /\ DOMAIN SubSeq(lines, 1, p) = 1..p /\ \A i \in 1..p : SubSeq(lines, 1, p)[i] = lines[i]
          /\ \A i \in 1..n : h.old[i] = lines[p + i]
      BY <1>2, <1>7, <2>3, LenProperties
    <3>2. ASSUME Near PROVE Anchored
      <4>1. PICK line \in ToSet(SubSeq(lines, 1, p)) \cup ToSet(h.old) :
                    <<h.anchor, line>> \in Within
        BY <3>2
      <4>2. \E i \in 1..p + n : line = lines[i]
        <5>1. CASE line \in ToSet(SubSeq(lines, 1, p))
          <6>1. PICK i \in 1..p : line = lines[i]
            BY <5>1, <3>1 DEF ToSet
          <6>2. i \in 1..p + n
            BY <1>1, <1>7
          <6> QED BY <6>1, <6>2
        <5>2. CASE line \in ToSet(h.old)
          <6>1. PICK i \in 1..n : line = lines[p + i]
            BY <5>2, <3>1, <1>4 DEF ToSet
          <6>2. p + i \in 1..p + n
            BY <1>1, <1>7
          <6> QED BY <6>1, <6>2
        <5> QED BY <4>1, <5>1, <5>2
      <4> QED BY <4>1, <4>2
    <3>3. ASSUME Anchored PROVE Near
      <4>1. PICK i \in 1..p + n : <<h.anchor, lines[i]>> \in Within
        BY <3>3
      <4>2. CASE i <= p
        <5>1. i \in 1..p
          BY <4>2, <1>1, <1>7
        <5>2. lines[i] \in ToSet(SubSeq(lines, 1, p))
          BY <5>1, <3>1 DEF ToSet
        <5> QED BY <4>1, <5>2
      <4>3. CASE ~(i <= p)
        <5>1. i - p \in 1..n /\ p + (i - p) = i
          BY <4>3, <1>1, <1>7
        <5>2. lines[i] = h.old[i - p]
          BY <5>1, <3>1
        <5>3. lines[i] \in ToSet(h.old)
          BY <5>1, <5>2, <1>4 DEF ToSet
        <5> QED BY <4>1, <5>3
      <4> QED BY <4>2, <4>3
    <3> QED BY <3>2, <3>3
  <2> HIDE DEF Near, Old, Anchored
  <2> QED BY <1>7, <2>1, <2>2, <2>3
<1> QED BY <1>6, <1>7


(* What FilePatch::plan makes of an update. *)
LEMMA UpdateIs ==
  ASSUME NEW c, NEW hunks
  PROVE  LET u == ApplyHunks(c, hunks)
         IN  PlanFile([path |-> "f", operation |-> [op |-> "update", hunks |-> hunks]], c) =
               IF c = NoText THEN Err("not_found")
               ELSE IF Failed(u) THEN u
               ELSE Ok([new |-> u.val, changed |-> u.val # c])
BY DEF PlanFile

LEMMA ApplyHunksIs ==
  ASSUME NEW c, NEW hunks
  PROVE  LET r == AfterHunks(c.lines, hunks)[Len(hunks)]
         IN  ApplyHunks(c, hunks) =
               IF Failed(r) THEN r ELSE Ok(JoinLines(r.val, c.nl))
BY DEF ApplyHunks

(* The joined lines of a text are the text. *)
LEMMA JoinIs ==
  ASSUME NEW c, IsText(c)
  PROVE  c.lines \in Seq(STRING) /\ c.nl \in BOOLEAN /\ JoinLines(c.lines, c.nl) = c
<1>1. c \in [lines : Seq(STRING), nl : BOOLEAN]
  BY DEF IsText
<1>2. c.lines \in Seq(STRING) /\ c.nl \in BOOLEAN /\ c = [lines |-> c.lines, nl |-> c.nl]
  BY <1>1
<1>3. CASE c.nl = TRUE
  <2>1. c.lines # <<>>
    BY <1>3 DEF IsText
  <2>2. JoinLines(c.lines, c.nl) = [lines |-> c.lines, nl |-> TRUE]
    BY <1>3, <2>1 DEF JoinLines
  <2> QED BY <1>2, <1>3, <2>2
<1>4. CASE c.nl = FALSE
  <2>1. c.lines = <<>> \/ Last(c.lines) # Blank
    BY <1>4, Zenon DEF IsText
  <2>2. JoinLines(c.lines, c.nl) = [lines |-> c.lines, nl |-> FALSE]
    BY <1>4, <2>1 DEF JoinLines
  <2> QED BY <1>2, <1>4, <2>2
<1> QED BY <1>2, <1>3, <1>4

(* The three ways of joining: nothing is left, the lines are kept, or an    *)
(* empty last line becomes the newline before it.                           *)
LEMMA JoinCases ==
  ASSUME NEW m \in Seq(STRING), NEW nl \in BOOLEAN
  PROVE  LET w == JoinLines(m, nl)
         IN  \/ w.lines = <<>>
             \/ w.lines = m /\ w.nl = nl
             \/ nl = FALSE /\ w.nl = TRUE
<1> DEFINE w == JoinLines(m, nl)
<1>1. CASE m = <<>>
  <2>1. w = [lines |-> m, nl |-> nl /\ m # <<>>]
    BY <1>1 DEF JoinLines
  <2> QED BY <1>1, <2>1
<1>2. CASE m # <<>> /\ (nl \/ Last(m) # Blank)
  <2>1. w = [lines |-> m, nl |-> nl /\ m # <<>>] /\ (nl /\ m # <<>>) = nl
    BY <1>2 DEF JoinLines
  <2> QED BY <2>1
<1>3. CASE m # <<>> /\ ~(nl \/ Last(m) # Blank)
  <2>1. w = [lines |-> Front(m), nl |-> Len(m) > 1]
    BY <1>3 DEF JoinLines
  <2>2. CASE Len(m) > 1
    <3>1. w.nl = (Len(m) > 1)
      BY <2>1
    <3>2. w.nl = TRUE
      BY <2>2, <3>1, Zenon
    <3>3. nl = FALSE
      BY <1>3
    <3> HIDE DEF w
    <3> QED BY <3>2, <3>3, Zenon DEF w
  <2>3. CASE ~(Len(m) > 1)
    <3>1. Len(m) \in Nat /\ Len(m) - 1 < 1
      BY <2>3, LenProperties
    <3>2. Front(m) = <<>>
      BY <3>1, SubSeqEmpty DEF Front
    <3> QED BY <2>1, <3>2
  <2> QED BY <2>2, <2>3
<1> QED BY <1>1, <1>2, <1>3

(* A text that ends in a newline is joined to one that does, or to nothing. *)
LEMMA JoinKeepsNewline ==
  ASSUME NEW m
  PROVE  JoinLines(m, TRUE).nl = TRUE \/ JoinLines(m, TRUE).lines = <<>>
<1>1. CASE m = <<>>
  BY <1>1 DEF JoinLines
<1>2. CASE m # <<>>
  <2>1. JoinLines(m, TRUE) = [lines |-> m, nl |-> TRUE]
    BY <1>2 DEF JoinLines
  <2>2. [lines |-> m, nl |-> TRUE].nl = TRUE
    BY Zenon
  <2> QED BY <2>1, <2>2, Zenon
<1> QED BY <1>1, <1>2, Zenon

(* No hunk applies to a text without lines. *)
LEMMA NoLinesNoHunk ==
  ASSUME NEW hunks, AreHunks(hunks), Len(hunks) # 0, hunks[1].old # <<>>
  PROVE  Failed(AfterHunks(<<>>, hunks)[Len(hunks)])
<1> DEFINE n == Len(hunks)
           b == AfterHunks(<<>>, hunks)
<1>1. n \in Nat /\ n # 0 /\ 1 \in 1..n /\ hunks[1].old \in Seq(STRING)
  BY DEF AreHunks
<1>2. Candidates(<<>>, hunks[1]) = {}
  <2> DEFINE o == hunks[1].old
  <2>1. Len(o) \in Nat /\ Len(o) # 0 /\ Len(<<>>) = 0
    BY <1>1, EmptySeq, LenProperties
  <2>2. 1..Len(<<>>) - Len(o) + 1 = {}
    <3> HIDE DEF o
    <3> QED BY <2>1
  <2> QED BY <2>2 DEF Candidates
<1>3. ApplyHunk(<<>>, hunks[1]) = Err("context_not_found")
  BY <1>2 DEF ApplyHunk
<1>4. Failed(ApplyHunk(<<>>, hunks[1]))
  BY <1>3, ErrIs
<1>5. b[0] = Ok(<<>>)
  BY <1>1, AfterHunksAt
<1>6. b[1] = IF Failed(b[1 - 1]) THEN b[1 - 1] ELSE ApplyHunk(b[1 - 1].val, hunks[1])
  BY <1>1, AfterHunksAt
<1>7. Failed(b[1])
  <2> HIDE DEF b
  <2>1. b[1] = IF Failed(b[0]) THEN b[0] ELSE ApplyHunk(b[0].val, hunks[1])
    BY <1>6
  <2> QED BY <1>4, <1>5, <2>1, OkIs
<1> SUFFICES ASSUME ~Failed(b[n]) PROVE FALSE
  OBVIOUS
<1>8. n - 1 \in 0..n /\ n - (n - 1) = 1
  BY <1>1
<1>9. ~Failed(b[n - (n - 1)])
  BY <1>1, <1>8, NoFailureBefore
<1> QED BY <1>7, <1>8, <1>9

(* The update that turns every hunk around ends in the text it began with,  *)
(* unless the first one made a newline of an empty last line.               *)
LEMMA UpdateRestores ==
  ASSUME NEW c, IsText(c), NEW hunks, AreHunks(hunks),
         \A i \in 1..Len(hunks) : hunks[i].old # <<>>,
         NEW w, ApplyHunks(c, hunks) = Ok(w),
         \A i \in 1..Len(hunks) : TakenBack(hunks)[i].old # <<>>,
         ~Failed(ApplyHunks(w, TakenBack(hunks)))
  PROVE  ApplyHunks(w, TakenBack(hunks)).val = c <=> w.nl = c.nl
<1> DEFINE n == Len(hunks)
           back == TakenBack(hunks)
           r == AfterHunks(c.lines, hunks)[n]
           q == AfterHunks(w.lines, back)[n]
<1>1. /\ n \in Nat /\ Len(back) = n
      /\ \A i \in 1..n : back[i].old = hunks[n - i + 1].new
  BY DEF AreHunks, TakenBack, Turned
<1>2. c.lines \in Seq(STRING) /\ c.nl \in BOOLEAN /\ JoinLines(c.lines, c.nl) = c
  BY JoinIs
<1>3. ~Failed(r) /\ w = JoinLines(r.val, c.nl)
  <2> HIDE DEF n
  <2>1. Ok(w) = IF Failed(r) THEN r ELSE Ok(JoinLines(r.val, c.nl))
    BY ApplyHunksIs DEF n
  <2> HIDE DEF r
  <2> QED BY <2>1, OkIs
<1>4. PICK m \in Seq(STRING) : r = Ok(m)
  <2>1. n \in 0..n
    BY <1>1
  <2> QED BY <1>2, <1>3, <2>1, AfterHunksOk DEF IsOk
<1>5. w = JoinLines(m, c.nl)
  BY <1>3, <1>4, OkIs
<1>6. /\ ~Failed(q)
      /\ ApplyHunks(w, back).val = JoinLines(q.val, w.nl)
  <2> HIDE DEF back, n
  <2>1. ApplyHunks(w, back) = IF Failed(q) THEN q ELSE Ok(JoinLines(q.val, w.nl))
    BY <1>1, ApplyHunksIs
  <2> HIDE DEF q
  <2> QED BY <2>1, OkIs DEF back
<1>7. CASE n = 0
  <2>1. r = Ok(c.lines)
    BY <1>1, <1>7, AfterHunksAt
  <2>2. m = c.lines /\ w = c
    BY <1>2, <1>4, <1>5, <2>1, OkIs
  <2>3. q = Ok(c.lines)
    BY <1>1, <1>7, <2>2, AfterHunksAt
  <2>4. q.val = c.lines
    BY <2>3, OkIs
  <2> QED BY <1>2, <1>6, <2>2, <2>4
<1>8. CASE n # 0 /\ w.lines = <<>>
  <2>1. 1 \in 1..n /\ n - 1 + 1 = n /\ n \in 1..n
    BY <1>1, <1>8
  <2>2. back[1].old # <<>>
    BY <2>1
  <2>3. AreHunks(back)
    <3> SUFFICES ASSUME NEW i \in 1..n
                 PROVE  back[i].old \in Seq(STRING) /\ back[i].new \in Seq(STRING)
      BY <1>1 DEF AreHunks
    <3>1. n - i + 1 \in 1..n
      BY <1>1
    <3>2. back[i] = Turned(hunks[n - i + 1])
      BY DEF TakenBack
    <3> QED BY <3>1, <3>2 DEF AreHunks, Turned
  <2>4. Len(back) # 0 /\ q = AfterHunks(<<>>, back)[Len(back)]
    BY <1>1, <1>8
  <2> HIDE DEF back, q
  <2>5. Failed(q)
    BY <2>2, <2>3, <2>4, NoLinesNoHunk
  <2> QED BY <1>6, <2>5
<1>9. CASE w.lines = m /\ w.nl = c.nl
  <2>1. q = Ok(c.lines)
    BY <1>2, <1>4, <1>6, <1>9, HunksRestore
  <2>2. q.val = c.lines
    BY <2>1, OkIs
  <2> QED BY <1>2, <1>6, <1>9, <2>2
<1>10. CASE n # 0 /\ c.nl = FALSE /\ w.nl = TRUE
  <2>1. c.lines # <<>>
    <3> SUFFICES ASSUME c.lines = <<>> PROVE FALSE
      OBVIOUS
    <3>1. 1 \in 1..n /\ Len(hunks) # 0
      BY <1>1, <1>10
    <3>2. Failed(AfterHunks(<<>>, hunks)[Len(hunks)])
      BY <3>1, NoLinesNoHunk
    <3> QED BY <1>3, <3>2
  <2>2. LET v == JoinLines(q.val, TRUE) IN v.nl = TRUE \/ v.lines = <<>>
    <3> HIDE DEF q
    <3> QED BY JoinKeepsNewline
  <2>3. JoinLines(q.val, TRUE) # c
    BY <1>10, <2>1, <2>2
  <2> QED BY <1>6, <1>10, <2>3
<1>11. \/ w.lines = <<>>
       \/ w.lines = m /\ w.nl = c.nl
       \/ c.nl = FALSE /\ w.nl = TRUE
  BY <1>2, <1>5, JoinCases
<1> HIDE DEF n
<1> QED BY <1>7, <1>8, <1>9, <1>10, <1>11

(* One hunk does what the reference says. *)
LEMMA HunkPlaced ==
  ASSUME NEW c, IsText(c), NEW hunks, AreHunks(hunks), Len(hunks) = 1
  PROVE  LET u == ApplyHunks(c, hunks)
             h == hunks[1]
             found == Splits(c.lines, h)
             p == CHOOSE x \in found : TRUE
         IN  \/ found = {} /\ u = Err("context_not_found")
             \/ found # {} /\ found # {p} /\ u = Err("ambiguous_context")
             \/ found = {p} /\ u = Ok(JoinLines(SubSeq(c.lines, 1, p) \o h.new
                                  \o SubSeq(c.lines, p + Len(h.old) + 1, Len(c.lines)), c.nl))
<1> DEFINE u == ApplyHunks(c, hunks)
           h == hunks[1]
           lines == c.lines
           found == Splits(lines, h)
           p == CHOOSE x \in found : TRUE
           cs == Candidates(lines, h)
           r == ApplyHunk(lines, h)
<1>1. lines \in Seq(STRING) /\ h.old \in Seq(STRING) /\ h.new \in Seq(STRING)
  BY JoinIs DEF AreHunks
<1>2. u = IF Failed(r) THEN r ELSE Ok(JoinLines(r.val, c.nl))
  <2> DEFINE a == AfterHunks(lines, hunks)
  <2>1. a[0] = Ok(lines)
    BY AfterHunksAt
  <2>2. a[1] = IF Failed(a[0]) THEN a[0] ELSE ApplyHunk(a[0].val, h)
    <3>1. 1 \in 1..Len(hunks) /\ 1 - 1 = 0 /\ Len(hunks) \in Nat
      OBVIOUS
    <3> QED BY <3>1, AfterHunksAt
  <2>3. a[1] = r
    <3> HIDE DEF a
    <3> QED BY <2>1, <2>2, OkIs
  <2> QED BY <2>3, ApplyHunksIs
<1>3. \A x : x \in found <=> x \in Nat /\ x + 1 \in cs
  BY <1>1, SplitsAreCandidates
<1>4. \A x \in cs : x \in Nat \ {0}
  <2>1. Len(h.old) \in Nat /\ Len(lines) \in Nat
    BY <1>1, LenProperties
  <2> HIDE DEF h, lines
  <2> QED BY <2>1 DEF Candidates
<1> HIDE DEF u, found, cs, r
<1>5. CASE cs = {} /\ r = Err("context_not_found")
  <2>1. found = {}
    BY <1>3, <1>5
  <2> QED BY <1>2, <1>5, <2>1, ErrIs DEF u, found
<1>6. CASE cs # {} /\ (\A s : cs # {s}) /\ r = Err("ambiguous_context")
  <2>1. PICK s \in cs : TRUE
    BY <1>6
  <2>2. s - 1 \in found
    BY <1>3, <1>4, <2>1
  <2>3. ASSUME found = {p} PROVE FALSE
    <3> HIDE DEF p
    <3>1. p \in Nat
      BY <2>3, <1>3
    <3>2. ASSUME NEW x \in cs PROVE x = p + 1
      <4>1. x - 1 \in Nat /\ (x - 1) + 1 = x
        BY <1>4
      <4>2. x - 1 = p
        BY <4>1, <2>3, <1>3
      <4> QED BY <3>1, <4>1, <4>2
    <3>3. cs = {p + 1}
      BY <2>1, <3>2
    <3> QED BY <3>3, <1>6
  <2> QED BY <1>2, <1>6, <2>2, <2>3, ErrIs DEF u, found
<1>7. CASE \E s : Went(lines, h, s, r)
  <2>1. PICK s : Went(lines, h, s, r)
    BY <1>7
  <2>2. cs = {s} /\ s \in Nat \ {0}
    BY <2>1, <1>4 DEF Went, cs
  <2>3. found = {s - 1}
    BY <2>2, <1>3
  <2>4. p = s - 1
    BY <2>3
  <2>5. s - 1 = p /\ s + Len(h.old) = p + Len(h.old) + 1
    <3>1. Len(h.old) \in Nat
      BY <1>1, LenProperties
    <3> HIDE DEF p, h
    <3> QED BY <2>2, <2>4, <3>1
  <2>6. r = Ok(SubSeq(lines, 1, p) \o h.new \o SubSeq(lines, p + Len(h.old) + 1, Len(lines)))
    <3> HIDE DEF p, h
    <3> QED BY <2>1, <2>5 DEF Went
  <2> HIDE DEF p
  <2> QED BY <1>2, <2>3, <2>4, <2>6, OkIs DEF u, found, p
<1> QED BY <1>5, <1>6, <1>7, ApplyHunkCases DEF cs, r


UpdateOf(c, hunks) ==
  PlanFile([path |-> "f", operation |-> [op |-> "update", hunks |-> hunks]], c)

(* An update is given a text and hunks, and its output is the plan for them. *)
UpdateInv ==
  task = "update" =>
    /\ \E c \in FileTexts, hunks \in Hunks : input = <<c, hunks>>
    /\ output = NoOutput \/ output = UpdateOf(input[1], input[2])

LEMMA UpdateInvInit == AlgInit => UpdateInv
BY DEF AlgInit, UpdateInv

LEMMA UpdateInvNext == UpdateInv /\ [AlgNext]_algVars => UpdateInv'
<1> SUFFICES ASSUME UpdateInv, [AlgNext]_algVars PROVE UpdateInv'
  OBVIOUS
<1>1. CASE Update
  BY <1>1 DEF UpdateInv, UpdateOf, Update, Compute
<1>2. CASE UNCHANGED algVars
  BY <1>2 DEF UpdateInv, algVars
<1>3. ASSUME NEW t, t # "update", task = t, task' = task PROVE UpdateInv'
  BY <1>3 DEF UpdateInv
<1>4. CASE Parse
  <2>1. task = "parse" /\ task' = task
    BY <1>4 DEF Parse, Compute
  <2> QED BY <1>3, <2>1
<1>5. CASE Send
  <2>1. task = "send" /\ task' = task
    BY <1>5 DEF Send, Carry, Compute
  <2> QED BY <1>3, <2>1
<1>6. CASE Fetch
  <2>1. task = "fetch" /\ task' = task
    BY <1>6 DEF Fetch, Carry, Compute
  <2> QED BY <1>3, <2>1
<1>7. CASE Extract
  <2>1. task = "extract" /\ task' = task
    BY <1>7 DEF Extract, Compute
  <2> QED BY <1>3, <2>1
<1>8. CASE Normalize
  <2>1. task = "reserve" /\ task' = task
    BY <1>8 DEF Normalize, Compute
  <2> QED BY <1>3, <2>1
<1>9. CASE Join
  <2>1. task = "join" /\ task' = task
    BY <1>9 DEF Join, Compute
  <2> QED BY <1>3, <2>1
<1>10. CASE LogTail
  <2>1. task = "tail" /\ task' = task
    BY <1>10 DEF LogTail, Compute
  <2> QED BY <1>3, <2>1
<1> QED BY <1>1, <1>2, <1>4, <1>5, <1>6, <1>7, <1>8, <1>9, <1>10 DEF AlgNext

LEMMA UpdateInvExact ==
  ASSUME UpdateInputs, UpdateInv
  PROVE  HunksExact
<1> SUFFICES ASSUME Computed("update") PROVE HunksExact
  BY DEF HunksExact, HunkFindsItsPlace, ReverseRestores
<1>1. PICK c \in FileTexts, hunks \in Hunks : input = <<c, hunks>>
  BY DEF UpdateInv, Computed
<1>2. input[1] = c /\ input[2] = hunks /\ output = UpdateOf(c, hunks)
  BY <1>1 DEF UpdateInv, Computed
<1>3. /\ AreHunks(hunks) /\ (c # NoText => IsText(c)) /\ DOMAIN hunks = 1..Len(hunks)
      /\ \A i \in 1..Len(hunks) : hunks[i].old # <<>>
  BY LenProperties DEF UpdateInputs, AreHunks, IsHunk
<1> DEFINE u == ApplyHunks(c, hunks)
<1>4. output = IF c = NoText THEN Err("not_found")
               ELSE IF Failed(u) THEN u
               ELSE Ok([new |-> u.val, changed |-> u.val # c])
  BY <1>2, UpdateIs DEF UpdateOf
<1> HIDE DEF u
<1>5. HunkFindsItsPlace
  <2> SUFFICES ASSUME Len(hunks) = 1, c # NoText PROVE HunkFindsItsPlace
    BY <1>2 DEF HunkFindsItsPlace
  <2> DEFINE h == hunks[1]
             found == Splits(c.lines, h)
             p == CHOOSE x \in found : TRUE
             new == JoinLines(SubSeq(c.lines, 1, p) \o h.new
                      \o SubSeq(c.lines, p + Len(h.old) + 1, Len(c.lines)), c.nl)
  <2>1. \/ found = {} /\ u = Err("context_not_found")
        \/ found # {} /\ found # {p} /\ u = Err("ambiguous_context")
        \/ found = {p} /\ u = Ok(new)
    BY <1>3, HunkPlaced DEF u
  <2> HIDE DEF new, p
  <2>2. \/ found = {} /\ output.err = "context_not_found"
        \/ found # {} /\ found # {p} /\ output.err = "ambiguous_context"
        \/ found = {p} /\ ~Failed(output) /\ output.val.new = new
    BY <2>1, <1>4, ErrIs, OkIs
  <2> HIDE DEF found
  <2>3. CASE found = {}
    BY <2>2, <2>3, <1>2 DEF HunkFindsItsPlace, found, p, new
  <2>4. CASE found # {} /\ found # {p}
    BY <2>2, <2>4, <1>2 DEF HunkFindsItsPlace, found, p, new
  <2>5. CASE found # {} /\ found = {p}
    BY <2>2, <2>5, <1>2 DEF HunkFindsItsPlace, found, p, new
  <2> QED BY <2>3, <2>4, <2>5
<1>6. ReverseRestores
  <2> DEFINE back == TakenBack(hunks)
             again == ApplyHunks(output.val.new, back)
  <2>1. DOMAIN back = 1..Len(hunks)
    BY DEF TakenBack
  <2> SUFFICES ASSUME ~Failed(output), \A i \in 1..Len(hunks) : back[i].old # <<>>,
                      ~Failed(again)
               PROVE  again.val = c <=> output.val.new.nl = c.nl
    BY <1>2, <2>1 DEF ReverseRestores
  <2>2. c # NoText /\ ~Failed(u) /\ output.val.new = u.val
    BY <1>4, ErrIs, OkIs
  <2>3. u = Ok(u.val)
    <3>1. u = LET r == AfterHunks(c.lines, hunks)[Len(hunks)]
              IN  IF Failed(r) THEN r ELSE Ok(JoinLines(r.val, c.nl))
      BY ApplyHunksIs DEF u
    <3> QED BY <2>2, <3>1, OkIs
  <2> QED BY <1>3, <2>2, <2>3, UpdateRestores DEF u
<1> QED BY <1>5, <1>6 DEF HunksExact

(* apply_hunks, for every text and every sequence of hunks: a hunk changes *)
(* the one place where its old lines stand and nothing else, is refused    *)
(* when there is no such place or more than one; and an update taken back  *)
(* hunk by hunk leaves the text it began with, its final newline included, *)
(* exactly when it had not made a newline of an empty last line.           *)
THEOREM HunksAlwaysExact == AlgSpec => []HunksExact
<1>1. UpdateInv => HunksExact
  BY UpdateInputs, UpdateInvExact
<1> QED BY <1>1, UpdateInvInit, UpdateInvNext, PTL DEF AlgSpec

-----------------------------------------------------------------------------
(* Reading a patch: what the pieces of a patch are, what each section and   *)
(* each hunk is made of, and that the lines which parse are the ones the    *)
(* grammar allows.                                                          *)

(* Where a member stands in a set of numbers. *)
Place(S, x) == Cardinality({y \in S : y <= x})

(* The place of a member grows with it. *)
LEMMA PlaceGrows ==
  ASSUME NEW S \in SUBSET Nat, IsFiniteSet(S)
  PROVE  /\ \A x \in S : Place(S, x) \in 1..Cardinality(S)
         /\ \A x, y \in S : x < y <=> Place(S, x) < Place(S, y)
         /\ \A x, y \in S : Place(S, x) = Place(S, y) => x = y
<1> DEFINE NotOver(x) == {y \in S : y <= x}
<1>0. \A x : Place(S, x) = Cardinality(NotOver(x))
  BY DEF Place
<1>1. ASSUME NEW x \in S
      PROVE  /\ IsFiniteSet(NotOver(x)) /\ Cardinality(NotOver(x)) \in Nat
             /\ Cardinality(NotOver(x)) <= Cardinality(S) /\ Cardinality(NotOver(x)) # 0
  <2>1. NotOver(x) \in SUBSET S /\ x \in NotOver(x)
    BY <1>1
  <2>2. IsFiniteSet(NotOver(x)) /\ Cardinality(NotOver(x)) <= Cardinality(S)
    BY <2>1, FS_Subset
  <2> QED BY <2>1, <2>2, FS_CardinalityType, FS_EmptySet
<1>2. Cardinality(S) \in Nat
  BY FS_CardinalityType
<1>3. ASSUME NEW x \in S, NEW y \in S, x < y PROVE Place(S, x) < Place(S, y)
  <2>1. NotOver(x) \in SUBSET NotOver(y) /\ y \in NotOver(y) /\ y \notin NotOver(x)
    <3>1. x \in Nat /\ y \in Nat /\ ~(y <= x) /\ \A z \in S : z <= x => z <= y
      BY <1>3
    <3>2. \A z \in NotOver(x) : z \in NotOver(y)
      BY <3>1
    <3>3. y \in NotOver(y) /\ y \notin NotOver(x)
      BY <1>3, <3>1
    <3> HIDE DEF NotOver
    <3> QED BY <3>2, <3>3
  <2>2. NotOver(x) # NotOver(y)
    BY <2>1
  <2>3. /\ Cardinality(NotOver(x)) <= Cardinality(NotOver(y))
        /\ Cardinality(NotOver(x)) # Cardinality(NotOver(y))
    BY <1>1, <2>1, <2>2, FS_Subset
  <2> QED BY <1>0, <1>1, <2>3
<1>4. \A x \in S : Place(S, x) \in 1..Cardinality(S)
  <2> HIDE DEF NotOver
  <2> QED BY <1>0, <1>1, <1>2
<1>5. \A x, y \in S : x < y \/ x = y \/ y < x
  OBVIOUS
<1>6. \A x, y \in S : x < y <=> Place(S, x) < Place(S, y)
  <2>1. \A x \in S : Place(S, x) \in Int
    BY <1>4
  <2> QED BY <1>3, <1>5, <2>1
<1>7. \A x, y \in S : Place(S, x) = Place(S, y) => x = y
  <2>1. \A x \in S : Place(S, x) \in Int
    BY <1>4
  <2> QED BY <1>3, <1>5, <2>1
<1> QED BY <1>4, <1>6, <1>7

(* InOrder gives every member at its place. *)
LEMMA InOrderIs ==
  ASSUME NEW S \in SUBSET Nat, IsFiniteSet(S)
  PROVE  LET a == InOrder(S)
             n == Cardinality(S)
         IN  /\ n \in Nat /\ a \in Seq(S) /\ Len(a) = n /\ DOMAIN a = 1..n
             /\ \A i \in 1..n : a[i] \in S /\ Place(S, a[i]) = i
             /\ \A i, j \in 1..n : i < j => a[i] < a[j]
             /\ \A x \in S : \E i \in 1..n : a[i] = x
<1> DEFINE n == Cardinality(S)
           a == InOrder(S)
           f == [x \in S |-> Place(S, x)]
<1>1. n \in Nat
  BY FS_CardinalityType
<1>2. f \in Injection(S, 1..n)
  BY PlaceGrows DEF Injection, IsInjective
<1>3. IsFiniteSet(1..n) /\ Cardinality(1..n) = n
  BY <1>1, FS_Interval
<1>4. f \in Surjection(S, 1..n)
  BY <1>2, <1>3, FS_Injection
<1>5. \A i \in 1..n : \E x \in S : Place(S, x) = i
  BY <1>4 DEF Surjection
<1>6. a = [i \in 1..n |-> CHOOSE x \in S : Place(S, x) = i]
  <2>1. a = [i \in 1..Cardinality(S) |-> CHOOSE x \in S : Place(S, x) = i]
    BY DEF InOrder, Place
  <2>2. Cardinality(S) = n
    OBVIOUS
  <2> HIDE DEF a, n
  <2> QED BY <2>1, <2>2
<1>7. \A i \in 1..n : a[i] \in S /\ Place(S, a[i]) = i
  BY <1>5, <1>6
<1>8. a \in [1..n -> S]
  BY <1>6, <1>7
<1>9. a \in Seq(S) /\ Len(a) = n /\ DOMAIN a = 1..n
  <2> HIDE DEF a, n
  <2> QED BY <1>1, <1>8
<1>10. \A i, j \in 1..n : i < j => a[i] < a[j]
  <2> HIDE DEF a, n
  <2>1. \A x, y \in S : x < y <=> Place(S, x) < Place(S, y)
    BY PlaceGrows
  <2> QED BY <1>7, <2>1
<1>11. \A x \in S : \E i \in 1..n : a[i] = x
  <2> SUFFICES ASSUME NEW x \in S PROVE \E i \in 1..n : a[i] = x
    OBVIOUS
  <2>1. Place(S, x) \in 1..n /\ Place(S, a[Place(S, x)]) = Place(S, x)
    BY <1>7, PlaceGrows
  <2>2. a[Place(S, x)] \in S
    BY <1>7, <2>1
  <2>3. a[Place(S, x)] = x
    <3> HIDE DEF a, n
    <3>1. \A x1, y1 \in S : Place(S, x1) = Place(S, y1) => x1 = y1
      BY PlaceGrows
    <3> QED BY <2>1, <2>2, <3>1
  <2> QED BY <2>1, <2>3
<1> QED BY <1>1, <1>7, <1>9, <1>10, <1>11

(* There is one ascending enumeration. *)
LEMMA InOrderOnly ==
  ASSUME NEW S \in SUBSET Nat, IsFiniteSet(S), NEW m \in Nat, NEW b \in [1..m -> S],
         \A i, j \in 1..m : i < j => b[i] < b[j],
         \A x \in S : \E i \in 1..m : b[i] = x
  PROVE  Cardinality(S) = m /\ InOrder(S) = b
<1>1. IsFiniteSet(1..m) /\ Cardinality(1..m) = m
  BY FS_Interval
<1>2. b \in Bijection(1..m, S)
  <2>1. \A i, j \in 1..m : b[i] = b[j] => i = j
    <3> SUFFICES ASSUME NEW i \in 1..m, NEW j \in 1..m, b[i] = b[j], i # j PROVE FALSE
      OBVIOUS
    <3>1. i < j \/ j < i
      OBVIOUS
    <3>2. b[i] < b[j] \/ b[j] < b[i]
      BY <3>1
    <3>3. b[i] \in Nat /\ b[j] \in Nat
      OBVIOUS
    <3> QED BY <3>2, <3>3
  <2> QED BY <2>1 DEF Bijection, Injection, IsInjective, Surjection
<1>3. Cardinality(S) = m
  BY <1>1, <1>2, FS_Bijection DEF ExistsBijection
<1>4. \A i \in 1..m : Place(S, b[i]) = i
  <2> SUFFICES ASSUME NEW i \in 1..m PROVE Place(S, b[i]) = i
    OBVIOUS
  <2> DEFINE T == {y \in S : y <= b[i]}
             g == [j \in 1..i |-> b[j]]
  <2>1. \A j \in 1..m : j <= i <=> b[j] <= b[i]
    <3>1. \A j \in 1..m : b[j] \in Nat
      OBVIOUS
    <3> QED BY <3>1
  <2>2. g \in Bijection(1..i, T)
    <3>1. \A j \in 1..i : j \in 1..m
      OBVIOUS
    <3>2. g \in [1..i -> T]
      BY <2>1, <3>1
    <3>3. \A j, k \in 1..i : g[j] = g[k] => j = k
      BY <1>2, <3>1 DEF Bijection, Injection, IsInjective
    <3>4. \A y \in T : \E j \in 1..i : g[j] = y
      <4> SUFFICES ASSUME NEW y \in T PROVE \E j \in 1..i : g[j] = y
        OBVIOUS
      <4>1. PICK j \in 1..m : b[j] = y
        OBVIOUS
      <4>2. j \in 1..i
        BY <2>1, <4>1
      <4> QED BY <4>1, <4>2
    <3> HIDE DEF g, T
    <3> QED BY <3>2, <3>3, <3>4 DEF Bijection, Injection, IsInjective, Surjection
  <2>3. IsFiniteSet(1..i) /\ Cardinality(1..i) = i
    BY FS_Interval
  <2>4. Cardinality(T) = i
    <3> HIDE DEF g, T
    <3> QED BY <2>2, <2>3, FS_Bijection DEF ExistsBijection
  <2> QED BY <2>4 DEF Place
<1> DEFINE a == InOrder(S)
<1>5. \A i \in 1..m : a[i] \in S /\ Place(S, a[i]) = i
  BY <1>3, InOrderIs
<1>6. a = [i \in 1..m |-> CHOOSE x \in S : Place(S, x) = i]
  <2>1. a = [i \in 1..Cardinality(S) |-> CHOOSE x \in S : Place(S, x) = i]
    BY DEF InOrder, Place
  <2>2. Cardinality(S) = m
    BY <1>3
  <2> HIDE DEF a
  <2> QED BY <2>1, <2>2
<1> HIDE DEF a
<1>7. \A i \in 1..m : a[i] = b[i]
  <2>1. \A x, y \in S : Place(S, x) = Place(S, y) => x = y
    BY PlaceGrows
  <2> QED BY <1>4, <1>5, <2>1
<1>8. a = b
  BY <1>6, <1>7
<1> QED BY <1>3, <1>8 DEF a

(* Where the piece that starts at pos[i] ends. *)
Stop(pos, i, n) == IF i < Len(pos) THEN pos[i + 1] - 1 ELSE n

(* The pieces cover the lines, and no piece has a cut but its first line. *)
LEMMA PiecesIs ==
  ASSUME NEW X, NEW s \in Seq(X), NEW cuts \in SUBSET (1..Len(s)), 1 \in cuts
  PROVE  LET pos == InOrder(cuts)
             p == Pieces(s, cuts)
             n == Len(s)
         IN  /\ pos \in Seq(cuts) /\ Len(pos) \in Nat /\ Len(pos) # 0 /\ pos[1] = 1
             /\ \A i \in 1..Len(pos) :
                  /\ pos[i] \in cuts /\ pos[i] \in 1..n /\ Stop(pos, i, n) \in pos[i]..n
                  /\ \A j \in pos[i] + 1..Stop(pos, i, n) : j \notin cuts
             /\ \A k \in 1..n : \E i \in 1..Len(pos) : k \in pos[i]..Stop(pos, i, n)
             /\ \A i, j \in 1..Len(pos) : i < j => pos[i] < pos[j]
             /\ \A x \in cuts : \E i \in 1..Len(pos) : pos[i] = x
             /\ p = [i \in 1..Len(pos) |-> SubSeq(s, pos[i], Stop(pos, i, n))]
<1> DEFINE pos == InOrder(cuts)
           n == Len(s)
           N == Cardinality(cuts)
<1>1. n \in Nat /\ cuts \in SUBSET Nat
  BY LenProperties
<1>2. IsFiniteSet(cuts)
  <2>1. \A x \in cuts : x <= n
    BY <1>1
  <2> QED BY <1>1, <2>1, FS_BoundedSetOfNaturals
<1>3. /\ N \in Nat /\ pos \in Seq(cuts) /\ Len(pos) = N /\ DOMAIN pos = 1..N
      /\ \A i \in 1..N : pos[i] \in cuts
      /\ \A i, j \in 1..N : i < j => pos[i] < pos[j]
      /\ \A x \in cuts : \E i \in 1..N : pos[i] = x
  BY <1>1, <1>2, InOrderIs
<1>4. Pieces(s, cuts) = [i \in DOMAIN pos |-> SubSeq(s, pos[i], Stop(pos, i, n))]
  <2>1. Pieces(s, cuts) =
          [i \in DOMAIN pos |-> SubSeq(s, pos[i], (IF i < Len(pos) THEN pos[i + 1] ELSE n + 1) - 1)]
    BY DEF Pieces
  <2>2. \A i \in DOMAIN pos : (IF i < Len(pos) THEN pos[i + 1] ELSE n + 1) - 1 = Stop(pos, i, n)
    <3> HIDE DEF pos
    <3> QED BY <1>1 DEF Stop
  <2> HIDE DEF pos, n
  <2> QED BY <2>1, <2>2
<1> HIDE DEF pos, N, n
<1>5. \A i \in 1..N : pos[i] \in 1..n /\ pos[i] \in Nat
  BY <1>1, <1>3 DEF n
<1>6. N # 0 /\ pos[1] = 1
  <2>1. PICK i \in 1..N : pos[i] = 1
    BY <1>3
  <2>2. N # 0 /\ 1 \in 1..N
    BY <1>3
  <2>3. i # 1 => pos[1] < 1
    BY <1>3, <2>1, <2>2
  <2> QED BY <2>1, <2>2, <2>3, <1>5
<1>7. ASSUME NEW i \in 1..N
      PROVE  Stop(pos, i, n) \in pos[i]..n /\ \A j \in pos[i] + 1..Stop(pos, i, n) : j \notin cuts
  <2>1. Stop(pos, i, n) \in pos[i]..n
    <3>1. CASE i < N
      <4>1. i + 1 \in 1..N
        BY <1>3, <3>1
      <4>2. pos[i] < pos[i + 1] /\ pos[i + 1] \in 1..n
        BY <1>3, <1>5, <4>1
      <4> QED BY <1>1, <1>3, <1>5, <3>1, <4>2 DEF Stop
    <3>2. CASE ~(i < N)
      BY <1>1, <1>3, <1>5, <3>2 DEF Stop
    <3> QED BY <3>1, <3>2
  <2>2. ASSUME NEW j \in pos[i] + 1..Stop(pos, i, n), j \in cuts PROVE FALSE
    <3>1. PICK k \in 1..N : pos[k] = j
      BY <1>3, <2>2
    <3>2. pos[i] < pos[k]
      BY <1>5, <2>1, <3>1
    <3>3. ~(k <= i)
      <4> SUFFICES ASSUME k <= i PROVE FALSE
        OBVIOUS
      <4>1. k = i \/ k < i
        BY <1>3
      <4>2. pos[k] <= pos[i]
        BY <1>3, <1>5, <4>1
      <4> QED BY <1>5, <3>2, <4>2
    <3>4. i < N /\ i + 1 \in 1..N /\ i + 1 <= k
      BY <1>3, <3>3
    <3>5. j <= pos[i + 1] - 1
      BY <1>3, <1>5, <2>1, <3>4 DEF Stop
    <3>6. pos[i + 1] <= pos[k]
      <4>1. i + 1 = k \/ i + 1 < k
        BY <3>4
      <4>2. pos[i + 1] = pos[k] \/ pos[i + 1] < pos[k]
        BY <1>3, <3>4, <4>1
      <4>3. pos[i + 1] \in Nat /\ pos[k] \in Nat
        BY <1>5, <3>4
      <4> QED BY <4>2, <4>3
    <3> QED BY <1>5, <3>1, <3>4, <3>5, <3>6
  <2> QED BY <2>1, <2>2
<1>8. ASSUME NEW k \in 1..n PROVE \E i \in 1..N : k \in pos[i]..Stop(pos, i, n)
  <2> DEFINE T == {i \in 1..N : pos[i] > k}
  <2>1. CASE T = {}
    <3>1. N \in 1..N /\ ~(pos[N] > k)
      BY <1>3, <1>6, <2>1
    <3>2. k \in pos[N]..Stop(pos, N, n)
      BY <1>1, <1>3, <1>5, <3>1 DEF Stop
    <3> QED BY <3>1, <3>2
  <2>2. CASE T # {}
    <3>1. PICK i \in T : \A m \in T : i <= m
      <4>1. T \in SUBSET Nat
        BY <1>3
      <4> HIDE DEF T
      <4> QED BY <2>2, <4>1, Least
    <3>2. i \in 1..N /\ pos[i] > k /\ i # 1
      BY <1>6, <3>1
    <3>3. i - 1 \in 1..N /\ i - 1 \notin T /\ i - 1 < N /\ (i - 1) + 1 = i
      BY <1>3, <3>1, <3>2
    <3>4. pos[i - 1] <= k
      BY <1>5, <3>3
    <3>5. k \in pos[i - 1]..Stop(pos, i - 1, n)
      BY <1>3, <1>5, <3>2, <3>3, <3>4 DEF Stop
    <3> QED BY <3>3, <3>5
  <2> QED BY <2>1, <2>2
<1> QED BY <1>3, <1>4, <1>5, <1>6, <1>7, <1>8 DEF pos, n

(* What Collect makes of a sequence of results. *)
LEMMA CollectIs ==
  ASSUME NEW N \in Nat, NEW rs, DOMAIN rs = 1..N
  PROVE  /\ Failed(Collect(rs)) <=> \E i \in 1..N : Failed(rs[i])
         /\ ~Failed(Collect(rs)) => Collect(rs).val = [i \in 1..N |-> rs[i].val]
<1> DEFINE bad == {i \in DOMAIN rs : Failed(rs[i])}
           c == CHOOSE i \in bad : \A j \in bad : i <= j
<1>1. Collect(rs) = IF bad = {} THEN Ok([i \in DOMAIN rs |-> rs[i].val])
                        ELSE Err(rs[c].err)
  BY DEF Collect
<1>2. CASE bad = {}
  <2>1. \A i \in 1..N : ~Failed(rs[i])
    BY <1>2
  <2> HIDE DEF bad, c
  <2> QED BY <1>1, <1>2, <2>1, OkIs
<1>3. CASE bad # {}
  <2>1. bad \in SUBSET Nat
    OBVIOUS
  <2>2. c \in bad
    <3> HIDE DEF bad
    <3>1. \E i \in bad : \A j \in bad : i <= j
      BY <1>3, <2>1, Least
    <3> QED BY <3>1
  <2>3. c \in 1..N /\ Failed(rs[c])
    <3> HIDE DEF c
    <3> QED BY <2>2
  <2> HIDE DEF bad, c
  <2>4. Failed(Err(rs[c].err))
    BY <2>3, ErrIs DEF Failed, Err
  <2> QED BY <1>1, <1>3, <2>3, <2>4
<1> QED BY <1>2, <1>3

(* The first line that is of other kinds. *)
LEMMA FirstNotIs ==
  ASSUME NEW X, NEW l \in Seq(X), NEW K
  PROVE  FirstNot(l, K) # 0 <=> \E i \in 1..Len(l) : l[i].k \notin K
<1> DEFINE I == {i \in 1..Len(l) : l[i].k \notin K}
<1>1. FirstNot(l, K) = IF I # {} THEN Min(I) ELSE 0
  BY DEF FirstNot, SelectInSeq
<1>2. I # {} => Min(I) \in I
  <2> SUFFICES ASSUME I # {} PROVE Min(I) \in I
    OBVIOUS
  <2>1. I \in SUBSET Nat
    OBVIOUS
  <2> HIDE DEF I
  <2>2. \E i \in I : \A j \in I : i <= j
    BY <2>1, Least
  <2> QED BY <2>2 DEF Min
<1>3. 0 \notin I
  OBVIOUS
<1> QED BY <1>1, <1>2, <1>3

(* There are texts when there are lines of these kinds. *)
LEMMA TextsIs ==
  ASSUME NEW X, NEW l \in Seq(X), NEW K
  PROVE  Texts(l, K) # <<>> <=> \E i \in 1..Len(l) : l[i].k \in K
<1> DEFINE I == {i \in DOMAIN l : l[i].k \in K}
           kept == InOrder(I)
<1>1. Len(l) \in Nat /\ DOMAIN l = 1..Len(l)
  BY LenProperties
<1>2. I \in SUBSET Nat /\ IsFiniteSet(I)
  <2>1. I \in SUBSET Nat /\ \A x \in I : x <= Len(l)
    BY <1>1
  <2> HIDE DEF I
  <2> QED BY <1>1, <2>1, FS_BoundedSetOfNaturals
<1>3. DOMAIN kept = 1..Cardinality(I) /\ Cardinality(I) \in Nat
  <2> HIDE DEF I
  <2> QED BY <1>2, InOrderIs
<1>4. Texts(l, K) = [i \in DOMAIN kept |-> l[kept[i]].v]
  BY DEF Texts
<1>5. Cardinality(I) = 0 <=> I = {}
  <2> HIDE DEF I
  <2> QED BY <1>2, FS_EmptySet
<1>6. Texts(l, K) = <<>> <=> Cardinality(I) = 0
  <2> HIDE DEF kept, I
  <2> QED BY <1>3, <1>4
<1> QED BY <1>1, <1>5, <1>6

(* A line that may not stand where it does is an error. *)
LEMMA TailFails == ASSUME NEW l PROVE Failed(SectionTailError(l))
<1>1. "unsupported_operation" # "none" /\ "invalid_patch" # "none"
  OBVIOUS
<1> QED BY <1>1 DEF Failed, SectionTailError, Err

(* An error is one. *)
LEMMA ErrFails ==
  /\ Failed(Err("invalid_patch")) /\ Failed(Err("invalid_path"))
  /\ Failed(Err("duplicate_path"))
BY DEF Failed, Err

(* The lines after the first one. *)
LEMMA TailIs ==
  ASSUME NEW X, NEW p \in Seq(X), p # <<>>
  PROVE  /\ Len(p) \in Nat /\ Len(p) # 0 /\ Head(p) = p[1]
         /\ Tail(p) \in Seq(X) /\ Len(Tail(p)) = Len(p) - 1
         /\ \A j \in 1..Len(p) - 1 : Tail(p)[j] = p[j + 1]
<1>1. Len(p) \in Nat /\ Len(p) # 0
  BY LenProperties, EmptySeq
<1> QED BY <1>1, HeadTailProperties

(* A hunk as it has to be, and what is made of it. *)
MarkOk(l) == l.k \in {"@@", "@@ "} /\ ~(l.k = "@@ " /\ l.v = Blank)
HunkOk(marker, body) ==
  /\ MarkOk(marker)
  /\ \A j \in 1..Len(body) : body[j].k \in {" ", "-", "+"}
  /\ \E j \in 1..Len(body) : body[j].k \in {" ", "-"}
  /\ \E j \in 1..Len(body) : body[j].k \in {"-", "+"}
HunkOf(marker, body) ==
  [anchor |-> IF marker.k = "@@" THEN NoText ELSE marker.v,
   old |-> Texts(body, {" ", "-"}), new |-> Texts(body, {" ", "+"})]

(* parse_hunk takes exactly such hunks. *)
LEMMA ParseHunkIs ==
  ASSUME NEW X, NEW piece \in Seq(X), piece # <<>>
  PROVE  LET r == ParseHunk(piece)
         IN  /\ ~Failed(r) <=> HunkOk(piece[1], Tail(piece))
             /\ ~Failed(r) => r.val = HunkOf(piece[1], Tail(piece))
<1> DEFINE marker == piece[1]
           body == Tail(piece)
           bad == FirstNot(body, {" ", "-", "+"})
           old == Texts(body, {" ", "-"})
           only == FirstNot(body, {" "})
           r == ParseHunk(piece)
<1>1. body \in Seq(X) /\ Head(piece) = marker
  BY TailIs
<1>2. r = IF marker.k \notin {"@@", "@@ "} \/ (marker.k = "@@ " /\ marker.v = Blank)
          THEN Err("invalid_patch")
          ELSE IF bad # 0 THEN SectionTailError(body[bad])
          ELSE IF old = <<>> \/ only = 0 THEN Err("invalid_patch")
          ELSE Ok(HunkOf(marker, body))
  BY <1>1 DEF ParseHunk, HunkOf
<1>3. bad # 0 <=> \E i \in 1..Len(body) : body[i].k \notin {" ", "-", "+"}
  BY <1>1, FirstNotIs
<1>4. only # 0 <=> \E i \in 1..Len(body) : body[i].k \notin {" "}
  BY <1>1, FirstNotIs
<1>5. old # <<>> <=> \E i \in 1..Len(body) : body[i].k \in {" ", "-"}
  BY <1>1, TextsIs
<1> HIDE DEF bad, old, only, r, body, marker
<1>6. bad = 0 => (only # 0 <=> \E i \in 1..Len(body) : body[i].k \in {"-", "+"})
  BY <1>3, <1>4
<1>7. HunkOk(marker, body) <=> MarkOk(marker) /\ bad = 0 /\ old # <<>> /\ only # 0
  BY <1>3, <1>5, <1>6 DEF HunkOk
<1>8. CASE HunkOk(marker, body)
  <2>1. r = Ok(HunkOf(marker, body))
    BY <1>2, <1>7, <1>8 DEF MarkOk
  <2> QED BY <1>8, <2>1, OkIs DEF r, body, marker
<1>9. CASE ~HunkOk(marker, body)
  <2>1. r = Err("invalid_patch") \/ \E l : r = SectionTailError(l)
    BY <1>2, <1>7, <1>9 DEF MarkOk
  <2> QED BY <1>9, <2>1, TailFails, ErrFails DEF r, body, marker
<1> QED BY <1>8, <1>9

(* The markers of an update, and the lines of each of its hunks. *)
Marks(b) == {i \in DOMAIN b : b[i].k \in Markers}
HunkLines(b, i) ==
  Tail(SubSeq(b, InOrder(Marks(b))[i], Stop(InOrder(Marks(b)), i, Len(b))))
UpdateOk(b) ==
  /\ b # <<>> /\ b[1].k \in Markers
  /\ \A i \in 1..Len(InOrder(Marks(b))) : HunkOk(b[InOrder(Marks(b))[i]], HunkLines(b, i))
HunksOf(b) ==
  [i \in 1..Len(InOrder(Marks(b))) |-> HunkOf(b[InOrder(Marks(b))[i]], HunkLines(b, i))]

(* parse_update takes exactly such updates. *)
LEMMA ParseUpdateIs ==
  ASSUME NEW X, NEW b \in Seq(X)
  PROVE  LET r == ParseUpdate(b)
         IN  /\ ~Failed(r) <=> UpdateOk(b)
             /\ ~Failed(r) => r.val = [op |-> "update", hunks |-> HunksOf(b)]
<1> DEFINE r == ParseUpdate(b)
           pos == InOrder(Marks(b))
           N == Len(pos)
           pieces == Pieces(b, Marks(b))
           rs == [i \in DOMAIN pieces |-> ParseHunk(pieces[i])]
           hunks == Collect(rs)
<1>1. CASE b = <<>> \/ b[1].k \notin Markers
  <2>1. r = Err("invalid_patch") \/ r = SectionTailError(b[1])
    BY <1>1 DEF ParseUpdate
  <2> HIDE DEF r
  <2>2. Failed(r) /\ ~UpdateOk(b)
    BY <1>1, <2>1, ErrFails, TailFails DEF UpdateOk
  <2> QED BY <2>2 DEF r
<1>2. CASE b # <<>> /\ b[1].k \in Markers
  <2>1. r = IF Failed(hunks) THEN hunks ELSE Ok([op |-> "update", hunks |-> hunks.val])
    BY <1>2 DEF ParseUpdate, Marks
  <2>2. Len(b) \in Nat /\ Len(b) # 0 /\ DOMAIN b = 1..Len(b)
    BY <1>2, LenProperties, EmptySeq
  <2>3. Marks(b) \in SUBSET (1..Len(b)) /\ 1 \in Marks(b)
    BY <1>2, <2>2 DEF Marks
  <2>4. /\ N \in Nat
        /\ \A i \in 1..N : pos[i] \in 1..Len(b) /\ Stop(pos, i, Len(b)) \in pos[i]..Len(b)
        /\ pieces = [i \in 1..N |-> SubSeq(b, pos[i], Stop(pos, i, Len(b)))]
    BY <2>3, PiecesIs
  <2> HIDE DEF pos, pieces, hunks, r
  <2>5. DOMAIN rs = 1..N /\ \A i \in 1..N : rs[i] = ParseHunk(pieces[i])
    BY <2>4
  <2> HIDE DEF rs, N
  <2>6. ASSUME NEW i \in 1..N
        PROVE  /\ ~Failed(rs[i]) <=> HunkOk(b[pos[i]], HunkLines(b, i))
               /\ ~Failed(rs[i]) => rs[i].val = HunkOf(b[pos[i]], HunkLines(b, i))
    <3> DEFINE p == SubSeq(b, pos[i], Stop(pos, i, Len(b)))
    <3>1. pos[i] \in 1..Len(b) + 1 /\ Stop(pos, i, Len(b)) \in pos[i] - 1..Len(b)
          /\ Stop(pos, i, Len(b)) - pos[i] + 1 >= 1
      BY <2>2, <2>4
    <3>2. p \in Seq(X) /\ Len(p) = Stop(pos, i, Len(b)) - pos[i] + 1 /\ p[1] = b[pos[i] + 1 - 1]
      BY <2>2, <3>1, SubSeqIs
    <3>3. p[1] = b[pos[i]] /\ p # <<>>
      <4>1. pos[i] \in Nat /\ pos[i] + 1 - 1 = pos[i]
        BY <2>2, <2>4
      <4> HIDE DEF p
      <4>2. Len(p) # 0
        BY <3>1, <3>2
      <4> QED BY <3>2, <4>1, <4>2, EmptySeq
    <3>4. p = pieces[i] /\ HunkLines(b, i) = Tail(p)
      BY <2>4 DEF HunkLines, pos
    <3> HIDE DEF p
    <3> QED BY <2>5, <3>2, <3>3, <3>4, ParseHunkIs
  <2>7. /\ Failed(hunks) <=> \E i \in 1..N : Failed(rs[i])
        /\ ~Failed(hunks) => hunks.val = [i \in 1..N |-> rs[i].val]
    BY <2>4, <2>5, CollectIs DEF hunks
  <2>8. ~Failed(hunks) <=> UpdateOk(b)
    BY <1>2, <2>6, <2>7 DEF UpdateOk, N, pos
  <2>9. ~Failed(hunks) => hunks.val = HunksOf(b)
    <3> SUFFICES ASSUME ~Failed(hunks) PROVE hunks.val = HunksOf(b)
      OBVIOUS
    <3>1. hunks.val = [i \in 1..N |-> rs[i].val] /\ \A i \in 1..N : ~Failed(rs[i])
      BY <2>7
    <3>2. \A i \in 1..N : rs[i].val = HunkOf(b[pos[i]], HunkLines(b, i))
      BY <2>6, <3>1
    <3>3. HunksOf(b) = [i \in 1..N |-> HunkOf(b[pos[i]], HunkLines(b, i))]
      BY DEF HunksOf, N, pos
    <3> QED BY <3>1, <3>2, <3>3
  <2>10. /\ ~Failed(r) <=> ~Failed(hunks)
         /\ ~Failed(hunks) => r.val = [op |-> "update", hunks |-> hunks.val]
    BY <2>1, OkIs
  <2> QED BY <2>8, <2>9, <2>10 DEF r
<1> QED BY <1>1, <1>2

SectionOk(header, body) ==
  /\ ValidatePath(header.v)
  /\ \/ header.k = "add" /\ \A j \in 1..Len(body) : body[j].k = "+"
     \/ header.k = "update" /\ UpdateOk(body)
     \/ header.k = "delete" /\ body = <<>>
SectionOf(header, body, v) ==
  /\ v.path = header.v /\ v.operation.op = header.k
  /\ header.k = "add" =>
       v.operation.content = [lines |-> Texts(body, {"+"}), nl |-> body # <<>>]
  /\ header.k = "update" => v.operation.hunks = HunksOf(body)

(* One section takes exactly what its header asks for. *)
LEMMA ParseSectionIs ==
  ASSUME NEW X, NEW section \in Seq(X), section # <<>>
  PROVE  LET r == ParseSection(section)
         IN  /\ ~Failed(r) <=> SectionOk(section[1], Tail(section))
             /\ ~Failed(r) => SectionOf(section[1], Tail(section), r.val)
<1> DEFINE header == section[1]
           body == Tail(section)
           bad == FirstNot(body, {"+"})
           operation == CASE header.k = "add" -> ParseAdd(body)
                          [] header.k = "update" -> ParseUpdate(body)
                          [] header.k = "delete" -> IF body = <<>> THEN Ok([op |-> "delete"])
                                                    ELSE SectionTailError(body[1])
                          [] OTHER -> SectionTailError(header)
           r == ParseSection(section)
<1>1. body \in Seq(X) /\ Head(section) = header
  BY TailIs
<1>2. r = IF Failed(operation) THEN operation
          ELSE IF ~ValidatePath(header.v) THEN Err("invalid_path")
          ELSE Ok([path |-> header.v, operation |-> operation.val])
  BY <1>1 DEF ParseSection
<1> DEFINE Good == \/ header.k = "add" /\ \A j \in 1..Len(body) : body[j].k = "+"
                   \/ header.k = "update" /\ UpdateOk(body)
                   \/ header.k = "delete" /\ body = <<>>
           Is(o) == /\ o.op = header.k
                    /\ header.k = "add" =>
                         o.content = [lines |-> Texts(body, {"+"}), nl |-> body # <<>>]
                    /\ header.k = "update" => o.hunks = HunksOf(body)
<1>3. (~Failed(operation) <=> Good) /\ (~Failed(operation) => Is(operation.val))
  <2> HIDE DEF header, body, bad, r
  <2>1. CASE header.k = "add"
    <3>1. bad # 0 <=> \E j \in 1..Len(body) : body[j].k \notin {"+"}
      BY <1>1, FirstNotIs DEF bad
    <3>2. operation = ParseAdd(body) /\ header.k # "update" /\ header.k # "delete"
      BY <2>1
    <3>3. ParseAdd(body) =
            IF bad # 0 THEN SectionTailError(body[bad])
            ELSE Ok([op |-> "add", content |-> [lines |-> Texts(body, {"+"}),
                                                    nl |-> body # <<>>]])
      BY DEF ParseAdd, bad
    <3> HIDE DEF operation
    <3> QED BY <2>1, <3>1, <3>2, <3>3, OkIs, TailFails
  <2>2. CASE header.k = "update"
    <3>1. operation = ParseUpdate(body) /\ header.k # "add" /\ header.k # "delete"
      BY <2>2
    <3> HIDE DEF operation
    <3>2. /\ ~Failed(operation) <=> UpdateOk(body)
          /\ ~Failed(operation) => operation.val = [op |-> "update", hunks |-> HunksOf(body)]
      BY <1>1, <3>1, ParseUpdateIs
    <3> QED BY <2>2, <3>1, <3>2
  <2>3. CASE header.k = "delete"
    <3>1. /\ operation = IF body = <<>> THEN Ok([op |-> "delete"])
                         ELSE SectionTailError(body[1])
          /\ header.k # "add" /\ header.k # "update"
      BY <2>3
    <3> HIDE DEF operation
    <3> QED BY <2>3, <3>1, OkIs, TailFails
  <2>4. CASE header.k \notin {"add", "update", "delete"}
    <3>1. operation = SectionTailError(header)
      BY <2>4
    <3> HIDE DEF operation
    <3> QED BY <2>4, <3>1, TailFails
  <2> QED BY <2>1, <2>2, <2>3, <2>4
<1>4. SectionOk(header, body) <=> ValidatePath(header.v) /\ Good
  BY DEF SectionOk
<1>5. ASSUME NEW v, v.path = header.v, Is(v.operation) PROVE SectionOf(header, body, v)
  <2> HIDE DEF header, body
  <2> QED BY <1>5 DEF SectionOf
<1> HIDE DEF operation, Good, Is, r, header, body
<1>6. CASE Failed(operation)
  BY <1>2, <1>3, <1>4, <1>6 DEF r, header, body
<1>7. CASE ~Failed(operation) /\ ~ValidatePath(header.v)
  BY <1>2, <1>4, <1>7, ErrFails DEF r, header, body
<1>8. CASE ~Failed(operation) /\ ValidatePath(header.v)
  <2>1. ~Failed(r) /\ r.val = [path |-> header.v, operation |-> operation.val]
    BY <1>2, <1>8, OkIs
  <2>2. SectionOf(header, body, r.val)
    BY <1>3, <1>5, <1>8, <2>1
  <2> QED BY <1>3, <1>4, <1>8, <2>1, <2>2 DEF r, header, body
<1> QED BY <1>6, <1>7, <1>8

(* The part of a part, without its first line. *)
PartIs(X, l, a, b, i, j) ==
  LET p == SubSeq(SubSeq(l, a, b), i, j)
  IN  /\ p \in Seq(X) /\ p # <<>> /\ p[1] = l[a + i - 1]
      /\ Tail(p) = SubSeq(l, a + i, a + j - 1)

(* It is a part of the whole. *)
LEMMA PartOfPart ==
  ASSUME NEW X, NEW l \in Seq(X), NEW a \in 1..Len(l), NEW b \in a..Len(l),
         NEW i \in 1..b - a + 1, NEW j \in i..b - a + 1
  PROVE  PartIs(X, l, a, b, i, j)
<1> DEFINE w == SubSeq(l, a, b)
           p == SubSeq(w, i, j)
           t == SubSeq(l, a + i, a + j - 1)
<1>1. Len(l) \in Nat /\ a \in Nat /\ b \in Nat /\ i \in Nat /\ j \in Nat
  BY LenProperties
<1>2. w \in Seq(X) /\ Len(w) = b - a + 1 /\ \A k \in 1..b - a + 1 : w[k] = l[a + k - 1]
  <2>1. a \in 1..Len(l) + 1 /\ b \in a - 1..Len(l)
    BY <1>1
  <2> QED BY <2>1, SubSeqIs
<1> HIDE DEF w
<1>3. p \in Seq(X) /\ Len(p) = j - i + 1 /\ \A k \in 1..j - i + 1 : p[k] = w[i + k - 1]
  <2>1. i \in 1..Len(w) + 1 /\ j \in i - 1..Len(w)
    BY <1>1, <1>2
  <2> QED BY <1>2, <2>1, SubSeqIs
<1>4. t \in Seq(X) /\ Len(t) = j - i /\ \A k \in 1..j - i : t[k] = l[a + i + k - 1]
  <2>1. a + i \in 1..Len(l) + 1 /\ a + j - 1 \in (a + i) - 1..Len(l)
    BY <1>1
  <2>2. (a + j - 1) - (a + i) + 1 = j - i
    BY <1>1
  <2> QED BY <2>1, <2>2, SubSeqIs
<1> HIDE DEF p, t
<1>5. \A k \in 1..j - i + 1 : p[k] = l[a + i + k - 2]
  <2> SUFFICES ASSUME NEW k \in 1..j - i + 1 PROVE p[k] = l[a + i + k - 2]
    OBVIOUS
  <2>1. i + k - 1 \in 1..b - a + 1 /\ a + (i + k - 1) - 1 = a + i + k - 2
    BY <1>1
  <2> QED BY <1>2, <1>3, <2>1
<1>6. p # <<>> /\ p[1] = l[a + i - 1]
  <2>1. Len(p) # 0 /\ 1 \in 1..j - i + 1 /\ a + i + 1 - 2 = a + i - 1
    BY <1>1, <1>3
  <2>2. p # <<>>
    BY <2>1, EmptySeq
  <2>3. p[1] = l[a + i + 1 - 2]
    BY <1>5, <2>1
  <2> QED BY <2>1, <2>2, <2>3
<1>7. Tail(p) = t
  <2>1. /\ Tail(p) \in Seq(X) /\ Len(Tail(p)) = j - i
        /\ \A k \in 1..j - i : Tail(p)[k] = p[k + 1]
    BY <1>1, <1>3, <1>6, TailIs
  <2>2. ASSUME NEW k \in 1..j - i PROVE Tail(p)[k] = t[k]
    <3>1. k + 1 \in 1..j - i + 1 /\ a + i + (k + 1) - 2 = a + i + k - 1
      BY <1>1
    <3> QED BY <1>4, <1>5, <2>1, <3>1
  <2> QED BY <1>4, <2>1, <2>2, SeqEqual
<1> QED BY <1>3, <1>6, <1>7 DEF p, t, w, PartIs

(* A patch in its envelope falls into sections: the n-th has its first line *)
(* at h[n] and its last one at e[n].                                       *)
Enveloped(lines) ==
  lines[1].k = "begin" /\ lines[Len(lines)].k = "end" /\ Len(lines) >= 3

Sectioned(lines, N, h, e) ==
  /\ N \in Nat /\ h \in [1..N -> 2..Len(lines) - 1] /\ e \in [1..N -> 2..Len(lines) - 1]
  /\ 1 \in 1..N /\ h[1] = 2 /\ \A i \in 1..N : i # 1 => IsHeader(lines[h[i]])
  /\ \A i, j \in 1..N : i < j => h[i] < h[j]
  /\ \A i \in 1..N : h[i] <= e[i]
  /\ \A i \in 1..N : \A j \in h[i] + 1..e[i] : ~IsHeader(lines[j])
  /\ \A i \in 1..N : e[i] = Len(lines) - 1 \/ IsHeader(lines[e[i] + 1])
  /\ \A k \in 2..Len(lines) - 1 : \E i \in 1..N : k \in h[i]..e[i]
  /\ \A k \in 2..Len(lines) - 1 : IsHeader(lines[k]) => \E i \in 1..N : h[i] = k

BodyOf(lines, h, e, i) == SubSeq(lines, h[i] + 1, e[i])

SectionsOk(lines, N, h, e) ==
  /\ \A i \in 1..N : SectionOk(lines[h[i]], BodyOf(lines, h, e, i))
  /\ \A i \in 1..N : \A j \in 1..i - 1 : lines[h[j]].v # lines[h[i]].v
SectionsOf(lines, N, h, e, val) ==
  /\ DOMAIN val = 1..N /\ Len(val) = N
  /\ \A i \in 1..N : SectionOf(lines[h[i]], BodyOf(lines, h, e, i), val[i])

(* parse_patch takes a patch whose sections are in order. *)
LEMMA ParsePatchIs ==
  ASSUME NEW X, NEW lines \in Seq(X), Enveloped(lines)
  PROVE  \E N, h, e :
           /\ Sectioned(lines, N, h, e)
           /\ ~Failed(ParsePatch(lines)) <=> SectionsOk(lines, N, h, e)
           /\ ~Failed(ParsePatch(lines)) =>
                SectionsOf(lines, N, h, e, ParsePatch(lines).val)
<1> DEFINE L == Len(lines)
           inner == SubSeq(lines, 2, L - 1)
           cuts == {1} \cup {i \in DOMAIN inner : IsHeader(inner[i])}
           pos == InOrder(cuts)
           N == Len(pos)
           sections == Pieces(inner, cuts)
           parsed == [i \in DOMAIN sections |-> ParseSection(sections[i])]
           Repeats(i) == \E j \in 1..i - 1 : /\ ~Failed(parsed[j])
                                             /\ parsed[j].val.path = parsed[i].val.path
           rs == [i \in DOMAIN parsed |->
                    IF ~Failed(parsed[i]) /\ Repeats(i) THEN Err("duplicate_path")
                    ELSE parsed[i]]
           h == [i \in 1..N |-> pos[i] + 1]
           e == [i \in 1..N |-> Stop(pos, i, L - 2) + 1]
           r == ParsePatch(lines)
<1>1. L \in Nat /\ L >= 3
  BY LenProperties DEF Enveloped
<1>2. r = Collect(rs)
  <2> DEFINE wrong == lines[1].k # "begin" \/ lines[Len(lines)].k # "end" \/ Len(lines) < 3
             c == Collect(rs)
  <2>1. r = IF wrong THEN Err("invalid_patch") ELSE c
    BY DEF ParsePatch, Last
  <2>2. ~wrong
    BY <1>1 DEF Enveloped
  <2> HIDE DEF r, wrong, c
  <2>3. r = c
    BY <2>1, <2>2
  <2> QED BY <2>3 DEF c
<1>3. inner \in Seq(X) /\ Len(inner) = L - 2 /\ \A i \in 1..L - 2 : inner[i] = lines[i + 1]
  <2>1. 2 \in 1..L + 1 /\ L - 1 \in 2 - 1..L /\ (L - 1) - 2 + 1 = L - 2
    BY <1>1
  <2>2. \A i \in 1..L - 2 : 2 + i - 1 = i + 1
    BY <1>1
  <2> QED BY <2>1, <2>2, SubSeqIs
<1> HIDE DEF inner
<1>4. DOMAIN inner = 1..L - 2 /\ 1 \in 1..L - 2
  BY <1>1, <1>3, LenProperties
<1> HIDE DEF L
<1>5. cuts \in SUBSET (1..Len(inner)) /\ 1 \in cuts
  BY <1>3, <1>4
<1>6. /\ N \in Nat /\ N # 0 /\ pos[1] = 1
      /\ \A i \in 1..N :
           /\ pos[i] \in cuts /\ pos[i] \in 1..L - 2 /\ Stop(pos, i, L - 2) \in pos[i]..L - 2
           /\ \A j \in pos[i] + 1..Stop(pos, i, L - 2) : j \notin cuts
      /\ \A k \in 1..L - 2 : \E i \in 1..N : k \in pos[i]..Stop(pos, i, L - 2)
      /\ \A i, j \in 1..N : i < j => pos[i] < pos[j]
      /\ \A x \in cuts : \E i \in 1..N : pos[i] = x
      /\ sections = [i \in 1..N |-> SubSeq(inner, pos[i], Stop(pos, i, L - 2))]
  <2> HIDE DEF cuts
  <2>1. /\ pos \in Seq(cuts) /\ N \in Nat /\ N # 0 /\ pos[1] = 1
        /\ \A i \in 1..N :
             /\ pos[i] \in cuts /\ pos[i] \in 1..Len(inner)
             /\ Stop(pos, i, Len(inner)) \in pos[i]..Len(inner)
             /\ \A j \in pos[i] + 1..Stop(pos, i, Len(inner)) : j \notin cuts
        /\ \A k \in 1..Len(inner) : \E i \in 1..N : k \in pos[i]..Stop(pos, i, Len(inner))
        /\ \A i, j \in 1..N : i < j => pos[i] < pos[j]
        /\ \A x \in cuts : \E i \in 1..N : pos[i] = x
        /\ sections = [i \in 1..N |-> SubSeq(inner, pos[i], Stop(pos, i, Len(inner)))]
    BY <1>3, <1>5, PiecesIs
  <2>2. Len(inner) = L - 2
    BY <1>3
  <2> HIDE DEF pos, N, sections
  <2> QED BY <2>1, <2>2
<1> DEFINE S(i) == Stop(pos, i, L - 2)
<1>61. N \in Nat /\ 1 \in 1..N /\ pos[1] = 1
  <2> HIDE DEF pos, N, sections, S
  <2> QED BY <1>6
<1>62. \A i \in 1..N : /\ pos[i] \in Nat /\ S(i) \in Nat /\ pos[i] \in cuts
                       /\ 1 <= pos[i] /\ pos[i] <= S(i) /\ S(i) <= L - 2
  <2> HIDE DEF pos, N, sections, cuts
  <2>1. ASSUME NEW i \in 1..N PROVE pos[i] \in cuts /\ pos[i] \in 1..L - 2 /\ S(i) \in pos[i]..L - 2
    BY <1>6
  <2> HIDE DEF S
  <2> QED BY <1>1, <2>1
<1>63. \A i \in 1..N : \A j \in pos[i] + 1..S(i) : j \notin cuts
  BY <1>6
<1>64. \A k \in 1..L - 2 : \E i \in 1..N : k \in pos[i]..S(i)
  BY <1>6
<1>65. (\A i, j \in 1..N : i < j => pos[i] < pos[j]) /\ \A x \in cuts : \E i \in 1..N : pos[i] = x
  BY <1>6
<1>66. sections = [i \in 1..N |-> SubSeq(inner, pos[i], S(i))]
  BY <1>6
<1>7. \A k \in 2..L - 1 : k - 1 \in 1..L - 2 /\ inner[k - 1] = lines[k]
  BY <1>1, <1>3
<1>8. \A k \in 2..L - 1 : k - 1 \in cuts <=> k = 2 \/ IsHeader(lines[k])
  <2>1. \A k \in 2..L - 1 : k - 1 = 1 <=> k = 2
    BY <1>1
  <2> QED BY <1>4, <1>7, <2>1
<1>9. parsed = [i \in 1..N |-> ParseSection(sections[i])]
  <2> HIDE DEF sections, N
  <2> QED BY <1>66
<1> HIDE DEF cuts, pos, N, sections, r, parsed, S
<1>90. \A i \in 1..N : h[i] = pos[i] + 1 /\ e[i] = S(i) + 1
  BY DEF S
<1>91. h \in [1..N -> 2..L - 1] /\ e \in [1..N -> 2..L - 1]
  <2>1. \A i \in 1..N : pos[i] + 1 \in 2..L - 1 /\ S(i) + 1 \in 2..L - 1
    BY <1>1, <1>62
  <2> QED BY <2>1 DEF S
<1> HIDE DEF h, e
<1>10. Sectioned(lines, N, h, e)
  <2>3. h[1] = 2
    BY <1>61, <1>90
  <2>30. ASSUME NEW i \in 1..N, i # 1 PROVE IsHeader(lines[h[i]])
    <3>1. pos[i] \in cuts /\ pos[1] < pos[i] /\ pos[i] \in Nat
      BY <1>61, <1>62, <1>65, <2>30
    <3>2. h[i] \in 2..L - 1 /\ h[i] - 1 = pos[i] /\ h[i] # 2
      <4>1. h[i] \in 2..L - 1
        BY <1>91
      <4>2. h[i] = pos[i] + 1
        BY <1>90
      <4> QED BY <1>61, <3>1, <4>1, <4>2
    <3> QED BY <1>8, <3>1, <3>2
  <2>4. \A i, j \in 1..N : i < j => h[i] < h[j]
    <3> SUFFICES ASSUME NEW i \in 1..N, NEW j \in 1..N, i < j PROVE h[i] < h[j]
      OBVIOUS
    <3>1. pos[i] < pos[j] /\ pos[i] \in Nat /\ pos[j] \in Nat
      BY <1>62, <1>65
    <3> QED BY <1>90, <3>1
  <2>5. \A i \in 1..N : h[i] <= e[i]
    BY <1>62, <1>90
  <2>6. ASSUME NEW i \in 1..N, NEW j \in h[i] + 1..e[i] PROVE ~IsHeader(lines[j])
    <3>1. j \in 2..L - 1 /\ j - 1 \in pos[i] + 1..S(i)
      BY <1>1, <1>62, <1>90
    <3> QED BY <1>63, <1>8, <3>1
  <2>7. ASSUME NEW i \in 1..N, e[i] # L - 1 PROVE IsHeader(lines[e[i] + 1])
    <3>1. S(i) # L - 2
      BY <1>1, <1>90, <2>7
    <3>2. i < N /\ S(i) = pos[i + 1] - 1 /\ i + 1 \in 1..N
      BY <1>61, <3>1 DEF Stop, N, S
    <3>3. pos[i + 1] \in cuts /\ pos[i + 1] \in Nat /\ pos[i] < pos[i + 1] /\ pos[i + 1] <= L - 2
      <4>1. pos[i + 1] <= S(i + 1) /\ S(i + 1) <= L - 2 /\ S(i + 1) \in Nat /\ pos[i + 1] \in cuts
            /\ pos[i + 1] \in Nat
        BY <1>62, <3>2
      <4>2. pos[i] < pos[i + 1]
        BY <1>65, <3>2
      <4> QED BY <1>1, <4>1, <4>2
    <3>4. e[i] + 1 \in 2..L - 1 /\ (e[i] + 1) - 1 = pos[i + 1] /\ e[i] + 1 # 2
      <4>1. e[i] = S(i) + 1 /\ pos[i] \in Nat /\ 1 <= pos[i]
        BY <1>62, <1>90
      <4> QED BY <1>1, <3>2, <3>3, <4>1
    <3> QED BY <1>8, <3>3, <3>4
  <2>8. ASSUME NEW k \in 2..L - 1 PROVE \E i \in 1..N : k \in h[i]..e[i]
    <3>1. PICK i \in 1..N : k - 1 \in pos[i]..S(i)
      BY <1>64, <1>7
    <3>2. k \in h[i]..e[i]
      BY <1>62, <1>90, <3>1
    <3> QED BY <3>2
  <2>9. ASSUME NEW k \in 2..L - 1, IsHeader(lines[k]) PROVE \E i \in 1..N : h[i] = k
    <3>1. PICK i \in 1..N : pos[i] = k - 1
      BY <1>65, <1>8, <2>9
    <3>2. h[i] = k
      BY <1>90, <3>1
    <3> QED BY <3>2
  <2> QED BY <1>61, <1>91, <2>3, <2>30, <2>4, <2>5, <2>6, <2>7, <2>8, <2>9 DEF Sectioned, L
<1>11. ASSUME NEW i \in 1..N
       PROVE  /\ ~Failed(parsed[i]) <=> SectionOk(lines[h[i]], BodyOf(lines, h, e, i))
              /\ ~Failed(parsed[i]) =>
                   SectionOf(lines[h[i]], BodyOf(lines, h, e, i), parsed[i].val)
  <2> DEFINE a == pos[i]
             z == S(i)
  <2>1. sections[i] = SubSeq(inner, a, z) /\ parsed[i] = ParseSection(sections[i])
    BY <1>66, <1>9
  <2>2. h[i] = a + 1 /\ e[i] = z + 1
    BY <1>90
  <2>3. a \in Nat /\ z \in Nat /\ 1 <= a /\ a <= z /\ z <= L - 2
    BY <1>62
  <2> DEFINE b == L - 1
             p == SubSeq(SubSeq(lines, 2, b), a, z)
  <2> HIDE DEF a, z
  <2>4. /\ 2 \in 1..Len(lines) /\ b \in 2..Len(lines) /\ a \in 1..b - 2 + 1 /\ z \in a..b - 2 + 1
        /\ 2 + a - 1 = a + 1 /\ 2 + a = (a + 1) + 1 /\ 2 + z - 1 = z + 1
    BY <1>1, <2>3 DEF L
  <2> HIDE DEF b
  <2>5. /\ p \in Seq(X) /\ p # <<>> /\ p[1] = lines[2 + a - 1]
        /\ Tail(p) = SubSeq(lines, 2 + a, 2 + z - 1)
    <3>1. PartIs(X, lines, 2, b, a, z)
      BY <2>4, PartOfPart
    <3> QED BY <3>1 DEF PartIs
  <2>6. sections[i] = p
    BY <2>1 DEF inner, b
  <2> HIDE DEF p
  <2>7. p[1] = lines[h[i]] /\ Tail(p) = BodyOf(lines, h, e, i)
    BY <2>2, <2>4, <2>5 DEF BodyOf
  <2> QED BY <2>1, <2>5, <2>6, <2>7, ParseSectionIs
<1>12. DOMAIN rs = 1..N /\ \A i \in 1..N :
         rs[i] = IF ~Failed(parsed[i]) /\ Repeats(i) THEN Err("duplicate_path")
                 ELSE parsed[i]
  <2>1. DOMAIN parsed = 1..N
    BY <1>9
  <2> HIDE DEF Repeats
  <2> QED BY <2>1
<1> HIDE DEF rs
<1>13. /\ Failed(r) <=> \E i \in 1..N : Failed(rs[i])
       /\ ~Failed(r) => r.val = [i \in 1..N |-> rs[i].val]
  BY <1>2, <1>61, <1>12, CollectIs
<1>14. ASSUME \A i \in 1..N : ~Failed(parsed[i])
       PROVE  \A i \in 1..N : Repeats(i) <=> \E j \in 1..i - 1 : lines[h[j]].v = lines[h[i]].v
  <2>1. \A i \in 1..N : parsed[i].val.path = lines[h[i]].v
    BY <1>11, <1>14 DEF SectionOf
  <2>2. \A i \in 1..N : \A j \in 1..i - 1 : j \in 1..N
    BY <1>61
  <2> QED BY <1>14, <2>1, <2>2
<1> HIDE DEF Repeats
<1>15. ~Failed(r) <=> SectionsOk(lines, N, h, e)
  <2>1. ASSUME ~Failed(r) PROVE SectionsOk(lines, N, h, e)
    <3>1. \A i \in 1..N : ~Failed(parsed[i]) /\ ~Repeats(i)
      BY <1>12, <1>13, <2>1, ErrFails
    <3> QED BY <1>11, <1>14, <3>1 DEF SectionsOk
  <2>2. ASSUME SectionsOk(lines, N, h, e) PROVE ~Failed(r)
    <3>1. \A i \in 1..N : ~Failed(parsed[i])
      BY <1>11, <2>2 DEF SectionsOk
    <3>2. \A i \in 1..N : ~Repeats(i)
      BY <1>14, <2>2, <3>1 DEF SectionsOk
    <3> QED BY <1>12, <1>13, <3>1, <3>2
  <2> QED BY <2>1, <2>2
<1>16. ASSUME ~Failed(r) PROVE SectionsOf(lines, N, h, e, r.val)
  <2>1. \A i \in 1..N : rs[i] = parsed[i] /\ ~Failed(parsed[i])
    BY <1>12, <1>13, <1>16, ErrFails
  <2>2. r.val = [i \in 1..N |-> parsed[i].val]
    BY <1>13, <1>16, <2>1
  <2>3. DOMAIN r.val = 1..N /\ Len(r.val) = N /\ \A i \in 1..N : r.val[i] = parsed[i].val
    <3>1. r.val \in [1..N -> {parsed[i].val : i \in 1..N}]
      BY <2>2
    <3> QED BY <1>61, <2>2, <3>1
  <2> QED BY <1>11, <2>1, <2>3 DEF SectionsOf
<1> QED BY <1>10, <1>15, <1>16 DEF r

(* How the lines are told apart. *)
IsMark(l) == l.k \in Markers
Opens(l) == l.k \in {"@@", "@@ "}
Inside(l) == l.k \in {" ", "-", "+"}
Old(l) == l.k \in {" ", "-"}
Changes(l) == l.k \in {"-", "+"}
Added(l) == l.k = "+"
HM == Heads \cup Markers

(* The kinds of lines exclude each other. *)
LEMMA KindsIs ==
  ASSUME NEW l
  PROVE  /\ Inside(l) => ~IsMark(l) /\ ~IsHeader(l)
         /\ Opens(l) => IsMark(l)
         /\ IsMark(l) => ~IsHeader(l)
         /\ Old(l) \/ Changes(l) \/ Added(l) => Inside(l)
         /\ MarkOk(l) => Opens(l)
         /\ l.k \in Heads <=> IsHeader(l)
         /\ l.k \in HM <=> IsHeader(l) \/ IsMark(l)
         /\ l.k \in {"begin", "end"} => ~Inside(l) /\ ~IsMark(l) /\ ~IsHeader(l)
<1>1. Inside(l) => ~IsMark(l) /\ ~IsHeader(l)
  BY DEF Inside, IsMark, Markers, IsHeader
<1>2. Opens(l) => IsMark(l)
  BY DEF Opens, IsMark, Markers
<1>3. IsMark(l) => ~IsHeader(l)
  BY DEF IsMark, Markers, IsHeader
<1>4. Old(l) \/ Changes(l) \/ Added(l) => Inside(l)
  BY DEF Old, Changes, Added, Inside
<1>5. MarkOk(l) => Opens(l)
  BY DEF MarkOk, Opens
<1>6. l.k \in Heads <=> IsHeader(l)
  BY DEF Heads, IsHeader
<1>7. l.k \in HM <=> IsHeader(l) \/ IsMark(l)
  BY <1>6 DEF HM, IsMark
<1>8. l.k \in {"begin", "end"} => ~Inside(l) /\ ~IsMark(l) /\ ~IsHeader(l)
  BY DEF Inside, IsMark, Markers, IsHeader
<1> QED BY <1>1, <1>2, <1>3, <1>4, <1>5, <1>6, <1>7, <1>8

(* The lines from one place to the next that stops them. *)
LEMMA RunIs ==
  ASSUME NEW lines, Len(lines) \in Nat, NEW K, NEW i \in Nat, NEW e \in Nat, i <= e,
         e <= Len(lines) - 1, \A j \in i + 1..e : lines[j].k \notin K,
         e = Len(lines) - 1 \/ lines[e + 1].k \in K
  PROVE  Run(lines, i, K) = i + 1..e
<1> DEFINE R == {j \in i + 1..Len(lines) - 1 : \A m \in i + 1..j : lines[m].k \notin K}
<1>1. Run(lines, i, K) = R
  BY DEF Run
<1>2. ASSUME NEW j \in R PROVE j \in i + 1..e
  <2> SUFFICES ASSUME ~(j <= e) PROVE FALSE
    OBVIOUS
  <2>1. e # Len(lines) - 1 /\ e + 1 \in i + 1..j
    OBVIOUS
  <2> QED BY <2>1
<1>3. ASSUME NEW j \in i + 1..e PROVE j \in R
  <2>1. j \in i + 1..Len(lines) - 1 /\ \A m \in i + 1..j : m \in i + 1..e
    OBVIOUS
  <2> QED BY <2>1
<1> HIDE DEF R
<1> QED BY <1>1, <1>2, <1>3

(* The lines of a run, in order. *)
LEMMA BelowIs ==
  ASSUME NEW X, NEW lines \in Seq(X), NEW i \in Nat, NEW e \in Nat, i <= e,
         e <= Len(lines) - 1, Run(lines, i, HM) = i + 1..e
  PROVE  Below(lines, i) = SubSeq(lines, i + 1, e)
<1> DEFINE S == i + 1..e
           b == [n \in 1..e - i |-> i + n]
           pos == InOrder(S)
           t == SubSeq(lines, i + 1, e)
<1>1. Len(lines) \in Nat
  BY LenProperties
<1>2. S \in SUBSET Nat /\ IsFiniteSet(S)
  BY FS_Interval
<1>3. e - i \in Nat /\ b \in [1..e - i -> S]
  OBVIOUS
<1>4. \A n, m \in 1..e - i : n < m => b[n] < b[m]
  OBVIOUS
<1>5. \A x \in S : \E n \in 1..e - i : b[n] = x
  <2> SUFFICES ASSUME NEW x \in S PROVE \E n \in 1..e - i : b[n] = x
    OBVIOUS
  <2>1. x - i \in 1..e - i /\ b[x - i] = x
    OBVIOUS
  <2> QED BY <2>1
<1>6. pos = b
  <2> HIDE DEF S, b
  <2> QED BY <1>2, <1>3, <1>4, <1>5, InOrderOnly
<1>7. Below(lines, i) = [n \in DOMAIN pos |-> lines[pos[n]]]
  BY DEF Below, HM
<1>8. Below(lines, i) = [n \in 1..e - i |-> lines[i + n]]
  <2>1. DOMAIN b = 1..e - i /\ \A n \in 1..e - i : b[n] = i + n
    OBVIOUS
  <2> HIDE DEF b, pos
  <2> QED BY <1>6, <1>7, <2>1
<1>9. t \in Seq(X) /\ Len(t) = e - i /\ \A n \in 1..e - i : t[n] = lines[i + n]
  <2>1. i + 1 \in 1..Len(lines) + 1 /\ e \in (i + 1) - 1..Len(lines) /\ e - (i + 1) + 1 = e - i
    BY <1>1
  <2>2. \A n \in 1..e - i : (i + 1) + n - 1 = i + n
    OBVIOUS
  <2> QED BY <2>1, <2>2, SubSeqIs
<1> HIDE DEF t
<1>10. t = [n \in 1..e - i |-> lines[i + n]]
  <2>1. DOMAIN t = 1..e - i /\ t = [n \in DOMAIN t |-> t[n]]
    BY <1>9, LenProperties
  <2> QED BY <1>9, <2>1
<1> QED BY <1>8, <1>10 DEF t

(* Moving all members moves their enumeration. *)
LEMMA OrderShifts ==
  ASSUME NEW S \in SUBSET Nat, IsFiniteSet(S), NEW p \in Nat, NEW T,
         \A x \in Nat : x \in T <=> x - p \in S, T \in SUBSET Nat, IsFiniteSet(T)
  PROVE  /\ Len(InOrder(T)) = Len(InOrder(S))
         /\ InOrder(T) = [m \in 1..Len(InOrder(S)) |-> p + InOrder(S)[m]]
<1> DEFINE a == InOrder(S)
           n == Cardinality(S)
           b == [m \in 1..n |-> p + a[m]]
<1>1. /\ n \in Nat /\ Len(a) = n
      /\ \A i \in 1..n : a[i] \in S
      /\ \A i, j \in 1..n : i < j => a[i] < a[j]
      /\ \A x \in S : \E i \in 1..n : a[i] = x
  BY InOrderIs
<1> HIDE DEF a, n
<1>2. ASSUME NEW i \in 1..n
      PROVE  a[i] \in Nat /\ p + a[i] \in Nat /\ (p + a[i]) - p = a[i]
  <2>1. a[i] \in Nat
    BY <1>1
  <2> QED BY <2>1
<1>3. b \in [1..n -> T]
  BY <1>1, <1>2
<1>4. \A i, j \in 1..n : i < j => b[i] < b[j]
  BY <1>1, <1>2
<1>5. \A x \in T : \E i \in 1..n : b[i] = x
  <2> SUFFICES ASSUME NEW x \in T PROVE \E i \in 1..n : b[i] = x
    OBVIOUS
  <2>1. PICK i \in 1..n : a[i] = x - p
    BY <1>1
  <2>2. p + (x - p) = x
    OBVIOUS
  <2> QED BY <2>1, <2>2
<1>6. Cardinality(T) = n /\ InOrder(T) = b
  <2> HIDE DEF b
  <2> QED BY <1>1, <1>3, <1>4, <1>5, InOrderOnly
<1>7. Len(InOrder(T)) = n
  BY <1>6, InOrderIs
<1> QED BY <1>1, <1>6, <1>7 DEF a

(* A hunk, by the places of its lines. *)
LEMMA HunkPlacedAt ==
  ASSUME NEW X, NEW lines \in Seq(X), NEW l, NEW c \in Nat, NEW d \in Nat, c <= d, d <= Len(lines)
  PROVE  HunkOk(l, SubSeq(lines, c + 1, d)) <=>
           /\ MarkOk(l) /\ \A j \in c + 1..d : Inside(lines[j])
           /\ \E j \in c + 1..d : Old(lines[j])
           /\ \E j \in c + 1..d : Changes(lines[j])
<1> DEFINE t == SubSeq(lines, c + 1, d)
<1>1. Len(t) = d - c /\ \A n \in 1..d - c : t[n] = lines[c + n]
  <2>1. c + 1 \in 1..Len(lines) + 1 /\ d \in (c + 1) - 1..Len(lines) /\ d - (c + 1) + 1 = d - c
    BY LenProperties
  <2>2. \A n \in 1..d - c : (c + 1) + n - 1 = c + n
    OBVIOUS
  <2> QED BY <2>1, <2>2, SubSeqIs
<1>2. HunkOk(l, t) <=> /\ MarkOk(l) /\ \A n \in 1..Len(t) : Inside(t[n])
                       /\ \E n \in 1..Len(t) : Old(t[n])
                       /\ \E n \in 1..Len(t) : Changes(t[n])
  BY DEF HunkOk, Inside, Old, Changes
<1> HIDE DEF t
<1>3. \A j \in c + 1..d : j - c \in 1..d - c /\ t[j - c] = lines[j]
  <2> SUFFICES ASSUME NEW j \in c + 1..d PROVE j - c \in 1..d - c /\ t[j - c] = lines[j]
    OBVIOUS
  <2>1. j - c \in 1..d - c /\ c + (j - c) = j
    OBVIOUS
  <2> QED BY <1>1, <2>1
<1>4. \A n \in 1..d - c : c + n \in c + 1..d
  OBVIOUS
<1> QED BY <1>1, <1>2, <1>3, <1>4 DEF t

(* The section from line p to line q. *)
Stands(lines, p, q) ==
  /\ p \in Nat /\ q \in Nat /\ 1 <= p /\ p <= q /\ q <= Len(lines) - 1
  /\ \A j \in p + 1..q : ~IsHeader(lines[j])
  /\ q = Len(lines) - 1 \/ IsHeader(lines[q + 1])

(* The lines of the hunks of an update are the runs after its markers. *)
HunksAt(X, lines, p, q) ==
  LET b == SubSeq(lines, p + 1, q)
      pos == InOrder(Marks(b))
      S(i) == Stop(pos, i, q - p)
  IN  /\ b \in Seq(X) /\ b # <<>> /\ IsMark(b[1]) /\ Len(pos) \in Nat
      /\ \A i \in 1..Len(pos) :
           /\ pos[i] \in Nat /\ S(i) \in Nat /\ 1 <= pos[i] /\ pos[i] <= S(i) /\ S(i) <= q - p
           /\ b[pos[i]] = lines[p + pos[i]] /\ IsMark(lines[p + pos[i]])
           /\ Run(lines, p + pos[i], HM) = p + pos[i] + 1..p + S(i)
           /\ HunkLines(b, i) = SubSeq(lines, p + pos[i] + 1, p + S(i))
           /\ HunkLines(b, i) = Below(lines, p + pos[i])
      /\ \A j \in p + 1..q : \E i \in 1..Len(pos) : j \in p + pos[i]..p + S(i)
      /\ \A j \in p + 1..q : IsMark(lines[j]) => \E i \in 1..Len(pos) : j = p + pos[i]
      /\ Marks(b) \in SUBSET Nat /\ IsFiniteSet(Marks(b))
      /\ \A x \in Nat : x - p \in Marks(b) <=> x \in p + 1..q /\ IsMark(lines[x])

(* They are. *)
LEMMA HunksStand ==
  ASSUME NEW X, NEW lines \in Seq(X), NEW p, NEW q, Stands(lines, p, q), p < q,
         IsMark(lines[p + 1])
  PROVE  HunksAt(X, lines, p, q)
<1> DEFINE L == Len(lines)
           b == SubSeq(lines, p + 1, q)
           n == q - p
           C == Marks(b)
           pos == InOrder(C)
           N == Len(pos)
           S(i) == Stop(pos, i, n)
<1>1. L \in Nat /\ p \in Nat /\ q \in Nat /\ 1 <= p /\ q <= L - 1 /\ n \in Nat /\ 1 <= n
  BY LenProperties DEF Stands
<1>2. b \in Seq(X) /\ Len(b) = n /\ \A i \in 1..n : b[i] = lines[p + i]
  <2>1. p + 1 \in 1..L + 1 /\ q \in (p + 1) - 1..L /\ q - (p + 1) + 1 = n
    BY <1>1
  <2>2. \A i \in 1..n : (p + 1) + i - 1 = p + i
    BY <1>1
  <2> QED BY <2>1, <2>2, SubSeqIs
<1> HIDE DEF b
<1>3. DOMAIN b = 1..n /\ b # <<>> /\ 1 \in 1..n
  BY <1>1, <1>2, LenProperties, EmptySeq
<1>4. \A i \in 1..n : i \in C <=> IsMark(lines[p + i])
  BY <1>2, <1>3 DEF Marks, IsMark
<1>5. C \in SUBSET (1..Len(b)) /\ 1 \in C
  <2>1. C \in SUBSET (1..n)
    BY <1>3 DEF Marks
  <2> QED BY <1>2, <1>3, <1>4, <2>1
<1> HIDE DEF L, C, n
<1>6. /\ N \in Nat
      /\ \A i \in 1..N :
           /\ pos[i] \in C /\ pos[i] \in 1..n /\ S(i) \in pos[i]..n
           /\ \A j \in pos[i] + 1..S(i) : j \notin C
      /\ \A k \in 1..n : \E i \in 1..N : k \in pos[i]..S(i)
      /\ \A x \in C : \E i \in 1..N : pos[i] = x
  <2>1. /\ N \in Nat
        /\ \A i \in 1..N :
             /\ pos[i] \in C /\ pos[i] \in 1..Len(b) /\ Stop(pos, i, Len(b)) \in pos[i]..Len(b)
             /\ \A j \in pos[i] + 1..Stop(pos, i, Len(b)) : j \notin C
        /\ \A k \in 1..Len(b) : \E i \in 1..N : k \in pos[i]..Stop(pos, i, Len(b))
        /\ \A x \in C : \E i \in 1..N : pos[i] = x
    BY <1>2, <1>5, PiecesIs
  <2> HIDE DEF pos, N
  <2> QED BY <1>2, <2>1
<1> HIDE DEF pos, N
<1>7. ASSUME NEW i \in 1..N
      PROVE  /\ pos[i] \in Nat /\ S(i) \in Nat /\ 1 <= pos[i] /\ pos[i] <= S(i) /\ S(i) <= n
             /\ pos[i] \in C
  <2>1. pos[i] \in C /\ pos[i] \in 1..n /\ S(i) \in pos[i]..n
    BY <1>6
  <2> HIDE DEF S
  <2> QED BY <1>1, <2>1
<1>8. ASSUME NEW i \in 1..N
      PROVE  /\ b[pos[i]] = lines[p + pos[i]] /\ IsMark(lines[p + pos[i]])
             /\ Run(lines, p + pos[i], HM) = p + pos[i] + 1..p + S(i)
             /\ HunkLines(b, i) = SubSeq(lines, p + pos[i] + 1, p + S(i))
             /\ HunkLines(b, i) = Below(lines, p + pos[i])
  <2> DEFINE a == pos[i]
             z == S(i)
  <2>1. a \in Nat /\ z \in Nat /\ 1 <= a /\ a <= z /\ z <= n /\ a \in C
    BY <1>7
  <2>2. \A j \in a + 1..z : j \notin C
    BY <1>6
  <2>3. z # n => z + 1 \in C
    <3> SUFFICES ASSUME z # n PROVE z + 1 \in C
      OBVIOUS
    <3>1. i < N /\ z = pos[i + 1] - 1 /\ i + 1 \in 1..N
      BY <1>6 DEF Stop, N
    <3>2. pos[i + 1] \in C /\ pos[i + 1] \in Nat
      BY <1>7, <3>1
    <3> HIDE DEF z
    <3> QED BY <3>1, <3>2
  <2>4. HunkLines(b, i) = Tail(SubSeq(SubSeq(lines, p + 1, q), a, z))
    <3>1. z = Stop(pos, i, Len(b))
      BY <1>2
    <3> HIDE DEF z
    <3> QED BY <3>1 DEF HunkLines, pos, C, b
  <2> HIDE DEF a, z
  <2>5. b[a] = lines[p + a] /\ IsMark(lines[p + a])
    <3>1. a \in 1..n
      BY <1>1, <2>1
    <3> QED BY <1>2, <1>4, <2>1, <3>1
  <2>6. HunkLines(b, i) = SubSeq(lines, p + a + 1, p + z)
    <3> DEFINE c == p + 1
    <3>1. /\ c \in 1..Len(lines) /\ q \in c..Len(lines) /\ a \in 1..q - c + 1 /\ z \in a..q - c + 1
          /\ c + a = p + a + 1 /\ c + z - 1 = p + z
      BY <1>1, <2>1 DEF L, n
    <3> HIDE DEF c
    <3>2. PartIs(X, lines, c, q, a, z)
      BY <3>1, PartOfPart
    <3>3. Tail(SubSeq(SubSeq(lines, c, q), a, z)) = SubSeq(lines, p + a + 1, p + z)
      BY <3>1, <3>2 DEF PartIs
    <3> QED BY <2>4, <3>3 DEF c
  <2>7. Run(lines, p + a, HM) = p + a + 1..p + z
    <3>1. /\ p + a \in Nat /\ p + z \in Nat /\ p + a <= p + z /\ p + z <= Len(lines) - 1
      BY <1>1, <2>1 DEF L, n
    <3>2. ASSUME NEW j \in p + a + 1..p + z PROVE lines[j].k \notin HM
      <4>1. j \in p + 1..q /\ j - p \in a + 1..z /\ j - p \in 1..n /\ p + (j - p) = j
        BY <1>1, <2>1 DEF n
      <4>2. ~IsHeader(lines[j]) /\ ~IsMark(lines[j])
        BY <1>4, <2>2, <4>1 DEF Stands
      <4> QED BY <4>2, KindsIs
    <3>3. p + z = Len(lines) - 1 \/ lines[p + z + 1].k \in HM
      <4>1. CASE z = n
        <5>1. p + z = q
          BY <1>1, <4>1 DEF n
        <5>2. q = Len(lines) - 1 \/ IsHeader(lines[q + 1])
          BY DEF Stands
        <5> QED BY <5>1, <5>2, KindsIs
      <4>2. CASE z # n
        <5>1. z + 1 \in C /\ z + 1 \in 1..n /\ p + (z + 1) = p + z + 1
          BY <1>1, <2>1, <2>3, <4>2
        <5>2. IsMark(lines[p + z + 1])
          BY <1>4, <5>1
        <5> QED BY <5>2, KindsIs
      <4> QED BY <4>1, <4>2
    <3>4. Len(lines) \in Nat
      BY <1>1 DEF L
    <3> DEFINE c == p + a
               d == p + z
    <3>5. /\ c \in Nat /\ d \in Nat /\ c <= d /\ d <= Len(lines) - 1
          /\ \A j \in c + 1..d : lines[j].k \notin HM
          /\ d = Len(lines) - 1 \/ lines[d + 1].k \in HM
      BY <3>1, <3>2, <3>3
    <3> HIDE DEF c, d
    <3>6. Run(lines, c, HM) = c + 1..d
      BY <3>4, <3>5, RunIs
    <3> QED BY <3>6 DEF c, d
  <2>8. Below(lines, p + a) = SubSeq(lines, p + a + 1, p + z)
    <3>1. /\ p + a \in Nat /\ p + z \in Nat /\ p + a <= p + z /\ p + z <= Len(lines) - 1
      BY <1>1, <2>1 DEF L, n
    <3> QED BY <2>7, <3>1, BelowIs
  <2> QED BY <2>5, <2>6, <2>7, <2>8 DEF a, z
<1>9. ASSUME NEW j \in p + 1..q PROVE j - p \in 1..n /\ p + (j - p) = j
  BY <1>1 DEF n
<1>10. ASSUME NEW j \in p + 1..q PROVE \E i \in 1..N : j \in p + pos[i]..p + S(i)
  <2>1. PICK i \in 1..N : j - p \in pos[i]..S(i)
    BY <1>6, <1>9
  <2>2. pos[i] \in Nat /\ S(i) \in Nat
    BY <1>7
  <2> HIDE DEF S
  <2>3. j \in p + pos[i]..p + S(i)
    BY <1>1, <2>1, <2>2
  <2> QED BY <2>3
<1>11. ASSUME NEW j \in p + 1..q, IsMark(lines[j]) PROVE \E i \in 1..N : j = p + pos[i]
  <2>1. j - p \in C
    BY <1>4, <1>9, <1>11
  <2> QED BY <1>6, <1>9, <2>1
<1>12. C \in SUBSET Nat /\ IsFiniteSet(C)
  <2>1. C \in SUBSET Nat /\ \A x \in C : x <= n
    BY <1>1, <1>2, <1>5
  <2> QED BY <1>1, <2>1, FS_BoundedSetOfNaturals
<1>13. ASSUME NEW x \in Nat PROVE x - p \in C <=> x \in p + 1..q /\ IsMark(lines[x])
  <2>1. x - p \in 1..n <=> x \in p + 1..q
    BY <1>1 DEF n
  <2>2. p + (x - p) = x
    BY <1>1
  <2> QED BY <1>2, <1>4, <1>5, <2>1, <2>2
<1>14. IsMark(b[1])
  <2>1. b[1] = lines[p + 1]
    BY <1>2, <1>3
  <2> QED BY <2>1
<1> QED BY <1>2, <1>3, <1>6, <1>7, <1>8, <1>10, <1>11, <1>12, <1>13, <1>14
        DEF b, C, pos, N, n, HunksAt

(* What the grammar wants of the lines of an update, and of a marker. *)
Armed(lines, j) ==
  /\ MarkOk(lines[j])
  /\ \E m \in Run(lines, j, HM) : Old(lines[m])
  /\ \E m \in Run(lines, j, HM) : Changes(lines[m])
Updates(lines, p, q) ==
  /\ p < q /\ IsMark(lines[p + 1])
  /\ \A j \in p + 1..q : Opens(lines[j]) \/ Inside(lines[j])
  /\ \A j \in p + 1..q : IsMark(lines[j]) => Armed(lines, j)

(* An update, by the places of its lines. *)
LEMMA UpdateStands ==
  ASSUME NEW X, NEW lines \in Seq(X), NEW p, NEW q, Stands(lines, p, q)
  PROVE  UpdateOk(SubSeq(lines, p + 1, q)) <=> Updates(lines, p, q)
<1> DEFINE b == SubSeq(lines, p + 1, q)
           pos == InOrder(Marks(b))
           N == Len(pos)
           S(i) == Stop(pos, i, q - p)
<1>0. Len(lines) \in Nat /\ p \in Nat /\ q \in Nat /\ 1 <= p /\ p <= q /\ q <= Len(lines) - 1
  BY LenProperties DEF Stands
<1>1. CASE ~(p < q)
  <2>1. p = q /\ p + 1 \in 1..Len(lines) + 1 /\ q \in (p + 1) - 1..Len(lines)
        /\ q - (p + 1) + 1 = 0
    BY <1>0, <1>1
  <2>2. b \in Seq(X) /\ Len(b) = 0
    BY <2>1, SubSeqIs
  <2>3. b = <<>>
    BY <2>2, EmptySeq
  <2> QED BY <1>1, <2>3 DEF UpdateOk, Updates
<1>2. CASE p < q /\ ~IsMark(lines[p + 1])
  <2>1. p + 1 \in 1..Len(lines) + 1 /\ q \in (p + 1) - 1..Len(lines)
        /\ 1 \in 1..q - (p + 1) + 1 /\ (p + 1) + 1 - 1 = p + 1
    BY <1>0, <1>2
  <2>2. b[1] = lines[p + 1]
    BY <2>1, SubSeqIs
  <2> HIDE DEF b
  <2>3. ~UpdateOk(b)
    BY <1>2, <2>2 DEF UpdateOk, IsMark
  <2> QED BY <1>2, <2>3 DEF Updates, b
<1>3. CASE p < q /\ IsMark(lines[p + 1])
  <2>1. /\ b # <<>> /\ IsMark(b[1]) /\ N \in Nat
        /\ \A i \in 1..N :
             /\ pos[i] \in Nat /\ S(i) \in Nat /\ 1 <= pos[i] /\ pos[i] <= S(i) /\ S(i) <= q - p
             /\ b[pos[i]] = lines[p + pos[i]] /\ IsMark(lines[p + pos[i]])
             /\ Run(lines, p + pos[i], HM) = p + pos[i] + 1..p + S(i)
             /\ HunkLines(b, i) = SubSeq(lines, p + pos[i] + 1, p + S(i))
        /\ \A j \in p + 1..q : \E i \in 1..N : j \in p + pos[i]..p + S(i)
        /\ \A j \in p + 1..q : IsMark(lines[j]) => \E i \in 1..N : j = p + pos[i]
    <3>1. HunksAt(X, lines, p, q)
      BY <1>3, HunksStand
    <3> QED BY <3>1 DEF HunksAt
  <2>2. UpdateOk(b) <=> \A i \in 1..N : HunkOk(b[pos[i]], HunkLines(b, i))
    <3>1. b # <<>> /\ b[1].k \in Markers
      BY <2>1 DEF IsMark
    <3> HIDE DEF b
    <3> QED BY <3>1 DEF UpdateOk
  <2> HIDE DEF b, pos, N, S
  <2>3. ASSUME NEW i \in 1..N
        PROVE  HunkOk(b[pos[i]], HunkLines(b, i)) <=>
                 /\ Armed(lines, p + pos[i])
                 /\ \A j \in p + pos[i] + 1..p + S(i) : Inside(lines[j])
    <3> DEFINE c == p + pos[i]
               d == p + S(i)
    <3>1. /\ c \in Nat /\ d \in Nat /\ c <= d /\ d <= Len(lines)
      <4>1. pos[i] \in Nat /\ S(i) \in Nat /\ 1 <= pos[i] /\ pos[i] <= S(i) /\ S(i) <= q - p
        BY <2>1
      <4> QED BY <1>0, <4>1
    <3>2. /\ b[pos[i]] = lines[c] /\ HunkLines(b, i) = SubSeq(lines, c + 1, d)
          /\ Run(lines, c, HM) = c + 1..d
      BY <2>1
    <3> HIDE DEF c, d
    <3>3. HunkOk(lines[c], SubSeq(lines, c + 1, d)) <=>
            /\ MarkOk(lines[c]) /\ \A j \in c + 1..d : Inside(lines[j])
            /\ \E j \in c + 1..d : Old(lines[j])
            /\ \E j \in c + 1..d : Changes(lines[j])
      BY <3>1, HunkPlacedAt
    <3>4. HunkOk(b[pos[i]], HunkLines(b, i)) <=>
            Armed(lines, c) /\ \A j \in c + 1..d : Inside(lines[j])
      BY <3>2, <3>3 DEF Armed
    <3> QED BY <3>4 DEF c, d
  <2>4. ASSUME NEW i \in 1..N
        PROVE  /\ p + pos[i] \in p + 1..q
               /\ \A j \in p + pos[i] + 1..p + S(i) :
                    j \in p + 1..q /\ j \in Run(lines, p + pos[i], HM)
    <3>1. pos[i] \in Nat /\ S(i) \in Nat /\ 1 <= pos[i] /\ pos[i] <= S(i) /\ S(i) <= q - p
      BY <2>1
    <3>2. Run(lines, p + pos[i], HM) = p + pos[i] + 1..p + S(i)
      BY <2>1
    <3> QED BY <1>0, <3>1, <3>2
  <2>5. ASSUME UpdateOk(b) PROVE Updates(lines, p, q)
    <3>1. \A i \in 1..N : /\ Armed(lines, p + pos[i])
                          /\ \A j \in p + pos[i] + 1..p + S(i) : Inside(lines[j])
      BY <2>2, <2>3, <2>5
    <3>2. ASSUME NEW j \in p + 1..q PROVE Opens(lines[j]) \/ Inside(lines[j])
      <4>1. PICK i \in 1..N : j \in p + pos[i]..p + S(i)
        BY <2>1
      <4>2. pos[i] \in Nat /\ S(i) \in Nat
        BY <2>1
      <4>3. j = p + pos[i] \/ j \in p + pos[i] + 1..p + S(i)
        BY <1>0, <4>1, <4>2
      <4>4. Armed(lines, p + pos[i]) => Opens(lines[p + pos[i]])
        BY KindsIs DEF Armed
      <4> QED BY <3>1, <4>3, <4>4
    <3>3. ASSUME NEW j \in p + 1..q, IsMark(lines[j]) PROVE Armed(lines, j)
      BY <2>1, <3>1, <3>3
    <3> QED BY <1>3, <3>2, <3>3 DEF Updates
  <2>6. ASSUME Updates(lines, p, q) PROVE UpdateOk(b)
    <3>1. ASSUME NEW i \in 1..N
          PROVE  /\ Armed(lines, p + pos[i])
                 /\ \A j \in p + pos[i] + 1..p + S(i) : Inside(lines[j])
      <4>1. p + pos[i] \in p + 1..q /\ IsMark(lines[p + pos[i]])
        BY <2>1, <2>4
      <4>2. Armed(lines, p + pos[i])
        BY <2>6, <4>1 DEF Updates
      <4>3. ASSUME NEW j \in p + pos[i] + 1..p + S(i) PROVE Inside(lines[j])
        <5>1. j \in p + 1..q /\ j \in Run(lines, p + pos[i], HM)
          BY <2>4
        <5>2. lines[j].k \notin HM
          <6>1. j \in j..j /\ p + pos[i] + 1 <= j /\ j \in Int
            <7>1. pos[i] \in Nat /\ S(i) \in Nat
              BY <2>1
            <7> QED BY <1>0, <7>1
          <6>2. \A m \in p + pos[i] + 1..j : lines[m].k \notin HM
            BY <5>1 DEF Run
          <6>3. p + pos[i] \in Nat
            <7>1. pos[i] \in Nat
              BY <2>1
            <7> QED BY <1>0, <7>1
          <6> QED BY <6>1, <6>2, <6>3
        <5>3. ~IsMark(lines[j])
          BY <5>2, KindsIs
        <5>4. Opens(lines[j]) \/ Inside(lines[j])
          BY <2>6, <5>1 DEF Updates
        <5> QED BY <5>3, <5>4, KindsIs
      <4> QED BY <4>2, <4>3
    <3> QED BY <2>2, <2>3, <3>1
  <2> QED BY <2>5, <2>6 DEF b
<1> QED BY <1>1, <1>2, <1>3

(* The hunks of an update, by the places of their markers. *)
Placed(lines, p) ==
  InOrder({i \in Run(lines, p, Heads) : lines[i].k \in Markers})
PlacedHunks(lines, p) ==
  [m \in DOMAIN Placed(lines, p) |->
     HunkOf(lines[Placed(lines, p)[m]], Below(lines, Placed(lines, p)[m]))]

(* They are what the parser hands out. *)
LEMMA HunksOfStands ==
  ASSUME NEW X, NEW lines \in Seq(X), NEW p, NEW q, Stands(lines, p, q),
         Updates(lines, p, q), Run(lines, p, Heads) = p + 1..q
  PROVE  HunksOf(SubSeq(lines, p + 1, q)) = PlacedHunks(lines, p)
<1> DEFINE b == SubSeq(lines, p + 1, q)
           C == Marks(b)
           pos == InOrder(C)
           N == Len(pos)
           T == {i \in Run(lines, p, Heads) : lines[i].k \in Markers}
           marks == InOrder(T)
<1>0. p \in Nat /\ q \in Nat /\ p < q /\ IsMark(lines[p + 1])
  BY DEF Stands, Updates
<1>1. /\ N \in Nat
      /\ \A i \in 1..N : /\ pos[i] \in Nat /\ b[pos[i]] = lines[p + pos[i]]
                          /\ HunkLines(b, i) = Below(lines, p + pos[i])
      /\ C \in SUBSET Nat /\ IsFiniteSet(C)
      /\ \A x \in Nat : x - p \in C <=> x \in p + 1..q /\ IsMark(lines[x])
  <2>1. HunksAt(X, lines, p, q)
    BY <1>0, HunksStand
  <2> QED BY <2>1 DEF HunksAt
<1>2. T \in SUBSET Nat /\ IsFiniteSet(T) /\ \A x \in Nat : x \in T <=> x - p \in C
  <2>1. T = {i \in p + 1..q : IsMark(lines[i])}
    BY DEF IsMark
  <2> HIDE DEF T, C
  <2>2. T \in SUBSET Nat /\ \A x \in T : x <= q
    BY <1>0, <2>1
  <2>3. IsFiniteSet(T)
    BY <1>0, <2>2, FS_BoundedSetOfNaturals
  <2>4. \A x \in Nat : x \in T <=> x - p \in C
    BY <1>1, <2>1
  <2> QED BY <2>2, <2>3, <2>4
<1> HIDE DEF T, C
<1>3. marks = [m \in 1..N |-> p + pos[m]]
  BY <1>0, <1>1, <1>2, OrderShifts
<1>4. HunksOf(b) = [i \in 1..N |-> HunkOf(b[pos[i]], HunkLines(b, i))]
  BY DEF HunksOf, C
<1> HIDE DEF b, pos, N, marks
<1>5. DOMAIN marks = 1..N /\ \A m \in 1..N : marks[m] = p + pos[m]
  BY <1>3
<1>6. HunksOf(b) = [m \in 1..N |-> HunkOf(lines[marks[m]], Below(lines, marks[m]))]
  <2>1. \A i \in 1..N : HunkOf(b[pos[i]], HunkLines(b, i)) =
                          HunkOf(lines[marks[i]], Below(lines, marks[i]))
    BY <1>1, <1>5
  <2> QED BY <1>4, <2>1
<1>7. marks = Placed(lines, p)
  BY DEF marks, T, Placed
<1> QED BY <1>5, <1>6, <1>7 DEF b, PlacedHunks

(* What the grammar asks of line i, whose header is at head. *)
KindOf(lines, head) == IF head = 0 THEN "none" ELSE lines[head].k
LineOk(lines, i, head) ==
  /\ KindOf(lines, head) # "none"
  /\ i = head => /\ ValidatePath(lines[i].v)
                 /\ \A j \in 2..i - 1 : IsHeader(lines[j]) => lines[j].v # lines[i].v
                 /\ KindOf(lines, head) = "update" => Opens(lines[i + 1])
  /\ i # head => \/ KindOf(lines, head) = "add" /\ Added(lines[i])
                 \/ KindOf(lines, head) = "update" /\ (Opens(lines[i]) \/ Inside(lines[i]))
  /\ i # head /\ IsMark(lines[i]) => Armed(lines, i)

(* The grammar, line by line. *)
LEMMA GrammarIs ==
  ASSUME NEW lines, Len(lines) \in Nat
  PROVE  Grammatical(lines) <=>
           /\ Enveloped(lines)
           /\ \A i \in 2..Len(lines) - 1 : LineOk(lines, i, Owner(lines, i))
<1> DEFINE Asks(i, head) ==
             LET kind == IF head = 0 THEN "none" ELSE lines[head].k
                 here == Run(lines, i, HM)
             IN  /\ kind # "none"
                 /\ i = head => /\ ValidatePath(lines[i].v)
                                /\ \A j \in 2..i - 1 :
                                     IsHeader(lines[j]) => lines[j].v # lines[i].v
                                /\ kind = "update" => lines[i + 1].k \in {"@@", "@@ "}
                 /\ i # head => \/ kind = "add" /\ lines[i].k = "+"
                                \/ kind = "update" /\ lines[i].k \in {"@@", "@@ ", " ", "-", "+"}
                 /\ i # head /\ lines[i].k \in Markers =>
                      /\ lines[i].k = "@@ " => lines[i].v # Blank
                      /\ \E j \in here : lines[j].k \in {" ", "-"}
                      /\ \E j \in here : lines[j].k \in {"-", "+"}
<1>1. Grammatical(lines) <=>
        /\ Len(lines) >= 3 /\ lines[1].k = "begin" /\ lines[Len(lines)].k = "end"
        /\ \A i \in 2..Len(lines) - 1 : Asks(i, Owner(lines, i))
  BY DEF Grammatical, Last, HM
<1>2. ASSUME NEW i, NEW head PROVE Asks(i, head) <=> LineOk(lines, i, head)
  <2>1. \A l : l.k \in {"@@", "@@ ", " ", "-", "+"} <=> Opens(l) \/ Inside(l)
    BY DEF Opens, Inside
  <2>2. \A l : Opens(l) => (MarkOk(l) <=> (l.k = "@@ " => l.v # Blank))
    BY DEF Opens, MarkOk
  <2>3. Asks(i, head) <=>
          /\ KindOf(lines, head) # "none"
          /\ i = head => /\ ValidatePath(lines[i].v)
                         /\ \A j \in 2..i - 1 : IsHeader(lines[j]) => lines[j].v # lines[i].v
                         /\ KindOf(lines, head) = "update" => Opens(lines[i + 1])
          /\ i # head => \/ KindOf(lines, head) = "add" /\ Added(lines[i])
                         \/ KindOf(lines, head) = "update" /\ (Opens(lines[i]) \/ Inside(lines[i]))
          /\ i # head /\ IsMark(lines[i]) =>
               /\ lines[i].k = "@@ " => lines[i].v # Blank
               /\ \E j \in Run(lines, i, HM) : Old(lines[j])
               /\ \E j \in Run(lines, i, HM) : Changes(lines[j])
    BY <2>1 DEF KindOf, Opens, Added, IsMark, Old, Changes
  <2> HIDE DEF Asks
  <2>4. Added(lines[i]) => ~IsMark(lines[i])
    BY KindsIs
  <2>5. Inside(lines[i]) => ~IsMark(lines[i])
    BY KindsIs
  <2>6. MarkOk(lines[i]) => Opens(lines[i])
    BY KindsIs
  <2> QED BY <2>2, <2>3, <2>4, <2>5, <2>6 DEF LineOk, Armed
<1> HIDE DEF Asks
<1> QED BY <1>1, <1>2 DEF Enveloped

(* Every section has its lines to itself. *)
LEMMA SectionedStands ==
  ASSUME NEW lines, Len(lines) \in Nat, NEW N, NEW h, NEW e, Sectioned(lines, N, h, e),
         NEW n \in 1..N
  PROVE  /\ Stands(lines, h[n], e[n]) /\ h[n] \in Nat /\ e[n] \in Nat
         /\ 2 <= h[n] /\ h[n] <= e[n] /\ e[n] <= Len(lines) - 1
<1>1. h[n] \in 2..Len(lines) - 1 /\ e[n] \in 2..Len(lines) - 1 /\ h[n] <= e[n]
  BY DEF Sectioned
<1>2. \A j \in h[n] + 1..e[n] : ~IsHeader(lines[j])
  BY DEF Sectioned
<1>3. e[n] = Len(lines) - 1 \/ IsHeader(lines[e[n] + 1])
  BY DEF Sectioned
<1>4. h[n] \in Nat /\ e[n] \in Nat /\ 2 <= h[n] /\ e[n] <= Len(lines) - 1 /\ 1 <= h[n]
  BY <1>1
<1> QED BY <1>1, <1>2, <1>3, <1>4 DEF Stands

(* The header that a line belongs to. *)
LEMMA OwnerIs ==
  ASSUME NEW lines, Len(lines) \in Nat, NEW N, NEW h, NEW e, Sectioned(lines, N, h, e),
         NEW n \in 1..N, NEW i \in h[n]..e[n]
  PROVE  Owner(lines, i) = IF IsHeader(lines[h[n]]) THEN h[n] ELSE 0
<1> DEFINE heads == {j \in 2..i : IsHeader(lines[j])}
<1>1. Owner(lines, i) = IF heads = {} THEN 0 ELSE Max(heads)
  BY DEF Owner
<1>2. /\ h[n] \in Nat /\ e[n] \in Nat /\ 2 <= h[n] /\ i \in Nat
      /\ \A j \in h[n] + 1..e[n] : ~IsHeader(lines[j])
  BY SectionedStands DEF Stands
<1>3. \A j \in heads : j \in Nat /\ j <= h[n]
  <2> SUFFICES ASSUME NEW j \in heads, ~(j <= h[n]) PROVE FALSE
    BY <1>2
  <2>1. j \in h[n] + 1..e[n]
    BY <1>2
  <2> QED BY <1>2, <2>1
<1>4. CASE IsHeader(lines[h[n]])
  <2>1. h[n] \in heads
    BY <1>2, <1>4
  <2> HIDE DEF heads
  <2>2. \E x \in heads : \A y \in heads : x >= y
    BY <1>2, <1>3, <2>1
  <2>3. Max(heads) \in heads /\ Max(heads) >= h[n]
    BY <2>1, <2>2 DEF Max
  <2>4. Max(heads) = h[n]
    BY <1>2, <1>3, <2>3
  <2> QED BY <1>1, <1>4, <2>1, <2>4
<1>5. CASE ~IsHeader(lines[h[n]])
  <2>1. n = 1 /\ h[n] = 2
    BY <1>5 DEF Sectioned
  <2>2. heads = {}
    <3> SUFFICES ASSUME NEW j \in heads PROVE FALSE
      OBVIOUS
    <3>1. j = h[n]
      BY <1>2, <1>3, <2>1
    <3> QED BY <1>5, <3>1
  <2> QED BY <1>1, <1>5, <2>2
<1> QED BY <1>4, <1>5

SectionStands(lines, p, q) ==
  /\ ValidatePath(lines[p].v)
  /\ \/ lines[p].k = "add" /\ \A j \in p + 1..q : Added(lines[j])
     \/ lines[p].k = "update" /\ Updates(lines, p, q)
     \/ lines[p].k = "delete" /\ p = q

(* A section, by the places of its lines. *)
LEMMA SectionOkStands ==
  ASSUME NEW X, NEW lines \in Seq(X), NEW p, NEW q, Stands(lines, p, q)
  PROVE  SectionOk(lines[p], SubSeq(lines, p + 1, q)) <=> SectionStands(lines, p, q)
<1> DEFINE b == SubSeq(lines, p + 1, q)
<1>1. Len(lines) \in Nat /\ p \in Nat /\ q \in Nat /\ 1 <= p /\ p <= q /\ q <= Len(lines) - 1
  BY LenProperties DEF Stands
<1>2. b \in Seq(X) /\ Len(b) = q - p /\ \A i \in 1..q - p : b[i] = lines[p + i]
  <2>1. p + 1 \in 1..Len(lines) + 1 /\ q \in (p + 1) - 1..Len(lines) /\ q - (p + 1) + 1 = q - p
    BY <1>1
  <2>2. \A i \in 1..q - p : (p + 1) + i - 1 = p + i
    BY <1>1
  <2> QED BY <2>1, <2>2, SubSeqIs
<1>3. UpdateOk(b) <=> Updates(lines, p, q)
  BY UpdateStands
<1> HIDE DEF b
<1>4. b = <<>> <=> p = q
  BY <1>1, <1>2, EmptySeq
<1>5. (\A j \in 1..Len(b) : b[j].k = "+") <=> \A j \in p + 1..q : Added(lines[j])
  <2>1. (\A j \in 1..Len(b) : b[j].k = "+") <=> \A j \in 1..q - p : Added(lines[p + j])
    BY <1>2 DEF Added
  <2>2. \A j \in p + 1..q : j - p \in 1..q - p /\ p + (j - p) = j
    BY <1>1
  <2>3. \A j \in 1..q - p : p + j \in p + 1..q
    BY <1>1
  <2> QED BY <2>1, <2>2, <2>3
<1>6. SectionOk(lines[p], b) <=> SectionStands(lines, p, q)
  BY <1>3, <1>4, <1>5 DEF SectionOk, SectionStands
<1> QED BY <1>6 DEF b

(* No earlier section has the path of the one at p. *)
FirstOfPath(lines, p) ==
  \A j \in 2..p - 1 : IsHeader(lines[j]) => lines[j].v # lines[p].v

(* There are three headers. *)
LEMMA HeadIs ==
  ASSUME NEW l
  PROVE  IsHeader(l) <=> l.k = "add" \/ l.k = "update" \/ l.k = "delete"
BY DEF IsHeader

(* A section line by line. *)
LEMMA SectionByLine ==
  ASSUME NEW X, NEW lines \in Seq(X), NEW p, NEW q, Stands(lines, p, q), 2 <= p,
         IsHeader(lines[p]), lines[Len(lines)].k = "end"
  PROVE  (\A i \in p..q : LineOk(lines, i, p)) <=>
           SectionStands(lines, p, q) /\ FirstOfPath(lines, p)
<1> DEFINE k == lines[p].k
           path == ValidatePath(lines[p].v) /\ FirstOfPath(lines, p)
           Body(j) == \/ k = "add" /\ Added(lines[j])
                      \/ k = "update" /\ (Opens(lines[j]) \/ Inside(lines[j]))
           Rest(j) == Body(j) /\ (IsMark(lines[j]) => Armed(lines, j))
<1>1. Len(lines) \in Nat /\ p \in Nat /\ q \in Nat /\ 1 <= p /\ p <= q /\ q <= Len(lines) - 1
  BY LenProperties DEF Stands
<1>2. KindOf(lines, p) = k /\ k # "none" /\ (k = "add" \/ k = "update" \/ k = "delete")
  <2>1. p # 0
    BY <1>1
  <2>2. k = "add" \/ k = "update" \/ k = "delete"
    BY HeadIs
  <2> QED BY <2>1, <2>2 DEF KindOf
<1>3. LineOk(lines, p, p) <=> path /\ (k = "update" => Opens(lines[p + 1]))
  BY <1>2 DEF LineOk, FirstOfPath
<1>4. ASSUME NEW j \in p + 1..q PROVE LineOk(lines, j, p) <=> Rest(j)
  <2>1. j # p
    BY <1>1
  <2> QED BY <1>2, <2>1 DEF LineOk
<1>5. (\A i \in p..q : LineOk(lines, i, p)) <=>
        /\ path /\ (k = "update" => Opens(lines[p + 1]))
        /\ \A j \in p + 1..q : Rest(j)
  <2>1. p \in p..q /\ \A j \in p + 1..q : j \in p..q
    BY <1>1
  <2>2. \A i \in p..q : i = p \/ i \in p + 1..q
    BY <1>1
  <2> HIDE DEF path, k, Rest
  <2> QED BY <1>3, <1>4, <2>1, <2>2
<1>6. Opens(lines[p + 1]) => p < q
  <2> SUFFICES ASSUME Opens(lines[p + 1]), ~(p < q) PROVE FALSE
    OBVIOUS
  <2>1. p = q
    BY <1>1
  <2>2. q = Len(lines) - 1 \/ IsHeader(lines[q + 1])
    BY DEF Stands
  <2>3. IsMark(lines[p + 1]) /\ ~IsHeader(lines[p + 1])
    BY KindsIs
  <2>4. p + 1 = Len(lines)
    BY <1>1, <2>1, <2>2, <2>3
  <2>5. ~IsMark(lines[Len(lines)])
    BY KindsIs
  <2> QED BY <2>3, <2>4, <2>5
<1>7. CASE k = "add"
  <2>1. \A j : Rest(j) <=> Added(lines[j])
    <3>1. \A j : Added(lines[j]) => ~IsMark(lines[j])
      BY KindsIs
    <3> QED BY <1>7, <3>1
  <2>2. SectionStands(lines, p, q) <=>
          ValidatePath(lines[p].v) /\ \A j \in p + 1..q : Added(lines[j])
    BY <1>7 DEF SectionStands
  <2> QED BY <1>5, <1>7, <2>1, <2>2
<1>8. CASE k = "update"
  <2>1. \A j : Rest(j) <=> /\ Opens(lines[j]) \/ Inside(lines[j])
                           /\ IsMark(lines[j]) => Armed(lines, j)
    BY <1>8
  <2>2. SectionStands(lines, p, q) <=> ValidatePath(lines[p].v) /\ Updates(lines, p, q)
    BY <1>8 DEF SectionStands
  <2> HIDE DEF Rest
  <2>3. Opens(lines[p + 1]) => IsMark(lines[p + 1])
    BY KindsIs
  <2>4. Updates(lines, p, q) => Opens(lines[p + 1])
    <3> SUFFICES ASSUME Updates(lines, p, q) PROVE Opens(lines[p + 1])
      OBVIOUS
    <3>1. p + 1 \in p + 1..q
      BY <1>1 DEF Updates
    <3>2. Inside(lines[p + 1]) => ~IsMark(lines[p + 1])
      BY KindsIs
    <3> QED BY <3>1, <3>2 DEF Updates
  <2>5. Updates(lines, p, q) <=> Opens(lines[p + 1]) /\ \A j \in p + 1..q : Rest(j)
    BY <1>6, <2>1, <2>3, <2>4 DEF Updates
  <2> QED BY <1>5, <1>8, <2>2, <2>5
<1>9. CASE k = "delete"
  <2>1. \A j : ~Rest(j)
    BY <1>9
  <2>2. SectionStands(lines, p, q) <=> ValidatePath(lines[p].v) /\ p = q
    BY <1>9 DEF SectionStands
  <2> HIDE DEF Rest
  <2>3. (\A j \in p + 1..q : Rest(j)) <=> p = q
    <3>1. p = q => \A j \in p + 1..q : FALSE
      BY <1>1
    <3>2. p # q => p + 1 \in p + 1..q
      BY <1>1
    <3> QED BY <2>1, <3>1, <3>2
  <2> QED BY <1>5, <1>9, <2>2, <2>3
<1> QED BY <1>2, <1>7, <1>8, <1>9

(* The sections are in order exactly when every line is where it may be. *)
LEMMA SectionsByLine ==
  ASSUME NEW X, NEW lines \in Seq(X), Enveloped(lines), NEW N, NEW h, NEW e,
         Sectioned(lines, N, h, e)
  PROVE  SectionsOk(lines, N, h, e) <=> Grammatical(lines)
<1> DEFINE Sect(n) == SectionStands(lines, h[n], e[n])
<1>1. Len(lines) \in Nat /\ lines[Len(lines)].k = "end"
  BY LenProperties DEF Enveloped
<1>2. Grammatical(lines) <=>
        \A i \in 2..Len(lines) - 1 : LineOk(lines, i, Owner(lines, i))
  BY <1>1, GrammarIs
<1>3. ASSUME NEW n \in 1..N
      PROVE  /\ Stands(lines, h[n], e[n]) /\ h[n] \in Nat /\ e[n] \in Nat
             /\ 2 <= h[n] /\ h[n] <= e[n] /\ e[n] <= Len(lines) - 1
  BY <1>1, SectionedStands
<1>4. ASSUME NEW n \in 1..N
      PROVE  SectionOk(lines[h[n]], BodyOf(lines, h, e, n)) <=> Sect(n)
  BY <1>3, SectionOkStands DEF BodyOf
<1>5. ASSUME NEW n \in 1..N PROVE Sect(n) => IsHeader(lines[h[n]])
  BY HeadIs DEF SectionStands
<1>6. ASSUME NEW n \in 1..N, IsHeader(lines[h[n]])
      PROVE  (\A i \in h[n]..e[n] : LineOk(lines, i, Owner(lines, i))) <=>
               Sect(n) /\ FirstOfPath(lines, h[n])
  <2>1. \A i \in h[n]..e[n] : Owner(lines, i) = h[n]
    BY <1>1, <1>6, OwnerIs
  <2>2. (\A i \in h[n]..e[n] : LineOk(lines, i, h[n])) <=>
          Sect(n) /\ FirstOfPath(lines, h[n])
    BY <1>1, <1>3, <1>6, SectionByLine
  <2> HIDE DEF Sect
  <2> QED BY <2>1, <2>2
<1> HIDE DEF Sect
<1>7. ASSUME SectionsOk(lines, N, h, e) PROVE Grammatical(lines)
  <2>1. \A n \in 1..N : Sect(n) /\ IsHeader(lines[h[n]])
    BY <1>4, <1>5, <1>7 DEF SectionsOk
  <2>2. ASSUME NEW n \in 1..N PROVE FirstOfPath(lines, h[n])
    <3> SUFFICES ASSUME NEW j \in 2..h[n] - 1, IsHeader(lines[j])
                 PROVE  lines[j].v # lines[h[n]].v
      BY DEF FirstOfPath
    <3>1. j \in 2..Len(lines) - 1
      BY <1>1, <1>3
    <3>2. PICK m \in 1..N : h[m] = j
      BY <3>1 DEF Sectioned
    <3>3. n \in Nat /\ m \in Nat /\ N \in Nat
      BY DEF Sectioned
    <3>4. m # n /\ ~(n < m)
      <4>1. h[m] \in Nat /\ h[n] \in Nat /\ h[m] < h[n]
        BY <1>3, <3>2
      <4>2. n < m => h[n] < h[m]
        BY DEF Sectioned
      <4> QED BY <4>1, <4>2
    <3>5. m \in 1..n - 1
      BY <3>3, <3>4
    <3> QED BY <1>7, <3>2, <3>5 DEF SectionsOk
  <2>3. \A n \in 1..N : \A i \in h[n]..e[n] : LineOk(lines, i, Owner(lines, i))
    BY <1>6, <2>1, <2>2
  <2>4. \A i \in 2..Len(lines) - 1 : \E n \in 1..N : i \in h[n]..e[n]
    BY DEF Sectioned
  <2> QED BY <1>2, <2>3, <2>4
<1>8. ASSUME Grammatical(lines) PROVE SectionsOk(lines, N, h, e)
  <2>1. ASSUME NEW n \in 1..N
        PROVE  \A i \in h[n]..e[n] : LineOk(lines, i, Owner(lines, i))
    <3>1. \A i \in h[n]..e[n] : i \in 2..Len(lines) - 1
      BY <1>1, <1>3
    <3> QED BY <1>2, <1>8, <3>1
  <2>2. ASSUME NEW n \in 1..N PROVE IsHeader(lines[h[n]])
    <3> SUFFICES ASSUME ~IsHeader(lines[h[n]]) PROVE FALSE
      OBVIOUS
    <3>1. h[n] \in h[n]..e[n]
      BY <1>3
    <3>2. Owner(lines, h[n]) = 0
      BY <1>1, <3>1, OwnerIs
    <3>3. LineOk(lines, h[n], 0)
      BY <2>1, <3>1, <3>2
    <3> QED BY <3>3 DEF LineOk, KindOf
  <2>3. \A n \in 1..N : Sect(n) /\ FirstOfPath(lines, h[n])
    BY <1>6, <2>1, <2>2
  <2>4. ASSUME NEW n \in 1..N, NEW j \in 1..n - 1 PROVE lines[h[j]].v # lines[h[n]].v
    <3>1. N \in Nat /\ n \in Nat
      BY DEF Sectioned
    <3>2. j \in 1..N /\ j < n
      BY <3>1
    <3>3. h[j] < h[n]
      BY <3>2 DEF Sectioned
    <3>4. h[j] \in 2..h[n] - 1
      BY <1>3, <3>2, <3>3
    <3> QED BY <2>2, <2>3, <3>2, <3>4 DEF FirstOfPath
  <2> QED BY <1>4, <2>3, <2>4 DEF SectionsOk
<1> QED BY <1>7, <1>8

(* The value a section at p must have, by where its lines stand. *)
SectionExact(lines, p, v) ==
  /\ v.path = lines[p].v /\ v.operation.op = lines[p].k
  /\ lines[p].k = "add" =>
       v.operation.content = [lines |-> Texts(Below(lines, p), {"+"}),
                              nl |-> Below(lines, p) # <<>>]
  /\ lines[p].k = "update" =>
       v.operation.hunks = PlacedHunks(lines, p)

(* The value of a section is the one it must have. *)
LEMMA SectionIsExact ==
  ASSUME NEW X, NEW lines \in Seq(X), NEW p, NEW q, Stands(lines, p, q), NEW v,
         SectionStands(lines, p, q), SectionOf(lines[p], SubSeq(lines, p + 1, q), v)
  PROVE  SectionExact(lines, p, v)
<1> DEFINE b == SubSeq(lines, p + 1, q)
<1>1. Len(lines) \in Nat /\ p \in Nat /\ q \in Nat /\ p <= q /\ q <= Len(lines) - 1
  BY LenProperties DEF Stands
<1>2. /\ \A j \in p + 1..q : ~IsHeader(lines[j])
      /\ q = Len(lines) - 1 \/ IsHeader(lines[q + 1])
  BY DEF Stands
<1>3. /\ v.path = lines[p].v /\ v.operation.op = lines[p].k
      /\ lines[p].k = "add" =>
           v.operation.content = [lines |-> Texts(b, {"+"}), nl |-> b # <<>>]
      /\ lines[p].k = "update" => v.operation.hunks = HunksOf(b)
  BY DEF SectionOf
<1>4. ASSUME lines[p].k = "add" PROVE Below(lines, p) = b
  <2>1. \A j \in p + 1..q : Added(lines[j])
    BY <1>4 DEF SectionStands
  <2>2. \A j \in p + 1..q : lines[j].k \notin HM
    <3> SUFFICES ASSUME NEW j \in p + 1..q PROVE lines[j].k \notin HM
      OBVIOUS
    <3> QED BY <2>1, KindsIs
  <2>3. q = Len(lines) - 1 \/ lines[q + 1].k \in HM
    BY <1>2, KindsIs
  <2>4. Run(lines, p, HM) = p + 1..q
    BY <1>1, <2>2, <2>3, RunIs
  <2> QED BY <1>1, <2>4, BelowIs
<1>5. ASSUME lines[p].k = "update"
      PROVE  HunksOf(b) = PlacedHunks(lines, p)
  <2>1. Updates(lines, p, q)
    BY <1>5 DEF SectionStands
  <2>2. \A j \in p + 1..q : lines[j].k \notin Heads
    <3> SUFFICES ASSUME NEW j \in p + 1..q PROVE lines[j].k \notin Heads
      OBVIOUS
    <3> QED BY <1>2, KindsIs
  <2>3. q = Len(lines) - 1 \/ lines[q + 1].k \in Heads
    BY <1>2, KindsIs
  <2>4. Run(lines, p, Heads) = p + 1..q
    BY <1>1, <2>2, <2>3, RunIs
  <2> QED BY <2>1, <2>4, HunksOfStands
<1> QED BY <1>3, <1>4, <1>5 DEF SectionExact

(* What is neither first nor last is between. *)
LEMMA Between ==
  ASSUME NEW n \in Nat, NEW x \in 1..n, x # 1, x # n
  PROVE  x \in 2..n - 1
OBVIOUS

(* The headers in order are where the sections begin. *)
LEMMA HeadsInOrder ==
  ASSUME NEW X, NEW lines \in Seq(X), Enveloped(lines), NEW N, NEW h, NEW e,
         Sectioned(lines, N, h, e), \A n \in 1..N : IsHeader(lines[h[n]])
  PROVE  LET heads == InOrder({i \in DOMAIN lines : IsHeader(lines[i])})
         IN  heads = h /\ Len(heads) = N /\ DOMAIN heads = 1..N
<1> DEFINE S == {i \in DOMAIN lines : IsHeader(lines[i])}
           heads == InOrder(S)
<1>1. Len(lines) \in Nat /\ DOMAIN lines = 1..Len(lines) /\ N \in Nat
  BY LenProperties DEF Sectioned
<1>2. S \in SUBSET Nat /\ IsFiniteSet(S)
  <2>1. S \in SUBSET Nat /\ \A x \in S : x <= Len(lines)
    BY <1>1
  <2> HIDE DEF S
  <2> QED BY <1>1, <2>1, FS_BoundedSetOfNaturals
<1>3. h \in [1..N -> S]
  <2>1. h \in [1..N -> 2..Len(lines) - 1]
    BY DEF Sectioned
  <2>2. \A n \in 1..N : h[n] \in S
    BY <1>1, <2>1
  <2> HIDE DEF S
  <2> QED BY <2>1, <2>2
<1>4. \A i, j \in 1..N : i < j => h[i] < h[j]
  BY DEF Sectioned
<1>5. \A x \in S : \E n \in 1..N : h[n] = x
  <2> SUFFICES ASSUME NEW x \in S PROVE \E n \in 1..N : h[n] = x
    OBVIOUS
  <2>1. ~IsHeader(lines[1]) /\ ~IsHeader(lines[Len(lines)])
    BY KindsIs DEF Enveloped
  <2>2. x \in 1..Len(lines) /\ IsHeader(lines[x])
    BY <1>1
  <2>3. x \in 2..Len(lines) - 1
    <3> HIDE DEF S
    <3>1. x # 1 /\ x # Len(lines)
      BY <2>1, <2>2
    <3> QED BY <1>1, <2>2, <3>1, Between
  <2> QED BY <2>2, <2>3 DEF Sectioned
<1> HIDE DEF S
<1>6. Cardinality(S) = N /\ heads = h
  BY <1>1, <1>2, <1>3, <1>4, <1>5, InOrderOnly
<1>7. Len(heads) = N /\ DOMAIN heads = 1..N
  BY <1>2, <1>6, InOrderIs
<1> QED BY <1>6, <1>7 DEF heads, S

(* The parser, for any lines. *)
ParsedExactly(lines, r) ==
  /\ ~Failed(r) <=> Grammatical(lines)
  /\ ~Failed(r) =>
       LET heads == InOrder({i \in DOMAIN lines : IsHeader(lines[i])})
       IN  /\ Len(r.val) = Len(heads)
           /\ \A n \in DOMAIN heads : SectionExact(lines, heads[n], r.val[n])

(* What the parser makes of them is exact. *)
LEMMA ParserIsExact ==
  ASSUME NEW X, NEW lines \in Seq(X)
  PROVE  ParsedExactly(lines, ParsePatch(lines))
<1> DEFINE r == ParsePatch(lines)
           heads == InOrder({i \in DOMAIN lines : IsHeader(lines[i])})
<1>1. Len(lines) \in Nat
  BY LenProperties
<1>2. CASE ~Enveloped(lines)
  <2>1. ~Grammatical(lines)
    BY <1>1, <1>2, GrammarIs
  <2>2. lines[1].k # "begin" \/ lines[Len(lines)].k # "end" \/ Len(lines) < 3
    BY <1>1, <1>2 DEF Enveloped
  <2>3. r = Err("invalid_patch")
    BY <2>2 DEF ParsePatch, Last
  <2>4. Failed(r)
    BY <2>3, ErrFails
  <2> QED BY <2>1, <2>4 DEF ParsedExactly
<1>3. CASE Enveloped(lines)
  <2>1. PICK N, h, e : /\ Sectioned(lines, N, h, e)
                       /\ ~Failed(r) <=> SectionsOk(lines, N, h, e)
                       /\ ~Failed(r) => SectionsOf(lines, N, h, e, r.val)
    BY <1>3, ParsePatchIs
  <2> HIDE DEF r
  <2>2. ~Failed(r) <=> Grammatical(lines)
    BY <1>3, <2>1, SectionsByLine
  <2>3. ASSUME ~Failed(r)
        PROVE  /\ Len(r.val) = Len(heads)
               /\ \A n \in DOMAIN heads : SectionExact(lines, heads[n], r.val[n])
    <3>1. SectionsOk(lines, N, h, e) /\ SectionsOf(lines, N, h, e, r.val)
      BY <2>1, <2>3
    <3>2. ASSUME NEW n \in 1..N
          PROVE  /\ Stands(lines, h[n], e[n]) /\ SectionStands(lines, h[n], e[n])
                 /\ SectionOf(lines[h[n]], SubSeq(lines, h[n] + 1, e[n]), r.val[n])
      <4>1. Stands(lines, h[n], e[n])
        BY <1>1, <2>1, SectionedStands
      <4>2. SectionOk(lines[h[n]], SubSeq(lines, h[n] + 1, e[n]))
        BY <3>1 DEF SectionsOk, BodyOf
      <4>3. SectionStands(lines, h[n], e[n])
        BY <4>1, <4>2, SectionOkStands
      <4> QED BY <3>1, <4>1, <4>3 DEF SectionsOf, BodyOf
    <3>3. \A n \in 1..N : SectionExact(lines, h[n], r.val[n])
      BY <3>2, SectionIsExact
    <3>4. \A n \in 1..N : IsHeader(lines[h[n]])
      BY <3>2, HeadIs DEF SectionStands
    <3>5. heads = h /\ Len(heads) = N /\ DOMAIN heads = 1..N
      BY <1>3, <2>1, <3>4, HeadsInOrder
    <3>6. Len(r.val) = N
      BY <3>1 DEF SectionsOf
    <3> QED BY <3>3, <3>5, <3>6
  <2> QED BY <2>2, <2>3 DEF ParsedExactly, r
<1> QED BY <1>2, <1>3

(* A parse is given lines, and its output is what the parser makes of them. *)
ParseInv ==
  task = "parse" =>
    /\ input \in PatchInputs
    /\ output = NoOutput \/ output = ParsePatch(input)

LEMMA ParseInvInit == AlgInit => ParseInv
BY DEF AlgInit, ParseInv

LEMMA ParseInvNext == ParseInv /\ [AlgNext]_algVars => ParseInv'
<1> SUFFICES ASSUME ParseInv, [AlgNext]_algVars PROVE ParseInv'
  OBVIOUS
<1>1. CASE Parse
  BY <1>1 DEF ParseInv, Parse, Compute
<1>2. CASE UNCHANGED algVars
  BY <1>2 DEF ParseInv, algVars
<1>3. ASSUME task # "parse", task' = task PROVE ParseInv'
  BY <1>3 DEF ParseInv
<1>4. CASE Update
  BY <1>3, <1>4 DEF Update, Compute
<1>5. CASE Send
  BY <1>3, <1>5 DEF Send, Carry, Compute
<1>6. CASE Fetch
  BY <1>3, <1>6 DEF Fetch, Carry, Compute
<1>7. CASE Extract
  BY <1>3, <1>7 DEF Extract, Compute
<1>8. CASE Normalize
  BY <1>3, <1>8 DEF Normalize, Compute
<1>9. CASE Join
  BY <1>3, <1>9 DEF Join, Compute
<1>10. CASE LogTail
  BY <1>3, <1>10 DEF LogTail, Compute
<1> QED BY <1>1, <1>2, <1>4, <1>5, <1>6, <1>7, <1>8, <1>9, <1>10 DEF AlgNext

LEMMA ParseInvExact ==
  ASSUME PatchLines, ParseInv
  PROVE  ParserExact
<1> DEFINE heads == InOrder({i \in DOMAIN input : IsHeader(input[i])})
           marks(n) == InOrder({i \in Run(input, heads[n], Heads) :
                                      input[i].k \in Markers})
<1> SUFFICES ASSUME Computed("parse") PROVE ParserExact
  BY DEF ParserExact
<1>1. input \in PatchInputs /\ output = ParsePatch(input)
  BY DEF ParseInv, Computed
<1>2. input \in Seq(ToSet(input))
  BY <1>1 DEF PatchLines
<1>3. ParsedExactly(input, output)
  BY <1>1, <1>2, ParserIsExact
<1>4. ~Failed(output) <=> Grammatical(input)
  BY <1>3 DEF ParsedExactly
<1>5. ASSUME ~Failed(output)
      PROVE  /\ Len(output.val) = Len(heads)
             /\ \A n \in DOMAIN heads : SectionExact(input, heads[n], output.val[n])
  BY <1>3, <1>5 DEF ParsedExactly
<1> HIDE DEF heads
<1>6. ASSUME ~Failed(output), NEW n \in DOMAIN heads
      PROVE  LET op == output.val[n].operation
             IN  /\ output.val[n].path = input[heads[n]].v
                 /\ op.op = input[heads[n]].k
                 /\ op.op = "add" =>
                      op.content = [lines |-> Texts(Below(input, heads[n]), {"+"}),
                                    nl |-> Below(input, heads[n]) # <<>>]
                 /\ op.op = "update" =>
                      op.hunks = [m \in DOMAIN marks(n) |->
                        [anchor |-> IF input[marks(n)[m]].k = "@@" THEN NoText
                                    ELSE input[marks(n)[m]].v,
                         old |-> Texts(Below(input, marks(n)[m]), {" ", "-"}),
                         new |-> Texts(Below(input, marks(n)[m]), {" ", "+"})]]
  BY <1>5, <1>6 DEF SectionExact, PlacedHunks, Placed, HunkOf
<1> HIDE DEF marks
<1> QED BY <1>4, <1>5, <1>6 DEF ParserExact, heads, marks

(* parse_patch, for every patch: it takes exactly the lines of the          *)
(* language, and hands out every section and every hunk in the order of     *)
(* the lines, with its path, its anchor and all its lines.                  *)
THEOREM ParserAlwaysExact == AlgSpec => []ParserExact
<1>1. ParseInv => ParserExact
  BY PatchLines, ParseInvExact
<1> QED BY <1>1, ParseInvInit, ParseInvNext, PTL DEF AlgSpec

=============================================================================
