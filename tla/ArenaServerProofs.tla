------------------------- MODULE ArenaServerProofs -------------------------
(***************************************************************************)
(* Proofs about the coordinator process over its life, for every number of *)
(* participants, submissions and workers, of writes that fail, streams     *)
(* that are lost and deaths at any step.                                   *)
(***************************************************************************)
EXTENDS ArenaServer, FiniteSetTheorems, WellFoundedInduction, TLAPS

-----------------------------------------------------------------------------
(* The store and its methods.                                                *)

Stored == [files : Revs, manifest : Entry]
OpType == [do : {"none", "create", "status"}, id : Ids,
           at : {"idle", "clear", "files", "manifest", "stored", "refused", "rename",
                 "forget", "mark", "marked"},
           place : Places, entry : Entry]

StoreType ==
  /\ versions \in BOOLEAN
  /\ live \in [Ids -> Entry] /\ staged \in [Ids -> Entry]
  /\ dir \in [Places -> [Ids -> Stored]]
  /\ op \in OpType
  /\ revs \in [Participants -> Revs] /\ fails \in Nat

(* What a method has found out before it comes to its present step.          *)
Creating == op.do = "create" /\ op.at \in {"clear", "files", "manifest"}
CreateFits ==
  /\ op.at \in {"clear", "files", "manifest", "stored", "refused"}
  /\ op.entry.status = "PENDING" /\ op.entry.rev # 0
  /\ Creating => (op.place = "live" <=> live[op.id].status # "READY")
StatusFits ==
  /\ op.at \in {"clear", "rename", "forget", "mark", "manifest", "marked"}
  /\ op.entry.status \in {"READY", "BUILD_FAILED"}
  /\ op.place = "live" <=> op.entry.status = "READY"
  /\ op.at \in {"clear", "rename", "forget"} <=> staged[op.id] # Absent
  /\ op.at = "rename" => op.place = "live"
  /\ op.at = "forget" => op.place = "staged"
  /\ op.at \in {"mark", "manifest"} => live[op.id] # Absent
  /\ op.at \in {"manifest", "marked"} => live[op.id].status # "PENDING"
OpFits ==
  /\ op.do = "none" <=> op = Idle
  /\ op.do = "create" => CreateFits
  /\ op.do = "status" => StatusFits

(* A resubmission waits only behind a READY entry.                           *)
Behind == \A id \in Ids : staged[id] # Absent => live[id].status = "READY"

(* With versions an id is given out once, and nothing waits behind another.  *)
Numbered ==
  versions =>
    /\ \A id \in Ids : live[id] # Absent \/ dir["live"][id].manifest # Absent
                         => id[2] <= revs[id[1]]
    /\ \A id \in Ids : staged[id] = Absent
    /\ op.do = "create" => op.place = "live" /\ op.id[2] <= revs[op.id[1]]
    /\ Creating => live[op.id] = Absent

StoreInv == StoreType /\ OpFits /\ Behind /\ Numbered

-----------------------------------------------------------------------------
(* The jobs and the phases of the process.                                   *)

JobsType ==
  /\ phase \in {"down", "closing", "placing", "up"}
  /\ log \in [Jobs -> [id : Ids, rev : Revs, state : JobStates]]
  /\ stage \in [Jobs -> {"NONE", "BUILD", "MATCH"}]
  /\ builder \in [Jobs -> Workers \cup {NoWorker}]
  /\ lock \in {0} \cup Jobs /\ toPlace \in SUBSET Ids
  /\ entering \in SUBSET (Ids \X Revs) /\ restarts \in Nat
UploadType == [at : {"none", "open", "first", "second", "rename", "ok", "error"},
               digest : Digests, inode : {0} \cup Inodes]
ArchiveType ==
  /\ tmp \in [Digests -> {0} \cup Inodes] /\ blob \in [Digests -> {0} \cup Inodes]
  /\ half \in [Inodes -> SUBSET Halves]
  /\ upload \in [Workers -> UploadType]

(* Only a process that serves works on results, and what a job is of is not  *)
(* changed under it.                                                         *)
PhaseFits ==
  /\ phase # "up" => lock = 0 /\ entering = {} /\ \A j \in Jobs : stage[j] # "MATCH"
  /\ phase \in {"down", "closing"} => \A j \in Jobs : stage[j] = "NONE"
  /\ phase \in {"closing", "placing"} => op = Idle /\ \A id \in Ids : staged[id] = Absent
  /\ phase # "placing" => toPlace = {}
  /\ \A id \in toPlace : live[id].status = "PENDING"
  /\ lock # 0 => /\ op.do = "status" /\ op.id = log[lock].id
                 /\ stage[lock] = "BUILD" /\ builder[lock] = NoWorker
JobFits(j) ==
  /\ log[j] # NoRecord => log[j].rev # 0
  /\ stage[j] # "NONE" => log[j].rev # 0 /\ log[j].state = "OPEN"
JobsFit == JobsType /\ PhaseFits /\ \A j \in Jobs : JobFits(j)

-----------------------------------------------------------------------------
(* Bots: what READY entries name, and what workers upload.                   *)

Sound(e) ==
  /\ e.status = "READY" => e.artifact # 0 /\ Has(BytesOf[e.artifact])
  /\ e.status = "PENDING" => e.rev # 0
EntriesSound ==
  /\ \A id \in Ids : Sound(live[id]) /\ Sound(staged[id])
  /\ \A pl \in Places, id \in Ids : Sound(dir[pl][id].manifest)
  /\ op.do # "none" => Sound(op.entry)
  /\ \A e \in entering : e[2] # 0
Uploading ==
  /\ \A j \in Jobs : builder[j] # NoWorker =>
       stage[j] = "BUILD" /\ upload[builder[j]].digest = BytesOf[log[j].rev]
  /\ \A i, j \in Jobs : builder[i] = builder[j] /\ builder[i] # NoWorker => i = j

(* A name in work is of a file of its own; and unless two uploads of the same *)
(* bytes met, the one that writes it has written what it is past, and what    *)
(* has its final name is whole.                                               *)
NamesApart ==
  \A d, e \in Digests : tmp[d] # 0 => tmp[d] # blob[e] /\ (tmp[d] = tmp[e] => d = e)
WritesOn(w, d) == Writing(w) /\ upload[w].digest = d
Alone(d) ==
  /\ blob[d] # 0 => half[blob[d]] = Halves
  /\ \A w \in Workers : WritesOn(w, d) =>
       /\ tmp[d] # 0 /\ upload[w].inode = tmp[d]
       /\ upload[w].at = "second" => 1 \in half[tmp[d]]
       /\ upload[w].at = "rename" => half[tmp[d]] = Halves
  /\ \A v, w \in Workers : WritesOn(v, d) /\ WritesOn(w, d) => v = w
ArchiveSound == NamesApart /\ \A d \in Digests : d \notin contended => Alone(d)

ServerInv ==
  StoreInv /\ JobsFit /\ ArchiveType /\ ArchiveSound /\ EntriesSound /\ Uploading

-----------------------------------------------------------------------------
(* The way of a submission to its result.                                    *)

Covered(id) ==
  \/ \E e \in entering : e[1] = id
  \/ op.id = id /\ (op.do = "status" \/ op.at = "stored")
InLog(id) == \E j \in Jobs : log[j].id = id /\ log[j].state \in {"OPEN", "GAVE_UP"}
Remembered ==
  /\ phase \in {"placing", "up"} => \A id \in Ids : Unbuilt(id) =>
       Covered(id) \/ InLog(id) \/ id \in toPlace
  /\ \A j \in Jobs : stage[j] = "MATCH" /\ Unbuilt(log[j].id) => Covered(log[j].id)

(* With versions, an id is of one submission wherever it is written.         *)
OneEach ==
  versions =>
    /\ \A id \in Ids : live[id].rev # 0 => dir["live"][id].manifest.rev = live[id].rev
    /\ \A j \in Jobs : log[j] # NoRecord => live[log[j].id].rev = log[j].rev
    /\ \A e \in entering : live[e[1]].rev = e[2]
    /\ op.at = "stored" => live[op.id].rev = op.entry.rev

-----------------------------------------------------------------------------
(* What is on disk, against what is in memory.                               *)

(* Restarts that are behind the process.                                     *)
Restarted == IF phase = "down" THEN restarts - 1 ELSE restarts

(* The steps that take a directory apart and put it together again.          *)
LiveInWork(id) ==
  op.id = id /\ op.place = "live" /\
    (Creating \/ (op.do = "status" /\ op.at \in {"clear", "rename"}))
StagedInWork(id) ==
  op.id = id /\ op.place = "staged" /\
    (Creating \/ (op.do = "status" /\ op.at \in {"clear", "forget"}))

MethodOnDisk ==
  /\ op.do = "create" /\ op.at = "files" => Here.manifest = Absent
  /\ op.do = "create" /\ op.at = "manifest" =>
       Here.manifest = Absent /\ Here.files = op.entry.rev
  /\ op.do = "status" /\ op.at = "rename" => Here = Gone
(* The sources beside a manifest are of its submission, or were removed.     *)
Belongs(s) == s.manifest # Absent => s.files \in {0, s.manifest.rev}
SourcesBelong == \A pl \in Places, id \in Ids : Belongs(dir[pl][id])
StagedOnDisk(id) ==
  staged[id] # Absent /\ ~ StagedInWork(id) =>
    dir["staged"][id] = [files |-> staged[id].rev, manifest |-> staged[id]]
LiveOnDisk(id) ==
  live[id] # Absent /\ ~ LiveInWork(id) =>
    /\ dir["live"][id].manifest # Absent
    /\ dir["live"][id].manifest.rev = live[id].rev
    /\ dir["live"][id].files = live[id].rev \/
         (dir["live"][id].files = 0 /\ Restarted > 0)
ReadyOnDisk(id) ==
  live[id].status = "READY" /\ (BecomingReady(id) => op.at = "marked") =>
    dir["live"][id].manifest.rev = live[id].rev /\ dir["live"][id].manifest.status = "READY"
OnDisk ==
  /\ phase = "down" => restarts > 0
  /\ MethodOnDisk /\ SourcesBelong
  /\ \A id \in Ids : StagedOnDisk(id) /\ LiveOnDisk(id) /\ ReadyOnDisk(id)

(* After a write, a removal or a rename that failed nothing is claimed.      *)
DiskInv == fails > 0 \/ OnDisk

-----------------------------------------------------------------------------
USE ServerAssumption

LEMMA StoreConstants ==
  /\ Absent \in Entry /\ Gone \in Stored /\ Idle \in OpType
  /\ 0 \in Revs /\ "live" \in Places /\ "staged" \in Places
<1>1. Absent \in Entry /\ Gone \in Stored /\ 0 \in Revs
  BY DEF Absent, Entry, Gone, Stored, Revs
<1>2. PICK p \in Participants : TRUE
  OBVIOUS
<1>3. <<p, 1>> \in Ids
  BY DEF Ids
<1>4. (CHOOSE id \in Ids : TRUE) \in Ids
  BY <1>3
<1> QED
  BY <1>1, <1>4 DEF Idle, OpType, Places

LEMMA MaxOfBounded ==
  ASSUME NEW n \in Nat, NEW S, S \subseteq 0 .. n, S # {}
  PROVE  Max(S) \in S /\ \A x \in S : Max(S) >= x
<1> DEFINE T == {n - x : x \in S}
<1>1. T \subseteq Nat /\ T # {}
  <2>1. \A x \in S : x \in 0 .. n
    OBVIOUS
  <2>2. \A x \in 0 .. n : n - x \in Nat
    OBVIOUS
  <2> QED
    BY <2>1, <2>2
<1>2. PICK m \in T : \A y \in T : ~ (<<y, m>> \in OpToRel(<, Nat))
  BY <1>1, NatLessThanWellFounded, WFMin
<1>3. \A y \in T : ~ (y < m)
  BY <1>1, <1>2 DEF OpToRel
<1>4. PICK x \in S : m = n - x
  BY <1>2
<1>5. \A y \in S : x >= y
  <2> TAKE y \in S
  <2>1. ~ (n - y < n - x)
    BY <1>3, <1>4
  <2>2. x \in 0 .. n /\ y \in 0 .. n
    OBVIOUS
  <2> QED
    BY <2>1, <2>2
<1> QED
  BY <1>5 DEF Max

(* The id a submission gets is one that was not given out, with versions.    *)
LEMMA NewId ==
  ASSUME StoreInv, NEW p \in Participants, revs[p] < MaxRev
  PROVE  /\ IdFor(p) \in Ids
         /\ versions => live[IdFor(p)] = Absent /\ IdFor(p)[2] <= revs[p] + 1
         /\ IdFor(p)[1] = p
<1>1. revs[p] \in 0 .. MaxRev /\ versions \in BOOLEAN
  BY DEF StoreInv, StoreType, Revs
<1>2. CASE ~ versions
  BY <1>2 DEF IdFor, Ids
<1>3. CASE versions
  <2> DEFINE S == {0} \cup {n \in 1 .. MaxRev : live[<<p, n>>] # Absent}
  <2>1. \A n \in S : n \in 0 .. revs[p]
    <3> SUFFICES ASSUME NEW n \in 1 .. MaxRev, live[<<p, n>>] # Absent
                 PROVE  n <= revs[p]
      BY <1>1
    <3>1. <<p, n>> \in Ids
      BY DEF Ids
    <3> QED
      BY <1>3, <3>1 DEF StoreInv, Numbered
  <2>2. S \subseteq 0 .. revs[p] /\ S # {} /\ revs[p] \in Nat
    <3>1. 0 \in S
      OBVIOUS
    <3> HIDE DEF S
    <3> QED
      BY <1>1, <2>1, <3>1
  <2>3. Max(S) \in S /\ \A x \in S : Max(S) >= x
    <3> HIDE DEF S
    <3> QED
      BY <2>2, MaxOfBounded
  <2>4. Max(S) \in 0 .. revs[p] /\ Highest(p) = Max(S)
    BY <2>1, <2>3 DEF Highest
  <2> HIDE DEF S
  <2>5. Highest(p) + 1 \in 1 .. MaxRev /\ Highest(p) + 1 <= revs[p] + 1
    BY <1>1, <2>4
  <2>6. live[<<p, Highest(p) + 1>>] = Absent
    <3> SUFFICES ASSUME live[<<p, Highest(p) + 1>>] # Absent PROVE FALSE
      OBVIOUS
    <3>1. Highest(p) + 1 \in S
      BY <2>5 DEF S
    <3> QED
      BY <1>1, <2>3, <2>4, <3>1
  <2> QED
    BY <1>3, <2>5, <2>6 DEF IdFor, Ids
<1> QED
  BY <1>1, <1>2, <1>3

-----------------------------------------------------------------------------
(* The steps of the store's methods, as what they change.                    *)

OpGoes(at) == op' = [op EXCEPT !.at = at]
DirIs(pl, id, v) ==
  /\ dir' \in [Places -> [Ids -> Stored]] /\ dir'[pl][id] = v
  /\ \A q \in Places, i \in Ids : <<q, i>> # <<pl, id>> => dir'[q][i] = dir[q][i]

LEMMA DirChanges ==
  ASSUME StoreType, NEW pl \in Places, NEW id \in Ids
  PROVE  /\ \A f \in Revs : dir' = [dir EXCEPT ![pl][id].files = f] =>
              DirIs(pl, id, [files |-> f, manifest |-> dir[pl][id].manifest])
         /\ \A m \in Entry : dir' = [dir EXCEPT ![pl][id].manifest = m] =>
              DirIs(pl, id, [files |-> dir[pl][id].files, manifest |-> m])
<1>1. dir \in [Places -> [Ids -> Stored]] /\ dir[pl][id] \in Stored
  BY DEF StoreType
<1>2. ASSUME NEW f \in Revs, dir' = [dir EXCEPT ![pl][id].files = f]
      PROVE  DirIs(pl, id, [files |-> f, manifest |-> dir[pl][id].manifest])
  BY <1>1, <1>2 DEF DirIs, Stored
<1>3. ASSUME NEW m \in Entry, dir' = [dir EXCEPT ![pl][id].manifest = m]
      PROVE  DirIs(pl, id, [files |-> dir[pl][id].files, manifest |-> m])
  BY <1>1, <1>3 DEF DirIs, Stored
<1> QED
  BY <1>2, <1>3

Still == UNCHANGED <<versions, revs, live, staged>>

ClearDoes ==
  /\ op.at = "clear" /\ Still
  /\ \/ /\ op' = op /\ DirIs(op.place, op.id, [files |-> 0, manifest |-> Here.manifest])
        /\ fails' = fails
     \/ /\ op' = op /\ DirIs(op.place, op.id, [files |-> Here.files, manifest |-> Absent])
        /\ fails' = fails
     \/ /\ dir' = dir /\ ((Here = Gone /\ fails' = fails) \/ fails' = fails + 1)
        /\ op' = [op EXCEPT !.at = IF op.do = "create" THEN "files"
                                   ELSE IF op.place = "live" THEN "rename" ELSE "forget"]
LEMMA ClearEffect == ASSUME StoreType, Clear PROVE ClearDoes
<1>1. op.place \in Places /\ op.id \in Ids
  BY DEF StoreType, OpType
<1> QED
  BY <1>1, DirChanges, StoreConstants
     DEF Clear, ClearDoes, Cleared, Still, Memory, Rest, Here, Step, Works, Fail

WriteFilesDoes ==
  /\ op.do = "create" /\ op.at = "files" /\ Still
  /\ \/ /\ DirIs(op.place, op.id, [files |-> op.entry.rev, manifest |-> Here.manifest])
        /\ OpGoes("manifest") /\ fails' = fails
     \/ dir' = dir /\ OpGoes("refused") /\ fails' = fails + 1
LEMMA WriteFilesEffect == ASSUME StoreType, WriteFiles PROVE WriteFilesDoes
<1>1. op.place \in Places /\ op.id \in Ids /\ op.entry.rev \in Revs
  BY DEF StoreType, OpType, Entry
<1> QED
  BY <1>1, DirChanges
     DEF WriteFiles, WriteFilesDoes, Still, Memory, Rest, Here, Step, At, Fail, Works, OpGoes

WriteNewManifestDoes ==
  /\ op.do = "create" /\ op.at = "manifest" /\ UNCHANGED <<versions, revs>>
  /\ \/ /\ DirIs(op.place, op.id, [files |-> Here.files, manifest |-> op.entry])
        /\ IF op.place = "staged"
           THEN staged' = [staged EXCEPT ![op.id] = op.entry] /\ live' = live
           ELSE live' = [live EXCEPT ![op.id] = op.entry] /\ staged' = staged
        /\ OpGoes("stored") /\ fails' = fails
     \/ UNCHANGED <<live, staged, dir>> /\ OpGoes("refused") /\ fails' = fails + 1
LEMMA WriteNewManifestEffect == ASSUME StoreType, WriteNewManifest PROVE WriteNewManifestDoes
<1>1. op.place \in Places /\ op.id \in Ids /\ op.entry \in Entry
  BY DEF StoreType, OpType
<1> QED
  BY <1>1, DirChanges
     DEF WriteNewManifest, WriteNewManifestDoes, Memory, Rest, Here, Step, At, Fail, Works, OpGoes

Moved ==
  /\ dir["live"][op.id] = Gone /\ fails' = fails
  /\ dir' \in [Places -> [Ids -> Stored]]
  /\ dir'["live"][op.id] = dir["staged"][op.id] /\ dir'["staged"][op.id] = Gone
  /\ \A pl \in Places, id \in Ids : id # op.id => dir'[pl][id] = dir[pl][id]
RenameDoes ==
  /\ op.do = "status" /\ op.at = "rename" /\ UNCHANGED <<versions, revs>>
  /\ \/ Moved
     \/ dir' = dir /\ ((dir["live"][op.id] # Gone /\ fails' = fails) \/ fails' = fails + 1)
  /\ live' = [live EXCEPT ![op.id] = staged[op.id]]
  /\ staged' = [staged EXCEPT ![op.id] = Absent]
  /\ OpGoes("mark")
LEMMA RenameEffect == ASSUME StoreType, Rename PROVE RenameDoes
<1>1. op.id \in Ids /\ dir \in [Places -> [Ids -> Stored]]
  BY DEF StoreType, OpType
<1>2. ASSUME StagedMoves PROVE Moved
  <2>1. dir' = [dir EXCEPT !["live"][op.id] = dir["staged"][op.id], !["staged"][op.id] = Gone]
    BY <1>2 DEF StagedMoves
  <2>2. dir' \in [Places -> [Ids -> Stored]]
    BY <1>1, <2>1, StoreConstants DEF Places
  <2>3. /\ dir'["live"] = [dir["live"] EXCEPT ![op.id] = dir["staged"][op.id]]
        /\ dir'["staged"] = [dir["staged"] EXCEPT ![op.id] = Gone]
    BY <1>1, <2>1 DEF Places
  <2>4. \A pl \in Places, id \in Ids : id # op.id => dir'[pl][id] = dir[pl][id]
    BY <1>1, <2>3 DEF Places
  <2>5. dir'["live"][op.id] = dir["staged"][op.id] /\ dir'["staged"][op.id] = Gone
    BY <1>1, <2>3, StoreConstants
  <2> QED
    BY <1>2, <2>2, <2>4, <2>5 DEF Moved, StagedMoves, Works
<1>3. ASSUME StagedStays
      PROVE  dir' = dir /\
               ((dir["live"][op.id] # Gone /\ fails' = fails) \/ fails' = fails + 1)
  BY <1>3 DEF StagedStays, Works, Fail
<1> QED
  BY <1>2, <1>3 DEF Rename, RenameDoes, Rest, Step, At, OpGoes

ForgetDoes ==
  /\ op.do = "status" /\ op.at = "forget" /\ UNCHANGED <<versions, revs, live, dir, fails>>
  /\ staged' = [staged EXCEPT ![op.id] = Absent] /\ OpGoes("marked")
LEMMA ForgetEffect == ASSUME Forget PROVE ForgetDoes
BY DEF Forget, ForgetDoes, Rest, Step, At, OpGoes

MarkDoes ==
  /\ op.do = "status" /\ op.at = "mark" /\ UNCHANGED <<versions, revs, staged, dir, fails>>
  /\ live' = [live EXCEPT ![op.id] = Marked(live[op.id])] /\ OpGoes("manifest")
LEMMA MarkEffect == ASSUME Mark PROVE MarkDoes
BY DEF Mark, MarkDoes, Rest, Step, At, OpGoes

WriteManifestDoes ==
  /\ op.do = "status" /\ op.at = "manifest" /\ Still /\ OpGoes("marked")
  /\ \/ /\ DirIs("live", op.id, [files |-> dir["live"][op.id].files,
                                 manifest |-> live[op.id]])
        /\ fails' = fails
     \/ dir' = dir /\ dir["live"][op.id] = Gone /\ fails' = fails
     \/ dir' = dir /\ fails' = fails + 1
LEMMA WriteManifestEffect == ASSUME StoreType, WriteManifest PROVE WriteManifestDoes
<1>1. "live" \in Places /\ op.id \in Ids /\ live[op.id] \in Entry
  BY StoreConstants DEF StoreType, OpType
<1> QED
  BY <1>1, DirChanges
     DEF WriteManifest, WriteManifestDoes, Still, Memory, Rest, Step, At, Fail, Works, OpGoes

StoreStepDoes ==
  ClearDoes \/ WriteFilesDoes \/ WriteNewManifestDoes \/ RenameDoes \/ ForgetDoes \/
  MarkDoes \/ WriteManifestDoes
LEMMA StoreStepEffect == ASSUME StoreType, StoreStep PROVE StoreStepDoes
BY ClearEffect, WriteFilesEffect, WriteNewManifestEffect, RenameEffect, ForgetEffect,
   MarkEffect, WriteManifestEffect DEF StoreStep, StoreStepDoes

(* The store's methods keep what they rely on.                               *)
LEMMA StoreStepType == ASSUME StoreType, StoreStepDoes PROVE StoreType'
<1> USE DEF OpGoes, DirIs, Still
<1>1. /\ versions \in BOOLEAN /\ live \in [Ids -> Entry] /\ staged \in [Ids -> Entry]
      /\ dir \in [Places -> [Ids -> Stored]] /\ op \in OpType
      /\ revs \in [Participants -> Revs] /\ fails \in Nat
  BY DEF StoreType
<1>2. /\ op.id \in Ids /\ op.place \in Places /\ op.entry \in Entry
      /\ \A a \in {"clear", "files", "manifest", "stored", "refused", "rename",
                   "forget", "mark", "marked"} : [op EXCEPT !.at = a] \in OpType
  BY <1>1 DEF OpType
<1>3. CASE ClearDoes
  <2>1. op' \in OpType
    BY <1>1, <1>2, <1>3 DEF ClearDoes
  <2>2. fails' \in Nat
    <3>1. fails' = fails \/ fails' = fails + 1
      BY <1>3 DEF ClearDoes
    <3> QED
      BY <1>1, <3>1
  <2>3. dir' \in [Places -> [Ids -> Stored]]
    BY <1>1, <1>3 DEF ClearDoes
  <2> QED
    BY <1>1, <1>3, <2>1, <2>2, <2>3 DEF ClearDoes, StoreType
<1>4. CASE WriteFilesDoes
  <2>1. op' \in OpType /\ fails' \in Nat /\ dir' \in [Places -> [Ids -> Stored]]
    <3>1. op' \in OpType
      BY <1>2, <1>4 DEF WriteFilesDoes
    <3>2. fails' \in Nat
      BY <1>1, <1>4 DEF WriteFilesDoes
    <3>3. dir' \in [Places -> [Ids -> Stored]]
      BY <1>1, <1>4 DEF WriteFilesDoes
    <3> QED
      BY <3>1, <3>2, <3>3
  <2> QED
    BY <1>1, <1>4, <2>1 DEF WriteFilesDoes, StoreType
<1>5. CASE WriteNewManifestDoes
  <2>1. op' \in OpType /\ fails' \in Nat /\ dir' \in [Places -> [Ids -> Stored]]
    <3>1. op' \in OpType
      BY <1>2, <1>5 DEF WriteNewManifestDoes
    <3>2. fails' \in Nat
      BY <1>1, <1>5 DEF WriteNewManifestDoes
    <3>3. dir' \in [Places -> [Ids -> Stored]]
      BY <1>1, <1>5 DEF WriteNewManifestDoes
    <3> QED
      BY <3>1, <3>2, <3>3
  <2>2. live' \in [Ids -> Entry] /\ staged' \in [Ids -> Entry]
    BY <1>1, <1>2, <1>5 DEF WriteNewManifestDoes
  <2> QED
    BY <1>1, <1>5, <2>1, <2>2 DEF WriteNewManifestDoes, StoreType
<1>6. CASE RenameDoes
  <2>1. fails' \in Nat
    <3>1. fails' = fails \/ fails' = fails + 1
      BY <1>6 DEF RenameDoes, Moved
    <3> QED
      BY <1>1, <3>1
  <2>2. dir' \in [Places -> [Ids -> Stored]]
    BY <1>1, <1>6 DEF RenameDoes, Moved
  <2> QED
    BY <1>1, <1>2, <1>6, <2>1, <2>2, StoreConstants DEF RenameDoes, StoreType
<1>7. CASE ForgetDoes
  BY <1>1, <1>2, <1>7, StoreConstants DEF ForgetDoes, StoreType
<1>8. CASE MarkDoes
  <2>1. Marked(live[op.id]) \in Entry
    <3>1. live[op.id] \in Entry
      BY <1>1, <1>2
    <3> QED
      BY <1>2, <3>1 DEF Marked, Entry
  <2> QED
    BY <1>1, <1>2, <1>8, <2>1 DEF MarkDoes, StoreType
<1>9. CASE WriteManifestDoes
  BY <1>1, <1>2, <1>9 DEF WriteManifestDoes, StoreType
<1> QED
  BY <1>3, <1>4, <1>5, <1>6, <1>7, <1>8, <1>9 DEF StoreStepDoes

(* Who has the store's mutex, and for what, stays so.                        *)
LEMMA StoreStepOp ==
  ASSUME StoreType, StoreStepDoes
  PROVE  /\ op'.do = op.do /\ op'.id = op.id /\ op'.place = op.place /\ op'.entry = op.entry
         /\ op'.at # "idle" /\ versions' = versions /\ revs' = revs
         /\ fails' = fails \/ fails' = fails + 1
         /\ \A id \in Ids : id # op.id =>
              /\ live'[id] = live[id] /\ staged'[id] = staged[id]
              /\ \A pl \in Places : dir'[pl][id] = dir[pl][id]
<1> USE DEF OpGoes, DirIs, Still
<1>1. /\ live \in [Ids -> Entry] /\ staged \in [Ids -> Entry] /\ op \in OpType
      /\ op.id \in Ids
  BY DEF StoreType, OpType
<1>2. \A a : LET q == [op EXCEPT !.at = a] IN
        q.do = op.do /\ q.id = op.id /\ q.place = op.place /\ q.entry = op.entry /\ q.at = a
  BY <1>1 DEF OpType
<1>3. CASE ClearDoes
  <2>1. /\ versions' = versions /\ revs' = revs /\ (fails' = fails \/ fails' = fails + 1)
        /\ live' = live /\ staged' = staged
    BY <1>3 DEF ClearDoes
  <2>2. \A pl \in Places, id \in Ids : id # op.id => dir'[pl][id] = dir[pl][id]
    BY <1>3 DEF ClearDoes
  <2>3. op' = op \/ \E a \in {"files", "rename", "forget"} : OpGoes(a)
    BY <1>3 DEF ClearDoes
  <2>4. op'.do = op.do /\ op'.id = op.id /\ op'.place = op.place /\ op'.entry = op.entry
    BY <1>2, <2>3
  <2>5. op'.at # "idle"
    <3>1. op.at = "clear"
      BY <1>3 DEF ClearDoes
    <3> QED
      BY <1>2, <2>3, <3>1
  <2> QED
    BY <2>1, <2>2, <2>4, <2>5
<1>4. CASE WriteFilesDoes
  <2>1. \E a \in {"manifest", "refused"} : OpGoes(a)
    BY <1>4 DEF WriteFilesDoes
  <2>2. \A pl \in Places, id \in Ids : id # op.id => dir'[pl][id] = dir[pl][id]
    BY <1>4 DEF WriteFilesDoes
  <2> QED
    <3>1. live' = live /\ staged' = staged /\ versions' = versions /\ revs' = revs
      BY <1>4 DEF WriteFilesDoes
    <3>2. op'.do = op.do /\ op'.id = op.id /\ op'.place = op.place /\ op'.entry = op.entry
          /\ op'.at # "idle"
      <4>1. PICK a : OpGoes(a) /\ a # "idle"
        BY <2>1
      <4> QED
        BY <1>2, <4>1
    <3>3. fails' = fails \/ fails' = fails + 1
      BY <1>4 DEF WriteFilesDoes
    <3> QED
      BY <2>2, <3>1, <3>2, <3>3
<1>5. CASE WriteNewManifestDoes
  <2>1. \E a \in {"stored", "refused"} : OpGoes(a)
    BY <1>5 DEF WriteNewManifestDoes
  <2>2. \A pl \in Places, id \in Ids : id # op.id => dir'[pl][id] = dir[pl][id]
    BY <1>5 DEF WriteNewManifestDoes
  <2>3. \A id \in Ids : id # op.id => live'[id] = live[id] /\ staged'[id] = staged[id]
    BY <1>1, <1>5 DEF WriteNewManifestDoes
  <2> QED
    <3>1. versions' = versions /\ revs' = revs
      BY <1>5 DEF WriteNewManifestDoes
    <3>2. op'.do = op.do /\ op'.id = op.id /\ op'.place = op.place /\ op'.entry = op.entry
          /\ op'.at # "idle"
      <4>1. PICK a : OpGoes(a) /\ a # "idle"
        BY <2>1
      <4> QED
        BY <1>2, <4>1
    <3>3. fails' = fails \/ fails' = fails + 1
      BY <1>5 DEF WriteNewManifestDoes
    <3> QED
      BY <2>2, <2>3, <3>1, <3>2, <3>3
<1>6. CASE RenameDoes
  BY <1>1, <1>2, <1>6 DEF RenameDoes, Moved
<1>7. CASE ForgetDoes
  BY <1>1, <1>2, <1>7 DEF ForgetDoes
<1>8. CASE MarkDoes
  BY <1>1, <1>2, <1>8 DEF MarkDoes
<1>9. CASE WriteManifestDoes
  BY <1>1, <1>2, <1>9 DEF WriteManifestDoes
<1> QED
  BY <1>3, <1>4, <1>5, <1>6, <1>7, <1>8, <1>9 DEF StoreStepDoes

LEMMA EntryFields ==
  /\ Absent.rev = 0 /\ Absent.status = "ABSENT" /\ Absent.artifact = 0
  /\ Gone.files = 0 /\ Gone.manifest = Absent
BY DEF Absent, Gone

LEMMA StoreStepKeeps == ASSUME StoreInv, StoreStepDoes, op.do # "none" PROVE StoreInv'
<1>1. StoreType /\ StoreType'
  BY StoreStepType DEF StoreInv
<1>2. /\ live \in [Ids -> Entry] /\ staged \in [Ids -> Entry] /\ op \in OpType
      /\ op.id \in Ids /\ op.place \in Places /\ op.entry \in Entry
      /\ op.do \in {"none", "create", "status"}
  BY <1>1 DEF StoreType, OpType
<1>3. /\ op'.do = op.do /\ op'.id = op.id /\ op'.place = op.place /\ op'.entry = op.entry
      /\ versions' = versions /\ revs' = revs
      /\ \A id \in Ids : id # op.id =>
           /\ live'[id] = live[id] /\ staged'[id] = staged[id]
           /\ dir'["live"][id] = dir["live"][id]
  BY <1>1, StoreStepOp, StoreConstants
<1>4. op'.do # "none" /\ op' # Idle
  BY <1>3 DEF Idle
(* What the step does to the entry the method is about.                      *)
<1>5. CASE ClearDoes
  <2>1. /\ live' = live /\ staged' = staged
        /\ op'.at = op.at \/ op'.at = IF op.do = "create" THEN "files"
                                ELSE IF op.place = "live" THEN "rename" ELSE "forget"
        /\ op.at = "clear"
        /\ dir'["live"][op.id].manifest = Absent
           \/ dir'["live"][op.id].manifest = dir["live"][op.id].manifest
    BY <1>2, <1>5, StoreConstants DEF ClearDoes, Still, DirIs, Here, OpType
  <2>2. OpFits'
    BY <1>2, <1>3, <1>4, <2>1
       DEF StoreInv, OpFits, CreateFits, StatusFits, Creating, Places
  <2>3. Behind' /\ Numbered'
    BY <1>2, <1>3, <2>1 DEF StoreInv, OpFits, CreateFits, StatusFits, Creating, Behind, Numbered
  <2> QED
    BY <1>1, <2>2, <2>3 DEF StoreInv
<1>6. CASE WriteFilesDoes
  <2>1. /\ live' = live /\ staged' = staged
        /\ op.do = "create" /\ op.at = "files" /\ op'.at \in {"manifest", "refused"}
        /\ dir'["live"][op.id].manifest = dir["live"][op.id].manifest
    BY <1>2, <1>6, StoreConstants DEF WriteFilesDoes, Still, DirIs, Here, OpType, OpGoes
  <2>2. OpFits'
    BY <1>2, <1>3, <1>4, <2>1 DEF StoreInv, OpFits, CreateFits, Creating
  <2>3. Behind' /\ Numbered'
    BY <1>2, <1>3, <2>1 DEF StoreInv, OpFits, CreateFits, Creating, Behind, Numbered
  <2> QED
    BY <1>1, <2>2, <2>3 DEF StoreInv
<1>7. CASE WriteNewManifestDoes
  <2>1. /\ op.do = "create" /\ op.at = "manifest" /\ op'.at \in {"stored", "refused"}
        /\ \/ live' = live /\ staged' = staged
           \/ op.place = "staged" /\ live' = live /\ staged'[op.id] = op.entry
           \/ op.place = "live" /\ live'[op.id] = op.entry /\ staged' = staged
    BY <1>2, <1>7 DEF WriteNewManifestDoes, OpType, OpGoes, Places
  <2>2. OpFits'
    BY <1>2, <1>3, <1>4, <2>1 DEF StoreInv, OpFits, CreateFits, Creating
  <2>3. Behind'
    BY <1>2, <1>3, <2>1 DEF StoreInv, OpFits, CreateFits, Creating, Behind
  <2>4. Numbered'
    BY <1>2, <1>3, <2>1 DEF StoreInv, OpFits, CreateFits, Creating, Numbered
  <2> QED
    BY <1>1, <2>2, <2>3, <2>4 DEF StoreInv
<1>8. CASE RenameDoes
  <2>1. /\ op.do = "status" /\ op.at = "rename" /\ op'.at = "mark"
        /\ live'[op.id] = staged[op.id] /\ staged'[op.id] = Absent
    BY <1>2, <1>8 DEF RenameDoes, OpType, OpGoes
  <2>2. OpFits'
    BY <1>2, <1>3, <1>4, <2>1 DEF StoreInv, OpFits, StatusFits
  <2>3. Behind'
    BY <1>3, <2>1 DEF StoreInv, Behind
  <2>4. ~ versions
    BY <1>2, <2>1 DEF StoreInv, OpFits, StatusFits, Numbered
  <2>5. Numbered'
    BY <1>3, <2>4 DEF Numbered
  <2> QED
    BY <1>1, <2>2, <2>3, <2>5 DEF StoreInv
<1>9. CASE ForgetDoes
  <2>1. /\ op.do = "status" /\ op.at = "forget" /\ op'.at = "marked"
        /\ live' = live /\ staged'[op.id] = Absent /\ dir' = dir
    BY <1>2, <1>9 DEF ForgetDoes, OpType, OpGoes
  <2>2. OpFits'
    BY <1>2, <1>3, <1>4, <2>1 DEF StoreInv, OpFits, StatusFits, Behind
  <2>3. Behind'
    BY <1>3, <2>1 DEF StoreInv, Behind
  <2>4. ~ versions
    BY <1>2, <2>1 DEF StoreInv, OpFits, StatusFits, Numbered
  <2>5. Numbered'
    BY <1>3, <2>4 DEF Numbered
  <2> QED
    BY <1>1, <2>2, <2>3, <2>5 DEF StoreInv
<1>10. CASE MarkDoes
  <2>1. /\ op.do = "status" /\ op.at = "mark" /\ op'.at = "manifest"
        /\ live'[op.id].status = op.entry.status /\ staged' = staged /\ dir' = dir
    BY <1>2, <1>10 DEF MarkDoes, OpType, OpGoes, Marked, Entry
  <2>2. OpFits'
    BY <1>2, <1>3, <1>4, <2>1, EntryFields DEF StoreInv, OpFits, StatusFits
  <2>3. Behind'
    BY <1>3, <2>1 DEF StoreInv, OpFits, StatusFits, Behind
  <2>4. Numbered'
    BY <1>2, <1>3, <2>1 DEF StoreInv, OpFits, StatusFits, Creating, Numbered
  <2> QED
    BY <1>1, <2>2, <2>3, <2>4 DEF StoreInv
<1>11. CASE WriteManifestDoes
  <2>1. /\ op.do = "status" /\ op.at = "manifest" /\ op'.at = "marked"
        /\ live' = live /\ staged' = staged
        /\ dir'["live"][op.id].manifest \in {live[op.id], dir["live"][op.id].manifest}
    BY <1>2, <1>11, StoreConstants DEF WriteManifestDoes, OpType, OpGoes, Still, DirIs
  <2>2. OpFits'
    BY <1>2, <1>3, <1>4, <2>1 DEF StoreInv, OpFits, StatusFits
  <2>3. Behind'
    BY <1>3, <2>1 DEF StoreInv, OpFits, StatusFits, Behind
  <2>4. Numbered'
    BY <1>2, <1>3, <2>1 DEF StoreInv, OpFits, StatusFits, Creating, Numbered
  <2> QED
    BY <1>1, <2>2, <2>3, <2>4 DEF StoreInv
<1> QED
  BY <1>5, <1>6, <1>7, <1>8, <1>9, <1>10, <1>11 DEF StoreStepDoes

LEMMA StepIsAMethods ==
  ASSUME StoreInv, StoreStep
  PROVE  StoreStepDoes /\ op.do # "none"
<1>1. StoreStepDoes
  BY StoreStepEffect DEF StoreInv
<1>2. op.at # "idle"
  BY <1>1 DEF StoreStepDoes, ClearDoes, WriteFilesDoes, WriteNewManifestDoes, RenameDoes,
     ForgetDoes, MarkDoes, WriteManifestDoes
<1> QED
  BY <1>1, <1>2 DEF StoreInv, OpFits, Idle

(* The other steps that change the store's state.                            *)
LEMMA QuietStore == ASSUME StoreInv, UNCHANGED storeVars PROVE StoreInv'
BY DEF storeVars, StoreInv, StoreType, OpFits, CreateFits, StatusFits, Creating, Behind,
   Numbered

LEMMA StartCreateKeeps ==
  ASSUME StoreInv, NEW p \in Participants, StartCreate(p)
  PROVE  /\ StoreInv' /\ op = Idle
         /\ UNCHANGED <<versions, live, staged, dir, fails>>
         /\ op'.do = "create" /\ op'.at = "clear"
         /\ op'.entry = [rev |-> revs[p] + 1, status |-> "PENDING", artifact |-> 0]
<1> DEFINE id == IdFor(p)
           e == [rev |-> revs[p] + 1, status |-> "PENDING", artifact |-> 0]
<1>1. /\ id \in Ids /\ id[1] = p
      /\ versions => live[id] = Absent /\ id[2] <= revs[p] + 1
  BY NewId DEF StartCreate
<1>2. /\ op = Idle /\ revs' = [revs EXCEPT ![p] = @ + 1]
      /\ op' = [do |-> "create", id |-> id, at |-> "clear", place |-> PlaceOf(id),
                entry |-> e]
      /\ UNCHANGED <<versions, live, staged, dir, fails>>
  BY DEF StartCreate
<1>3. revs \in [Participants -> Revs] /\ revs[p] + 1 \in Revs /\ revs[p] + 1 # 0
  BY DEF StoreInv, StoreType, StartCreate, Revs
<1>4. e \in Entry
  BY <1>3 DEF Entry, Revs
<1>5. PlaceOf(id) \in Places /\ (PlaceOf(id) = "live" <=> live[id].status # "READY")
  BY DEF PlaceOf, Places
<1> HIDE DEF id, e
<1>6. op' \in OpType
  BY <1>1, <1>2, <1>4, <1>5 DEF OpType
<1>7. StoreType'
  BY <1>2, <1>3, <1>6 DEF StoreInv, StoreType
<1>8. OpFits'
  <2>1. op'.do = "create" /\ op'.at = "clear" /\ op'.id = id /\ op'.place = PlaceOf(id)
        /\ op'.entry.status = "PENDING" /\ op'.entry.rev # 0
    BY <1>2, <1>3 DEF e
  <2> QED
    BY <1>2, <1>5, <2>1 DEF OpFits, CreateFits, Creating, Idle
<1>9. Behind'
  BY <1>2 DEF StoreInv, Behind
<1>10. Numbered'
  <2> SUFFICES ASSUME versions PROVE Numbered'
    BY <1>2 DEF Numbered
  <2>1. \A q \in Participants : revs[q] <= revs'[q] /\ revs'[p] = revs[p] + 1
    BY <1>2, <1>3 DEF Revs
  <2>2. \A i \in Ids : i[1] \in Participants /\ i[2] \in Nat
    BY DEF Ids
  <2>3. \A i \in Ids : revs[i[1]] \in Nat /\ revs'[i[1]] \in Nat /\ revs[i[1]] <= revs'[i[1]]
    BY <1>3, <1>7, <2>1, <2>2 DEF StoreType, Revs
  <2>4. \A i \in Ids : live'[i] # Absent \/ dir'["live"][i].manifest # Absent
                         => i[2] <= revs'[i[1]]
    <3> SUFFICES ASSUME NEW i \in Ids, live[i] # Absent \/ dir["live"][i].manifest # Absent
                 PROVE  i[2] <= revs'[i[1]]
      BY <1>2
    <3>1. i[2] <= revs[i[1]]
      BY DEF StoreInv, Numbered
    <3> QED
      BY <2>2, <2>3, <3>1
  <2>5. op'.id = id /\ op'.place = "live" /\ id[2] <= revs'[id[1]] /\ live'[id] = Absent
    BY <1>1, <1>2, <1>5, <2>1, EntryFields
  <2>6. \A i \in Ids : staged'[i] = Absent
    BY <1>2 DEF StoreInv, Numbered
  <2> QED
    BY <2>4, <2>5, <2>6 DEF Numbered
<1> QED
  BY <1>2, <1>7, <1>8, <1>9, <1>10 DEF StoreInv, e

LEMMA StartStatusKeeps ==
  ASSUME StoreInv, NEW id \in Ids, NEW a \in Revs, NEW status \in {"READY", "BUILD_FAILED"},
         StartSetStatus(id, status, a)
  PROVE  /\ StoreInv' /\ op = Idle
         /\ UNCHANGED <<versions, revs, live, staged, dir, fails>>
         /\ op'.do = "status" /\ op'.id = id
         /\ op'.entry = [rev |-> 0, status |-> status, artifact |-> a]
         /\ op'.place = IF status = "READY" THEN "live" ELSE "staged"
         /\ op'.at = IF staged[id] # Absent THEN "clear"
                     ELSE IF live[id] # Absent THEN "mark" ELSE "marked"
<1> DEFINE e == [rev |-> 0, status |-> status, artifact |-> a]
<1>1. /\ op = Idle /\ UNCHANGED <<versions, revs, live, staged, dir, fails>>
      /\ op' = [do |-> "status", id |-> id,
                at |-> IF staged[id] # Absent THEN "clear"
                       ELSE IF live[id] # Absent THEN "mark" ELSE "marked",
                place |-> IF status = "READY" THEN "live" ELSE "staged", entry |-> e]
  BY DEF StartSetStatus, Memory, Rest
<1>2. e \in Entry
  BY DEF Entry, Revs
<1>3. /\ op'.do = "status" /\ op'.id = id /\ op'.entry = e
      /\ op'.place = IF status = "READY" THEN "live" ELSE "staged"
      /\ op'.at = IF staged[id] # Absent THEN "clear"
                  ELSE IF live[id] # Absent THEN "mark" ELSE "marked"
      /\ op'.entry.status = status
  BY <1>1
<1> HIDE DEF e
<1>4. op' \in OpType
  BY <1>1, <1>2 DEF OpType, Places
<1>5. StoreType'
  BY <1>1, <1>4 DEF StoreInv, StoreType
<1>6. OpFits'
  BY <1>1, <1>3, EntryFields DEF OpFits, StatusFits, Idle
<1>7. Behind'
  BY <1>1 DEF StoreInv, Behind
<1>8. Numbered'
  BY <1>1, <1>3 DEF StoreInv, Numbered, Creating
<1> QED
  BY <1>1, <1>3, <1>5, <1>6, <1>7, <1>8 DEF StoreInv, e

LEMMA ReturnKeeps ==
  ASSUME StoreInv, op' = Idle, UNCHANGED <<versions, live, staged, dir, revs, fails>>
  PROVE  StoreInv'
<1>1. StoreType'
  BY StoreConstants DEF StoreInv, StoreType
<1>2. Idle.do = "none"
  BY DEF Idle
<1> QED
  BY <1>1, <1>2 DEF StoreInv, OpFits, Behind, Numbered, Creating

LEMMA LoadKeeps ==
  ASSUME StoreInv, Load
  PROVE  /\ StoreInv' /\ op' = Idle /\ UNCHANGED <<versions, revs>>
         /\ fails' = fails \/ fails' = fails + 1
         /\ \A id \in Ids : /\ live'[id] = dir["live"][id].manifest /\ staged'[id] = Absent
                            /\ dir'["live"][id] = dir["live"][id]
                            /\ \/ dir'["staged"][id] = Gone
                               \/ dir'["staged"][id] = dir["staged"][id] /\ fails' # fails
<1>1. /\ live' = [id \in Ids |-> dir["live"][id].manifest]
      /\ staged' = [id \in Ids |-> Absent]
      /\ \/ dir' = [dir EXCEPT !["staged"] = [id \in Ids |-> Gone]] /\ fails' = fails
         \/ dir' = dir /\ fails' = fails + 1
      /\ op' = Idle /\ UNCHANGED <<versions, revs>>
  BY DEF Load, Rest, Works, Fail
<1>2. dir \in [Places -> [Ids -> Stored]] /\ fails \in Nat
  BY DEF StoreInv, StoreType
<1>3. /\ dir' \in [Places -> [Ids -> Stored]] /\ fails' \in Nat
      /\ \A id \in Ids : /\ dir'["live"][id] = dir["live"][id]
                         /\ \/ dir'["staged"][id] = Gone
                            \/ dir'["staged"][id] = dir["staged"][id] /\ fails' # fails
  <2>1. CASE dir' = [dir EXCEPT !["staged"] = [id \in Ids |-> Gone]] /\ fails' = fails
    BY <1>2, <2>1, StoreConstants DEF Places
  <2>2. CASE dir' = dir /\ fails' = fails + 1
    BY <1>2, <2>2
  <2> QED
    BY <1>1, <2>1, <2>2
<1>4. live' \in [Ids -> Entry] /\ staged' \in [Ids -> Entry]
  BY <1>1, <1>2, StoreConstants DEF Stored
<1>5. StoreType'
  BY <1>1, <1>3, <1>4, StoreConstants DEF StoreInv, StoreType
<1>6. Idle.do = "none"
  BY DEF Idle
<1>7. OpFits' /\ Behind'
  BY <1>1, <1>6 DEF OpFits, Behind
<1>8. Numbered'
  BY <1>1, <1>3, <1>6 DEF StoreInv, Numbered, Creating
<1> QED
  BY <1>1, <1>3, <1>5, <1>7, <1>8 DEF StoreInv


-----------------------------------------------------------------------------
(* The jobs.                                                                 *)

Record == [id : Ids, rev : Revs, state : JobStates]
LEMMA NoRecordFields == NoRecord \in Record /\ NoRecord.rev = 0 /\ NoRecord.state = "NONE"
<1>1. (CHOOSE id \in Ids : TRUE) \in Ids
  <2>1. PICK p \in Participants : TRUE
    OBVIOUS
  <2>2. <<p, 1>> \in Ids
    BY DEF Ids
  <2> QED
    BY <2>2
<1> QED
  BY <1>1, StoreConstants DEF NoRecord, Record, JobStates

(* A job's record and stage, before and after.                               *)
Same(i) == log'[i] = log[i] /\ stage'[i] = stage[i] /\ builder'[i] = builder[i]
Over(i, state) ==
  /\ log'[i].id = log[i].id /\ log'[i].rev = log[i].rev /\ log'[i].state = state
  /\ stage'[i] = "NONE" /\ builder'[i] = NoWorker
JobsTyped ==
  /\ log' \in [Jobs -> Record]
  /\ stage' \in [Jobs -> {"NONE", "BUILD", "MATCH"}]
  /\ builder' \in [Jobs -> Workers \cup {NoWorker}]

LEMMA EndsEffect ==
  ASSUME JobsType, NEW j \in Jobs, NEW state \in JobStates, Ends(j, state)
  PROVE  JobsTyped /\ Over(j, state) /\ \A i \in Jobs : i # j => Same(i)
<1>1. /\ log \in [Jobs -> Record] /\ stage \in [Jobs -> {"NONE", "BUILD", "MATCH"}]
      /\ builder \in [Jobs -> Workers \cup {NoWorker}]
  BY DEF JobsType, Record
<1>2. log[j] \in Record /\ [log[j] EXCEPT !.state = state] \in Record
  BY <1>1 DEF Record
<1>3. JobsTyped
  BY <1>1, <1>2 DEF Ends, JobsTyped
<1>4. log'[j] = [log[j] EXCEPT !.state = state]
  BY <1>1 DEF Ends
<1>5. Over(j, state)
  BY <1>1, <1>2, <1>4 DEF Ends, Over, Record
<1>6. \A i \in Jobs : i # j => Same(i)
  BY <1>1 DEF Ends, Same
<1> QED
  BY <1>3, <1>5, <1>6

LEMMA PlaceEffect ==
  ASSUME JobsType, NEW j \in Jobs, NEW id \in Ids, NEW rev \in Revs, Place(j, id, rev)
  PROVE  /\ JobsTyped
         /\ log[j] = NoRecord /\ log'[j] = [id |-> id, rev |-> rev, state |-> "OPEN"]
         /\ stage'[j] = "BUILD" /\ builder'[j] \in {builder[j], NoWorker}
         /\ \A i \in Jobs : i # j =>
              IF log[i].id = id /\ stage[i] # "NONE" THEN Over(i, "CANCELLED") ELSE Same(i)
<1>1. /\ log \in [Jobs -> Record] /\ stage \in [Jobs -> {"NONE", "BUILD", "MATCH"}]
      /\ builder \in [Jobs -> Workers \cup {NoWorker}]
  BY DEF JobsType, Record
<1> DEFINE new == [id |-> id, rev |-> rev, state |-> "OPEN"]
<1>2. new \in Record
  BY DEF Record, JobStates
<1>3. \A i \in Jobs : [log[i] EXCEPT !.state = "CANCELLED"] \in Record
  BY <1>1 DEF Record, JobStates
<1>4. \A i \in Jobs : LET r == [log[i] EXCEPT !.state = "CANCELLED"] IN
        r.id = log[i].id /\ r.rev = log[i].rev /\ r.state = "CANCELLED"
  BY <1>1 DEF Record
<1> HIDE DEF new
<1>5. /\ log' = [i \in Jobs |-> IF i = j THEN new
                                ELSE IF i \in Older(id)
                                THEN [log[i] EXCEPT !.state = "CANCELLED"] ELSE log[i]]
      /\ stage' = [i \in Jobs |-> IF i = j THEN "BUILD"
                                  ELSE IF i \in Older(id) THEN "NONE" ELSE stage[i]]
      /\ builder' = [i \in Jobs |-> IF i \in Older(id) THEN NoWorker ELSE builder[i]]
      /\ log[j] = NoRecord
  BY DEF Place, NextJob, new
<1>6. JobsTyped
  <2>1. log' \in [Jobs -> Record]
    BY <1>1, <1>2, <1>3, <1>5
  <2> QED
    BY <1>1, <1>5, <2>1 DEF JobsTyped
<1>7. \A i \in Jobs : i \in Older(id) <=> log[i].id = id /\ stage[i] # "NONE"
  BY DEF Older
<1>8. ASSUME NEW i \in Jobs, i # j
      PROVE  IF log[i].id = id /\ stage[i] # "NONE" THEN Over(i, "CANCELLED") ELSE Same(i)
  <2>1. CASE i \in Older(id)
    <3>1. /\ log'[i] = [log[i] EXCEPT !.state = "CANCELLED"] /\ stage'[i] = "NONE"
          /\ builder'[i] = NoWorker
      BY <1>5, <1>8, <2>1
    <3> QED
      BY <1>4, <1>7, <2>1, <3>1 DEF Over
  <2>2. CASE i \notin Older(id)
    BY <1>5, <1>7, <1>8, <2>2 DEF Same
  <2> QED
    BY <2>1, <2>2
<1> QED
  BY <1>5, <1>6, <1>8 DEF new

-----------------------------------------------------------------------------
(* The archive.                                                              *)

LEMMA NoUploadFits == NoUpload \in UploadType /\ NoUpload.at = "none"
<1>1. BytesOf[1] \in Digests
  <2>1. 1 \in 1 .. MaxRev
    OBVIOUS
  <2> QED
    BY <2>1
<1>2. (CHOOSE d \in Digests : TRUE) \in Digests
  BY <1>1
<1> QED
  BY <1>2 DEF NoUpload, UploadType

LEMMA InodesArePositive == 0 \notin Inodes
<1>1. Cardinality(Digests) \in Nat /\ Cardinality(Workers) \in Nat
  BY FS_CardinalityType
<1> QED
  BY <1>1 DEF Inodes

(* A step that changes one call, and no file.                                *)
LEMMA CallChanges ==
  ASSUME ArchiveType, NEW w \in Workers, NEW u \in UploadType,
         upload' = [upload EXCEPT ![w] = u], UNCHANGED <<tmp, blob, half, contended>>
  PROVE  /\ ArchiveType' /\ \A d \in Digests : Has(d) => Has(d)'
         /\ upload'[w] = u /\ \A v \in Workers : v # w => upload'[v] = upload[v]
BY DEF ArchiveType, Has

(* Nobody starts to write, and no file changes.                              *)
LEMMA NobodyWrites ==
  ASSUME ArchiveSound, UNCHANGED <<tmp, blob, half, contended>>,
         \A w \in Workers : upload'[w].at \in {"first", "second", "rename"} =>
           upload'[w] = upload[w]
  PROVE  ArchiveSound'
<1>1. \A w \in Workers, d \in Digests :
        WritesOn(w, d)' => WritesOn(w, d) /\ upload'[w] = upload[w]
  BY DEF WritesOn, Writing
<1>2. NamesApart'
  BY DEF ArchiveSound, NamesApart
<1>3. ASSUME NEW d \in Digests, Alone(d) PROVE Alone(d)'
  BY <1>1, <1>3 DEF Alone
<1> QED
  BY <1>2, <1>3 DEF ArchiveSound

(* What a call does next to its files.                                       *)
LEMMA GoesOn ==
  ASSUME ArchiveType, NEW w \in Workers, NEW at \in {"second", "rename", "ok", "error"},
         Goes(w, at)
  PROVE  /\ upload' \in [Workers -> UploadType]
         /\ upload'[w].at = at /\ upload'[w].digest = upload[w].digest
         /\ upload'[w].inode = upload[w].inode
         /\ \A v \in Workers : v # w => upload'[v] = upload[v]
<1>1. upload \in [Workers -> UploadType] /\ upload[w] \in UploadType
  BY DEF ArchiveType
<1>2. [upload[w] EXCEPT !.at = at] \in UploadType
  BY <1>1 DEF UploadType
<1>3. /\ upload' = [upload EXCEPT ![w] = [upload[w] EXCEPT !.at = at]]
  BY DEF Goes
<1> HIDE DEF UploadType
<1>4. upload'[w] = [upload[w] EXCEPT !.at = at] /\ upload' \in [Workers -> UploadType]
      /\ \A v \in Workers : v # w => upload'[v] = upload[v]
  BY <1>1, <1>2, <1>3
<1> QED
  BY <1>1, <1>4 DEF UploadType

ArchiveGoes == ArchiveType' /\ ArchiveSound' /\ \A d \in Digests : Has(d) => Has(d)'
CallsKeep == \A w \in Workers : upload'[w].digest = upload[w].digest

LEMMA OpenKeeps ==
  ASSUME ArchiveType, ArchiveSound, NEW w \in Workers, Open(w)
  PROVE  ArchiveGoes /\ CallsKeep
<1> DEFINE e == upload[w].digest
           i == IF tmp[e] # 0 THEN tmp[e] ELSE CHOOSE x \in Free : TRUE
<1>1. /\ tmp' = [tmp EXCEPT ![e] = i] /\ half' = [half EXCEPT ![i] = {}] /\ blob' = blob
      /\ upload' = [upload EXCEPT ![w].at = "first", ![w].inode = i]
      /\ contended' = contended \cup {d \in {e} : Writers(d) # {}}
      /\ Free # {} /\ upload[w].at = "open"
  BY DEF Open
<1>2. upload[w] \in UploadType /\ e \in Digests
  BY DEF ArchiveType, UploadType
<1>3. (CHOOSE x \in Free : TRUE) \in Free
  BY <1>1
<1>4. /\ i \in Inodes /\ i # 0
      /\ \A d \in Digests : i # blob[d] /\ (tmp[d] = i => d = e)
  <2>1. CASE tmp[e] # 0
    BY <1>2, <2>1 DEF ArchiveType, ArchiveSound, NamesApart
  <2>2. CASE tmp[e] = 0
    <3>1. i \in Free
      BY <1>3, <2>2
    <3> QED
      BY <3>1, InodesArePositive DEF Free, InUse
  <2> QED
    BY <2>1, <2>2
<1> HIDE DEF i
<1>5. /\ upload'[w] = [at |-> "first", digest |-> e, inode |-> i]
      /\ \A v \in Workers : v # w => upload'[v] = upload[v]
      /\ upload' \in [Workers -> UploadType]
  <2>1. [[upload[w] EXCEPT !.at = "first"] EXCEPT !.inode = i]
          = [at |-> "first", digest |-> e, inode |-> i]
    <3> DEFINE v == [upload[w] EXCEPT !.at = "first"]
    <3>1. v = [at |-> "first", digest |-> e, inode |-> upload[w].inode]
      BY <1>2 DEF UploadType
    <3>2. v.at = "first" /\ v.digest = e /\ v \in UploadType
      BY <1>2 DEF UploadType
    <3> HIDE DEF v, e
    <3>3. [v EXCEPT !.inode = i] = [at |-> v.at, digest |-> v.digest, inode |-> i]
      BY <3>2 DEF UploadType
    <3> QED
      BY <3>2, <3>3 DEF v
  <2>2. [at |-> "first", digest |-> e, inode |-> i] \in UploadType
    BY <1>2, <1>4 DEF UploadType
  <2>3. upload \in [Workers -> UploadType]
    BY DEF ArchiveType
  <2> HIDE DEF e
  <2>4. upload' = [upload EXCEPT ![w] = [at |-> "first", digest |-> e, inode |-> i]]
    <3>1. upload' = [upload EXCEPT ![w] = [[upload[w] EXCEPT !.at = "first"] EXCEPT !.inode = i]]
      BY <1>1, <2>3
    <3> QED
      BY <2>1, <3>1
  <2> QED
    BY <2>2, <2>3, <2>4
<1> HIDE DEF e
<1>6. /\ tmp' \in [Digests -> {0} \cup Inodes] /\ half' \in [Inodes -> SUBSET Halves]
      /\ tmp'[e] = i /\ \A d \in Digests : d # e => tmp'[d] = tmp[d]
      /\ half'[i] = {} /\ \A x \in Inodes : x # i => half'[x] = half[x]
  BY <1>1, <1>2, <1>4 DEF ArchiveType
<1>7. ArchiveType'
  BY <1>1, <1>5, <1>6 DEF ArchiveType
<1>8. NamesApart'
  <2> SUFFICES ASSUME NEW d \in Digests, NEW f \in Digests, tmp'[d] # 0
               PROVE  tmp'[d] # blob[f] /\ (tmp'[d] = tmp'[f] => d = f)
    BY <1>1 DEF NamesApart
  <2>1. CASE d = e
    BY <1>4, <1>6, <2>1
  <2>2. CASE d # e
    BY <1>4, <1>6, <2>2 DEF ArchiveSound, NamesApart
  <2> QED
    BY <2>1, <2>2
<1>9. ASSUME NEW d \in Digests, d \notin contended' PROVE Alone(d)'
  <2>1. Alone(d)
    BY <1>1, <1>9 DEF ArchiveSound
  <2>2. blob'[d] # 0 => half'[blob'[d]] = Halves
    BY <1>1, <1>4, <1>6, <2>1 DEF Alone, ArchiveType
  <2>3. CASE d = e
    <3>1. \A v \in Workers : ~ WritesOn(v, d)
      <4>1. Writers(d) = {}
        BY <1>1, <1>9, <2>3
      <4> QED
        BY <4>1 DEF Writers, WritesOn
    <3>2. \A v \in Workers : WritesOn(v, d)' => v = w
      BY <1>5, <3>1 DEF WritesOn, Writing
    <3>3. upload'[w].at = "first" /\ upload'[w].inode = i
      BY <1>5
    <3> QED
      BY <1>4, <1>6, <2>2, <2>3, <3>2, <3>3 DEF Alone
  <2>4. CASE d # e
    <3>1. \A v \in Workers : WritesOn(v, d)' => v # w /\ WritesOn(v, d) /\ upload'[v] = upload[v]
      BY <1>5, <2>4 DEF WritesOn, Writing
    <3>2. tmp'[d] = tmp[d] /\ (tmp[d] # 0 => half'[tmp[d]] = half[tmp[d]])
      BY <1>4, <1>6, <2>4 DEF ArchiveType
    <3> QED
      BY <2>1, <2>2, <3>1, <3>2 DEF Alone
  <2> QED
    BY <2>3, <2>4
<1>10. CallsKeep
  BY <1>5 DEF CallsKeep, e
<1> QED
  BY <1>1, <1>7, <1>8, <1>9, <1>10 DEF ArchiveGoes, ArchiveSound, Has

LEMMA WriteKeeps ==
  ASSUME ArchiveType, ArchiveSound, NEW w \in Workers, Write(w)
  PROVE  ArchiveGoes /\ CallsKeep
<1> DEFINE e == upload[w].digest
           i == upload[w].inode
<1>1. PICK n \in {1, 2} :
        /\ \/ upload[w].at = "first" /\ n = 1 /\ Goes(w, "second")
           \/ upload[w].at = "second" /\ n = 2 /\ Goes(w, "rename")
        /\ half' = [half EXCEPT ![i] = @ \cup {n}]
        /\ UNCHANGED <<tmp, blob, contended>>
  BY DEF Write, WriteHalf
<1>2. /\ upload' \in [Workers -> UploadType]
      /\ upload'[w].digest = e /\ upload'[w].inode = i
      /\ \/ upload[w].at = "first" /\ n = 1 /\ upload'[w].at = "second"
         \/ upload[w].at = "second" /\ n = 2 /\ upload'[w].at = "rename"
      /\ \A v \in Workers : v # w => upload'[v] = upload[v]
  BY <1>1, GoesOn
<1>3. /\ half' \in [Inodes -> SUBSET Halves]
      /\ \A x \in Inodes : half[x] \subseteq half'[x] /\ half'[x] \subseteq Halves
      /\ i \in Inodes => half'[i] = half[i] \cup {n}
  BY <1>1 DEF ArchiveType, Halves
<1>4. ArchiveType'
  BY <1>1, <1>2, <1>3 DEF ArchiveType
<1>5. NamesApart'
  BY <1>1 DEF ArchiveSound, NamesApart
<1>6. ASSUME NEW d \in Digests, d \notin contended PROVE Alone(d)'
  <2>1. Alone(d) /\ blob[d] \in {0} \cup Inodes /\ tmp[d] \in {0} \cup Inodes
    BY <1>6 DEF ArchiveSound, ArchiveType
  <2>2. ASSUME blob[d] # 0 PROVE half'[blob[d]] = Halves
    <3>1. half[blob[d]] = Halves /\ blob[d] \in Inodes
      BY <2>1, <2>2 DEF Alone
    <3>2. half[blob[d]] \subseteq half'[blob[d]] /\ half'[blob[d]] \subseteq Halves
      BY <1>3, <3>1
    <3> QED
      BY <3>1, <3>2
  <2>3. \A v \in Workers : WritesOn(v, d)' => WritesOn(v, d)
    BY <1>2 DEF WritesOn, Writing
  <2>4. ASSUME NEW v \in Workers, WritesOn(v, d)'
        PROVE  /\ tmp[d] # 0 /\ upload'[v].inode = tmp[d]
               /\ upload'[v].at = "second" => 1 \in half'[tmp[d]]
               /\ upload'[v].at = "rename" => half'[tmp[d]] = Halves
    <3>1. /\ tmp[d] # 0 /\ upload[v].inode = tmp[d]
          /\ upload[v].at = "second" => 1 \in half[tmp[d]]
          /\ upload[v].at = "rename" => half[tmp[d]] = Halves
      BY <2>1, <2>3, <2>4 DEF Alone
    <3>2. CASE v = w
      <4>1. i = tmp[d] /\ i \in Inodes
        BY <2>1, <3>1, <3>2
      <4>2. half'[tmp[d]] = half[tmp[d]] \cup {n}
        BY <1>3, <4>1
      <4> QED
        BY <1>2, <1>3, <2>1, <3>1, <3>2, <4>1, <4>2 DEF Halves
    <3>3. CASE v # w
      BY <1>2, <1>3, <2>1, <3>1, <3>3
    <3> QED
      BY <3>2, <3>3
  <2> QED
    BY <1>1, <2>1, <2>2, <2>3, <2>4 DEF Alone
<1>7. CallsKeep
  BY <1>2 DEF CallsKeep
<1> QED
  BY <1>1, <1>4, <1>5, <1>6, <1>7 DEF ArchiveGoes, ArchiveSound, Has

LEMMA RenameBlobKeeps ==
  ASSUME ArchiveType, ArchiveSound, NEW w \in Workers, RenameBlob(w)
  PROVE  ArchiveGoes /\ CallsKeep
<1> DEFINE e == upload[w].digest
<1>1. upload[w].at = "rename" /\ UNCHANGED <<half, contended>> /\ e \in Digests
  BY DEF RenameBlob, ArchiveType, UploadType
<1>2. CASE Goes(w, "error") /\ UNCHANGED <<tmp, blob>>
  <2>1. /\ upload' \in [Workers -> UploadType] /\ upload'[w].at = "error"
        /\ upload'[w].digest = e /\ \A v \in Workers : v # w => upload'[v] = upload[v]
    BY <1>2, GoesOn
  <2>2. ArchiveSound'
    BY <1>1, <1>2, <2>1, NobodyWrites
  <2> QED
    BY <1>1, <1>2, <2>1, <2>2 DEF ArchiveGoes, CallsKeep, ArchiveType, Has
<1>3. CASE /\ tmp[e] # 0 /\ blob' = [blob EXCEPT ![e] = tmp[e]]
           /\ tmp' = [tmp EXCEPT ![e] = 0] /\ Goes(w, "ok")
  <2>1. /\ upload' \in [Workers -> UploadType] /\ upload'[w].at = "ok"
        /\ upload'[w].digest = e /\ \A v \in Workers : v # w => upload'[v] = upload[v]
    BY <1>3, GoesOn
  <2> HIDE DEF e
  <2>2. /\ tmp' \in [Digests -> {0} \cup Inodes] /\ blob' \in [Digests -> {0} \cup Inodes]
        /\ tmp'[e] = 0 /\ blob'[e] = tmp[e]
        /\ \A d \in Digests : d # e => tmp'[d] = tmp[d] /\ blob'[d] = blob[d]
    BY <1>1, <1>3 DEF ArchiveType
  <2>3. NamesApart'
    <3> SUFFICES ASSUME NEW d \in Digests, NEW f \in Digests, tmp'[d] # 0
                 PROVE  tmp'[d] # blob'[f] /\ (tmp'[d] = tmp'[f] => d = f)
      BY DEF NamesApart
    <3>1. d # e /\ tmp'[d] = tmp[d]
      BY <2>2
    <3>2. CASE f = e
      BY <1>1, <1>3, <2>2, <3>1, <3>2 DEF ArchiveSound, NamesApart
    <3>3. CASE f # e
      BY <2>2, <3>1, <3>3 DEF ArchiveSound, NamesApart
    <3> QED
      BY <3>2, <3>3
  <2>4. ASSUME NEW d \in Digests, d \notin contended PROVE Alone(d)'
    <3>1. Alone(d)
      BY <2>4 DEF ArchiveSound
    <3>2. \A v \in Workers : WritesOn(v, d)' =>
            v # w /\ WritesOn(v, d) /\ upload'[v] = upload[v]
      BY <2>1 DEF WritesOn, Writing
    <3>3. CASE d = e
      <4>1. WritesOn(w, d)
        BY <1>1, <3>3 DEF WritesOn, Writing, e
      <4>2. half[tmp[d]] = Halves /\ \A v \in Workers : ~ WritesOn(v, d)'
        BY <1>1, <3>1, <3>2, <4>1 DEF Alone
      <4> QED
        BY <1>1, <2>2, <3>3, <4>2 DEF Alone
    <3>4. CASE d # e
      BY <1>1, <2>2, <3>1, <3>2, <3>4 DEF Alone
    <3> QED
      BY <3>3, <3>4
  <2>5. ArchiveType' /\ \A d \in Digests : Has(d) => Has(d)'
    BY <1>1, <1>3, <2>1, <2>2 DEF ArchiveType, Has
  <2>6. CallsKeep
    BY <2>1 DEF CallsKeep, e
  <2> QED
    BY <1>1, <2>3, <2>4, <2>5, <2>6 DEF ArchiveGoes, ArchiveSound
<1> QED
  BY <1>2, <1>3 DEF RenameBlob

LEMMA FailedWriteKeeps ==
  ASSUME ArchiveType, ArchiveSound, NEW w \in Workers, FailedWrite(w)
  PROVE  ArchiveGoes /\ CallsKeep
<1>1. Goes(w, "error") /\ UNCHANGED <<tmp, blob, half, contended>>
  BY DEF FailedWrite
<1>2. /\ upload' \in [Workers -> UploadType] /\ upload'[w].at = "error"
      /\ upload'[w].digest = upload[w].digest
      /\ \A v \in Workers : v # w => upload'[v] = upload[v]
  BY <1>1, GoesOn
<1>3. ArchiveSound'
  BY <1>1, <1>2, NobodyWrites
<1> QED
  BY <1>1, <1>2, <1>3 DEF ArchiveGoes, CallsKeep, ArchiveType, Has

LEMMA ArchiveStepKeeps ==
  ASSUME ArchiveType, ArchiveSound, ArchiveStep
  PROVE  ArchiveGoes /\ CallsKeep
BY OpenKeeps, WriteKeeps, RenameBlobKeeps DEF ArchiveStep

-----------------------------------------------------------------------------
(* The invariant, step by step: the store, ...                               *)

ServerStep == ServerInv /\ Next

LEMMA StoreKept == ASSUME ServerStep PROVE StoreInv'
<1>1. StoreInv /\ JobsType
  BY DEF ServerStep, ServerInv, JobsFit
<1> USE <1>1
<1>20. CASE InStore
  BY StepIsAMethods, StoreStepKeeps, <1>20 DEF InStore
<1>21. CASE InArchive
  BY QuietStore, <1>21 DEF InArchive
<1>22. ASSUME NEW p \in Participants, SubmitStores(p) PROVE StoreInv'
  BY StartCreateKeeps, <1>22 DEF SubmitStores
<1>23. CASE SubmitReturns
  BY ReturnKeeps, <1>23 DEF SubmitReturns
<1>24. ASSUME NEW j \in Jobs, NEW id \in Ids, NEW rev \in Revs, SubmitPlaces(j, id, rev)
      PROVE StoreInv'
  BY QuietStore, <1>24 DEF SubmitPlaces
<1>25. ASSUME NEW j \in Jobs, NEW w \in Workers, Take(j, w) PROVE StoreInv'
  BY QuietStore, <1>25 DEF Take
<1>26. ASSUME NEW j \in Jobs, BuildSucceeds(j) PROVE StoreInv'
  BY StartStatusKeeps, <1>26 DEF BuildSucceeds, JobsType
<1>27. ASSUME NEW j \in Jobs, BuildIsBlamed(j) PROVE StoreInv'
  BY StartStatusKeeps, StoreConstants, <1>27 DEF BuildIsBlamed, JobsType
<1>28. ASSUME NEW j \in Jobs, BuildErrs(j) PROVE StoreInv'
  BY QuietStore, <1>28 DEF BuildErrs
<1>29. ASSUME NEW j \in Jobs, ResultIsIn(j) PROVE StoreInv'
  BY ReturnKeeps, <1>29 DEF ResultIsIn
<1>30. ASSUME NEW w \in Workers, UploadEnds(w) PROVE StoreInv'
  BY QuietStore, <1>30 DEF UploadEnds
<1>31. ASSUME NEW j \in Jobs, MatchesEnd(j) PROVE StoreInv'
  BY QuietStore, <1>31 DEF MatchesEnd
<1>32. ASSUME NEW j \in Jobs, FetchBot(j) PROVE StoreInv'
  BY QuietStore, <1>32 DEF FetchBot
<1>33. CASE Boot
  BY LoadKeeps, <1>33 DEF Boot
<1>34. CASE AllClosed
  BY QuietStore, <1>34 DEF AllClosed
<1>35. CASE Serve
  BY QuietStore, <1>35 DEF Serve
<1>36. ASSUME NEW j \in Jobs, CloseRecord(j) PROVE StoreInv'
  BY QuietStore, <1>36 DEF CloseRecord
<1>37. ASSUME NEW j \in Jobs, NEW id \in Ids, PlaceAgain(j, id) PROVE StoreInv'
  BY QuietStore, <1>37 DEF PlaceAgain
<1>38. ASSUME NEW j \in Jobs, LoseWorker(j) PROVE StoreInv'
  BY QuietStore, <1>38 DEF LoseWorker
<1>39. CASE Die
  BY QuietStore, <1>39 DEF Die
<1>40. ASSUME NEW w \in Workers, WriteFails(w) PROVE StoreInv'
  BY QuietStore, <1>40 DEF WriteFails
<1> QED
  BY <1>20, <1>21, <1>22, <1>23, <1>24, <1>25, <1>26, <1>27, <1>28, <1>29, <1>30, <1>31,
     <1>32, <1>33, <1>34, <1>35, <1>36, <1>37, <1>38, <1>39, <1>40 DEF ServerStep, Next,
     Submissions, Building, Playing, Main

(* ... the jobs, ...                                                         *)

LEMMA JobsTypeKept == ASSUME ServerStep PROVE JobsType'
<1>1. StoreInv /\ JobsType
  BY DEF ServerStep, ServerInv, JobsFit
<1> USE <1>1
<1>20. CASE InStore
  BY <1>20 DEF InStore, JobsType, serverVars
<1>21. CASE InArchive
  BY <1>21 DEF InArchive, JobsType, serverVars
<1>22. ASSUME NEW p \in Participants, SubmitStores(p) PROVE JobsType'
  BY <1>22 DEF SubmitStores, JobsType, serverVars
<1>23. CASE SubmitReturns
  <2>1. op.id \in Ids /\ op.entry.rev \in Revs
    BY DEF StoreInv, StoreType, OpType, Entry
  <2>2. entering' \in SUBSET (Ids \X Revs)
    BY <1>23, <2>1 DEF SubmitReturns, JobsType
  <2> QED
    BY <1>23, <2>2 DEF SubmitReturns, JobsType
<1>24. ASSUME NEW j \in Jobs, NEW id \in Ids, NEW rev \in Revs, SubmitPlaces(j, id, rev)
      PROVE JobsType'
  <2>1. JobsTyped
    BY PlaceEffect, <1>24 DEF SubmitPlaces
  <2> QED
    BY <1>24, <2>1 DEF SubmitPlaces, JobsType, JobsTyped, Record
<1>25. ASSUME NEW j \in Jobs, NEW w \in Workers, Take(j, w) PROVE JobsType'
  BY <1>25 DEF Take, JobsType
<1>26. ASSUME NEW j \in Jobs, BuildSucceeds(j) PROVE JobsType'
  BY <1>26 DEF BuildSucceeds, JobsType
<1>27. ASSUME NEW j \in Jobs, BuildIsBlamed(j) PROVE JobsType'
  BY <1>27 DEF BuildIsBlamed, JobsType
<1>28. ASSUME NEW j \in Jobs, BuildErrs(j) PROVE JobsType'
  <2>1. CASE Ends(j, "GAVE_UP")
    <3>1. JobsTyped
      BY EndsEffect, <2>1 DEF JobStates
    <3> QED
      BY <1>28, <3>1 DEF BuildErrs, Answered, JobsType, JobsTyped, Record
  <2>2. CASE builder' = [builder EXCEPT ![j] = NoWorker] /\ UNCHANGED <<log, stage>>
    BY <1>28, <2>2 DEF BuildErrs, JobsType
  <2> QED
    BY <1>28, <2>1, <2>2 DEF BuildErrs
<1>29. ASSUME NEW j \in Jobs, ResultIsIn(j) PROVE JobsType'
  <2>1. CASE Ends(j, "FAILED")
    <3>1. JobsTyped
      BY EndsEffect, <2>1 DEF JobStates
    <3> QED
      BY <1>29, <3>1 DEF ResultIsIn, JobsType, JobsTyped, Record
  <2>2. CASE stage' = [stage EXCEPT ![j] = "MATCH"] /\ UNCHANGED <<log, builder>>
    BY <1>29, <2>2 DEF ResultIsIn, JobsType
  <2> QED
    BY <1>29, <2>1, <2>2 DEF ResultIsIn
<1>30. ASSUME NEW w \in Workers, UploadEnds(w) PROVE JobsType'
  BY <1>30 DEF UploadEnds, JobsType, serverVars
<1>31. ASSUME NEW j \in Jobs, MatchesEnd(j) PROVE JobsType'
  <2>1. JobsTyped
    BY EndsEffect, <1>31 DEF MatchesEnd, JobStates
  <2> QED
    BY <1>31, <2>1 DEF MatchesEnd, JobsType, JobsTyped, Record
<1>32. ASSUME NEW j \in Jobs, FetchBot(j) PROVE JobsType'
  BY <1>32 DEF FetchBot, JobsType, serverVars
<1>33. CASE Boot
  BY <1>33 DEF Boot, JobsType
<1>34. CASE AllClosed
  BY <1>34 DEF AllClosed, JobsType, WaitingIds
<1>35. CASE Serve
  BY <1>35 DEF Serve, JobsType
<1>36. ASSUME NEW j \in Jobs, CloseRecord(j) PROVE JobsType'
  <2>1. [log[j] EXCEPT !.state = "CANCELLED"] \in Record
    BY DEF JobsType, Record, JobStates
  <2> QED
    BY <1>36, <2>1 DEF CloseRecord, JobsType, Record
<1>37. ASSUME NEW j \in Jobs, NEW id \in Ids, PlaceAgain(j, id) PROVE JobsType'
  <2>1. live[id].rev \in Revs
    BY DEF StoreInv, StoreType, Entry
  <2>2. JobsTyped
    BY PlaceEffect, <2>1, <1>37 DEF PlaceAgain
  <2> QED
    BY <1>37, <2>2 DEF PlaceAgain, JobsType, JobsTyped, Record
<1>38. ASSUME NEW j \in Jobs, LoseWorker(j) PROVE JobsType'
  BY <1>38 DEF LoseWorker, JobsType
<1>39. CASE Die
  BY <1>39 DEF Die, JobsType
<1>40. ASSUME NEW w \in Workers, WriteFails(w) PROVE JobsType'
  BY <1>40 DEF WriteFails, JobsType, serverVars
<1> QED
  BY <1>20, <1>21, <1>22, <1>23, <1>24, <1>25, <1>26, <1>27, <1>28, <1>29, <1>30, <1>31,
     <1>32, <1>33, <1>34, <1>35, <1>36, <1>37, <1>38, <1>39, <1>40 DEF ServerStep, Next,
     Submissions, Building, Playing, Main

LEMMA PhaseKept == ASSUME ServerStep PROVE PhaseFits'
<1>1. StoreInv /\ JobsType /\ PhaseFits /\ Uploading /\ JobsType'
  BY JobsTypeKept DEF ServerStep, ServerInv, JobsFit
<1>2. Idle.do = "none" /\ (lock # 0 => phase = "up" /\ op # Idle /\ op.do = "status")
  BY <1>1 DEF PhaseFits, Idle
<1>3. \A j \in Jobs : builder[j] # NoWorker => stage[j] = "BUILD"
  BY <1>1 DEF Uploading
<1>4. /\ lock \in {0} \cup Jobs /\ 0 \notin Jobs /\ toPlace \subseteq Ids
      /\ phase \in {"down", "closing", "placing", "up"}
  BY <1>1 DEF JobsType, Jobs
<1>20. CASE InStore
  <2>1. op.do # "none" /\ op'.do = op.do /\ op'.id = op.id
    BY <1>1, StepIsAMethods, StoreStepOp, <1>20 DEF InStore, StoreInv
  <2>2. phase = "up"
    BY <1>1, <1>2, <1>4, <2>1, <1>20 DEF InStore, PhaseFits
  <2> QED
    BY <1>1, <2>1, <2>2, <1>20 DEF InStore, PhaseFits, serverVars
<1>21. CASE InArchive
  BY <1>1, <1>21 DEF InArchive, PhaseFits, storeVars, serverVars
<1>22. ASSUME NEW p \in Participants, SubmitStores(p) PROVE PhaseFits'
  <2>1. op = Idle /\ UNCHANGED <<live, staged>>
    BY <1>22 DEF SubmitStores, StartCreate
  <2>2. phase = "up" /\ lock = 0
    BY <1>2, <2>1, <1>22 DEF SubmitStores
  <2> QED
    BY <1>1, <2>1, <2>2, <1>22 DEF SubmitStores, PhaseFits, serverVars
<1>23. CASE SubmitReturns
  BY <1>1, <1>2, <1>23 DEF SubmitReturns, PhaseFits
<1>24. ASSUME NEW j \in Jobs, NEW id \in Ids, NEW rev \in Revs, SubmitPlaces(j, id, rev)
      PROVE PhaseFits'
  BY <1>1, <1>4, <1>24 DEF SubmitPlaces, PhaseFits, storeVars
<1>25. ASSUME NEW j \in Jobs, NEW w \in Workers, Take(j, w) PROVE PhaseFits'
  BY <1>1, <1>25 DEF Take, PhaseFits, storeVars
<1>26. ASSUME NEW j \in Jobs, BuildSucceeds(j) PROVE PhaseFits'
  <2>1. /\ phase = "up" /\ builder[j] # NoWorker /\ lock' = j /\ phase' = phase
        /\ UNCHANGED <<log, stage, toPlace, live>>
        /\ op'.do = "status" /\ op'.id = log'[j].id
    BY <1>26 DEF BuildSucceeds, Answered, StartSetStatus, Memory
  <2>2. stage'[j] = "BUILD" /\ builder'[j] = NoWorker
    BY <1>1, <1>3, <2>1, <1>26 DEF BuildSucceeds, JobsType
  <2> QED
    BY <1>1, <2>1, <2>2 DEF PhaseFits
<1>27. ASSUME NEW j \in Jobs, BuildIsBlamed(j) PROVE PhaseFits'
  <2>1. /\ phase = "up" /\ builder[j] # NoWorker /\ lock' = j /\ phase' = phase
        /\ UNCHANGED <<log, stage, toPlace, live>>
        /\ op'.do = "status" /\ op'.id = log'[j].id
    BY <1>27 DEF BuildIsBlamed, Answered, StartSetStatus, Memory
  <2>2. stage'[j] = "BUILD" /\ builder'[j] = NoWorker
    BY <1>1, <1>3, <2>1, <1>27 DEF BuildIsBlamed, JobsType
  <2> QED
    BY <1>1, <2>1, <2>2 DEF PhaseFits
<1>28. ASSUME NEW j \in Jobs, BuildErrs(j) PROVE PhaseFits'
  BY <1>1, <1>4, <1>28 DEF BuildErrs, Answered, PhaseFits, storeVars
<1>29. ASSUME NEW j \in Jobs, ResultIsIn(j) PROVE PhaseFits'
  <2>1. phase = "up" /\ phase' = phase /\ lock' = 0 /\ UNCHANGED <<toPlace, live>>
    BY <1>2, <1>4, <1>29 DEF ResultIsIn
  <2> QED
    BY <1>1, <2>1 DEF PhaseFits
<1>30. ASSUME NEW w \in Workers, UploadEnds(w) PROVE PhaseFits'
  BY <1>1, <1>30 DEF UploadEnds, PhaseFits, storeVars, serverVars
<1>31. ASSUME NEW j \in Jobs, MatchesEnd(j) PROVE PhaseFits'
  BY <1>1, <1>31 DEF MatchesEnd, PhaseFits, storeVars
<1>32. ASSUME NEW j \in Jobs, FetchBot(j) PROVE PhaseFits'
  BY <1>1, <1>32 DEF FetchBot, PhaseFits, storeVars, serverVars
<1>33. CASE Boot
  <2>1. /\ phase = "down" /\ phase' = "closing" /\ op' = Idle
        /\ UNCHANGED <<lock, entering, toPlace, stage>>
        /\ \A id \in Ids : staged'[id] = Absent
    BY <1>1, LoadKeeps, <1>33 DEF Boot
  <2> QED
    BY <1>1, <2>1 DEF PhaseFits
<1>34. CASE AllClosed
  BY <1>1, <1>34 DEF AllClosed, PhaseFits, storeVars, WaitingIds
<1>35. CASE Serve
  BY <1>1, <1>35 DEF Serve, PhaseFits, storeVars
<1>36. ASSUME NEW j \in Jobs, CloseRecord(j) PROVE PhaseFits'
  BY <1>1, <1>36 DEF CloseRecord, PhaseFits, storeVars
<1>37. ASSUME NEW j \in Jobs, NEW id \in Ids, PlaceAgain(j, id) PROVE PhaseFits'
  <2>1. live[id].rev \in Revs /\ Place(j, id, live[id].rev)
    BY <1>1, <1>37 DEF PlaceAgain, StoreInv, StoreType, Entry
  <2>2. \A i \in Jobs : stage'[i] \in {"NONE", "BUILD", stage[i]}
    BY <1>1, <2>1, PlaceEffect DEF Over, Same
  <2>3. phase = "placing" /\ phase' = phase /\ toPlace' \subseteq toPlace
        /\ UNCHANGED <<storeVars, lock, entering>>
    BY <1>37 DEF PlaceAgain
  <2> QED
    BY <1>1, <2>2, <2>3 DEF PhaseFits, storeVars
<1>38. ASSUME NEW j \in Jobs, LoseWorker(j) PROVE PhaseFits'
  <2>1. phase = "up" /\ lock = 0 /\ UNCHANGED <<storeVars, phase, lock, toPlace>>
    BY <1>38 DEF LoseWorker
  <2> QED
    BY <1>1, <2>1 DEF PhaseFits, storeVars
<1>39. CASE Die
  <2>1. /\ phase' = "down" /\ lock' = 0 /\ entering' = {} /\ toPlace' = {}
        /\ stage' = [i \in Jobs |-> "NONE"]
    BY <1>39 DEF Die
  <2> QED
    BY <2>1 DEF PhaseFits
<1>40. ASSUME NEW w \in Workers, WriteFails(w) PROVE PhaseFits'
  BY <1>1, <1>40 DEF WriteFails, PhaseFits, storeVars, serverVars
<1> QED
  BY <1>20, <1>21, <1>22, <1>23, <1>24, <1>25, <1>26, <1>27, <1>28, <1>29, <1>30, <1>31,
     <1>32, <1>33, <1>34, <1>35, <1>36, <1>37, <1>38, <1>39, <1>40 DEF ServerStep, Next,
     Submissions, Building, Playing, Main

LEMMA JobFitsKept == ASSUME ServerStep PROVE \A k \in Jobs : JobFits(k)'
<1>1. StoreInv /\ JobsType /\ PhaseFits /\ Uploading /\ EntriesSound /\ JobsType'
  BY JobsTypeKept DEF ServerStep, ServerInv, JobsFit
<1>2. \A j \in Jobs : JobFits(j)
  BY DEF ServerStep, ServerInv, JobsFit
<1>3. NoRecord.rev = 0 /\ NoRecord.state = "NONE"
  BY NoRecordFields
<1>4. \A j \in Jobs, state \in JobStates : Over(j, state) /\ log[j].rev # 0 => JobFits(j)'
  BY DEF Over, JobFits
<1>5. \A j \in Jobs : Same(j) => JobFits(j)'
  BY <1>2 DEF Same, JobFits
<1>20. CASE InStore
  BY <1>2, <1>20 DEF InStore, serverVars, JobFits
<1>21. CASE InArchive
  BY <1>2, <1>21 DEF InArchive, serverVars, JobFits
<1>22. ASSUME NEW p \in Participants, SubmitStores(p) PROVE \A k \in Jobs : JobFits(k)'
  BY <1>2, <1>22 DEF SubmitStores, serverVars, JobFits
<1>23. CASE SubmitReturns
  BY <1>2, <1>23 DEF SubmitReturns, JobFits
<1>24. ASSUME NEW j \in Jobs, NEW id \in Ids, NEW rev \in Revs, SubmitPlaces(j, id, rev)
      PROVE \A k \in Jobs : JobFits(k)'
  <2>1. rev \in Revs /\ rev # 0 /\ Place(j, id, rev)
    <3>1. <<id, rev>>[2] = rev
      OBVIOUS
    <3> QED
      BY <1>1, <3>1, <1>24 DEF SubmitPlaces, EntriesSound
  <2>2. /\ log'[j] = [id |-> id, rev |-> rev, state |-> "OPEN"]
        /\ \A i \in Jobs : i # j =>
              IF log[i].id = id /\ stage[i] # "NONE" THEN Over(i, "CANCELLED") ELSE Same(i)
    BY <1>1, <2>1, PlaceEffect
  <2>3. \A i \in Jobs : i # j => JobFits(i)'
    BY <1>2, <1>4, <1>5, <2>2 DEF JobFits, JobStates
  <2>4. JobFits(j)'
    BY <2>1, <2>2 DEF JobFits
  <2> QED
    BY <2>3, <2>4
<1>25. ASSUME NEW j \in Jobs, NEW w \in Workers, Take(j, w) PROVE \A k \in Jobs :
      JobFits(k)'
  BY <1>2, <1>25 DEF Take, JobFits
<1>26. ASSUME NEW j \in Jobs, BuildSucceeds(j) PROVE \A k \in Jobs : JobFits(k)'
  BY <1>2, <1>26 DEF BuildSucceeds, JobFits
<1>27. ASSUME NEW j \in Jobs, BuildIsBlamed(j) PROVE \A k \in Jobs : JobFits(k)'
  BY <1>2, <1>27 DEF BuildIsBlamed, JobFits
<1>28. ASSUME NEW j \in Jobs, BuildErrs(j) PROVE \A k \in Jobs : JobFits(k)'
  <2>1. CASE Ends(j, "GAVE_UP")
    <3>1. Over(j, "GAVE_UP") /\ \A i \in Jobs : i # j => Same(i)
      BY <1>1, <2>1, EndsEffect DEF JobStates
    <3>2. log[j].rev # 0
      BY <1>1, <1>2, <1>28 DEF BuildErrs, Answered, Uploading, JobFits
    <3> QED
      BY <1>4, <1>5, <3>1, <3>2 DEF JobStates
  <2>2. CASE UNCHANGED <<log, stage>>
    BY <1>2, <2>2 DEF JobFits
  <2> QED
    BY <2>1, <2>2, <1>28 DEF BuildErrs
<1>29. ASSUME NEW j \in Jobs, ResultIsIn(j) PROVE \A k \in Jobs : JobFits(k)'
  <2>1. stage[j] = "BUILD"
    BY <1>1, <1>29 DEF ResultIsIn, PhaseFits, Jobs
  <2>2. CASE Ends(j, "FAILED")
    <3>1. Over(j, "FAILED") /\ \A i \in Jobs : i # j => Same(i)
      BY <1>1, <2>2, EndsEffect DEF JobStates
    <3> QED
      BY <1>2, <1>4, <1>5, <2>1, <3>1 DEF JobStates, JobFits
  <2>3. CASE stage' = [stage EXCEPT ![j] = "MATCH"] /\ UNCHANGED <<log, builder>>
    BY <1>1, <1>2, <2>1, <2>3 DEF JobFits, JobsType
  <2> QED
    BY <2>2, <2>3, <1>29 DEF ResultIsIn
<1>30. ASSUME NEW w \in Workers, UploadEnds(w) PROVE \A k \in Jobs : JobFits(k)'
  BY <1>2, <1>30 DEF UploadEnds, serverVars, JobFits
<1>31. ASSUME NEW j \in Jobs, MatchesEnd(j) PROVE \A k \in Jobs : JobFits(k)'
  <2>1. Over(j, "DONE") /\ \A i \in Jobs : i # j => Same(i)
    BY <1>1, <1>31, EndsEffect DEF JobStates, MatchesEnd
  <2>2. log[j].rev # 0
    BY <1>2, <1>31 DEF MatchesEnd, JobFits
  <2> QED
    BY <1>4, <1>5, <2>1, <2>2 DEF JobStates
<1>32. ASSUME NEW j \in Jobs, FetchBot(j) PROVE \A k \in Jobs : JobFits(k)'
  BY <1>2, <1>32 DEF FetchBot, serverVars, JobFits
<1>33. CASE Boot
  BY <1>2, <1>33 DEF Boot, JobFits
<1>34. CASE AllClosed
  BY <1>2, <1>34 DEF AllClosed, JobFits
<1>35. CASE Serve
  BY <1>2, <1>35 DEF Serve, JobFits
<1>36. ASSUME NEW j \in Jobs, CloseRecord(j) PROVE \A k \in Jobs : JobFits(k)'
  <2>1. /\ UNCHANGED stage /\ \A i \in Jobs : stage[i] = "NONE"
        /\ \A i \in Jobs : log'[i].rev = log[i].rev /\ (i # j => log'[i] = log[i])
        /\ log[j].state = "OPEN"
    BY <1>1, <1>36 DEF CloseRecord, PhaseFits, JobsType
  <2> QED
    BY <1>2, <1>3, <2>1 DEF JobFits
<1>37. ASSUME NEW j \in Jobs, NEW id \in Ids, PlaceAgain(j, id) PROVE \A k \in Jobs :
      JobFits(k)'
  <2>1. live[id].rev \in Revs /\ live[id].rev # 0 /\ Place(j, id, live[id].rev)
    <3>1. live[id].status = "PENDING"
      BY <1>1, <1>37 DEF PlaceAgain, PhaseFits
    <3>2. live[id].rev # 0
      BY <1>1, <3>1 DEF EntriesSound, Sound
    <3> QED
      BY <1>1, <3>2, <1>37 DEF PlaceAgain, StoreInv, StoreType, Entry
  <2>2. /\ log'[j] = [id |-> id, rev |-> live[id].rev, state |-> "OPEN"]
        /\ \A i \in Jobs : i # j =>
              IF log[i].id = id /\ stage[i] # "NONE" THEN Over(i, "CANCELLED") ELSE Same(i)
    BY <1>1, <2>1, PlaceEffect
  <2>3. \A i \in Jobs : i # j => JobFits(i)'
    BY <1>2, <1>4, <1>5, <2>2 DEF JobFits, JobStates
  <2>4. JobFits(j)'
    BY <2>1, <2>2 DEF JobFits
  <2> QED
    BY <2>3, <2>4
<1>38. ASSUME NEW j \in Jobs, LoseWorker(j) PROVE \A k \in Jobs : JobFits(k)'
  BY <1>2, <1>38 DEF LoseWorker, JobFits
<1>39. CASE Die
  BY <1>2, <1>39 DEF Die, JobFits
<1>40. ASSUME NEW w \in Workers, WriteFails(w) PROVE \A k \in Jobs : JobFits(k)'
  BY <1>2, <1>40 DEF WriteFails, serverVars, JobFits
<1> QED
  BY <1>20, <1>21, <1>22, <1>23, <1>24, <1>25, <1>26, <1>27, <1>28, <1>29, <1>30, <1>31,
     <1>32, <1>33, <1>34, <1>35, <1>36, <1>37, <1>38, <1>39, <1>40 DEF ServerStep, Next,
     Submissions, Building, Playing, Main

(* ... the archive and what it holds, ...                                    *)

LEMMA ArchiveKept == ASSUME ServerStep PROVE ArchiveGoes
<1>1. ArchiveType /\ ArchiveSound
  BY DEF ServerStep, ServerInv
<1>2. ASSUME NEW w \in Workers, NEW u \in UploadType, u.at \in {"none", "open", "ok"},
             upload' = [upload EXCEPT ![w] = u], UNCHANGED <<tmp, blob, half, contended>>
      PROVE  ArchiveGoes
  <2>1. /\ ArchiveType' /\ \A d \in Digests : Has(d) => Has(d)'
        /\ upload'[w] = u /\ \A v \in Workers : v # w => upload'[v] = upload[v]
    BY <1>1, <1>2, CallChanges
  <2>2. ArchiveSound'
    BY <1>1, <1>2, <2>1, NobodyWrites
  <2> QED
    BY <2>1, <2>2 DEF ArchiveGoes
<1>3. ASSUME UNCHANGED <<tmp, blob, half, upload, contended>> PROVE ArchiveGoes
  <2>1. ArchiveSound'
    BY <1>1, <1>3, NobodyWrites
  <2> QED
    BY <1>1, <1>3, <2>1 DEF ArchiveType, ArchiveGoes, Has
<1>4. ASSUME NEW j \in Jobs, Answered(j)
      PROVE  ArchiveGoes
  <2>1. builder[j] \in Workers
    BY <1>4 DEF ServerStep, ServerInv, JobsFit, JobsType, Answered
  <2> QED
    BY <1>2, <1>4, <2>1, NoUploadFits DEF Answered
<1>20. CASE InStore
  BY <1>3, <1>20 DEF InStore, archiveVars
<1>21. CASE InArchive
  BY <1>1, ArchiveStepKeeps, <1>21 DEF InArchive
<1>22. ASSUME NEW p \in Participants, SubmitStores(p) PROVE ArchiveGoes
  BY <1>3, <1>22 DEF SubmitStores, archiveVars
<1>23. CASE SubmitReturns
  BY <1>3, <1>23 DEF SubmitReturns, archiveVars
<1>24. ASSUME NEW j \in Jobs, NEW id \in Ids, NEW rev \in Revs, SubmitPlaces(j, id, rev)
      PROVE ArchiveGoes
  BY <1>3, <1>24 DEF SubmitPlaces, archiveVars
<1>25. ASSUME NEW j \in Jobs, NEW w \in Workers, Take(j, w) PROVE ArchiveGoes
  <2> DEFINE u == [at |-> IF Has(BytesOf[log[j].rev]) THEN "ok" ELSE "open",
                   digest |-> BytesOf[log[j].rev], inode |-> 0]
  <2>1. upload' = [upload EXCEPT ![w] = u] /\ UNCHANGED <<tmp, blob, half, contended>>
    BY <1>25 DEF Take, StartUpload
  <2>2. log[j].rev \in 1 .. MaxRev
    BY <1>25 DEF Take, ServerStep, ServerInv, JobsFit, JobsType, JobFits, Revs
  <2>3. u \in UploadType /\ u.at \in {"none", "open", "ok"}
    BY <2>2 DEF UploadType
  <2> HIDE DEF u
  <2> QED
    BY <1>2, <2>1, <2>3
<1>26. ASSUME NEW j \in Jobs, BuildSucceeds(j) PROVE ArchiveGoes
  BY <1>4, <1>26 DEF BuildSucceeds
<1>27. ASSUME NEW j \in Jobs, BuildIsBlamed(j) PROVE ArchiveGoes
  BY <1>4, <1>27 DEF BuildIsBlamed
<1>28. ASSUME NEW j \in Jobs, BuildErrs(j) PROVE ArchiveGoes
  BY <1>4, <1>28 DEF BuildErrs
<1>29. ASSUME NEW j \in Jobs, ResultIsIn(j) PROVE ArchiveGoes
  BY <1>3, <1>29 DEF ResultIsIn, archiveVars
<1>30. ASSUME NEW w \in Workers, UploadEnds(w) PROVE ArchiveGoes
  BY <1>2, <1>30, NoUploadFits DEF UploadEnds
<1>31. ASSUME NEW j \in Jobs, MatchesEnd(j) PROVE ArchiveGoes
  BY <1>3, <1>31 DEF MatchesEnd, archiveVars
<1>32. ASSUME NEW j \in Jobs, FetchBot(j) PROVE ArchiveGoes
  BY <1>3, <1>32 DEF FetchBot, Fetch
<1>33. CASE Boot
  BY <1>3, <1>33 DEF Boot, archiveVars
<1>34. CASE AllClosed
  BY <1>3, <1>34 DEF AllClosed, archiveVars
<1>35. CASE Serve
  BY <1>3, <1>35 DEF Serve, archiveVars
<1>36. ASSUME NEW j \in Jobs, CloseRecord(j) PROVE ArchiveGoes
  BY <1>3, <1>36 DEF CloseRecord, archiveVars
<1>37. ASSUME NEW j \in Jobs, NEW id \in Ids, PlaceAgain(j, id) PROVE ArchiveGoes
  BY <1>3, <1>37 DEF PlaceAgain, archiveVars
<1>38. ASSUME NEW j \in Jobs, LoseWorker(j) PROVE ArchiveGoes
  BY <1>3, <1>38 DEF LoseWorker, archiveVars
<1>39. CASE Die
  <2>1. upload' = [w \in Workers |-> NoUpload] /\ UNCHANGED <<tmp, blob, half, contended>>
    BY <1>39 DEF Die, ArchiveDies
  <2>2. ArchiveSound'
    BY <1>1, <2>1, NoUploadFits, NobodyWrites
  <2> QED
    BY <1>1, <2>1, <2>2, NoUploadFits DEF ArchiveType, ArchiveGoes, Has
<1>40. ASSUME NEW w \in Workers, WriteFails(w) PROVE ArchiveGoes
  BY <1>1, FailedWriteKeeps, <1>40 DEF WriteFails
<1> QED
  BY <1>20, <1>21, <1>22, <1>23, <1>24, <1>25, <1>26, <1>27, <1>28, <1>29, <1>30, <1>31,
     <1>32, <1>33, <1>34, <1>35, <1>36, <1>37, <1>38, <1>39, <1>40 DEF ServerStep, Next,
     Submissions, Building, Playing, Main

(* An entry that is sound after the step; one that was sound stays so.       *)
Good(e) ==
  /\ e \in Entry
  /\ e.status = "READY" => e.artifact # 0 /\ blob'[BytesOf[e.artifact]] # 0
  /\ e.status = "PENDING" => e.rev # 0
LEMMA SoundStays ==
  ASSUME ArchiveGoes, NEW e \in Entry, Sound(e)
  PROVE  Good(e)
<1>1. ASSUME e.artifact # 0 PROVE BytesOf[e.artifact] \in Digests
  <2>1. e.artifact \in 1 .. MaxRev
    BY <1>1 DEF Entry, Revs
  <2> QED
    BY <2>1
<1> QED
  BY <1>1 DEF Sound, ArchiveGoes, Good, Has

LEMMA EntriesKept == ASSUME ServerStep PROVE EntriesSound'
<1>1. StoreInv /\ StoreInv' /\ JobsFit /\ Uploading /\ EntriesSound /\ StoreType
  BY StoreKept DEF ServerStep, ServerInv, StoreInv
<1>2. \A e \in Entry : Sound(e) => Good(e)
  BY ArchiveKept, SoundStays
<1>3. /\ \A id \in Ids : Good(live[id]) /\ Good(staged[id])
      /\ \A pl \in Places, id \in Ids : Good(dir[pl][id].manifest)
      /\ op.do # "none" => Good(op.entry)
  BY <1>1, <1>2 DEF StoreType, OpType, Stored, EntriesSound
<1>4. Good(Absent)
  BY StoreConstants DEF Good, Absent
<1>5. /\ live \in [Ids -> Entry] /\ staged \in [Ids -> Entry] /\ op.id \in Ids
      /\ op.place \in Places
  BY <1>1 DEF StoreType, OpType
<1> DEFINE Stay ==
             /\ \A id \in Ids : Good(live'[id]) /\ Good(staged'[id])
             /\ \A pl \in Places, id \in Ids : Good(dir'[pl][id].manifest)
<1>6. UNCHANGED <<live, staged, dir>> => Stay
  BY <1>3
<1>7. /\ Stay => \A id \in Ids : Sound(live[id])' /\ Sound(staged[id])'
      /\ Stay => \A pl \in Places, id \in Ids : Sound(dir[pl][id].manifest)'
      /\ Good(op'.entry) => Sound(op.entry)'
  BY DEF Good, Sound, Has
<1> DEFINE Manifests == \A pl \in Places, id \in Ids : Good(dir'[pl][id].manifest)
(* The methods of the store.                                                 *)
<1>8. ASSUME StoreStepDoes, op.do # "none"
      PROVE  (\A id \in Ids : Good(live'[id]) /\ Good(staged'[id])) /\ Manifests
  <2>1. /\ Good(op.entry) /\ Good(Absent)
        /\ op.do = "status" => StatusFits
    BY <1>1, <1>3, <1>4, <1>8 DEF StoreInv, OpFits
  <2>2. \A id \in Ids : Good(live[id]) /\ Good(staged[id])
    BY <1>3
  <2>3. \A pl \in Places, id \in Ids : Good(dir[pl][id].manifest)
    BY <1>3
  <2>4. ASSUME NEW pl \in Places, NEW id \in Ids, NEW v, DirIs(pl, id, v),
               Good(v.manifest)
        PROVE  Manifests
    <3> SUFFICES ASSUME NEW q \in Places, NEW i \in Ids
                 PROVE  Good(dir'[q][i].manifest)
      OBVIOUS
    <3>1. CASE q = pl /\ i = id
      BY <2>4, <3>1 DEF DirIs
    <3>2. CASE ~ (q = pl /\ i = id)
      <4>1. <<q, i>> # <<pl, id>>
        BY <3>2
      <4> QED
        BY <2>3, <2>4, <4>1 DEF DirIs
    <3> QED
      BY <3>1, <3>2
  <2>5. Good(Here.manifest) /\ Good(dir["live"][op.id].manifest)
    BY <1>5, <2>3, StoreConstants DEF Here
  <2>6. CASE ClearDoes
    <3>1. Manifests
      <4>1. CASE DirIs(op.place, op.id, [files |-> 0, manifest |-> Here.manifest])
        BY <1>5, <2>4, <2>5, <4>1
      <4>2. CASE DirIs(op.place, op.id, [files |-> Here.files, manifest |-> Absent])
        BY <1>5, <2>1, <2>4, <4>2
      <4>3. CASE dir' = dir
        BY <2>3, <4>3
      <4> QED
        BY <2>6, <4>1, <4>2, <4>3 DEF ClearDoes
    <3> QED
      BY <2>2, <2>6, <3>1 DEF ClearDoes, Still
  <2>7. CASE WriteFilesDoes
    <3>1. Manifests
      <4>1. CASE DirIs(op.place, op.id, [files |-> op.entry.rev, manifest |-> Here.manifest])
        BY <1>5, <2>4, <2>5, <4>1
      <4>2. CASE dir' = dir
        BY <2>3, <4>2
      <4> QED
        BY <2>7, <4>1, <4>2 DEF WriteFilesDoes
    <3> QED
      BY <2>2, <2>7, <3>1 DEF WriteFilesDoes, Still
  <2>8. CASE WriteNewManifestDoes
    <3>1. Manifests
      <4>1. CASE DirIs(op.place, op.id, [files |-> Here.files, manifest |-> op.entry])
        BY <1>5, <2>1, <2>4, <4>1
      <4>2. CASE dir' = dir
        BY <2>3, <4>2
      <4> QED
        BY <2>8, <4>1, <4>2 DEF WriteNewManifestDoes
    <3>2. \A id \in Ids : live'[id] \in {live[id], op.entry}
                        /\ staged'[id] \in {staged[id], op.entry}
      BY <1>5, <2>8 DEF WriteNewManifestDoes
    <3> QED
      BY <2>1, <2>2, <3>1, <3>2
  <2>9. CASE RenameDoes
    <3>1. \A pl \in Places, id \in Ids :
            dir'[pl][id].manifest \in {dir[pl][id].manifest, dir["staged"][id].manifest, Absent}
      BY <1>5, <2>9, EntryFields DEF RenameDoes, Moved, Places
    <3>2. Manifests
      BY <2>1, <2>3, <3>1, StoreConstants
    <3>3. \A id \in Ids : live'[id] \in {live[id], staged[id]}
                        /\ staged'[id] \in {staged[id], Absent}
      BY <1>5, <2>9 DEF RenameDoes
    <3> QED
      BY <2>1, <2>2, <3>2, <3>3
  <2>10. CASE ForgetDoes
    <3>1. \A id \in Ids : live'[id] = live[id] /\ staged'[id] \in {staged[id], Absent}
      BY <1>5, <2>10 DEF ForgetDoes
    <3> QED
      BY <2>1, <2>2, <2>3, <2>10, <3>1 DEF ForgetDoes
  <2>11. CASE MarkDoes
    <3>1. Good(Marked(live[op.id]))
      <4>1. Good(op.entry) /\ Good(live[op.id])
            /\ op.entry.status \in {"READY", "BUILD_FAILED"}
        BY <1>5, <2>1, <2>2, <2>11 DEF MarkDoes, StatusFits
      <4>2. op.entry \in Entry /\ live[op.id] \in Entry
        BY <4>1 DEF Good
      <4> DEFINE m == Marked(live[op.id])
      <4>3. /\ m.status = op.entry.status
            /\ m.artifact = IF op.entry.artifact = 0 THEN live[op.id].artifact
                            ELSE op.entry.artifact
            /\ m \in Entry
        BY <4>1, <4>2 DEF Marked, Entry
      <4> HIDE DEF m
      <4>4. CASE op.entry.status = "READY"
        BY <4>1, <4>3, <4>4 DEF Good, m
      <4>5. CASE op.entry.status = "BUILD_FAILED"
        BY <4>3, <4>5 DEF Good, m
      <4> QED
        BY <4>1, <4>4, <4>5
    <3>2. \A id \in Ids : live'[id] \in {live[id], Marked(live[op.id])}
                        /\ staged'[id] = staged[id]
      BY <1>5, <2>11 DEF MarkDoes
    <3>3. Manifests
      BY <2>3, <2>11 DEF MarkDoes
    <3> QED
      BY <2>2, <3>1, <3>2, <3>3
  <2>12. CASE WriteManifestDoes
    <3>1. Manifests
      <4>1. CASE DirIs("live", op.id, [files |-> dir["live"][op.id].files,
                                       manifest |-> live[op.id]])
        BY <1>5, <2>2, <2>4, <4>1, StoreConstants
      <4>2. CASE dir' = dir
        BY <2>3, <4>2
      <4> QED
        BY <2>12, <4>1, <4>2 DEF WriteManifestDoes
    <3> QED
      BY <2>2, <2>12, <3>1 DEF WriteManifestDoes, Still
  <2> QED
    BY <1>8, <2>6, <2>7, <2>8, <2>9, <2>10, <2>11, <2>12 DEF StoreStepDoes
<1>9. Stay /\ (op'.do = "none" \/ (op.do # "none" /\ op' = op))
        /\ entering' \subseteq entering => EntriesSound'
  <2>1. op.do # "none" => Good(op.entry)
    BY <1>3
  <2> QED
    BY <1>1, <1>7, <2>1 DEF EntriesSound
<1>10. op.do = "none" \/ op.do # "none"
  OBVIOUS
<1>20. CASE InStore
  <2>1. StoreStepDoes /\ op.do # "none" /\ op'.entry = op.entry /\ entering' = entering
    BY <1>1, StepIsAMethods, StoreStepOp, <1>20 DEF InStore, serverVars
  <2>2. Stay
    BY <1>8, <2>1
  <2>3. Good(op'.entry)
    BY <1>3, <2>1
  <2> QED
    BY <1>1, <1>7, <2>1, <2>2, <2>3 DEF EntriesSound
<1>21. CASE InArchive
  BY <1>6, <1>9, <1>21 DEF InArchive, storeVars, serverVars
<1>22. ASSUME NEW p \in Participants, SubmitStores(p) PROVE EntriesSound'
  <2>1. /\ UNCHANGED <<live, staged, dir, entering>>
        /\ op'.entry = [rev |-> revs[p] + 1, status |-> "PENDING", artifact |-> 0]
        /\ revs[p] + 1 # 0
    BY <1>1, StartCreateKeeps, <1>22 DEF SubmitStores, serverVars, StoreType, Revs
  <2>2. Good(op'.entry)
    BY <1>1, <2>1, StoreKept DEF Good, StoreInv, StoreType, OpType, Entry, Revs
  <2>3. Stay
    BY <1>6, <2>1
  <2> QED
    BY <1>1, <1>7, <2>1, <2>2, <2>3 DEF EntriesSound
<1>23. CASE SubmitReturns
  <2>1. Stay /\ op' = Idle
    BY <1>6, <1>23 DEF SubmitReturns
  <2>2. op.entry.rev # 0
    BY <1>1, <1>23 DEF SubmitReturns, StoreInv, OpFits, CreateFits
  <2>3. \A e \in entering' : e[2] # 0
    BY <1>1, <2>2, <1>23 DEF SubmitReturns, EntriesSound
  <2> QED
    BY <1>7, <2>1, <2>3 DEF EntriesSound, Idle
<1>24. ASSUME NEW j \in Jobs, NEW id \in Ids, NEW rev \in Revs, SubmitPlaces(j, id, rev)
      PROVE EntriesSound'
  BY <1>6, <1>9, <1>24 DEF SubmitPlaces, storeVars
<1>25. ASSUME NEW j \in Jobs, NEW w \in Workers, Take(j, w) PROVE EntriesSound'
  BY <1>6, <1>9, <1>25 DEF Take, storeVars
<1>26. ASSUME NEW j \in Jobs, BuildSucceeds(j) PROVE EntriesSound'
  <2>1. log[j].id \in Ids /\ log[j].rev \in Revs /\ builder[j] \in Workers
    BY <1>1, <1>26 DEF JobsFit, JobsType, BuildSucceeds, Answered
  <2>2. /\ UNCHANGED <<live, staged, dir, entering>>
        /\ op'.entry = [rev |-> 0, status |-> "READY", artifact |-> log[j].rev]
    BY <1>1, <2>1, StartStatusKeeps, <1>26 DEF BuildSucceeds
  <2>3. log[j].rev # 0 /\ Has(BytesOf[log[j].rev])
    <3>1. stage[j] = "BUILD" /\ upload[builder[j]].digest = BytesOf[log[j].rev]
      BY <1>1, <1>26 DEF Uploading, BuildSucceeds, Answered
    <3> QED
      BY <1>1, <3>1, <1>26 DEF BuildSucceeds, Archived, Upload, JobsFit, JobFits
  <2>4. Good(op'.entry)
    <3>1. blob' = blob
      BY <1>26 DEF BuildSucceeds, Answered
    <3> QED
      BY <2>1, <2>2, <2>3, <3>1 DEF Good, Has, Entry, Revs
  <2>5. Stay
    BY <1>6, <2>2
  <2> QED
    BY <1>1, <1>7, <2>2, <2>4, <2>5 DEF EntriesSound
<1>27. ASSUME NEW j \in Jobs, BuildIsBlamed(j) PROVE EntriesSound'
  <2>1. log[j].id \in Ids
    BY <1>1 DEF JobsFit, JobsType
  <2>2. /\ UNCHANGED <<live, staged, dir, entering>>
        /\ op'.entry = [rev |-> 0, status |-> "BUILD_FAILED", artifact |-> 0]
    BY <1>1, <2>1, StoreConstants, StartStatusKeeps, <1>27 DEF BuildIsBlamed
  <2>3. Good(op'.entry)
    BY <2>2 DEF Good, Entry, Revs
  <2>4. Stay
    BY <1>6, <2>2
  <2> QED
    BY <1>1, <1>7, <2>2, <2>3, <2>4 DEF EntriesSound
<1>28. ASSUME NEW j \in Jobs, BuildErrs(j) PROVE EntriesSound'
  BY <1>6, <1>9, <1>28 DEF BuildErrs, storeVars
<1>29. ASSUME NEW j \in Jobs, ResultIsIn(j) PROVE EntriesSound'
  BY <1>6, <1>9, <1>29 DEF ResultIsIn, Idle
<1>30. ASSUME NEW w \in Workers, UploadEnds(w) PROVE EntriesSound'
  BY <1>6, <1>9, <1>30 DEF UploadEnds, storeVars, serverVars
<1>31. ASSUME NEW j \in Jobs, MatchesEnd(j) PROVE EntriesSound'
  BY <1>6, <1>9, <1>31 DEF MatchesEnd, storeVars
<1>32. ASSUME NEW j \in Jobs, FetchBot(j) PROVE EntriesSound'
  BY <1>6, <1>9, <1>32 DEF FetchBot, storeVars, serverVars
<1>33. CASE Boot
  <2>1. /\ op' = Idle /\ entering' = entering
        /\ \A id \in Ids : /\ live'[id] = dir["live"][id].manifest /\ staged'[id] = Absent
                           /\ dir'["live"][id] = dir["live"][id]
                           /\ dir'["staged"][id] \in {Gone, dir["staged"][id]}
    BY <1>1, LoadKeeps, <1>33 DEF Boot
  <2>2. \A pl \in Places, id \in Ids : Good(dir'[pl][id].manifest)
    BY <1>3, <1>4, <2>1, EntryFields DEF Places
  <2>3. Stay
    BY <1>3, <1>4, <2>1, <2>2, StoreConstants
  <2> QED
    BY <1>9, <2>1, <2>3 DEF Idle
<1>34. CASE AllClosed
  BY <1>6, <1>9, <1>34 DEF AllClosed, storeVars
<1>35. CASE Serve
  BY <1>6, <1>9, <1>35 DEF Serve, storeVars
<1>36. ASSUME NEW j \in Jobs, CloseRecord(j) PROVE EntriesSound'
  BY <1>6, <1>9, <1>36 DEF CloseRecord, storeVars
<1>37. ASSUME NEW j \in Jobs, NEW id \in Ids, PlaceAgain(j, id) PROVE EntriesSound'
  BY <1>6, <1>9, <1>37 DEF PlaceAgain, storeVars
<1>38. ASSUME NEW j \in Jobs, LoseWorker(j) PROVE EntriesSound'
  BY <1>6, <1>9, <1>38 DEF LoseWorker, storeVars
<1>39. CASE Die
  BY <1>6, <1>9, <1>39 DEF Die, storeVars
<1>40. ASSUME NEW w \in Workers, WriteFails(w) PROVE EntriesSound'
  BY <1>6, <1>9, <1>40 DEF WriteFails, storeVars, serverVars
<1> QED
  BY <1>20, <1>21, <1>22, <1>23, <1>24, <1>25, <1>26, <1>27, <1>28, <1>29, <1>30, <1>31,
     <1>32, <1>33, <1>34, <1>35, <1>36, <1>37, <1>38, <1>39, <1>40 DEF ServerStep, Next,
     Submissions, Building, Playing, Main


(* ... and the uploads.                                                      *)

LEMMA UploadingKept == ASSUME ServerStep PROVE Uploading'
<1>1. /\ StoreInv /\ JobsType /\ PhaseFits /\ Uploading /\ ArchiveType /\ ArchiveSound
      /\ \A j \in Jobs : JobFits(j)
  BY DEF ServerStep, ServerInv, JobsFit
<1>2. \A j \in Jobs : builder[j] \in Workers \cup {NoWorker}
  BY <1>1 DEF JobsType
(* What all of the steps but Take do: nobody is at another job's build.       *)
<1>3. ASSUME \A i \in Jobs : \/ builder'[i] = NoWorker
                           \/ /\ builder'[i] = builder[i] /\ stage'[i] = stage[i]
                              /\ log'[i].rev = log[i].rev
                              /\ upload'[builder[i]].digest = upload[builder[i]].digest
      PROVE  Uploading'
  BY <1>1, <1>3 DEF Uploading
<1>4. ASSUME NEW j \in Jobs, Answered(j), builder'[j] = NoWorker,
             \A i \in Jobs : i # j => Same(i)
      PROVE  Uploading'
  <2>1. \A w \in Workers : w # builder[j] => upload'[w] = upload[w]
    BY <1>1, <1>4 DEF Answered, ArchiveType
  <2>2. \A i \in Jobs : i # j /\ builder[i] # NoWorker => builder[i] # builder[j]
    BY <1>1, <1>4 DEF Uploading, Answered
  <2> QED
    BY <1>2, <1>3, <1>4, <2>1, <2>2 DEF Same
<1>5. ASSUME NEW j \in Jobs, NEW state \in JobStates, Ends(j, state), UNCHANGED upload
      PROVE  Uploading'
  <2>1. Over(j, state) /\ \A i \in Jobs : i # j => Same(i)
    BY <1>1, <1>5, EndsEffect
  <2> QED
    BY <1>3, <1>5, <2>1 DEF Over, Same
<1>6. ASSUME NEW j \in Jobs, NEW id \in Ids, NEW rev \in Revs, Place(j, id, rev),
             UNCHANGED upload
      PROVE  Uploading'
  <2>1. /\ log[j] = NoRecord /\ builder'[j] \in {builder[j], NoWorker}
        /\ \A i \in Jobs : i # j => Over(i, "CANCELLED") \/ Same(i)
    BY <1>1, <1>6, PlaceEffect
  <2>2. builder[j] = NoWorker
    BY <1>1, <2>1, NoRecordFields DEF Uploading, JobFits
  <2> QED
    BY <1>3, <1>6, <2>1, <2>2 DEF Over, Same
<1>20. CASE InStore
  BY <1>3, <1>20 DEF InStore, archiveVars, serverVars
<1>21. CASE InArchive
  <2>1. CallsKeep
    BY <1>1, ArchiveStepKeeps, <1>21 DEF InArchive
  <2> QED
    BY <1>2, <1>3, <2>1, <1>21 DEF InArchive, serverVars, CallsKeep
<1>22. ASSUME NEW p \in Participants, SubmitStores(p) PROVE Uploading'
  BY <1>3, <1>22 DEF SubmitStores, archiveVars, serverVars
<1>23. CASE SubmitReturns
  BY <1>3, <1>23 DEF SubmitReturns, archiveVars
<1>24. ASSUME NEW j \in Jobs, NEW id \in Ids, NEW rev \in Revs, SubmitPlaces(j, id, rev)
      PROVE Uploading'
  BY <1>6, <1>24 DEF SubmitPlaces, archiveVars
<1>25. ASSUME NEW j \in Jobs, NEW w \in Workers, Take(j, w) PROVE Uploading'
  <2>1. /\ stage[j] = "BUILD" /\ builder[j] = NoWorker /\ UNCHANGED <<stage, log>>
        /\ \A i \in Jobs : builder[i] # w
        /\ \A i \in Jobs : builder'[i] = IF i = j THEN w ELSE builder[i]
    BY <1>1, <1>25 DEF Take, JobsType
  <2>2. PICK u : upload' = [upload EXCEPT ![w] = u] /\ u.digest = BytesOf[log[j].rev]
    <3> DEFINE u == [at |-> IF Has(BytesOf[log[j].rev]) THEN "ok" ELSE "open",
                     digest |-> BytesOf[log[j].rev], inode |-> 0]
    <3>1. upload' = [upload EXCEPT ![w] = u]
      BY <1>25 DEF Take, StartUpload
    <3>2. u.digest = BytesOf[log[j].rev]
      OBVIOUS
    <3> HIDE DEF u
    <3> QED
      BY <3>1, <3>2
  <2>3. /\ upload'[w].digest = BytesOf[log[j].rev]
        /\ \A v \in Workers : v # w => upload'[v] = upload[v]
    BY <1>1, <2>2 DEF ArchiveType
  <2> QED
    BY <1>1, <1>2, <2>1, <2>3 DEF Uploading
<1>26. ASSUME NEW j \in Jobs, BuildSucceeds(j) PROVE Uploading'
  <2>1. builder'[j] = NoWorker /\ \A i \in Jobs : i # j => Same(i)
    BY <1>1, <1>26 DEF BuildSucceeds, JobsType, Same
  <2> QED
    BY <1>4, <2>1, <1>26 DEF BuildSucceeds
<1>27. ASSUME NEW j \in Jobs, BuildIsBlamed(j) PROVE Uploading'
  <2>1. builder'[j] = NoWorker /\ \A i \in Jobs : i # j => Same(i)
    BY <1>1, <1>27 DEF BuildIsBlamed, JobsType, Same
  <2> QED
    BY <1>4, <2>1, <1>27 DEF BuildIsBlamed
<1>28. ASSUME NEW j \in Jobs, BuildErrs(j) PROVE Uploading'
  <2>1. CASE Ends(j, "GAVE_UP")
    <3>1. Over(j, "GAVE_UP") /\ \A i \in Jobs : i # j => Same(i)
      BY <1>1, <2>1, EndsEffect DEF JobStates
    <3> QED
      BY <1>4, <3>1, <1>28 DEF BuildErrs, Over
  <2>2. CASE builder' = [builder EXCEPT ![j] = NoWorker] /\ UNCHANGED <<log, stage>>
    <3>1. builder'[j] = NoWorker /\ \A i \in Jobs : i # j => Same(i)
      BY <1>1, <2>2 DEF JobsType, Same
    <3> QED
      BY <1>4, <3>1, <1>28 DEF BuildErrs
  <2> QED
    BY <2>1, <2>2, <1>28 DEF BuildErrs
<1>29. ASSUME NEW j \in Jobs, ResultIsIn(j) PROVE Uploading'
  <2>1. CASE Ends(j, "FAILED")
    BY <1>5, <2>1, <1>29 DEF ResultIsIn, JobStates, archiveVars
  <2>2. CASE stage' = [stage EXCEPT ![j] = "MATCH"] /\ UNCHANGED <<log, builder>>
    <3>1. builder[j] = NoWorker
      BY <1>1, <1>29 DEF ResultIsIn, PhaseFits, Jobs
    <3>2. \A i \in Jobs : i # j => stage'[i] = stage[i]
      BY <1>1, <2>2 DEF JobsType
    <3> QED
      BY <1>3, <2>2, <3>1, <3>2, <1>29 DEF ResultIsIn, archiveVars
  <2> QED
    BY <2>1, <2>2, <1>29 DEF ResultIsIn
<1>30. ASSUME NEW w \in Workers, UploadEnds(w) PROVE Uploading'
  <2>1. \A v \in Workers : v # w => upload'[v] = upload[v]
    BY <1>1, <1>30 DEF UploadEnds, ArchiveType
  <2> QED
    BY <1>2, <1>3, <2>1, <1>30 DEF UploadEnds, serverVars
<1>31. ASSUME NEW j \in Jobs, MatchesEnd(j) PROVE Uploading'
  BY <1>5, <1>31 DEF MatchesEnd, JobStates, archiveVars
<1>32. ASSUME NEW j \in Jobs, FetchBot(j) PROVE Uploading'
  BY <1>3, <1>32 DEF FetchBot, Fetch, serverVars
<1>33. CASE Boot
  BY <1>3, <1>33 DEF Boot, archiveVars
<1>34. CASE AllClosed
  BY <1>3, <1>34 DEF AllClosed, archiveVars
<1>35. CASE Serve
  BY <1>3, <1>35 DEF Serve, archiveVars
<1>36. ASSUME NEW j \in Jobs, CloseRecord(j) PROVE Uploading'
  <2>1. \A i \in Jobs : log'[i].rev = log[i].rev
    BY <1>1, <1>36 DEF CloseRecord, JobsType
  <2> QED
    BY <1>3, <2>1, <1>36 DEF CloseRecord, archiveVars
<1>37. ASSUME NEW j \in Jobs, NEW id \in Ids, PlaceAgain(j, id) PROVE Uploading'
  <2>1. live[id].rev \in Revs
    BY <1>1 DEF StoreInv, StoreType, Entry
  <2> QED
    BY <1>6, <2>1, <1>37 DEF PlaceAgain, archiveVars
<1>38. ASSUME NEW j \in Jobs, LoseWorker(j) PROVE Uploading'
  <2>1. \A i \in Jobs : builder'[i] \in {builder[i], NoWorker}
    BY <1>1, <1>38 DEF LoseWorker, JobsType
  <2> QED
    BY <1>3, <2>1, <1>38 DEF LoseWorker, archiveVars
<1>39. CASE Die
  BY <1>3, <1>39 DEF Die, archiveVars
<1>40. ASSUME NEW w \in Workers, WriteFails(w) PROVE Uploading'
  <2>1. CallsKeep
    BY <1>1, FailedWriteKeeps, <1>40 DEF WriteFails
  <2> QED
    BY <1>2, <1>3, <2>1, <1>40 DEF WriteFails, CallsKeep
<1> QED
  BY <1>20, <1>21, <1>22, <1>23, <1>24, <1>25, <1>26, <1>27, <1>28, <1>29, <1>30, <1>31,
     <1>32, <1>33, <1>34, <1>35, <1>36, <1>37, <1>38, <1>39, <1>40 DEF ServerStep, Next,
     Submissions, Building, Playing, Main

LEMMA ServerIsKept == ASSUME ServerInv, [Next]_vars PROVE ServerInv'
<1>1. CASE Next
  <2>1. ServerStep
    BY <1>1 DEF ServerStep
  <2> QED
    BY <2>1, StoreKept, JobsTypeKept, PhaseKept, JobFitsKept, ArchiveKept, EntriesKept,
       UploadingKept DEF ServerInv, JobsFit, ArchiveGoes
<1>2. CASE UNCHANGED vars
  <2>1. UNCHANGED storeVars /\ UNCHANGED archiveVars /\ UNCHANGED serverVars
    BY <1>2 DEF vars
  <2>2. StoreInv'
    BY <2>1, QuietStore DEF ServerInv
  <2>3. JobsFit'
    BY <2>1 DEF storeVars, serverVars, ServerInv, JobsFit, JobsType, PhaseFits, JobFits
  <2>4. ArchiveType' /\ ArchiveSound'
    BY <2>1 DEF archiveVars, ServerInv, ArchiveType, ArchiveSound, NamesApart, Alone,
       WritesOn, Writing
  <2>5. EntriesSound' /\ Uploading'
    BY <2>1 DEF storeVars, archiveVars, serverVars, ServerInv, EntriesSound, Sound, Has,
       Uploading
  <2> QED
    BY <2>2, <2>3, <2>4, <2>5 DEF ServerInv
<1> QED
  BY <1>1, <1>2

LEMMA ServerInitially == ASSUME Init PROVE ServerInv
<1>1. StoreInv
  <2>1. StoreType
    BY StoreConstants DEF Init, StoreInit, StoreType
  <2>2. op = Idle /\ Idle.do = "none"
    BY DEF Init, StoreInit, Idle
  <2>3. OpFits /\ Behind
    BY <2>2 DEF Init, StoreInit, OpFits, Behind
  <2>4. Numbered
    BY <2>2, StoreConstants, EntryFields DEF Init, StoreInit, Numbered, Creating
  <2> QED
    BY <2>1, <2>3, <2>4 DEF StoreInv
<1>2. JobsFit
  <2>1. JobsType
    BY NoRecordFields DEF Init, JobsType, Record
  <2>2. PhaseFits /\ \A j \in Jobs : JobFits(j)
    BY DEF Init, PhaseFits, JobFits
  <2> QED
    BY <2>1, <2>2 DEF JobsFit
<1>3. ArchiveType /\ ArchiveSound
  <2>1. ArchiveType
    BY NoUploadFits DEF Init, ArchiveInit, ArchiveType
  <2>2. \A w \in Workers : ~ Writing(w)
    BY DEF Init, ArchiveInit, NoUpload, Writing
  <2> QED
    BY <2>1, <2>2 DEF Init, ArchiveInit, ArchiveSound, NamesApart, Alone, WritesOn
<1>4. EntriesSound
  <2>1. Sound(Absent)
    BY EntryFields DEF Sound
  <2>2. op.do = "none"
    BY DEF Init, StoreInit, Idle
  <2> QED
    BY <2>1, <2>2, EntryFields DEF Init, StoreInit, EntriesSound
<1>5. Uploading
  BY DEF Init, Uploading
<1> QED
  BY <1>1, <1>2, <1>3, <1>4, <1>5 DEF ServerInv

(* The invariant of the process: what its parts rely on of each other holds   *)
(* in every state of it, whatever died, failed or was lost before.            *)
THEOREM ServerIsSound == Spec => []ServerInv
<1>1. Init => ServerInv
  BY ServerInitially
<1>2. ServerInv /\ [Next]_vars => ServerInv'
  BY ServerIsKept
<1> QED
  BY <1>1, <1>2, PTL DEF Spec

(* The bot of whoever is READY is in the archive, and all of it, so that it    *)
(* can be fetched: over every restart, upload that fails and file that was    *)
(* left half written; but for bytes of which two uploads met.                 *)
THEOREM ReadyIsAlwaysWhole == Spec => []ReadyIsWhole
<1>1. ServerInv => ReadyIsWhole
  <2> SUFFICES ASSUME ServerInv, NEW id \in Ids, live[id].status = "READY"
               PROVE  Fetchable(BytesOf[live[id].artifact])
    BY DEF ReadyIsWhole
  <2> DEFINE d == BytesOf[live[id].artifact]
  <2>1. live[id].artifact # 0 /\ Has(d) /\ live[id] \in Entry
    BY DEF ServerInv, EntriesSound, Sound, StoreInv, StoreType
  <2>2. d \in Digests
    <3>1. live[id].artifact \in 1 .. MaxRev
      BY <2>1 DEF Entry, Revs
    <3> QED
      BY <3>1
  <2> HIDE DEF d
  <2>3. d \in contended \/ half[blob[d]] = Halves
    BY <2>1, <2>2 DEF ServerInv, ArchiveSound, Alone, Has
  <2> QED
    BY <2>1, <2>3 DEF Fetchable, Whole, d
<1> QED
  BY <1>1, ServerIsSound, PTL

-----------------------------------------------------------------------------
(* Nothing is forgotten.                                                     *)

LEMMA RememberedKept == ASSUME ServerStep, Remembered PROVE Remembered'
<1>1. /\ StoreInv /\ JobsType /\ PhaseFits /\ StoreType
      /\ \A j \in Jobs : JobFits(j) /\ log[j].id \in Ids
  BY DEF ServerStep, ServerInv, StoreInv, JobsFit, JobsType
<1>2. Remembered
  OBVIOUS
<1>3. Idle.do = "none" /\ Idle.at = "idle"
  BY DEF Idle
<1>4. /\ op.at \in {"stored", "clear", "files", "manifest"} \/ op.do # "create"
         \/ op.at = "refused"
      /\ op = Idle => \A id \in Ids : Covered(id) => \E e \in entering : e[1] = id
  BY <1>1, <1>3 DEF StoreInv, OpFits, CreateFits, Covered
(* The steps that add nothing to build, and cover what they covered.         *)
<1>5. ASSUME UNCHANGED <<live, staged, log, stage, toPlace>>,
             phase' \in {"placing", "up"} => phase \in {"placing", "up"},
             \A id \in Ids : Covered(id) => Covered(id)'
      PROVE  Remembered'
  BY <1>1, <1>2, <1>5 DEF Remembered, Unbuilt, InLog
<1>6. UNCHANGED <<op, entering>> => \A id \in Ids : Covered(id) => Covered(id)'
  BY DEF Covered
<1>7. entering' = entering /\ op = Idle => \A id \in Ids : Covered(id) => Covered(id)'
  BY <1>4 DEF Covered
(* The steps with which a job is over.                                       *)
<1>8. ASSUME NEW j \in Jobs, NEW state \in JobStates, Ends(j, state),
             UNCHANGED <<live, staged, phase, toPlace>>,
             \A id \in Ids : Unbuilt(id) /\ Covered(id) => Covered(id)',
             \/ state = "GAVE_UP"
             \/ Unbuilt(log[j].id) => Covered(log[j].id)
      PROVE  Remembered'
  <2>1. Over(j, state) /\ \A i \in Jobs : i # j => Same(i)
    BY <1>1, <1>8, EndsEffect
  <2>2. \A id \in Ids : Unbuilt(id)' <=> Unbuilt(id)
    BY <1>8 DEF Unbuilt
  <2>3. \A id \in Ids : InLog(id) => InLog(id)' \/ (log[j].id = id /\ state # "GAVE_UP")
    BY <2>1 DEF InLog, Over, Same
  <2>4. \A i \in Jobs : stage'[i] = "MATCH" => stage[i] = "MATCH" /\ log'[i].id = log[i].id
    BY <2>1 DEF Over, Same
  <2>5. \A id \in Ids : id \in toPlace => id \in toPlace'
    BY <1>8
  <2>6. phase' \in {"placing", "up"} => \A id \in Ids : Unbuilt(id)' =>
          (Covered(id) \/ InLog(id) \/ id \in toPlace)'
    <3> SUFFICES ASSUME phase \in {"placing", "up"}, NEW id \in Ids, Unbuilt(id)
                 PROVE  Covered(id)' \/ InLog(id)' \/ id \in toPlace'
      BY <1>8, <2>2
    <3>1. Covered(id) \/ InLog(id) \/ id \in toPlace
      BY <1>2 DEF Remembered
    <3> QED
      BY <1>8, <2>3, <2>5, <3>1
  <2>7. \A i \in Jobs : stage'[i] = "MATCH" /\ Unbuilt(log[i].id)' => Covered(log[i].id)'
    <3> SUFFICES ASSUME NEW i \in Jobs, stage'[i] = "MATCH", Unbuilt(log[i].id)'
                 PROVE  Covered(log[i].id)'
      OBVIOUS
    <3>1. log[i].id \in Ids /\ stage[i] = "MATCH" /\ log'[i].id = log[i].id
      BY <1>1, <2>4
    <3>2. Unbuilt(log[i].id)
      BY <1>8, <3>1 DEF Unbuilt
    <3>3. Covered(log[i].id)
      BY <1>2, <3>1, <3>2 DEF Remembered
    <3>4. \A x \in Ids : x = log[i].id => (Covered(x)' <=> Covered(log[i].id)')
      BY <3>1 DEF Covered
    <3> QED
      BY <1>8, <3>1, <3>2, <3>3, <3>4
  <2> QED
    BY <2>6, <2>7 DEF Remembered
<1>20. CASE InStore
  <2>1. /\ StoreStepDoes /\ op.do # "none" /\ op.id \in Ids
        /\ UNCHANGED <<phase, log, stage, toPlace, entering>>
    BY <1>1, StepIsAMethods, <1>20 DEF InStore, serverVars, StoreType, OpType
  <2>2. op'.do = op.do /\ op'.id = op.id
        /\ \A id \in Ids : id # op.id => live'[id] = live[id] /\ staged'[id] = staged[id]
    BY <1>1, <2>1, StoreStepOp
  <2>3. op.at # "stored" \/ op.do = "status"
    BY <2>1 DEF StoreStepDoes, ClearDoes, WriteFilesDoes, WriteNewManifestDoes, RenameDoes,
       ForgetDoes, MarkDoes, WriteManifestDoes
  <2>4. op.do \in {"create", "status"}
    BY <1>1, <2>1 DEF StoreType, OpType
  <2>5. UNCHANGED <<live, staged>> \/ op.do = "status" \/ op'.at = "stored"
    <3>1. CASE ClearDoes
      BY <3>1 DEF ClearDoes, Still
    <3>2. CASE WriteFilesDoes
      BY <3>2 DEF WriteFilesDoes, Still
    <3>3. CASE WriteNewManifestDoes
      BY <1>1, <3>3 DEF WriteNewManifestDoes, OpGoes, StoreType, OpType
    <3>4. CASE RenameDoes \/ ForgetDoes \/ MarkDoes \/ WriteManifestDoes
      BY <3>4 DEF RenameDoes, ForgetDoes, MarkDoes, WriteManifestDoes
    <3> QED
      BY <2>1, <3>1, <3>2, <3>3, <3>4 DEF StoreStepDoes
  <2>6. \A id \in Ids : Covered(id) => Covered(id)'
    BY <2>1, <2>2, <2>3 DEF Covered
  <2>7. \A id \in Ids : Unbuilt(id)' => Unbuilt(id) \/ Covered(id)'
    BY <2>2, <2>5 DEF Unbuilt, Covered
  <2> QED
    <3>1. phase' \in {"placing", "up"} => \A id \in Ids : Unbuilt(id)' =>
            (Covered(id) \/ InLog(id) \/ id \in toPlace)'
      BY <1>2, <2>1, <2>6, <2>7 DEF Remembered, InLog
    <3>2. \A j \in Jobs : (stage[j] = "MATCH" /\ Unbuilt(log[j].id) => Covered(log[j].id))'
      <4> SUFFICES ASSUME NEW j \in Jobs, stage[j] = "MATCH", NEW x \in Ids, x = log[j].id,
                          Unbuilt(x)'
                   PROVE  Covered(x)'
        BY <1>1, <2>1
      <4> QED
        BY <1>2, <2>6, <2>7 DEF Remembered
    <3> QED
      BY <3>1, <3>2 DEF Remembered
<1>21. CASE InArchive
  BY <1>5, <1>6, <1>21 DEF InArchive, storeVars, serverVars
<1>22. ASSUME NEW p \in Participants, SubmitStores(p) PROVE Remembered'
  BY <1>5, <1>7, <1>22 DEF SubmitStores, StartCreate, serverVars
<1>23. CASE SubmitReturns
  <2>1. \A id \in Ids : Covered(id) => Covered(id)'
    <3>1. CASE op.at = "stored"
      <4>1. <<op.id, op.entry.rev>> \in entering' /\ entering \subseteq entering'
        BY <3>1, <1>23 DEF SubmitReturns
      <4> QED
        BY <4>1, <1>23 DEF Covered, SubmitReturns
    <3>2. CASE op.at # "stored"
      BY <3>2, <1>23 DEF Covered, SubmitReturns
    <3> QED
      BY <3>1, <3>2
  <2> QED
    BY <1>5, <2>1, <1>23 DEF SubmitReturns
<1>24. ASSUME NEW j \in Jobs, NEW id \in Ids, NEW rev \in Revs, SubmitPlaces(j, id, rev)
      PROVE Remembered'
  <2>1. rev \in Revs
    OBVIOUS
  <2>2. /\ log'[j] = [id |-> id, rev |-> rev, state |-> "OPEN"]
        /\ stage'[j] = "BUILD"
        /\ \A i \in Jobs : i # j =>
              IF log[i].id = id /\ stage[i] # "NONE" THEN Over(i, "CANCELLED") ELSE Same(i)
        /\ log[j] = NoRecord
    BY <1>1, <2>1, PlaceEffect, <1>24 DEF SubmitPlaces
  <2>3. InLog(id)'
    BY <2>2 DEF InLog
  <2>4. \A x \in Ids : x # id /\ InLog(x) => InLog(x)'
    <3> SUFFICES ASSUME NEW x \in Ids, x # id, NEW i \in Jobs, log[i].id = x,
                        log[i].state \in {"OPEN", "GAVE_UP"}
                 PROVE  log'[i] = log[i]
      BY DEF InLog
    <3> QED
      BY <2>2, NoRecordFields DEF Same
  <2>5. \A x \in Ids : x # id /\ Covered(x) => Covered(x)'
    BY <1>24 DEF SubmitPlaces, Covered, storeVars
  <2>6. /\ UNCHANGED <<live, staged, phase>>
        /\ \A x \in Ids : x # id /\ x \in toPlace => x \in toPlace'
    BY <1>24 DEF SubmitPlaces, storeVars
  <2>7. \A i \in Jobs : stage'[i] = "MATCH" =>
          stage[i] = "MATCH" /\ log'[i].id = log[i].id /\ log[i].id # id
    BY <2>2 DEF Over, Same
  <2>8. phase \in {"placing", "up"}
    BY <1>24 DEF SubmitPlaces
  <2>9. \A x \in Ids : Unbuilt(x)' <=> Unbuilt(x)
    BY <2>6 DEF Unbuilt
  <2>10. \A x \in Ids : Unbuilt(x)' => (Covered(x) \/ InLog(x) \/ x \in toPlace)'
    BY <1>2, <2>3, <2>4, <2>5, <2>6, <2>8, <2>9 DEF Remembered
  <2>11. \A i \in Jobs : stage'[i] = "MATCH" /\ Unbuilt(log[i].id)' => Covered(log[i].id)'
    <3> SUFFICES ASSUME NEW i \in Jobs, stage'[i] = "MATCH", Unbuilt(log[i].id)'
                 PROVE  Covered(log[i].id)'
      OBVIOUS
    <3>1. log[i].id \in Ids /\ stage[i] = "MATCH" /\ log'[i].id = log[i].id
          /\ log[i].id # id
      BY <1>1, <2>7 DEF JobsType
    <3>2. Unbuilt(log[i].id)
      BY <2>6, <3>1 DEF Unbuilt
    <3>3. Covered(log[i].id)
      BY <1>2, <3>1, <3>2 DEF Remembered
    <3>4. \A x \in Ids : x = log[i].id => (Covered(x)' <=> Covered(log[i].id)')
      BY <3>1 DEF Covered
    <3> QED
      BY <2>5, <3>1, <3>3, <3>4
  <2> QED
    BY <2>10, <2>11 DEF Remembered
<1>25. ASSUME NEW j \in Jobs, NEW w \in Workers, Take(j, w) PROVE Remembered'
  BY <1>5, <1>6, <1>25 DEF Take, storeVars
<1>26. ASSUME NEW j \in Jobs, BuildSucceeds(j) PROVE Remembered'
  BY <1>5, <1>7, <1>26 DEF BuildSucceeds, StartSetStatus, Memory
<1>27. ASSUME NEW j \in Jobs, BuildIsBlamed(j) PROVE Remembered'
  BY <1>5, <1>7, <1>27 DEF BuildIsBlamed, StartSetStatus, Memory
<1>28. ASSUME NEW j \in Jobs, BuildErrs(j) PROVE Remembered'
  <2>1. UNCHANGED <<live, staged, phase, toPlace, op, entering>>
    BY <1>28 DEF BuildErrs, storeVars
  <2>2. CASE Ends(j, "GAVE_UP")
    BY <1>6, <1>8, <2>1, <2>2 DEF JobStates
  <2>3. CASE UNCHANGED <<log, stage>>
    BY <1>5, <1>6, <2>1, <2>3
  <2> QED
    BY <2>2, <2>3, <1>28 DEF BuildErrs
<1>29. ASSUME NEW j \in Jobs, ResultIsIn(j) PROVE Remembered'
  <2>1. /\ op.id = log[j].id /\ op.do = "status" /\ op.at = "marked" /\ phase = "up"
        /\ op' = Idle /\ UNCHANGED <<live, staged, phase, entering, toPlace>>
    BY <1>1, <1>29 DEF ResultIsIn, At, PhaseFits, Jobs, JobsType
  <2>2. ~ Unbuilt(log[j].id)
    BY <1>1, <2>1 DEF StoreInv, OpFits, StatusFits, Unbuilt
  <2>3. \A id \in Ids : Unbuilt(id) /\ Covered(id) => Covered(id)'
    BY <2>1, <2>2 DEF Covered
  <2>4. CASE Ends(j, "FAILED")
    BY <1>8, <2>1, <2>2, <2>3, <2>4 DEF JobStates
  <2>5. CASE stage' = [stage EXCEPT ![j] = "MATCH"] /\ UNCHANGED log
    <3>1. \A i \in Jobs : i # j => stage'[i] = stage[i]
      BY <1>1, <2>5 DEF JobsType
    <3>2. \A id \in Ids : Unbuilt(id)' <=> Unbuilt(id)
      BY <2>1 DEF Unbuilt
    <3>3. phase' \in {"placing", "up"} => \A id \in Ids : Unbuilt(id)' =>
            (Covered(id) \/ InLog(id) \/ id \in toPlace)'
      BY <1>2, <2>1, <2>3, <2>5, <3>2 DEF Remembered, InLog
    <3>4. \A i \in Jobs : (stage[i] = "MATCH" /\ Unbuilt(log[i].id) => Covered(log[i].id))'
      <4> SUFFICES ASSUME NEW i \in Jobs, stage'[i] = "MATCH", NEW x \in Ids,
                          x = log[i].id, Unbuilt(x)'
                   PROVE  Covered(x)'
        BY <1>1, <2>5
      <4> QED
        BY <1>2, <2>2, <2>3, <3>1, <3>2 DEF Remembered
    <3> QED
      BY <3>3, <3>4 DEF Remembered
  <2> QED
    BY <2>4, <2>5, <1>29 DEF ResultIsIn
<1>30. ASSUME NEW w \in Workers, UploadEnds(w) PROVE Remembered'
  BY <1>5, <1>6, <1>30 DEF UploadEnds, storeVars, serverVars
<1>31. ASSUME NEW j \in Jobs, MatchesEnd(j) PROVE Remembered'
  <2>1. UNCHANGED <<live, staged, phase, toPlace, op, entering>>
    BY <1>31 DEF MatchesEnd, storeVars
  <2>2. Unbuilt(log[j].id) => Covered(log[j].id)
    BY <1>2, <1>31 DEF MatchesEnd, Remembered
  <2> QED
    BY <1>6, <1>8, <2>1, <2>2, <1>31 DEF MatchesEnd, JobStates
<1>32. ASSUME NEW j \in Jobs, FetchBot(j) PROVE Remembered'
  BY <1>5, <1>6, <1>32 DEF FetchBot, storeVars, serverVars
<1>33. CASE Boot
  <2>1. phase = "down" /\ phase' = "closing" /\ UNCHANGED stage
    BY <1>33 DEF Boot
  <2> QED
    BY <1>1, <2>1 DEF PhaseFits, Remembered
<1>34. CASE AllClosed
  <2>1. phase = "closing" /\ UNCHANGED <<live, staged, stage>> /\ toPlace' = WaitingIds
    BY <1>34 DEF AllClosed, storeVars
  <2>2. \A id \in Ids : Unbuilt(id)' => id \in toPlace'
    BY <1>1, <2>1 DEF PhaseFits, Unbuilt, WaitingIds
  <2>3. \A j \in Jobs : stage'[j] # "MATCH"
    BY <1>1, <2>1 DEF PhaseFits
  <2> QED
    BY <2>2, <2>3 DEF Remembered
<1>35. CASE Serve
  BY <1>5, <1>6, <1>35 DEF Serve, storeVars
<1>36. ASSUME NEW j \in Jobs, CloseRecord(j) PROVE Remembered'
  <2>1. phase = "closing" /\ UNCHANGED <<phase, stage>>
    BY <1>36 DEF CloseRecord
  <2> QED
    BY <1>1, <2>1 DEF PhaseFits, Remembered
<1>37. ASSUME NEW j \in Jobs, NEW id \in Ids, PlaceAgain(j, id) PROVE Remembered'
  <2>1. live[id].rev \in Revs
    BY <1>1 DEF StoreInv, StoreType, Entry
  <2>2. /\ log'[j] = [id |-> id, rev |-> live[id].rev, state |-> "OPEN"]
        /\ stage'[j] = "BUILD"
        /\ \A i \in Jobs : i # j =>
              IF log[i].id = id /\ stage[i] # "NONE" THEN Over(i, "CANCELLED") ELSE Same(i)
        /\ log[j] = NoRecord
    BY <1>1, <2>1, PlaceEffect, <1>37 DEF PlaceAgain
  <2>3. InLog(id)'
    BY <2>2 DEF InLog
  <2>4. \A x \in Ids : x # id /\ InLog(x) => InLog(x)'
    <3> SUFFICES ASSUME NEW x \in Ids, x # id, NEW i \in Jobs, log[i].id = x,
                        log[i].state \in {"OPEN", "GAVE_UP"}
                 PROVE  log'[i] = log[i]
      BY DEF InLog
    <3> QED
      BY <2>2, NoRecordFields DEF Same
  <2>5. \A x \in Ids : x # id /\ Covered(x) => Covered(x)'
    BY <1>37 DEF PlaceAgain, Covered, storeVars
  <2>6. /\ UNCHANGED <<live, staged, phase>>
        /\ \A x \in Ids : x # id /\ x \in toPlace => x \in toPlace'
    BY <1>37 DEF PlaceAgain, storeVars
  <2>7. \A i \in Jobs : stage'[i] = "MATCH" =>
          stage[i] = "MATCH" /\ log'[i].id = log[i].id /\ log[i].id # id
    BY <2>2 DEF Over, Same
  <2>8. phase \in {"placing", "up"}
    BY <1>37 DEF PlaceAgain
  <2>9. \A x \in Ids : Unbuilt(x)' <=> Unbuilt(x)
    BY <2>6 DEF Unbuilt
  <2>10. \A x \in Ids : Unbuilt(x)' => (Covered(x) \/ InLog(x) \/ x \in toPlace)'
    BY <1>2, <2>3, <2>4, <2>5, <2>6, <2>8, <2>9 DEF Remembered
  <2>11. \A i \in Jobs : stage'[i] = "MATCH" /\ Unbuilt(log[i].id)' => Covered(log[i].id)'
    <3> SUFFICES ASSUME NEW i \in Jobs, stage'[i] = "MATCH", Unbuilt(log[i].id)'
                 PROVE  Covered(log[i].id)'
      OBVIOUS
    <3>1. log[i].id \in Ids /\ stage[i] = "MATCH" /\ log'[i].id = log[i].id
          /\ log[i].id # id
      BY <1>1, <2>7 DEF JobsType
    <3>2. Unbuilt(log[i].id)
      BY <2>6, <3>1 DEF Unbuilt
    <3>3. Covered(log[i].id)
      BY <1>2, <3>1, <3>2 DEF Remembered
    <3>4. \A x \in Ids : x = log[i].id => (Covered(x)' <=> Covered(log[i].id)')
      BY <3>1 DEF Covered
    <3> QED
      BY <2>5, <3>1, <3>3, <3>4
  <2> QED
    BY <2>10, <2>11 DEF Remembered
<1>38. ASSUME NEW j \in Jobs, LoseWorker(j) PROVE Remembered'
  BY <1>5, <1>6, <1>38 DEF LoseWorker, storeVars
<1>39. CASE Die
  BY <1>39 DEF Die, Remembered
<1>40. ASSUME NEW w \in Workers, WriteFails(w) PROVE Remembered'
  BY <1>5, <1>6, <1>40 DEF WriteFails, storeVars, serverVars
<1> QED
  BY <1>20, <1>21, <1>22, <1>23, <1>24, <1>25, <1>26, <1>27, <1>28, <1>29, <1>30, <1>31,
     <1>32, <1>33, <1>34, <1>35, <1>36, <1>37, <1>38, <1>39, <1>40 DEF ServerStep, Next,
     Submissions, Building, Playing, Main

(* Nothing that was stored and is not built is forgotten: it is being stored, *)
(* about to be placed, in a job or marked, or its job was given up; over any  *)
(* restarts, and whatever was submitted, cancelled or lost meanwhile.         *)
THEOREM NothingIsEverForgotten == Spec => []NothingIsForgotten
<1>1. Init => ServerInv /\ Remembered
  <2> SUFFICES ASSUME Init PROVE Remembered
    BY ServerInitially
  <2>1. \A id \in Ids : ~ Unbuilt(id)
    BY EntryFields DEF Init, StoreInit, Unbuilt
  <2>2. \A j \in Jobs : stage[j] # "MATCH"
    BY DEF Init
  <2> QED
    BY <2>1, <2>2 DEF Remembered
<1>2. ServerInv /\ Remembered /\ [Next]_vars => (ServerInv /\ Remembered)'
  <2> SUFFICES ASSUME ServerInv, Remembered, [Next]_vars PROVE Remembered'
    BY ServerIsKept
  <2>1. CASE Next
    BY <2>1, RememberedKept DEF ServerStep
  <2>2. CASE UNCHANGED vars
    BY <2>2 DEF vars, storeVars, serverVars, Remembered, Unbuilt, Covered, InLog
  <2> QED
    BY <2>1, <2>2
<1>3. ServerInv /\ Remembered => NothingIsForgotten
  <2> SUFFICES ASSUME ServerInv, Remembered, phase = "up", NEW id \in Ids, Unbuilt(id)
               PROVE  OnItsWay(id)
    BY DEF NothingIsForgotten
  <2>1. Covered(id) \/ InLog(id)
    BY DEF Remembered, ServerInv, JobsFit, PhaseFits
  <2>2. op.do = "status" => op.at # "idle"
    BY DEF ServerInv, StoreInv, OpFits, StatusFits
  <2> QED
    BY <2>1, <2>2 DEF Covered, InLog, OnItsWay
<1> QED
  BY <1>1, <1>2, <1>3, PTL DEF Spec

-----------------------------------------------------------------------------
(* Numbers are not reused.                                                   *)

(* What the store is run with is not changed, and failures are counted.      *)
StoreCounts == versions' = versions /\ (fails' = fails \/ fails' = fails + 1)
LEMMA StoreCountsStay == ASSUME ServerInv, Next PROVE StoreCounts
<1>1. StoreInv
  BY DEF ServerInv
<1>20. CASE InStore
  BY <1>1, StepIsAMethods, StoreStepOp, <1>20 DEF InStore, StoreInv, StoreCounts
<1>21. CASE InArchive
  BY <1>21 DEF InArchive, storeVars, StoreCounts
<1>22. ASSUME NEW p \in Participants, SubmitStores(p) PROVE StoreCounts
  BY <1>22 DEF SubmitStores, StartCreate, StoreCounts
<1>23. CASE SubmitReturns
  BY <1>23 DEF SubmitReturns, storeVars, StoreCounts
<1>24. ASSUME NEW j \in Jobs, NEW id \in Ids, NEW rev \in Revs, SubmitPlaces(j, id, rev)
      PROVE StoreCounts
  BY <1>24 DEF SubmitPlaces, storeVars, StoreCounts
<1>25. ASSUME NEW j \in Jobs, NEW w \in Workers, Take(j, w) PROVE StoreCounts
  BY <1>25 DEF Take, storeVars, StoreCounts
<1>26. ASSUME NEW j \in Jobs, BuildSucceeds(j) PROVE StoreCounts
  BY <1>26 DEF BuildSucceeds, StartSetStatus, Rest, StoreCounts
<1>27. ASSUME NEW j \in Jobs, BuildIsBlamed(j) PROVE StoreCounts
  BY <1>27 DEF BuildIsBlamed, StartSetStatus, Rest, StoreCounts
<1>28. ASSUME NEW j \in Jobs, BuildErrs(j) PROVE StoreCounts
  BY <1>28 DEF BuildErrs, storeVars, StoreCounts
<1>29. ASSUME NEW j \in Jobs, ResultIsIn(j) PROVE StoreCounts
  BY <1>29 DEF ResultIsIn, storeVars, StoreCounts
<1>30. ASSUME NEW w \in Workers, UploadEnds(w) PROVE StoreCounts
  BY <1>30 DEF UploadEnds, storeVars, StoreCounts
<1>31. ASSUME NEW j \in Jobs, MatchesEnd(j) PROVE StoreCounts
  BY <1>31 DEF MatchesEnd, storeVars, StoreCounts
<1>32. ASSUME NEW j \in Jobs, FetchBot(j) PROVE StoreCounts
  BY <1>32 DEF FetchBot, storeVars, StoreCounts
<1>33. CASE Boot
  BY <1>1, LoadKeeps, <1>33 DEF Boot, StoreCounts
<1>34. CASE AllClosed
  BY <1>34 DEF AllClosed, storeVars, StoreCounts
<1>35. CASE Serve
  BY <1>35 DEF Serve, storeVars, StoreCounts
<1>36. ASSUME NEW j \in Jobs, CloseRecord(j) PROVE StoreCounts
  BY <1>36 DEF CloseRecord, storeVars, StoreCounts
<1>37. ASSUME NEW j \in Jobs, NEW id \in Ids, PlaceAgain(j, id) PROVE StoreCounts
  BY <1>37 DEF PlaceAgain, storeVars, StoreCounts
<1>38. ASSUME NEW j \in Jobs, LoseWorker(j) PROVE StoreCounts
  BY <1>38 DEF LoseWorker, storeVars, StoreCounts
<1>39. CASE Die
  BY <1>39 DEF Die, storeVars, StoreCounts
<1>40. ASSUME NEW w \in Workers, WriteFails(w) PROVE StoreCounts
  BY <1>40 DEF WriteFails, storeVars, StoreCounts
<1> QED
  BY <1>20, <1>21, <1>22, <1>23, <1>24, <1>25, <1>26, <1>27, <1>28, <1>29, <1>30, <1>31,
     <1>32, <1>33, <1>34, <1>35, <1>36, <1>37, <1>38, <1>39, <1>40 DEF Next, Submissions, Building,
     Playing, Main

LEMMA OneEachKept == ASSUME ServerStep, OneEach, versions PROVE OneEach'
<1>1. /\ StoreInv /\ StoreType /\ JobsType /\ PhaseFits /\ EntriesSound /\ OneEach
      /\ \A j \in Jobs : JobFits(j) /\ log[j].id \in Ids
      /\ versions /\ versions' = versions => versions
  BY DEF ServerStep, ServerInv, StoreInv, JobsFit, JobsType
<1>2. /\ \A id \in Ids : live[id].rev # 0 => dir["live"][id].manifest.rev = live[id].rev
      /\ \A j \in Jobs : log[j] # NoRecord => live[log[j].id].rev = log[j].rev
      /\ \A e \in entering : live[e[1]].rev = e[2]
      /\ op.at = "stored" => live[op.id].rev = op.entry.rev
  BY <1>1 DEF OneEach
<1>3. Idle.at = "idle"
  BY DEF Idle
<1>4. \A j \in Jobs : log[j].rev # 0 => log[j] # NoRecord
  BY NoRecordFields
(* The steps that leave what is in the store, and whose ids are known.        *)
<1>5. ASSUME UNCHANGED <<live, dir>>, op'.at = "stored" => op' = op,
             entering' \subseteq entering,
             \A j \in Jobs : \/ log'[j] = log[j]
                            \/ /\ log[j] # NoRecord /\ log'[j].id = log[j].id
                               /\ log'[j].rev = log[j].rev
      PROVE  OneEach'
  BY <1>2, <1>5 DEF OneEach
<1>6. ASSUME NEW j \in Jobs, NEW state \in JobStates, Ends(j, state), log[j].rev # 0,
             UNCHANGED <<live, dir, entering>>, op'.at = "stored" => op' = op
      PROVE  OneEach'
  <2>1. Over(j, state) /\ \A i \in Jobs : i # j => Same(i)
    BY <1>1, <1>6, EndsEffect
  <2> QED
    BY <1>4, <1>5, <1>6, <2>1 DEF Over, Same
<1>7. ASSUME NEW j \in Jobs, NEW id \in Ids, NEW rev \in Revs, Place(j, id, rev),
             live[id].rev = rev, UNCHANGED <<live, dir, op>>, entering' \subseteq entering
      PROVE  OneEach'
  <2>1. /\ log'[j] = [id |-> id, rev |-> rev, state |-> "OPEN"]
        /\ \A i \in Jobs : i # j =>
              (stage[i] # "NONE" /\ Over(i, "CANCELLED")) \/ Same(i)
    BY <1>1, <1>7, PlaceEffect
  <2>2. log'[j].id = id /\ log'[j].rev = rev
    BY <2>1
  <2>3. \A i \in Jobs : i # j => \/ log'[i] = log[i]
                                \/ /\ log[i] # NoRecord /\ log'[i].id = log[i].id
                                   /\ log'[i].rev = log[i].rev
    BY <1>1, <1>4, <2>1 DEF Over, Same, JobFits
  <2>4. \A i \in Jobs : log'[i] # NoRecord => live[log'[i].id].rev = log'[i].rev
    BY <1>2, <1>7, <2>2, <2>3
  <2> QED
    BY <1>2, <1>7, <2>4 DEF OneEach
<1>20. CASE InStore
  <2>1. /\ StoreStepDoes /\ op.do # "none" /\ op.id \in Ids /\ op.place \in Places
        /\ UNCHANGED <<log, entering>>
    BY <1>1, StepIsAMethods, <1>20 DEF InStore, serverVars, StoreType, OpType
  <2>2. /\ op'.id = op.id /\ op'.entry = op.entry
        /\ \A id \in Ids : id # op.id =>
              live'[id] = live[id] /\ dir'["live"][id] = dir["live"][id]
    BY <1>1, <2>1, StoreStepOp, StoreConstants
  <2>3. /\ \A id \in Ids : staged[id] = Absent
        /\ op.do = "create" => op.place = "live"
        /\ Creating => live[op.id] = Absent
        /\ op.do = "status" => StatusFits
        /\ op.do \in {"create", "status"}
    BY <1>1, <2>1 DEF StoreInv, Numbered, OpFits, StoreType, OpType
  <2>4. op.do = "create" \/ op.at \notin {"clear", "rename", "forget"}
    BY <2>1, <2>3 DEF StatusFits
(* Whoever has a job or is about to have one has an entry.                   *)
  <2>5. Creating => /\ \A j \in Jobs : log[j] # NoRecord => log[j].id # op.id
                    /\ \A e \in entering : e[1] # op.id
    BY <1>1, <1>2, <2>3, EntryFields DEF JobFits, EntriesSound
  <2>6. ASSUME live'[op.id].rev = live[op.id].rev, op'.at # "stored",
               \/ live[op.id].rev = 0
               \/ dir'["live"][op.id].manifest.rev = live[op.id].rev
        PROVE  OneEach'
    <3>1. \A id \in Ids : live'[id].rev = live[id].rev
      BY <2>2, <2>6
    <3>2. \A id \in Ids : live'[id].rev # 0 =>
            dir'["live"][id].manifest.rev = live'[id].rev
      BY <1>2, <2>2, <2>6, <3>1
    <3>3. \A j \in Jobs : log'[j] # NoRecord => live'[log'[j].id].rev = log'[j].rev
      BY <1>1, <1>2, <2>1, <3>1
    <3>4. \A e \in entering' : live'[e[1]].rev = e[2]
      <4>1. \A e \in entering : e[1] \in Ids
        BY <1>1 DEF JobsType
      <4> QED
        BY <1>2, <2>1, <3>1, <4>1
    <3> QED
      BY <2>6, <3>2, <3>3, <3>4 DEF OneEach
  <2>7. CASE ClearDoes
    <3>1. live' = live /\ op.at = "clear" /\ op.do = "create" /\ op'.at # "stored"
      BY <2>4, <2>7, <1>1 DEF ClearDoes, Still, StoreType, OpType
    <3> QED
      BY <2>3, <2>6, <3>1, EntryFields DEF Creating
  <2>8. CASE WriteFilesDoes
    <3>1. live' = live /\ op.at = "files" /\ op.do = "create"
      BY <2>8 DEF WriteFilesDoes, Still
    <3>2. op'.at # "stored"
      BY <1>1, <2>8 DEF WriteFilesDoes, OpGoes, StoreType, OpType
    <3> QED
      BY <2>3, <2>6, <3>1, <3>2, EntryFields DEF Creating
  <2>9. CASE WriteNewManifestDoes
    <3>1. op.do = "create" /\ op.at = "manifest" /\ op.place = "live" /\ live[op.id] =
          Absent
      BY <2>3, <2>9 DEF WriteNewManifestDoes, Creating
    <3>2. CASE live' = live /\ op'.at # "stored"
      BY <2>6, <3>1, <3>2, EntryFields
    <3>3. CASE ~ (live' = live /\ op'.at # "stored")
      <4>1. /\ DirIs(op.place, op.id, [files |-> Here.files, manifest |-> op.entry])
            /\ live' = [live EXCEPT ![op.id] = op.entry]
        <5>1. OpGoes("refused") => op'.at # "stored"
          BY <1>1 DEF OpGoes, StoreType, OpType
        <5> QED
          BY <2>9, <3>1, <3>3, <5>1 DEF WriteNewManifestDoes
      <4>2. live'[op.id] = op.entry /\ dir'["live"][op.id].manifest = op.entry
        BY <1>1, <2>1, <3>1, <4>1 DEF DirIs, StoreType
      <4>3. \A id \in Ids : live'[id].rev # 0 =>
              dir'["live"][id].manifest.rev = live'[id].rev
        BY <1>2, <2>2, <4>2
      <4>4. \A j \in Jobs : log'[j] # NoRecord => live'[log'[j].id].rev = log'[j].rev
        BY <1>1, <1>2, <2>1, <2>2, <2>5, <3>1 DEF Creating
      <4>5. \A e \in entering' : live'[e[1]].rev = e[2]
        <5>1. \A e \in entering : e[1] \in Ids
          BY <1>1 DEF JobsType
        <5> QED
          BY <1>2, <2>1, <2>2, <2>5, <3>1, <5>1 DEF Creating
      <4> QED
        BY <2>2, <4>2, <4>3, <4>4, <4>5 DEF OneEach
    <3> QED
      BY <3>2, <3>3
  <2>10. CASE RenameDoes \/ ForgetDoes
    BY <2>4, <2>10 DEF RenameDoes, ForgetDoes
  <2>11. CASE MarkDoes
    <3>1. live'[op.id] = Marked(live[op.id]) /\ dir' = dir /\ OpGoes("manifest")
      BY <1>1, <2>1, <2>11 DEF MarkDoes, StoreType
    <3>2. Marked(live[op.id]).rev = live[op.id].rev
      <4>1. live[op.id] \in Entry
        BY <1>1, <2>1 DEF StoreType
      <4> QED
        BY <4>1 DEF Marked, Entry
    <3>3. op'.at # "stored"
      BY <1>1, <3>1 DEF OpGoes, StoreType, OpType
    <3> QED
      BY <1>2, <2>1, <2>6, <3>1, <3>2, <3>3
  <2>12. CASE WriteManifestDoes
    <3>1. live' = live
      BY <2>12 DEF WriteManifestDoes, Still
    <3>2. op'.at # "stored"
      BY <1>1, <2>12 DEF WriteManifestDoes, OpGoes, StoreType, OpType
    <3>3. dir'["live"][op.id].manifest \in {live[op.id], dir["live"][op.id].manifest}
      BY <2>1, <2>12, StoreConstants DEF WriteManifestDoes, DirIs
    <3> QED
      BY <1>2, <2>1, <2>6, <3>1, <3>2, <3>3
  <2> QED
    BY <2>1, <2>7, <2>8, <2>9, <2>10, <2>11, <2>12 DEF StoreStepDoes
<1>21. CASE InArchive
  BY <1>5, <1>21 DEF InArchive, storeVars, serverVars
<1>22. ASSUME NEW p \in Participants, SubmitStores(p) PROVE OneEach'
  <2>1. op'.at = "clear" /\ UNCHANGED <<live, dir, log, entering>>
    BY <1>1, StartCreateKeeps, <1>22 DEF SubmitStores, serverVars
  <2> QED
    BY <1>5, <2>1
<1>23. CASE SubmitReturns
  <2>1. \A e \in entering' : live[e[1]].rev = e[2]
    <3>1. CASE op.at = "stored"
      <4>1. entering' = entering \cup {<<op.id, op.entry.rev>>}
        BY <3>1, <1>23 DEF SubmitReturns
      <4> QED
        BY <1>2, <3>1, <4>1
    <3>2. CASE op.at # "stored"
      BY <1>2, <3>2, <1>23 DEF SubmitReturns
    <3> QED
      BY <3>1, <3>2
  <2>2. op'.at # "stored" /\ UNCHANGED <<live, dir, log>>
    BY <1>3, <1>23 DEF SubmitReturns
  <2> QED
    BY <1>2, <2>1, <2>2 DEF OneEach
<1>24. ASSUME NEW j \in Jobs, NEW id \in Ids, NEW rev \in Revs, SubmitPlaces(j, id, rev)
      PROVE OneEach'
  <2>1. live[id].rev = rev
    <3>1. <<id, rev>>[1] = id /\ <<id, rev>>[2] = rev /\ <<id, rev>> \in entering
      BY <1>24 DEF SubmitPlaces
    <3> QED
      BY <1>2, <3>1
  <2> QED
    BY <1>7, <2>1, <1>24 DEF SubmitPlaces, storeVars
<1>25. ASSUME NEW j \in Jobs, NEW w \in Workers, Take(j, w) PROVE OneEach'
  BY <1>5, <1>25 DEF Take, storeVars
<1>26. ASSUME NEW j \in Jobs, BuildSucceeds(j) PROVE OneEach'
  <2>1. log[j].id \in Ids /\ log[j].rev \in Revs
    BY <1>1 DEF JobsType
  <2>2. UNCHANGED <<live, dir, log, entering>> /\ op'.at # "stored"
    BY <1>1, <2>1, StartStatusKeeps, <1>26 DEF BuildSucceeds
  <2> QED
    BY <1>5, <2>2
<1>27. ASSUME NEW j \in Jobs, BuildIsBlamed(j) PROVE OneEach'
  <2>1. UNCHANGED <<live, dir, log, entering>> /\ op'.at # "stored"
    BY <1>1, StoreConstants, StartStatusKeeps, <1>27 DEF BuildIsBlamed
  <2> QED
    BY <1>5, <2>1
<1>28. ASSUME NEW j \in Jobs, BuildErrs(j) PROVE OneEach'
  <2>1. UNCHANGED <<live, dir, op, entering>>
    BY <1>28 DEF BuildErrs, storeVars
  <2>2. CASE Ends(j, "GAVE_UP")
    <3>1. log[j].rev # 0
      BY <1>1, <1>28 DEF BuildErrs, Answered, JobFits, ServerStep, ServerInv, Uploading
    <3> QED
      BY <1>6, <2>1, <2>2, <3>1 DEF JobStates
  <2>3. CASE UNCHANGED <<log, stage>>
    BY <1>5, <2>1, <2>3
  <2> QED
    BY <2>2, <2>3, <1>28 DEF BuildErrs
<1>29. ASSUME NEW j \in Jobs, ResultIsIn(j) PROVE OneEach'
  <2>1. UNCHANGED <<live, dir, entering>> /\ op'.at # "stored"
    BY <1>3, <1>29 DEF ResultIsIn
  <2>2. CASE Ends(j, "FAILED")
    <3>1. log[j].rev # 0
      BY <1>1, <1>29 DEF ResultIsIn, PhaseFits, JobFits, Jobs
    <3> QED
      BY <1>6, <2>1, <2>2, <3>1 DEF JobStates
  <2>3. CASE UNCHANGED log
    BY <1>5, <2>1, <2>3
  <2> QED
    BY <2>2, <2>3, <1>29 DEF ResultIsIn
<1>30. ASSUME NEW w \in Workers, UploadEnds(w) PROVE OneEach'
  BY <1>5, <1>30 DEF UploadEnds, storeVars, serverVars
<1>31. ASSUME NEW j \in Jobs, MatchesEnd(j) PROVE OneEach'
  <2>1. log[j].rev # 0
    BY <1>1, <1>31 DEF MatchesEnd, JobFits
  <2> QED
    BY <1>6, <2>1, <1>31 DEF MatchesEnd, JobStates, storeVars
<1>32. ASSUME NEW j \in Jobs, FetchBot(j) PROVE OneEach'
  BY <1>5, <1>32 DEF FetchBot, storeVars, serverVars
<1>33. CASE Boot
  <2>1. /\ op' = Idle /\ log' = log /\ entering' = {}
        /\ \A id \in Ids : /\ live'[id] = dir["live"][id].manifest
                           /\ dir'["live"][id] = dir["live"][id]
    BY <1>1, LoadKeeps, <1>33 DEF Boot, PhaseFits
  <2>2. \A j \in Jobs : log[j] # NoRecord => live[log[j].id].rev # 0
    BY <1>1, <1>2 DEF JobFits
  <2>3. \A j \in Jobs : log'[j] # NoRecord => live'[log'[j].id].rev = log'[j].rev
    BY <1>1, <1>2, <2>1, <2>2
  <2> QED
    BY <1>3, <2>1, <2>3 DEF OneEach
<1>34. CASE AllClosed
  BY <1>5, <1>34 DEF AllClosed, storeVars
<1>35. CASE Serve
  BY <1>5, <1>35 DEF Serve, storeVars
<1>36. ASSUME NEW j \in Jobs, CloseRecord(j) PROVE OneEach'
  <2>1. log[j].state = "OPEN" /\ log'[j].id = log[j].id /\ log'[j].rev = log[j].rev
        /\ \A i \in Jobs : i # j => log'[i] = log[i]
    BY <1>1, <1>36 DEF CloseRecord, JobsType
  <2> QED
    BY <1>5, <2>1, NoRecordFields, <1>36 DEF CloseRecord, storeVars
<1>37. ASSUME NEW j \in Jobs, NEW id \in Ids, PlaceAgain(j, id) PROVE OneEach'
  <2>1. live[id].rev \in Revs
    BY <1>1 DEF StoreType, Entry
  <2> QED
    BY <1>7, <2>1, <1>37 DEF PlaceAgain, storeVars
<1>38. ASSUME NEW j \in Jobs, LoseWorker(j) PROVE OneEach'
  BY <1>5, <1>38 DEF LoseWorker, storeVars
<1>39. CASE Die
  BY <1>5, <1>39 DEF Die, storeVars
<1>40. ASSUME NEW w \in Workers, WriteFails(w) PROVE OneEach'
  BY <1>5, <1>40 DEF WriteFails, storeVars, serverVars
<1> QED
  BY <1>20, <1>21, <1>22, <1>23, <1>24, <1>25, <1>26, <1>27, <1>28, <1>29, <1>30, <1>31,
     <1>32, <1>33, <1>34, <1>35, <1>36, <1>37, <1>38, <1>39, <1>40 DEF ServerStep, Next,
     Submissions, Building, Playing, Main

(* With versions an id is one submission's for good, over any restarts and    *)
(* for every number of participants: no two have jobs under one.              *)
THEOREM NumbersAreNeverReused == Spec => []NumbersAreNotReused
<1> DEFINE I == ServerInv /\ OneEach
<1>1. Init => I
  <2> SUFFICES ASSUME Init PROVE OneEach
    BY ServerInitially
  <2>1. \A id \in Ids : live[id].rev = 0
    BY EntryFields DEF Init, StoreInit
  <2>2. /\ \A j \in Jobs : log[j] = NoRecord
        /\ entering = {} /\ op.at = "idle"
    BY DEF Init, StoreInit, Idle
  <2> QED
    BY <2>1, <2>2 DEF OneEach
<1>2. I /\ [Next]_vars => I'
  <2> SUFFICES ASSUME ServerInv, OneEach, [Next]_vars PROVE OneEach'
    BY ServerIsKept
  <2>1. CASE Next /\ versions
    BY <2>1, OneEachKept DEF ServerStep
  <2>2. CASE UNCHANGED vars
    BY <2>2 DEF vars, storeVars, serverVars, OneEach
  <2>3. CASE Next /\ ~ versions
    BY <2>3, StoreCountsStay DEF OneEach, ServerInv, StoreCounts
  <2> QED
    BY <2>1, <2>2, <2>3
<1>3. I => NumbersAreNotReused
  <2> SUFFICES ASSUME I, versions, NEW i \in Jobs, NEW j \in Jobs, log[i] # NoRecord,
                      log[j] # NoRecord, log[i].id = log[j].id
               PROVE  log[i].rev = log[j].rev
    BY DEF NumbersAreNotReused
  <2> QED
    BY DEF OneEach
<1> QED
  BY <1>1, <1>2, <1>3, PTL DEF Spec

-----------------------------------------------------------------------------
(* What a restart finds.                                                     *)

LEMMA StoreStepDisk ==
  ASSUME StoreInv, OnDisk, StoreStepDoes, op.do # "none", restarts \in Nat,
         UNCHANGED <<phase, restarts, fails>>
  PROVE  OnDisk'
<1>1. /\ StoreType /\ StoreType' /\ live \in [Ids -> Entry] /\ staged \in [Ids -> Entry]
      /\ op \in OpType /\ op.id \in Ids /\ op.place \in Places /\ op.entry \in Entry
      /\ fails \in Nat /\ fails' = fails /\ fails' # fails + 1 /\ op.do \in {"create", "status"}
      /\ dir \in [Places -> [Ids -> Stored]]
  BY StoreStepType DEF StoreInv, StoreType, OpType
<1>2. /\ op'.do = op.do /\ op'.id = op.id /\ op'.place = op.place /\ op'.entry = op.entry
      /\ \A id \in Ids : id # op.id =>
           /\ live'[id] = live[id] /\ staged'[id] = staged[id]
           /\ \A pl \in Places : dir'[pl][id] = dir[pl][id]
  BY <1>1, StoreStepOp
<1>3. /\ op.do = "create" => CreateFits
      /\ op.do = "status" => StatusFits
      /\ Behind
  BY <1>1 DEF StoreInv, OpFits
<1>4. /\ MethodOnDisk /\ SourcesBelong /\ Restarted' = Restarted
      /\ \A id \in Ids : StagedOnDisk(id) /\ LiveOnDisk(id) /\ ReadyOnDisk(id)
      /\ (phase = "down" => restarts > 0)'
  BY DEF OnDisk, Restarted
<1>5. "live" \in Places /\ "staged" \in Places
  BY StoreConstants
<1>6. \A a : OpGoes(a) => op'.at = a
  BY <1>1 DEF OpGoes, OpType
<1> DEFINE i == op.id
           L == dir["live"][i]
           S == dir["staged"][i]
           L1 == dir'["live"][i]
           S1 == dir'["staged"][i]
(* It is enough to look at what the method is about.                         *)
<1>7. ASSUME MethodOnDisk', StagedOnDisk(i)', LiveOnDisk(i)', ReadyOnDisk(i)',
             Belongs(L1), Belongs(S1)
      PROVE  OnDisk'
  <2>1. \A id \in Ids : id # i => (StagedOnDisk(id) /\ LiveOnDisk(id) /\ ReadyOnDisk(id))'
    <3> SUFFICES ASSUME NEW id \in Ids, id # i
                 PROVE  (StagedOnDisk(id) /\ LiveOnDisk(id) /\ ReadyOnDisk(id))'
      OBVIOUS
    <3>1. /\ live'[id] = live[id] /\ staged'[id] = staged[id]
          /\ dir'["live"][id] = dir["live"][id] /\ dir'["staged"][id] = dir["staged"][id]
          /\ op.id # id /\ op'.id # id
      BY <1>2, <1>5
    <3>2. StagedOnDisk(id)'
      <4>1. staged[id] # Absent =>
              dir["staged"][id] = [files |-> staged[id].rev, manifest |-> staged[id]]
        BY <1>4, <3>1 DEF StagedOnDisk, StagedInWork
      <4>2. staged'[id] # Absent =>
              dir'["staged"][id] = [files |-> staged'[id].rev, manifest |-> staged'[id]]
        BY <1>1, <1>2, <3>1, <4>1
      <4> QED
        BY <4>2 DEF StagedOnDisk
    <3>3. LiveOnDisk(id)'
      BY <1>1, <1>2, <1>4, <3>1 DEF LiveOnDisk, LiveInWork
    <3>4. ReadyOnDisk(id)'
      BY <1>1, <1>2, <1>4, <3>1 DEF ReadyOnDisk, BecomingReady
    <3> QED
      BY <3>2, <3>3, <3>4
  <2>2. SourcesBelong'
    <3> SUFFICES ASSUME NEW pl \in Places, NEW id \in Ids
                 PROVE  Belongs(dir'[pl][id])
      BY DEF SourcesBelong, Belongs
    <3>2. CASE id = i
      <4>1. Belongs(L1) /\ Belongs(S1)
        BY <1>7
      <4>2. pl = "live" \/ pl = "staged"
        BY DEF Places
      <4> QED
        BY <3>2, <4>1, <4>2
    <3>3. CASE id # i
      <4>1. dir'[pl][id] = dir[pl][id]
        BY <1>1, <1>2, <3>3
      <4> QED
        BY <1>4, <4>1 DEF SourcesBelong
    <3> QED
      BY <3>2, <3>3
  <2>3. \A id \in Ids : id = i =>
          ((StagedOnDisk(id) /\ LiveOnDisk(id) /\ ReadyOnDisk(id))' <=>
           (StagedOnDisk(i) /\ LiveOnDisk(i) /\ ReadyOnDisk(i))')
    BY <1>2 DEF StagedOnDisk, LiveOnDisk, ReadyOnDisk, StagedInWork, LiveInWork, BecomingReady
  <2> QED
    BY <1>4, <1>7, <2>1, <2>2, <2>3 DEF OnDisk
<1>8. /\ Belongs(L) /\ Belongs(S)
      /\ StagedOnDisk(i) /\ LiveOnDisk(i) /\ ReadyOnDisk(i)
  BY <1>1, <1>4, <1>5 DEF SourcesBelong
<1>9. /\ Here = IF op.place = "live" THEN L ELSE S
      /\ Here' = IF op.place = "live" THEN L1 ELSE S1
      /\ Absent.status # "READY" /\ Gone.manifest = Absent /\ Gone.files = 0
      /\ op'.id = i
  BY <1>1, <1>2, EntryFields DEF Here, Places
<1>10. ASSUME NEW v, DirIs(op.place, op.id, v)
       PROVE  IF op.place = "live" THEN L1 = v /\ S1 = S ELSE S1 = v /\ L1 = L
  BY <1>1, <1>5, <1>10 DEF DirIs, Places
<1> DEFINE LiveFits(x) ==
             /\ L1.manifest # Absent /\ L1.manifest.rev = x.rev
             /\ L1.files = x.rev \/ (L1.files = 0 /\ Restarted > 0)
           StagedFits(x) == S1 = [files |-> x.rev, manifest |-> x]
           ReadyFits(x) == /\ L1.manifest.rev = x.rev
                           /\ L1.manifest.status = "READY"
<1>11. /\ LiveOnDisk(i)' <=> (live'[i] # Absent /\ ~ LiveInWork(i)' => LiveFits(live'[i]))
       /\ StagedOnDisk(i)' <=>
            (staged'[i] # Absent /\ ~ StagedInWork(i)' => StagedFits(staged'[i]))
       /\ ReadyOnDisk(i)' <=>
            (live'[i].status = "READY" /\ (BecomingReady(i)' => op'.at = "marked")
               => ReadyFits(live'[i]))
  BY <1>2, <1>4 DEF LiveOnDisk, StagedOnDisk, ReadyOnDisk
<1>12. /\ LiveInWork(i)' <=> /\ op.place = "live"
                            /\ \/ op.do = "create" /\ op'.at \in {"clear", "files", "manifest"}
                               \/ op.do = "status" /\ op'.at \in {"clear", "rename"}
       /\ StagedInWork(i)' <=> /\ op.place = "staged"
                              /\ \/ op.do = "create" /\ op'.at \in {"clear", "files", "manifest"}
                                 \/ op.do = "status" /\ op'.at \in {"clear", "forget"}
       /\ BecomingReady(i)' <=> op.do = "status" /\ op.place = "live"
  BY <1>2 DEF LiveInWork, StagedInWork, BecomingReady, Creating
<1>13. /\ LiveInWork(i) <=> /\ op.place = "live"
                           /\ \/ op.do = "create" /\ op.at \in {"clear", "files", "manifest"}
                              \/ op.do = "status" /\ op.at \in {"clear", "rename"}
       /\ StagedInWork(i) <=> /\ op.place = "staged"
                             /\ \/ op.do = "create" /\ op.at \in {"clear", "files", "manifest"}
                                \/ op.do = "status" /\ op.at \in {"clear", "forget"}
       /\ BecomingReady(i) <=> op.do = "status" /\ op.place = "live"
  BY DEF LiveInWork, StagedInWork, BecomingReady, Creating
<1>14. /\ live[i] # Absent /\ ~ LiveInWork(i) =>
            /\ L.manifest # Absent /\ L.manifest.rev = live[i].rev
            /\ L.files = live[i].rev \/ (L.files = 0 /\ Restarted > 0)
       /\ staged[i] # Absent /\ ~ StagedInWork(i) =>
            S = [files |-> staged[i].rev, manifest |-> staged[i]]
       /\ live[i].status = "READY" /\ (BecomingReady(i) => op.at = "marked") =>
            L.manifest.rev = live[i].rev /\ L.manifest.status = "READY"
  BY <1>8 DEF LiveOnDisk, StagedOnDisk, ReadyOnDisk
<1>15. /\ MethodOnDisk' <=>
            /\ op.do = "create" /\ op'.at = "files" => Here'.manifest = Absent
            /\ op.do = "create" /\ op'.at = "manifest" =>
                 Here'.manifest = Absent /\ Here'.files = op.entry.rev
            /\ op.do = "status" /\ op'.at = "rename" => Here' = Gone
       /\ op.do = "create" /\ op.at = "files" => Here.manifest = Absent
       /\ op.do = "create" /\ op.at = "manifest" =>
            Here.manifest = Absent /\ Here.files = op.entry.rev
       /\ op.do = "status" /\ op.at = "rename" => Here = Gone
  BY <1>2, <1>4 DEF MethodOnDisk
<1>16. /\ op.do = "create" =>
            /\ op.entry.status = "PENDING"
            /\ op.at \in {"clear", "files", "manifest"} =>
                 (op.place = "live" <=> live[i].status # "READY")
       /\ op.do = "status" =>
            /\ op.entry.status \in {"READY", "BUILD_FAILED"}
            /\ op.place = "live" <=> op.entry.status = "READY"
            /\ op.at \in {"clear", "rename", "forget"} <=> staged[i] # Absent
            /\ op.at \in {"mark", "manifest"} => live[i] # Absent
            /\ op.at = "rename" => op.place = "live"
            /\ op.at = "forget" => op.place = "staged"
       /\ op.place = "live" \/ op.place = "staged"
  BY <1>1, <1>3 DEF CreateFits, StatusFits, Creating, Places
<1> DEFINE Here1 == IF op.place = "live" THEN L1 ELSE S1
           Belong1 == Belongs(L1) /\ Belongs(S1)
           Method1 == /\ op.do = "create" /\ op'.at = "files" => Here1.manifest = Absent
                      /\ op.do = "create" /\ op'.at = "manifest" =>
                           Here1.manifest = Absent /\ Here1.files = op.entry.rev
                      /\ op.do = "status" /\ op'.at = "rename" => Here1 = Gone
           Staged1 == staged'[i] # Absent /\ ~ StagedInWork(i)' => StagedFits(staged'[i])
           Live1 == live'[i] # Absent /\ ~ LiveInWork(i)' => LiveFits(live'[i])
           Ready1 == live'[i].status = "READY" /\ (BecomingReady(i)' => op'.at = "marked")
                       => ReadyFits(live'[i])
<1>17. ASSUME Method1, Staged1, Live1, Ready1, Belong1
       PROVE  OnDisk'
  <2>1. MethodOnDisk'
    BY <1>9, <1>15, <1>17
  <2>2. StagedOnDisk(i)' /\ LiveOnDisk(i)' /\ ReadyOnDisk(i)'
    BY <1>11, <1>17
  <2> QED
    BY <1>7, <1>17, <2>1, <2>2
<1>18. CASE ClearDoes
  <2>1. /\ live' = live /\ staged' = staged /\ op.at = "clear"
        /\ \/ op' = op /\ DirIs(op.place, op.id, [files |-> 0, manifest |-> Here.manifest])
           \/ op' = op /\ DirIs(op.place, op.id, [files |-> Here.files, manifest |-> Absent])
           \/ /\ dir' = dir /\ Here = Gone
              /\ op' = [op EXCEPT !.at = IF op.do = "create" THEN "files"
                                         ELSE IF op.place = "live" THEN "rename" ELSE "forget"]
    BY <1>1, <1>18 DEF ClearDoes, Still
  <2>2. /\ IF op.place = "live" THEN S1 = S ELSE L1 = L
        /\ Here1.manifest \in {Here.manifest, Absent} /\ Here1.files \in {Here.files, 0}
        /\ op'.at = "clear" \/
             (Here1 = Gone /\
              op'.at = IF op.do = "create" THEN "files"
                       ELSE IF op.place = "live" THEN "rename" ELSE "forget")
    <3>1. CASE op' = op /\ DirIs(op.place, op.id, [files |-> 0, manifest |-> Here.manifest])
      BY <1>9, <1>10, <2>1, <3>1
    <3>2. CASE op' = op /\ DirIs(op.place, op.id, [files |-> Here.files, manifest |-> Absent])
      BY <1>9, <1>10, <2>1, <3>2
    <3>3. CASE /\ dir' = dir /\ Here = Gone
               /\ op' = [op EXCEPT !.at = IF op.do = "create" THEN "files"
                                          ELSE IF op.place = "live" THEN "rename"
                                          ELSE "forget"]
      BY <1>1, <1>9, <3>3 DEF OpType
    <3> QED
      BY <2>1, <3>1, <3>2, <3>3
  <2> HIDE DEF L, S, L1, S1, i
  <2>3. Method1
    BY <1>9, <2>2
  <2>4. Belong1
    BY <1>8, <1>9, <1>16, <2>1, <2>2, EntryFields DEF Belongs
  <2>5. Staged1
    BY <1>1, <1>12, <1>13, <1>14, <1>16, <2>1, <2>2
  <2>6. Live1
    BY <1>1, <1>12, <1>13, <1>14, <1>16, <2>1, <2>2
  <2>7. Ready1
    BY <1>1, <1>12, <1>13, <1>14, <1>16, <2>1, <2>2
  <2> QED
    BY <1>17, <2>3, <2>4, <2>5, <2>6, <2>7
<1>19. CASE WriteFilesDoes
  <2>1. /\ live' = live /\ staged' = staged /\ op.do = "create" /\ op.at = "files"
        /\ DirIs(op.place, op.id, [files |-> op.entry.rev, manifest |-> Here.manifest])
        /\ op'.at = "manifest"
    BY <1>1, <1>6, <1>19 DEF WriteFilesDoes, Still
  <2>2. /\ IF op.place = "live" THEN S1 = S ELSE L1 = L
        /\ Here1.manifest = Absent /\ Here1.files = op.entry.rev
    <3>1. /\ IF op.place = "live" THEN S1 = S ELSE L1 = L
          /\ Here1 = [files |-> op.entry.rev, manifest |-> Here.manifest]
      BY <1>10, <2>1
    <3> QED
      BY <1>15, <2>1, <3>1
  <2> HIDE DEF L, S, L1, S1, i
  <2>3. Method1
    BY <1>9, <2>1, <2>2
  <2>4. Belong1
    BY <1>1, <1>8, <1>9, <1>16, <2>1, <2>2, EntryFields DEF Belongs
  <2>5. Staged1
    BY <1>1, <1>12, <1>13, <1>14, <1>16, <2>1, <2>2
  <2>6. Live1
    BY <1>1, <1>12, <1>13, <1>14, <1>16, <2>1, <2>2
  <2>7. Ready1
    BY <1>1, <1>12, <1>13, <1>14, <1>16, <2>1, <2>2
  <2> QED
    BY <1>17, <2>3, <2>4, <2>5, <2>6, <2>7
<1>20. CASE WriteNewManifestDoes
  <2>1. /\ op.do = "create" /\ op.at = "manifest" /\ op'.at = "stored"
        /\ DirIs(op.place, op.id, [files |-> Here.files, manifest |-> op.entry])
        /\ IF op.place = "staged"
           THEN staged' = [staged EXCEPT ![op.id] = op.entry] /\ live' = live
           ELSE live' = [live EXCEPT ![op.id] = op.entry] /\ staged' = staged
    BY <1>1, <1>6, <1>20 DEF WriteNewManifestDoes
  <2>2. /\ op.do = "create" /\ op.at = "manifest" /\ op'.at = "stored"
        /\ Here1 = [files |-> op.entry.rev, manifest |-> op.entry]
        /\ IF op.place = "live"
           THEN S1 = S /\ live'[i] = op.entry /\ staged'[i] = staged[i]
           ELSE L1 = L /\ staged'[i] = op.entry /\ live'[i] = live[i]
    <3>1. /\ IF op.place = "live" THEN S1 = S ELSE L1 = L
          /\ Here1 = [files |-> op.entry.rev, manifest |-> op.entry]
      BY <1>10, <1>15, <2>1
    <3>2. IF op.place = "live" THEN live'[i] = op.entry /\ staged'[i] = staged[i]
          ELSE staged'[i] = op.entry /\ live'[i] = live[i]
      BY <1>1, <1>16, <2>1
    <3> QED
      BY <2>1, <3>1, <3>2
  <2> DEFINE new == [files |-> op.entry.rev, manifest |-> op.entry]
  <2>3. new.files = op.entry.rev /\ new.manifest = op.entry
    OBVIOUS
  <2> HIDE DEF L, S, L1, S1, i, new
  <2>4. Method1
    BY <2>2
  <2>5. Belong1
    BY <1>1, <1>8, <1>16, <2>2, <2>3 DEF new, Belongs
  <2>6. Staged1
    BY <1>1, <1>12, <1>13, <1>14, <1>16, <2>2
  <2>7. Live1
    BY <1>1, <1>12, <1>13, <1>14, <1>16, <2>2, <2>3 DEF new
  <2>8. Ready1
    BY <1>1, <1>12, <1>13, <1>14, <1>16, <2>2
  <2> QED
    BY <1>17, <2>4, <2>5, <2>6, <2>7, <2>8
<1>21. CASE RenameDoes
  <2>1. /\ op.do = "status" /\ op.at = "rename" /\ op'.at = "mark"
        /\ L1 = S /\ S1 = Gone /\ live'[i] = staged[i] /\ staged'[i] = Absent
    <3>1. op.do = "status" /\ op.at = "rename" /\ op'.at = "mark"
          /\ live'[i] = staged[i] /\ staged'[i] = Absent
      BY <1>1, <1>6, <1>21 DEF RenameDoes
    <3>2. L = Gone
      BY <1>9, <1>15, <1>16, <3>1
    <3>3. Moved
      BY <1>1, <1>21, <3>2 DEF RenameDoes
    <3> QED
      BY <3>1, <3>3 DEF Moved
  <2> HIDE DEF L, S, L1, S1, i
  <2>2. /\ S.files = staged[i].rev /\ S.manifest = staged[i] /\ staged[i] # Absent
    BY <1>13, <1>14, <1>16, <2>1
  <2>3. Method1 /\ Staged1
    BY <2>1
  <2>4. Belong1
    BY <1>8, <1>9, <2>1 DEF Belongs
  <2>5. Live1
    BY <2>1, <2>2
  <2>6. Ready1
    BY <1>12, <1>16, <2>1
  <2> QED
    BY <1>17, <2>3, <2>4, <2>5, <2>6
<1>22. CASE ForgetDoes
  <2>1. /\ op.do = "status" /\ op.at = "forget" /\ op'.at = "marked"
        /\ L1 = L /\ S1 = S /\ live'[i] = live[i] /\ staged'[i] = Absent
    BY <1>1, <1>6, <1>22 DEF ForgetDoes
  <2> HIDE DEF L, S, L1, S1, i
  <2>2. Method1 /\ Staged1 /\ Belong1
    BY <1>8, <2>1
  <2>3. Live1
    BY <1>13, <1>14, <1>16, <2>1
  <2>4. Ready1
    BY <1>13, <1>14, <1>16, <2>1
  <2> QED
    BY <1>17, <2>2, <2>3, <2>4
<1>23. CASE MarkDoes
  <2>1. /\ op.do = "status" /\ op.at = "mark" /\ op'.at = "manifest"
        /\ L1 = L /\ S1 = S /\ live'[i] = Marked(live[i]) /\ staged'[i] = staged[i]
    BY <1>1, <1>6, <1>23 DEF MarkDoes
  <2>2. live'[i].rev = live[i].rev /\ live'[i].status = op.entry.status
    <3>1. live[i] \in Entry
      BY <1>1
    <3> HIDE DEF i
    <3> QED
      BY <2>1, <3>1 DEF Marked, Entry
  <2> HIDE DEF L, S, L1, S1, i
  <2>3. Method1 /\ Belong1
    BY <1>8, <2>1
  <2>4. Staged1
    BY <1>13, <1>14, <1>16, <2>1
  <2>5. Live1
    BY <1>13, <1>14, <1>16, <2>1, <2>2
  <2>6. Ready1
    BY <1>12, <1>16, <2>1, <2>2
  <2> QED
    BY <1>17, <2>3, <2>4, <2>5, <2>6
<1>24. CASE WriteManifestDoes
  <2>1. /\ op.do = "status" /\ op.at = "manifest" /\ op'.at = "marked"
        /\ live' = live /\ staged' = staged
        /\ \/ DirIs("live", op.id, [files |-> dir["live"][op.id].files,
                                   manifest |-> live[op.id]])
           \/ L = Gone
    BY <1>1, <1>6, <1>24 DEF WriteManifestDoes, Still
  <2>2. /\ L.manifest # Absent /\ L.manifest.rev = live[i].rev
        /\ L.files = live[i].rev \/ (L.files = 0 /\ Restarted > 0)
        /\ live[i] # Absent
    BY <1>13, <1>14, <1>16, <2>1
  <2>8. /\ L1.manifest = live[i] /\ L1.files = L.files /\ S1 = S
        /\ live'[i] = live[i] /\ staged'[i] = staged[i]
    <3>1. DirIs("live", op.id, [files |-> dir["live"][op.id].files, manifest |-> live[op.id]])
      BY <1>9, <2>1, <2>2
    <3>2. L1 = [files |-> dir["live"][op.id].files, manifest |-> live[op.id]] /\ S1 = S
      BY <1>1, <1>5, <3>1 DEF DirIs
    <3> QED
      BY <2>1, <3>2
  <2> HIDE DEF L, S, L1, S1, i
  <2>3. Method1
    BY <2>1
  <2>4. Belong1
    BY <1>1, <1>8, <2>1, <2>2, <2>8 DEF Belongs
  <2>5. Staged1
    BY <1>1, <1>13, <1>14, <1>16, <2>1, <2>8
  <2>6. Live1
    BY <1>1, <2>1, <2>2, <2>8
  <2>7. Ready1
    BY <1>1, <2>1, <2>2, <2>8
  <2> QED
    BY <1>17, <2>3, <2>4, <2>5, <2>6, <2>7
<1> QED
  BY <1>18, <1>19, <1>20, <1>21, <1>22, <1>23, <1>24 DEF StoreStepDoes

LEMMA BootFinds ==
  ASSUME ServerInv, OnDisk, Boot, NEW id \in Ids, live[id].status = "READY",
         ~ BecomingReady(id)
  PROVE  /\ live'[id].rev = live[id].rev /\ live'[id].status = "READY"
         /\ \/ dir["live"][id].files = live[id].rev
            \/ dir["live"][id].files = 0 /\ restarts > 1
<1>1. /\ StoreInv /\ restarts \in Nat /\ op.do \in {"none", "create", "status"}
      /\ op.do = "create" => CreateFits
  BY DEF ServerInv, StoreInv, StoreType, OpType, OpFits, JobsFit, JobsType
<1>2. live'[id] = dir["live"][id].manifest
  BY <1>1, LoadKeeps DEF Boot
<1>3. LiveOnDisk(id) /\ ReadyOnDisk(id)
  BY DEF OnDisk
<1>4. live[id] # Absent /\ ~ LiveInWork(id)
  BY <1>1, EntryFields DEF LiveInWork, BecomingReady, CreateFits, Creating
<1>5. Restarted > 0 => restarts > 1
  BY <1>1 DEF Boot, Restarted
<1> QED
  BY <1>2, <1>3, <1>4, <1>5 DEF LiveOnDisk, ReadyOnDisk

LEMMA OnDiskKept == ASSUME ServerStep, OnDisk, UNCHANGED fails PROVE OnDisk'
<1>1. /\ StoreInv /\ restarts \in Nat /\ fails \in Nat
      /\ op.do \in {"none", "create", "status"}
      /\ op.do = "create" => CreateFits
      /\ op.do = "status" => StatusFits
      /\ op = Idle => op.do = "none"
      /\ \A j \in Jobs : log[j].id \in Ids /\ log[j].rev \in Revs
  BY DEF ServerStep, ServerInv, StoreInv, StoreType, OpType, OpFits, JobsFit, JobsType, Idle
<1>2. /\ MethodOnDisk /\ SourcesBelong
      /\ phase = "down" => restarts > 0
      /\ \A id \in Ids : StagedOnDisk(id) /\ LiveOnDisk(id) /\ ReadyOnDisk(id)
  BY DEF OnDisk
<1>3. Idle.do = "none" /\ Idle.at = "idle"
  BY DEF Idle
(* The steps that write nothing.                                             *)
<1>4. ASSUME UNCHANGED storeVars, UNCHANGED restarts, phase' # "down" /\ phase # "down"
      PROVE  OnDisk'
  BY <1>2, <1>4 DEF storeVars, OnDisk, MethodOnDisk, SourcesBelong, Here, StagedOnDisk,
     LiveOnDisk, ReadyOnDisk, Restarted, StagedInWork, LiveInWork, BecomingReady, Creating,
     Belongs
(* The steps with which a method begins or returns.                          *)
<1>5. ASSUME UNCHANGED <<live, staged, dir, fails, restarts, phase>>,
             \/ op.do = "none"
             \/ op.do = "create" /\ op.at \in {"stored", "refused"} /\ op' = Idle
             \/ op.do = "status" /\ op.at = "marked" /\ op' = Idle,
             ~ (op'.do = "create" /\ op'.at \in {"files", "manifest"}),
             ~ (op'.do = "status" /\ op'.at = "rename")
      PROVE  OnDisk'
  <2>1. MethodOnDisk' /\ SourcesBelong' /\ (phase = "down" => restarts > 0)'
    BY <1>2, <1>5 DEF MethodOnDisk, SourcesBelong, Belongs
  <2> SUFFICES ASSUME NEW id \in Ids
               PROVE  (StagedOnDisk(id) /\ LiveOnDisk(id) /\ ReadyOnDisk(id))'
    BY <2>1 DEF OnDisk
  <2>2. ~ StagedInWork(id) /\ ~ LiveInWork(id)
    BY <1>5 DEF StagedInWork, LiveInWork, Creating
  <2>3. BecomingReady(id) => op.at = "marked"
    BY <1>5 DEF BecomingReady
  <2>4. StagedOnDisk(id)'
    BY <1>2, <1>5, <2>2 DEF StagedOnDisk
  <2>5. LiveOnDisk(id)'
    BY <1>2, <1>5, <2>2 DEF LiveOnDisk, Restarted
  <2>6. ReadyOnDisk(id)'
    BY <1>2, <1>5, <2>3 DEF ReadyOnDisk
  <2> QED
    BY <2>4, <2>5, <2>6
<1>6. ASSUME UNCHANGED storeVars, UNCHANGED <<restarts, phase>>
      PROVE  OnDisk'
  BY <1>2, <1>6 DEF storeVars, OnDisk, MethodOnDisk, SourcesBelong, Here, StagedOnDisk,
     LiveOnDisk, ReadyOnDisk, Restarted, StagedInWork, LiveInWork, BecomingReady, Creating,
     Belongs
<1>20. CASE InStore
  <2>1. StoreStepDoes /\ op.do # "none"
    BY <1>1, StepIsAMethods, <1>20 DEF InStore
  <2> QED
    BY <1>1, <2>1, StoreStepDisk, <1>20 DEF InStore, serverVars
<1>21. CASE InArchive
  BY <1>6, <1>21 DEF InArchive, serverVars
<1>22. ASSUME NEW p \in Participants, SubmitStores(p) PROVE OnDisk'
  <2>1. /\ op.do = "none" /\ op'.at = "clear"
        /\ UNCHANGED <<live, staged, dir, fails>>
    BY <1>1, StartCreateKeeps, <1>22 DEF SubmitStores
  <2> QED
    BY <1>5, <2>1, <1>22 DEF SubmitStores, serverVars
<1>23. CASE SubmitReturns
  BY <1>3, <1>5, <1>23 DEF SubmitReturns
<1>24. ASSUME NEW j \in Jobs, NEW id \in Ids, NEW rev \in Revs, SubmitPlaces(j, id, rev)
      PROVE OnDisk'
  BY <1>6, <1>24 DEF SubmitPlaces
<1>25. ASSUME NEW j \in Jobs, NEW w \in Workers, Take(j, w) PROVE OnDisk'
  BY <1>6, <1>25 DEF Take
<1>26. ASSUME NEW j \in Jobs, BuildSucceeds(j) PROVE OnDisk'
  <2>1. /\ op.do = "none" /\ op'.do = "status" /\ op'.at # "rename"
        /\ UNCHANGED <<live, staged, dir, fails>>
    BY <1>1, StoreConstants, StartStatusKeeps, <1>26 DEF BuildSucceeds
  <2> QED
    BY <1>5, <2>1, <1>26 DEF BuildSucceeds
<1>27. ASSUME NEW j \in Jobs, BuildIsBlamed(j) PROVE OnDisk'
  <2>1. /\ op.do = "none" /\ op'.do = "status" /\ op'.at # "rename"
        /\ UNCHANGED <<live, staged, dir, fails>>
    BY <1>1, StoreConstants, StartStatusKeeps, <1>27 DEF BuildIsBlamed
  <2> QED
    BY <1>5, <2>1, <1>27 DEF BuildIsBlamed
<1>28. ASSUME NEW j \in Jobs, BuildErrs(j) PROVE OnDisk'
  BY <1>6, <1>28 DEF BuildErrs
<1>29. ASSUME NEW j \in Jobs, ResultIsIn(j) PROVE OnDisk'
  BY <1>3, <1>5, <1>29 DEF ResultIsIn, At
<1>30. ASSUME NEW w \in Workers, UploadEnds(w) PROVE OnDisk'
  BY <1>6, <1>30 DEF UploadEnds, serverVars
<1>31. ASSUME NEW j \in Jobs, MatchesEnd(j) PROVE OnDisk'
  BY <1>6, <1>31 DEF MatchesEnd
<1>32. ASSUME NEW j \in Jobs, FetchBot(j) PROVE OnDisk'
  BY <1>6, <1>32 DEF FetchBot, serverVars
<1>33. CASE Boot
  <2>1. /\ op' = Idle /\ restarts' = restarts /\ phase' = "closing" /\ phase = "down"
        /\ \A id \in Ids : /\ live'[id] = dir["live"][id].manifest /\ staged'[id] = Absent
                           /\ dir'["live"][id] = dir["live"][id]
                           /\ dir'["staged"][id] = Gone
    BY <1>1, LoadKeeps, <1>33 DEF Boot
  <2>2. MethodOnDisk'
    BY <1>3, <2>1 DEF MethodOnDisk
  <2>3. SourcesBelong'
    <3>1. \A id \in Ids : Belongs(dir["live"][id])
      BY <1>2, StoreConstants DEF SourcesBelong
    <3>2. Belongs(Gone)
      BY EntryFields DEF Belongs
    <3>3. \A pl \in Places, id \in Ids : pl = "live" \/ pl = "staged"
      BY DEF Places
    <3>4. \A pl \in Places, id \in Ids : Belongs(dir'[pl][id])
      BY <2>1, <3>1, <3>2, <3>3
    <3> QED
      BY <2>1, <3>4 DEF SourcesBelong, Belongs
  <2>4. Restarted' > 0
    BY <1>1, <1>2, <2>1 DEF Restarted
  <2> SUFFICES ASSUME NEW id \in Ids
               PROVE  (StagedOnDisk(id) /\ LiveOnDisk(id) /\ ReadyOnDisk(id))'
    BY <2>1, <2>2, <2>3 DEF OnDisk
  <2>5. StagedOnDisk(id)'
    BY <2>1 DEF StagedOnDisk
  <2>6. LiveOnDisk(id)'
    <3>1. Belongs(dir["live"][id])
      BY <1>2, StoreConstants DEF SourcesBelong
    <3> QED
      BY <2>1, <2>4, <3>1 DEF LiveOnDisk, Belongs
  <2>7. ReadyOnDisk(id)'
    BY <2>1 DEF ReadyOnDisk
  <2> QED
    BY <2>5, <2>6, <2>7
<1>34. CASE AllClosed
  BY <1>4, <1>34 DEF AllClosed
<1>35. CASE Serve
  BY <1>4, <1>35 DEF Serve
<1>36. ASSUME NEW j \in Jobs, CloseRecord(j) PROVE OnDisk'
  BY <1>6, <1>36 DEF CloseRecord
<1>37. ASSUME NEW j \in Jobs, NEW id \in Ids, PlaceAgain(j, id) PROVE OnDisk'
  BY <1>6, <1>37 DEF PlaceAgain
<1>38. ASSUME NEW j \in Jobs, LoseWorker(j) PROVE OnDisk'
  BY <1>6, <1>38 DEF LoseWorker
<1>39. CASE Die
  <2>1. /\ UNCHANGED storeVars /\ phase # "down" /\ phase' = "down"
        /\ restarts' = restarts + 1
    BY <1>39 DEF Die
  <2>2. Restarted' = Restarted /\ restarts' > 0
    BY <1>1, <2>1 DEF Restarted
  <2> QED
    BY <1>2, <2>1, <2>2 DEF storeVars, OnDisk, MethodOnDisk, SourcesBelong, Here,
       StagedOnDisk, LiveOnDisk, ReadyOnDisk, StagedInWork, LiveInWork, BecomingReady,
       Creating, Belongs
<1>40. ASSUME NEW w \in Workers, WriteFails(w) PROVE OnDisk'
  BY <1>6, <1>40 DEF WriteFails, serverVars
<1> QED
  BY <1>20, <1>21, <1>22, <1>23, <1>24, <1>25, <1>26, <1>27, <1>28, <1>29, <1>30, <1>31,
     <1>32, <1>33, <1>34, <1>35, <1>36, <1>37, <1>38, <1>39, <1>40 DEF ServerStep, Next,
     Submissions, Building, Playing, Main

LEMMA DiskKept == ASSUME ServerStep, DiskInv PROVE DiskInv'
<1>1. fails \in Nat /\ (fails' = fails \/ fails' = fails + 1)
  BY StoreCountsStay DEF ServerStep, ServerInv, StoreInv, StoreType, StoreCounts
<1>2. CASE fails > 0
  BY <1>1, <1>2 DEF DiskInv
<1>3. CASE fails' = fails /\ OnDisk
  BY <1>3, OnDiskKept DEF DiskInv
<1>4. CASE fails' = fails + 1
  BY <1>1, <1>4 DEF DiskInv
<1> QED
  BY <1>1, <1>2, <1>3, <1>4 DEF DiskInv

(* What a restart finds of a READY entry, wherever the process died and       *)
(* however often it had died before.                                          *)
THEOREM RestartAlwaysKeepsReady == Spec => RestartKeepsReady
<1> DEFINE I == ServerInv /\ DiskInv
<1>1. Init => I
  <2> SUFFICES ASSUME Init PROVE DiskInv
    BY ServerInitially
  <2>1. /\ phase = "up" /\ op.do = "none"
        /\ \A id \in Ids : live[id] = Absent /\ staged[id] = Absent
        /\ \A pl \in Places, id \in Ids : dir[pl][id] = Gone
    BY DEF Init, StoreInit, Idle
  <2> QED
    BY <2>1, EntryFields DEF DiskInv, OnDisk, MethodOnDisk, SourcesBelong, Belongs, StagedOnDisk,
       LiveOnDisk, ReadyOnDisk
<1>2. I /\ [Next]_vars => I'
  <2> SUFFICES ASSUME ServerInv, DiskInv, [Next]_vars PROVE DiskInv'
    BY ServerIsKept
  <2>1. CASE Next
    BY <2>1, DiskKept DEF ServerStep
  <2>2. CASE UNCHANGED vars
    BY <2>2 DEF vars, storeVars, serverVars, DiskInv, OnDisk, MethodOnDisk, SourcesBelong, Here,
       StagedOnDisk, LiveOnDisk, ReadyOnDisk, Restarted, StagedInWork, LiveInWork,
       BecomingReady, Creating, Belongs
  <2> QED
    BY <2>1, <2>2
<1> DEFINE Found(id) ==
             \/ fails > 0
             \/ /\ live'[id].rev = live[id].rev /\ live'[id].status = "READY"
                /\ \/ dir["live"][id].files = live[id].rev
                   \/ dir["live"][id].files = 0 /\ restarts > 1
           Finds == Boot => \A id \in Ids :
                      live[id].status = "READY" /\ ~ BecomingReady(id) => Found(id)
<1>3. I => Finds
  BY BootFinds DEF DiskInv
<1> HIDE DEF I
<1>4. I /\ [Next]_vars => [Finds]_vars
  BY <1>3
<1> QED
  BY <1>1, <1>2, <1>4, PTL DEF Spec, RestartKeepsReady
=============================================================================
