--------------------------- MODULE CandidateDisk ---------------------------
(***************************************************************************)
(* The store of submissions as files (server/candidate_store.cc): a live   *)
(* directory per candidate id and, beside it, <id>.staged.  CandidateStore *)
(* takes Create and SetStatus for one step each, as the program's threads  *)
(* see them: the store's mutex is held throughout.  Here they are the file *)
(* operations they consist of, between which the process may die, any      *)
(* write of which may fail, and any removal or rename of which may fail    *)
(* without anybody noticing, since their error codes are not looked at.    *)
(*                                                                         *)
(* A directory's contents are abstracted to the submission its patch and   *)
(* sources are of, and to its manifest, which holds the whole entry.  A    *)
(* manifest is replaced by a rename, so it is never seen in part.          *)
(***************************************************************************)
EXTENDS Integers, FiniteSets, FiniteSetsExt

CONSTANTS
  Participants,  \* who submits: the part of an id before "-v"
  MaxRev,        \* bound: submissions of one participant
  MaxFails       \* bound: writes, removals and renames that fail

VARIABLES
  versions,    \* policy_.versions(): every submission gets an id of its own
  live,        \* candidates_
  staged,      \* staged_
  dir,         \* on disk: the live and the staged directory of each id
  op,          \* the method that holds the store's mutex, and where it is
  revs,        \* how many submissions each participant has made
  fails

storeVars == <<versions, live, staged, dir, op, revs, fails>>

Revs == 0 .. MaxRev
Ids == Participants \X (1 .. MaxRev)
Entry == [rev : Revs, status : {"ABSENT", "PENDING", "READY", "BUILD_FAILED"},
          artifact : Revs]
Absent == [rev |-> 0, status |-> "ABSENT", artifact |-> 0]
Gone == [files |-> 0, manifest |-> Absent]
Places == {"live", "staged"}
Idle == [do |-> "none", id |-> CHOOSE id \in Ids : TRUE, at |-> "idle",
         place |-> "live", entry |-> Absent]

StoreInit ==
  /\ versions \in BOOLEAN
  /\ live = [id \in Ids |-> Absent]
  /\ staged = [id \in Ids |-> Absent]
  /\ dir = [p \in Places |-> [id \in Ids |-> Gone]]
  /\ op = Idle
  /\ revs = [p \in Participants |-> 0]
  /\ fails = 0

At(do, step) == op.do = do /\ op.at = step
Step(step) == op' = [op EXCEPT !.at = step]
Here == dir[op.place][op.id]
Fail == fails < MaxFails /\ fails' = fails + 1
Works == UNCHANGED fails
Memory == <<live, staged>>
Rest == <<versions, revs>>

(* The highest version of the participant on record; versions that did not   *)
(* build keep their numbers.                                                 *)
CountLive(p) ==                                                        \* slip
  Cardinality({n \in 1 .. MaxRev : live[<<p, n>>].status = "READY"})
Highest(p) == Max({0} \cup {n \in 1 .. MaxRev : live[<<p, n>>] # Absent})
IdFor(p) == IF versions THEN <<p, Highest(p) + 1>> ELSE <<p, 1>>

-----------------------------------------------------------------------------
(* Create, once Validate has passed.                                         *)

PlaceOf(id) == IF live[id].status = "READY" THEN "staged" ELSE "live"
StartCreate(p) ==
  /\ op = Idle /\ revs[p] < MaxRev
  /\ revs' = [revs EXCEPT ![p] = @ + 1]
  /\ op' = [do |-> "create", id |-> IdFor(p), at |-> "clear", place |-> PlaceOf(IdFor(p)),
            entry |-> [rev |-> revs[p] + 1, status |-> "PENDING", artifact |-> 0]]
  /\ UNCHANGED <<versions, live, staged, dir, fails>>

(* remove_all, of a directory one entry after the other, in any order, or     *)
(* until one cannot be removed.                                               *)
Cleared == Step(IF op.do = "create" THEN "files"
                ELSE IF op.place = "live" THEN "rename" ELSE "forget")
Clear ==
  /\ op.at = "clear"
  /\ \/ /\ Here.files # 0 /\ dir' = [dir EXCEPT ![op.place][op.id].files = 0]
        /\ Works /\ UNCHANGED op
     \/ /\ Here.manifest # Absent
        /\ dir' = [dir EXCEPT ![op.place][op.id].manifest = Absent]
        /\ Works /\ UNCHANGED op
     \/ Here = Gone /\ Cleared /\ Works /\ UNCHANGED dir
     \/ Here # Gone /\ Cleared /\ Fail /\ UNCHANGED dir
  /\ UNCHANGED <<Memory, Rest>>

(* patch.diff and the added sources; the patch is always written over.        *)
WriteFiles ==
  /\ At("create", "files")
  /\ \/ /\ dir' = [dir EXCEPT ![op.place][op.id].files = op.entry.rev]
        /\ Step("manifest") /\ Works
     \/ Fail /\ Step("refused") /\ UNCHANGED dir
  /\ UNCHANGED <<Memory, Rest>>

WriteNewManifest ==
  /\ At("create", "manifest")
  /\ \/ /\ dir' = [dir EXCEPT ![op.place][op.id].manifest = op.entry]
        /\ IF op.place = "staged"
           THEN staged' = [staged EXCEPT ![op.id] = op.entry] /\ UNCHANGED live
           ELSE live' = [live EXCEPT ![op.id] = op.entry] /\ UNCHANGED staged
        /\ Step("stored") /\ Works
     \/ Fail /\ Step("refused") /\ UNCHANGED <<dir, Memory>>
  /\ UNCHANGED Rest

-----------------------------------------------------------------------------
(* SetStatus.                                                                *)

StartSetStatus(id, status, artifact) ==
  /\ op = Idle
  /\ op' = [do |-> "status", id |-> id,
            at |-> IF staged[id] # Absent THEN "clear"
                   ELSE IF live[id] # Absent THEN "mark" ELSE "marked",
            place |-> IF status = "READY" THEN "live" ELSE "staged",
            entry |-> [rev |-> 0, status |-> status, artifact |-> artifact]]
  /\ UNCHANGED <<Memory, dir, Rest, fails>>

(* The rename fails where something is left of the live directory, or for a   *)
(* reason of its own; in memory the staged copy becomes the entry all the     *)
(* same.                                                                      *)
StagedMoves ==
  /\ dir["live"][op.id] = Gone /\ Works
  /\ dir' = [dir EXCEPT !["live"][op.id] = dir["staged"][op.id], !["staged"][op.id] = Gone]
StagedStays ==
  /\ (dir["live"][op.id] # Gone /\ Works) \/ Fail
  /\ UNCHANGED dir
Rename ==
  /\ At("status", "rename")
  /\ StagedMoves \/ StagedStays
  /\ live' = [live EXCEPT ![op.id] = staged[op.id]]
  /\ staged' = [staged EXCEPT ![op.id] = Absent]
  /\ Step("mark")
  /\ UNCHANGED Rest

Forget ==
  /\ At("status", "forget")
  /\ staged' = [staged EXCEPT ![op.id] = Absent]
  /\ Step("marked")
  /\ UNCHANGED <<live, dir, Rest, fails>>

Marked(e) == [e EXCEPT !.status = op.entry.status,
                       !.artifact = IF op.entry.artifact = 0 THEN @ ELSE op.entry.artifact]
Mark ==
  /\ At("status", "mark")
  /\ live' = [live EXCEPT ![op.id] = Marked(@)]
  /\ Step("manifest")
  /\ UNCHANGED <<staged, dir, Rest, fails>>

(* A write that fails returns false, which no caller looks at.  With nothing  *)
(* in the directory there may be no directory to write to.                    *)
SkipManifest ==                                                        \* slip
  At("status", "manifest") /\ Step("marked")
  /\ UNCHANGED <<dir, Memory, Rest, fails>>
WriteManifest ==
  /\ At("status", "manifest")
  /\ \/ dir' = [dir EXCEPT !["live"][op.id].manifest = live[op.id]] /\ Works
     \/ dir["live"][op.id] = Gone /\ Works /\ UNCHANGED dir
     \/ Fail /\ UNCHANGED dir
  /\ Step("marked")
  /\ UNCHANGED <<Memory, Rest>>

StoreStep ==
  Clear \/ WriteFiles \/ WriteNewManifest \/ Rename \/ Forget \/ Mark \/ WriteManifest

-----------------------------------------------------------------------------
(* Load, in a new process: staged directories are removed, as far as that     *)
(* goes, and a directory without a manifest is passed over.                   *)
Load ==
  /\ live' = [id \in Ids |-> dir["live"][id].manifest]
  /\ staged' = [id \in Ids |-> Absent]
  /\ \/ dir' = [dir EXCEPT !["staged"] = [id \in Ids |-> Gone]] /\ Works
     \/ (\E id \in Ids : dir["staged"][id] # Gone) /\ Fail /\ UNCHANGED dir
  /\ op' = Idle
  /\ UNCHANGED Rest

=============================================================================
