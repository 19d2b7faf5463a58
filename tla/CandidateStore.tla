--------------------------- MODULE CandidateStore ---------------------------
(***************************************************************************)
(* The store of submissions (server/candidate_store.cc): one live entry    *)
(* per candidate id and, while a READY entry's replacement has not built,  *)
(* a staged copy beside it.  Every public method runs under one mutex, so  *)
(* each is one step.                                                       *)
(*                                                                         *)
(* What a submission contains is abstracted to its revision: the r-th      *)
(* submission under an id.  A built bot in the archive is named by the     *)
(* revision it was built from, 0 standing for "no artifact".               *)
(***************************************************************************)
EXTENDS Integers

CONSTANTS
  Candidates,  \* candidate ids
  Versions,    \* policy.versions: every submission gets an id of its own
  MaxRev       \* bound: submissions under one id

ASSUME StoreAssumption == Versions \in BOOLEAN /\ MaxRev \in Nat

VARIABLES
  live,        \* candidates_: what Get and List return
  staged,      \* staged_: the revision waiting to replace a READY entry, or 0
  revs         \* how many submissions each id has had

storeVars == <<live, staged, revs>>

Revs == 0 .. MaxRev

Entry == [rev : Revs, status : {"ABSENT", "PENDING", "READY", "BUILD_FAILED"},
          artifact : Revs]

StoreTypeOK ==
  /\ live \in [Candidates -> Entry]
  /\ staged \in [Candidates -> Revs]
  /\ revs \in [Candidates -> Revs]

StoreInit ==
  /\ live = [c \in Candidates |->
               [rev |-> 0, status |-> "ABSENT", artifact |-> 0]]
  /\ staged = [c \in Candidates |-> 0]
  /\ revs = [c \in Candidates |-> 0]

(* Create, for a valid submission: a READY entry stays and the new copy is  *)
(* staged (over an older staged copy, if any), any other entry is replaced. *)
(* With versions IdForLocked gives an id nothing is stored under.           *)
CreateUnversioned(c) ==                                                \* slip
  /\ revs[c] < MaxRev
  /\ revs' = [revs EXCEPT ![c] = @ + 1]
  /\ IF live[c].status = "READY"
     THEN staged' = [staged EXCEPT ![c] = revs[c] + 1] /\ UNCHANGED live
     ELSE /\ live' = [live EXCEPT ![c] = [rev |-> revs[c] + 1,
                                          status |-> "PENDING",
                                          artifact |-> 0]]
          /\ UNCHANGED staged
Create(c) ==
  /\ revs[c] < MaxRev
  /\ Versions => live[c].status = "ABSENT"
  /\ revs' = [revs EXCEPT ![c] = @ + 1]
  /\ IF live[c].status = "READY"
     THEN staged' = [staged EXCEPT ![c] = revs[c] + 1] /\ UNCHANGED live
     ELSE /\ live' = [live EXCEPT ![c] = [rev |-> revs[c] + 1,
                                          status |-> "PENDING",
                                          artifact |-> 0]]
          /\ UNCHANGED staged

(* SetStatus: READY promotes a staged copy and marks it; anything else drops *)
(* a staged copy and leaves the entry alone, or marks an entry without one.  *)
SetStatus(c, status, artifact) ==
  LET promoted == [rev |-> staged[c], status |-> "READY", artifact |-> artifact]
      marked == [live[c] EXCEPT !.status = status,
                                !.artifact = IF artifact = 0 THEN @ ELSE artifact]
  IN  /\ staged' = [staged EXCEPT ![c] = 0]
      /\ live' = [live EXCEPT ![c] =
                    CASE staged[c] # 0 /\ status = "READY" -> promoted
                      [] staged[c] # 0 /\ status # "READY" -> @
                      [] staged[c] = 0 /\ @.status = "ABSENT" -> @
                      [] OTHER -> marked]
      /\ UNCHANGED revs

=============================================================================
