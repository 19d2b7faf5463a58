---------------------------- MODULE MCScheduler -----------------------------
(***************************************************************************)
(* Small instances of the scheduler: the values the configurations give to *)
(* its constants.                                                          *)
(***************************************************************************)
EXTENDS SchedulerProperties

CONSTANTS p1, p2, c1, c2, w1, w2, s1, s2, house, yard, vs1, vs2, none, bot

(* c1 and c2 belong to different participants, or to the same one.           *)
AuthorEach == [c \in Candidates |-> IF c = c1 THEN p1 ELSE p2]
AuthorSame == [c \in Candidates |-> p1]

(* Against builtins only, or against the candidate in the group's name.      *)
RivalsOf == [g \in Groups |-> IF g = vs1 THEN {c1} ELSE IF g = vs2 THEN {c2} ELSE {}]

OneSlot == [w \in Workers |-> 1]
TwoSlots == [w \in Workers |-> 2]
TwoForOne == [w \in Workers |-> IF w = w1 THEN 2 ELSE 1]

(* Every stream is a worker of its own, or all are the same worker's.        *)
OwnStream == [s \in Streams |-> IF s = s1 THEN w1 ELSE w2]
SameWorker == [s \in Streams |-> w1]

=============================================================================
