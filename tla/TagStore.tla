------------------------------ MODULE TagStore ------------------------------
(***************************************************************************)
(* What the tag store promises about tables job, tag and jobtag, with      *)
(* every statement as one atomic change (spec.md 3 and 4.3):               *)
(*   - a job row enters under an id no row had;                            *)
(*   - a tag enters once and is never deleted;                             *)
(*   - an association is added only between an existing job and an        *)
(*     existing tag;                                                       *)
(*   - a removal deletes one (job, tag) pair and nothing else.             *)
(***************************************************************************)
CONSTANTS
  Jobs,    \* database ids of jobs
  Names    \* (type, name) pairs of tags

VARIABLES
  jobs,    \* ids of the rows of table job
  tags,    \* rows of table tag
  assoc    \* rows of table jobtag

storeVars == <<jobs, tags, assoc>>

(* JobRepository.Start: the new row takes a fresh id. *)
NewJob ==
  /\ \E j \in Jobs \ jobs : jobs' = jobs \cup {j}
  /\ UNCHANGED <<tags, assoc>>

(* CreateTag: INSERT INTO tag of a pair the table lacks. *)
NewTag ==
  /\ \E n \in Names \ tags : tags' = tags \cup {n}
  /\ UNCHANGED <<jobs, assoc>>

(* AddTag: INSERT INTO jobtag of an existing job and tag. *)
Associate ==
  /\ \E j \in jobs, n \in tags : assoc' = assoc \cup {<<j, n>>}
  /\ UNCHANGED <<jobs, tags>>

(* RemoveTag: DELETE FROM jobtag of one pair. *)
Dissociate ==
  /\ \E j \in jobs, n \in Names : assoc' = assoc \ {<<j, n>>}
  /\ UNCHANGED <<jobs, tags>>

Init ==
  /\ jobs = {}
  /\ tags = {}
  /\ assoc = {}

Next == NewJob \/ NewTag \/ Associate \/ Dissociate

Spec == Init /\ [][Next]_storeVars

=============================================================================
