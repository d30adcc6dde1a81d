----------------------------- MODULE MC_JobTags -----------------------------
(* Small instances of JobTags for TLC. *)
EXTENDS JobTags, TLC

CONSTANTS w1, w2, j1, j2, n1, n2

MCWorkers == {w1, w2}
MCOneWorker == {w1}
MCJobs == {j1, j2}
MCOneJob == {j1}
MCNames == {n1, n2}

(* A start without tags, one tag, and two tags in both orders, so two     *)
(* requests can race on the same new tag and on the same association.     *)
MCTagLists == {<<>>, <<n1>>, <<n1, n2>>, <<n2, n1>>}
MCOneTag == {<<n1>>}

MCSymmetry == Permutations(MCWorkers)
=============================================================================
