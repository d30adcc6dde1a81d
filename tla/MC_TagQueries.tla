---------------------------- MODULE MC_TagQueries ----------------------------
(* A small instance of TagQueries for TLC: two tags of different types    *)
(* that share one name, and jobs of one user.                             *)
EXTENDS TagQueries, TLC

CONSTANTS w1, j1, n1, n2, u1

MCOneWorker == {w1}
MCOneJob == {j1}
MCNames == {n1, n2}
MCTagLists == {<<n1, n2>>}
MCTagName(t) == "x"
MCUsers == {u1}
MCOwner(j) == u1
=============================================================================
