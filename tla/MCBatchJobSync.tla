---------------------------- MODULE MCBatchJobSync ----------------------------
(***************************************************************************)
(* Instances of BatchJobSync for TLC.                                      *)
(***************************************************************************)
EXTENDS BatchJobSync, TLC

CONSTANTS j1, j2, j3, t1, t2, p1, p2

\* Each tick in a process of its own: a crash takes one and spares the other.
PodOfTick == (t1 :> p1) @@ (t2 :> p2)

\* Counts of some types only, as in buildTokenJobs's "partial non-zero" test.
SomeUsage == [j \in Jobs |-> [input |-> 1, output |-> 0, total |-> 1]]

\* One job with counts and one without any.
MixedUsage == [j \in Jobs |->
    IF j = j1 THEN [input |-> 1, output |-> 0, total |-> 1] ELSE NoTokens]
=============================================================================
