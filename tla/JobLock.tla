-------------------------------- MODULE JobLock --------------------------------
(***************************************************************************)
(* What the distributed lock of one batch job is for, with no clock and no *)
(* ticks: whoever works on the job took its key when there was none, and   *)
(* the key stays for as long as somebody works.                            *)
(*                                                                         *)
(* LockTiming implements this as long as the work fits the lock's TTL, and *)
(* the ticks of BatchJobSync rely on it, job by job.                       *)
(***************************************************************************)
CONSTANT Workers

VARIABLES
    working,  \* those at work on the job
    key       \* is the key there?

vars == <<working, key>>

Init ==
    /\ working = {}
    /\ key = FALSE

\* SET NX succeeds.
Take(w) ==
    /\ ~key
    /\ working' = working \cup {w}
    /\ key' = TRUE

\* It succeeds, and whoever asked for the key does not get to know.
TakeInVain ==
    /\ ~key
    /\ key' = TRUE
    /\ UNCHANGED working

\* Whoever works is done, and deletes the key; or fails to, or dies.
Leave(w) ==
    /\ w \in working
    /\ working' = working \ {w}
    /\ key' => key

\* The TTL of a key runs out that nobody works under.
Lapse ==
    /\ key
    /\ working = {}
    /\ key' = FALSE
    /\ UNCHANGED working

Next ==
    \/ \E w \in Workers : Take(w) \/ Leave(w)
    \/ TakeInVain
    \/ Lapse

Spec == Init /\ [][Next]_vars
=============================================================================
