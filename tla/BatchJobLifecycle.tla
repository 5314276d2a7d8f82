-------------------------- MODULE BatchJobLifecycle --------------------------
(***************************************************************************)
(* What batch_jobs and token_jobs promise to whoever reads them, with no   *)
(* scheduler, lock or provider in sight.  A job is created pending, its    *)
(* recorded status only moves forward, a completed or failed job keeps     *)
(* it, and token counts are only ever recorded for a completed job, all in *)
(* one step.                                                               *)
(*                                                                         *)
(* BatchJobSync implements this module as long as a lock outlives the work *)
(* done under it.                                                          *)
(***************************************************************************)
CONSTANT Jobs

VARIABLES
    status,  \* status[j]: what a reader sees in batch_jobs.status
    billed   \* the jobs whose token counts are in token_jobs

vars == <<status, billed>>

\* BatchJobStatusPending, Submitted, Processing: the scheduler still polls these.
ActiveStatuses == {"pending", "submitted", "processing"}

\* BatchJobStatusCompleted and BatchJobStatusFailed.
FinalStatuses == {"completed", "failed"}

Init ==
    /\ status = [j \in Jobs |-> "absent"]
    /\ billed = {}

\* A submission was accepted: its row appears.
Create(j) ==
    /\ status[j] = "absent"
    /\ status' = [status EXCEPT ![j] = "pending"]
    /\ UNCHANGED billed

\* A poll found the job at work, or over.
Record(j, s) ==
    /\ status[j] \in ActiveStatuses
    /\ s # status[j]
    /\ status' = [status EXCEPT ![j] = s]
    /\ UNCHANGED billed

\* The token counts of a completed job are stored.
Bill(j) ==
    /\ status[j] = "completed"
    /\ billed' = billed \cup {j}
    /\ UNCHANGED status

Next ==
    \E j \in Jobs :
        \/ Create(j)
        \/ \E s \in {"processing"} \cup FinalStatuses : Record(j, s)
        \/ Bill(j)

Spec == Init /\ [][Next]_vars
=============================================================================
