----------------------------- MODULE BatchService -----------------------------
(***************************************************************************)
(* What SubmitBulkChatCompletions promises to the clients that submit      *)
(* batches, with no templates, blobs, retries or stages of handlers in     *)
(* sight: a submission is answered once, a client is only ever given the   *)
(* name of a job that is on record and that nobody else was given, and     *)
(* what is on record stays there.                                          *)
(*                                                                         *)
(* It does not promise that a failed submission leaves nothing behind: its *)
(* client is told of an error, and the job may be taken or even recorded.  *)
(***************************************************************************)
CONSTANTS Calls, Names

VARIABLES
    taken,     \* the jobs the provider has
    recorded,  \* those on record, which the scheduler polls
    told       \* what the client of each call was told: "none" yet, a name, or "error"

vars == <<taken, recorded, told>>

Init ==
    /\ taken = {}
    /\ recorded = {}
    /\ told = [c \in Calls |-> "none"]

\* The provider takes a job on.
Take(n) ==
    /\ n \notin taken
    /\ taken' = taken \cup {n}
    /\ UNCHANGED <<recorded, told>>

\* A job that was taken goes on record, once.
Record(n) ==
    /\ n \in taken \ recorded
    /\ recorded' = recorded \cup {n}
    /\ UNCHANGED <<taken, told>>

\* A client is given the name of a job.
Tell(c, n) ==
    /\ told[c] = "none"
    /\ n \in recorded
    /\ \A d \in Calls : told[d] # n
    /\ told' = [told EXCEPT ![c] = n]
    /\ UNCHANGED <<taken, recorded>>

\* A client is told that its submission failed, wherever it had got to: the
\* job may just have been taken, or put on record.
Fail(c) ==
    /\ told[c] = "none"
    /\ told' = [told EXCEPT ![c] = "error"]
    /\ \/ UNCHANGED <<taken, recorded>>
       \/ \E n \in Names \ taken : taken' = taken \cup {n} /\ UNCHANGED recorded
       \/ \E n \in taken \ recorded : recorded' = recorded \cup {n} /\ UNCHANGED taken

Next ==
    \/ \E n \in Names : Take(n) \/ Record(n)
    \/ \E c \in Calls : Fail(c) \/ \E n \in Names : Tell(c, n)

Spec == Init /\ [][Next]_vars
=============================================================================
