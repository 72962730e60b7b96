------------------------------ MODULE JobLedger ------------------------------
(***************************************************************************)
(* What the pool promises about jobs, without workers, mailboxes or        *)
(* parking.  A job is issued once, under the next id; at most Capacity     *)
(* jobs are unanswered at any time; an answer is served to one wait; and   *)
(* a closed id is closed for good, across dispose and reboot.              *)
(***************************************************************************)
EXTENDS Integers, FiniteSets

CONSTANTS Ids, Capacity

VARIABLES
    status,    \* of each job id
    served     \* how often its answer was handed out

Statuses == {"unissued", "pending", "answered", "closed"}

Having(s) == {j \in Ids : status[j] = s}

Moved(S, s) == [j \in Ids |-> IF j \in S THEN s ELSE status[j]]

Init ==
    /\ status = [j \in Ids |-> "unissued"]
    /\ served = [j \in Ids |-> 0]

\* dispatch: issues the smallest unissued id.  A saturated dispatch collects
\* the answer of one pending job (A) to make room.
Issue(j, A) ==
    /\ status[j] = "unissued"
    /\ \A i \in Having("unissued") : j <= i
    /\ A \subseteq Having("pending")
    /\ Cardinality(A) <= 1
    /\ Cardinality(Having("pending") \ A) < Capacity
    /\ status' = [Moved(A, "answered") EXCEPT ![j] = "pending"]
    /\ UNCHANGED served

\* The answer of a job becomes available: its worker has exited.
Answer(j) ==
    /\ status[j] = "pending"
    /\ status' = Moved({j}, "answered")
    /\ UNCHANGED served

\* wait serves the job.
Serve(j) ==
    /\ status[j] \in {"pending", "answered"}
    /\ status' = Moved({j}, "closed")
    /\ served' = [served EXCEPT ![j] = @ + 1]

\* dispose forgets every job.
Reset ==
    /\ status' = Moved(Having("pending") \cup Having("answered"), "closed")
    /\ UNCHANGED served

Next ==
    \/ \E j \in Ids : Issue(j, {}) \/ (\E i \in Ids : Issue(j, {i}))
    \/ \E j \in Ids : Answer(j) \/ Serve(j)
    \/ Reset

Spec == Init /\ [][Next]_<<status, served>>
=============================================================================
