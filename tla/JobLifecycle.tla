---------------------------- MODULE JobLifecycle ----------------------------
(***************************************************************************)
(* What table research_jobs promises to every reader of a job's status:    *)
(* work is admitted once, begins at most once, ends at most once, is never *)
(* replayed after a restart, and its row is only removed after it ended.   *)
(* Library, ResearchService and Explanations implement it.                 *)
(***************************************************************************)
CONSTANT Jobs
VARIABLE status    \* the status column; "none" where there is no row

Active == {"queued", "running"}
Ended == {"needs_identity", "interrupted", "cancelled", "completed", "failed"}

Init == status = [j \in Jobs |-> "none"]

Admit(j) ==
    /\ status[j] = "none"
    /\ status' = [status EXCEPT ![j] = "queued"]

Begin(j) ==
    /\ status[j] = "queued"
    /\ status' = [status EXCEPT ![j] = "running"]

\* Work that has not begun can be refused or cancelled.  A question that is only
\* redirected begins and completes in one step of its task.  Nothing that has not
\* begun asks for an identity, and only a restart interrupts.
Finish(j, s) ==
    /\ \/ status[j] = "running" /\ s \in Ended \ {"interrupted"}
       \/ status[j] = "queued" /\ s \in {"cancelled", "failed", "completed"}
    /\ status' = [status EXCEPT ![j] = s]

\* A restart interrupts everything that was active, at once.
Recover ==
    status' = [j \in Jobs |-> IF status[j] \in Active THEN "interrupted" ELSE status[j]]

Remove(S) ==
    /\ \A j \in S : status[j] \in Ended
    /\ status' = [j \in Jobs |-> IF j \in S THEN "none" ELSE status[j]]

Next ==
    \/ \E j \in Jobs : Admit(j) \/ Begin(j) \/ \E s \in Ended : Finish(j, s)
    \/ Recover
    \/ \E S \in SUBSET Jobs : Remove(S)

Spec == Init /\ [][Next]_status

\* What a reader may conclude from the status it has seen last (the window, a cancel
\* handler, the guards of deletion and eviction): an ending is final until the row is
\* removed, running work only ends, and work that has not ended keeps its row.
NeverReplayed ==
    [][\A j \in Jobs :
          /\ status[j] \in Ended => status'[j] \in {status[j], "none"}
          /\ status[j] = "running" => status'[j] \in Ended \cup {"running"}
          /\ status[j] = "queued" => status'[j] # "none"]_status
=============================================================================
