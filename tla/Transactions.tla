---------------------------- MODULE Transactions ----------------------------
(***************************************************************************)
(* What the callers of Database rely on, and what module Library takes for *)
(* granted: a transaction is one step.  One conversation, the jobs of its  *)
(* questions and their events stand for the library.                       *)
(***************************************************************************)
CONSTANT Jobs
VARIABLES
    conversation,    \* "none" or "open"
    job,             \* research_jobs: "none", "running" (or queued), "ended"
    event,           \* jobs with a row in runtime_events
    restored         \* an archive has been restored into this library

Busy == \E j \in Jobs : job[j] = "running"
Empty == conversation = "none" /\ event = {} /\ \A j \in Jobs : job[j] = "none"

Init ==
    /\ conversation = "none" /\ job = [j \in Jobs |-> "none"]
    /\ event = {} /\ restored = FALSE

Create ==
    /\ conversation' = "open"
    /\ UNCHANGED <<job, event, restored>>

\* A question is admitted into a conversation that exists.
Ask(j) ==
    /\ job[j] = "none" /\ conversation = "open"
    /\ job' = [job EXCEPT ![j] = "running"]
    /\ UNCHANGED <<conversation, event, restored>>

\* Its answer is published into that conversation, or it ends without one.
Publish(j) ==
    /\ job[j] = "running" /\ conversation = "open"
    /\ job' = [job EXCEPT ![j] = "ended"] /\ event' = event \cup {j}
    /\ UNCHANGED <<conversation, restored>>
Fail(j) ==
    /\ job[j] = "running"
    /\ job' = [job EXCEPT ![j] = "ended"]
    /\ UNCHANGED <<conversation, event, restored>>
Emit(j) ==
    /\ job[j] # "none"
    /\ event' = event \cup {j}
    /\ UNCHANGED <<conversation, job, restored>>

\* A conversation is deleted or expires with everything that belongs to it, and
\* never under an active answer.
Drop ==
    /\ conversation = "open" /\ ~ Busy
    /\ conversation' = "none" /\ event' = {} /\ job' = [j \in Jobs |-> "none"]
    /\ UNCHANGED restored

\* "Serializes the empty-library check with every writer; never replace existing work".
Restore ==
    /\ Empty
    /\ conversation' = "open" /\ restored' = TRUE
    /\ UNCHANGED <<job, event>>

Next ==
    \/ Create \/ Drop \/ Restore
    \/ \E j \in Jobs : Ask(j) \/ Publish(j) \/ Fail(j) \/ Emit(j)

Spec == Init /\ [][Next]_<<conversation, job, event, restored>>
=============================================================================
