---------------------------- MODULE Explanations ----------------------------
(***************************************************************************)
(* Retained documents and their explanations: ImportPreviews and           *)
(* ImportStorage (retention), ImportLearning (the explanation jobs), the   *)
(* deletion of both, and the revocation that ends them.                    *)
(*                                                                         *)
(* As in ResearchService a step of a task is the code between two awaits,  *)
(* and a handler that awaits nothing is one step.  What a document says is *)
(* left out: a document has a life, an explanation has a key, which is its *)
(* document and the language and level it is written for.                  *)
(***************************************************************************)
EXTENDS Integers, Sequences, FiniteSets

CONSTANTS
    Docs,          \* identifiers a retained document may get; none is used twice
    Levels,        \* languages and reader levels of an explanation
    Jobs,          \* explanation jobs, each admitted at most once
    QueueLimit,    \* tasks that may be registered at once (20 in the code)
    None

ASSUME ExplanationsAssumption ==
    /\ QueueLimit \in Nat \ {0}
    /\ Jobs \cap Docs = {}
    /\ None \notin Jobs \cup (Docs \X Levels)

VARIABLES
    consent,    \* settings.cloud_enabled
    setter,     \* the PUT /api/settings that holds settings_lock
    document,   \* "import:" records, and the retentions under way
    saved,      \* keys with an "import_explanation:" record
    status,     \* research_jobs; "none" where there is no row
    key,        \* the request of a job: what it explains
    stage,      \* tasks: where each coroutine is suspended
    pending,    \* ImportLearning.pending
    hit,        \* tasks marked by task.cancel(), the error not delivered yet
    cancels,    \* POST /cancel handlers waiting for their task
    holder,     \* the task inside the inference semaphore
    events,     \* runtime_events of each job
    revoked     \* history: jobs and fetches under way when consent was withdrawn

requests == <<key, stage, pending, hit, cancels, holder>>
table == <<status, events>>
docs == <<document, saved>>
switch == <<consent, setter, revoked>>
explanationVars == <<requests, table, docs, switch>>

-----------------------------------------------------------------------------

Keys == Docs \X Levels
Active == {"queued", "running"}
Statuses == {"none", "queued", "running", "interrupted", "cancelled", "completed", "failed"}
Documents == {"unknown", "fetching", "fetched", "kept", "gone"}

\* "submitting" is a POST that awaits the parser before a job exists; "line",
\* "viewing" and "model" wait for the inference semaphore, the parser and the
\* provider; "unwinding" and "expiring" close what was open, after a cancel and
\* after the timeout; "ended" is a finished task not yet reaped.
Stages == {"none", "submitting", "ready", "line", "viewing", "model", "unwinding",
           "expiring", "ended"}
Kinds == {"run.started", "run.cancelled", "run.failed", "run.completed"}

ExplanationTypeOK ==
    /\ consent \in BOOLEAN /\ setter \in {"idle", "imports", "service"}
    /\ document \in [Docs -> Documents] /\ saved \subseteq Keys
    /\ status \in [Jobs -> Statuses] /\ key \in [Jobs -> Keys \cup {None}]
    /\ stage \in [Jobs -> Stages] /\ pending \in [Keys -> Jobs \cup {None}]
    /\ hit \subseteq Jobs /\ cancels \subseteq Jobs /\ holder \in Jobs \cup {None}
    /\ events \in [Jobs -> Seq(Kinds)] /\ revoked \subseteq Jobs \cup Docs

ExplanationInit ==
    /\ consent = FALSE /\ setter = "idle"
    /\ document = [d \in Docs |-> "unknown"] /\ saved = {}
    /\ status = [j \in Jobs |-> "none"] /\ key = [j \in Jobs |-> None]
    /\ stage = [j \in Jobs |-> "none"] /\ pending = [k \in Keys |-> None]
    /\ hit = {} /\ cancels = {} /\ holder = None
    /\ events = [j \in Jobs |-> <<>>] /\ revoked = {}

Tasks == {j \in Jobs : stage[j] \notin {"none", "submitting"}}
Live == {j \in Tasks : stage[j] # "ended"}
ActiveJobs == {j \in Jobs : status[j] \in Active}
About(K) == {j \in Jobs : key[j] \in K /\ status[j] # "none"}
KeysOf(d) == {d} \X Levels

-----------------------------------------------------------------------------
(* Retention                                                               *)

\* An uploaded file needs no online permission and is kept in one step after its
\* parse; a link is fetched with permission, and read again after every await.
RetainFile(d) ==
    /\ document[d] = "unknown"
    /\ document' = [document EXCEPT ![d] = "kept"]
    /\ UNCHANGED <<saved, requests, table, switch>>
StartFetch(d) ==
    /\ document[d] = "unknown" /\ consent
    /\ document' = [document EXCEPT ![d] = "fetching"]
    /\ UNCHANGED <<saved, requests, table, switch>>
FetchDone_Unchecked(d) ==
    /\ document[d] = "fetching"
    /\ document' = [document EXCEPT ![d] = "fetched"]
    /\ UNCHANGED <<saved, requests, table, switch>>
FetchDone(d) ==
    /\ document[d] = "fetching" /\ consent
    /\ document' = [document EXCEPT ![d] = "fetched"]
    /\ UNCHANGED <<saved, requests, table, switch>>

\* A failure, a lost client, or the cancellation by imports.close.
FetchEnds(d) ==
    /\ document[d] = "fetching"
    /\ document' = [document EXCEPT ![d] = "gone"]
    /\ UNCHANGED <<saved, requests, table, switch>>

\* The handler resumes after its fetch and stores the document, or refuses to.
StoreFetched(d) ==
    /\ document[d] = "fetched"
    /\ \E end \in {"kept", "gone"} :
        /\ end = "kept" => consent
        /\ document' = [document EXCEPT ![d] = end]
    /\ UNCHANGED <<saved, requests, table, switch>>

-----------------------------------------------------------------------------
(* Admission                                                               *)

Submit(j, k) ==
    /\ key[j] = None /\ document[k[1]] = "kept"
    /\ key' = [key EXCEPT ![j] = k] /\ stage' = [stage EXCEPT ![j] = "submitting"]
    /\ UNCHANGED <<pending, hit, cancels, holder, table, docs, switch>>

\* The document has been parsed again.  Everything is read after that await and in
\* one step: the saved explanation, consent, a job for the same key, the queue's
\* length and, under its row lock, the document.
Register(j) ==
    /\ status' = [status EXCEPT ![j] = "queued"]
    /\ stage' = [stage EXCEPT ![j] = "ready"]
    /\ pending' = [pending EXCEPT ![key[j]] = j]
    /\ UNCHANGED <<key, hit, cancels, holder, events, docs, switch>>
Admit_TrustsView(j) ==
    /\ stage[j] = "submitting"
    /\ key[j] \notin saved /\ consent /\ pending[key[j]] = None
    /\ Cardinality(Tasks) < QueueLimit
    /\ Register(j)
Admit_SkipsPending(j) ==
    /\ stage[j] = "submitting"
    /\ key[j] \notin saved /\ consent
    /\ Cardinality(Tasks) < QueueLimit /\ document[key[j][1]] = "kept"
    /\ Register(j)
Admit(j) ==
    /\ stage[j] = "submitting"
    /\ key[j] \notin saved /\ consent /\ pending[key[j]] = None
    /\ Cardinality(Tasks) < QueueLimit /\ document[key[j][1]] = "kept"
    /\ Register(j)

\* Every other end of the request: the saved explanation, the pending job, a
\* refusal, or a client that is gone.  No job was written.
Return(j) ==
    /\ stage[j] = "submitting"
    /\ key' = [key EXCEPT ![j] = None] /\ stage' = [stage EXCEPT ![j] = "none"]
    /\ UNCHANGED <<pending, hit, cancels, holder, table, docs, switch>>

\* The done-callback of a task: whatever is pending under its key is forgotten.
Reap(j) ==
    /\ stage[j] = "ended"
    /\ stage' = [stage EXCEPT ![j] = "none"]
    /\ pending' = [pending EXCEPT ![key[j]] = None]
    /\ UNCHANGED <<key, hit, cancels, holder, table, docs, switch>>

-----------------------------------------------------------------------------
(* The run of a job                                                        *)

\* transition and the terminal event, written in one step; the semaphore is
\* released on the way out.
EventOf(s) == CASE s = "cancelled" -> "run.cancelled"
                [] s = "failed" -> "run.failed"
                [] OTHER -> "run.completed"
End(j, s) ==
    /\ status' = [status EXCEPT ![j] = s]
    /\ events' = [events EXCEPT ![j] = Append(@, EventOf(s))]
    /\ stage' = [stage EXCEPT ![j] = "ended"]
    /\ hit' = hit \ {j}
    /\ holder' = IF holder = j THEN None ELSE holder

MoveTo(j, s) == stage' = [stage EXCEPT ![j] = s] /\ UNCHANGED <<hit, holder>>
Own(j) == UNCHANGED <<key, pending, cancels, docs, switch>>

FirstStep(j) ==
    /\ stage[j] = "ready" /\ j \notin hit
    /\ MoveTo(j, "line") /\ UNCHANGED table /\ Own(j)

\* Consent and the selected connection are read inside the semaphore; the job runs
\* from here, and holds the semaphore while it waits for the parser.
Enter(j) ==
    /\ stage[j] = "line" /\ j \notin hit /\ holder = None
    /\ \/ /\ consent
          /\ status' = [status EXCEPT ![j] = "running"]
          /\ stage' = [stage EXCEPT ![j] = "viewing"] /\ holder' = j
          /\ UNCHANGED <<events, hit>>
       \/ End(j, "failed")
    /\ Own(j)

Viewed(j) ==
    /\ stage[j] = "viewing" /\ j \notin hit
    /\ \/ /\ consent
          /\ events' = [events EXCEPT ![j] = Append(@, "run.started")]
          /\ MoveTo(j, "model") /\ UNCHANGED status
       \/ End(j, "failed")
    /\ Own(j)

\* The answer is published with consent, if its document is still there and
\* nothing else was saved under its key; otherwise the job fails.
Publish(j) ==
    /\ document[key[j][1]] = "kept" /\ key[j] \notin saved
    /\ saved' = saved \cup {key[j]}
    /\ End(j, "completed")
Answered_Revoked(j) ==
    /\ stage[j] = "model" /\ j \notin hit
    /\ \/ Publish(j)
       \/ End(j, "failed") /\ UNCHANGED saved
    /\ UNCHANGED <<key, pending, cancels, document, switch>>
Answered(j) ==
    /\ stage[j] = "model" /\ j \notin hit
    /\ \/ consent /\ Publish(j)
       \/ End(j, "failed") /\ UNCHANGED saved
    /\ UNCHANGED <<key, pending, cancels, document, switch>>

\* asyncio.timeout(180), which counts from the semaphore on.
Expires(j) ==
    /\ stage[j] \in {"viewing", "model"} /\ j \notin hit
    /\ MoveTo(j, "expiring") /\ UNCHANGED table /\ Own(j)

\* The CancelledError arrives: at once where nothing is open, otherwise the parser
\* or the stream is closed first.
DropUnstarted(j) ==
    /\ stage[j] = "ready" /\ j \in hit
    /\ stage' = [stage EXCEPT ![j] = "ended"] /\ hit' = hit \ {j}
    /\ UNCHANGED holder /\ UNCHANGED table /\ Own(j)
Deliver(j) ==
    /\ stage[j] = "line" /\ j \in hit
    /\ End(j, "cancelled") /\ Own(j)
Unwind(j) ==
    /\ stage[j] \in {"viewing", "model", "expiring"} /\ j \in hit
    /\ stage' = [stage EXCEPT ![j] = "unwinding"] /\ hit' = hit \ {j}
    /\ UNCHANGED holder /\ UNCHANGED table /\ Own(j)

\* A timeout that a cancel joined ends as the cancel does.
Unwound(j) ==
    /\ \/ stage[j] = "unwinding" /\ End(j, "cancelled")
       \/ stage[j] = "expiring" /\ j \notin hit /\ End(j, "failed")
    /\ Own(j)

RunStep(j) ==
    \/ FirstStep(j) \/ Enter(j) \/ Viewed(j) \/ Answered(j) \/ Expires(j)
    \/ DropUnstarted(j) \/ Deliver(j) \/ Unwind(j) \/ Unwound(j)

-----------------------------------------------------------------------------
(* Cancel, settings, deletion and restart                                  *)

\* For a job that has ended and has no task this does nothing.
Cancel(j) ==
    /\ j \in Live \cup ActiveJobs /\ j \notin cancels
    /\ cancels' = cancels \cup {j} /\ hit' = hit \cup ({j} \cap Live)
    /\ UNCHANGED <<key, stage, pending, holder, table, docs, switch>>
CancelReturns(j) ==
    /\ j \in cancels /\ j \notin Live
    /\ cancels' = cancels \ {j}
    /\ IF status[j] \in Active
       THEN /\ status' = [status EXCEPT ![j] = "cancelled"]
            /\ events' = [events EXCEPT ![j] = Append(@, "run.cancelled")]
       ELSE UNCHANGED table
    /\ UNCHANGED <<key, stage, pending, hit, holder, docs, switch>>

Grant ==
    /\ setter = "idle" /\ consent' = TRUE
    /\ UNCHANGED <<setter, revoked, requests, table, docs>>

\* Consent goes off; the fetches are cancelled and awaited, then the tasks.
Revoke ==
    /\ setter = "idle"
    /\ consent' = FALSE /\ setter' = "imports"
    /\ revoked' = revoked \cup ActiveJobs \cup {d \in Docs : document[d] = "fetching"}
    /\ UNCHANGED <<requests, table, docs>>
CloseService ==
    /\ setter = "imports" /\ \A d \in Docs : document[d] # "fetching"
    /\ setter' = "service" /\ hit' = hit \cup Live
    /\ UNCHANGED <<consent, revoked, key, stage, pending, cancels, holder, table, docs>>
SettingsReturn ==
    /\ setter = "service" /\ Live = {}
    /\ setter' = "idle"
    /\ UNCHANGED <<consent, revoked, requests, table, docs>>

\* delete_retained_item: refused while a job about it is queued or running; the
\* jobs go with it, and with a document its explanations.
Forget(S) ==
    /\ S \cap ActiveJobs = {}
    /\ status' = [j \in Jobs |-> IF j \in S THEN "none" ELSE status[j]]
    /\ events' = [j \in Jobs |-> IF j \in S THEN <<>> ELSE events[j]]
DeleteDocument_KeepsExplanations(d) ==
    /\ document[d] = "kept"
    /\ Forget(About(KeysOf(d)))
    /\ document' = [document EXCEPT ![d] = "gone"]
    /\ UNCHANGED <<saved, requests, switch>>
DeleteDocument(d) ==
    /\ document[d] = "kept"
    /\ Forget(About(KeysOf(d)))
    /\ document' = [document EXCEPT ![d] = "gone"]
    /\ saved' = saved \ KeysOf(d)
    /\ UNCHANGED <<requests, switch>>
DeleteExplanation(k) ==
    /\ k \in saved
    /\ Forget(About({k}))
    /\ saved' = saved \ {k}
    /\ UNCHANGED <<document, requests, switch>>

\* The process dies between two steps and recover runs at the next start.
Crash ==
    /\ Tasks # {} \/ ActiveJobs # {}
    /\ status' = [j \in Jobs |-> IF j \in ActiveJobs THEN "interrupted" ELSE status[j]]
    /\ stage' = [j \in Jobs |-> "none"] /\ pending' = [k \in Keys |-> None]
    /\ document' = [d \in Docs |-> IF document[d] \in {"fetching", "fetched"} THEN "gone"
                                   ELSE document[d]]
    /\ hit' = {} /\ cancels' = {} /\ holder' = None /\ setter' = "idle"
    /\ UNCHANGED <<key, saved, events, consent, revoked>>

ExplanationStep ==
    \/ \E d \in Docs : \/ RetainFile(d) \/ StartFetch(d) \/ FetchDone(d) \/ FetchEnds(d)
                       \/ StoreFetched(d) \/ DeleteDocument(d)
    \/ \E k \in Keys : DeleteExplanation(k) \/ \E j \in Jobs : Submit(j, k)
    \/ \E j \in Jobs : \/ Admit(j) \/ Return(j) \/ Reap(j) \/ RunStep(j)
                       \/ Cancel(j) \/ CancelReturns(j)
    \/ Grant \/ Revoke \/ CloseService \/ SettingsReturn

\* Parsers and providers answer or time out; the client of a submission may wait
\* for ever for nothing, because its parse ends.
ExplanationFairness ==
    /\ \A j \in Jobs : /\ WF_explanationVars(RunStep(j)) /\ WF_explanationVars(Reap(j))
                       /\ WF_explanationVars(CancelReturns(j))
                       /\ WF_explanationVars(Admit(j) \/ Return(j))
    /\ \A d \in Docs : /\ WF_explanationVars(FetchDone(d) \/ FetchEnds(d))
                       /\ WF_explanationVars(StoreFetched(d))
    /\ WF_explanationVars(CloseService) /\ WF_explanationVars(SettingsReturn)

-----------------------------------------------------------------------------
(* Properties                                                              *)

\* Nothing outlives the document it is about: no explanation is saved or being
\* written, and no event is kept, for a document that is gone, although submissions
\* await the parser between seeing it and queueing, and deletions do not wait.
NothingOutlivesDocument ==
    /\ \A k \in saved : document[k[1]] = "kept"
    /\ \A j \in Jobs : status[j] \in Active => document[key[j][1]] = "kept"
    /\ \A j \in Jobs : status[j] = "none" => events[j] = <<>>

\* Two requests for one explanation never pay for it twice: at most one live task
\* works on a key, it is the one lookups are told about, and none works on a key
\* that is already saved.
OneWriter ==
    /\ \A i, j \in Live : key[i] = key[j] => i = j
    /\ \A j \in Live : pending[key[j]] = j /\ key[j] \notin saved

\* A job or a fetch that was under way when consent was withdrawn leaves nothing
\* behind, even if consent is given again while it winds down.
NothingAfterRevocation ==
    /\ \A j \in revoked \cap Jobs : status[j] # "completed"
    /\ \A d \in revoked \cap Docs : document[d] # "kept"

\* The request that withdrew consent does not return before all it has to stop is
\* over: no task is left, not even one that still closes what it had open, no fetch is
\* under way and the inference semaphore is free.
QuietAfterRevocation ==
    ~ consent /\ setter = "idle" =>
        Live = {} /\ holder = None /\ \A d \in Docs : document[d] # "fetching"

\* A cancellation is never lost, not even to a timeout that races it: the task that a
\* cancel handler or the settings request waits for is marked or closes its stream.
GoingDown(j) == j \in hit \/ stage[j] = "unwinding"
CancelNeverLost ==
    /\ \A j \in cancels \cap Live : GoingDown(j)
    /\ setter = "service" => \A j \in Live : GoingDown(j)

\* The jobs of explanations keep the promises of JobLifecycle.
Lifecycle == INSTANCE JobLifecycle
LifecycleSpec == Lifecycle!Spec
=============================================================================
