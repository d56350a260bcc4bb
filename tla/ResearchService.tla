-------------------------- MODULE ResearchService --------------------------
(***************************************************************************)
(* The asyncio side of research: ResearchService (research.py), the term   *)
(* jobs that share its queue and its inference semaphore (terms.py), and   *)
(* the settings handler that revokes consent and closes it (api.py).       *)
(*                                                                         *)
(* A step of a task is the code between two awaits; no other task runs     *)
(* inside it.  task.cancel() only marks a task: the CancelledError is      *)
(* delivered when the task is next resumed, and a task that has not had    *)
(* its first step is then discarded without running any of its code.       *)
(*                                                                         *)
(* What a run finds out is abstracted to the await it makes next and the   *)
(* way it ends; what it stores is the subject of module Library.  The stop *)
(* events are left out: the task they belong to is always marked at the    *)
(* same time, so they only make a worker thread finish early.              *)
(***************************************************************************)
EXTENDS Integers, Sequences, FiniteSets

CONSTANTS
    Jobs,          \* jobs that may be submitted
    Kinds,         \* the kinds submitted: "research", "term"
    Providers,     \* connections a user can select
    Slots,         \* retrieval slots (2 in the code)
    QueueLimit,    \* tasks that may be registered at once (20 in the code)
    MaxAwaits,     \* bound of the model: retrievals and reviews of one run
    None

ASSUME ServiceAssumption ==
    /\ Kinds \subseteq {"research", "term"}
    /\ Slots \in Nat \ {0} /\ QueueLimit \in Nat \ {0} /\ MaxAwaits \in Nat
    /\ None \notin Jobs /\ IsFiniteSet(Jobs)

VARIABLES
    consent,    \* settings.cloud_enabled
    provider,   \* settings.provider
    setter,     \* the PUT /api/settings that holds settings_lock
    row,        \* research_jobs: status, and the kind and provider of the request
    run,        \* tasks: where each coroutine is suspended
    hit,        \* tasks marked by task.cancel(), the error not delivered yet
    cancels,    \* POST /cancel handlers waiting for their task
    permits,    \* free retrieval slots
    worker,     \* jobs whose retrieval thread is still running
    holder,     \* the task inside the inference semaphore
    events,     \* terminal events of each job in runtime_events
    revoked     \* history: jobs that were active when consent was switched off

settings == <<consent, provider, setter, revoked>>
vars == <<settings, row, run, hit, cancels, permits, worker, holder, events>>

-----------------------------------------------------------------------------

\* "slot", "fetch", "review", "line", "model" and "unwinding" are awaits: for a
\* retrieval slot, a worker thread, a source review, the inference semaphore, the
\* provider's stream, and the closing of that stream.  "ended" is a finished task
\* whose done-callback has not run yet.
Stages == {"none", "ready", "slot", "fetch", "review", "line", "model",
           "unwinding", "ended"}
Statuses == {"none", "queued", "running", "needs_identity", "interrupted",
             "cancelled", "completed", "failed"}
Active == {"queued", "running"}

Row == [status : Statuses, kind : {"research", "term"}, provider : Providers \cup {None}]
NoRow == [status |-> "none", kind |-> "research", provider |-> None]
Run == [stage : Stages, answered : BOOLEAN, awaits : 0..MaxAwaits]
NoRun == [stage |-> "none", answered |-> FALSE, awaits |-> 0]
Setter == [stage : {"idle", "catalog", "imports", "closing", "draining"},
           provider : Providers \cup {None}, consent : BOOLEAN, awaited : SUBSET Jobs]
IdleSetter == [stage |-> "idle", provider |-> None, consent |-> FALSE, awaited |-> {}]

TypeOK ==
    /\ consent \in BOOLEAN /\ provider \in Providers /\ setter \in Setter
    /\ row \in [Jobs -> Row] /\ run \in [Jobs -> Run]
    /\ hit \in SUBSET Jobs /\ cancels \in SUBSET Jobs
    /\ permits \in 0..Slots /\ worker \in SUBSET Jobs
    /\ holder \in Jobs \cup {None}
    /\ events \in [Jobs -> Seq({"run.cancelled", "run.failed", "run.completed"})]
    /\ revoked \in SUBSET Jobs

Init ==
    /\ consent = FALSE /\ provider \in Providers /\ setter = IdleSetter
    /\ row = [j \in Jobs |-> NoRow] /\ run = [j \in Jobs |-> NoRun]
    /\ hit = {} /\ cancels = {}
    /\ permits = Slots /\ worker = {} /\ holder = None
    /\ events = [j \in Jobs |-> <<>>]
    /\ revoked = {}

Stage(j) == run[j].stage
Tasks == {j \in Jobs : Stage(j) # "none"}
Live == {j \in Jobs : Stage(j) \notin {"none", "ended"}}
ActiveJobs == {j \in Jobs : row[j].status \in Active}

-----------------------------------------------------------------------------
(* Admission                                                               *)

\* The part of submit after its last await, and TermService.submit: consent and
\* the selection are read, the job is queued and its task is created.
Submit(j, kind) ==
    /\ row[j].status = "none"
    /\ consent
    /\ Cardinality(Tasks) < QueueLimit
    /\ row' = [row EXCEPT ![j] = [status |-> "queued", kind |-> kind,
                                  provider |-> provider]]
    /\ run' = [run EXCEPT ![j].stage = "ready"]
    /\ UNCHANGED <<settings, hit, cancels, permits, worker, holder, events>>

\* The done-callback of a task.
Reap(j) ==
    /\ Stage(j) = "ended"
    /\ run' = [run EXCEPT ![j] = NoRun]
    /\ UNCHANGED <<settings, row, hit, cancels, permits, worker, holder, events>>

-----------------------------------------------------------------------------
(* The run of a job                                                        *)

\* The transition and the event of an ending, written in one step of the task.
EventOf(s) == CASE s = "cancelled" -> "run.cancelled"
                [] s = "failed" -> "run.failed"
                [] OTHER -> "run.completed"
End(j, s) ==
    /\ row' = [row EXCEPT ![j].status = s]
    /\ events' = [events EXCEPT ![j] = Append(@, EventOf(s))]
    /\ run' = [run EXCEPT ![j].stage = "ended"]

\* The run goes on to its next await, or to an ending without an answer.
Await(j, stage) ==
    /\ run[j].awaits < MaxAwaits
    /\ run' = [run EXCEPT ![j].stage = stage, ![j].awaits = @ + 1]
    /\ UNCHANGED <<row, events>>
AwaitAnswered(j, stage) ==
    /\ run[j].awaits < MaxAwaits
    /\ run' = [run EXCEPT ![j] = [stage |-> stage, answered |-> TRUE, awaits |-> @.awaits + 1]]
    /\ UNCHANGED <<row, events>>
JoinLine(j) ==
    /\ run' = [run EXCEPT ![j].stage = "line"]
    /\ UNCHANGED <<row, events>>
GoOn(j) ==
    \/ \E stage \in {"slot", "review"} : Await(j, stage)
    \/ ~ run[j].answered /\ JoinLine(j)
    \/ run[j].answered /\ End(j, "completed")
    \/ \E s \in {"failed", "needs_identity"} : End(j, s)

\* require_consent follows every await of a research run that succeeds.
GoOnWithConsent_Unchecked(j) == GoOn(j)
GoOnWithConsent(j) ==
    \/ consent /\ GoOn(j)
    \/ ~ consent /\ End(j, "failed")

\* The first step: a research run looks up the identity unless the question is
\* redirected; a term job queues for inference before it counts as running.
FirstStep(j) ==
    /\ Stage(j) = "ready" /\ j \notin hit
    /\ IF row[j].kind = "term" THEN JoinLine(j)
       ELSE \/ ~ consent /\ End(j, "failed")
            \/ consent /\ \E s \in {"completed", "failed"} : End(j, s)
            \/ /\ consent
               /\ row' = [row EXCEPT ![j].status = "running"]
               /\ run' = [run EXCEPT ![j].stage = "slot"]
               /\ UNCHANGED events
    /\ UNCHANGED <<settings, hit, cancels, permits, worker, holder>>

\* retrieve: a permit is taken, consent is read again, a thread is started.
TakeSlot(j) ==
    /\ Stage(j) = "slot" /\ j \notin hit
    /\ permits > 0
    /\ IF consent
       THEN /\ permits' = permits - 1 /\ worker' = worker \cup {j}
            /\ run' = [run EXCEPT ![j].stage = "fetch"]
            /\ UNCHANGED <<row, events>>
       ELSE End(j, "failed") /\ UNCHANGED <<permits, worker>>
    /\ UNCHANGED <<settings, hit, cancels, holder>>

\* The thread ends, whoever still waits for it: only now is its slot free.
WorkerEnds_LeaksSlot(j) ==
    /\ j \in worker
    /\ worker' = worker \ {j}
    /\ UNCHANGED <<settings, row, run, hit, cancels, permits, holder, events>>
WorkerEnds_NeedsCaller(j) ==
    /\ j \in worker /\ Stage(j) = "fetch"
    /\ worker' = worker \ {j} /\ permits' = permits + 1
    /\ UNCHANGED <<settings, row, run, hit, cancels, holder, events>>
WorkerEnds(j) ==
    /\ j \in worker
    /\ worker' = worker \ {j} /\ permits' = permits + 1
    /\ UNCHANGED <<settings, row, run, hit, cancels, holder, events>>

\* A document that is optional and cannot be read is skipped without reading consent
\* again: the run may stand at its next retrieval, which reads it.
Fetched(j) ==
    /\ Stage(j) = "fetch" /\ j \notin worker /\ j \notin hit
    /\ GoOnWithConsent(j) \/ Await(j, "slot")
    /\ UNCHANGED <<settings, hit, cancels, permits, worker, holder>>

\* The review is answered, cancelled by the user, or expires.
Reviewed(j) ==
    /\ Stage(j) = "review" /\ j \notin hit
    /\ GoOnWithConsent(j) \/ End(j, "cancelled") \/ End(j, "failed")
    /\ UNCHANGED <<settings, hit, cancels, permits, worker, holder>>

\* The inference semaphore, shared by research and terms.  Consent is read again
\* inside; a term job begins here.
TakeModel(j) ==
    /\ Stage(j) = "line" /\ j \notin hit
    /\ holder = None
    /\ IF consent
       THEN /\ holder' = j
            /\ run' = [run EXCEPT ![j].stage = "model"]
            /\ row' = [row EXCEPT ![j].status = "running"]
            /\ UNCHANGED events
       ELSE End(j, "failed") /\ UNCHANGED holder
    /\ UNCHANGED <<settings, hit, cancels, permits, worker>>

\* The provider's turn ends.  A term job publishes without looking at consent
\* again; a research run does so before a review and before it publishes, not
\* before it asks for an identity or waits for another retrieval.
Answered(j) ==
    /\ Stage(j) = "model" /\ j \notin hit
    /\ \/ \E s \in IF row[j].kind = "term" THEN {"completed", "failed"}
                    ELSE {"needs_identity", "failed"} : End(j, s)
       \/ row[j].kind = "research" /\ AwaitAnswered(j, "slot")
       \/ row[j].kind = "research" /\ consent
          /\ (AwaitAnswered(j, "review") \/ End(j, "completed"))
    /\ holder' = None
    /\ UNCHANGED <<settings, hit, cancels, permits, worker>>

\* The CancelledError arrives.  The thread of a retrieval keeps its slot; the
\* provider's stream is closed before the semaphore is released.
DropUnstarted(j) ==
    /\ Stage(j) = "ready" /\ j \in hit
    /\ run' = [run EXCEPT ![j].stage = "ended"] /\ hit' = hit \ {j}
    /\ UNCHANGED <<settings, row, cancels, permits, worker, holder, events>>

Deliver_FreesSlot(j) ==
    /\ Stage(j) \in {"slot", "fetch", "review", "line"} /\ j \in hit
    /\ End(j, "cancelled")
    /\ hit' = hit \ {j}
    /\ permits' = IF Stage(j) = "fetch" THEN permits + 1 ELSE permits
    /\ UNCHANGED <<settings, cancels, worker, holder>>
Deliver_Silent(j) ==
    /\ Stage(j) \in {"slot", "fetch", "review", "line"} /\ j \in hit
    /\ run' = [run EXCEPT ![j].stage = "ended"]
    /\ hit' = hit \ {j}
    /\ UNCHANGED <<settings, row, cancels, permits, worker, holder, events>>
Deliver(j) ==
    /\ Stage(j) \in {"slot", "fetch", "review", "line"} /\ j \in hit
    /\ End(j, "cancelled")
    /\ hit' = hit \ {j}
    /\ UNCHANGED <<settings, cancels, permits, worker, holder>>

Unwind_Releases(j) ==
    /\ Stage(j) = "model" /\ j \in hit
    /\ run' = [run EXCEPT ![j].stage = "unwinding"] /\ hit' = hit \ {j}
    /\ holder' = None
    /\ UNCHANGED <<settings, row, cancels, permits, worker, events>>
Unwind(j) ==
    /\ Stage(j) = "model" /\ j \in hit
    /\ run' = [run EXCEPT ![j].stage = "unwinding"] /\ hit' = hit \ {j}
    /\ UNCHANGED <<settings, row, cancels, permits, worker, holder, events>>
Unwound(j) ==
    /\ Stage(j) = "unwinding"
    /\ End(j, "cancelled")
    /\ hit' = hit \ {j} /\ holder' = None
    /\ UNCHANGED <<settings, cancels, permits, worker>>

-----------------------------------------------------------------------------
(* POST /api/jobs/{id}/cancel                                              *)

Cancel(j) ==
    /\ row[j].status # "none" /\ j \notin cancels
    /\ cancels' = cancels \cup {j}
    /\ hit' = hit \cup ({j} \cap Live)
    /\ UNCHANGED <<settings, row, run, permits, worker, holder, events>>

\* The rest of cancel: a job whose task left it active is cancelled here.
CancelReturns_Always(j) ==
    /\ j \in cancels /\ j \notin Live
    /\ cancels' = cancels \ {j}
    /\ row' = [row EXCEPT ![j].status = "cancelled"]
    /\ events' = [events EXCEPT ![j] = Append(@, "run.cancelled")]
    /\ UNCHANGED <<settings, run, hit, permits, worker, holder>>
CancelReturns_NoRepair(j) ==
    /\ j \in cancels /\ j \notin Live
    /\ cancels' = cancels \ {j}
    /\ UNCHANGED <<settings, row, run, hit, permits, worker, holder, events>>
CancelReturns(j) ==
    /\ j \in cancels /\ j \notin Live
    /\ cancels' = cancels \ {j}
    /\ IF row[j].status \in Active
       THEN /\ row' = [row EXCEPT ![j].status = "cancelled"]
            /\ events' = [events EXCEPT ![j] = Append(@, "run.cancelled")]
       ELSE UNCHANGED <<row, events>>
    /\ UNCHANGED <<settings, run, hit, permits, worker, holder>>

-----------------------------------------------------------------------------
(* PUT /api/settings                                                       *)

\* Another provider or model needs an idle queue unless consent goes off with it.
MayChange(p, c) == (p # provider /\ c) => Live = {}

\* The new selection names a model: the catalog of its provider is fetched.
AskCatalog(p, c) ==
    /\ setter.stage = "idle" /\ p # provider /\ MayChange(p, c)
    /\ setter' = [stage |-> "catalog", provider |-> p, consent |-> c, awaited |-> {}]
    /\ UNCHANGED <<consent, provider, revoked, row, run, hit, cancels, permits, worker,
                   holder, events>>

\* The settings are stored after the check is repeated.
Store(p, c) ==
    /\ consent' = c /\ provider' = p
    /\ revoked' = IF c THEN revoked ELSE revoked \cup ActiveJobs
    /\ setter' = IF c THEN IdleSetter ELSE [IdleSetter EXCEPT !.stage = "imports"]
    /\ UNCHANGED <<row, run, hit, cancels, permits, worker, holder, events>>
Save(p, c) ==
    /\ setter.stage = "idle" /\ MayChange(p, c)
    /\ Store(p, c)
SaveChecked_Once ==
    /\ setter.stage = "catalog"
    /\ Store(setter.provider, setter.consent)
SaveChecked ==
    /\ setter.stage = "catalog" /\ MayChange(setter.provider, setter.consent)
    /\ Store(setter.provider, setter.consent)
Refuse ==
    /\ setter.stage = "catalog"
    /\ setter' = IdleSetter
    /\ UNCHANGED <<consent, provider, revoked, row, run, hit, cancels, permits, worker,
                   holder, events>>

\* close(), when imports.close(online_only=True) has returned, or at once when
\* only the private market opt-in was withdrawn.
Close ==
    /\ setter.stage = "imports" \/ (setter.stage = "idle" /\ consent)
    /\ hit' = hit \cup Live
    /\ setter' = [IdleSetter EXCEPT !.stage = "closing", !.awaited = Tasks]
    /\ UNCHANGED <<consent, provider, revoked, row, run, cancels, permits, worker,
                   holder, events>>
TasksGone ==
    /\ setter.stage = "closing" /\ setter.awaited \cap Live = {}
    /\ setter' = [setter EXCEPT !.stage = "draining", !.awaited = worker]
    /\ UNCHANGED <<consent, provider, revoked, row, run, hit, cancels, permits, worker,
                   holder, events>>
Drained_TasksOnly ==
    /\ setter.stage = "draining"
    /\ setter' = IdleSetter
    /\ UNCHANGED <<consent, provider, revoked, row, run, hit, cancels, permits, worker,
                   holder, events>>
Drained ==
    /\ setter.stage = "draining" /\ setter.awaited \cap worker = {}
    /\ setter' = IdleSetter
    /\ UNCHANGED <<consent, provider, revoked, row, run, hit, cancels, permits, worker,
                   holder, events>>

-----------------------------------------------------------------------------
(* A crash of the process and the recovery at the next start.  A crash in  *)
(* the last step of a run can fall between its transition and its event.   *)

Crash(lost) ==
    /\ Tasks \cup worker # {} \/ ActiveJobs # {}
    /\ \A j \in lost : Stage(j) = "ended"
    /\ row' = [j \in Jobs |-> IF row[j].status \in Active
                              THEN [row[j] EXCEPT !.status = "interrupted"] ELSE row[j]]
    /\ events' = [j \in Jobs |-> IF j \in lost THEN <<>> ELSE events[j]]
    /\ run' = [j \in Jobs |-> NoRun]
    /\ hit' = {} /\ cancels' = {} /\ setter' = IdleSetter
    /\ permits' = Slots /\ worker' = {} /\ holder' = None
    /\ UNCHANGED <<consent, provider, revoked>>

RunStep(j) ==
    \/ FirstStep(j) \/ TakeSlot(j) \/ Fetched(j) \/ Reviewed(j) \/ TakeModel(j)
    \/ Answered(j) \/ DropUnstarted(j) \/ Deliver(j) \/ Unwind(j) \/ Unwound(j)

TaskStep(j) == RunStep(j) \/ WorkerEnds(j) \/ Reap(j) \/ CancelReturns(j)

SettingsStep ==
    \/ \E p \in Providers, c \in BOOLEAN : AskCatalog(p, c) \/ Save(p, c)
    \/ SaveChecked \/ Refuse \/ Close \/ TasksGone \/ Drained

Next ==
    \/ \E j \in Jobs, kind \in Kinds : Submit(j, kind)
    \/ \E j \in Jobs : TaskStep(j) \/ Cancel(j)
    \/ SettingsStep
    \/ \E lost \in {{}} \cup {{j} : j \in Jobs} : Crash(lost)

Spec == Init /\ [][Next]_vars

-----------------------------------------------------------------------------
(* Fairness.  The event loop resumes every task and handler that can go    *)
(* on, and the things they wait for end: fetches and provider turns have   *)
(* timeouts (asyncio.timeout in the runtimes), reviews a deadline.         *)

SettingsFairness ==
    /\ WF_vars(SaveChecked \/ Refuse)
    /\ WF_vars(Close /\ setter.stage = "imports")
    /\ WF_vars(TasksGone)
    /\ WF_vars(Drained)

TaskFairness ==
    \A j \in Jobs : /\ WF_vars(RunStep(j)) /\ WF_vars(WorkerEnds(j))
                    /\ WF_vars(Reap(j)) /\ WF_vars(CancelReturns(j))

FairSpec == Spec /\ TaskFairness /\ SettingsFairness

-----------------------------------------------------------------------------
(* Properties                                                              *)

\* "Cancelling a coroutine alone cannot create a third concurrent request": every
\* slot is free or owned by a thread that is still running, whether or not its
\* caller was cancelled, so no more than Slots fetches run at once.
SlotsOwned == permits + Cardinality(worker) = Slots

\* One provider turn at a time between research and terms, the closing of a
\* cancelled turn included: the semaphore is held exactly for the task that has an
\* open stream.
OneTurn == {j \in Jobs : Stage(j) \in {"model", "unwinding"}} = {holder} \ {None}

\* A job gets at most one terminal event and it says what the row says; a task
\* that finished after its row left queued and running has emitted it.  Repeated
\* cancels, a revocation and a crash in the last step of the run do not change that.
OneEnding ==
    \A j \in Jobs :
        /\ events[j] \in {<<>>, <<EventOf(row[j].status)>>}
        /\ events[j] # <<>> => row[j].status \notin Active \cup {"none", "interrupted"}
        /\ Stage(j) = "ended" /\ row[j].status \notin Active => events[j] # <<>>

\* A job that is shown as running has a task that is past its first step and will
\* still end it: no path leaves a started run without an owner.
RunningOwned ==
    \A j \in Jobs : row[j].status = "running" =>
        Stage(j) \in {"slot", "fetch", "review", "line", "model", "unwinding"}

\* Research that was active when consent was switched off never publishes, even if
\* consent is switched on again while it winds down: the settings lock is held
\* until every task of that time has ended.
RevokedNeverPublishes ==
    \A j \in revoked : row[j].kind = "research" => row[j].status # "completed"

\* While cloud work is allowed, every live run uses the provider that is selected
\* now, although a change of the selection awaits a catalog between its checks.
ProviderStable == consent => \A j \in Live : row[j].provider = provider

\* When the request that switched consent off returns, nothing it could have been
\* waiting for is left: no live task, no provider turn, no retrieval thread.
CloseDrains ==
    [][setter.stage = "draining" /\ setter'.stage = "idle" /\ ~ consent
       => Live' = {} /\ worker' = {} /\ holder' = None]_vars

\* Once that request has returned and until consent is given again, the service is
\* quiet: no task is live, no thread retrieves and nobody is inside the semaphore.
QuietWithoutConsent ==
    ~ consent /\ setter.stage = "idle" => Live = {} /\ worker = {} /\ holder = None

\* A cancellation is never lost: the task that a cancel handler or close() waits for
\* is still marked, or already closes its stream, so what they wait for is coming.
GoingDown(j) == j \in hit \/ Stage(j) = "unwinding"
CancelNeverLost ==
    /\ \A j \in cancels \cap Live : GoingDown(j)
    /\ setter.stage = "closing" => \A j \in setter.awaited \cap Live : GoingDown(j)

\* Nobody waits for something that cannot come: a live task can be resumed, or it
\* waits for a slot or an answer that a running thread will give, or for the
\* semaphore that a task which can be resumed will release.
CanStep(j) ==
    \/ GoingDown(j) \/ Stage(j) \in {"ready", "review", "model"}
    \/ Stage(j) = "slot" /\ permits > 0
    \/ Stage(j) = "fetch" /\ j \notin worker
    \/ Stage(j) = "line" /\ holder = None
NobodyStranded ==
    \A j \in Live :
        \/ CanStep(j)
        \/ Stage(j) = "slot" /\ worker # {}
        \/ Stage(j) = "fetch" /\ j \in worker
        \/ Stage(j) = "line" /\ holder \in Live \ {j} /\ CanStep(holder)

\* The job table of the service keeps the promises of JobLifecycle.
Lifecycle == INSTANCE JobLifecycle WITH status <- [j \in Jobs |-> row[j].status]
LifecycleSpec == Lifecycle!Spec

\* Every task ends and is forgotten, every cancel request ends its job, and a
\* settings request that closes the service returns.
TasksEnd == \A j \in Jobs : Stage(j) # "none" ~> Stage(j) = "none"
CancelsEnd == \A j \in Jobs : j \in cancels ~> row[j].status \notin Active
SettingsReturn == setter.stage # "idle" ~> setter.stage = "idle"

\* "Consent revocation ... must ... publish no candidate answer": no work that was
\* active when consent was switched off completes.  Term jobs break it.
NoAnswerAfterRevocation == \A j \in revoked : row[j].status # "completed"

\* "Generation is gated by global cloud consent, which can cancel active work when
\* revoked": once the request that revoked it has returned, no job is shown as
\* queued or running.  A task cancelled before its first step breaks it.
RevokedWorkEnds ==
    ~ consent /\ setter.stage = "idle" => ActiveJobs = {}
=============================================================================
