# Verification of Learn the Ticker

TLA+ models of the desktop application under `backend/app`: a FastAPI service with
one asyncio event loop, worker threads for blocking I/O, a private PostgreSQL library
and a coding-agent runtime that answers questions. Every definition is translated from
the Python source; `PROJECT.json` gives the lines of each.

| Module | What it is |
| --- | --- |
| `Library` | the database: one action per transaction |
| `ResearchService` | the event loop: one action per stretch of code between two awaits |
| `SourceReviews` | manual review of sources: the broker and the scope a run remembers |
| `CodexTurn` | one turn of the coding agent and the broker of its access requests |
| `Reviews` | `SourceReviews` and `CodexTurn` composed with cancel and the settings handler |
| `SignIn` | device sign-in, its monitor, and the shutdown that closes it |
| `Explanations` | retained documents and their explanation jobs |
| `EventStream` | `Explanations` composed with the event socket and the window that watches a job |
| `LibraryLocks` | the transactions on a conversation, statement by statement with their locks |
| `Transactions` | the same transactions as atomic steps; implemented by `LibraryLocks` |
| `JobLifecycle` | what the job table promises its readers; implemented by `Library`, `ResearchService` and `Explanations` |
| `MCLibrary`, `MCResearchService` | instances for TLC (symmetry sets) |
| `LibraryProofs` | type correctness of `Library`, proved |
| `LibraryIntegrity` | references always resolve and kept versions never change, proved |
| `LibraryPublication` | publication, scopes, checkpoints, terms and held evidence, and that `Library` implements `JobLifecycle`, proved |
| `ResearchServiceProofs` | the invariants of `ResearchService`, its closing, its cancellations and waits, and its lifecycle, proved |
| `SignInProofs` | process ownership, cancellation and waits of `SignIn`, proved |
| `ReviewsProofs` | the safety properties of `Reviews`, proved |
| `ExplanationsProofs` | the safety properties and the lifecycle of `EventStream`, proved |
| `LibraryLocksProofs` | atomicity, progress and freedom from deadlock of `LibraryLocks`, proved |

## 1. Inventory

### Components, their state and operations

**Private library** (`db.py`, `identity.py`). Three tables. `records` holds immutable
evidence bundles, one page per asset (`asset:<id>`), conversations, saved items, reports,
comparisons and term explanations. `research_jobs` holds requests and their status.
`runtime_events` holds what a run emitted. Operations: `create_conversation`,
`update_conversation`, `queue_research`, `transition`, `checkpoint_research`,
`complete_research`, `queue_term`, `complete_term`, `create_saved`, `create_report`,
`create_comparison`, `expire_conversations`, `recover`. Synchronous route handlers call
them from a thread pool, runs call them from the event loop, so transactions interleave.
*Correct when* every reference resolves, publication is all or nothing, a follow-up
answers the scope it was asked in, and a page never changes what instrument it describes.

**Cache maintenance** (`library_cache.py`). Stateless: reads the three tables, builds a
graph, protects what the roots lead to and deletes whole components of the rest. Defers
while any job is active; raises when a reference has no target. *Correct when* nothing
kept loses what it cites, and no order of operations makes it raise.

**Deletion** (`library_deletion.py`). Removes a conversation with its jobs and their
events, a term with its jobs, a saved item by itself; refuses while a job is active.

**Evidence reuse** (`evidence_reuse.py`). Which saved versions a run may quote, and so
which originals a new version names. *Correct when* those are still stored at publication.

**Research service** (`research.py`). In memory: `tasks`, `stop_events`,
`retrieval_workers`, the semaphores `retrieval` (2) and `inference` (1), and the consent
and selection it reads from the library. Operations: `submit`, `run`, `retrieve`,
`cancel`, `close`. *Correct when* slots are neither lost nor freed early, one provider
turn is open at a time, a job ends once, and revoked work publishes nothing.

**Term explanations** (`terms.py`). Share the task table and the inference semaphore
of research; `pending` remembers in memory which job's task explains which version.
*Correct when* a term is explained once per version.

**Settings and consent** (`api.py`, `PUT /api/settings`). Holds `settings_lock` over a
catalog fetch, the store, `imports.close` and `service.close`. *Correct when* live work
always uses the selected provider and nothing of the revoked time survives the request.

**Source review broker** (`source_review.py`). `pending`: a future per run with a
deadline, at most 20. Each run has a `SourceReviewScope`: whether review was on, what was
put to the user, what was accepted under which rule. Operations: `select`, `allowed`,
`review`, `resolve`, `cancel`. *Correct when* nothing is stored that the user had to choose and did
not, and a given answer counts while a late one does not.

**Access approvals** (`approvals.py`, `codex_approvals.py`). One pending decision, and per
turn the declared items, requests and permission outputs. *Correct when* an answer is used
only if everything the agent asked for was denied by the user in time.

**Codex runtime** (`codex_rpc.py`, `codex_runtime.py`, ...). The stream of one turn: it
reads events until the turn completes, fails, times out or is cancelled, and closes its
process on every way out. Transport, catalog, qualification and usage come before it.

**Codex sign-in** (`codex_login.py`). `state`, `lock`, one monitor `task` and its process.
Operations: `start`, `monitor`, `cancel`, `close`. *Correct when* a process has an owner
that will close it, a code that is shown is watched, and a cancel leaves nothing behind.

**Imports and retained documents** (`import_*.py`, `retained_imports.py`). The running
previews and fetches (`active`), `learning.pending` by key, the shared task table, the inference semaphore, and the
records of documents and explanations. Operations: retain a file, fetch a link, `submit`,
`run`, `cancel`, `close`, `delete_retained_item`. *Correct when* nothing outlives its
document, an explanation is written once, and revoked work leaves nothing.

**Event delivery** (`api.py` `/api/events`, `researchObservation.ts`). A socket handler
that reads events, sends them and reads the status; an observer that polls the job.
*Correct when* no socket stays open for ever and the window learns the end of a job.

**Backup and restore** (`backup*.py`). An archive, a validator, and a restore of all rows
into a library that must be empty. *Correct when* it never mixes with existing work.

**Process lifecycle** (`lifecycle.py`, `owned_process.py`, ...): PostgreSQL, the instance
lock, and the order of the shutdown. **Adapters, evidence validation, comparisons, weekly
dates**: functions over document contents. **Earlier web application** (`backend/main.py`,
...): archived.

### How they interact

- Handlers and runs call the library; it calls nobody. One `ThreadPool` thread or the
  event loop is inside one transaction.
- `submit` creates a task; its done-callback removes it from the table.
- `cancel` and `close` mark tasks; the error is delivered at the task's next resumption.
- `retrieve` starts a thread that outlives a cancelled caller and owns the slot.
- `save_settings` writes the settings row that every run reads again after its awaits; it
  then closes imports, and `close` withdraws both reviews before it cancels the tasks.
- A run asks the source broker, and the agent's turn inside it asks the access broker;
  routes answer both, timers expire them.
- Sign-in and research routes read each other's state before they await.
- The socket and the observer only read: events, the row of the job, a saved explanation.
- A restart loses all memory state; `recover` sees only the tables.

### What is hard here

State read before an await and used after it; cancellation before the first step, in a
queue and during clean-up; consent withdrawn between two awaits of the handler that
withdraws it; transactions of threads between the transactions of a run; long sequences of
publication, expiry, deletion and eviction; a crash between a row and its event. Every
such place is a row of `hazards` in `PROJECT.json`, at its line, with the properties that
would catch it going wrong. Two have none: what an error of the database does to the
periodic maintenance task (`api.py:64`) lies outside the models, and closings that an
aborted shutdown skips (`api.py:85`) end with the process, as in a crash.

## 2. How the models correspond to the code

### Library

| Variable | Code |
| --- | --- |
| `bundle` | records of kind `bundle`: asset id, identity attributes, the completion label, the versions named by `context_references` |
| `page` | records `asset:<id>`: the version the page shows |
| `conv` | conversations: scope, page version, versions in messages, bookmark; `idle` is "last activity older than the retention period" |
| `item` | saved bookmarks, reports and comparisons: the versions they cite |
| `terms` | versions with a term explanation (one term per version) |
| `job` | `research_jobs`; `previous` is the saved scope in the memory of the run |
| `noted` | `evidence.registered` events: a job and a version |
| `asked` | memory of a `submit` that has read a page and awaits the identity lookup |
| `pending` | `TermService.pending`: the job whose task explains a version, until the done-callback |

An action is a transaction, which the advisory and row locks of `db.py` make atomic.
Documents are reduced to the references they hold, since that is all that deletion,
eviction and the validator can tell apart. What a run finds is any asset, identity and set
of originals that the checks of `research.py` admit. `Evict` takes any union of whole
components of what is free: which of them go (age, size, budget) is left open, so every
policy is covered. `uid()` never repeats; in the model an id may be drawn again once its
row is gone and no task is remembered for it (`Unused`), which cannot be told apart while
`RefsResolve` holds. `TermService.submit` recognises a duplicate by the saved explanation and by
`pending`, never by the rows. Its done-callback (`TermTaskOver`) may come when the job no longer
runs, or while the row is still `queued`: `close()` discards a task before its first step. Such
a row is never started or failed (`HasTask`), only cancelled or recovered, and another job of the
same version may be admitted beside it. `refresh_terms`, after a
publication, has no await that suspends and belongs to the same step. Conversations of
older versions that have no `context_bundle_id` are not modelled.

### ResearchService

`run[j].stage` is the await a coroutine is suspended at: for a slot, a thread, a
review, the inference semaphore, the provider's stream or the closing of that stream.
Each action is the code from one await to the next. `hit` is `task.cancel()` before
delivery. A `ready` task that is hit is discarded without running any of its code, as
asyncio does with a coroutine that never started. Abstractions:

- the semaphores wake any waiter, where asyncio wakes the first: more behaviours;
- an await of a free semaphore is a step of its own: more interleavings;
- the stop events are left out, as their task is always marked at the same time;
- the identity lookup of `submit` and imports also take retrieval slots. They
  would be further tasks with the stages "slot" and "fetch" only;
- a graceful shutdown is `close` followed by the end of the process, a `Crash` with
  nothing left to lose;
- `revoked` is a history variable: it is written by `Store` and read by properties only.

### SourceReviews, CodexTurn and Reviews

| Variable | Code |
| --- | --- |
| `scope[r]` | the `SourceReviewScope` of run r: `enabled`, `accepted`, `considered`, `private_urls`, `context_urls` |
| `review[r]` | its entry in `SourceReviewBroker.pending`: the future, its deadline, what was asked |
| `held`, `stored` | addresses whose content the run has, and those it has stored evidence from |
| `turn`, `item`, `requested` | the stream of `CodexRuntime` with `PendingTools.items`, `permission_outputs` and `CodexApprovals.items` |
| `access` | the one entry of `ApprovalBroker.pending` |
| `setter` | where the settings handler is: before `imports.close`, or inside `service.close`, with the tasks (`awaited`) that its `gather` waits for |
| `chosen`, `denied` | history: what the user selected, and what the user denied in time |

A rule is the registry it comes from, since the code compares rules for equality only and
an address cannot change registry while the application runs. In which order a run selects,
retrieves, stores and asks its agent is left open (the research prompt decides it); what
each of these steps checks is not. Everything that the handlers of the agent's events refuse
is one action, `Break`, because each refusal ends the turn the same way. `resolve` refuses an
answer from the deadline on, and a run that was answered before it is resumed before the
timer fires, as the ready queue is served first. Reviews of other runs only matter for the limit of the
queue; `Select` chooses how many there are. `ResearchService` has the same runs with the
brokers as one stage, "review", that ends in any way: it keeps slots, rows and events,
which `Reviews` leaves out.

### SignIn

`at[h]` is the await a handler is suspended at, `monitor` the task with its process and its
outcome, `hit` a `task.cancel()` that has not been delivered. What the provider answers is
abstracted to how the opening and the watching end; all its requests have deadlines. A
process is named after the handler that launched it, so a handler is used again only with a
new process. `Shutdown` is what uvicorn does after the grace period of `entrypoint.py`:
handlers still running are cancelled and the lifespan's clean-up begins. `jobs` has
only what the routes test: a task is live, or its `submit` awaits.

### Explanations and EventStream

`document` is a retained record together with the fetch that precedes it; `saved` the keys
(document, language, level) with an explanation; `status`, `key` and `events` the rows of a
job; `stage` its await. Explanations share the task table and the inference semaphore with
research and terms, which `ResearchService` has: here they can only be refused or delayed
by each other. The parser, a worker process, is an await. Its deadline may pass at any
time (`Expires`). In `EventStream` a socket is open or closed with a number of
events read and not yet sent, `after` is the sequence number it has reached, and `reply`
follows the one GET the observer has under way. Answers are lost by `ReplyLost`,
connections by `Drop`, and both by `ServerDies`.

### LibraryLocks and Transactions

`Statements` gives each transaction as the sequence of locks its SQL statements wait for,
at READ COMMITTED: the advisory gate, ordinary or exclusive use of a table, a row, and the
key-share lock of the foreign key. A statement sees what is committed when it gets its
lock; what it finds may make the transaction give up (`GivesUp`); effects appear at
commit. One conversation stands for the library: transactions on different conversations
share only gate and tables. Simplifications: deletion takes the rows of the jobs in one
fixed order; `update_conversation`, which locks one row and nothing after it, is
left out, as are artifacts, which no row lock protects; the eviction of items outside
conversations only reads here. The gate queues shared requests behind an exclusive one that
waits, as PostgreSQL does; its deadlock detection is `Abort`.

### JobLifecycle

The status of each job alone: admitted once, begun once, ended once, never replayed, only
removed when ended. `Library` and `ResearchService` implement it with the refinement
mapping `status <- job[j].status` and `row[j].status`, checked as the property
`LifecycleSpec` in both; for `Explanations`, where the variable has the same name, the
refinement is proved. `NeverReplayed` is what a reader may conclude from a status it has
seen; it is proved of all three through the refinement.

## 3. What the runs show

| Run | Question | Distinct states |
| --- | --- | --- |
| `LibraryConversations` | Do research and follow-ups stay consistent against scope edits, deletion, expiry, eviction and restarts? | 244 509 |
| `LibraryCache` | Do references resolve, do saved items, checkpoints and terms survive eviction whole and unchanged, and are terms explained once? | 231 735 |
| `ServiceTasks` | Are slots, the semaphore, endings and consent right at every await? | 965 642 |
| `ServiceLiveness` | Does every task, cancel and settings request end? | 143 298 |
| `Reviews` | Does what the user chose, and denied, count against deadlines, toggles, cancels and a provider that asks for anything, and is all quiet once consent is withdrawn? | 249 430 |
| `SignIn` | Has every sign-in process an owner, is no cancel lost and does it settle, and does everything end? | 12 288 |
| `Explanations` | Do explanations keep to their documents, and does a window learn how they end, and only then stop? | 161 793 |
| `LibraryLocks` | Are the transactions that `Library` takes as steps atomic, does maintenance see one state, and can they deadlock? | 174 106 |
| `LibraryIdentity` | May a page change the instrument it describes? (it may: finding 1) | violation |
| `ServiceOrphan` | Is revoked work gone when the request returns? (no: finding 2) | violation |
| `ServiceRevocation` | Does revoked work never complete? (terms may: finding 3) | violation |
| `SignInExclusion` | Do sign-in and research exclude each other? (no: finding 4) | violation |

Properties of `Library`: `RefsResolve` (no dangling reference in any table),
`ScopeFrozen` (an answer in flight keeps the scope of its question), `ScopesAgree`
(pages and conversations show versions of their own asset, pages complete ones),
`AnswersPublished` (the answers of a conversation are the results of its completed
follow-ups), `CheckpointsLabelled` (a section checkpoint never passes for an answer),
`TermsExplainedOnce` (while a job explains a version no other does or has; rows left without
a task may stand beside, so that two *active* rows of one version are possible),
`HeldEvidenceStays` (what a run has read is there when it
publishes), `SavedWorkStable` (a version that an item, a term explanation or a
conversation leads to is never rewritten or removed), `LifecycleSpec`.

Properties of `ResearchService`: `SlotsOwned` (a slot is free or owned by a live
thread), `OneTurn`, `OneEnding` (one terminal event, agreeing with the row),
`RunningOwned` (a running row has a task that will end it), `RevokedNeverPublishes`
(research active at the revocation never completes, even if consent comes back),
`ProviderStable`, `CloseDrains` (what is over when the settings request returns),
`LifecycleSpec`, and under fairness `TasksEnd`, `CancelsEnd`, `SettingsReturn`.

Properties of `Reviews`: `StoredReviewed` (a run that has put sources to its user stores
only what was selected, also after the setting is off again), `AnswersCount` (an accepted
answer decides how the run goes on, and nothing else does), `DeniedOnly` (an answer is
used only if all the agent declared or asked for was denied in time),
`QuietAfterRevocation` (when a withdrawal of consent has returned, no run, question or
process of the agent is left), and under fairness `ReviewsEnd`.

Properties of `SignIn`: `OneOwnedProcess`, `PendingWatched` (a code that is shown is
watched by a live monitor), `JoinedGoesDown` (the monitor a cancel waits for is marked or
winding down, so nobody waits for the lifetime of the code), `CancelSettles` (a cancel or the shutdown goes on only when
nothing is pending and no process is left), and under fairness `SignInEnds`.

Properties of `EventStream`: `NothingOutlivesDocument`, `OneWriter` (one task per
explanation, none for a saved one), `NothingAfterRevocation`, `FinishedIsOver` (a window
stops watching only a job that has ended or is gone, whatever was lost), and under fairness
`EverythingEnds` (tasks, submissions, sockets) and `ObserverLearns` (a window learns the
end of its job whichever messages are lost).

Properties of `LibraryLocks`: `AtomicSpec` (it implements `Transactions`),
`MaintenanceSeesOneState` (nothing is committed between the first read of maintenance and
its end, though it reads three tables at READ COMMITTED) and `OnlyRestoreDeadlocks` (a
circle of waiting transactions contains a restore, which takes whole tables one after
another).

The type invariants of `Library`, `SignIn`, `Reviews` and `EventStream` are proved
(section 4) and not repeated by the runs; `ServiceTasks` checks that of `ResearchService`.
Other safety properties that the modules state and that follow the same invariants are
proved without a run of their own: `QuestionsAwaited`, `QuietAfterRevocation` of
`Explanations`, `QuietWithoutConsent`, `CancelNeverLost`, `NobodyStranded`,
`SomeoneGoesOn`, `ReferencesHold` and `NeverReplayed`. TLC found each of them to hold on the
instances of the runs before it was proved.

Each has a mutant in `PROJECT.json`: a plausible bug in a mapped definition with which
TLC finds it violated under the same bounds, so none of them holds by construction.

### Bounds, and why they are enough

- `LibraryConversations`: two assets (a scope can change to another asset), two versions
  (an old and a new one), one conversation, two jobs (a follow-up against a refresh or
  against another follow-up of the same conversation).
- `LibraryCache`: three versions of one asset (a chain of originals with a middle that
  nothing else keeps), one saved item, two jobs: a research and a term job, or, once the
  first is gone, a term job whose task was discarded and the one that replaces it.
- `LibraryIdentity`: two identities for one asset id.
- `ServiceTasks`: one slot and two jobs (one waits for the other's), two providers,
  at most `MaxAwaits = 2` retrievals and reviews after the first of a run, so that it
  can retrieve or be reviewed both before and after its answer. `QueueLimit = 2` never
  refuses two jobs; the limit itself is a guard with no interleaving of its own.
- `ServiceLiveness`: one provider, research jobs only, `MaxAwaits = 1`, no symmetry.

- `Reviews`: one run, one address in each registry, one tool, one permission request,
  `AskLimit = 1`, `PendingLimit = 1`. Runs meet only in the limit of the queue (the number
  of other reviews is chosen freely), in the settings, and in the one turn the inference
  semaphore admits. The proofs cover every other number.
- `SignIn`: two starts and two cancels (another of either kind waits for the lock that one
  holds), the shutdown, one research job.
- `SignInExclusion`: one start, one cancel, one job.
- `Explanations`: two jobs for one key (they compete for `pending` and the semaphore), a
  document whose deletion and fetch race with both, a queue of two, and the window on
  one of them. Events are bounded by the life of a job.
- `LibraryLocks`: two jobs, the event loop and two threads, so that a deletion, a restore
  and an answer, or two deletions and an answer, can meet.

In `Library` and `LibraryLocks` repetition is not bounded: rows are removed and ids drawn
again, so sequences of any length are explored. In the other modules a job or document is
used once, as its id is in the code, while handlers, settings and turns repeat.

### Fairness

`FairSpec` assumes that the event loop resumes each task and handler that can go on
(asyncio's ready queue is first-in first-out), and that what they await ends: a
fetch and a provider turn run under timeouts (`asyncio.timeout` in the runtimes), a
review has a deadline. It does not assume that users submit, cancel or change settings, nor
that a crash happens or does not. Weak fairness of `RunStep(j)` suffices because a job
waiting for a slot or the semaphore with `Slots = 1` and two jobs is not starved: the
number of jobs is finite and an ended job does not come back. That argument is about the
model's finite supply of jobs; with an endless supply it rests on the first-in
first-out order of asyncio's semaphores, which is not modelled.

The other fair specifications assume the same of the event loop, and of their own:

- `Reviews`: both reviews have deadlines (120 s and 60 s) and so has the turn; that the user
  answers is not assumed.
- `SignIn`: every request to the provider has a deadline and the sign-in a lifetime
  of 600 s; the asyncio lock is handed over first-in first-out, hence strong fairness of
  taking it; the shutdown has a grace period of 15 s. That the provider reports an end,
  or that anybody cancels, is not assumed.
- `EventStream`: parsers and providers answer or time out, timers of the window fire.
  Strong fairness of `Arrives /\ shown' = "finished"` says that a poll that is repeated for
  ever is answered once; without it every answer could be lost. Nothing is assumed of the
  socket's messages beyond that a send ends.

### Findings

1. `LibraryIdentity`: a search without an asset id reads no saved scope, so it may
   publish a page whose identity attributes differ from the saved page's.
   `ContextMatchesPage` then fails for conversations on the earlier version.
2. `ServiceOrphan`: `close()` discards a task that has not had its first step and does
   not repair its row, which stays `queued` after the settings request returned. `cancel()`
   does repair it. If it was a term job, another job of the same explanation can then be
   admitted beside the row, since duplicates are recognised in memory only, and the
   explanation cannot be deleted until the row is cancelled or recovered; still
   only one of them runs (`TermsExplainedOnce`).
3. `ServiceRevocation`: a term job publishes without reading consent again, in the
   window in which the handler closes the imports.
4. `SignInExclusion`: the sign-in route checks that no research is live and then awaits
   the provider before its status is pending; the research route checks that status before
   its own await. Each can pass the other's check.

`PROJECT.json` quotes the documents that say otherwise.

## 4. What is proved

Checked by TLAPS for every value of the constants that satisfies the named
assumptions `NoneAssumption` (an absent reference is no identifier) and
`KindsAssumption` of `Library`:

- `TypeCorrect`: `Spec => []TypeOK`, action by action (`LibraryProofs`).
- `ReferencesResolve`: `Spec => []RefsResolve` (`LibraryIntegrity`). `RefsResolve` is
  not inductive: a version without a row could name originals that are later evicted, and
  a finished or term job could hold a saved scope or a conversation that nothing protects.
  The inductive invariant `Integrity` adds `BlankRowsHoldNothing` and
  `JobRowsMatchKind`. The heart of it is `EvictResolves`: what the roots lead to is
  closed under originals (`ReachClosed`), so a kept version is protected and its
  originals are too, or it is free and its component goes as a whole.
- `AnswersKeepTheirScope`, `ScopesMatch`, `CheckpointsNeverPass`,
  `PublicationIsAtomic`, `OneExplanation`, `EvidenceIsHeld` (`LibraryPublication`): the
  safety properties of the `Library` runs. Their invariant `Publication` needs them
  together: an answer is published once because the job was running, its scope is the one
  asked for because a conversation with work in flight is neither edited nor removed, and
  what it read is still stored because cache maintenance defers or finds it noted.
  `OneExplanation` does not follow from the job rows: `TermTasks` says that a running term
  job is the one `pending` remembers for its version, and that what is remembered with work
  ahead has no saved explanation; with `TermResults` (a completed job's explanation is its
  own) and `JobRefs` (and is saved) two jobs cannot both explain.
- `ImplementsLifecycle` (`LibraryPublication`): `Spec => LifecycleSpec`, a step simulation,
  and from it `StatusesFinal`.
- `SavedWorkIsStable` (`LibraryIntegrity`), an action property. Most transactions write no
  version at all (`VersionWrites` lists which do, and that they write a fresh or unreferenced
  row); for eviction, what kept documents lead to is part of what the roots lead to
  (`KeptProtected`, by `ReachWithin`), and `Integrity` says that all of it is stored.

Of `ResearchService`, under `ServiceAssumption` (a finite set of jobs, at least one slot,
any `QueueLimit`, any `MaxAwaits`), all in `ResearchServiceProofs`:

- `ServiceTypeCorrect`, `SlotsAreOwned`, `TurnsAreSerial`, `EndsOnce`,
  `RunningHasOwner`, `RevocationHolds`, `SelectionHolds`, the action property
  `CloseHolds`, and `ServiceImplementsLifecycle`.
- The inductive invariant has two halves. `TaskInv` ties the row of a job to the await
  its task is suspended at (`RowsMatchTasks`) and says which tasks a thread may outlive
  (`WorkersOutlive`): without them a late thread or a cancel before the first step could
  end a job twice. `ConsentInv` says what `close` still has to do: without consent
  nothing is live, except while the request holds the settings lock and waits for exactly
  those tasks (`RevokedIsQuiet`, `DrainsAll`). That is why a consent given later cannot
  revive revoked work (`RevokedOff`), and why a selection may change while it is off.
- `ServiceIsQuiet` (no task, thread or provider turn without consent, once the request has
  returned): `QuietInv` adds that the threads still running are those the request awaits.
- `CancelsArrive`: the task that a cancel handler or `close` waits for is marked, or already
  closes its stream (`CancelNeverLost`). It needs `AwaitedBefore`: who waits, waits for a
  job that was admitted, so a task admitted later is never taken for the awaited one.
- `NobodyWaitsForever`: a live task can be resumed, or waits for a slot or answer of a
  running thread, or for the semaphore, whose holder can be resumed. `CanStep` spells out
  when a task can be resumed, because `ENABLED` is out of the prover's reach; TLC confirmed
  `CanStep(j) <=> ENABLED RunStep(j)` on the instance of `ServiceTasks`, and likewise
  for the `CanGoOn` of `SignIn`.
- `ServiceStatusesFinal`, from the refinement.
- One lemma, `RunOutcome`, reduces the ten actions of a run to three shapes: it ends, it is
  suspended again, or it was discarded before it began. The other lemmas use only that.

Of `LibraryLocks`, under `LocksAssumption` (finitely many jobs, none named like a table),
for any number of jobs and threads, in `LibraryLocksProofs`:

- `LocksTypeCorrect`, `TransactionsAreAtomic` (`Spec => AtomicSpec`, the refinement) and
  `NoOrdinaryDeadlock`.
- The inductive invariant has three parts: who may run what (`Proper`), what a transaction
  has read and still holds for it (`Grounds`), and that no two transactions hold locks
  that exclude each other (`Apart`). `Grounds` survives the commits of others because each
  row a commit writes is one whose lock it holds, which `Apart` keeps away from the reader.
  Atomicity is then `Grounds` at the last statement.
- The argument about deadlock goes along the plans: nobody in a circle without
  a restore waits for a table; a deletion that has come to the rows of jobs has found no
  active one, and so waits for nobody; so nobody waits for the conversation, nor for the
  row of a job; so all wait for the gate, which none of them holds.
- `NoStandstill` is its counterpart for progress: without a restore some open transaction can
  always go on.
- `MaintenanceReadsOneState`: a commit that changes data holds the gate in shared mode
  (`DataStep`), which `Apart` excludes while maintenance holds it exclusively.
- `ReferencesAlwaysHold`: proved of the atomic transactions (`AtomicReferences`) and carried
  to the interleaved ones through the refinement step, so its proof never looks at a lock.

Of `SignIn`, under `SignInAssumption`, for any number of handlers, in `SignInProofs`:
`TypeCorrect`, `ProcessOwned`, `CodeWatched`, `CancelsSettle`. The invariant says that the
holder of the lock is exactly the handler that is past it (`LockInv`), that a process is opened
only when no monitor is alive (`OpenInv`), and that its creator still holds the
lock while a monitor has not had its first step (`CreatedInv`), so nobody can cancel it
before it owns its process. `JoinIsShort` (`JoinedGoesDown`) and `NoCircleOfWaits`
(`SomeoneGoesOn`) add which handlers can be where (`RoleInv`): the holder of the lock waits
at most for the monitor, which is alive, and the monitor waits for nobody.

Of `Reviews`, under `ReviewAssumption` and `TurnAssumption`, for any runs, registries,
tools and limits, in `ReviewsProofs`: `ReviewsTypeCorrect`, `StoresOnlyReviewed`,
`AnswersDecide`, `AnswersAreDenials`. `ReviewInv` adds that a scope accepts only what its
user selected and remembers the setting with the first question, and that a choice came
before the deadline; `TurnInv` that every request is denied except the one that waits, and
that no item gets further than its request. `QuestionsAreAwaited` needs `AwaitInv`, that at
most one run has the turn and that the sets it counts are finite; `RevocationIsQuiet` needs
`QuietInv`, that the runs left without consent are those the settings request awaits.

Of `EventStream`, under `ExplanationsAssumption` and `WatchedAssumption`, in
`ExplanationsProofs`: `StreamTypes`, `DocumentsOwnExplanations`, `OneTaskPerKey`,
`RevokedLeavesNothing`, `ExplanationLifecycle` with `ExplanationStatusesFinal`,
`OneInsideSemaphore`, `RevocationLeavesQuiet`, `ExplanationCancelsArrive` and
`WatchingEndsRightly`. The invariant ties the row of a job to the
stage of its task (`RowInv`), a live task to its entry in `pending` (`PendInv`), and revoked
work to the settings request that is still waiting for it (`RevInv`). The semaphore is
held by the one task between its entry and its last clean-up (`SemaphoreOwned`), also when a
timeout meets a cancel there. That a window is right when it stops (`FinishedInv`) rests on
`Over`: a job whose row has ended or is gone, once admitted, cannot become active again, so a
reply that is old when it arrives is still true.

The strengthenings were checked by TLC on the instances of the runs before they were
proved.

Only model-checked: the liveness properties `TasksEnd`, `CancelsEnd`, `SettingsReturn`,
`ReviewsEnd`, `SignInEnds`, `EverythingEnds` and `ObserverLearns` (liveness under fairness
is out of the prover's reach), the agreement of `CanStep` and `CanGoOn` with `ENABLED`, and
the four violations.

## 5. What is not modelled, and why

- **Evidence, numbers and documents** (`evidence.py`, `financial_evidence.py`,
  `structured_financials.py`, `import_documents.py`, the validator of backups, ...): pure
  functions of contents that the models abstract. They carry no state and no interleaving;
  tests with documents say more about them than a bounded model.
- **Adapters** (SEC, OpenFIGI, Yahoo): an HTTP request is an await that ends in any way.
- **Processes** (PostgreSQL, the parser worker, job objects of Windows): calls of the
  operating system. Their deadlines and their closing are steps of the models that use them.
- **The archive of a backup**: its format and checks; only the restore's locks and its
  emptiness check are modelled.
- **The capacity of retained documents**, and the policy by which cache maintenance picks
  components: any choice the guards admit is covered.
- **User interface**: presentation, apart from the observer of a job.
- **The earlier web application** (`src/backend/*.py`, more than half of the Python
  in the repository, with its `scripts` and `evals`): `README.md` of the repository calls it
  reference material, and the desktop application imports only `safety.py` of it, checks of
  wording. It is the main reason why
  the mapped lines are a small share of the whole tree: `backend/app`, the program that
  runs, has about 10 000 lines, of which the larger part is the content of documents; its
  modules with state (`db.py`, `research.py`, `terms.py`, `source_review.py`, `codex_login.py`,
  `codex_approvals.py`, `library_cache.py`, `library_deletion.py`, the services of imports)
  are mostly mapped.

What a next step could add: `Reviews` composed with `ResearchService` in place of its stage
"review"; the refinement of `Library` by a `LibraryLocks` with several conversations and
artifacts; weekly windows, the alignment of comparison rows and the selection of cache
maintenance as operators checked against reference definitions.
