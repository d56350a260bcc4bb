---------------------------- MODULE LibraryLocks ----------------------------
(***************************************************************************)
(* The transactions of Database statement by statement, with the locks     *)
(* PostgreSQL takes for them at READ COMMITTED: the advisory gate that     *)
(* opens every transaction, the tables, and the rows.  The event loop runs *)
(* one transaction at a time and is blocked by it; plain request handlers  *)
(* and a restore run theirs in threads.                                    *)
(*                                                                         *)
(* A statement waits for its lock, then sees what is committed.  Writes    *)
(* are seen by others when the transaction commits and drops its locks.    *)
(***************************************************************************)
EXTENDS Integers, Sequences, FiniteSets

CONSTANTS
    Jobs,       \* jobs of one conversation
    Threads,    \* request threads that may have a transaction open
    Loop,       \* the event loop
    None

ASSUME LocksAssumption ==
    /\ Loop \notin Threads /\ None \notin Jobs /\ IsFiniteSet(Jobs)
    /\ Jobs \cap {"gate", "records", "research_jobs", "runtime_events", "conversation"} = {}

VARIABLES
    conversation, job, event, restored,    \* committed rows; see Transactions
    tx    \* the transaction each thread is in: what it does, for which job, how many
          \* of its statements are done, and the events it saw when it deleted them

data == <<conversation, job, event, restored>>
vars == <<data, tx>>

Slots == Threads \cup {Loop}
Kinds == {"ask", "publish", "fail", "emit", "drop", "evict", "create", "restore"}
Idle == [kind |-> "idle", of |-> None, done |-> 0, seen |-> {}]

TypeOK ==
    /\ conversation \in {"none", "open"} /\ restored \in BOOLEAN
    /\ job \in [Jobs -> {"none", "running", "ended"}] /\ event \subseteq Jobs
    /\ tx \in [Slots -> [kind : Kinds \cup {"idle"}, of : Jobs \cup {None},
                         done : Nat, seen : SUBSET Jobs]]

Init ==
    /\ conversation = "none" /\ job = [j \in Jobs |-> "none"]
    /\ event = {} /\ restored = FALSE
    /\ tx = [s \in Slots |-> Idle]

Empty == conversation = "none" /\ event = {} /\ \A j \in Jobs : job[j] = "none"
Busy == \E j \in Jobs : job[j] = "running"

-----------------------------------------------------------------------------
(* The statements of each transaction, as the lock each of them waits for: *)
(* what is locked, and how.  "row" is any ordinary use of a table, "all"   *)
(* ACCESS EXCLUSIVE; "share" is the key-share lock of a foreign key.       *)

Gate == <<"gate", "share">>
Table(t) == <<t, "row">>
Row(r) == <<r, "update">>

\* queue_research: the conversation is locked before the job is added.
Ask_Statements(j) == <<Gate, Table("records"), Row("conversation"), Table("research_jobs")>>

\* complete_research: the job, then the conversation, then the event.  transition
\* reads the status before it locks the row it updates.
Publish_Statements(j) ==
    <<Gate, Table("research_jobs"), Row(j), Table("records"), Row("conversation"),
      Table("runtime_events")>>
Fail_Statements(j) == <<Gate, Table("research_jobs"), Row(j)>>

\* An event is inserted before its foreign key looks for the job.
Emit_Statements(j) ==
    <<Gate, Table("runtime_events"), Table("research_jobs"), <<j, "share">>>>

\* expire_conversations and delete_saved_item: the conversation is locked, the jobs
\* are read, then their events and they themselves are deleted.
Deletes == LET rows == CHOOSE q \in [1..Cardinality(Jobs) -> Jobs] : {q[i] : i \in DOMAIN q} = Jobs
           IN [i \in DOMAIN rows |-> Row(rows[i])]
Drop_ReadsFirst ==
    <<Gate, Table("research_jobs"), Table("records"), Row("conversation"),
      Table("runtime_events")>> \o Deletes
Drop_Statements ==
    <<Gate, Table("records"), Row("conversation"), Table("research_jobs"),
      Table("runtime_events")>> \o Deletes

\* restore_rows: LOCK TABLE takes the three tables one after another.
Restore_Statements ==
    <<Gate, <<"records", "all">>, <<"research_jobs", "all">>, <<"runtime_events", "all">>>>

\* manage_cache reads all of the library behind the exclusive gate.  What belongs to
\* a conversation it does not evict.
Evict_SharedGate ==
    <<Gate, Table("records"), Table("research_jobs"), Table("runtime_events")>>
Evict_Statements ==
    <<<<"gate", "all">>, Table("records"), Table("research_jobs"), Table("runtime_events")>>

Statements(kind, j) ==
    CASE kind = "ask" -> Ask_Statements(j)
      [] kind = "publish" -> Publish_Statements(j)
      [] kind = "fail" -> Fail_Statements(j)
      [] kind = "emit" -> Emit_Statements(j)
      [] kind = "drop" -> Drop_Statements
      [] kind = "evict" -> Evict_Statements
      [] kind = "create" -> <<Gate, Table("records")>>
      [] kind = "restore" -> Restore_Statements
      [] kind = "idle" -> <<>>

-----------------------------------------------------------------------------
(* Locks                                                                   *)

Plan(s) == Statements(tx[s].kind, tx[s].of)
Held(s) == {Plan(s)[i] : i \in 1..tx[s].done}
Waiting(s) == tx[s].done < Len(Plan(s))
Wanted(s) == Plan(s)[tx[s].done + 1]

Conflict(a, b) ==
    /\ a[1] = b[1]
    /\ {a[2], b[2]} \notin {{"share"}, {"row"}}

\* A shared request of the gate also queues behind an exclusive one that waits.
WaitsFor(s, t) ==
    /\ s # t /\ Waiting(s)
    /\ \/ \E lock \in Held(t) : Conflict(Wanted(s), lock)
       \/ Waiting(t) /\ Wanted(t) = <<"gate", "all">> /\ Wanted(s) = Gate

\* S cannot go on without one of its members going on first.
Stuck(S) == S # {} /\ \A s \in S : \E t \in S : WaitsFor(s, t)

-----------------------------------------------------------------------------
(* Transactions                                                            *)

\* What the event loop and the threads begin.  Questions are asked once.  An answer
\* may also come for a job that has meanwhile ended.
Begin(s, kind, j) ==
    /\ tx[s] = Idle
    /\ IF s = Loop THEN kind \in {"ask", "publish", "fail", "emit", "drop", "evict"}
                   ELSE kind \in {"create", "drop", "restore"}
    /\ IF kind \in {"ask", "publish", "fail", "emit"}
       THEN j \in Jobs /\ (kind = "ask" <=> job[j] = "none")
       ELSE j = None
    /\ kind = "create" => conversation = "none"
    /\ kind = "restore" => Empty
    /\ tx' = [tx EXCEPT ![s] = [Idle EXCEPT !.kind = kind, !.of = j]]
    /\ UNCHANGED data

Rollback(s) == tx' = [tx EXCEPT ![s] = Idle]

\* What a statement finds makes its transaction give up: no conversation, an active
\* job, a job that is not running, no job for an event, an event added behind the
\* deletion of the others, a library that is not empty.
GivesUp_PublishLate(s) == FALSE
GivesUp_Publish(s) == job[tx[s].of] # "running"
GivesUp_Preview(s, lock) == FALSE
GivesUp_Restore(s, lock) == lock = <<"runtime_events", "all">> /\ ~ Empty
GivesUp(s, lock) ==
    CASE tx[s].kind \in {"ask", "publish", "drop"} /\ lock = Row("conversation") -> conversation = "none"
      [] tx[s].kind = "drop" /\ lock = Table("research_jobs") -> Busy
      [] tx[s].kind = "drop" /\ lock[1] \in Jobs -> lock[1] \in event \ tx[s].seen
      [] tx[s].kind = "publish" /\ lock = Row(tx[s].of) -> GivesUp_Publish(s)
      [] tx[s].kind = "fail" /\ lock = Table("research_jobs") -> job[tx[s].of] # "running"
      [] tx[s].kind = "fail" /\ lock = Row(tx[s].of) -> job[tx[s].of] = "none"
      [] tx[s].kind = "emit" /\ lock[1] = tx[s].of -> job[tx[s].of] = "none"
      [] tx[s].kind = "restore" -> GivesUp_Restore(s, lock)
      [] OTHER -> FALSE

\* The next statement gets its lock.
Execute(s) ==
    /\ Waiting(s) /\ \A t \in Slots : ~ WaitsFor(s, t)
    /\ IF GivesUp(s, Wanted(s)) THEN Rollback(s)
       ELSE tx' = [tx EXCEPT ![s].done = @ + 1,
                             ![s].seen = IF Wanted(s) = Table("runtime_events")
                                         THEN event ELSE @]
    /\ UNCHANGED data

Effect(kind, j) ==
    /\ conversation' = CASE kind = "drop" -> "none"
                         [] kind \in {"create", "restore"} -> "open"
                         [] OTHER -> conversation
    /\ job' = CASE kind = "ask" -> [job EXCEPT ![j] = "running"]
                [] kind \in {"publish", "fail"} -> [job EXCEPT ![j] = "ended"]
                [] kind = "drop" -> [i \in Jobs |-> "none"]
                [] OTHER -> job
    /\ event' = CASE kind \in {"publish", "emit"} -> event \cup {j}
                  [] kind = "drop" -> {}
                  [] OTHER -> event
    /\ restored' = (restored \/ kind = "restore")

Commit(s) ==
    /\ tx[s] # Idle /\ ~ Waiting(s)
    /\ Effect(tx[s].kind, tx[s].of)
    /\ Rollback(s)

\* PostgreSQL breaks a cycle of waiting transactions by failing one of them.
Abort(s) ==
    /\ \E S \in SUBSET Slots : s \in S /\ Stuck(S)
    /\ Rollback(s) /\ UNCHANGED data

Next ==
    \E s \in Slots :
        \/ \E kind \in Kinds, j \in Jobs \cup {None} : Begin(s, kind, j)
        \/ Execute(s) \/ Commit(s) \/ Abort(s)

Spec == Init /\ [][Next]_vars

-----------------------------------------------------------------------------
(* Properties                                                              *)

\* The locks make the transactions atomic: whatever statements of others run in
\* between, each commit does what the transaction would have done as one step.  In
\* particular no answer is admitted or published into a conversation that is being
\* deleted or expires, and no archive is restored over work.
Atomic == INSTANCE Transactions
AtomicSpec == Atomic!Spec

\* Transactions lock a conversation before its jobs and an answer locks its job
\* before its conversation, yet no ordinary transactions wait for each other in a
\* cycle: the deletions lock only jobs that have ended, and answers only wait for a
\* conversation while their job has not.  Only a restore can be part of a cycle.
OnlyRestoreDeadlocks ==
    \A S \in SUBSET Slots : Stuck(S) => \E s \in S : tx[s].kind = "restore"

\* Maintenance reads three tables one after another at READ COMMITTED, where each
\* statement sees what has been committed until then, and decides from all of it what
\* nothing refers to.  Behind its gate nothing is committed from its first read on.
MaintenanceSeesOneState ==
    [][\A s \in Slots : tx[s].kind = "evict" /\ tx[s].done > 0 => UNCHANGED data]_vars

\* Every job has its conversation and every event its job in each committed state,
\* though a question, its answer, its events and the deletion of all three are
\* written by transactions whose statements interleave.
ReferencesHold ==
    /\ (\E j \in Jobs : job[j] # "none") => conversation = "open"
    /\ \A j \in event : job[j] # "none"

\* Unless an archive is being restored, some transaction that is open can always go
\* on, by its next statement or its commit: nobody has to be failed for it.
CanGoOn(s) == tx[s] # Idle /\ (Waiting(s) => \A t \in Slots : ~ WaitsFor(s, t))
SomeoneGoesOn ==
    /\ \E s \in Slots : tx[s] # Idle
    /\ \A s \in Slots : tx[s].kind # "restore"
    => \E s \in Slots : CanGoOn(s)
=============================================================================
