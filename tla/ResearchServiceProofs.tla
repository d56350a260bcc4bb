----------------------- MODULE ResearchServiceProofs -----------------------
(***************************************************************************)
(* Proofs about ResearchService: slots, the inference semaphore, endings   *)
(* and consent, for any number of jobs, slots and providers.               *)
(***************************************************************************)
EXTENDS ResearchService, FiniteSetTheorems, TLAPS

Suspended == {"slot", "fetch", "review", "line", "model", "unwinding"}

\* The row of a job says how far its task has come.
RowsMatchTasks ==
    \A j \in Jobs :
        /\ Stage(j) = "ready" => row[j].status = "queued"
        /\ Stage(j) \in Suspended \ {"line"} => row[j].status = "running"
        /\ Stage(j) = "line" =>
              row[j].status = IF row[j].kind = "term" THEN "queued" ELSE "running"
        /\ Stage(j) \in {"slot", "fetch", "review"} => row[j].kind = "research"
        /\ Stage(j) # "none" => row[j].status # "none"

\* A retrieval thread belongs to a task that waits for it or has been cancelled.
WorkersOutlive ==
    \A j \in worker : Stage(j) \in {"fetch", "ended", "none"} /\ row[j].status # "none"

\* Without consent nothing runs, except what the settings request still has to
\* cancel or is waiting for.
RevokedIsQuiet ==
    ~ consent => \/ Live = {} \/ setter.stage = "imports"
                 \/ setter.stage = "closing" /\ Live \subseteq setter.awaited
DrainsAll == ~ consent /\ setter.stage = "draining" => worker \subseteq setter.awaited
RevokedOff ==
    /\ consent => revoked \cap Live = {}
    /\ \A j \in revoked : row[j].status # "none"

\* A request that awaits a catalog remembers the selection it is to store.
SetterAsks == setter.stage = "catalog" => setter.provider \in Providers

\* What the tasks keep true, and what they keep true together with the settings.
TaskInv == /\ TypeOK /\ SlotsOwned /\ WorkersOutlive /\ RowsMatchTasks /\ RunningOwned
           /\ OneTurn /\ OneEnding
ConsentInv == /\ SetterAsks /\ RevokedIsQuiet /\ DrainsAll /\ RevokedOff /\ RevokedNeverPublishes
              /\ ProviderStable

-----------------------------------------------------------------------------
(* What a step of a task does to its job                                   *)

Others(j) == \A k \in Jobs : k # j =>
                 run'[k] = run[k] /\ row'[k] = row[k] /\ events'[k] = events[k]
Ended(j) ==
    \E s \in {"cancelled", "failed", "needs_identity", "completed"} :
        /\ run'[j].stage = "ended" /\ row'[j].status = s
        /\ events'[j] = Append(events[j], EventOf(s))
        /\ row[j].status = "queued" => s # "needs_identity"
        /\ s = "completed" /\ row[j].kind = "research" => consent
Moved(j) ==
    /\ events'[j] = events[j] /\ run'[j].stage \in Suspended
    /\ row'[j].status = IF run'[j].stage = "line" /\ row[j].kind = "term"
                        THEN "queued" ELSE "running"
    /\ row[j].status = "running" => row'[j].status = "running"
    /\ run'[j].stage \in {"slot", "fetch", "review"} => row[j].kind = "research"
Dropped(j) ==
    run'[j].stage = "ended" /\ row'[j] = row[j] /\ events'[j] = events[j]
    /\ row[j].status = "queued"
Outcome(j) ==
    /\ Others(j)
    /\ row'[j].kind = row[j].kind /\ row'[j].provider = row[j].provider
    /\ row' \in [Jobs -> Row] /\ run' \in [Jobs -> Run]
    /\ events' \in [Jobs -> Seq({"run.cancelled", "run.failed", "run.completed"})]
    /\ Ended(j) \/ Moved(j) \/ Dropped(j)

LEMMA EndOutcome ==
    ASSUME TypeOK, NEW j \in Jobs,
           NEW s \in {"cancelled", "failed", "needs_identity", "completed"}, End(j, s),
           row[j].status = "queued" => s # "needs_identity",
           s = "completed" /\ row[j].kind = "research" => consent
    PROVE  Outcome(j)
<1>1. row' = [row EXCEPT ![j].status = s] /\ row \in [Jobs -> Row]
  BY DEF End, TypeOK
<1>2. run' = [run EXCEPT ![j].stage = "ended"] /\ run \in [Jobs -> Run]
  BY DEF End, TypeOK
<1>3. /\ events' = [events EXCEPT ![j] = Append(@, EventOf(s))]
      /\ events \in [Jobs -> Seq({"run.cancelled", "run.failed", "run.completed"})]
  BY DEF End, TypeOK
<1>4. row' \in [Jobs -> Row] /\ row'[j].status = s /\ row'[j].kind = row[j].kind
      /\ row'[j].provider = row[j].provider /\ \A k \in Jobs : k # j => row'[k] = row[k]
  BY <1>1 DEF Row, Statuses
<1>5. run' \in [Jobs -> Run] /\ run'[j].stage = "ended"
      /\ \A k \in Jobs : k # j => run'[k] = run[k]
  BY <1>2 DEF Run, Stages
<1>6. EventOf(s) \in {"run.cancelled", "run.failed", "run.completed"}
  BY DEF EventOf
<1>7. /\ events' \in [Jobs -> Seq({"run.cancelled", "run.failed", "run.completed"})]
      /\ events'[j] = Append(events[j], EventOf(s))
      /\ \A k \in Jobs : k # j => events'[k] = events[k]
  BY <1>3, <1>6
<1> QED BY <1>4, <1>5, <1>7 DEF Outcome, Others, Ended

\* A step that suspends the task at another await.
LEMMA MoveOutcome ==
    ASSUME TypeOK, NEW j \in Jobs, NEW r \in Run, run' = [run EXCEPT ![j] = r],
           r.stage \in Suspended, events' = events,
           \/ row' = row
           \/ row' = [row EXCEPT ![j].status = "running"],
           row'[j].status = IF r.stage = "line" /\ row[j].kind = "term"
                            THEN "queued" ELSE "running",
           r.stage \in {"slot", "fetch", "review"} => row[j].kind = "research"
    PROVE  Outcome(j)
<1>1. row \in [Jobs -> Row] /\ run \in [Jobs -> Run]
  BY DEF TypeOK
<1>2. /\ row' \in [Jobs -> Row] /\ row'[j].kind = row[j].kind
      /\ row'[j].provider = row[j].provider /\ \A k \in Jobs : k # j => row'[k] = row[k]
      /\ row[j].status = "running" => row'[j].status = "running"
  <2>1. CASE row' = row
    BY <1>1, <2>1
  <2>2. CASE row' = [row EXCEPT ![j].status = "running"]
    BY <1>1, <2>2 DEF Row, Statuses
  <2> QED BY <2>1, <2>2
<1>3. /\ run' \in [Jobs -> Run] /\ run'[j] = r
      /\ \A k \in Jobs : k # j => run'[k] = run[k]
  BY <1>1
<1> QED BY <1>2, <1>3 DEF Outcome, Others, Moved, TypeOK

LEMMA AwaitOutcome ==
    ASSUME TypeOK, NEW j \in Jobs, NEW stage \in {"slot", "review"}, Await(j, stage),
           row[j].status = "running", row[j].kind = "research"
    PROVE  Outcome(j)
<1> DEFINE r == [run[j] EXCEPT !.stage = stage, !.awaits = @ + 1]
<1>0. run[j] \in Run /\ MaxAwaits \in Nat
  BY ServiceAssumption DEF TypeOK
<1>1. run[j].awaits + 1 \in 0..MaxAwaits
  BY <1>0 DEF Await, Run
<1>2. r \in Run /\ r.stage = stage
  BY <1>0, <1>1 DEF Run, Stages
<1>3. run' = [run EXCEPT ![j] = r] /\ row' = row /\ events' = events
  BY DEF Await
<1> QED BY <1>2, <1>3, MoveOutcome DEF Suspended

\* Going on after an await, with consent read again.
LEMMA GoOnOutcome ==
    ASSUME TypeOK, NEW j \in Jobs, GoOnWithConsent(j),
           row[j].status = "running", row[j].kind = "research"
    PROVE  Outcome(j)
<1>0. run[j] \in Run /\ MaxAwaits \in Nat
  BY ServiceAssumption DEF TypeOK
<1>1. CASE \E s \in {"completed", "failed", "needs_identity"} :
               End(j, s) /\ (s = "completed" => consent)
  BY <1>1, EndOutcome
<1>2. ASSUME NEW stage \in {"slot", "review"}, Await(j, stage)
      PROVE  Outcome(j)
  BY <1>2, AwaitOutcome
<1>3. CASE JoinLine(j)
  <2> DEFINE r == [run[j] EXCEPT !.stage = "line"]
  <2>1. r \in Run /\ r.stage = "line"
    BY <1>0 DEF Run, Stages
  <2>2. run' = [run EXCEPT ![j] = r] /\ row' = row /\ events' = events
    BY <1>3 DEF JoinLine
  <2> QED BY <2>1, <2>2, MoveOutcome DEF Suspended
<1> QED BY <1>1, <1>2, <1>3 DEF GoOnWithConsent, GoOn

\* Every step of a task: it ends, is suspended again, or never ran.
LEMMA RunOutcome ==
    ASSUME TypeOK, RowsMatchTasks, NEW j \in Jobs, RunStep(j)
    PROVE  Outcome(j) /\ Stage(j) \in Suspended \cup {"ready"}
<1>0. /\ run[j] \in Run /\ MaxAwaits \in Nat /\ row[j].kind \in {"research", "term"}
  BY ServiceAssumption DEF TypeOK, Row
<1>1. /\ Stage(j) = "ready" => row[j].status = "queued"
      /\ Stage(j) \in Suspended \ {"line"} => row[j].status = "running"
      /\ Stage(j) = "line" =>
            row[j].status = IF row[j].kind = "term" THEN "queued" ELSE "running"
      /\ Stage(j) \in {"slot", "fetch", "review"} => row[j].kind = "research"
  BY DEF RowsMatchTasks
<1>2. Stage(j) \in Suspended \cup {"ready"}
  BY DEF RunStep, FirstStep, TakeSlot, Fetched, Reviewed, TakeModel, Answered, DropUnstarted,
     Deliver, Unwind, Unwound, Suspended
<1> SUFFICES Outcome(j)
  BY <1>2
\* Suspended at another stage, with the same count of awaits.
<1>3. ASSUME NEW t \in Suspended, run' = [run EXCEPT ![j].stage = t], events' = events,
             row' = row \/ row' = [row EXCEPT ![j].status = "running"],
             row'[j].status = IF t = "line" /\ row[j].kind = "term"
                              THEN "queued" ELSE "running",
             t \in {"slot", "fetch", "review"} => row[j].kind = "research"
      PROVE  Outcome(j)
  <2> DEFINE r == [run[j] EXCEPT !.stage = t]
  <2>1. r \in Run /\ r.stage = t /\ run' = [run EXCEPT ![j] = r]
    BY <1>0, <1>3 DEF Run, Stages, Suspended
  <2> QED BY <1>3, <2>1, MoveOutcome
\* A row that is set to running.
<1>4. row' = [row EXCEPT ![j].status = "running"] => row'[j].status = "running"
  BY DEF TypeOK, Row
<1>5. CASE FirstStep(j)
  <2>1. CASE row[j].kind = "term"
    BY <1>1, <1>3, <1>5, <2>1 DEF FirstStep, JoinLine, Suspended
  <2>2. CASE row[j].kind = "research" /\ \E s \in {"completed", "failed"} :
                 End(j, s) /\ (s = "completed" => consent)
    BY <2>2, EndOutcome
  <2>3. CASE row[j].kind = "research" /\ run' = [run EXCEPT ![j].stage = "slot"]
                 /\ row' = [row EXCEPT ![j].status = "running"] /\ events' = events
    BY <1>3, <1>4, <2>3 DEF Suspended
  <2> QED BY <1>0, <1>5, <2>1, <2>2, <2>3 DEF FirstStep
<1>6. CASE TakeSlot(j)
  <2>1. row[j].status = "running" /\ row[j].kind = "research"
    BY <1>1, <1>6 DEF TakeSlot, Suspended
  <2>2. CASE consent
    BY <1>3, <1>6, <2>1, <2>2 DEF TakeSlot, Suspended
  <2>3. CASE ~ consent
    BY <1>6, <2>1, <2>3, EndOutcome DEF TakeSlot
  <2> QED BY <2>2, <2>3
<1>7. CASE Fetched(j) \/ Reviewed(j)
  <2>1. row[j].status = "running" /\ row[j].kind = "research"
    BY <1>1, <1>7 DEF Fetched, Reviewed, Suspended
  <2>2. CASE GoOnWithConsent(j)
    BY <2>1, <2>2, GoOnOutcome
  <2>3. CASE End(j, "cancelled") \/ End(j, "failed")
    BY <2>3, EndOutcome
  <2>4. CASE Await(j, "slot")
    BY <2>1, <2>4, AwaitOutcome
  <2> QED BY <1>7, <2>2, <2>3, <2>4 DEF Fetched, Reviewed
<1>8. CASE TakeModel(j)
  <2>1. CASE consent
    BY <1>3, <1>4, <1>8, <2>1 DEF TakeModel, Suspended
  <2>2. CASE ~ consent
    BY <1>8, <2>2, EndOutcome DEF TakeModel
  <2> QED BY <2>1, <2>2
<1>9. CASE Answered(j)
  <2>1. row[j].status = "running"
    BY <1>1, <1>9 DEF Answered, Suspended
  <2>2. ASSUME row[j].kind = "research", NEW stage \in {"slot", "review"},
               AwaitAnswered(j, stage)
        PROVE  Outcome(j)
    <3> DEFINE r == [stage |-> stage, answered |-> TRUE, awaits |-> run[j].awaits + 1]
    <3>1. run[j].awaits + 1 \in 0..MaxAwaits
      BY <1>0, <2>2 DEF AwaitAnswered, Run
    <3>2. r \in Run /\ r.stage = stage
      BY <3>1 DEF Run, Stages
    <3>3. run' = [run EXCEPT ![j] = r] /\ row' = row /\ events' = events
      BY <2>2 DEF AwaitAnswered
    <3> QED BY <2>1, <2>2, <3>2, <3>3, MoveOutcome DEF Suspended
  <2>3. CASE \E s \in {"completed", "failed", "needs_identity"} :
                 End(j, s) /\ (s = "completed" /\ row[j].kind = "research" => consent)
    BY <2>1, <2>3, EndOutcome
  <2> QED BY <1>0, <1>9, <2>2, <2>3 DEF Answered
<1>10. CASE DropUnstarted(j)
  <2>1. /\ row' = row /\ events' = events /\ run' = [run EXCEPT ![j].stage = "ended"]
        /\ row[j].status = "queued"
    BY <1>1, <1>10 DEF DropUnstarted
  <2>2. run' \in [Jobs -> Run] /\ run'[j].stage = "ended"
        /\ \A k \in Jobs : k # j => run'[k] = run[k]
    BY <2>1 DEF TypeOK, Run, Stages
  <2> QED BY <2>1, <2>2 DEF Outcome, Others, Dropped, TypeOK
<1>11. CASE Deliver(j) \/ Unwound(j)
  BY <1>11, EndOutcome DEF Deliver, Unwound
<1>12. CASE Unwind(j)
  BY <1>1, <1>3, <1>12 DEF Unwind, Suspended
<1> QED BY <1>5, <1>6, <1>7, <1>8, <1>9, <1>10, <1>11, <1>12 DEF RunStep

\* Where the task is after its step.
LEMMA NextStage ==
    ASSUME TypeOK, NEW j \in Jobs
    PROVE  /\ \A s : End(j, s) => run'[j].stage = "ended"
           /\ GoOnWithConsent(j) => run'[j].stage \in {"slot", "review", "line", "ended"}
           /\ \A t : run' = [run EXCEPT ![j].stage = t] => run'[j].stage = t
           /\ \A t : Await(j, t) \/ AwaitAnswered(j, t) => run'[j].stage = t
<1>0. run \in [Jobs -> Run]
  BY DEF TypeOK
<1>1. ASSUME NEW t, run' = [run EXCEPT ![j].stage = t] PROVE run'[j].stage = t
  BY <1>0, <1>1 DEF Run
<1>2. ASSUME NEW s, End(j, s) PROVE run'[j].stage = "ended"
  BY <1>1, <1>2 DEF End
<1>3. ASSUME NEW t, AwaitAnswered(j, t) PROVE run'[j].stage = t
  BY <1>0, <1>3 DEF AwaitAnswered
<1>4. ASSUME NEW t, Await(j, t) PROVE run'[j].stage = t
  BY <1>0, <1>4 DEF Await, Run
<1>5. ASSUME GoOnWithConsent(j) PROVE run'[j].stage \in {"slot", "review", "line", "ended"}
  BY <1>1, <1>2, <1>4, <1>5 DEF GoOnWithConsent, GoOn, JoinLine
<1> QED BY <1>1, <1>2, <1>3, <1>4, <1>5

\* What the step takes and gives back.
LEMMA SlotsTaken ==
    ASSUME TypeOK, NEW j \in Jobs, RunStep(j)
    PROVE  /\ settings' = settings /\ cancels' = cancels /\ hit' \in SUBSET hit
           /\ \/ permits' = permits /\ worker' = worker
              \/ /\ Stage(j) = "slot" /\ run'[j].stage = "fetch" /\ permits > 0
                 /\ permits' = permits - 1 /\ worker' = worker \cup {j}
<1>1. CASE TakeSlot(j)
  BY <1>1, NextStage DEF TakeSlot
<1>2. CASE ~ TakeSlot(j)
  BY <1>2 DEF RunStep, FirstStep, Fetched, Reviewed, TakeModel, Answered, DropUnstarted,
     Deliver, Unwind, Unwound
<1> QED BY <1>1, <1>2

Turn == {"model", "unwinding"}
LEMMA TurnTaken ==
    ASSUME TypeOK, NEW j \in Jobs, RunStep(j)
    PROVE  \/ holder' = holder /\ (Stage(j) \in Turn <=> run'[j].stage \in Turn)
           \/ holder = None /\ holder' = j /\ run'[j].stage \in Turn
           \/ holder' = None /\ Stage(j) \in Turn /\ run'[j].stage \notin Turn
<1> USE DEF Turn
<1>1. CASE FirstStep(j)
  <2>1. run'[j].stage \in {"line", "slot", "ended"}
    BY <1>1, NextStage DEF FirstStep, JoinLine
  <2> QED BY <1>1, <2>1 DEF FirstStep
<1>2. CASE TakeSlot(j)
  <2>1. run'[j].stage \in {"fetch", "ended"}
    BY <1>2, NextStage DEF TakeSlot
  <2> QED BY <1>2, <2>1 DEF TakeSlot
<1>3. CASE Fetched(j) \/ Reviewed(j)
  <2>1. run'[j].stage \in {"slot", "review", "line", "ended"}
    BY <1>3, NextStage DEF Fetched, Reviewed
  <2> QED BY <1>3, <2>1 DEF Fetched, Reviewed
<1>4. CASE TakeModel(j)
  <2>1. consent => run'[j].stage = "model"
    BY <1>4, NextStage DEF TakeModel
  <2>2. ~ consent => run'[j].stage = "ended"
    BY <1>4, NextStage DEF TakeModel
  <2> QED BY <1>4, <2>1, <2>2 DEF TakeModel
<1>5. CASE Answered(j)
  <2>1. run'[j].stage \in {"slot", "review", "ended"}
    BY <1>5, NextStage DEF Answered
  <2> QED BY <1>5, <2>1 DEF Answered
<1>6. CASE DropUnstarted(j) \/ Deliver(j)
  <2>1. run'[j].stage = "ended"
    BY <1>6, NextStage DEF DropUnstarted, Deliver
  <2> QED BY <1>6, <2>1 DEF DropUnstarted, Deliver
<1>7. CASE Unwind(j)
  <2>1. run'[j].stage = "unwinding"
    BY <1>7, NextStage DEF Unwind
  <2> QED BY <1>7, <2>1 DEF Unwind
<1>8. CASE Unwound(j)
  <2>1. run'[j].stage = "ended"
    BY <1>8, NextStage DEF Unwound
  <2> QED BY <1>8, <2>1 DEF Unwound
<1> QED BY <1>1, <1>2, <1>3, <1>4, <1>5, <1>6, <1>7, <1>8 DEF RunStep

-----------------------------------------------------------------------------
(* The tasks                                                               *)

LEMMA WorkerCount ==
    ASSUME NEW W \in SUBSET Jobs, NEW j \in Jobs
    PROVE  /\ IsFiniteSet(W) /\ Cardinality(W) \in Nat
           /\ j \notin W => Cardinality(W \cup {j}) = Cardinality(W) + 1
           /\ j \in W => Cardinality(W \ {j}) = Cardinality(W) - 1
<1>1. IsFiniteSet(W)
  BY ServiceAssumption, FS_Subset
<1> QED BY <1>1, FS_CardinalityType, FS_AddElement, FS_RemoveElement

LEMMA RunKeepsTasks ==
    ASSUME TaskInv, NEW j \in Jobs, RunStep(j)
    PROVE  TaskInv'
<1>0. /\ TypeOK /\ RowsMatchTasks /\ WorkersOutlive /\ SlotsOwned /\ RunningOwned
      /\ OneTurn /\ OneEnding /\ None \notin Jobs
  BY ServiceAssumption DEF TaskInv
<1>1. Outcome(j) /\ Stage(j) \in Suspended \cup {"ready"}
  BY <1>0, RunOutcome
<1>2. /\ settings' = settings /\ cancels' = cancels /\ hit' \in SUBSET hit
      /\ \/ permits' = permits /\ worker' = worker
         \/ /\ Stage(j) = "slot" /\ run'[j].stage = "fetch" /\ permits > 0
            /\ permits' = permits - 1 /\ worker' = worker \cup {j}
  BY <1>0, SlotsTaken
<1>3. \/ holder' = holder /\ (Stage(j) \in Turn <=> run'[j].stage \in Turn)
      \/ holder = None /\ holder' = j /\ run'[j].stage \in Turn
      \/ holder' = None /\ Stage(j) \in Turn /\ run'[j].stage \notin Turn
  BY <1>0, TurnTaken
<1>4. row[j].status \in Active /\ events[j] = <<>>
  BY <1>0, <1>1 DEF RowsMatchTasks, Suspended, Active, OneEnding
<1>5. TypeOK'
  <2>1. permits \in 0..Slots /\ Slots \in Nat /\ worker \in SUBSET Jobs
    BY <1>0, ServiceAssumption DEF TypeOK
  <2>2. permits' \in 0..Slots
    BY <1>2, <2>1
  <2>3. worker' \in SUBSET Jobs
    BY <1>2, <2>1
  <2>4. holder' \in Jobs \cup {None} /\ hit' \in SUBSET Jobs /\ cancels' \in SUBSET Jobs
    BY <1>0, <1>2, <1>3 DEF TypeOK
  <2>5. /\ consent' \in BOOLEAN /\ provider' \in Providers /\ setter' \in Setter
        /\ revoked' \in SUBSET Jobs
    <3>1. consent' = consent /\ provider' = provider /\ setter' = setter /\ revoked' = revoked
      BY <1>2 DEF settings
    <3> QED BY <1>0, <3>1 DEF TypeOK
  <2>6. /\ row' \in [Jobs -> Row] /\ run' \in [Jobs -> Run]
        /\ events' \in [Jobs -> Seq({"run.cancelled", "run.failed", "run.completed"})]
    BY <1>1 DEF Outcome
  <2> QED BY <2>2, <2>3, <2>4, <2>5, <2>6 DEF TypeOK
<1>6. SlotsOwned'
  <2>1. Stage(j) = "slot" => j \notin worker
    BY <1>0 DEF WorkersOutlive
  <2>2. permits \in Int /\ Slots \in Int /\ worker \in SUBSET Jobs
    BY <1>0, ServiceAssumption DEF TypeOK
  <2>3. /\ Cardinality(worker) \in Nat
        /\ Stage(j) = "slot" => Cardinality(worker \cup {j}) = Cardinality(worker) + 1
    BY <2>1, <2>2, WorkerCount
  <2>4. CASE permits' = permits /\ worker' = worker
    BY <1>0, <2>4 DEF SlotsOwned
  <2>5. CASE Stage(j) = "slot" /\ permits' = permits - 1 /\ worker' = worker \cup {j}
    <3>1. Cardinality(worker') = Cardinality(worker) + 1
      BY <2>3, <2>5
    <3> QED BY <1>0, <2>2, <2>3, <2>5, <3>1 DEF SlotsOwned
  <2> QED BY <1>2, <2>4, <2>5
<1>7. WorkersOutlive'
  <2> SUFFICES ASSUME NEW k \in worker'
               PROVE  run'[k].stage \in {"fetch", "ended", "none"} /\ row'[k].status # "none"
    BY DEF WorkersOutlive, Stage
  <2>1. CASE k # j
    <3>1. k \in worker /\ k \in Jobs
      BY <1>0, <1>2, <2>1 DEF TypeOK
    <3> QED BY <1>0, <1>1, <2>1, <3>1 DEF WorkersOutlive, Outcome, Others, Stage
  <2>2. CASE k = j /\ k \in worker
    <3>1. Stage(j) = "fetch" /\ j \in worker
      BY <1>0, <1>1, <2>2 DEF WorkersOutlive, Suspended
    <3>2. ~ TakeSlot(j) /\ ~ FirstStep(j) /\ ~ Fetched(j) /\ ~ Reviewed(j) /\ ~ TakeModel(j)
          /\ ~ Answered(j) /\ ~ DropUnstarted(j) /\ ~ Unwind(j) /\ ~ Unwound(j)
      BY <3>1 DEF TakeSlot, FirstStep, Fetched, Reviewed, TakeModel, Answered, DropUnstarted,
         Unwind, Unwound
    <3>3. End(j, "cancelled")
      BY <3>2 DEF RunStep, Deliver
    <3> QED BY <1>0, <2>2, <3>3 DEF End, TypeOK, Run, Row
  <2>3. CASE k = j /\ k \notin worker
    BY <1>1, <1>2, <2>3 DEF Outcome, Ended, Moved, Dropped, Suspended
  <2> QED BY <2>1, <2>2, <2>3
<1>8. RowsMatchTasks' /\ RunningOwned'
  <2>1. ASSUME NEW k \in Jobs, k # j
        PROVE  run'[k] = run[k] /\ row'[k] = row[k]
    BY <1>1, <2>1 DEF Outcome, Others
  <2>2. /\ run'[j].stage = "ended" \/ run'[j].stage \in Suspended
        /\ run'[j].stage \in Suspended \ {"line"} => row'[j].status = "running"
        /\ run'[j].stage = "line" =>
              row'[j].status = IF row'[j].kind = "term" THEN "queued" ELSE "running"
        /\ run'[j].stage \in {"slot", "fetch", "review"} => row'[j].kind = "research"
        /\ row'[j].status # "none"
        /\ row'[j].status = "running" => run'[j].stage # "ended"
    BY <1>1, <1>4 DEF Outcome, Ended, Moved, Dropped, Suspended, Active
  <2>3. RowsMatchTasks'
    BY <1>0, <2>1, <2>2 DEF RowsMatchTasks, Stage, Suspended
  <2>4. RunningOwned'
    BY <1>0, <2>1, <2>2 DEF RunningOwned, Stage, Suspended
  <2> QED BY <2>3, <2>4
<1>9. OneTurn'
  <2>1. \A k \in Jobs : Stage(k) \in Turn <=> k = holder
    BY <1>0 DEF OneTurn, Turn
  <2>2. \A k \in Jobs : k # j => run'[k] = run[k]
    BY <1>1 DEF Outcome, Others
  <2>3. \A k \in Jobs : run'[k].stage \in Turn <=> k = holder'
    BY <1>0, <1>3, <2>1, <2>2 DEF Stage
  <2>4. holder' \in Jobs \cup {None}
    BY <1>5 DEF TypeOK
  <2> QED BY <1>0, <2>3, <2>4 DEF OneTurn, Turn, Stage
<1>10. OneEnding'
  <2>1. \A k \in Jobs : k # j => run'[k] = run[k] /\ row'[k] = row[k] /\ events'[k] = events[k]
    BY <1>1 DEF Outcome, Others
  <2>2. /\ events'[j] \in {<<>>, <<EventOf(row'[j].status)>>}
        /\ events'[j] # <<>> => row'[j].status \notin Active \cup {"none", "interrupted"}
        /\ run'[j].stage = "ended" /\ row'[j].status \notin Active => events'[j] # <<>>
    <3>1. CASE Ended(j)
      <4>1. PICK s \in {"cancelled", "failed", "needs_identity", "completed"} :
                row'[j].status = s /\ events'[j] = Append(events[j], EventOf(s))
        BY <3>1 DEF Ended
      <4>2. events'[j] = <<EventOf(s)>>
        BY <1>4, <4>1
      <4> QED BY <4>1, <4>2 DEF Active
    <3>2. CASE Moved(j)
      BY <1>4, <3>2 DEF Moved, Suspended
    <3>3. CASE Dropped(j)
      BY <1>4, <3>3 DEF Dropped, Active
    <3> QED BY <1>1, <3>1, <3>2, <3>3 DEF Outcome
  <2> QED BY <1>0, <2>1, <2>2 DEF OneEnding, Stage
<1> QED BY <1>5, <1>6, <1>7, <1>8, <1>9, <1>10 DEF TaskInv

LEMMA SubmitKeepsTasks ==
    ASSUME TaskInv, NEW j \in Jobs, NEW kind \in Kinds, Submit(j, kind)
    PROVE  TaskInv'
<1>0. /\ TypeOK /\ RowsMatchTasks /\ WorkersOutlive /\ SlotsOwned /\ RunningOwned
      /\ OneTurn /\ OneEnding /\ kind \in {"research", "term"}
  BY ServiceAssumption DEF TaskInv
<1>1. /\ row[j].status = "none"
      /\ settings' = settings /\ hit' = hit /\ cancels' = cancels /\ permits' = permits
      /\ worker' = worker /\ holder' = holder /\ events' = events
  BY DEF Submit
<1>2. /\ row' \in [Jobs -> Row] /\ row'[j].status = "queued" /\ row'[j].kind = kind
      /\ \A k \in Jobs : k # j => row'[k] = row[k]
  BY <1>0 DEF Submit, TypeOK, Row, Statuses
<1>3. /\ run' \in [Jobs -> Run] /\ run'[j].stage = "ready"
      /\ \A k \in Jobs : k # j => run'[k] = run[k]
  BY <1>0 DEF Submit, TypeOK, Run, Stages
<1>4. Stage(j) = "none" /\ j \notin worker /\ events[j] = <<>>
  BY <1>0, <1>1 DEF RowsMatchTasks, WorkersOutlive, OneEnding
<1>5. TypeOK'
  BY <1>0, <1>1, <1>2, <1>3 DEF TypeOK, settings
<1>6. SlotsOwned'
  BY <1>0, <1>1 DEF SlotsOwned
<1>7. WorkersOutlive'
  BY <1>0, <1>1, <1>2, <1>3, <1>4 DEF WorkersOutlive, Stage, TypeOK
<1>8. RowsMatchTasks' /\ RunningOwned'
  BY <1>0, <1>1, <1>2, <1>3 DEF RowsMatchTasks, RunningOwned, Stage, Suspended
<1>9. OneTurn'
  <2>1. \A k \in Jobs : run'[k].stage \in Turn <=> Stage(k) \in Turn
    BY <1>3, <1>4 DEF Turn, Stage
  <2> QED BY <1>0, <1>1, <2>1 DEF OneTurn, Stage, Turn
<1>10. OneEnding'
  BY <1>0, <1>1, <1>2, <1>3, <1>4 DEF OneEnding, Stage, Active
<1> QED BY <1>5, <1>6, <1>7, <1>8, <1>9, <1>10 DEF TaskInv

\* A step that touches neither slots nor the semaphore, and leaves every task where
\* it is or takes a finished one out of the table.
LEMMA TableStep ==
    ASSUME TaskInv, TypeOK', worker' = worker, permits' = permits, holder' = holder,
           \A k \in Jobs : \/ run'[k].stage = Stage(k)
                           \/ run'[k].stage = "none" /\ Stage(k) = "ended",
           \A k \in Jobs :
              \/ row'[k] = row[k] /\ events'[k] = events[k]
              \/ /\ Stage(k) \in {"none", "ended"} /\ row[k].status \in Active
                 /\ row'[k].status = "cancelled" /\ events'[k] = <<"run.cancelled">>
    PROVE  TaskInv'
<1>0. /\ RowsMatchTasks /\ WorkersOutlive /\ SlotsOwned /\ RunningOwned
      /\ OneTurn /\ OneEnding /\ worker \in SUBSET Jobs
  BY DEF TaskInv, TypeOK
<1>1. SlotsOwned'
  BY <1>0 DEF SlotsOwned
<1>2. WorkersOutlive'
  BY <1>0 DEF WorkersOutlive, Stage
<1>3. RowsMatchTasks' /\ RunningOwned'
  BY <1>0 DEF RowsMatchTasks, RunningOwned, Stage, Suspended
<1>4. OneTurn'
  <2>1. \A k \in Jobs : run'[k].stage \in Turn <=> Stage(k) \in Turn
    BY DEF Turn, Stage
  <2> QED BY <1>0, <2>1 DEF OneTurn, Stage, Turn
<1>5. OneEnding'
  <2> SUFFICES ASSUME NEW k \in Jobs
               PROVE  /\ events'[k] \in {<<>>, <<EventOf(row'[k].status)>>}
                      /\ events'[k] # <<>> =>
                            row'[k].status \notin Active \cup {"none", "interrupted"}
                      /\ run'[k].stage = "ended" /\ row'[k].status \notin Active =>
                            events'[k] # <<>>
    BY DEF OneEnding, Stage
  <2>1. CASE row'[k] = row[k] /\ events'[k] = events[k]
    BY <1>0, <2>1 DEF OneEnding, Stage
  <2>2. CASE row'[k].status = "cancelled" /\ events'[k] = <<"run.cancelled">>
    BY <2>2 DEF EventOf, Active
  <2> QED BY <2>1, <2>2
<1> QED BY <1>1, <1>2, <1>3, <1>4, <1>5 DEF TaskInv

LEMMA TableKeepsTasks ==
    ASSUME TaskInv, NEW j \in Jobs, Reap(j) \/ Cancel(j) \/ CancelReturns(j)
    PROVE  TaskInv'
<1>0. TypeOK /\ OneEnding
  BY DEF TaskInv
<1>1. CASE Reap(j)
  <2>1. /\ run' \in [Jobs -> Run] /\ run'[j].stage = "none" /\ Stage(j) = "ended"
        /\ \A k \in Jobs : k # j => run'[k] = run[k]
    BY <1>0, <1>1, ServiceAssumption DEF Reap, TypeOK, Run, NoRun, Stages
  <2>2. TypeOK'
    BY <1>0, <1>1, <2>1 DEF Reap, TypeOK, settings
  <2> QED BY <1>1, <2>1, <2>2, TableStep DEF Reap, Stage
<1>2. CASE Cancel(j)
  <2>1. TypeOK'
    BY <1>0, <1>2 DEF Cancel, TypeOK, settings
  <2> QED BY <1>2, <2>1, TableStep DEF Cancel, Stage
<1>3. CASE CancelReturns(j) /\ row[j].status \in Active
  <2>1. /\ Stage(j) \in {"none", "ended"} /\ events[j] = <<>>
    BY <1>0, <1>3 DEF CancelReturns, Live, OneEnding
  <2>2. /\ row' \in [Jobs -> Row] /\ row'[j].status = "cancelled"
        /\ \A k \in Jobs : k # j => row'[k] = row[k]
    <3>1. row' = [row EXCEPT ![j].status = "cancelled"] /\ row \in [Jobs -> Row]
      BY <1>0, <1>3 DEF CancelReturns, TypeOK
    <3> QED BY <3>1 DEF Row, Statuses
  <2>3. /\ events' \in [Jobs -> Seq({"run.cancelled", "run.failed", "run.completed"})]
        /\ events'[j] = <<"run.cancelled">>
        /\ \A k \in Jobs : k # j => events'[k] = events[k]
    <3>1. /\ events' = [events EXCEPT ![j] = Append(@, "run.cancelled")]
          /\ events \in [Jobs -> Seq({"run.cancelled", "run.failed", "run.completed"})]
      BY <1>0, <1>3 DEF CancelReturns, TypeOK
    <3> QED BY <2>1, <3>1
  <2>4. TypeOK'
    BY <1>0, <1>3, <2>2, <2>3 DEF CancelReturns, TypeOK, settings
  <2> QED BY <1>3, <2>1, <2>2, <2>3, <2>4, TableStep DEF CancelReturns, Stage
<1>4. CASE CancelReturns(j) /\ row[j].status \notin Active
  <2>1. TypeOK'
    BY <1>0, <1>4 DEF CancelReturns, TypeOK, settings
  <2> QED BY <1>4, <2>1, TableStep DEF CancelReturns, Stage
<1> QED BY <1>1, <1>2, <1>3, <1>4

\* A thread that ends gives its slot back, whoever still waits for it.
LEMMA WorkerKeepsTasks ==
    ASSUME TaskInv, NEW j \in Jobs, WorkerEnds(j)
    PROVE  TaskInv'
<1>0. /\ TypeOK /\ RowsMatchTasks /\ WorkersOutlive /\ SlotsOwned /\ RunningOwned
      /\ OneTurn /\ OneEnding
  BY DEF TaskInv
<1>1. /\ j \in worker /\ worker' = worker \ {j} /\ permits' = permits + 1
      /\ settings' = settings /\ row' = row /\ run' = run /\ hit' = hit /\ cancels' = cancels
      /\ holder' = holder /\ events' = events
  BY DEF WorkerEnds
<1>2. worker \in SUBSET Jobs /\ permits \in Int /\ permits >= 0 /\ Slots \in Nat
  BY <1>0, ServiceAssumption DEF TypeOK
<1>3. /\ Cardinality(worker) \in Nat /\ Cardinality(worker') = Cardinality(worker) - 1
      /\ Cardinality(worker') \in Nat
  <2>1. worker \ {j} \in SUBSET Jobs
    BY <1>2
  <2>2. Cardinality(worker) \in Nat /\ Cardinality(worker \ {j}) = Cardinality(worker) - 1
    BY <1>1, <1>2, WorkerCount
  <2>3. Cardinality(worker \ {j}) \in Nat
    BY <2>1, WorkerCount
  <2> QED BY <1>1, <2>2, <2>3
<1>4. SlotsOwned'
  BY <1>0, <1>1, <1>2, <1>3 DEF SlotsOwned
<1>5. permits' \in 0..Slots
  BY <1>1, <1>2, <1>3, <1>4 DEF SlotsOwned
<1>6. TypeOK'
  BY <1>0, <1>1, <1>5 DEF TypeOK, settings
<1>7. WorkersOutlive' /\ RowsMatchTasks' /\ RunningOwned' /\ OneTurn' /\ OneEnding'
  BY <1>0, <1>1 DEF WorkersOutlive, RowsMatchTasks, RunningOwned, OneTurn, OneEnding, Stage
<1> QED BY <1>4, <1>6, <1>7 DEF TaskInv

\* Settings steps touch no task but the marks.
LEMMA SettingsKeepTasks ==
    ASSUME TaskInv, SetterAsks, SettingsStep
    PROVE  TaskInv'
<1>0. TypeOK
  BY DEF TaskInv
<1>1. /\ row' = row /\ run' = run /\ cancels' = cancels /\ permits' = permits
      /\ worker' = worker /\ holder' = holder /\ events' = events
      /\ hit' \in SUBSET Jobs
  BY <1>0 DEF SettingsStep, AskCatalog, Save, SaveChecked, Refuse, Close, TasksGone, Drained,
     Store, TypeOK, Live
<1>2. IdleSetter \in Setter
  BY DEF IdleSetter, Setter
<1>3. /\ consent \in BOOLEAN /\ provider \in Providers /\ setter \in Setter
      /\ revoked \in SUBSET Jobs
  BY <1>0 DEF TypeOK
<1>4. ASSUME NEW p \in Providers, NEW c \in BOOLEAN, Store(p, c)
      PROVE  consent' \in BOOLEAN /\ provider' \in Providers /\ setter' \in Setter
             /\ revoked' \in SUBSET Jobs
  <2>1. [IdleSetter EXCEPT !.stage = "imports"] \in Setter
    BY DEF IdleSetter, Setter
  <2>2. setter' \in Setter
    BY <1>2, <1>4, <2>1 DEF Store
  <2>3. revoked' \in SUBSET Jobs
    BY <1>3, <1>4 DEF Store, ActiveJobs
  <2>4. consent' = c /\ provider' = p
    BY <1>4 DEF Store
  <2> QED BY <2>2, <2>3, <2>4
<1>5. ASSUME SaveChecked
      PROVE  consent' \in BOOLEAN /\ provider' \in Providers /\ setter' \in Setter
             /\ revoked' \in SUBSET Jobs
  <2>1. setter.provider \in Providers /\ setter.consent \in BOOLEAN
    BY <1>3, <1>5 DEF SetterAsks, SaveChecked, Setter
  <2>2. Store(setter.provider, setter.consent)
    BY <1>5 DEF SaveChecked
  <2>3. /\ consent' = setter.consent /\ provider' = setter.provider
        /\ revoked' = IF setter.consent THEN revoked ELSE revoked \cup ActiveJobs
        /\ setter' = IF setter.consent THEN IdleSetter
                                       ELSE [IdleSetter EXCEPT !.stage = "imports"]
    BY <2>2 DEF Store
  <2>4. [IdleSetter EXCEPT !.stage = "imports"] \in Setter
    BY DEF IdleSetter, Setter
  <2>5. setter' \in Setter
    BY <1>2, <2>3, <2>4
  <2>6. revoked' \in SUBSET Jobs
    BY <1>3, <2>3 DEF ActiveJobs
  <2>7. consent' \in BOOLEAN
    BY <2>1, <2>3
  <2>8. provider' \in Providers
    BY <2>1, <2>3
  <2> QED BY <2>5, <2>6, <2>7, <2>8
<1>6. ASSUME ~ SaveChecked, ~ \E p \in Providers, c \in BOOLEAN : Save(p, c)
      PROVE  consent' \in BOOLEAN /\ provider' \in Providers /\ setter' \in Setter
             /\ revoked' \in SUBSET Jobs
  <2>1. consent' = consent /\ provider' = provider /\ revoked' = revoked
    BY <1>6 DEF SettingsStep, AskCatalog, Refuse, Close, TasksGone, Drained
  <2>2. setter' \in Setter
    <3>1. ASSUME NEW p \in Providers, NEW c \in BOOLEAN, AskCatalog(p, c)
          PROVE  setter' \in Setter
      BY <3>1 DEF AskCatalog, Setter
    <3>2. CASE Close
      <4>1. Tasks \in SUBSET Jobs
        BY DEF Tasks
      <4>2. [IdleSetter EXCEPT !.stage = "closing", !.awaited = Tasks] \in Setter
        BY <4>1 DEF IdleSetter, Setter
      <4> QED BY <3>2, <4>2 DEF Close
    <3>3. CASE TasksGone
      <4>1. worker \in SUBSET Jobs
        BY <1>0 DEF TypeOK
      <4>2. [setter EXCEPT !.stage = "draining", !.awaited = worker] \in Setter
        BY <1>3, <4>1 DEF Setter
      <4> QED BY <3>3, <4>2 DEF TasksGone
    <3>4. CASE Refuse \/ Drained
      BY <1>2, <3>4 DEF Refuse, Drained
    <3> QED BY <1>6, <3>1, <3>2, <3>3, <3>4 DEF SettingsStep
  <2> QED BY <1>3, <2>1, <2>2
<1>7. consent' \in BOOLEAN /\ provider' \in Providers /\ setter' \in Setter
      /\ revoked' \in SUBSET Jobs
  <2>1. ASSUME NEW p \in Providers, NEW c \in BOOLEAN, Save(p, c)
        PROVE  Store(p, c)
    BY <2>1 DEF Save
  <2> QED BY <1>4, <1>5, <1>6, <2>1
<1>8. TypeOK'
  BY <1>0, <1>1, <1>7 DEF TypeOK
<1> QED BY <1>1, <1>8, TableStep DEF Stage

LEMMA CrashKeepsTasks ==
    ASSUME TaskInv, NEW lost \in {{}} \cup {{j} : j \in Jobs}, Crash(lost)
    PROVE  TaskInv'
<1>0. TypeOK /\ OneEnding /\ None \notin Jobs /\ lost \in SUBSET Jobs
  BY ServiceAssumption DEF TaskInv
<1>1. /\ consent' = consent /\ provider' = provider /\ revoked' = revoked
      /\ setter' = IdleSetter /\ hit' = {} /\ cancels' = {} /\ permits' = Slots
      /\ worker' = {} /\ holder' = None
      /\ \A j \in Jobs : run'[j].stage = "none"
  BY DEF Crash, NoRun
<1>2. IdleSetter \in Setter /\ NoRun \in Run /\ Slots \in Nat
  BY ServiceAssumption DEF IdleSetter, Setter, NoRun, Run, Stages
<1>3. /\ row' \in [Jobs -> Row]
      /\ \A j \in Jobs : row'[j].status = IF row[j].status \in Active THEN "interrupted"
                                                                     ELSE row[j].status
  <2>1. \A j \in Jobs : row[j] \in Row
    BY <1>0 DEF TypeOK
  <2>2. \A j \in Jobs : [row[j] EXCEPT !.status = "interrupted"] \in Row
                        /\ [row[j] EXCEPT !.status = "interrupted"].status = "interrupted"
    BY <2>1 DEF Row, Statuses
  <2> QED BY <2>1, <2>2 DEF Crash
<1>4. /\ events' \in [Jobs -> Seq({"run.cancelled", "run.failed", "run.completed"})]
      /\ \A j \in Jobs : events'[j] = events[j] \/ events'[j] = <<>>
  BY <1>0 DEF Crash, TypeOK
<1>5. run' \in [Jobs -> Run]
  BY <1>2 DEF Crash
<1>6. TypeOK'
  BY <1>0, <1>1, <1>2, <1>3, <1>4, <1>5 DEF TypeOK
<1>7. SlotsOwned'
  BY <1>1, <1>2, FS_EmptySet DEF SlotsOwned
<1>8. WorkersOutlive' /\ RowsMatchTasks' /\ OneTurn'
  BY <1>1 DEF WorkersOutlive, RowsMatchTasks, OneTurn, Stage, Suspended
<1>9. RunningOwned'
  BY <1>3 DEF RunningOwned, Active
<1>10. OneEnding'
  BY <1>0, <1>1, <1>3, <1>4 DEF OneEnding, Stage, Active
<1> QED BY <1>6, <1>7, <1>8, <1>9, <1>10 DEF TaskInv

-----------------------------------------------------------------------------
(* Consent                                                                 *)

\* A step that leaves the settings alone and starts no task.
LEMMA QuietStep ==
    ASSUME TaskInv, ConsentInv, settings' = settings,
           Live' \subseteq Live, worker' \subseteq worker \cup Live,
           \A k \in Jobs :
              /\ row'[k].kind = row[k].kind /\ row'[k].provider = row[k].provider
              /\ row[k].status # "none" => row'[k].status # "none"
              /\ row'[k].status = "completed" /\ row[k].kind = "research" =>
                    row[k].status = "completed" \/ (consent /\ k \in Live)
    PROVE  ConsentInv'
<1>0. /\ SetterAsks /\ RevokedIsQuiet /\ DrainsAll /\ RevokedOff /\ RevokedNeverPublishes
      /\ ProviderStable
  BY DEF ConsentInv
<1>1. consent' = consent /\ provider' = provider /\ setter' = setter /\ revoked' = revoked
  BY DEF settings
<1>2. Live \in SUBSET Jobs /\ revoked \in SUBSET Jobs
  BY DEF Live, TaskInv, TypeOK
<1>3. SetterAsks' /\ RevokedIsQuiet'
  BY <1>0, <1>1 DEF SetterAsks, RevokedIsQuiet
<1>4. DrainsAll'
  <2>1. ~ consent /\ setter.stage = "draining" => Live = {}
    BY <1>0 DEF RevokedIsQuiet
  <2> QED BY <1>0, <1>1, <2>1 DEF DrainsAll
<1>5. RevokedOff' /\ RevokedNeverPublishes'
  BY <1>0, <1>1, <1>2 DEF RevokedOff, RevokedNeverPublishes
<1>6. ProviderStable'
  BY <1>0, <1>1, <1>2 DEF ProviderStable
<1> QED BY <1>3, <1>4, <1>5, <1>6 DEF ConsentInv

LEMMA RunKeepsConsent ==
    ASSUME TaskInv, ConsentInv, NEW j \in Jobs, RunStep(j)
    PROVE  ConsentInv'
<1>0. TypeOK /\ RowsMatchTasks
  BY DEF TaskInv
<1>1. Outcome(j) /\ Stage(j) \in Suspended \cup {"ready"}
  BY <1>0, RunOutcome
<1>2. j \in Live
  BY <1>1 DEF Live, Suspended
<1>3. settings' = settings /\ worker' \subseteq worker \cup Live
  BY <1>0, <1>2, SlotsTaken
<1>4. \A k \in Jobs : k # j => run'[k] = run[k] /\ row'[k] = row[k]
  BY <1>1 DEF Outcome, Others
<1>5. Live' \subseteq Live
  BY <1>2, <1>4 DEF Live, Stage
<1>6. /\ row'[j].status # "none"
      /\ row'[j].status = "completed" /\ row[j].kind = "research" => consent
  BY <1>1 DEF Outcome, Ended, Moved, Dropped
<1>7. row'[j].kind = row[j].kind /\ row'[j].provider = row[j].provider
  BY <1>1 DEF Outcome
<1> QED BY <1>2, <1>3, <1>4, <1>5, <1>6, <1>7, QuietStep

LEMMA TableKeepsConsent ==
    ASSUME TaskInv, ConsentInv, NEW j \in Jobs,
           Reap(j) \/ Cancel(j) \/ CancelReturns(j) \/ WorkerEnds(j)
    PROVE  ConsentInv'
<1>0. row \in [Jobs -> Row] /\ run \in [Jobs -> Run]
  BY DEF TaskInv, TypeOK
<1>1. CASE Reap(j)
  <2>1. run' = [run EXCEPT ![j] = NoRun] /\ row' = row /\ worker' = worker
        /\ settings' = settings
    BY <1>1 DEF Reap
  <2>2. Live' \subseteq Live
    BY <1>0, <2>1 DEF Live, Stage, NoRun
  <2> QED BY <2>1, <2>2, QuietStep
<1>2. CASE Cancel(j)
  BY <1>2, QuietStep DEF Cancel, Live, Stage
<1>3. CASE WorkerEnds(j)
  BY <1>3, QuietStep DEF WorkerEnds, Live, Stage
<1>4. CASE CancelReturns(j)
  <2>1. run' = run /\ worker' = worker /\ settings' = settings
    BY <1>4 DEF CancelReturns
  <2>2. \/ row' = row
        \/ row[j].status \in Active /\ row' = [row EXCEPT ![j].status = "cancelled"]
    BY <1>4 DEF CancelReturns
  <2>3. \A k \in Jobs :
           /\ row'[k].kind = row[k].kind /\ row'[k].provider = row[k].provider
           /\ row'[k].status = row[k].status \/ row'[k].status = "cancelled"
    BY <1>0, <2>2 DEF Row
  <2>4. Live' = Live
    BY <2>1 DEF Live, Stage
  <2> QED BY <2>1, <2>3, <2>4, QuietStep
<1> QED BY <1>1, <1>2, <1>3, <1>4

\* The provider of a job is the one selected when it was admitted, with consent.
LEMMA SubmitKeepsConsent ==
    ASSUME TaskInv, ConsentInv, NEW j \in Jobs, NEW kind \in Kinds, Submit(j, kind)
    PROVE  ConsentInv'
<1>0. /\ SetterAsks /\ RevokedIsQuiet /\ DrainsAll /\ RevokedOff /\ RevokedNeverPublishes
      /\ ProviderStable /\ TypeOK
  BY DEF ConsentInv, TaskInv
<1>1. /\ consent' = consent /\ provider' = provider /\ setter' = setter /\ revoked' = revoked
      /\ consent /\ worker' = worker
  BY DEF Submit, settings
<1>2. j \notin revoked
  BY <1>0 DEF Submit, RevokedOff
<1>3. /\ row'[j].status = "queued" /\ row'[j].provider = provider
      /\ \A k \in Jobs : k # j => row'[k] = row[k]
  BY <1>0 DEF Submit, TypeOK
<1>4. \A k \in Jobs : k # j => run'[k] = run[k]
  BY <1>0 DEF Submit, TypeOK
<1>5. Live' \subseteq Live \cup {j} /\ revoked \in SUBSET Jobs /\ Live' \in SUBSET Jobs
  BY <1>0, <1>4 DEF Live, Stage, TypeOK
<1>6. SetterAsks' /\ RevokedIsQuiet' /\ DrainsAll'
  BY <1>0, <1>1 DEF SetterAsks, RevokedIsQuiet, DrainsAll
<1>7. RevokedOff' /\ RevokedNeverPublishes'
  BY <1>0, <1>1, <1>2, <1>3, <1>5 DEF RevokedOff, RevokedNeverPublishes
<1>8. ProviderStable'
  <2> SUFFICES ASSUME NEW k \in Live' PROVE row'[k].provider = provider
    BY <1>1 DEF ProviderStable
  <2>1. CASE k = j
    BY <1>3, <2>1
  <2>2. CASE k # j
    BY <1>0, <1>1, <1>3, <1>5, <2>2 DEF ProviderStable
  <2> QED BY <2>1, <2>2
<1> QED BY <1>6, <1>7, <1>8 DEF ConsentInv

\* Between its two checks nothing but the settings lock keeps the consent that the
\* request read; the selection may only change while no task is live.
LEMMA StoreKeepsConsent ==
    ASSUME TaskInv, ConsentInv, NEW p \in Providers, NEW c \in BOOLEAN,
           setter.stage \in {"idle", "catalog"}, MayChange(p, c), Store(p, c)
    PROVE  ConsentInv'
<1>0. RevokedIsQuiet /\ RevokedOff /\ RevokedNeverPublishes /\ ProviderStable /\ TypeOK
  BY DEF ConsentInv, TaskInv
<1>1. /\ consent' = c /\ provider' = p /\ row' = row /\ run' = run
      /\ revoked' = IF c THEN revoked ELSE revoked \cup ActiveJobs
      /\ setter' = IF c THEN IdleSetter ELSE [IdleSetter EXCEPT !.stage = "imports"]
  BY DEF Store
<1>2. setter'.stage = IF c THEN "idle" ELSE "imports"
  BY <1>1 DEF IdleSetter
<1>3. ~ consent => Live = {}
  BY <1>0 DEF RevokedIsQuiet
<1>4. Live' = Live
  BY <1>1 DEF Live, Stage
<1>5. SetterAsks' /\ RevokedIsQuiet' /\ DrainsAll'
  BY <1>1, <1>2 DEF SetterAsks, RevokedIsQuiet, DrainsAll
<1>6. RevokedOff'
  <2>1. c => revoked' \cap Live' = {}
    BY <1>0, <1>1, <1>3, <1>4 DEF RevokedOff
  <2>2. \A k \in revoked' : row'[k].status # "none"
    BY <1>0, <1>1 DEF RevokedOff, ActiveJobs, Active
  <2> QED BY <1>1, <2>1, <2>2 DEF RevokedOff
<1>7. RevokedNeverPublishes'
  BY <1>0, <1>1 DEF RevokedNeverPublishes, ActiveJobs, Active
<1>8. ProviderStable'
  <2> SUFFICES ASSUME c, NEW k \in Live PROVE row[k].provider = p
    BY <1>1, <1>4 DEF ProviderStable
  <2>1. p = provider /\ consent
    BY <1>3 DEF MayChange
  <2> QED BY <1>0, <2>1 DEF ProviderStable
<1> QED BY <1>5, <1>6, <1>7, <1>8 DEF ConsentInv

LEMMA SettingsKeepConsent ==
    ASSUME TaskInv, ConsentInv, SettingsStep
    PROVE  ConsentInv'
<1>0. /\ SetterAsks /\ RevokedIsQuiet /\ DrainsAll /\ RevokedOff /\ RevokedNeverPublishes
      /\ ProviderStable /\ TypeOK
  BY DEF ConsentInv, TaskInv
<1>1. ASSUME NEW p \in Providers, NEW c \in BOOLEAN, Save(p, c) PROVE ConsentInv'
  BY <1>1, StoreKeepsConsent DEF Save
<1>2. CASE SaveChecked
  <2>1. setter.provider \in Providers /\ setter.consent \in BOOLEAN
    BY <1>0, <1>2 DEF SaveChecked, SetterAsks, TypeOK, Setter
  <2>2. /\ setter.stage \in {"idle", "catalog"} /\ MayChange(setter.provider, setter.consent)
        /\ Store(setter.provider, setter.consent)
    BY <1>2 DEF SaveChecked
  <2> QED BY <2>1, <2>2, StoreKeepsConsent
\* The other steps only move the request itself.
<1>3. ASSUME consent' = consent, provider' = provider, revoked' = revoked, row' = row,
             run' = run, worker' = worker, SetterAsks', RevokedIsQuiet', DrainsAll'
      PROVE  ConsentInv'
  <2>1. Live' = Live
    BY <1>3 DEF Live, Stage
  <2>2. RevokedOff' /\ RevokedNeverPublishes' /\ ProviderStable'
    BY <1>0, <1>3, <2>1 DEF RevokedOff, RevokedNeverPublishes, ProviderStable
  <2> QED BY <1>3, <2>2 DEF ConsentInv
<1>4. ASSUME NEW p \in Providers, NEW c \in BOOLEAN, AskCatalog(p, c) PROVE ConsentInv'
  <2>1. setter'.stage = "catalog" /\ setter'.provider = p /\ Live' = Live
    BY <1>4 DEF AskCatalog, Live, Stage
  <2>2. ~ consent => Live = {}
    BY <1>0, <1>4 DEF RevokedIsQuiet, AskCatalog
  <2>3. SetterAsks' /\ RevokedIsQuiet' /\ DrainsAll'
    BY <1>4, <2>1, <2>2 DEF SetterAsks, RevokedIsQuiet, DrainsAll, AskCatalog
  <2> QED BY <1>3, <1>4, <2>3 DEF AskCatalog
<1>5. CASE Refuse \/ Drained
  <2>1. setter'.stage = "idle" /\ Live' = Live
    BY <1>5 DEF Refuse, Drained, IdleSetter, Live, Stage
  <2>2. ~ consent => Live = {}
    BY <1>0, <1>5 DEF RevokedIsQuiet, Refuse, Drained
  <2>3. SetterAsks' /\ RevokedIsQuiet' /\ DrainsAll'
    BY <1>5, <2>1, <2>2 DEF SetterAsks, RevokedIsQuiet, DrainsAll, Refuse, Drained
  <2> QED BY <1>3, <1>5, <2>3 DEF Refuse, Drained
<1>6. CASE Close
  <2>1. setter'.stage = "closing" /\ setter'.awaited = Tasks /\ Live' = Live
    BY <1>6 DEF Close, IdleSetter, Live, Stage
  <2>2. Live \subseteq Tasks
    BY DEF Live, Tasks
  <2>3. SetterAsks' /\ RevokedIsQuiet' /\ DrainsAll'
    BY <2>1, <2>2 DEF SetterAsks, RevokedIsQuiet, DrainsAll
  <2> QED BY <1>3, <1>6, <2>3 DEF Close
<1>7. CASE TasksGone
  <2>1. setter'.stage = "draining" /\ setter'.awaited = worker /\ Live' = Live
    BY <1>0, <1>7 DEF TasksGone, TypeOK, Setter, Live, Stage
  <2>2. ~ consent => Live = {}
    BY <1>0, <1>7 DEF RevokedIsQuiet, TasksGone
  <2>3. SetterAsks' /\ RevokedIsQuiet' /\ DrainsAll'
    BY <1>7, <2>1, <2>2 DEF SetterAsks, RevokedIsQuiet, DrainsAll, TasksGone
  <2> QED BY <1>3, <1>7, <2>3 DEF TasksGone
<1> QED BY <1>1, <1>2, <1>4, <1>5, <1>6, <1>7 DEF SettingsStep

LEMMA CrashKeepsConsent ==
    ASSUME TaskInv, ConsentInv, NEW lost \in {{}} \cup {{j} : j \in Jobs}, Crash(lost)
    PROVE  ConsentInv'
<1>0. RevokedOff /\ RevokedNeverPublishes /\ TypeOK
  BY DEF ConsentInv, TaskInv
<1>1. setter'.stage = "idle" /\ Live' = {} /\ worker' = {} /\ revoked' = revoked
      /\ consent' = consent
  BY DEF Crash, IdleSetter, Live, Stage, NoRun
<1>2. \A k \in Jobs : /\ row'[k].kind = row[k].kind
                      /\ row'[k].status = row[k].status \/ row'[k].status = "interrupted"
  BY <1>0 DEF Crash, TypeOK, Row
<1>3. SetterAsks' /\ RevokedIsQuiet' /\ DrainsAll' /\ ProviderStable'
  BY <1>1 DEF SetterAsks, RevokedIsQuiet, DrainsAll, ProviderStable
<1>4. RevokedOff' /\ RevokedNeverPublishes'
  BY <1>0, <1>1, <1>2 DEF RevokedOff, RevokedNeverPublishes, TypeOK
<1> QED BY <1>3, <1>4 DEF ConsentInv

-----------------------------------------------------------------------------
(* The theorems                                                            *)

LEMMA InvariantStarts == Init => TaskInv /\ ConsentInv
<1> SUFFICES ASSUME Init PROVE TaskInv /\ ConsentInv
  OBVIOUS
<1>1. /\ consent = FALSE /\ provider \in Providers /\ setter = IdleSetter
      /\ row = [j \in Jobs |-> NoRow] /\ run = [j \in Jobs |-> NoRun]
      /\ hit = {} /\ cancels = {} /\ permits = Slots /\ worker = {} /\ holder = None
      /\ events = [j \in Jobs |-> <<>>] /\ revoked = {}
  BY DEF Init
<1>2. /\ IdleSetter \in Setter /\ NoRun \in Run /\ NoRow \in Row
      /\ Slots \in Nat /\ None \notin Jobs
  BY ServiceAssumption DEF IdleSetter, Setter, NoRun, Run, Stages, NoRow, Row, Statuses
<1>3. TypeOK
  <2>1. consent \in BOOLEAN /\ provider \in Providers /\ setter \in Setter
    BY <1>1, <1>2
  <2>2. row \in [Jobs -> Row] /\ run \in [Jobs -> Run]
    BY <1>1, <1>2
  <2>3. events \in [Jobs -> Seq({"run.cancelled", "run.failed", "run.completed"})]
    <3>1. <<>> \in Seq({"run.cancelled", "run.failed", "run.completed"})
      OBVIOUS
    <3> QED BY <1>1, <3>1
  <2>4. hit \in SUBSET Jobs /\ cancels \in SUBSET Jobs /\ worker \in SUBSET Jobs
        /\ permits \in 0..Slots /\ holder \in Jobs \cup {None} /\ revoked \in SUBSET Jobs
    BY <1>1, <1>2
  <2> QED BY <2>1, <2>2, <2>3, <2>4 DEF TypeOK
<1>4. SlotsOwned
  BY <1>1, <1>2, FS_EmptySet DEF SlotsOwned
<1>5. /\ \A j \in Jobs : Stage(j) = "none" /\ row[j].status = "none" /\ events[j] = <<>>
      /\ setter.stage = "idle" /\ Live = {}
  BY <1>1 DEF Stage, NoRun, NoRow, IdleSetter, Live
<1>6. WorkersOutlive /\ RowsMatchTasks /\ RunningOwned
  BY <1>1, <1>5 DEF WorkersOutlive, RowsMatchTasks, RunningOwned, Suspended
<1>7. OneTurn /\ OneEnding
  BY <1>1, <1>5 DEF OneTurn, OneEnding
<1>8. ConsentInv
  BY <1>1, <1>5 DEF ConsentInv, SetterAsks, RevokedIsQuiet, DrainsAll, RevokedOff,
     RevokedNeverPublishes, ProviderStable
<1> QED BY <1>3, <1>4, <1>6, <1>7, <1>8 DEF TaskInv

LEMMA InvariantKept == TaskInv /\ ConsentInv /\ [Next]_vars => TaskInv' /\ ConsentInv'
<1> SUFFICES ASSUME TaskInv, ConsentInv, [Next]_vars PROVE TaskInv' /\ ConsentInv'
  OBVIOUS
<1>0. SetterAsks
  BY DEF ConsentInv
<1>1. ASSUME NEW j \in Jobs, NEW kind \in Kinds, Submit(j, kind)
      PROVE  TaskInv' /\ ConsentInv'
  BY <1>1, SubmitKeepsTasks, SubmitKeepsConsent
<1>2. ASSUME NEW j \in Jobs, RunStep(j) PROVE TaskInv' /\ ConsentInv'
  BY <1>2, RunKeepsTasks, RunKeepsConsent
<1>3. ASSUME NEW j \in Jobs, Reap(j) \/ Cancel(j) \/ CancelReturns(j)
      PROVE  TaskInv' /\ ConsentInv'
  BY <1>3, TableKeepsTasks, TableKeepsConsent
<1>4. ASSUME NEW j \in Jobs, WorkerEnds(j) PROVE TaskInv' /\ ConsentInv'
  BY <1>4, WorkerKeepsTasks, TableKeepsConsent
<1>5. CASE SettingsStep
  BY <1>0, <1>5, SettingsKeepTasks, SettingsKeepConsent
<1>6. ASSUME NEW lost \in {{}} \cup {{j} : j \in Jobs}, Crash(lost)
      PROVE  TaskInv' /\ ConsentInv'
  BY <1>6, CrashKeepsTasks, CrashKeepsConsent
<1>7. CASE UNCHANGED vars
  <2>1. TaskInv'
    BY <1>7 DEF vars, settings, TaskInv, TypeOK, SlotsOwned, WorkersOutlive, RowsMatchTasks,
       RunningOwned, OneTurn, OneEnding, Stage
  <2>2. ConsentInv'
    BY <1>7 DEF vars, settings, ConsentInv, SetterAsks, RevokedIsQuiet, DrainsAll, RevokedOff,
       RevokedNeverPublishes, ProviderStable, Live, Stage
  <2> QED BY <2>1, <2>2
<1> QED BY <1>1, <1>2, <1>3, <1>4, <1>5, <1>6, <1>7 DEF Next, TaskStep

\* The inductive invariant of the service: tasks and settings together.  Neither
\* half is inductive alone, as a revocation is only quiet because close() waits.
THEOREM ServiceHolds == Spec => [](TaskInv /\ ConsentInv)
BY InvariantStarts, InvariantKept, PTL DEF Spec

\* Every step of the tasks, the handlers, the settings and a restart keeps the
\* shape of the job table and of the tasks.
THEOREM ServiceTypeCorrect == Spec => []TypeOK
<1>1. TaskInv /\ ConsentInv => TypeOK
  BY DEF TaskInv
<1> QED BY <1>1, ServiceHolds, PTL

\* However many jobs and slots there are, a slot that is not free belongs to a
\* retrieval thread that is still running (retrieve, _release_retrieval).
THEOREM SlotsAreOwned == Spec => []SlotsOwned
<1>1. TaskInv /\ ConsentInv => SlotsOwned
  BY DEF TaskInv
<1> QED BY <1>1, ServiceHolds, PTL

\* Research and term jobs have one provider turn between them, the closing of a
\* cancelled stream included (inference_semaphore).
THEOREM TurnsAreSerial == Spec => []OneTurn
<1>1. TaskInv /\ ConsentInv => OneTurn
  BY DEF TaskInv
<1> QED BY <1>1, ServiceHolds, PTL

\* A job gets at most one terminal event, and it agrees with its row, whatever
\* cancels, revocations and crashes come between (_run, cancel, recover).
THEOREM EndsOnce == Spec => []OneEnding
<1>1. TaskInv /\ ConsentInv => OneEnding
  BY DEF TaskInv
<1> QED BY <1>1, ServiceHolds, PTL

\* A job that is shown as running has a task that will still end it.
THEOREM RunningHasOwner == Spec => []RunningOwned
<1>1. TaskInv /\ ConsentInv => RunningOwned
  BY DEF TaskInv
<1> QED BY <1>1, ServiceHolds, PTL

\* Research that was active when consent was switched off never publishes
\* (require_consent, update_settings, close).
THEOREM RevocationHolds == Spec => []RevokedNeverPublishes
<1>1. TaskInv /\ ConsentInv => RevokedNeverPublishes
  BY DEF ConsentInv
<1> QED BY <1>1, ServiceHolds, PTL

\* While consent is on, every live run uses the selected provider
\* (update_settings repeats its check after the catalog).
THEOREM SelectionHolds == Spec => []ProviderStable
<1>1. TaskInv /\ ConsentInv => ProviderStable
  BY DEF ConsentInv
<1> QED BY <1>1, ServiceHolds, PTL

\* When the request that switched consent off returns, no live task, no provider
\* turn and no retrieval thread is left (close, drain).
THEOREM CloseHolds == Spec => CloseDrains
<1> DEFINE Drains == setter.stage = "draining" /\ setter'.stage = "idle" /\ ~ consent
                     => Live' = {} /\ worker' = {} /\ holder' = None
<1>1. TaskInv /\ ConsentInv /\ [Next]_vars => [Drains]_vars
  <2> SUFFICES ASSUME TaskInv, ConsentInv, Next, setter.stage = "draining",
                      setter'.stage = "idle", ~ consent
               PROVE  Live' = {} /\ worker' = {} /\ holder' = None
    OBVIOUS
  <2>1. CASE Drained
    <3>1. Live = {} /\ worker \subseteq setter.awaited
      BY DEF ConsentInv, RevokedIsQuiet, DrainsAll
    <3>2. Live' = {} /\ worker' = {} /\ holder' = holder
      BY <2>1, <3>1 DEF Drained, Live, Stage
    <3>3. holder = None
      BY <3>1 DEF TaskInv, OneTurn, TypeOK, Live
    <3> QED BY <3>2, <3>3
  <2>2. ASSUME NEW lost \in {{}} \cup {{j} : j \in Jobs}, Crash(lost)
        PROVE  Live' = {} /\ worker' = {} /\ holder' = None
    BY <2>2 DEF Crash, Live, Stage, NoRun
  <2>3. ASSUME setter' = setter PROVE FALSE
    BY <2>3
  <2>4. ASSUME NEW j \in Jobs, RunStep(j) PROVE setter' = setter
    BY <2>4, SlotsTaken DEF TaskInv, settings
  <2>5. ASSUME NEW j \in Jobs, NEW kind \in Kinds, Submit(j, kind) PROVE setter' = setter
    BY <2>5 DEF Submit, settings
  <2>6. ASSUME NEW j \in Jobs, Reap(j) \/ Cancel(j) \/ CancelReturns(j) \/ WorkerEnds(j)
        PROVE  setter' = setter
    BY <2>6 DEF Reap, Cancel, CancelReturns, WorkerEnds, settings
  <2>7. SettingsStep => Drained
    BY DEF SettingsStep, AskCatalog, Save, SaveChecked, Refuse, Close, TasksGone
  <2> QED BY <2>1, <2>2, <2>3, <2>4, <2>5, <2>6, <2>7 DEF Next, TaskStep
<1> QED BY <1>1, ServiceHolds, PTL DEF Spec, CloseDrains

-----------------------------------------------------------------------------
(* After a revocation                                                      *)

\* Without consent no thread is left, except before close() asks for the threads and
\* while it waits for all that there are.
QuietInv ==
    ~ consent => \/ worker = {} \/ setter.stage \in {"imports", "closing"}
                 \/ setter.stage = "draining" /\ worker \subseteq setter.awaited

LEMMA QuietKept == TaskInv /\ ConsentInv /\ QuietInv /\ [Next]_vars => QuietInv'
<1> SUFFICES ASSUME TaskInv, ConsentInv, QuietInv, [Next]_vars PROVE QuietInv'
  OBVIOUS
<1>0. TypeOK /\ RevokedIsQuiet
  BY DEF TaskInv, ConsentInv
<1>1. ASSUME consent' = consent, setter' = setter, worker' \subseteq worker PROVE QuietInv'
  BY <1>1 DEF QuietInv
<1>2. ASSUME NEW j \in Jobs, RunStep(j) PROVE QuietInv'
  <2>1. consent' = consent /\ setter' = setter
    BY <1>0, <1>2, SlotsTaken DEF settings
  <2>2. worker' \subseteq worker \/ consent
    BY <1>2 DEF RunStep, FirstStep, TakeSlot, Fetched, Reviewed, TakeModel, Answered,
       DropUnstarted, Deliver, Unwind, Unwound
  <2> QED BY <1>1, <2>1, <2>2 DEF QuietInv
<1>3. ASSUME NEW j \in Jobs,
             \/ Reap(j) \/ Cancel(j) \/ CancelReturns(j) \/ WorkerEnds(j)
             \/ \E kind \in Kinds : Submit(j, kind)
      PROVE  QuietInv'
  BY <1>1, <1>3 DEF Reap, Cancel, CancelReturns, WorkerEnds, Submit, settings
<1>4. CASE SettingsStep
  <2>1. ASSUME NEW p \in Providers, NEW c \in BOOLEAN, AskCatalog(p, c) PROVE QuietInv'
    BY <2>1 DEF AskCatalog, QuietInv
  <2>2. ASSUME NEW p, NEW c, Store(p, c) PROVE QuietInv'
    BY <2>2 DEF Store, QuietInv, IdleSetter
  <2>3. CASE Refuse
    BY <2>3 DEF Refuse, QuietInv
  <2>4. CASE Close
    BY <2>4 DEF Close, QuietInv, IdleSetter
  <2>5. CASE TasksGone
    <3>1. setter'.stage = "draining" /\ setter'.awaited = worker
      BY <1>0, <2>5 DEF TasksGone, TypeOK, Setter
    <3> QED BY <2>5, <3>1 DEF TasksGone, QuietInv
  <2>6. CASE Drained
    BY <2>6 DEF Drained, QuietInv
  <2> QED BY <1>4, <2>1, <2>2, <2>3, <2>4, <2>5, <2>6 DEF SettingsStep, Save, SaveChecked
<1>5. ASSUME NEW lost \in {{}} \cup {{j} : j \in Jobs}, Crash(lost) PROVE QuietInv'
  BY <1>5 DEF Crash, QuietInv
<1>6. CASE UNCHANGED vars
  BY <1>1, <1>6 DEF vars, settings
<1> QED BY <1>2, <1>3, <1>4, <1>5, <1>6 DEF Next, TaskStep

\* After the settings request that withdrew consent has returned no task, thread or
\* provider turn exists until consent is given again, however requests, cancels and
\* crashes are ordered (close, drain, require_consent).
THEOREM ServiceIsQuiet == Spec => []QuietWithoutConsent
<1>1. Init => QuietInv
  BY DEF Init, QuietInv
<1>2. TaskInv /\ ConsentInv /\ QuietInv => QuietWithoutConsent
  <2> SUFFICES ASSUME TaskInv, ConsentInv, QuietInv, ~ consent, setter.stage = "idle"
               PROVE  Live = {} /\ worker = {} /\ holder = None
    BY DEF QuietWithoutConsent
  <2>1. Live = {} /\ worker = {}
    BY DEF ConsentInv, RevokedIsQuiet, QuietInv
  <2>2. holder = None
    BY <2>1 DEF TaskInv, OneTurn, TypeOK, Live
  <2> QED BY <2>1, <2>2
<1> QED BY <1>1, <1>2, QuietKept, ServiceHolds, PTL DEF Spec

-----------------------------------------------------------------------------
(* Cancellations and waits                                                 *)

\* Whoever waits for a task waits for one that was admitted before, and admission
\* never takes that job again: a new task is never mistaken for the awaited one.
AwaitedBefore ==
    /\ \A j \in cancels : row[j].status # "none"
    /\ setter.stage = "closing" => \A j \in setter.awaited : row[j].status # "none"
CancelInv == CancelNeverLost /\ AwaitedBefore

\* A marked task can only end or close its stream; the marks of others stay.
LEMMA MarkedStep ==
    ASSUME TypeOK, NEW j \in Jobs, RunStep(j)
    PROVE  /\ \A k \in Jobs : k # j /\ k \in hit => k \in hit'
           /\ GoingDown(j) => run'[j].stage \in {"ended", "unwinding"}
<1>1. \A k \in Jobs : k # j /\ k \in hit => k \in hit'
  BY DEF RunStep, FirstStep, TakeSlot, Fetched, Reviewed, TakeModel, Answered, DropUnstarted,
     Deliver, Unwind, Unwound
<1>2. ASSUME GoingDown(j) PROVE run'[j].stage \in {"ended", "unwinding"}
  <2>1. DropUnstarted(j) \/ Deliver(j) \/ Unwind(j) \/ Unwound(j)
    BY <1>2 DEF GoingDown, RunStep, FirstStep, TakeSlot, Fetched, Reviewed, TakeModel, Answered
  <2> QED BY <2>1, NextStage DEF DropUnstarted, Deliver, Unwind, Unwound
<1> QED BY <1>1, <1>2

\* A step under which rows stay and every awaited task that is still live is still
\* on its way out.
LEMMA CancelStep ==
    ASSUME CancelInv, cancels' \subseteq cancels, setter' = setter,
           \A k \in Jobs : row[k].status # "none" => row'[k].status # "none",
           \A k \in Jobs : row[k].status # "none" /\ k \in Live'
                              => k \in Live /\ (GoingDown(k) => GoingDown(k)'),
           cancels \in SUBSET Jobs, setter.awaited \in SUBSET Jobs
    PROVE  CancelInv'
<1>1. AwaitedBefore'
  BY DEF CancelInv, AwaitedBefore
<1>2. ASSUME NEW k \in Live', k \in Jobs,
             k \in cancels \/ (setter.stage = "closing" /\ k \in setter.awaited)
      PROVE  GoingDown(k)'
  BY <1>2 DEF CancelInv, CancelNeverLost, AwaitedBefore
<1>3. CancelNeverLost'
  BY <1>2 DEF CancelNeverLost
<1> QED BY <1>1, <1>3 DEF CancelInv

LEMMA CancelKept == TaskInv /\ CancelInv /\ [Next]_vars => CancelInv'
<1> SUFFICES ASSUME TaskInv, CancelInv, [Next]_vars PROVE CancelInv'
  OBVIOUS
<1>0. /\ TypeOK /\ RowsMatchTasks /\ cancels \in SUBSET Jobs /\ setter.awaited \in SUBSET Jobs
      /\ run \in [Jobs -> Run] /\ row \in [Jobs -> Row] /\ hit \in SUBSET Jobs
  BY DEF TaskInv, TypeOK, Setter
<1>1. ASSUME NEW j \in Jobs, RunStep(j) PROVE CancelInv'
  <2>1. Outcome(j) /\ Stage(j) \in Suspended \cup {"ready"}
    BY <1>0, <1>1, RunOutcome
  <2>2. cancels' = cancels /\ setter' = setter
    BY <1>0, <1>1, SlotsTaken DEF settings
  <2>3. row'[j].status # "none" /\ \A k \in Jobs : k # j => row'[k] = row[k] /\ run'[k] = run[k]
    BY <2>1 DEF Outcome, Others, Ended, Moved, Dropped
  <2>4. j \in Live
    BY <2>1 DEF Live, Suspended
  <2>5. ASSUME NEW k \in Jobs, k \in Live'
        PROVE  k \in Live /\ (GoingDown(k) => GoingDown(k)')
    <3>1. CASE k = j
      BY <1>0, <1>1, <2>4, <2>5, <3>1, MarkedStep DEF Live, GoingDown, Stage
    <3>2. CASE k # j
      BY <1>0, <1>1, <2>3, <2>5, <3>2, MarkedStep DEF Live, GoingDown, Stage
    <3> QED BY <3>1, <3>2
  <2> QED BY <1>0, <2>2, <2>3, <2>5, CancelStep
<1>2. ASSUME NEW j \in Jobs, NEW kind \in Kinds, Submit(j, kind) PROVE CancelInv'
  <2>1. cancels' = cancels /\ setter' = setter /\ hit' = hit /\ row[j].status = "none"
    BY <1>2 DEF Submit, settings
  <2>2. /\ row'[j].status = "queued"
        /\ \A k \in Jobs : k # j => row'[k] = row[k] /\ run'[k] = run[k]
    BY <1>0, <1>2 DEF Submit
  <2> QED BY <1>0, <2>1, <2>2, CancelStep DEF Live, GoingDown, Stage
<1>3. ASSUME NEW j \in Jobs, Reap(j) PROVE CancelInv'
  <2>1. cancels' = cancels /\ setter' = setter /\ hit' = hit /\ row' = row
    BY <1>3 DEF Reap, settings
  <2>2. run'[j].stage = "none" /\ \A k \in Jobs : k # j => run'[k] = run[k]
    BY <1>0, <1>3 DEF Reap, NoRun
  <2> QED BY <1>0, <2>1, <2>2, CancelStep DEF Live, GoingDown, Stage
<1>4. ASSUME NEW j \in Jobs, WorkerEnds(j) PROVE CancelInv'
  BY <1>0, <1>4, CancelStep DEF WorkerEnds, settings, Live, GoingDown, Stage
<1>5. ASSUME NEW j \in Jobs, CancelReturns(j) PROVE CancelInv'
  <2>1. cancels' \subseteq cancels /\ setter' = setter /\ hit' = hit /\ run' = run
    BY <1>5 DEF CancelReturns, settings
  <2>2. \A k \in Jobs : row[k].status # "none" => row'[k].status # "none"
    <3>1. row' = row \/ row' = [row EXCEPT ![j].status = "cancelled"]
      BY <1>5 DEF CancelReturns
    <3> QED BY <1>0, <3>1 DEF Row
  <2> QED BY <1>0, <2>1, <2>2, CancelStep DEF Live, GoingDown, Stage
<1>6. ASSUME NEW j \in Jobs, Cancel(j) PROVE CancelInv'
  <2>1. /\ cancels' = cancels \cup {j} /\ hit' = hit \cup ({j} \cap Live)
        /\ setter' = setter /\ row' = row /\ run' = run /\ row[j].status # "none"
    BY <1>6 DEF Cancel, settings
  <2>2. AwaitedBefore'
    BY <2>1 DEF CancelInv, AwaitedBefore
  <2>3. CancelNeverLost'
    BY <2>1 DEF CancelInv, CancelNeverLost, GoingDown, Live, Stage
  <2> QED BY <2>2, <2>3 DEF CancelInv
<1>7. CASE SettingsStep
  <2>1. row' = row /\ run' = run /\ cancels' = cancels /\ hit \subseteq hit'
    BY <1>7 DEF SettingsStep, AskCatalog, Save, SaveChecked, Refuse, Close, TasksGone, Drained,
       Store
  <2>2. CASE Close
    <3>1. /\ hit' = hit \cup Live /\ setter'.stage = "closing" /\ setter'.awaited = Tasks
      BY <2>2 DEF Close, IdleSetter
    <3>2. AwaitedBefore'
      BY <1>0, <2>1, <3>1 DEF CancelInv, AwaitedBefore, RowsMatchTasks, Tasks
    <3>3. CancelNeverLost'
      BY <2>1, <3>1 DEF CancelNeverLost, GoingDown, Live, Stage
    <3> QED BY <3>2, <3>3 DEF CancelInv
  <2>3. CASE ~ Close
    <3>1. setter'.stage # "closing"
      <4>1. ASSUME NEW p, NEW c, Store(p, c) \/ AskCatalog(p, c)
            PROVE  setter'.stage # "closing"
        BY <4>1 DEF Store, AskCatalog, IdleSetter
      <4>2. CASE Refuse \/ Drained
        BY <4>2 DEF Refuse, Drained, IdleSetter
      <4>3. CASE TasksGone
        BY <1>0, <4>3 DEF TasksGone, TypeOK, Setter
      <4> QED BY <1>7, <2>3, <4>1, <4>2, <4>3 DEF SettingsStep, Save, SaveChecked
    <3>2. AwaitedBefore' /\ CancelNeverLost'
      BY <2>1, <3>1 DEF CancelInv, AwaitedBefore, CancelNeverLost, GoingDown, Live, Stage
    <3> QED BY <3>2 DEF CancelInv
  <2> QED BY <2>2, <2>3
<1>8. ASSUME NEW lost \in {{}} \cup {{j} : j \in Jobs}, Crash(lost) PROVE CancelInv'
  BY <1>8 DEF Crash, IdleSetter, CancelInv, CancelNeverLost, AwaitedBefore
<1>9. CASE UNCHANGED vars
  BY <1>9 DEF vars, settings, CancelInv, CancelNeverLost, AwaitedBefore, GoingDown, Live, Stage
<1> QED BY <1>1, <1>2, <1>3, <1>4, <1>5, <1>6, <1>7, <1>8, <1>9 DEF Next, TaskStep

\* A cancel request and close() only ever wait for tasks whose CancelledError is
\* still to be delivered or is being handled: no await of a run swallows it, no
\* second cancel undoes it and no new task takes the place of the awaited one.
THEOREM CancelsArrive == Spec => []CancelNeverLost
<1>1. Init => CancelInv
  BY DEF Init, CancelInv, CancelNeverLost, AwaitedBefore, IdleSetter
<1>2. TaskInv /\ ConsentInv /\ CancelInv /\ [Next]_vars => CancelInv'
  BY CancelKept
<1>3. CancelInv => CancelNeverLost
  BY DEF CancelInv
<1> QED BY <1>1, <1>2, <1>3, ServiceHolds, PTL DEF Spec

\* No run is stranded: a slot that is taken has a thread, the semaphore has a holder
\* that can be resumed, so there is no circle of waits between runs, threads and
\* provider turns.  Of the liveness properties this is the part without fairness.
THEOREM NobodyWaitsForever == Spec => []NobodyStranded
<1>1. ASSUME TaskInv PROVE NobodyStranded
  <2>0. /\ TypeOK /\ SlotsOwned /\ OneTurn /\ Slots \in Nat \ {0} /\ None \notin Jobs
        /\ holder \in Jobs \cup {None} /\ permits \in Nat
    BY <1>1, ServiceAssumption DEF TaskInv, TypeOK
  <2> SUFFICES ASSUME NEW j \in Live, ~ CanStep(j)
               PROVE  \/ Stage(j) = "slot" /\ worker # {}
                      \/ Stage(j) = "fetch" /\ j \in worker
                      \/ Stage(j) = "line" /\ holder \in Live \ {j} /\ CanStep(holder)
    BY DEF NobodyStranded
  <2>1. j \in Jobs /\ Stage(j) \in {"slot", "fetch", "line"}
    BY <2>0 DEF Live, CanStep, GoingDown, TypeOK, Run, Stages, Stage
  <2>2. CASE Stage(j) = "slot"
    <3>1. permits = 0
      BY <2>0, <2>2 DEF CanStep
    <3>2. worker # {}
      BY <2>0, <3>1, FS_EmptySet DEF SlotsOwned
    <3> QED BY <2>2, <3>2
  <2>3. CASE Stage(j) = "fetch"
    BY <2>3 DEF CanStep
  <2>4. CASE Stage(j) = "line"
    <3>1. holder \in Jobs /\ Stage(holder) \in {"model", "unwinding"}
      BY <2>0, <2>4 DEF CanStep, OneTurn
    <3> QED BY <2>4, <3>1 DEF Live, CanStep, GoingDown
  <2> QED BY <2>1, <2>2, <2>3, <2>4
<1> QED BY <1>1, ServiceHolds, PTL

-----------------------------------------------------------------------------
(* The job table as a reader sees it                                       *)

Status == [j \in Jobs |-> row[j].status]

LEMMA OneStatus ==
    ASSUME NEW j \in Jobs, NEW s, row'[j].status = s,
           \A k \in Jobs : k # j => row'[k] = row[k]
    PROVE  Status' = [Status EXCEPT ![j] = s]
BY DEF Status

\* Every step of a task and of the handlers admits, begins or ends one job, or leaves
\* all statuses alone; a crash recovers them.
LEMMA ServiceLifecycleStep == TaskInv /\ [Next]_vars => Lifecycle!Next \/ Status' = Status
<1> SUFFICES ASSUME TaskInv, [Next]_vars PROVE Lifecycle!Next \/ Status' = Status
  OBVIOUS
<1>0. TypeOK /\ RowsMatchTasks
  BY DEF TaskInv
<1>1. CASE row' = row
  BY <1>1 DEF Status
<1>2. ASSUME NEW j \in Jobs, NEW s \in Lifecycle!Ended, row'[j].status = s,
             \A k \in Jobs : k # j => row'[k] = row[k],
             \/ row[j].status = "running" /\ s # "interrupted"
             \/ row[j].status = "queued" /\ s \in {"cancelled", "failed", "completed"}
      PROVE  Lifecycle!Next
  <2>1. Lifecycle!Finish(j, s)
    BY <1>2, OneStatus DEF Lifecycle!Finish, Status
  <2> QED BY <2>1 DEF Lifecycle!Next
<1>3. ASSUME NEW j \in Jobs, NEW kind \in Kinds, Submit(j, kind) PROVE Lifecycle!Next
  <2>1. /\ row[j].status = "none" /\ row'[j].status = "queued"
        /\ \A k \in Jobs : k # j => row'[k] = row[k]
    BY <1>0, <1>3 DEF Submit, TypeOK
  <2>2. Lifecycle!Admit(j)
    BY <2>1, OneStatus DEF Lifecycle!Admit, Status
  <2> QED BY <2>2 DEF Lifecycle!Next
<1>4. ASSUME NEW j \in Jobs, RunStep(j) PROVE Lifecycle!Next \/ Status' = Status
  <2>1. Outcome(j) /\ Stage(j) \in Suspended \cup {"ready"}
    BY <1>0, <1>4, RunOutcome
  <2>2. row[j].status \in Active
    BY <1>0, <2>1 DEF RowsMatchTasks, Suspended, Active
  <2>3. \A k \in Jobs : k # j => row'[k] = row[k]
    BY <2>1 DEF Outcome, Others
  <2>4. CASE Ended(j)
    <3>1. PICK s \in {"cancelled", "failed", "needs_identity", "completed"} :
             row'[j].status = s /\ (row[j].status = "queued" => s # "needs_identity")
      BY <2>4 DEF Ended
    <3> QED BY <1>2, <2>2, <2>3, <3>1 DEF Lifecycle!Ended, Active
  <2>5. CASE row'[j].status = row[j].status
    BY <2>3, <2>5 DEF Status
  <2>6. CASE row[j].status = "queued" /\ row'[j].status = "running"
    <3>1. Lifecycle!Begin(j)
      BY <2>3, <2>6, OneStatus DEF Lifecycle!Begin, Status
    <3> QED BY <3>1 DEF Lifecycle!Next
  <2>7. Moved(j) \/ Dropped(j) =>
           \/ row'[j].status = row[j].status
           \/ row[j].status = "queued" /\ row'[j].status = "running"
    BY <2>2 DEF Moved, Dropped, Active
  <2> QED BY <2>1, <2>4, <2>5, <2>6, <2>7 DEF Outcome
<1>5. ASSUME NEW j \in Jobs, CancelReturns(j) PROVE Lifecycle!Next \/ Status' = Status
  <2>1. CASE row[j].status \in Active
    <3>1. row' = [row EXCEPT ![j].status = "cancelled"] /\ row \in [Jobs -> Row]
      BY <1>0, <1>5, <2>1 DEF CancelReturns, TypeOK
    <3>2. row'[j].status = "cancelled" /\ \A k \in Jobs : k # j => row'[k] = row[k]
      BY <3>1 DEF Row
    <3> QED BY <1>2, <2>1, <3>2 DEF Lifecycle!Ended, Active
  <2>2. CASE row[j].status \notin Active
    BY <1>1, <1>5, <2>2 DEF CancelReturns
  <2> QED BY <2>1, <2>2
<1>6. ASSUME NEW j \in Jobs, Reap(j) \/ Cancel(j) \/ WorkerEnds(j) PROVE Status' = Status
  BY <1>6 DEF Reap, Cancel, WorkerEnds, Status
<1>7. ASSUME NEW lost \in {{}} \cup {{j} : j \in Jobs}, Crash(lost) PROVE Lifecycle!Next
  <2>1. \A j \in Jobs : row'[j].status = IF row[j].status \in Active THEN "interrupted"
                                                                     ELSE row[j].status
    <3>1. \A j \in Jobs : row[j] \in Row
      BY <1>0 DEF TypeOK
    <3> QED BY <1>7, <3>1 DEF Crash, Row
  <2>2. Lifecycle!Recover
    BY <2>1 DEF Lifecycle!Recover, Lifecycle!Active, Active, Status
  <2> QED BY <2>2 DEF Lifecycle!Next
<1>8. CASE SettingsStep
  BY <1>1, <1>8 DEF SettingsStep, AskCatalog, Save, SaveChecked, Refuse, Close, TasksGone,
     Drained, Store
<1>9. CASE UNCHANGED vars
  BY <1>1, <1>9 DEF vars
<1> QED BY <1>3, <1>4, <1>5, <1>6, <1>7, <1>8, <1>9 DEF Next, TaskStep

\* What tasks, handlers and recovery write into research_jobs is a behaviour of the
\* same JobLifecycle that the transactions of Library implement.
THEOREM ServiceImplementsLifecycle == Spec => LifecycleSpec
<1>1. Init => Lifecycle!Init
  BY DEF Init, Lifecycle!Init, NoRow
<1>2. TaskInv /\ ConsentInv /\ [Next]_vars => [Lifecycle!Next]_Status
  BY ServiceLifecycleStep
<1> QED BY <1>1, <1>2, ServiceHolds, PTL DEF Spec, LifecycleSpec, Lifecycle!Spec, Status

\* Neither a late task, a repeated cancel, a revocation nor a restart changes an ending,
\* and none of them sends running work back to the queue.
THEOREM ServiceStatusesFinal == Spec => Lifecycle!NeverReplayed
<1> DEFINE Final == \A j \in Jobs :
           /\ Status[j] \in Lifecycle!Ended => Status'[j] \in {Status[j], "none"}
           /\ Status[j] = "running" => Status'[j] \in Lifecycle!Ended \cup {"running"}
           /\ Status[j] = "queued" => Status'[j] # "none"
<1>1. ASSUME Lifecycle!Next PROVE Final
  <2>1. ASSUME NEW j \in Jobs,
               \/ Lifecycle!Admit(j) \/ Lifecycle!Begin(j)
               \/ \E s \in Lifecycle!Ended : Lifecycle!Finish(j, s)
        PROVE  Final
    BY <1>1, <2>1 DEF Lifecycle!Admit, Lifecycle!Begin, Lifecycle!Finish, Lifecycle!Ended, Status
  <2>2. CASE Lifecycle!Recover
    BY <1>1, <2>2 DEF Lifecycle!Recover, Lifecycle!Ended, Lifecycle!Active, Status
  <2>3. ASSUME NEW S \in SUBSET Jobs, Lifecycle!Remove(S) PROVE Final
    BY <1>1, <2>3 DEF Lifecycle!Remove, Lifecycle!Ended, Status
  <2> QED BY <1>1, <2>1, <2>2, <2>3 DEF Lifecycle!Next
<1>2. TaskInv /\ ConsentInv /\ [Next]_vars => [Final]_Status
  BY <1>1, ServiceLifecycleStep
<1> QED BY <1>2, ServiceHolds, PTL DEF Spec, Lifecycle!NeverReplayed, Status
=============================================================================
