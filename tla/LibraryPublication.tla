------------------------- MODULE LibraryPublication ------------------------
(***************************************************************************)
(* Proofs of what the library promises about publication: answers keep the *)
(* scope of their question, pages and conversations show versions of their *)
(* own asset, checkpoints never pass for answers, and so on.  Integrity of *)
(* the references, proved in LibraryIntegrity, is what most of it rests    *)
(* on: a new version takes an id that nothing refers to, so it changes no  *)
(* version a page, a conversation or a job already shows.  The last part   *)
(* proves that the library implements JobLifecycle.                        *)
(***************************************************************************)
EXTENDS LibraryIntegrity

\* Why a term is explained once although submit does not read the job table: a term
\* job that runs is the one remembered in memory, and what is remembered with work
\* ahead has no saved explanation.  A row without a task may stand beside it.
TermTasks ==
    /\ \A j \in Jobs : job[j].kind = "term" /\ job[j].status = "running" =>
          pending[job[j].about] = j
    /\ \A b \in Bundles, j \in Jobs : pending[b] = j /\ Running(j) => b \notin terms

\* The result column of a term job is filled by complete_term alone.
TermResults ==
    \A j \in Jobs : Exists(j) /\ job[j].kind = "term" =>
        job[j].result = IF job[j].status = "completed" THEN job[j].about ELSE None

Publication ==
    /\ Integrity
    /\ ScopeFrozen /\ ScopesAgree /\ CheckpointsLabelled
    /\ AnswersPublished /\ TermTasks /\ TermResults /\ HeldEvidenceStays

\* The answers of a conversation as its jobs tell them.
Results(c) == {job[j].result : j \in {k \in Jobs : job[k].conv = c
                                      /\ job[k].status = "completed"}} \ {None}

LEMMA PublicationInit == Init => Publication
<1> SUFFICES ASSUME Init PROVE Publication
  OBVIOUS
<1>1. Integrity
  BY IntegrityInit
<1>2. \A j \in Jobs : job[j] = NoJob
  BY DEF Init
<1>3. ScopeFrozen /\ CheckpointsLabelled /\ TermTasks /\ TermResults /\ HeldEvidenceStays
  BY <1>2 DEF ScopeFrozen, CheckpointsLabelled, TermTasks, TermResults, HeldEvidenceStays,
     NoJob, Running, Active, Exists
<1>4. ScopesAgree /\ AnswersPublished
  BY DEF Init, ScopesAgree, AnswersPublished, Open, NoConv
<1> QED BY <1>1, <1>3, <1>4 DEF Publication

-----------------------------------------------------------------------------
(* Steps that touch neither versions, pages, jobs nor scopes               *)

LEMMA QuietStep ==
    ASSUME Publication, Integrity',
           bundle' = bundle, page' = page, job' = job, terms' = terms, pending' = pending,
           \A c \in Convs : conv'[c].asset = conv[c].asset /\ conv'[c].ctx = conv[c].ctx
                            /\ conv'[c].answers = conv[c].answers
    PROVE  Publication'
<1>0. TypeOK
  BY DEF Publication, Integrity
<1>1. ScopeFrozen'
  BY <1>0 DEF Publication, ScopeFrozen, Running, TypeOK, JobRow
<1>2. ScopesAgree'
  BY <1>0 DEF Publication, ScopesAgree, Open
<1>3. CheckpointsLabelled' /\ HeldEvidenceStays'
  BY DEF Publication, CheckpointsLabelled, HeldEvidenceStays, Stored
<1>4. AnswersPublished'
  BY <1>0 DEF Publication, AnswersPublished, Open
<1>5. TermTasks' /\ TermResults'
  BY DEF Publication, TermTasks, TermResults, Running, Exists
<1> QED BY <1>1, <1>2, <1>3, <1>4, <1>5 DEF Publication

LEMMA QuietActions ==
    ASSUME Publication, Integrity',
           \/ \E c \in Convs : Age(c) \/ \E flag \in BOOLEAN : Bookmark(c, flag)
           \/ \E a \in Assets : AskRefresh(a) \/ DropRequest(a)
           \/ \E k \in Items : DeleteItem(k) \/ \E cites \in SUBSET Bundles : SaveItem(k, cites)
    PROVE  Publication'
<1>0. TypeOK
  BY DEF Publication, Integrity
<1>1. bundle' = bundle /\ page' = page /\ job' = job /\ terms' = terms /\ pending' = pending
  BY DEF Age, Bookmark, AskRefresh, DropRequest, DeleteItem, SaveItem
<1>2. \A c \in Convs : conv'[c].asset = conv[c].asset /\ conv'[c].ctx = conv[c].ctx
                       /\ conv'[c].answers = conv[c].answers
  <2>1. ASSUME NEW c \in Convs, Age(c)
        PROVE  \A d \in Convs : conv'[d].asset = conv[d].asset /\ conv'[d].ctx = conv[d].ctx
                                /\ conv'[d].answers = conv[d].answers
    BY <1>0, <2>1 DEF Age, TypeOK, ConvRow
  <2>2. ASSUME NEW c \in Convs, NEW flag \in BOOLEAN, Bookmark(c, flag)
        PROVE  \A d \in Convs : conv'[d].asset = conv[d].asset /\ conv'[d].ctx = conv[d].ctx
                                /\ conv'[d].answers = conv[d].answers
    BY <1>0, <2>2 DEF Bookmark, TypeOK, ConvRow
  <2>3. CASE conv' = conv
    BY <2>3
  <2> QED BY <2>1, <2>2, <2>3 DEF AskRefresh, DropRequest, DeleteItem, SaveItem
<1> QED BY <1>1, <1>2, QuietStep

-----------------------------------------------------------------------------
(* Conversations                                                           *)

\* A scope is chosen only while no answer is in flight, for a version of the
\* instrument that the page of the asset shows.
LEMMA ScopeStep ==
    ASSUME Publication, Integrity', NEW c \in Convs, NEW a \in Assets, NEW v \in Bundles,
           CreateConversation(c, a, v) \/ ChangeScope(c, a, v)
    PROVE  Publication'
<1>0. /\ TypeOK /\ JobRefs /\ PageRefs
      /\ None \notin Bundles /\ None \notin Assets /\ None \notin Convs
  BY NoneAssumption DEF Publication, Integrity, RefsResolve
<1>1. /\ bundle' = bundle /\ page' = page /\ job' = job /\ terms' = terms /\ pending' = pending
      /\ page[a] # None /\ Fingerprint(v) = Fingerprint(page[a])
  BY DEF CreateConversation, ChangeScope, ContextOK, SameIdentity
<1>2. /\ conv'[c].asset = a /\ conv'[c].ctx = v
      /\ conv'[c].answers = IF Open(c) THEN conv[c].answers ELSE {}
      /\ \A d \in Convs : d # c => conv'[d] = conv[d]
  <2>1. CASE CreateConversation(c, a, v)
    BY <1>0, <2>1 DEF CreateConversation, NoConv, TypeOK
  <2>2. CASE ChangeScope(c, a, v)
    BY <1>0, <2>2 DEF ChangeScope, TypeOK, ConvRow
  <2> QED BY <2>1, <2>2
<1>3. \A j \in Jobs : job[j].conv = c => ~ Running(j)
  BY <1>0 DEF CreateConversation, ChangeScope, ActiveIn, JobRefs, Exists, Running, Active
<1>4. ~ Open(c) => \A j \in Jobs : job[j].conv = c => ~ Exists(j)
  BY <1>0 DEF JobRefs
<1>5. ScopeFrozen'
  BY <1>0, <1>1, <1>2, <1>3 DEF Publication, ScopeFrozen, Running, TypeOK, JobRow
<1>6. ScopesAgree'
  <2>1. bundle[v].asset = a
    BY <1>0, <1>1 DEF Publication, ScopesAgree, Fingerprint
  <2> QED BY <1>0, <1>1, <1>2, <2>1 DEF Publication, ScopesAgree, Open
<1>7. CheckpointsLabelled' /\ TermTasks' /\ TermResults' /\ HeldEvidenceStays'
  BY <1>1 DEF Publication, CheckpointsLabelled, TermTasks, TermResults, HeldEvidenceStays,
     Running, Exists, Stored
<1>8. AnswersPublished'
  <2> SUFFICES ASSUME NEW d \in Convs, Open(d)'
               PROVE  /\ conv'[d].answers = Results(d)
                      /\ \A b \in conv'[d].answers : bundle[b].complete
    BY <1>1 DEF AnswersPublished, Results
  <2>1. CASE Open(d)
    BY <1>2, <2>1 DEF Publication, AnswersPublished, Results
  <2>2. CASE ~ Open(d)
    <3>1. d = c
      BY <1>2, <2>2 DEF Open
    <3>2. Results(c) = {}
      BY <1>4, <2>2, <3>1 DEF Results, Exists
    <3> QED BY <1>2, <2>2, <3>1, <3>2
  <2> QED BY <2>1, <2>2
<1> QED BY <1>5, <1>6, <1>7, <1>8 DEF Publication

\* Conversations go with all their jobs.
LEMMA RemovalStep ==
    ASSUME Publication, Integrity', NEW C \in SUBSET Convs, RemoveConversations(C)
    PROVE  Publication'
<1>0. TypeOK /\ None \notin Convs
  BY NoneAssumption DEF Publication, Integrity
<1>1. /\ bundle' = bundle /\ page' = page /\ terms' = terms /\ pending' = pending
      /\ \A c \in Convs : conv'[c] = IF c \in C THEN NoConv ELSE conv[c]
      /\ \A j \in Jobs : job'[j] = IF job[j].conv \in C THEN NoJob ELSE job[j]
  BY DEF RemoveConversations
<1>2. ScopeFrozen'
  BY <1>0, <1>1 DEF Publication, ScopeFrozen, Running, Active, NoJob, TypeOK, JobRow
<1>3. ScopesAgree'
  BY <1>0, <1>1 DEF Publication, ScopesAgree, Open, NoConv
<1>4. CheckpointsLabelled' /\ HeldEvidenceStays'
  BY <1>1 DEF Publication, CheckpointsLabelled, HeldEvidenceStays, NoJob, Stored
<1>5. TermTasks' /\ TermResults'
  BY <1>1 DEF Publication, TermTasks, TermResults, Running, Active, Exists, NoJob
<1>6. AnswersPublished'
  <2> SUFFICES ASSUME NEW c \in Convs, Open(c)'
               PROVE  /\ (conv[c].answers = Results(c))'
                      /\ (\A b \in conv[c].answers : bundle[b].complete)'
    BY DEF AnswersPublished, Results
  <2>1. c \notin C /\ Open(c) /\ conv'[c] = conv[c]
    BY <1>1 DEF Open, NoConv
  <2>2. {k \in Jobs : job'[k].conv = c /\ job'[k].status = "completed"}
        = {k \in Jobs : job[k].conv = c /\ job[k].status = "completed"}
    BY <1>0, <1>1, <2>1 DEF NoJob
  <2>3. \A k \in Jobs : job[k].conv = c => job'[k] = job[k]
    BY <1>1, <2>1
  <2>4. Results(c)' = Results(c)
    BY <2>2, <2>3 DEF Results
  <2> QED BY <1>1, <2>1, <2>4 DEF Publication, AnswersPublished, Results
<1> QED BY <1>2, <1>3, <1>4, <1>5, <1>6 DEF Publication

-----------------------------------------------------------------------------
(* Jobs                                                                    *)

\* A step that changes one job without completing it, with or without a result.
LEMMA ResultsKept ==
    ASSUME NEW j \in Jobs, \A k \in Jobs : k # j => job'[k] = job[k],
           job[j].status # "completed" \/ job[j].conv = None,
           job'[j].status # "completed" \/ job'[j].conv = None \/ job'[j].result = None,
           None \notin Convs
    PROVE  \A c \in Convs : Results(c)' = Results(c)
<1> SUFFICES ASSUME NEW c \in Convs, NEW b
             PROVE  b \in Results(c)' <=> b \in Results(c)
  BY DEF Results
<1>1. b \in Results(c) <=> b # None /\ \E k \in Jobs :
          k # j /\ job[k].conv = c /\ job[k].status = "completed" /\ job[k].result = b
  BY DEF Results
<1>2. b \in Results(c)' <=> b # None /\ \E k \in Jobs :
          k # j /\ job'[k].conv = c /\ job'[k].status = "completed" /\ job'[k].result = b
  BY DEF Results
<1> QED BY <1>1, <1>2

\* A step that changes the row of one job, neither publishes nor admits a term.
LEMMA OneJobStep ==
    ASSUME Publication, Integrity', NEW j \in Jobs, \A k \in Jobs : k # j => job'[k] = job[k],
           bundle' = bundle, page' = page, terms' = terms, pending' = pending,
           \A c \in Convs : conv'[c].asset = conv[c].asset /\ conv'[c].ctx = conv[c].ctx
                            /\ conv'[c].answers = conv[c].answers,
           job[j].status # "completed",
           job'[j].status \in Active => Running(j) \/ \A b \in Bundles : pending[b] # j,
           job'[j].status = "completed" => job'[j].result = None,
           job'[j].status \in Active /\ job'[j].conv # None =>
               /\ conv[job'[j].conv].asset = job'[j].asset
               /\ conv[job'[j].conv].ctx = job'[j].about,
           job'[j].result # None =>
               /\ job'[j].result = job[j].result /\ job'[j].kind = job[j].kind
               /\ job'[j].status \in {"running", "failed", "cancelled", "interrupted"},
           job'[j].previous # None => Stored(job'[j].previous),
           job'[j].kind = "term" =>
               /\ job[j].kind = "term" /\ job'[j].about = job[j].about /\ Exists(j)
               /\ job'[j].status = "running" => pending[job[j].about] = j
               /\ job'[j].status # "completed"
    PROVE  Publication'
<1>0. TypeOK /\ TypeOK' /\ None \notin Convs
  BY NoneAssumption DEF Publication, Integrity
<1>1. ScopeFrozen'
  <2> SUFFICES ASSUME NEW k \in Jobs, job'[k].status \in Active, job'[k].conv # None
               PROVE  /\ conv'[job'[k].conv].asset = job'[k].asset
                      /\ conv'[job'[k].conv].ctx = job'[k].about
    BY DEF ScopeFrozen, Running
  <2>1. job'[k].conv \in Convs
    BY <1>0 DEF TypeOK, JobRow
  <2> QED BY <2>1 DEF Publication, ScopeFrozen, Running
<1>2. ScopesAgree'
  BY <1>0 DEF Publication, ScopesAgree, Open
<1>3. CheckpointsLabelled'
  BY DEF Publication, CheckpointsLabelled
<1>4. HeldEvidenceStays'
  BY DEF Publication, HeldEvidenceStays, Stored
<1>5. AnswersPublished'
  BY <1>0, ResultsKept DEF Publication, AnswersPublished, Open, Results
<1>6. TermTasks'
  BY DEF Publication, TermTasks, Running
<1>7. TermResults'
  BY DEF Publication, TermResults, Exists
<1> QED BY <1>1, <1>2, <1>3, <1>4, <1>5, <1>6, <1>7 DEF Publication

LEMMA RequestSteps ==
    ASSUME Publication, Integrity', NEW j \in Jobs,
           \/ \E a \in Assets \cup {None} : QueueResearch(j, a)
           \/ \E c \in Convs : QueueFollowUp(j, c)
           \/ Start(j)
           \/ \E status \in JobStatus : Finish(j, status)
    PROVE  Publication'
<1>0. /\ TypeOK /\ JobRowsMatchKind /\ JobRefs /\ PageRefs
      /\ ScopeFrozen /\ CheckpointsLabelled /\ TermResults
      /\ None \notin Bundles /\ None \notin Assets /\ None \notin Convs
  BY NoneAssumption DEF Publication, Integrity, RefsResolve
<1>1. ASSUME NEW a \in Assets \cup {None}, QueueResearch(j, a)
      PROVE  Publication'
  <2>1. /\ job'[j] = [NoJob EXCEPT !.status = "queued", !.asset = a]
        /\ \A k \in Jobs : k # j => job'[k] = job[k]
        /\ bundle' = bundle /\ page' = page /\ terms' = terms /\ conv' = conv
        /\ job[j].status = "none" /\ pending' = pending /\ \A b \in Bundles : pending[b] # j
    BY <1>0, <1>1 DEF QueueResearch, TypeOK, Unused, Exists
  <2>2. /\ job'[j].conv = None /\ job'[j].result = None /\ job'[j].previous = None
        /\ job'[j].kind = "research" /\ job'[j].status = "queued"
    BY <2>1 DEF NoJob
  <2> QED BY <2>1, <2>2, OneJobStep
<1>2. ASSUME NEW c \in Convs, QueueFollowUp(j, c)
      PROVE  Publication'
  <2>1. /\ job'[j] = [NoJob EXCEPT !.status = "queued", !.conv = c,
                                   !.asset = conv[c].asset, !.about = conv[c].ctx]
        /\ \A k \in Jobs : k # j => job'[k] = job[k]
        /\ bundle' = bundle /\ page' = page /\ terms' = terms
        /\ job[j].status = "none" /\ pending' = pending /\ \A b \in Bundles : pending[b] # j
    BY <1>0, <1>2 DEF QueueFollowUp, TypeOK, Unused, Exists
  <2>2. /\ job'[j].conv = c /\ job'[j].asset = conv[c].asset /\ job'[j].about = conv[c].ctx
        /\ job'[j].result = None /\ job'[j].previous = None
        /\ job'[j].kind = "research" /\ job'[j].status = "queued"
    BY <2>1 DEF NoJob
  <2>3. \A d \in Convs : conv'[d].asset = conv[d].asset /\ conv'[d].ctx = conv[d].ctx
                         /\ conv'[d].answers = conv[d].answers
    <3>1. conv' = [conv EXCEPT ![c].idle = FALSE] /\ conv \in [Convs -> ConvRow]
      BY <1>0, <1>2 DEF QueueFollowUp, TypeOK
    <3> QED BY <3>1 DEF ConvRow
  <2> QED BY <2>1, <2>2, <2>3, OneJobStep
\* The saved scope a run reads is a version the request or the page refers to.
<1>3. CASE Start(j)
  <2>1. /\ \A k \in Jobs : k # j => job'[k] = job[k]
        /\ bundle' = bundle /\ page' = page /\ terms' = terms /\ conv' = conv
        /\ job[j].status = "queued" /\ pending' = pending
        /\ job[j].kind = "term" => pending[job[j].about] = j
    BY <1>0, <1>3, StartEffect DEF Start, HasTask
  <2>2. /\ job'[j].status = "running" /\ job'[j].kind = job[j].kind
        /\ job'[j].conv = job[j].conv /\ job'[j].asset = job[j].asset
        /\ job'[j].about = job[j].about /\ job'[j].result = job[j].result
        /\ job'[j].previous = SavedScope(j)
    BY <1>0, <1>3 DEF Start, TypeOK, JobRow
  <2>3. Exists(j) /\ Running(j) /\ job[j].asset \in Assets \cup {None}
    BY <1>0, <2>1 DEF Exists, Running, Active, TypeOK, JobRow
  <2>4. SavedScope(j) # None => Stored(SavedScope(j))
    BY <1>0, <2>3 DEF SavedScope, JobRefs, PageRefs
  <2>5. job[j].result = None
    BY <1>0, <2>1, <2>3 DEF CheckpointsLabelled, TermResults, TypeOK, JobRow
  <2>6. job[j].conv # None => /\ conv[job[j].conv].asset = job[j].asset
                              /\ conv[job[j].conv].ctx = job[j].about
    BY <1>0, <2>3 DEF ScopeFrozen
  <2> QED BY <2>1, <2>2, <2>3, <2>4, <2>5, <2>6, OneJobStep
<1>4. ASSUME NEW status \in JobStatus, Finish(j, status)
      PROVE  Publication'
  <2>1. /\ \A k \in Jobs : k # j => job'[k] = job[k]
        /\ bundle' = bundle /\ page' = page /\ terms' = terms /\ conv' = conv
        /\ job'[j].status = status /\ job'[j].kind = job[j].kind
        /\ job'[j].about = job[j].about /\ job'[j].previous = None
        /\ job'[j].result = IF status \in KeepsCheckpoint THEN job[j].result ELSE None
        /\ Exists(j) /\ pending' = pending
    <3>1. bundle' = bundle /\ page' = page /\ terms' = terms /\ conv' = conv /\ pending' = pending
      BY <1>4 DEF Finish
    <3> QED BY <1>0, <1>4, <3>1, FinishEffect
  <2>2. /\ job[j].status # "completed"
        /\ status \in {"cancelled", "failed", "needs_identity", "completed"}
        /\ job[j].kind = "term" => status # "completed"
    BY <1>4 DEF Finish, Absorbing
  <2>3. job'[j].status \notin Active
    BY <2>1, <2>2 DEF Active
  <2>4. job'[j].result # None => status \in {"cancelled", "failed"}
    BY <2>1, <2>2 DEF KeepsCheckpoint
  <2> QED BY <2>1, <2>2, <2>3, <2>4, OneJobStep DEF KeepsCheckpoint
<1> QED BY <1>1, <1>2, <1>3, <1>4

\* A new version takes an id that no page, conversation, job or answer refers to.
LEMMA NewVersion ==
    ASSUME Publication, NEW b \in Bundles, ~ Stored(b),
           \A o \in Bundles : o # b => bundle'[o] = bundle[o]
    PROVE  /\ \A o : Stored(o) => o # b /\ bundle'[o] = bundle[o]
           /\ \A a \in Assets : page[a] # None => page[a] # b /\ bundle'[page[a]] = bundle[page[a]]
           /\ \A c \in Convs : Open(c) =>
                 /\ conv[c].ctx # b /\ bundle'[conv[c].ctx] = bundle[conv[c].ctx]
                 /\ \A o \in conv[c].answers : o # b /\ bundle'[o] = bundle[o]
           /\ \A j \in Jobs : job[j].kind = "research" /\ job[j].result # None =>
                 job[j].result # b /\ bundle'[job[j].result] = bundle[job[j].result]
<1>0. PageRefs /\ ConversationRefs /\ JobRefs /\ CheckpointsLabelled
  BY DEF Publication, Integrity, RefsResolve
<1>1. \A o : Stored(o) => o # b /\ bundle'[o] = bundle[o]
  BY DEF Stored
<1>2. \A a \in Assets : page[a] # None => Stored(page[a])
  BY <1>0 DEF PageRefs
<1>3. \A c \in Convs : Open(c) => Stored(conv[c].ctx) /\ \A o \in conv[c].answers : Stored(o)
  BY <1>0 DEF ConversationRefs, Messages
<1>4. \A j \in Jobs : job[j].kind = "research" /\ job[j].result # None => Stored(job[j].result)
  BY <1>0 DEF JobRefs, CheckpointsLabelled, Exists
<1> QED BY <1>1, <1>2, <1>3, <1>4

LEMMA CheckpointStep ==
    ASSUME Publication, Integrity', NEW j \in Jobs, NEW b \in Bundles, NEW a \in Assets,
           NEW i \in Idents, Checkpoint(j, b, a, i)
    PROVE  Publication'
<1>0. TypeOK /\ TypeOK' /\ ConversationRefs /\ None \notin Convs
  BY NoneAssumption DEF Publication, Integrity, RefsResolve
<1>1. /\ job[j].status = "running" /\ job[j].kind = "research" /\ ~ Stored(b)
      /\ \A k \in Jobs : k # j => job'[k] = job[k]
      /\ job'[j].status = "running" /\ job'[j].kind = "research" /\ job'[j].result = b
      /\ job'[j].conv = job[j].conv /\ job'[j].asset = job[j].asset
      /\ job'[j].about = job[j].about /\ job'[j].previous = job[j].previous
  BY <1>0 DEF Checkpoint, TypeOK, JobRow
<1>2. /\ page' = page /\ conv' = conv /\ terms' = terms /\ pending' = pending
      /\ \A o \in Bundles : o # b => bundle'[o] = bundle[o]
      /\ bundle'[b].complete = FALSE
  BY <1>0 DEF Checkpoint, TypeOK, NoBundle
<1>3. ScopeFrozen'
  BY <1>1, <1>2 DEF Publication, ScopeFrozen, Running
<1>4. ScopesAgree'
  BY <1>1, <1>2, NewVersion DEF Publication, ScopesAgree, Open
<1>5. CheckpointsLabelled'
  BY <1>1, <1>2, NewVersion DEF Publication, CheckpointsLabelled
<1>6. AnswersPublished'
  <2>1. \A c \in Convs : Results(c)' = Results(c)
    BY <1>0, <1>1, ResultsKept
  <2> QED BY <1>1, <1>2, <2>1, NewVersion DEF Publication, AnswersPublished, Open, Results
<1>7. HeldEvidenceStays'
  BY <1>1, <1>2, NewVersion DEF Publication, HeldEvidenceStays, Stored
<1>8. TermTasks' /\ TermResults'
  BY <1>1, <1>2 DEF Publication, TermTasks, TermResults, Running, Exists
<1> QED BY <1>3, <1>4, <1>5, <1>6, <1>7, <1>8 DEF Publication

\* The answer, the reference to it, its job and its event appear together.
LEMMA CompleteStep ==
    ASSUME Publication, Integrity', NEW j \in Jobs, NEW b \in Bundles, NEW a \in Assets,
           NEW i \in Idents, Complete(j, b, a, i)
    PROVE  Publication'
<1>0. /\ TypeOK /\ TypeOK'
      /\ None \notin Convs /\ None \notin Bundles /\ None \notin Assets
  BY NoneAssumption DEF Publication, Integrity, RefsResolve
<1>1. /\ job[j].status = "running" /\ job[j].kind = "research" /\ ~ Stored(b)
      /\ \A k \in Jobs : k # j => job'[k] = job[k]
      /\ job'[j].status = "completed" /\ job'[j].kind = "research" /\ job'[j].result = b
      /\ job'[j].conv = job[j].conv /\ job'[j].previous = None
      /\ terms' = terms /\ pending' = pending
  <2>1. ~ Stored(b) /\ terms' = terms /\ pending' = pending
    BY DEF Complete
  <2> QED BY <1>0, <2>1, CompleteEffect
<1>2. /\ \A o \in Bundles : o # b => bundle'[o] = bundle[o]
      /\ bundle'[b].complete = TRUE /\ bundle'[b].asset = a
  BY <1>0 DEF Complete, TypeOK
<1>3. /\ job[j].conv = None => /\ \A d \in Assets : page'[d] = IF d = a THEN b ELSE page[d]
                               /\ conv' = conv
      /\ job[j].conv # None => page' = page
  BY <1>0 DEF Complete, TypeOK
<1>4. /\ \A c \in Convs : conv'[c].asset = conv[c].asset /\ conv'[c].ctx = conv[c].ctx
      /\ \A c \in Convs : conv'[c].answers = IF c = job[j].conv THEN conv[c].answers \cup {b}
                                                                 ELSE conv[c].answers
  <2>1. CASE job[j].conv = None
    BY <1>0, <1>3, <2>1
  <2>2. CASE job[j].conv # None
    <3> DEFINE d == job[j].conv
    <3>1. d \in Convs /\ conv \in [Convs -> ConvRow]
      BY <1>0, <2>2 DEF TypeOK, JobRow
    <3>2. conv' = [conv EXCEPT ![d].answers = @ \cup {b}, ![d].idle = FALSE]
      BY <2>2 DEF Complete
    <3> QED BY <3>1, <3>2 DEF ConvRow
  <2> QED BY <2>1, <2>2
<1>5. ScopeFrozen'
  BY <1>0, <1>1, <1>4 DEF Publication, ScopeFrozen, Running, Active, TypeOK, JobRow
<1>6. ScopesAgree'
  <2>1. \A d \in Assets : page'[d] # None =>
            bundle'[page'[d]].asset = d /\ bundle'[page'[d]].complete
    BY <1>1, <1>2, <1>3, NewVersion DEF Publication, ScopesAgree
  <2>2. \A c \in Convs : Open(c)' => bundle'[conv'[c].ctx].asset = conv'[c].asset
    BY <1>1, <1>2, <1>4, NewVersion DEF Publication, ScopesAgree, Open
  <2> QED BY <2>1, <2>2 DEF ScopesAgree
<1>7. CheckpointsLabelled'
  BY <1>1, <1>2, NewVersion DEF Publication, CheckpointsLabelled
<1>8. AnswersPublished'
  <2> SUFFICES ASSUME NEW c \in Convs, Open(c)'
               PROVE  /\ conv'[c].answers = Results(c)'
                      /\ \A o \in conv'[c].answers : bundle'[o].complete
    BY DEF AnswersPublished, Results
  <2>1. Open(c) /\ conv[c].answers = Results(c) /\ \A o \in conv[c].answers : bundle[o].complete
    BY <1>4 DEF Open, Publication, AnswersPublished, Results
  <2>2. Results(c)' = IF c = job[j].conv THEN Results(c) \cup {b} ELSE Results(c)
    <3> SUFFICES ASSUME NEW o
                 PROVE  o \in Results(c)' <=> o \in Results(c) \/ (c = job[j].conv /\ o = b)
      BY DEF Results
    <3>1. o \in Results(c) <=> o # None /\ \E k \in Jobs :
              k # j /\ job[k].conv = c /\ job[k].status = "completed" /\ job[k].result = o
      BY <1>1 DEF Results
    <3>2. o \in Results(c)' <=> o # None /\ \E k \in Jobs :
              job'[k].conv = c /\ job'[k].status = "completed" /\ job'[k].result = o
      BY DEF Results
    <3> QED BY <1>0, <1>1, <3>1, <3>2
  <2>3. \A o \in conv'[c].answers : bundle'[o].complete
    <3> SUFFICES ASSUME NEW o \in conv'[c].answers PROVE bundle'[o].complete
      OBVIOUS
    <3>1. o = b \/ o \in conv[c].answers
      BY <1>4
    <3>2. CASE o \in conv[c].answers
      <4>1. bundle'[o] = bundle[o]
        BY <1>1, <1>2, <2>1, <3>2, NewVersion
      <4> QED BY <2>1, <3>2, <4>1
    <3> QED BY <1>2, <3>1, <3>2
  <2> QED BY <1>4, <2>1, <2>2, <2>3
<1>9. HeldEvidenceStays'
  BY <1>1, <1>2, NewVersion DEF Publication, HeldEvidenceStays, Stored
<1>10. TermTasks' /\ TermResults'
  BY <1>1 DEF Publication, TermTasks, TermResults, Running, Active, Exists
<1> QED BY <1>5, <1>6, <1>7, <1>8, <1>9, <1>10 DEF Publication

-----------------------------------------------------------------------------
(* Terms                                                                   *)

LEMMA QueueTermStep ==
    ASSUME Publication, Integrity', NEW j \in Jobs, NEW b \in Bundles, QueueTerm(j, b)
    PROVE  Publication'
<1>0. TypeOK /\ JobRowsMatchKind /\ None \notin Convs /\ None \notin Jobs
  BY NoneAssumption DEF Publication, Integrity
<1>1. /\ job[j].status = "none" /\ \A k \in Jobs : k # j => job'[k] = job[k]
      /\ job'[j] = [NoJob EXCEPT !.status = "queued", !.kind = "term", !.about = b]
      /\ bundle' = bundle /\ page' = page /\ terms' = terms /\ conv' = conv
      /\ b \notin terms /\ pending[b] = None /\ \A d \in Bundles : pending[d] # j
      /\ \A d \in Bundles : pending'[d] = IF d = b THEN j ELSE pending[d]
  BY <1>0 DEF QueueTerm, TypeOK, Unused, Exists
<1>2. /\ job'[j].status = "queued" /\ job'[j].kind = "term" /\ job'[j].about = b
      /\ job'[j].result = None /\ job'[j].previous = None /\ job'[j].conv = None
  BY <1>1 DEF NoJob
<1>3. ScopeFrozen' /\ ScopesAgree' /\ CheckpointsLabelled' /\ HeldEvidenceStays'
  <2>1. ScopeFrozen' /\ ScopesAgree'
    <3>1. ScopeFrozen'
      BY <1>1, <1>2 DEF Publication, ScopeFrozen, Running
    <3>2. ScopesAgree'
      BY <1>1 DEF Publication, ScopesAgree, Open
    <3> QED BY <3>1, <3>2
  <2>2. CheckpointsLabelled'
    BY <1>1, <1>2 DEF Publication, CheckpointsLabelled
  <2>3. HeldEvidenceStays'
    BY <1>1, <1>2 DEF Publication, HeldEvidenceStays, Stored
  <2> QED BY <2>1, <2>2, <2>3
<1>4. AnswersPublished'
  BY <1>0, <1>1, <1>2, ResultsKept DEF Publication, AnswersPublished, Open, Results
\* The version had no task, so no job of it was running, and its explanation is not saved.
<1>5. TermTasks'
  <2>1. ASSUME NEW k \in Jobs, job'[k].kind = "term", job'[k].status = "running"
        PROVE  pending'[job'[k].about] = k
    <3>1. k # j /\ job'[k] = job[k] /\ pending[job[k].about] = k
      BY <1>1, <1>2, <2>1 DEF Publication, TermTasks
    <3>2. job[k].about \in Bundles
      BY <1>0, <2>1, <3>1 DEF JobRowsMatchKind
    <3> QED BY <1>0, <1>1, <3>1, <3>2
  <2>2. ASSUME NEW d \in Bundles, NEW k \in Jobs, pending'[d] = k, Running(k)'
        PROVE  d \notin terms'
    <3>1. CASE d = b
      BY <1>1, <3>1
    <3>2. CASE d # b
      BY <1>1, <2>2, <3>2 DEF Publication, TermTasks, Running
    <3> QED BY <3>1, <3>2
  <2> QED BY <2>1, <2>2 DEF TermTasks
<1>6. TermResults'
  BY <1>1, <1>2 DEF Publication, TermResults, Exists
<1> QED BY <1>3, <1>4, <1>5, <1>6 DEF Publication

LEMMA CompleteTermStep ==
    ASSUME Publication, Integrity', NEW j \in Jobs, CompleteTerm(j)
    PROVE  Publication'
<1>0. TypeOK /\ JobRowsMatchKind /\ None \notin Convs
  BY NoneAssumption DEF Publication, Integrity
<1>1. /\ job[j].status = "running" /\ job[j].kind = "term" /\ job[j].conv = None
      /\ \A k \in Jobs : k # j => job'[k] = job[k]
      /\ job'[j].status = "completed" /\ job'[j].kind = "term" /\ job'[j].conv = None
      /\ job'[j].about = job[j].about /\ job'[j].result = job[j].about
      /\ job'[j].previous = job[j].previous
  BY <1>0 DEF CompleteTerm, TypeOK, JobRow, JobRowsMatchKind
<1>2. /\ bundle' = bundle /\ page' = page /\ conv' = conv /\ pending' = pending
      /\ terms' = terms \cup {job[j].about}
  BY DEF CompleteTerm
<1>3. ScopeFrozen' /\ ScopesAgree' /\ CheckpointsLabelled' /\ HeldEvidenceStays'
  BY <1>1, <1>2 DEF Publication, ScopeFrozen, ScopesAgree, CheckpointsLabelled,
     HeldEvidenceStays, Running, Active, Open, Stored
<1>4. AnswersPublished'
  BY <1>0, <1>1, <1>2, ResultsKept DEF Publication, AnswersPublished, Open, Results
\* The version whose explanation is saved now is remembered for this job alone.
<1>5. TermTasks'
  <2>1. pending[job[j].about] = j /\ job[j].about \in Bundles
    BY <1>0, <1>1 DEF Publication, TermTasks, JobRowsMatchKind
  <2>2. ASSUME NEW d \in Bundles, NEW k \in Jobs, pending[d] = k, Running(k)'
        PROVE  d \notin terms'
    <3>1. k # j
      BY <1>1, <2>2 DEF Running, Active
    <3>2. d # job[j].about
      BY <2>1, <2>2, <3>1
    <3> QED BY <1>1, <1>2, <2>2, <3>1, <3>2 DEF Publication, TermTasks, Running
  <2> QED BY <1>1, <1>2, <2>2 DEF Publication, TermTasks
<1>6. TermResults'
  BY <1>1 DEF Publication, TermResults, Exists
<1> QED BY <1>3, <1>4, <1>5, <1>6 DEF Publication

\* A task is forgotten only when its job no longer runs.
LEMMA TermTaskStep ==
    ASSUME Publication, Integrity', NEW b \in Bundles, TermTaskOver(b)
    PROVE  Publication'
<1>0. TypeOK /\ None \notin Jobs
  BY NoneAssumption DEF Publication, Integrity
<1>1. /\ bundle' = bundle /\ page' = page /\ conv' = conv /\ terms' = terms /\ job' = job
      /\ \A d \in Bundles : pending'[d] = IF d = b THEN None ELSE pending[d]
      /\ job[pending[b]].status # "running"
  BY <1>0 DEF TermTaskOver, TypeOK
<1>2. ScopeFrozen' /\ ScopesAgree' /\ CheckpointsLabelled' /\ HeldEvidenceStays' /\ TermResults'
  BY <1>1 DEF Publication, ScopeFrozen, ScopesAgree, CheckpointsLabelled, HeldEvidenceStays,
     TermResults, Running, Open, Stored, Exists
<1>3. AnswersPublished'
  BY <1>1 DEF Publication, AnswersPublished, Open
<1>4. TermTasks'
  <2>1. ASSUME NEW j \in Jobs, job[j].kind = "term", job[j].status = "running"
        PROVE  pending'[job[j].about] = j
    <3>1. pending[job[j].about] = j /\ job[j].about \in Bundles
      BY <2>1 DEF Publication, TermTasks, Integrity, JobRowsMatchKind
    <3> QED BY <1>1, <2>1, <3>1
  <2>2. ASSUME NEW d \in Bundles, NEW k \in Jobs, pending'[d] = k, Running(k)
        PROVE  d \notin terms
    BY <1>0, <1>1, <2>2 DEF Publication, TermTasks
  <2> QED BY <1>1, <2>1, <2>2 DEF TermTasks, Running
<1> QED BY <1>2, <1>3, <1>4 DEF Publication

LEMMA DeleteTermStep ==
    ASSUME Publication, Integrity', NEW b \in Bundles, DeleteTerm(b)
    PROVE  Publication'
<1>0. TypeOK /\ JobRowsMatchKind /\ None \notin Convs
  BY NoneAssumption DEF Publication, Integrity
<1>1. /\ bundle' = bundle /\ page' = page /\ conv' = conv /\ terms' = terms \ {b}
      /\ pending' = pending
      /\ \A j \in Jobs : job'[j] = IF j \in TermJobs(b) THEN NoJob ELSE job[j]
  BY DEF DeleteTerm
<1>2. \A j \in TermJobs(b) : job[j].conv = None
  BY <1>0 DEF TermJobs, JobRowsMatchKind
<1>3. ScopeFrozen' /\ ScopesAgree' /\ CheckpointsLabelled' /\ HeldEvidenceStays'
  BY <1>1 DEF Publication, ScopeFrozen, ScopesAgree, CheckpointsLabelled,
     HeldEvidenceStays, Running, Active, Open, Stored, NoJob
<1>4. AnswersPublished'
  <2>1. ASSUME NEW c \in Convs
        PROVE  Results(c)' = Results(c)
    <3>1. \A k \in Jobs : job'[k].conv = c \/ job[k].conv = c => job'[k] = job[k]
      BY <1>0, <1>1, <1>2 DEF NoJob
    <3> QED BY <3>1 DEF Results
  <2> QED BY <1>1, <2>1 DEF Publication, AnswersPublished, Open, Results
<1>5. TermTasks' /\ TermResults'
  BY <1>1 DEF Publication, TermTasks, TermResults, Running, Active, Exists, NoJob
<1> QED BY <1>3, <1>4, <1>5 DEF Publication

-----------------------------------------------------------------------------
(* Maintenance and restart                                                 *)

\* Eviction runs while no job is active and takes only jobs of no conversation; what
\* still refers to a version afterwards refers to one that was not evicted.
LEMMA EvictStep ==
    ASSUME Publication, Integrity', IdleLibrary, NEW B \in SUBSET FreeBundles,
           NEW P \in SUBSET FreePages, NEW J \in SUBSET FreeJobs, Evict(B, P, J)
    PROVE  Publication'
<1>0. /\ TypeOK /\ JobRowsMatchKind /\ None \notin Convs /\ None \notin Bundles
      /\ PageRefs' /\ ConversationRefs' /\ JobRefs'
  BY NoneAssumption DEF Publication, Integrity, RefsResolve
<1>1. /\ conv' = conv /\ terms' = terms
      /\ \A b \in Bundles : bundle'[b] = IF b \in B THEN NoBundle ELSE bundle[b]
      /\ \A a \in Assets : page'[a] = IF a \in P THEN None ELSE page[a]
      /\ \A j \in Jobs : job'[j] = IF j \in J THEN NoJob ELSE job[j]
  BY DEF Evict
<1>2. \A b : Stored(b)' => bundle'[b] = bundle[b]
  BY <1>1 DEF Stored, NoBundle
<1>3. \A j \in Jobs : job'[j].status \notin Active
  BY <1>1 DEF IdleLibrary, Running, NoJob, Active
<1>4. ScopeFrozen' /\ HeldEvidenceStays'
  <2>1. \A j \in Jobs : job'[j].previous = None
    BY <1>0, <1>1 DEF IdleLibrary, Running, Active, JobRowsMatchKind, NoJob
  <2> QED BY <1>3, <2>1 DEF ScopeFrozen, HeldEvidenceStays, Running
<1>5. ScopesAgree'
  <2>1. \A a \in Assets : page'[a] # None =>
            page'[a] = page[a] /\ bundle'[page[a]] = bundle[page[a]]
    BY <1>0, <1>1, <1>2 DEF PageRefs
  <2>2. \A c \in Convs : Open(c) => bundle'[conv[c].ctx] = bundle[conv[c].ctx]
    BY <1>0, <1>1, <1>2 DEF ConversationRefs, Open
  <2> QED BY <1>1, <2>1, <2>2 DEF Publication, ScopesAgree, Open
<1>6. CheckpointsLabelled'
  <2> SUFFICES ASSUME NEW j \in Jobs, job'[j].kind = "research", job'[j].result # None
               PROVE  IF bundle'[job'[j].result].complete
                      THEN job'[j].status = "completed"
                      ELSE job'[j].status \in {"running", "failed", "cancelled", "interrupted"}
    BY DEF CheckpointsLabelled
  <2>1. j \notin J /\ job'[j] = job[j]
    BY <1>1 DEF NoJob
  <2>2. Exists(j)'
    BY <2>1 DEF Publication, CheckpointsLabelled, Exists
  <2>3. bundle'[job[j].result] = bundle[job[j].result]
    BY <1>0, <1>2, <2>1, <2>2 DEF JobRefs
  <2> QED BY <2>1, <2>3 DEF Publication, CheckpointsLabelled
<1>7. AnswersPublished'
  <2> SUFFICES ASSUME NEW c \in Convs, Open(c)
               PROVE  /\ conv[c].answers = Results(c)'
                      /\ \A b \in conv[c].answers : bundle'[b].complete
    BY <1>1 DEF AnswersPublished, Results, Open
  <2>1. \A j \in J : job[j].conv = None
    BY DEF FreeJobs, RootJob
  <2>2. \A k \in Jobs : job'[k].conv = c \/ job[k].conv = c => job'[k] = job[k]
    BY <1>0, <1>1, <2>1 DEF NoJob
  <2>3. Results(c)' = Results(c)
    BY <2>2 DEF Results
  <2>4. \A b \in conv[c].answers : bundle'[b] = bundle[b]
    BY <1>0, <1>1, <1>2 DEF ConversationRefs, Open, Messages
  <2> QED BY <2>3, <2>4 DEF Publication, AnswersPublished, Results
<1>8. TermTasks' /\ TermResults'
  <2>1. TermTasks'
    BY <1>3 DEF TermTasks, Running, Active
  <2>2. \A j \in Jobs : Exists(j)' => job'[j] = job[j] /\ Exists(j)
    BY <1>1 DEF Exists, NoJob
  <2> QED BY <2>1, <2>2 DEF Publication, TermResults
<1> QED BY <1>4, <1>5, <1>6, <1>7, <1>8 DEF Publication

LEMMA RestartStep ==
    ASSUME Publication, Integrity', Restart
    PROVE  Publication'
<1>0. TypeOK
  BY DEF Publication, Integrity
<1>1. bundle' = bundle /\ page' = page /\ conv' = conv /\ terms' = terms
  BY DEF Restart
<1>2. \A j \in Jobs :
         /\ job'[j].status = IF Running(j) THEN "interrupted" ELSE job[j].status
         /\ job'[j].kind = job[j].kind /\ job'[j].conv = job[j].conv
         /\ job'[j].about = job[j].about /\ job'[j].result = job[j].result
         /\ job'[j].previous = IF Running(j) THEN None ELSE job[j].previous
  BY <1>0, RestartEffect
<1>3. \A j \in Jobs : job'[j].status \notin Active
  BY <1>2 DEF Running, Active
<1>4. ScopeFrozen' /\ ScopesAgree'
  BY <1>1, <1>3 DEF Publication, ScopeFrozen, ScopesAgree, Open, Running
<1>5. CheckpointsLabelled'
  BY <1>1, <1>2 DEF Publication, CheckpointsLabelled, Running, Active
<1>6. HeldEvidenceStays'
  BY <1>1, <1>2 DEF Publication, HeldEvidenceStays, Stored
<1>7. AnswersPublished'
  <2>1. \A k \in Jobs : job'[k].status = "completed" <=> job[k].status = "completed"
    BY <1>2 DEF Running, Active
  <2>2. \A c \in Convs : Results(c)' = Results(c)
    <3> SUFFICES ASSUME NEW c \in Convs, NEW b
                 PROVE  b \in Results(c)' <=> b \in Results(c)
      BY DEF Results
    <3>1. b \in Results(c) <=> b # None /\ \E k \in Jobs :
              job[k].conv = c /\ job[k].status = "completed" /\ job[k].result = b
      BY DEF Results
    <3>2. b \in Results(c)' <=> b # None /\ \E k \in Jobs :
              job'[k].conv = c /\ job'[k].status = "completed" /\ job'[k].result = b
      BY DEF Results
    <3> QED BY <1>2, <2>1, <3>1, <3>2
  <2> QED BY <1>1, <2>2 DEF Publication, AnswersPublished, Open, Results
<1>8. TermTasks' /\ TermResults'
  <2>1. TermTasks'
    BY <1>3 DEF TermTasks, Running, Active
  <2>2. TermResults'
    BY <1>2 DEF Publication, TermResults, Exists, Running, Active
  <2> QED BY <2>1, <2>2
<1> QED BY <1>4, <1>5, <1>6, <1>7, <1>8 DEF Publication

-----------------------------------------------------------------------------

LEMMA PublicationStep == Publication /\ [Next]_vars => Publication'
<1> SUFFICES ASSUME Publication, [Next]_vars PROVE Publication'
  OBVIOUS
<1>1. Integrity'
  BY IntegrityStep DEF Publication
<1>2. CASE ConversationStep \/ ExpireConversations
  BY <1>1, <1>2, ScopeStep, QuietActions, RemovalStep
  DEF ConversationStep, DeleteConversation, ExpireConversations, Expired
<1>3. CASE JobStep
  BY <1>1, <1>3, RequestSteps, CheckpointStep, CompleteStep, QueueTermStep, CompleteTermStep
  DEF JobStep
<1>4. CASE ArtifactStep
  BY <1>1, <1>4, QuietActions, DeleteTermStep, TermTaskStep DEF ArtifactStep
<1>5. CASE ManageCache
  BY <1>1, <1>5, EvictStep DEF ManageCache
<1>6. CASE Restart
  BY <1>1, <1>6, RestartStep
<1>7. CASE \E a \in Assets : AskRefresh(a) \/ DropRequest(a)
  BY <1>1, <1>7, QuietActions
<1>8. CASE UNCHANGED vars
  BY <1>1, <1>8, QuietStep DEF vars
<1> QED BY <1>2, <1>3, <1>4, <1>5, <1>6, <1>7, <1>8 DEF Next

\* The inductive invariant of this module: Integrity, the promises below, and what the
\* memory of TermService has to do with the rows.
THEOREM PublicationHolds == Spec => []Publication
BY PublicationInit, PublicationStep, PTL DEF Spec

\* complete_research writes a follow-up's answer under the scope its question was
\* asked in: no edit, deletion or expiry reaches a conversation with work in flight.
THEOREM AnswersKeepTheirScope == Spec => []ScopeFrozen
<1>1. Publication => ScopeFrozen
  BY DEF Publication
<1> QED BY <1>1, PublicationHolds, PTL

\* Pages show complete versions of their own asset, and conversations page versions
\* of theirs: what the backup validator asks of scopes.
THEOREM ScopesMatch == Spec => []ScopesAgree
<1>1. Publication => ScopesAgree
  BY DEF Publication
<1> QED BY <1>1, PublicationHolds, PTL

\* A section checkpoint that a failed or cancelled run leaves behind is never the
\* result of a completed job.
THEOREM CheckpointsNeverPass == Spec => []CheckpointsLabelled
<1>1. Publication => CheckpointsLabelled
  BY DEF Publication
<1> QED BY <1>1, PublicationHolds, PTL

\* The answers of a conversation are the results of its completed follow-ups, after
\* any sequence of publications, endings, deletions, evictions and restarts.
THEOREM PublicationIsAtomic == Spec => []AnswersPublished
<1>1. Publication => AnswersPublished
  BY DEF Publication
<1> QED BY <1>1, PublicationHolds, PTL

\* TermService.submit, its done-callback, complete_term and delete_saved_item together:
\* no two jobs work on one explanation and none works on one that is saved, also when
\* a row left queued without a task stands beside.  A completed job has its explanation
\* saved (JobRefs), a running one is the remembered task and has none (TermTasks).
THEOREM OneExplanation == Spec => []TermsExplainedOnce
<1>1. Publication => TermsExplainedOnce
  <2> SUFFICES ASSUME Publication PROVE TermsExplainedOnce
    OBVIOUS
  <2>0. TermTasks /\ TermResults /\ JobRowsMatchKind /\ JobRefs /\ None \notin Bundles
    BY NoneAssumption DEF Publication, Integrity, RefsResolve
  <2>1. ASSUME NEW b \in Bundles, NEW j \in TermJobs(b), job[j].status = "running"
        PROVE  j \in Jobs /\ pending[b] = j /\ b \notin terms
    BY <2>0, <2>1 DEF TermTasks, TermJobs, Running, Active
  <2>2. ASSUME NEW b \in Bundles, NEW o \in TermJobs(b), job[o].status = "completed"
        PROVE  b \in terms
    BY <2>0, <2>2 DEF TermResults, TermJobs, JobRefs, Exists
  <2> QED BY <2>0, <2>1, <2>2 DEF TermsExplainedOnce, TermResults
<1> QED BY <1>1, PublicationHolds, PTL

\* manage_cache never removes the saved version a run has read.
THEOREM EvidenceIsHeld == Spec => []HeldEvidenceStays
<1>1. Publication => HeldEvidenceStays
  BY DEF Publication
<1> QED BY <1>1, PublicationHolds, PTL

-----------------------------------------------------------------------------
(* The life of a job: the transactions on research_jobs implement          *)
(* JobLifecycle; each is a step of it or leaves all statuses alone.        *)

Statuses == [j \in Jobs |-> job[j].status]

LEMMA LifecycleInit == Init => Lifecycle!Init
BY DEF Init, Lifecycle!Init, NoJob

\* A transaction that writes at most the row of job j, whose status becomes s.
LEMMA OneStatus ==
    ASSUME NEW j \in Jobs, NEW s, job'[j].status = s,
           \A k \in Jobs : k # j => job'[k] = job[k]
    PROVE  [k \in Jobs |-> job[k].status]' = [[k \in Jobs |-> job[k].status] EXCEPT ![j] = s]
OBVIOUS

\* A transaction that removes rows of jobs that are not active.
LEMMA RemovedRows ==
    ASSUME TypeOK, NEW S \in SUBSET Jobs, \A j \in S : ~ Running(j),
           \A j \in Jobs : job'[j] = IF j \in S THEN NoJob ELSE job[j]
    PROVE  Lifecycle!Next \/ Statuses' = Statuses
<1> PICK R \in SUBSET Jobs : R = {j \in S : Exists(j)}
  OBVIOUS
<1>1. \A j \in R : Statuses[j] \in Lifecycle!Ended
  BY DEF Statuses, Exists, Running, Active, Lifecycle!Ended, TypeOK, JobRow, JobStatus
<1>2. Statuses' = [j \in Jobs |-> IF j \in R THEN "none" ELSE Statuses[j]]
  <2>1. \A j \in Jobs : job'[j].status = IF j \in R THEN "none" ELSE job[j].status
    BY DEF Exists, NoJob
  <2> QED BY <2>1 DEF Statuses
<1>3. Lifecycle!Remove(R)
  BY <1>1, <1>2 DEF Lifecycle!Remove, Statuses
<1> QED BY <1>3 DEF Lifecycle!Next

LEMMA LifecycleStep == Integrity /\ [Next]_vars => Lifecycle!Next \/ Statuses' = Statuses
<1> SUFFICES ASSUME Integrity, [Next]_vars PROVE Lifecycle!Next \/ Statuses' = Statuses
  OBVIOUS
<1>0. TypeOK /\ JobRowsMatchKind
  BY DEF Integrity
<1>1. CASE job' = job
  BY <1>1 DEF Statuses
<1>2. ASSUME NEW C \in SUBSET Convs, RemoveConversations(C),
             \A c \in C : ~ ActiveIn(c)
      PROVE  Lifecycle!Next \/ Statuses' = Statuses
  <2> DEFINE S == {j \in Jobs : job[j].conv \in C}
  <2>1. \A j \in Jobs : job'[j] = IF j \in S THEN NoJob ELSE job[j]
    BY <1>2 DEF RemoveConversations
  <2>2. \A j \in S : ~ Running(j)
    BY <1>2 DEF ActiveIn
  <2> QED BY <1>0, <2>1, <2>2, RemovedRows
<1>3. ASSUME NEW b \in Bundles, DeleteTerm(b)
      PROVE  Lifecycle!Next \/ Statuses' = Statuses
  <2>1. TermJobs(b) \in SUBSET Jobs
    BY DEF TermJobs
  <2> QED BY <1>0, <1>3, <2>1, RemovedRows DEF DeleteTerm
<1>4. CASE ManageCache
  <2>1. PICK B \in SUBSET FreeBundles, P \in SUBSET FreePages, J \in SUBSET FreeJobs :
            Evict(B, P, J)
    BY <1>4 DEF ManageCache
  <2>2. J \in SUBSET Jobs /\ \A j \in J : ~ Running(j)
    BY DEF FreeJobs, RootJob
  <2> QED BY <1>0, <2>1, <2>2, RemovedRows DEF Evict
<1>5. CASE Restart
  <2>1. Lifecycle!Recover
    BY <1>0, <1>5, RestartEffect DEF Lifecycle!Recover, Lifecycle!Active, Running, Active
  <2> QED BY <2>1 DEF Lifecycle!Next
<1>6. ASSUME NEW j \in Jobs, ~ Exists(j), job'[j].status = "queued",
             \A k \in Jobs : k # j => job'[k] = job[k]
      PROVE  Lifecycle!Next
  <2>1. Lifecycle!Admit(j)
    BY <1>6, OneStatus DEF Lifecycle!Admit, Exists
  <2> QED BY <2>1 DEF Lifecycle!Next
<1>7. ASSUME NEW j \in Jobs,
             \/ \E a \in Assets \cup {None} : QueueResearch(j, a)
             \/ \E c \in Convs : QueueFollowUp(j, c)
             \/ \E b \in Bundles : QueueTerm(j, b)
      PROVE  Lifecycle!Next
  <2>1. ~ Exists(j)
    BY <1>7 DEF QueueResearch, QueueFollowUp, QueueTerm, Unused
  <2>2. job'[j].status = "queued"
    <3>2. CASE \E a \in Assets \cup {None} : QueueResearch(j, a)
      BY <1>0, <3>2 DEF QueueResearch, NoJob, TypeOK
    <3>3. CASE \E c \in Convs : QueueFollowUp(j, c)
      BY <1>0, <3>3 DEF QueueFollowUp, NoJob, TypeOK
    <3>4. CASE \E b \in Bundles : QueueTerm(j, b)
      BY <1>0, <3>4 DEF QueueTerm, NoJob, TypeOK
    <3> QED BY <1>7, <3>2, <3>3, <3>4
  <2>3. \A k \in Jobs : k # j => job'[k] = job[k]
    BY <1>0, <1>7 DEF QueueResearch, QueueFollowUp, QueueTerm, TypeOK
  <2> QED BY <1>6, <2>1, <2>2, <2>3
<1>8. ASSUME NEW j \in Jobs, Start(j)
      PROVE  Lifecycle!Next
  <2>1. job'[j].status = "running"
    BY <1>0, <1>8 DEF Start, TypeOK, JobRow
  <2>2. Lifecycle!Begin(j)
    BY <1>0, <1>8, <2>1, StartEffect, OneStatus DEF Lifecycle!Begin
  <2> QED BY <2>2 DEF Lifecycle!Next
<1>9. ASSUME NEW j \in Jobs, NEW s \in Lifecycle!Ended, job'[j].status = s,
             \A k \in Jobs : k # j => job'[k] = job[k],
             \/ job[j].status = "running" /\ s # "interrupted"
             \/ job[j].status = "queued" /\ s \in {"cancelled", "failed", "completed"}
      PROVE  Lifecycle!Next
  <2>1. Lifecycle!Finish(j, s)
    BY <1>9, OneStatus DEF Lifecycle!Finish
  <2> QED BY <2>1 DEF Lifecycle!Next
<1>10. ASSUME NEW j \in Jobs, NEW status \in JobStatus, Finish(j, status)
       PROVE  Lifecycle!Next
  <2>1. /\ job'[j].status = status
        /\ \A k \in Jobs : k # j => job'[k] = job[k]
    BY <1>0, <1>10, FinishEffect
  <2>2. /\ status \in Lifecycle!Ended
        /\ \/ job[j].status = "running" /\ status # "interrupted"
           \/ job[j].status = "queued" /\ status \in {"cancelled", "failed", "completed"}
    BY <1>10 DEF Finish, MayEnd, Absorbing, Running, Active, Lifecycle!Ended
  <2> QED BY <1>9, <2>1, <2>2
<1>11. ASSUME NEW j \in Jobs, NEW b \in Bundles, NEW a \in Assets, NEW i \in Idents,
              Complete(j, b, a, i)
       PROVE  Lifecycle!Next
  BY <1>0, <1>9, <1>11, CompleteEffect DEF Lifecycle!Ended
<1>12. ASSUME NEW j \in Jobs, CompleteTerm(j)
       PROVE  Lifecycle!Next
  <2>1. /\ job'[j].status = "completed" /\ job[j].status = "running"
        /\ \A k \in Jobs : k # j => job'[k] = job[k]
    BY <1>0, <1>12 DEF CompleteTerm, TypeOK, JobRow
  <2> QED BY <1>9, <2>1 DEF Lifecycle!Ended
<1>13. ASSUME NEW j \in Jobs, NEW b \in Bundles, NEW a \in Assets, NEW i \in Idents,
              Checkpoint(j, b, a, i)
       PROVE  Statuses' = Statuses
  BY <1>0, <1>13 DEF Checkpoint, TypeOK, JobRow, Statuses
<1>14. CASE ConversationStep \/ ExpireConversations
  <2>1. ASSUME NEW c \in Convs, NEW a \in Assets, NEW v \in Bundles,
               CreateConversation(c, a, v) \/ ChangeScope(c, a, v)
        PROVE  job' = job
    BY <2>1 DEF CreateConversation, ChangeScope
  <2>2. ASSUME NEW c \in Convs, NEW flag \in BOOLEAN, Bookmark(c, flag) PROVE job' = job
    BY <2>2 DEF Bookmark
  <2>3. ASSUME NEW c \in Convs, Age(c) PROVE job' = job
    BY <2>3 DEF Age
  <2>4. ASSUME NEW c \in Convs, DeleteConversation(c)
        PROVE  Lifecycle!Next \/ Statuses' = Statuses
    BY <1>2, <2>4 DEF DeleteConversation
  <2>5. CASE ExpireConversations
    BY <1>2, <2>5 DEF ExpireConversations, Expired
  <2> QED BY <1>1, <1>14, <2>1, <2>2, <2>3, <2>4, <2>5 DEF ConversationStep
<1>15. CASE JobStep
  BY <1>7, <1>8, <1>10, <1>11, <1>12, <1>13, <1>15 DEF JobStep
<1>16. CASE ArtifactStep
  BY <1>1, <1>3, <1>16 DEF ArtifactStep, DeleteItem, SaveItem, TermTaskOver
<1>17. CASE UNCHANGED vars \/ \E a \in Assets : AskRefresh(a) \/ DropRequest(a)
  BY <1>1, <1>17 DEF vars, AskRefresh, DropRequest
<1> QED BY <1>4, <1>5, <1>14, <1>15, <1>16, <1>17 DEF Next

\* The statuses that Database.transition, queue_research, queue_term, the two
\* completions, recover, expiry, deletion and eviction write make a behaviour of
\* JobLifecycle.
THEOREM ImplementsLifecycle == Spec => LifecycleSpec
<1>1. Integrity /\ [Next]_vars => [Lifecycle!Next]_Statuses
  BY LifecycleStep
<1>2. Spec => []Integrity
  BY IntegrityHolds
<1> QED BY <1>1, <1>2, LifecycleInit, PTL DEF Spec, LifecycleSpec, Lifecycle!Spec, Statuses

\* A status of research_jobs that has ended never changes again while its row exists, and
\* no transaction takes a row away from work that is queued or running.
THEOREM StatusesFinal == Spec => Lifecycle!NeverReplayed
<1> DEFINE Final == \A j \in Jobs :
           /\ Statuses[j] \in Lifecycle!Ended => Statuses'[j] \in {Statuses[j], "none"}
           /\ Statuses[j] = "running" => Statuses'[j] \in Lifecycle!Ended \cup {"running"}
           /\ Statuses[j] = "queued" => Statuses'[j] # "none"
<1>1. ASSUME Lifecycle!Next PROVE Final
  <2>1. ASSUME NEW j \in Jobs,
               \/ Lifecycle!Admit(j) \/ Lifecycle!Begin(j)
               \/ \E s \in Lifecycle!Ended : Lifecycle!Finish(j, s)
        PROVE  Final
    BY <1>1, <2>1 DEF Lifecycle!Admit, Lifecycle!Begin, Lifecycle!Finish, Lifecycle!Ended, Statuses
  <2>2. CASE Lifecycle!Recover
    BY <1>1, <2>2 DEF Lifecycle!Recover, Lifecycle!Ended, Lifecycle!Active, Statuses
  <2>3. ASSUME NEW S \in SUBSET Jobs, Lifecycle!Remove(S) PROVE Final
    BY <1>1, <2>3 DEF Lifecycle!Remove, Lifecycle!Ended, Statuses
  <2> QED BY <1>1, <2>1, <2>2, <2>3 DEF Lifecycle!Next
<1>2. Integrity /\ [Next]_vars => [Final]_Statuses
  BY <1>1, LifecycleStep
<1>3. Spec => []Integrity
  BY IntegrityHolds
<1> QED BY <1>2, <1>3, PTL DEF Spec, Lifecycle!NeverReplayed, Statuses
=============================================================================
