------------------------- MODULE LibraryIntegrity --------------------------
(***************************************************************************)
(* Proof that the references of module Library always resolve.             *)
(***************************************************************************)
EXTENDS LibraryProofs

\* What the code relies on without saying so: an id without a row names nothing,
\* only a running research job holds a saved scope, and a term job is about a version,
\* belongs to no conversation and explains only what it was asked for.
BlankRowsHoldNothing ==
    \A b \in Bundles : ~ Stored(b) => bundle[b].originals = {}
JobRowsMatchKind ==
    \A j \in Jobs :
        /\ job[j].previous # None => job[j].status = "running" /\ job[j].kind = "research"
        /\ job[j].kind = "term" => /\ job[j].conv = None /\ job[j].about \in Bundles
                                   /\ job[j].result \in {None, job[j].about}

Integrity == TypeOK /\ BlankRowsHoldNothing /\ JobRowsMatchKind /\ RefsResolve

LEMMA IntegrityInit == Init => Integrity
BY TypeInit DEF Init, Integrity, BlankRowsHoldNothing, JobRowsMatchKind, RefsResolve, PageRefs,
   VersionRefs, ConversationRefs, ItemRefs, TermRefs, JobRefs, EventRefs, Stored, Open,
   Exists, NoBundle, NoConv, NoJob, Messages

-----------------------------------------------------------------------------
(* What a step does to one job row                                         *)

\* The statuses, requests and results of the other jobs stay as they are; a job
\* that exists keeps its request.
LEMMA StartEffect ==
    ASSUME TypeOK, NEW j \in Jobs, Start(j)
    PROVE  /\ \A k \in Jobs : k # j => job'[k] = job[k]
           /\ job[j].status = "queued"
           /\ job'[j] = [job[j] EXCEPT !.status = "running", !.previous = SavedScope(j)]
BY DEF Start, TypeOK
LEMMA FinishEffect ==
    ASSUME TypeOK, NEW j \in Jobs, NEW status \in JobStatus, Finish(j, status)
    PROVE  /\ \A k \in Jobs : k # j => job'[k] = job[k]
           /\ job'[j].status = status /\ job'[j].kind = job[j].kind
           /\ job'[j].asset = job[j].asset
           /\ job'[j].conv = job[j].conv /\ job'[j].about = job[j].about
           /\ job'[j].previous = None
           /\ job'[j].result = IF status \in KeepsCheckpoint THEN job[j].result ELSE None
           /\ Exists(j) /\ Exists(j)'
BY DEF Finish, TypeOK, JobRow, Exists, MayEnd, Running, Active
LEMMA CompleteEffect ==
    ASSUME TypeOK, NEW j \in Jobs, NEW b \in Bundles, NEW a \in Assets, NEW i \in Idents,
           Complete(j, b, a, i)
    PROVE  /\ \A k \in Jobs : k # j => job'[k] = job[k]
           /\ job[j].status = "running" /\ job[j].kind = "research"
           /\ job'[j].status = "completed" /\ job'[j].kind = "research"
           /\ job'[j].asset = job[j].asset
           /\ job'[j].conv = job[j].conv /\ job'[j].about = job[j].about
           /\ job'[j].previous = None /\ job'[j].result = b
BY DEF Complete, TypeOK, JobRow
LEMMA RestartEffect ==
    ASSUME TypeOK, Restart, NEW j \in Jobs
    PROVE  /\ job'[j].status = IF Running(j) THEN "interrupted" ELSE job[j].status
           /\ job'[j].kind = job[j].kind /\ job'[j].asset = job[j].asset
           /\ job'[j].conv = job[j].conv /\ job'[j].about = job[j].about
           /\ job'[j].result = job[j].result
           /\ job'[j].previous = IF Running(j) THEN None ELSE job[j].previous
BY DEF Restart, TypeOK, JobRow

LEMMA RowsStep ==
    ASSUME Integrity, Next
    PROVE  BlankRowsHoldNothing' /\ JobRowsMatchKind'
<1>0. /\ TypeOK /\ BlankRowsHoldNothing /\ JobRowsMatchKind
      /\ None \notin Bundles /\ None \notin Assets
  BY NoneAssumption DEF Integrity
<1> USE DEF BlankRowsHoldNothing, JobRowsMatchKind
<1>1. ASSUME NEW c \in Convs, NEW a \in Assets, NEW v \in Bundles,
             CreateConversation(c, a, v) \/ ChangeScope(c, a, v)
      PROVE  BlankRowsHoldNothing' /\ JobRowsMatchKind'
  BY <1>0, <1>1 DEF CreateConversation, ChangeScope, Stored
<1>2. ASSUME NEW c \in Convs, Age(c) \/ \E flag \in BOOLEAN : Bookmark(c, flag)
      PROVE  BlankRowsHoldNothing' /\ JobRowsMatchKind'
  BY <1>0, <1>2 DEF Age, Bookmark, Stored
<1>3. ASSUME NEW C \in SUBSET Convs, RemoveConversations(C)
      PROVE  BlankRowsHoldNothing' /\ JobRowsMatchKind'
  BY <1>0, <1>3 DEF RemoveConversations, Stored, NoJob
<1>4. ASSUME NEW j \in Jobs, NEW a \in Assets \cup {None}, QueueResearch(j, a)
      PROVE  BlankRowsHoldNothing' /\ JobRowsMatchKind'
  BY <1>0, <1>4 DEF QueueResearch, Stored, NoJob, TypeOK
<1>5. ASSUME NEW j \in Jobs, NEW c \in Convs, QueueFollowUp(j, c)
      PROVE  BlankRowsHoldNothing' /\ JobRowsMatchKind'
  BY <1>0, <1>5 DEF QueueFollowUp, Stored, NoJob, TypeOK
<1>6. ASSUME NEW j \in Jobs, Start(j)
      PROVE  BlankRowsHoldNothing' /\ JobRowsMatchKind'
  BY <1>0, <1>6 DEF Start, Stored, SavedScope, TypeOK, JobRow
<1>7. ASSUME NEW j \in Jobs, NEW b \in Bundles, NEW a \in Assets, NEW i \in Idents,
             Checkpoint(j, b, a, i)
      PROVE  BlankRowsHoldNothing' /\ JobRowsMatchKind'
  <2>1. BlankRowsHoldNothing'
    BY <1>0, <1>7 DEF Checkpoint, Stored, NoBundle, TypeOK
  <2>2. JobRowsMatchKind'
    BY <1>0, <1>7 DEF Checkpoint, TypeOK, JobRow
  <2> QED BY <2>1, <2>2
<1>8. ASSUME NEW j \in Jobs, NEW b \in Bundles, NEW a \in Assets, NEW i \in Idents,
             Complete(j, b, a, i)
      PROVE  BlankRowsHoldNothing' /\ JobRowsMatchKind'
  <2>1. BlankRowsHoldNothing'
    BY <1>0, <1>8 DEF Complete, Stored, TypeOK
  <2>2. JobRowsMatchKind'
    BY <1>0, <1>8, CompleteEffect
  <2> QED BY <2>1, <2>2
<1>9. ASSUME NEW j \in Jobs, NEW status \in JobStatus, Finish(j, status)
      PROVE  BlankRowsHoldNothing' /\ JobRowsMatchKind'
  <2>1. bundle' = bundle
    BY <1>9 DEF Finish
  <2> QED BY <1>0, <1>9, <2>1, FinishEffect DEF Stored
<1>10. ASSUME NEW j \in Jobs, NEW b \in Bundles, QueueTerm(j, b)
       PROVE  BlankRowsHoldNothing' /\ JobRowsMatchKind'
  BY <1>0, <1>10 DEF QueueTerm, Stored, NoJob, TypeOK
<1>11. ASSUME NEW j \in Jobs, CompleteTerm(j)
       PROVE  BlankRowsHoldNothing' /\ JobRowsMatchKind'
  BY <1>0, <1>11 DEF CompleteTerm, Stored, TypeOK, JobRow
<1>12. ASSUME NEW k \in Items, DeleteItem(k) \/ \E cites \in SUBSET Bundles : SaveItem(k, cites)
       PROVE  BlankRowsHoldNothing' /\ JobRowsMatchKind'
  BY <1>0, <1>12 DEF DeleteItem, SaveItem, Stored
<1>13. ASSUME NEW b \in Bundles, DeleteTerm(b) \/ TermTaskOver(b)
       PROVE  BlankRowsHoldNothing' /\ JobRowsMatchKind'
  BY <1>0, <1>13 DEF DeleteTerm, TermTaskOver, Stored, NoJob
<1>14. ASSUME NEW B \in SUBSET FreeBundles, NEW P \in SUBSET FreePages,
              NEW J \in SUBSET FreeJobs, Evict(B, P, J)
       PROVE  BlankRowsHoldNothing' /\ JobRowsMatchKind'
  BY <1>0, <1>14 DEF Evict, Stored, NoJob, NoBundle
<1>15. CASE Restart
  <2>1. BlankRowsHoldNothing'
    BY <1>0, <1>15 DEF Restart, Stored
  <2>2. ASSUME NEW j \in Jobs
        PROVE  /\ job'[j].previous = None
               /\ job'[j].kind = "term" => /\ job'[j].conv = None /\ job'[j].about \in Bundles
                                           /\ job'[j].result \in {None, job'[j].about}
    BY <1>0, <1>15, RestartEffect DEF Running, Active
  <2> QED BY <2>1, <2>2
<1>16. ASSUME NEW a \in Assets, AskRefresh(a) \/ DropRequest(a)
       PROVE  BlankRowsHoldNothing' /\ JobRowsMatchKind'
  BY <1>0, <1>16 DEF AskRefresh, DropRequest, Stored
<1> QED BY <1>1, <1>2, <1>3, <1>4, <1>5, <1>6, <1>7, <1>8, <1>9, <1>10, <1>11, <1>12,
           <1>13, <1>14, <1>15, <1>16
        DEF Next, ConversationStep, JobStep, ArtifactStep, DeleteConversation,
            ExpireConversations, Expired, ManageCache

-----------------------------------------------------------------------------
(* Eviction                                                                *)

\* What the roots lead to contains the roots and every original it names.
LEMMA ReachClosed ==
    ASSUME TypeOK, NEW S \in SUBSET Bundles
    PROVE  S \subseteq Reach(S) /\ Closed(Reach(S))
<1>1. S \subseteq Reach(S)
  BY DEF Reach
<1>2. ASSUME NEW b \in Reach(S), NEW o \in bundle[b].originals
      PROVE  o \in Reach(S)
  <2>1. o \in Bundles
    BY DEF TypeOK, BundleRow, Reach
  <2>2. ASSUME NEW T \in SUBSET Bundles, S \subseteq T, Closed(T)
        PROVE  o \in T
    BY <2>2 DEF Reach, Closed
  <2> QED BY <2>1, <2>2 DEF Reach
<1> QED BY <1>1, <1>2 DEF Closed

\* A version that something outside the evicted set refers to is not evicted.
LEMMA RootsKept ==
    ASSUME TypeOK, NEW b \in Bundles, Stored(b), RootCites(b)
    PROVE  b \notin FreeBundles
<1>1. {o \in Bundles : Stored(o) /\ RootCites(o)} \subseteq Protected
  BY ReachClosed DEF Protected
<1> QED BY <1>1 DEF FreeBundles

LEMMA OriginalsOfProtected ==
    ASSUME TypeOK, NEW b \in Protected, NEW o \in bundle[b].originals
    PROVE  o \in Protected
BY ReachClosed DEF Protected, Closed

LEMMA EvictResolves ==
    ASSUME Integrity, NEW B \in SUBSET FreeBundles, NEW P \in SUBSET FreePages,
           NEW J \in SUBSET FreeJobs, Evict(B, P, J)
    PROVE  RefsResolve'
<1>0. /\ TypeOK /\ BlankRowsHoldNothing /\ JobRowsMatchKind
      /\ PageRefs /\ VersionRefs /\ ConversationRefs /\ ItemRefs /\ TermRefs /\ JobRefs
      /\ EventRefs
      /\ None \notin Bundles /\ None \notin Assets /\ None \notin Convs
      /\ WholeComponents(B, P, J)
  BY NoneAssumption DEF Integrity, RefsResolve, Evict
<1>1. \A b \in Bundles : Stored(b) /\ b \notin B => Stored(b)'
  BY <1>0 DEF Evict, Stored
<1>2. PageRefs'
  <2> SUFFICES ASSUME NEW a \in Assets, page'[a] # None PROVE Stored(page[a])' /\ page'[a] = page[a]
    BY DEF PageRefs, Stored
  <2>1. page'[a] = page[a] /\ a \notin P /\ page[a] # None
    BY <1>0 DEF Evict, TypeOK
  <2>2. page[a] \in Bundles /\ Stored(page[a])
    BY <1>0, <2>1 DEF PageRefs, Stored
  <2>3. page[a] \notin B
    <3>1. CASE a \in FreePages
      BY <1>0, <2>1, <3>1 DEF WholeComponents
    <3>2. CASE a \notin FreePages
      <4>1. PICK c \in Convs : conv[c].asset = a
        BY <2>1, <3>2 DEF FreePages
      <4>2. RootCites(page[a])
        BY <1>0, <4>1 DEF RootCites, Open
      <4> QED BY <1>0, <2>2, <4>2, RootsKept
    <3> QED BY <3>1, <3>2
  <2> QED BY <1>1, <2>1, <2>2, <2>3
<1>3. VersionRefs'
  <2> SUFFICES ASSUME NEW b \in Bundles, NEW o \in bundle'[b].originals PROVE Stored(o)'
    BY DEF VersionRefs
  <2>1. b \notin B /\ bundle'[b] = bundle[b]
    BY <1>0 DEF Evict, NoBundle
  <2>2. o \in bundle[b].originals /\ Stored(o) /\ Stored(b) /\ o \in Bundles
    BY <1>0, <2>1 DEF VersionRefs, BlankRowsHoldNothing, Stored
  <2>3. o \notin B
    <3>1. CASE b \in FreeBundles
      BY <1>0, <2>1, <2>2, <3>1 DEF WholeComponents
    <3>2. CASE b \notin FreeBundles
      <4>1. b \in Protected
        BY <2>2, <3>2 DEF FreeBundles
      <4> QED BY <1>0, <2>2, <4>1, OriginalsOfProtected DEF FreeBundles
    <3> QED BY <3>1, <3>2
  <2> QED BY <1>1, <2>2, <2>3
<1>4. ConversationRefs'
  <2> SUFFICES ASSUME NEW c \in Convs, Open(c)
               PROVE  /\ page'[conv[c].asset] # None
                      /\ \A b \in Messages(c) \cup {conv[c].ctx} : Stored(b)'
    BY DEF ConversationRefs, Open, Evict, Messages, Stored
  <2>1. conv[c].asset \in Assets /\ page[conv[c].asset] # None
    BY <1>0 DEF TypeOK, ConvRow, Open, ConversationRefs
  <2>2. conv[c].asset \notin P
    BY <2>1 DEF FreePages
  <2>3. page'[conv[c].asset] # None
    BY <1>0, <2>1, <2>2 DEF Evict
  <2>4. ASSUME NEW b \in Messages(c) \cup {conv[c].ctx}
        PROVE  Stored(b)'
    <3>1. b \in Bundles /\ Stored(b)
      BY <1>0 DEF ConversationRefs, Stored
    <3>2. RootCites(b)
      BY DEF RootCites
    <3> QED BY <1>0, <1>1, <3>1, <3>2, RootsKept
  <2> QED BY <2>3, <2>4
<1>5. ItemRefs'
  <2> SUFFICES ASSUME NEW k \in Items, NEW b \in item[k] PROVE Stored(b)'
    BY DEF ItemRefs, Evict, Stored
  <2>1. b \in Bundles /\ Stored(b) /\ RootCites(b)
    BY <1>0 DEF ItemRefs, Stored, RootCites
  <2> QED BY <1>0, <1>1, <2>1, RootsKept
<1>6. TermRefs'
  <2> SUFFICES ASSUME NEW b \in terms PROVE Stored(b)'
    BY DEF TermRefs, Evict, Stored
  <2>1. b \in Bundles /\ Stored(b) /\ RootCites(b)
    BY <1>0 DEF TermRefs, Stored, RootCites
  <2> QED BY <1>0, <1>1, <2>1, RootsKept
\* A version cited by a job that stays, or by one of its events, stays.
<1>7. ASSUME NEW j \in Jobs, Exists(j), j \notin J, NEW b \in Bundles, Stored(b), JobCites(j, b)
      PROVE  Stored(b)'
  <2>1. CASE RootJob(j)
    BY <1>0, <1>1, <1>7, <2>1, RootsKept DEF RootCites
  <2>2. CASE ~ RootJob(j)
    <3>1. j \in FreeJobs
      BY <1>7, <2>2 DEF FreeJobs
    <3>2. b \in FreeBundles => b \notin B
      BY <1>0, <1>7, <3>1 DEF WholeComponents
    <3> QED BY <1>1, <1>7, <3>2
  <2> QED BY <2>1, <2>2
<1>8. JobRefs'
  <2> SUFFICES ASSUME NEW j \in Jobs, Exists(j)'
               PROVE  /\ (job[j].conv # None => Open(job[j].conv))'
                      /\ (job[j].about # None => Stored(job[j].about))'
                      /\ (job[j].result # None =>
                             IF job[j].kind = "term" THEN job[j].result \in terms
                                                     ELSE Stored(job[j].result))'
    BY DEF JobRefs, Stored, Open
  <2>1. j \notin J /\ job'[j] = job[j] /\ Exists(j)
    BY <1>0 DEF Evict, Exists, NoJob
  <2>2. job[j].conv # None => conv'[job[j].conv].asset # None
    BY <1>0, <2>1 DEF JobRefs, Open, Evict
  <2>3. ASSUME NEW b \in Bundles,
               b = job[j].about \/ (b = job[j].result /\ job[j].kind # "term")
        PROVE  Stored(b)'
    <3>1. b # None /\ Stored(b) /\ JobCites(j, b)
      BY <1>0, <2>1, <2>3 DEF JobRefs, JobCites
    <3> QED BY <1>7, <2>1, <3>1
  <2>4. /\ job[j].about \in Bundles \cup {None}
        /\ job[j].result \in Bundles \cup {None}
    BY <1>0 DEF TypeOK, JobRow
  <2>5. job[j].result # None /\ job[j].kind = "term" => job[j].result \in terms'
    BY <1>0, <2>1 DEF JobRefs, Evict
  <2>6. job[j].about # None => bundle'[job[j].about].asset # None
    BY <2>3, <2>4 DEF Stored
  <2>7. job[j].result # None /\ job[j].kind # "term" => bundle'[job[j].result].asset # None
    BY <2>3, <2>4 DEF Stored
  <2> QED BY <2>1, <2>2, <2>4, <2>5, <2>6, <2>7 DEF Stored, Open
<1>9. EventRefs'
  <2> SUFFICES ASSUME NEW e \in noted' PROVE Exists(e[1])' /\ Stored(e[2])'
    BY DEF EventRefs, Exists, Stored
  <2>1. e \in noted /\ e[1] \notin J /\ e[1] \in Jobs /\ e[2] \in Bundles /\ e = <<e[1], e[2]>>
    BY <1>0 DEF Evict, TypeOK
  <2>2. Exists(e[1]) /\ Stored(e[2])
    BY <1>0, <2>1 DEF EventRefs
  <2>3. JobCites(e[1], e[2])
    BY <1>0, <2>1 DEF JobCites
  <2>4. Exists(e[1])'
    BY <2>1, <2>2 DEF Evict, Exists
  <2> QED BY <1>7, <2>1, <2>2, <2>3, <2>4
<1> QED BY <1>2, <1>3, <1>4, <1>5, <1>6, <1>8, <1>9 DEF RefsResolve

-----------------------------------------------------------------------------
(* Every other step                                                        *)

LEMMA ConversationsResolve ==
    ASSUME Integrity, ConversationStep \/ ExpireConversations
    PROVE  RefsResolve'
<1>0. /\ TypeOK /\ JobRowsMatchKind
      /\ PageRefs /\ VersionRefs /\ ConversationRefs /\ ItemRefs /\ TermRefs /\ JobRefs
      /\ EventRefs
      /\ None \notin Bundles /\ None \notin Assets /\ None \notin Convs
  BY NoneAssumption DEF Integrity, RefsResolve
<1>1. bundle' = bundle /\ page' = page /\ item' = item /\ terms' = terms
  <2> DEFINE Same == bundle' = bundle /\ page' = page /\ item' = item /\ terms' = terms
  <2>1. ASSUME NEW C, RemoveConversations(C) PROVE Same
    BY <2>1 DEF RemoveConversations
  <2>2. ASSUME NEW c \in Convs, DeleteConversation(c) PROVE Same
    BY <2>1, <2>2 DEF DeleteConversation
  <2>3. ASSUME NEW c \in Convs, NEW a \in Assets, NEW v \in Bundles,
               CreateConversation(c, a, v) \/ ChangeScope(c, a, v)
        PROVE  Same
    BY <2>3 DEF CreateConversation, ChangeScope
  <2>4. ASSUME NEW c \in Convs, Age(c) \/ \E flag \in BOOLEAN : Bookmark(c, flag)
        PROVE  Same
    BY <2>4 DEF Age, Bookmark
  <2>5. ExpireConversations => Same
    BY <2>1 DEF ExpireConversations
  <2> QED BY <2>2, <2>3, <2>4, <2>5 DEF ConversationStep
<1>2. PageRefs' /\ VersionRefs' /\ ItemRefs' /\ TermRefs'
  BY <1>0, <1>1 DEF PageRefs, VersionRefs, ItemRefs, TermRefs, Stored
\* A step that leaves the jobs and closes no conversation.
<1>3. ASSUME job' = job, noted' = noted, ConversationRefs',
             \A c \in Convs : Open(c) => Open(c)'
      PROVE  RefsResolve'
  <2>1. JobRefs'
    BY <1>0, <1>1, <1>3 DEF JobRefs, Exists, Stored, TypeOK, JobRow
  <2>2. EventRefs'
    BY <1>0, <1>1, <1>3 DEF EventRefs, Exists, Stored
  <2> QED BY <1>2, <1>3, <2>1, <2>2 DEF RefsResolve
<1>4. ASSUME NEW c \in Convs, NEW a \in Assets, NEW v \in Bundles,
             CreateConversation(c, a, v)
      PROVE  RefsResolve'
  <2>1. /\ conv'[c].asset = a /\ conv'[c].ctx = v
        /\ conv'[c].selected = {v} /\ conv'[c].answers = {}
        /\ \A d \in Convs : d # c => conv'[d] = conv[d]
    BY <1>0, <1>4 DEF CreateConversation, NoConv, TypeOK
  <2>2. page[a] # None /\ Stored(v)
    BY <1>4 DEF CreateConversation, ContextOK
  <2>3. ConversationRefs'
    BY <1>0, <1>1, <2>1, <2>2 DEF ConversationRefs, Open, Messages, Stored
  <2>4. \A d \in Convs : Open(d) => Open(d)'
    BY <1>0, <2>1 DEF Open
  <2> QED BY <1>3, <1>4, <2>3, <2>4 DEF CreateConversation
<1>5. ASSUME NEW c \in Convs, NEW a \in Assets, NEW v \in Bundles, ChangeScope(c, a, v)
      PROVE  RefsResolve'
  <2>1. /\ conv'[c].asset = a /\ conv'[c].ctx = v
        /\ conv'[c].selected = conv[c].selected \cup {v}
        /\ conv'[c].answers = conv[c].answers
        /\ \A d \in Convs : d # c => conv'[d] = conv[d]
    BY <1>0, <1>5 DEF ChangeScope, TypeOK, ConvRow
  <2>2. page[a] # None /\ Stored(v) /\ Open(c)
    BY <1>5 DEF ChangeScope, ContextOK
  <2>3. ConversationRefs'
    BY <1>0, <1>1, <2>1, <2>2 DEF ConversationRefs, Open, Messages, Stored
  <2>4. \A d \in Convs : Open(d) => Open(d)'
    BY <1>0, <2>1 DEF Open
  <2> QED BY <1>3, <1>5, <2>3, <2>4 DEF ChangeScope
<1>6. ASSUME NEW c \in Convs, Age(c) \/ \E flag \in BOOLEAN : Bookmark(c, flag)
      PROVE  RefsResolve'
  <2>1. /\ conv'[c].asset = conv[c].asset /\ conv'[c].ctx = conv[c].ctx
        /\ conv'[c].selected = conv[c].selected /\ conv'[c].answers = conv[c].answers
        /\ \A d \in Convs : d # c => conv'[d] = conv[d]
    <3>1. CASE Age(c)
      BY <1>0, <3>1 DEF Age, TypeOK, ConvRow
    <3>2. CASE \E flag \in BOOLEAN : Bookmark(c, flag)
      <4>1. PICK flag \in BOOLEAN : Bookmark(c, flag)
        BY <3>2
      <4> QED BY <1>0, <4>1 DEF Bookmark, TypeOK, ConvRow
    <3> QED BY <1>6, <3>1, <3>2
  <2>2. ConversationRefs'
    BY <1>0, <1>1, <2>1 DEF ConversationRefs, Open, Messages, Stored
  <2>3. \A d \in Convs : Open(d) => Open(d)'
    BY <2>1 DEF Open
  <2> QED BY <1>3, <1>6, <2>2, <2>3 DEF Age, Bookmark
<1>7. ASSUME NEW C \in SUBSET Convs, RemoveConversations(C)
      PROVE  RefsResolve'
  <2>1. ConversationRefs'
    BY <1>0, <1>1, <1>7 DEF ConversationRefs, RemoveConversations, Open, Messages, Stored, NoConv
  <2>2. JobRefs'
    BY <1>0, <1>1, <1>7 DEF JobRefs, RemoveConversations, Exists, Open, Stored, NoJob,
       TypeOK, JobRow
  <2>3. EventRefs'
    <3> SUFFICES ASSUME NEW e \in noted' PROVE Exists(e[1])' /\ Stored(e[2])'
      BY DEF EventRefs
    <3>1. e \in noted /\ e[1] \in Jobs /\ job[e[1]].conv \notin C
      BY <1>0, <1>7 DEF RemoveConversations, TypeOK
    <3> QED BY <1>0, <1>1, <1>7, <3>1 DEF RemoveConversations, EventRefs, Exists, Stored
  <2> QED BY <1>2, <2>1, <2>2, <2>3 DEF RefsResolve
<1> QED BY <1>4, <1>5, <1>6, <1>7 DEF ConversationStep, DeleteConversation,
           ExpireConversations, Expired

LEMMA JobsResolve ==
    ASSUME Integrity, JobStep
    PROVE  RefsResolve'
<1>0. /\ TypeOK /\ JobRowsMatchKind
      /\ PageRefs /\ VersionRefs /\ ConversationRefs /\ ItemRefs /\ TermRefs /\ JobRefs
      /\ EventRefs
      /\ None \notin Bundles /\ None \notin Assets /\ None \notin Convs
  BY NoneAssumption DEF Integrity, RefsResolve
\* A step that changes one job and nothing that is referred to.
<1>1. ASSUME NEW j \in Jobs, \A k \in Jobs : k # j => job'[k] = job[k],
             bundle' = bundle, page' = page, item' = item, terms' = terms, noted' = noted,
             \A c \in Convs : conv'[c].asset = conv[c].asset /\ conv'[c].ctx = conv[c].ctx
                              /\ conv'[c].selected = conv[c].selected
                              /\ conv'[c].answers = conv[c].answers,
             Exists(j)',
             job'[j].conv # None => job'[j].conv \in Convs /\ conv[job'[j].conv].asset # None,
             job'[j].about # None => Stored(job[j].about)',
             job'[j].result # None =>
                /\ job'[j].result = job[j].result /\ job'[j].kind = job[j].kind /\ Exists(j)
      PROVE  RefsResolve'
  <2>1. PageRefs' /\ VersionRefs' /\ ItemRefs' /\ TermRefs'
    BY <1>0, <1>1 DEF PageRefs, VersionRefs, ItemRefs, TermRefs, Stored
  <2>2. ConversationRefs'
    BY <1>0, <1>1 DEF ConversationRefs, Open, Messages, Stored
  <2>3. EventRefs'
    BY <1>0, <1>1 DEF EventRefs, Exists, Stored, TypeOK
  <2>4. JobRefs'
    BY <1>0, <1>1 DEF JobRefs, Exists, Open, Stored, TypeOK, JobRow
  <2> QED BY <2>1, <2>2, <2>3, <2>4 DEF RefsResolve
<1>2. ASSUME NEW j \in Jobs, NEW a \in Assets \cup {None}, QueueResearch(j, a)
      PROVE  RefsResolve'
  <2>1. /\ job'[j].conv = None /\ job'[j].about = None /\ job'[j].result = None
        /\ job'[j].status = "queued" /\ \A k \in Jobs : k # j => job'[k] = job[k]
    BY <1>0, <1>2 DEF QueueResearch, NoJob, TypeOK
  <2> QED BY <1>1, <1>2, <2>1 DEF QueueResearch, Exists
<1>3. ASSUME NEW j \in Jobs, NEW c \in Convs, QueueFollowUp(j, c)
      PROVE  RefsResolve'
  <2>1. /\ job'[j].conv = c /\ job'[j].about = conv[c].ctx /\ job'[j].result = None
        /\ job'[j].status = "queued" /\ \A k \in Jobs : k # j => job'[k] = job[k]
    BY <1>0, <1>3 DEF QueueFollowUp, NoJob, TypeOK
  <2>2. \A d \in Convs : conv'[d].asset = conv[d].asset /\ conv'[d].ctx = conv[d].ctx
                         /\ conv'[d].selected = conv[d].selected
                         /\ conv'[d].answers = conv[d].answers
    BY <1>0, <1>3 DEF QueueFollowUp, TypeOK, ConvRow
  <2>3. Stored(conv[c].ctx) /\ conv[c].asset # None
    BY <1>3 DEF QueueFollowUp, ContextOK, Open
  <2>4. Stored(job[j].about)' /\ Exists(j)'
    BY <1>3, <2>1, <2>3 DEF Stored, Exists, QueueFollowUp
  <2> QED BY <1>1, <1>3, <2>1, <2>2, <2>3, <2>4 DEF QueueFollowUp
<1>4. ASSUME NEW j \in Jobs, Start(j)
      PROVE  RefsResolve'
  <2>1. /\ job'[j].conv = job[j].conv /\ job'[j].about = job[j].about
        /\ job'[j].result = job[j].result /\ job'[j].kind = job[j].kind
        /\ job'[j].status = "running" /\ Exists(j)
        /\ \A k \in Jobs : k # j => job'[k] = job[k]
    BY <1>0, <1>4 DEF Start, TypeOK, JobRow, Exists
  <2>2. job[j].conv \in Convs \cup {None}
    BY <1>0 DEF TypeOK, JobRow
  <2>3. /\ job'[j].about # None => Stored(job[j].about)'
        /\ job'[j].conv # None => conv[job'[j].conv].asset # None
        /\ Exists(j)'
    BY <1>0, <1>4, <2>1 DEF JobRefs, Start, Stored, Exists, Open
  <2> QED BY <1>1, <1>4, <2>1, <2>2, <2>3 DEF Start
<1>5. ASSUME NEW j \in Jobs, NEW status \in JobStatus, Finish(j, status)
      PROVE  RefsResolve'
  <2>1. job[j].conv \in Convs \cup {None} /\ bundle' = bundle
    BY <1>0, <1>5 DEF TypeOK, JobRow, Finish
  <2>2. /\ job'[j].about # None => Stored(job[j].about)'
        /\ job'[j].conv # None => conv[job'[j].conv].asset # None
    BY <1>0, <1>5, <2>1, FinishEffect DEF JobRefs, Stored, Open
  <2>3. /\ \A k \in Jobs : k # j => job'[k] = job[k]
        /\ Exists(j)' /\ Exists(j) /\ job'[j].kind = job[j].kind
        /\ job'[j].result # None => job'[j].result = job[j].result
        /\ job'[j].conv = job[j].conv
    BY <1>0, <1>5, FinishEffect
  <2> QED BY <1>1, <1>5, <2>1, <2>2, <2>3 DEF Finish
<1>6. ASSUME NEW j \in Jobs, NEW b \in Bundles, QueueTerm(j, b)
      PROVE  RefsResolve'
  <2>1. /\ job'[j].conv = None /\ job'[j].about = b /\ job'[j].result = None
        /\ job'[j].status = "queued" /\ \A k \in Jobs : k # j => job'[k] = job[k]
    BY <1>0, <1>6 DEF QueueTerm, NoJob, TypeOK
  <2>2. Stored(job[j].about)' /\ Exists(j)'
    BY <1>6, <2>1 DEF QueueTerm, Stored, Exists
  <2> QED BY <1>1, <1>6, <2>1, <2>2 DEF QueueTerm
\* A step that adds a version b and makes it the result of research job j.
<1>7. ASSUME NEW j \in Jobs, NEW b \in Bundles, ~ Stored(b),
             \A k \in Jobs : k # j => job'[k] = job[k],
             job[j].status = "running", Exists(j)', job'[j].kind = "research",
             job'[j].conv = job[j].conv, job'[j].about = job[j].about, job'[j].result = b,
             Stored(b)', \A o \in Bundles : o # b => bundle'[o] = bundle[o],
             \A o \in bundle'[b].originals : Stored(o),
             item' = item, terms' = terms, noted' = noted \cup {<<j, b>>}
      PROVE  /\ VersionRefs' /\ ItemRefs' /\ TermRefs' /\ EventRefs'
             /\ (\A c \in Convs : Open(c) => Open(c)') => JobRefs'
  <2>1. \A o : Stored(o) => Stored(o)'
    BY <1>7 DEF Stored
  <2>2. VersionRefs'
    BY <1>0, <1>7, <2>1 DEF VersionRefs
  <2>3. ItemRefs' /\ TermRefs'
    BY <1>0, <1>7, <2>1 DEF ItemRefs, TermRefs
  <2>4. EventRefs'
    <3> SUFFICES ASSUME NEW e \in noted' PROVE Exists(e[1])' /\ Stored(e[2])'
      BY DEF EventRefs
    <3>1. CASE e \in noted
      <4>1. e[1] \in Jobs /\ Exists(e[1]) /\ Stored(e[2])
        BY <1>0, <3>1 DEF EventRefs, TypeOK
      <4>2. Exists(e[1])'
        BY <1>7, <4>1 DEF Exists
      <4> QED BY <2>1, <4>1, <4>2
    <3>2. CASE e = <<j, b>>
      BY <1>7, <3>2
    <3> QED BY <1>7, <3>1, <3>2
  <2>5. ASSUME \A c \in Convs : Open(c) => Open(c)'
        PROVE  JobRefs'
    <3> SUFFICES ASSUME NEW k \in Jobs, Exists(k)'
                 PROVE  /\ (job[k].conv # None => Open(job[k].conv))'
                        /\ (job[k].about # None => Stored(job[k].about))'
                        /\ (job[k].result # None =>
                               IF job[k].kind = "term" THEN job[k].result \in terms
                                                       ELSE Stored(job[k].result))'
      BY DEF JobRefs
    <3>1. Exists(k)
      BY <1>7 DEF Exists
    <3>2. (job[k].conv # None => Open(job[k].conv))'
      BY <1>0, <1>7, <2>5, <3>1 DEF JobRefs, Open, TypeOK, JobRow
    <3>3. (job[k].about # None => Stored(job[k].about))'
      BY <1>0, <1>7, <2>1, <3>1 DEF JobRefs, Stored
    <3>4. (job[k].result # None => IF job[k].kind = "term" THEN job[k].result \in terms
                                                       ELSE Stored(job[k].result))'
      BY <1>0, <1>7, <2>1, <3>1 DEF JobRefs, Stored
    <3> QED BY <3>2, <3>3, <3>4
  <2> QED BY <2>2, <2>3, <2>4, <2>5
<1>8. ASSUME NEW j \in Jobs, NEW b \in Bundles, NEW a \in Assets, NEW i \in Idents,
             Checkpoint(j, b, a, i)
      PROVE  RefsResolve'
  <2>1. /\ bundle'[b].asset = a /\ bundle'[b].originals = {}
        /\ \A o \in Bundles : o # b => bundle'[o] = bundle[o]
    BY <1>0, <1>8 DEF Checkpoint, TypeOK, BundleRow, NoBundle
  <2>2. /\ job'[j].status = "running" /\ job[j].status = "running"
        /\ job'[j].kind = "research" /\ job'[j].conv = job[j].conv
        /\ job'[j].about = job[j].about /\ job'[j].result = b
        /\ \A k \in Jobs : k # j => job'[k] = job[k]
    BY <1>0, <1>8 DEF Checkpoint, TypeOK, JobRow
  <2>3. ~ Stored(b) /\ Stored(b)' /\ Exists(j)'
    BY <1>0, <1>8, <2>1, <2>2 DEF Checkpoint, Stored, Exists
  <2>4. conv' = conv /\ page' = page
    BY <1>8 DEF Checkpoint
  <2>5. VersionRefs' /\ ItemRefs' /\ TermRefs' /\ EventRefs' /\ JobRefs'
    BY <1>7, <1>8, <2>1, <2>2, <2>3, <2>4 DEF Checkpoint, Open
  <2>6. PageRefs' /\ ConversationRefs'
    BY <1>0, <2>1, <2>3, <2>4 DEF PageRefs, ConversationRefs, Open, Messages, Stored
  <2> QED BY <2>5, <2>6 DEF RefsResolve
<1>9. ASSUME NEW j \in Jobs, NEW b \in Bundles, NEW a \in Assets, NEW i \in Idents,
             Complete(j, b, a, i)
      PROVE  RefsResolve'
  <2>1. /\ bundle'[b].asset = a /\ \A o \in bundle'[b].originals : Stored(o)
        /\ \A o \in Bundles : o # b => bundle'[o] = bundle[o]
    BY <1>0, <1>9 DEF Complete, TypeOK
  <2>2. ~ Stored(b) /\ Stored(b)'
    BY <1>0, <1>9, <2>1 DEF Complete, Stored
  <2>3. /\ \A k \in Jobs : k # j => job'[k] = job[k]
        /\ job[j].status = "running" /\ job'[j].kind = "research" /\ Exists(j)'
        /\ job'[j].conv = job[j].conv /\ job'[j].about = job[j].about /\ job'[j].result = b
    BY <1>0, <1>9, CompleteEffect DEF Exists
  <2>4. \A c \in Convs : /\ conv'[c].asset = conv[c].asset /\ conv'[c].ctx = conv[c].ctx
                         /\ conv'[c].selected = conv[c].selected
                         /\ conv'[c].answers \subseteq conv[c].answers \cup {b}
    <3>1. /\ conv \in [Convs -> ConvRow]
          /\ \/ conv' = conv
             \/ conv' = [conv EXCEPT ![job[j].conv].answers = @ \cup {b},
                                     ![job[j].conv].idle = FALSE]
      BY <1>0, <1>9 DEF Complete, TypeOK
    <3> QED BY <3>1 DEF ConvRow
  <2>5. \A d \in Assets : page'[d] = page[d] \/ page'[d] = b
    BY <1>0, <1>9 DEF Complete, TypeOK
  <2>6. VersionRefs' /\ ItemRefs' /\ TermRefs' /\ EventRefs' /\ JobRefs'
    BY <1>7, <1>9, <2>1, <2>2, <2>3, <2>4 DEF Complete, Open
  <2>7. \A o : Stored(o) => Stored(o)'
    BY <2>1, <2>2 DEF Stored
  <2>8. PageRefs'
    BY <1>0, <2>2, <2>5, <2>7 DEF PageRefs
  <2>9. ConversationRefs'
    BY <1>0, <2>2, <2>4, <2>5, <2>7 DEF ConversationRefs, Open, Messages, TypeOK, ConvRow
  <2> QED BY <2>6, <2>8, <2>9 DEF RefsResolve
<1>10. ASSUME NEW j \in Jobs, CompleteTerm(j)
       PROVE  RefsResolve'
  <2>1. bundle' = bundle /\ page' = page /\ item' = item /\ conv' = conv /\ noted' = noted
    BY <1>10 DEF CompleteTerm
  <2>2. PageRefs' /\ VersionRefs' /\ ItemRefs' /\ ConversationRefs'
    BY <1>0, <2>1 DEF PageRefs, VersionRefs, ItemRefs, ConversationRefs, Open, Messages, Stored
  <2>3. TermRefs'
    BY <1>0, <1>10 DEF TermRefs, CompleteTerm, Stored
  <2>4. /\ job'[j].conv = job[j].conv /\ job'[j].about = job[j].about
        /\ job'[j].result = job[j].about /\ job'[j].kind = "term"
        /\ job'[j].status = "completed" /\ Exists(j)
        /\ \A k \in Jobs : k # j => job'[k] = job[k]
    BY <1>0, <1>10 DEF CompleteTerm, TypeOK, JobRow, Exists
  <2>5. EventRefs'
    BY <1>0, <2>1, <2>4 DEF EventRefs, Exists, Stored, TypeOK
  <2>6. terms' = terms \cup {job[j].about}
    BY <1>10 DEF CompleteTerm
  <2>7. JobRefs'
    BY <1>0, <2>1, <2>4, <2>6 DEF JobRefs, Exists, Open, Stored
  <2> QED BY <2>2, <2>3, <2>5, <2>7 DEF RefsResolve
<1> QED BY <1>2, <1>3, <1>4, <1>5, <1>6, <1>8, <1>9, <1>10 DEF JobStep

LEMMA RestResolves ==
    ASSUME Integrity, ArtifactStep \/ Restart
                      \/ \E a \in Assets : AskRefresh(a) \/ DropRequest(a)
    PROVE  RefsResolve'
<1>0. /\ TypeOK /\ JobRowsMatchKind
      /\ PageRefs /\ VersionRefs /\ ConversationRefs /\ ItemRefs /\ TermRefs /\ JobRefs
      /\ EventRefs
      /\ None \notin Bundles /\ None \notin Assets /\ None \notin Convs
  BY NoneAssumption DEF Integrity, RefsResolve
<1>1. bundle' = bundle /\ page' = page /\ conv' = conv
  BY DEF ArtifactStep, DeleteItem, SaveItem, DeleteTerm, TermTaskOver, Restart, AskRefresh,
     DropRequest
<1>2. PageRefs' /\ VersionRefs' /\ ConversationRefs'
  BY <1>0, <1>1 DEF PageRefs, VersionRefs, ConversationRefs, Open, Messages, Stored
<1>3. ASSUME NEW k \in Items, DeleteItem(k) \/ \E cites \in SUBSET Bundles : SaveItem(k, cites)
      PROVE  RefsResolve'
  <2>1. ItemRefs'
    BY <1>0, <1>1, <1>3 DEF ItemRefs, DeleteItem, SaveItem, Stored, TypeOK
  <2>2. TermRefs' /\ JobRefs' /\ EventRefs'
    BY <1>0, <1>1, <1>3 DEF TermRefs, JobRefs, EventRefs, Exists, Open, Stored, DeleteItem, SaveItem
  <2> QED BY <1>2, <2>1, <2>2 DEF RefsResolve
<1>4. ASSUME NEW b \in Bundles, DeleteTerm(b)
      PROVE  RefsResolve'
  <2>1. ItemRefs' /\ TermRefs'
    BY <1>0, <1>1, <1>4 DEF ItemRefs, TermRefs, DeleteTerm, Stored
  <2>2. ASSUME NEW j \in Jobs, Exists(j)'
        PROVE  Exists(j) /\ job'[j] = job[j] /\ j \notin TermJobs(b)
    BY <1>4, <2>2 DEF DeleteTerm, Exists, NoJob
  <2>3. \A j \in Jobs : Exists(j)' /\ job[j].kind = "term" /\ job[j].result # None
                        => job[j].result \in terms'
    BY <1>0, <1>4, <2>2 DEF DeleteTerm, TermJobs, JobRefs, JobRowsMatchKind
  <2>4. JobRefs'
    BY <1>0, <1>1, <2>2, <2>3 DEF JobRefs, Open, Stored
  <2>5. EventRefs'
    <3> SUFFICES ASSUME NEW e \in noted' PROVE Exists(e[1])' /\ Stored(e[2])'
      BY DEF EventRefs
    <3>1. e \in noted /\ e[1] \in Jobs /\ e[1] \notin TermJobs(b)
      BY <1>0, <1>4 DEF DeleteTerm, TypeOK
    <3> QED BY <1>0, <1>1, <1>4, <3>1 DEF DeleteTerm, EventRefs, Exists, Stored
  <2> QED BY <1>2, <2>1, <2>4, <2>5 DEF RefsResolve
<1>5. CASE Restart
  <2>1. ItemRefs' /\ TermRefs'
    BY <1>0, <1>1, <1>5 DEF ItemRefs, TermRefs, Restart, Stored
  <2>2. \A j \in Jobs : /\ Exists(j) <=> Exists(j)'
                        /\ job'[j].conv = job[j].conv /\ job'[j].about = job[j].about
                        /\ job'[j].result = job[j].result /\ job'[j].kind = job[j].kind
    BY <1>0, <1>5, RestartEffect DEF Exists, Running, Active
  <2>3. JobRefs'
    <3>1. terms' = terms
      BY <1>5 DEF Restart
    <3> QED BY <1>0, <1>1, <2>2, <3>1 DEF JobRefs, Open, Stored
  <2>4. EventRefs'
    BY <1>0, <1>1, <1>5, <2>2 DEF EventRefs, Stored, Restart, TypeOK
  <2> QED BY <1>2, <2>1, <2>3, <2>4 DEF RefsResolve
<1>6. ASSUME \/ \E a \in Assets : AskRefresh(a) \/ DropRequest(a)
             \/ \E b \in Bundles : TermTaskOver(b)
      PROVE  RefsResolve'
  <2>1. ItemRefs' /\ TermRefs' /\ JobRefs' /\ EventRefs'
    BY <1>0, <1>1, <1>6 DEF ItemRefs, TermRefs, JobRefs, EventRefs, Exists, Open, Stored,
       AskRefresh, DropRequest, TermTaskOver
  <2> QED BY <1>2, <2>1 DEF RefsResolve
<1> QED BY <1>3, <1>4, <1>5, <1>6 DEF ArtifactStep

LEMMA IntegrityStep == Integrity /\ [Next]_vars => Integrity'
<1> SUFFICES ASSUME Integrity, [Next]_vars PROVE Integrity'
  OBVIOUS
<1>1. TypeOK'
  BY TypeStep DEF Integrity
<1>2. CASE Next
  <2>1. BlankRowsHoldNothing' /\ JobRowsMatchKind'
    BY <1>2, RowsStep
  <2>2. RefsResolve'
    BY <1>2, ConversationsResolve, JobsResolve, RestResolves, EvictResolves
    DEF Next, ManageCache
  <2> QED BY <1>1, <2>1, <2>2 DEF Integrity
<1>3. CASE UNCHANGED vars
  BY <1>1, <1>3 DEF vars, Integrity, BlankRowsHoldNothing, JobRowsMatchKind, RefsResolve,
     PageRefs, VersionRefs, ConversationRefs, ItemRefs, TermRefs, JobRefs, EventRefs,
     Stored, Open, Exists, Messages
<1> QED BY <1>2, <1>3

\* The inductive invariant behind the theorem below: every transaction of db.py,
\* library_deletion.py and library_cache.py keeps the references of every row.
THEOREM IntegrityHolds == Spec => []Integrity
BY IntegrityInit, IntegrityStep, PTL DEF Spec

\* Every reference of every row names a row that exists, in every order of
\* publications, deletions, expiry, eviction and restarts: graph() never raises
\* on a library this program wrote, and the backup validator finds every target.
THEOREM ReferencesResolve == Spec => []RefsResolve
<1>1. Integrity => RefsResolve
  BY DEF Integrity
<1> QED BY <1>1, IntegrityHolds, PTL

-----------------------------------------------------------------------------
(* What the user kept reads the same                                       *)

\* The versions a set leads to lie in every closed set around it.
LEMMA ReachWithin ==
    ASSUME NEW T \in SUBSET Bundles, Closed(T), NEW S \in SUBSET T
    PROVE  Reach(S) \subseteq T
BY DEF Reach

\* Whatever is kept, and every original behind it, has a row, and plan() finds it
\* from the roots.
LEMMA KeptProtected ==
    ASSUME Integrity
    PROVE  /\ Kept \subseteq Protected
           /\ \A b \in Kept : b \in Bundles /\ Stored(b)
<1> DEFINE S == {b \in Bundles : KeptCites(b)}
           T == {b \in Bundles : Stored(b)}
<1>0. TypeOK /\ VersionRefs /\ ConversationRefs /\ ItemRefs /\ TermRefs
  BY DEF Integrity, RefsResolve
<1>1. \A b \in S : Stored(b) /\ RootCites(b)
  BY <1>0 DEF KeptCites, RootCites, ConversationRefs, ItemRefs, TermRefs
<1>2. Closed(T)
  BY <1>0 DEF Closed, VersionRefs, Stored
<1>3. Kept \subseteq T
  BY <1>1, <1>2, ReachWithin DEF Kept
<1>4. S \subseteq Protected /\ Closed(Protected) /\ Protected \subseteq Bundles
  <2> DEFINE R == {b \in Bundles : Stored(b) /\ RootCites(b)}
  <2>1. R \subseteq Protected /\ Closed(Protected)
    BY <1>0, ReachClosed DEF Protected
  <2> QED BY <1>1, <2>1 DEF Protected, Reach
<1>5. Kept \subseteq Protected
  BY <1>4, ReachWithin DEF Kept
<1> QED BY <1>3, <1>5

\* A transaction writes a version only where there was none, and removes one only
\* in an eviction, from what plan() left free.
LEMMA VersionWrites ==
    ASSUME TypeOK, [Next]_vars
    PROVE  \A b \in Bundles : bundle'[b] = bundle[b] \/ ~ Stored(b) \/ b \in FreeBundles
<1>1. CASE bundle' = bundle
  BY <1>1
<1>2. ASSUME NEW j \in Jobs, NEW b \in Bundles, NEW a \in Assets, NEW i \in Idents,
             Checkpoint(j, b, a, i) \/ Complete(j, b, a, i)
      PROVE  /\ ~ Stored(b)
             /\ \A o \in Bundles : o # b => bundle'[o] = bundle[o]
  <2>1. CASE Checkpoint(j, b, a, i)
    BY <2>1 DEF Checkpoint, TypeOK
  <2>2. CASE Complete(j, b, a, i)
    BY <2>2 DEF Complete, TypeOK
  <2> QED BY <1>2, <2>1, <2>2
<1>3. CASE ManageCache
  <2>1. PICK B \in SUBSET FreeBundles, P \in SUBSET FreePages, J \in SUBSET FreeJobs :
            Evict(B, P, J)
    BY <1>3 DEF ManageCache
  <2> QED BY <2>1 DEF Evict
<1>4. CASE ConversationStep \/ ExpireConversations
  <2>1. ASSUME NEW c \in Convs, NEW a \in Assets, NEW v \in Bundles,
               CreateConversation(c, a, v) \/ ChangeScope(c, a, v)
        PROVE  bundle' = bundle
    BY <2>1 DEF CreateConversation, ChangeScope
  <2>2. ASSUME NEW c \in Convs, Age(c) \/ \E flag \in BOOLEAN : Bookmark(c, flag)
        PROVE  bundle' = bundle
    BY <2>2 DEF Age, Bookmark
  <2>3. ASSUME NEW C, RemoveConversations(C)
        PROVE  bundle' = bundle
    BY <2>3 DEF RemoveConversations
  <2> QED BY <1>1, <1>4, <2>1, <2>2, <2>3
          DEF ConversationStep, DeleteConversation, ExpireConversations
<1>6. CASE ArtifactStep \/ Restart \/ (\E a \in Assets : AskRefresh(a) \/ DropRequest(a))
           \/ UNCHANGED vars
  BY <1>1, <1>6 DEF ArtifactStep, SaveItem, DeleteItem, DeleteTerm, TermTaskOver, Restart,
     AskRefresh, DropRequest, vars
<1>5. CASE JobStep
  <2>1. ASSUME NEW j \in Jobs,
               \/ \E a \in Assets \cup {None} : QueueResearch(j, a)
               \/ \E c \in Convs : QueueFollowUp(j, c)
               \/ Start(j)
               \/ \E status \in JobStatus : Finish(j, status)
               \/ \E b \in Bundles : QueueTerm(j, b)
               \/ CompleteTerm(j)
        PROVE  bundle' = bundle
    BY <2>1 DEF QueueResearch, QueueFollowUp, Start, Finish, QueueTerm, CompleteTerm
  <2> QED BY <1>1, <1>2, <1>5, <2>1 DEF JobStep
<1> QED BY <1>3, <1>4, <1>5, <1>6 DEF Next

\* No transaction changes or removes what the user kept, whatever publications,
\* checkpoints, evictions and restarts come in between.
THEOREM SavedWorkIsStable == Spec => SavedWorkStable
<1>1. ASSUME Integrity, [Next]_vars
      PROVE  [\A b \in Kept : bundle'[b] = bundle[b]]_vars
  <2>1. TypeOK
    BY <1>1 DEF Integrity
  <2>2. ASSUME NEW b \in Kept
        PROVE  bundle'[b] = bundle[b]
    <3>1. b \in Bundles /\ Stored(b) /\ b \notin FreeBundles
      BY <1>1, KeptProtected DEF FreeBundles
    <3> QED BY <1>1, <2>1, <3>1, VersionWrites
  <2> QED BY <2>2
<1> QED BY <1>1, IntegrityHolds, PTL DEF Spec, SavedWorkStable
=============================================================================
