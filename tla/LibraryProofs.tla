--------------------------- MODULE LibraryProofs ---------------------------
(***************************************************************************)
(* Proofs about module Library, for every set of identifiers and any       *)
(* number of jobs, conversations and versions.                             *)
(***************************************************************************)
EXTENDS Library, TLAPS

-----------------------------------------------------------------------------
(* Types                                                                   *)

\* A row stays a row when its columns are overwritten with values of their kind.
LEMMA ConvRowUpdate ==
    ASSUME NEW r \in ConvRow, NEW a \in Assets \cup {None}, NEW v \in Bundles \cup {None},
           NEW S \in SUBSET Bundles, NEW A \in SUBSET Bundles, NEW flag \in BOOLEAN
    PROVE  /\ [r EXCEPT !.asset = a, !.ctx = v, !.selected = S, !.idle = FALSE] \in ConvRow
           /\ [r EXCEPT !.bookmarked = flag, !.idle = FALSE] \in ConvRow
           /\ [r EXCEPT !.idle = flag] \in ConvRow
           /\ [r EXCEPT !.answers = A, !.idle = FALSE] \in ConvRow
BY DEF ConvRow

LEMMA JobRowUpdate ==
    ASSUME NEW r \in JobRow, NEW s \in JobStatus, NEW p \in Bundles \cup {None},
           NEW q \in Bundles \cup {None}
    PROVE  /\ [r EXCEPT !.status = s, !.previous = p] \in JobRow
           /\ [r EXCEPT !.result = q] \in JobRow
           /\ [r EXCEPT !.status = s, !.result = q] \in JobRow
           /\ [r EXCEPT !.status = s, !.previous = p, !.result = q] \in JobRow
           /\ [r EXCEPT !.status = s, !.result = q, !.previous = p] \in JobRow
BY DEF JobRow

LEMMA BlankRows == NoBundle \in BundleRow /\ NoConv \in ConvRow /\ NoJob \in JobRow
BY DEF BundleRow, NoBundle, ConvRow, NoConv, JobRow, NoJob, JobStatus

LEMMA TypeInit == Init => TypeOK
BY BlankRows DEF Init, TypeOK

LEMMA TypeConversations ==
    ASSUME TypeOK, ConversationStep \/ ExpireConversations
    PROVE  TypeOK'
<1>0. conv \in [Convs -> ConvRow] /\ job \in [Jobs -> JobRow]
  BY DEF TypeOK
<1>1. ASSUME NEW c \in Convs, NEW a \in Assets, NEW v \in Bundles,
             CreateConversation(c, a, v)
      PROVE  TypeOK'
  <2>1. [NoConv EXCEPT !.asset = a, !.ctx = v, !.selected = {v}] \in ConvRow
    BY DEF ConvRow, NoConv
  <2> QED BY <1>1, <2>1 DEF CreateConversation, TypeOK
<1>2. ASSUME NEW c \in Convs, NEW a \in Assets, NEW v \in Bundles, ChangeScope(c, a, v)
      PROVE  TypeOK'
  <2> DEFINE r == [conv[c] EXCEPT !.asset = a, !.ctx = v,
                                  !.selected = @ \cup {v}, !.idle = FALSE]
  <2>1. conv' = [conv EXCEPT ![c] = r]
    BY <1>2 DEF ChangeScope
  <2>2. conv[c].selected \cup {v} \in SUBSET Bundles
    BY <1>0 DEF ConvRow
  <2>3. r \in ConvRow
    BY <1>0, <2>2, ConvRowUpdate
  <2> QED BY <1>2, <2>1, <2>3 DEF ChangeScope, TypeOK
<1>3. ASSUME NEW c \in Convs, NEW flag \in BOOLEAN, Bookmark(c, flag)
      PROVE  TypeOK'
  <2> DEFINE r == [conv[c] EXCEPT !.bookmarked = flag, !.idle = FALSE]
  <2>1. conv' = [conv EXCEPT ![c] = r]
    BY <1>3 DEF Bookmark
  <2>2. r \in ConvRow
    BY <1>0, ConvRowUpdate
  <2> QED BY <1>3, <2>1, <2>2 DEF Bookmark, TypeOK
<1>4. ASSUME NEW c \in Convs, Age(c)
      PROVE  TypeOK'
  <2> DEFINE r == [conv[c] EXCEPT !.idle = TRUE]
  <2>1. conv' = [conv EXCEPT ![c] = r]
    BY <1>4 DEF Age
  <2>2. r \in ConvRow
    BY <1>0 DEF ConvRow
  <2> QED BY <1>4, <2>1, <2>2 DEF Age, TypeOK
<1>5. ASSUME NEW C \in SUBSET Convs, RemoveConversations(C)
      PROVE  TypeOK'
  BY <1>5, BlankRows DEF RemoveConversations, TypeOK
<1>6. ASSUME NEW c \in Convs, DeleteConversation(c)
      PROVE  TypeOK'
  BY <1>5, <1>6 DEF DeleteConversation
<1>7. CASE ExpireConversations
  BY <1>5, <1>7 DEF ExpireConversations, Expired
<1> QED BY <1>1, <1>2, <1>3, <1>4, <1>6, <1>7 DEF ConversationStep

LEMMA TypeJobs ==
    ASSUME TypeOK, JobStep
    PROVE  TypeOK'
<1>0. /\ conv \in [Convs -> ConvRow] /\ job \in [Jobs -> JobRow]
      /\ {"queued", "running", "completed"} \subseteq JobStatus
  BY DEF TypeOK, JobStatus
<1>1. ASSUME NEW j \in Jobs, NEW a \in Assets \cup {None}, QueueResearch(j, a)
      PROVE  TypeOK'
  <2>1. [NoJob EXCEPT !.status = "queued", !.asset = a] \in JobRow
    BY <1>0 DEF JobRow, NoJob
  <2> QED BY <1>1, <2>1 DEF QueueResearch, TypeOK
<1>2. ASSUME NEW j \in Jobs, NEW c \in Convs, QueueFollowUp(j, c)
      PROVE  TypeOK'
  <2>1. conv[c].asset \in Assets \cup {None} /\ conv[c].ctx \in Bundles \cup {None}
    BY <1>0 DEF ConvRow
  <2>2. [NoJob EXCEPT !.status = "queued", !.conv = c, !.asset = conv[c].asset,
                      !.about = conv[c].ctx] \in JobRow
    BY <1>0, <2>1 DEF JobRow, NoJob
  <2>3. conv' \in [Convs -> ConvRow]
    BY <1>0, <1>2 DEF QueueFollowUp, ConvRow
  <2> QED BY <1>2, <2>2, <2>3 DEF QueueFollowUp, TypeOK
<1>3. ASSUME NEW j \in Jobs, Start(j)
      PROVE  TypeOK'
  <2> DEFINE r == [job[j] EXCEPT !.status = "running", !.previous = SavedScope(j)]
  <2>1. SavedScope(j) \in Bundles \cup {None}
    BY <1>3 DEF SavedScope, TypeOK, JobRow
  <2>2. job' = [job EXCEPT ![j] = r]
    BY <1>3 DEF Start
  <2>3. r \in JobRow
    BY <1>0, <2>1, JobRowUpdate
  <2> QED BY <1>3, <2>2, <2>3 DEF Start, TypeOK
<1>4. ASSUME NEW j \in Jobs, NEW b \in Bundles, NEW a \in Assets, NEW i \in Idents,
             Checkpoint(j, b, a, i)
      PROVE  TypeOK'
  <2>1. [NoBundle EXCEPT !.asset = a, !.ident = i] \in BundleRow
    BY DEF BundleRow, NoBundle
  <2>2. bundle' \in [Bundles -> BundleRow]
    BY <1>4, <2>1 DEF Checkpoint, TypeOK
  <2>3. job' \in [Jobs -> JobRow]
    BY <1>0, <1>4, JobRowUpdate DEF Checkpoint
  <2> QED BY <1>4, <2>2, <2>3 DEF Checkpoint, TypeOK
<1>5. ASSUME NEW j \in Jobs, NEW b \in Bundles, NEW a \in Assets, NEW i \in Idents,
             Complete(j, b, a, i)
      PROVE  TypeOK'
  <2>1. bundle' \in [Bundles -> BundleRow]
    <3>1. PICK O \in SUBSET {o \in ContextOf(j) : Stored(o) /\ Fingerprint(o) = <<a, i>>} :
             bundle' = [bundle EXCEPT ![b] = [asset |-> a, ident |-> i, complete |-> TRUE,
                                              originals |-> O]]
      BY <1>5 DEF Complete
    <3>2. O \in SUBSET Bundles
      BY DEF Stored
    <3>3. [asset |-> a, ident |-> i, complete |-> TRUE, originals |-> O] \in BundleRow
      BY <3>2 DEF BundleRow
    <3> QED BY <3>1, <3>3 DEF TypeOK
  <2>2. conv' \in [Convs -> ConvRow]
    <3>1. CASE job[j].conv = None
      BY <1>0, <1>5, <3>1 DEF Complete
    <3>2. CASE job[j].conv # None
      <4> DEFINE c == job[j].conv
                 r == [conv[c] EXCEPT !.answers = @ \cup {b}, !.idle = FALSE]
      <4>1. c \in Convs
        BY <1>0, <3>2 DEF JobRow
      <4>2. conv[c].answers \cup {b} \in SUBSET Bundles
        BY <1>0, <4>1 DEF ConvRow
      <4>3. r \in ConvRow
        BY <1>0, <4>1, <4>2, ConvRowUpdate
      <4>4. conv' = [conv EXCEPT ![c] = r]
        BY <1>5, <3>2 DEF Complete
      <4> QED BY <1>0, <4>3, <4>4
    <3> QED BY <3>1, <3>2
  <2>3. page' \in [Assets -> Bundles \cup {None}]
    BY <1>5 DEF Complete, TypeOK
  <2>4. job' \in [Jobs -> JobRow]
    <3> DEFINE r == [job[j] EXCEPT !.status = "completed", !.result = b, !.previous = None]
    <3>1. r \in JobRow
      BY <1>0, JobRowUpdate
    <3>2. job' = [job EXCEPT ![j] = r]
      BY <1>5 DEF Complete
    <3> QED BY <1>0, <3>1, <3>2
  <2> QED BY <1>5, <2>1, <2>2, <2>3, <2>4 DEF Complete, TypeOK
<1>6. ASSUME NEW j \in Jobs, NEW status \in JobStatus, Finish(j, status)
      PROVE  TypeOK'
  <2> DEFINE r == [job[j] EXCEPT !.status = status, !.previous = None,
                       !.result = IF status \in KeepsCheckpoint THEN @ ELSE None]
  <2>1. job[j].result \in Bundles \cup {None}
    BY <1>0 DEF JobRow
  <2>2. r \in JobRow
    BY <1>0, <2>1, JobRowUpdate
  <2>3. job' = [job EXCEPT ![j] = r]
    BY <1>6 DEF Finish
  <2> QED BY <1>6, <2>2, <2>3 DEF Finish, TypeOK
<1>7. ASSUME NEW j \in Jobs, NEW b \in Bundles, QueueTerm(j, b)
      PROVE  TypeOK'
  <2>1. [NoJob EXCEPT !.status = "queued", !.kind = "term", !.about = b] \in JobRow
    BY <1>0 DEF JobRow, NoJob
  <2> QED BY <1>7, <2>1 DEF QueueTerm, TypeOK
<1>8. ASSUME NEW j \in Jobs, CompleteTerm(j)
      PROVE  TypeOK'
  <2> DEFINE r == [job[j] EXCEPT !.status = "completed", !.result = job[j].about]
  <2>1. job[j].about \in Bundles
    BY <1>8 DEF CompleteTerm, Stored
  <2>2. r \in JobRow
    BY <1>0, <2>1, JobRowUpdate
  <2>3. job' = [job EXCEPT ![j] = r]
    BY <1>8 DEF CompleteTerm
  <2> QED BY <1>8, <2>1, <2>2, <2>3 DEF CompleteTerm, TypeOK
<1> QED BY <1>1, <1>2, <1>3, <1>4, <1>5, <1>6, <1>7, <1>8 DEF JobStep

LEMMA TypeRest ==
    ASSUME TypeOK, ArtifactStep \/ ManageCache \/ Restart
                   \/ \E a \in Assets : AskRefresh(a) \/ DropRequest(a)
    PROVE  TypeOK'
<1>1. ASSUME NEW k \in Items, DeleteItem(k)
      PROVE  TypeOK'
  BY <1>1 DEF DeleteItem, TypeOK
<1>2. ASSUME NEW k \in Items, NEW cites \in SUBSET Bundles, SaveItem(k, cites)
      PROVE  TypeOK'
  BY <1>2 DEF SaveItem, TypeOK
<1>3. ASSUME NEW b \in Bundles, DeleteTerm(b) \/ TermTaskOver(b)
      PROVE  TypeOK'
  BY <1>3, BlankRows DEF DeleteTerm, TermTaskOver, TypeOK
<1>4. ASSUME NEW B \in SUBSET FreeBundles, NEW P \in SUBSET FreePages,
             NEW J \in SUBSET FreeJobs, Evict(B, P, J)
      PROVE  TypeOK'
  BY <1>4, BlankRows DEF Evict, TypeOK
<1>5. CASE Restart
  <2>1. \A j \in Jobs : [job[j] EXCEPT !.status = "interrupted", !.previous = None] \in JobRow
    BY JobRowUpdate DEF TypeOK, JobStatus
  <2> QED BY <1>5, <2>1 DEF Restart, TypeOK
<1>6. ASSUME NEW a \in Assets, AskRefresh(a) \/ DropRequest(a)
      PROVE  TypeOK'
  BY <1>6 DEF AskRefresh, DropRequest, TypeOK
<1> QED BY <1>1, <1>2, <1>3, <1>4, <1>5, <1>6 DEF ArtifactStep, ManageCache

LEMMA TypeStep == TypeOK /\ [Next]_vars => TypeOK'
<1> SUFFICES ASSUME TypeOK, [Next]_vars PROVE TypeOK'
  OBVIOUS
<1>1. CASE UNCHANGED vars
  BY <1>1 DEF vars, TypeOK
<1> QED BY <1>1, TypeConversations, TypeJobs, TypeRest DEF Next

\* Every record keeps its shape and every reference its kind, whatever the
\* transactions of db.py do.
THEOREM TypeCorrect == Spec => []TypeOK
BY TypeInit, TypeStep, PTL DEF Spec
=============================================================================
