------------------------------ MODULE Library ------------------------------
(***************************************************************************)
(* The private PostgreSQL library of the desktop application: the three    *)
(* tables of db.py (records, research_jobs, runtime_events) and every      *)
(* transaction that writes research, conversations, saved artifacts and    *)
(* term explanations, with deletion (library_deletion.py), cache eviction  *)
(* (library_cache.py) and the recovery at start (Database.recover).        *)
(*                                                                         *)
(* One action is one transaction.  Documents are abstracted to the         *)
(* references they hold: what deletion, eviction and the backup validator  *)
(* can tell apart.  Retained imports are a separate family of records with *)
(* no reference into this one and are not part of this module.             *)
(*                                                                         *)
(* Identifiers are drawn by uid() and never repeat.  Here an identifier    *)
(* whose row is gone may be drawn again, which is the same thing as long   *)
(* as nothing refers to a removed one: RefsResolve states that of the      *)
(* rows, and Unused asks it of the tasks that are remembered in memory.    *)
(***************************************************************************)
EXTENDS FiniteSets

CONSTANTS
    Assets,    \* asset ids, as "SEC:0000320193:NASDAQ:AAPL"
    Idents,    \* identity attributes the registry may give for one asset id
    Bundles,   \* ids of evidence bundles
    Convs,     \* ids of conversations
    Items,     \* ids of saved bookmarks, reports and comparisons
    Jobs,      \* ids of research and term jobs
    Kinds,     \* the kinds of job admitted: "research", "term"
    None       \* an absent reference (JSON null)

ASSUME NoneAssumption ==
    None \notin Assets \cup Idents \cup Bundles \cup Convs \cup Jobs
ASSUME KindsAssumption == Kinds \subseteq {"research", "term"}

VARIABLES
    bundle,    \* records of kind "bundle": immutable evidence snapshots
    page,      \* records of kind "asset": the version each asset page shows
    conv,      \* records of kind "conversation"
    item,      \* records of kind "saved", "report", "comparison": cited versions
    terms,     \* records of kind "term": the versions that have an explanation
    job,       \* table research_jobs
    noted,     \* evidence.registered rows of runtime_events: <<job, version>>
    asked,     \* memory only: assets whose page a submit has read before its await
    pending    \* memory only, TermService.pending: the job whose task explains a version

vars == <<bundle, page, conv, item, terms, job, noted, asked, pending>>

-----------------------------------------------------------------------------
(* Rows                                                                    *)

Active == {"queued", "running"}
JobStatus == {"none", "queued", "running", "needs_identity", "interrupted",
              "cancelled", "completed", "failed"}

\* The statuses Database.transition never leaves.
Absorbing_Reopened == {"cancelled", "failed"}
Absorbing == {"cancelled", "completed", "failed"}

\* EvidenceBundle: its scope, its completion label, and the original versions
\* named by context_references.  asset = None marks an id with no row.
BundleRow == [asset : Assets \cup {None}, ident : Idents \cup {None},
              complete : BOOLEAN, originals : SUBSET Bundles]
NoBundle == [asset |-> None, ident |-> None, complete |-> FALSE, originals |-> {}]

\* Conversation: scope, selected page version, the versions its scope messages
\* selected and those its assistant messages answered with.
\* idle stands for last_activity being older than the retention period.
ConvRow == [asset : Assets \cup {None}, ctx : Bundles \cup {None},
            selected : SUBSET Bundles, answers : SUBSET Bundles,
            bookmarked : BOOLEAN, idle : BOOLEAN]
NoConv == [asset |-> None, ctx |-> None, selected |-> {}, answers |-> {},
           bookmarked |-> FALSE, idle |-> FALSE]

\* Job: the request (asset_id, conversation_id, context_bundle_id, or the
\* bundle_id of a term) and the version its result holds.  previous is the saved
\* scope the run read when it started; it lives in the task, not in the table.
JobRow == [status : JobStatus, kind : {"research", "term"},
           asset : Assets \cup {None}, conv : Convs \cup {None},
           about : Bundles \cup {None}, result : Bundles \cup {None},
           previous : Bundles \cup {None}]
NoJob == [status |-> "none", kind |-> "research", asset |-> None, conv |-> None,
          about |-> None, result |-> None, previous |-> None]

Stored(b) == b \in Bundles /\ bundle[b].asset # None
Open(c) == conv[c].asset # None
Exists(j) == job[j].status # "none"
Unused(j) == ~ Exists(j) /\ \A b \in Bundles : pending[b] # j
Running(j) == job[j].status \in Active
Messages(c) == conv[c].selected \cup conv[c].answers

\* identity_hash binds the asset id and every attribute of the listing.
Fingerprint(b) == <<bundle[b].asset, bundle[b].ident>>
SameIdentity_Unchecked(b, o) == TRUE
SameIdentity(b, o) == Fingerprint(b) = Fingerprint(o)

TypeOK ==
    /\ bundle \in [Bundles -> BundleRow]
    /\ page \in [Assets -> Bundles \cup {None}]
    /\ conv \in [Convs -> ConvRow]
    /\ item \in [Items -> SUBSET Bundles]
    /\ terms \in SUBSET Bundles
    /\ job \in [Jobs -> JobRow]
    /\ noted \in SUBSET (Jobs \X Bundles)
    /\ asked \in SUBSET Assets
    /\ pending \in [Bundles -> Jobs \cup {None}]

Init ==
    /\ bundle = [b \in Bundles |-> NoBundle]
    /\ page = [a \in Assets |-> None]
    /\ conv = [c \in Convs |-> NoConv]
    /\ item = [k \in Items |-> {}]
    /\ terms = {}
    /\ job = [j \in Jobs |-> NoJob]
    /\ noted = {}
    /\ asked = {}
    /\ pending = [b \in Bundles |-> None]

-----------------------------------------------------------------------------
(* Conversations                                                           *)

\* Database.conversation_context: the selected version must describe the same
\* instrument as the page the asset shows now.
ContextOK(a, v) ==
    /\ page[a] # None
    /\ Stored(v)
    /\ SameIdentity(v, page[a])

ActiveIn_RunningOnly(c) == \E j \in Jobs : job[j].conv = c /\ job[j].status = "running"
ActiveIn(c) == \E j \in Jobs : job[j].conv = c /\ Running(j)

CreateConversation(c, a, v) ==
    /\ ~ Open(c)
    /\ ContextOK(a, v)
    /\ conv' = [conv EXCEPT ![c] = [NoConv EXCEPT !.asset = a, !.ctx = v,
                                           !.selected = {v}]]
    /\ UNCHANGED <<bundle, page, item, terms, job, noted, asked, pending>>

\* update_conversation with an asset or a page version: refused while an answer
\* is in flight, and recorded in the transcript.
ChangeScope(c, a, v) ==
    /\ Open(c)
    /\ ~ ActiveIn(c)
    /\ ContextOK(a, v)
    /\ conv' = [conv EXCEPT ![c].asset = a, ![c].ctx = v,
                            ![c].selected = @ \cup {v}, ![c].idle = FALSE]
    /\ UNCHANGED <<bundle, page, item, terms, job, noted, asked, pending>>

\* update_conversation with only the bookmark.
Bookmark(c, flag) ==
    /\ Open(c)
    /\ conv' = [conv EXCEPT ![c].bookmarked = flag, ![c].idle = FALSE]
    /\ UNCHANGED <<bundle, page, item, terms, job, noted, asked, pending>>

\* The retention period passes without activity in the conversation.
Age(c) ==
    /\ Open(c) /\ ~ conv[c].idle
    /\ conv' = [conv EXCEPT ![c].idle = TRUE]
    /\ UNCHANGED <<bundle, page, item, terms, job, noted, asked, pending>>

\* Removes conversations with their jobs and the events of those jobs.
RemoveConversations(C) ==
    /\ conv' = [c \in Convs |-> IF c \in C THEN NoConv ELSE conv[c]]
    /\ job' = [j \in Jobs |-> IF job[j].conv \in C THEN NoJob ELSE job[j]]
    /\ noted' = {e \in noted : job[e[1]].conv \notin C}
    /\ UNCHANGED <<bundle, page, item, terms, asked, pending>>

\* delete_saved_item for a conversation.
DeleteConversation(c) ==
    /\ Open(c)
    /\ ~ ActiveIn(c)
    /\ RemoveConversations({c})

\* expire_conversations: every conversation that qualifies, in one transaction.
Expired == {c \in Convs : Open(c) /\ conv[c].idle
                          /\ ~ conv[c].bookmarked /\ ~ ActiveIn(c)}
ExpireConversations ==
    /\ Expired # {}
    /\ RemoveConversations(Expired)

-----------------------------------------------------------------------------
(* Research jobs                                                           *)

\* submit with a saved page: the page is read, then the identity of its listing is
\* looked up again (an await) before it decides that a run is needed.
AskRefresh(a) ==
    /\ page[a] # None /\ a \notin asked
    /\ asked' = asked \cup {a}
    /\ UNCHANGED <<bundle, page, conv, item, terms, job, noted, pending>>

\* The rest of a submit that read a page and then needs no run, or is refused.
DropRequest(a) ==
    /\ a \in asked
    /\ asked' = asked \ {a}
    /\ UNCHANGED <<bundle, page, conv, item, terms, job, noted, pending>>

\* queue_research without a conversation: a refresh names the asset of the page
\* that was read, which may be gone by now; a new search names no asset.
QueueResearch(j, a) ==
    /\ Unused(j) /\ "research" \in Kinds
    /\ a \in asked \cup {None}
    /\ asked' = asked \ {a}
    /\ job' = [job EXCEPT ![j] = [NoJob EXCEPT !.status = "queued", !.asset = a]]
    /\ UNCHANGED <<bundle, page, conv, item, terms, noted, pending>>

\* queue_research in a conversation: freezes its scope and page version in the
\* request and renews its activity, under the row lock of the conversation.
QueueFollowUp(j, c) ==
    /\ Unused(j) /\ "research" \in Kinds
    /\ Open(c)
    /\ ContextOK(conv[c].asset, conv[c].ctx)
    /\ job' = [job EXCEPT ![j] = [NoJob EXCEPT !.status = "queued", !.conv = c,
                                  !.asset = conv[c].asset, !.about = conv[c].ctx]]
    /\ conv' = [conv EXCEPT ![c].idle = FALSE]
    /\ UNCHANGED <<bundle, page, item, terms, noted, asked, pending>>

\* The saved scope a starting run reads: the page version its conversation
\* selected, else the page of the asset it refreshes, else nothing.
SavedScope(j) ==
    CASE job[j].kind = "term" -> None
      [] job[j].conv # None -> job[j].about
      [] job[j].asset # None -> page[job[j].asset]
      [] OTHER -> None

\* A term job is worked on only by the task that submit remembers for its version.
\* close() discards a task before its first step and leaves the row queued: such a
\* row can still be cancelled or recovered, but nothing ever runs it.
HasTask(j) == job[j].kind = "term" => pending[job[j].about] = j

Start(j) ==
    /\ job[j].status = "queued" /\ HasTask(j)
    /\ job' = [job EXCEPT ![j].status = "running", ![j].previous = SavedScope(j)]
    /\ UNCHANGED <<bundle, page, conv, item, terms, noted, asked, pending>>

\* What research.py has established about a version it is about to write: the
\* scope of the request, and the identity of the saved scope if there is one.
AdmittedScope(j, a, i) ==
    /\ job[j].asset \in {None, a}
    /\ job[j].previous # None => Fingerprint(job[j].previous) = <<a, i>>

\* checkpoint_research: an incomplete version, the job's result and its event.
Checkpoint(j, b, a, i) ==
    /\ job[j].status = "running" /\ job[j].kind = "research"
    /\ ~ Stored(b)
    /\ AdmittedScope(j, a, i)
    /\ bundle' = [bundle EXCEPT ![b] = [NoBundle EXCEPT !.asset = a, !.ident = i]]
    /\ job' = [job EXCEPT ![j].result = b]
    /\ noted' = noted \cup {<<j, b>>}
    /\ UNCHANGED <<page, conv, item, terms, asked, pending>>

\* The versions a set of versions leads to through the originals they name.
Closed(S) == \A b \in S : bundle[b].originals \subseteq S
Reach(S) == {b \in Bundles : \A T \in SUBSET Bundles : S \subseteq T /\ Closed(T) => b \in T}

\* The saved versions whose numbers a run may have put into its prompt: the saved
\* scope, the messages of its conversation, and the originals these lead to.
ContextOf(j) ==
    IF job[j].previous = None THEN {}
    ELSE Reach({job[j].previous}
               \cup IF job[j].conv # None THEN Messages(job[j].conv) ELSE {})

\* The conversation of the request still has the frozen scope.
ScopeUnchanged(j, a) ==
    job[j].conv # None => /\ conv[job[j].conv].asset = a
                          /\ conv[job[j].conv].ctx = job[j].about

\* complete_research: the complete version, the reference to it (a conversation
\* answer or the asset page), the job and its event, or nothing at all.
Complete(j, b, a, i) ==
    /\ job[j].status = "running" /\ job[j].kind = "research"
    /\ ~ Stored(b)
    /\ AdmittedScope(j, a, i)
    /\ ScopeUnchanged(j, a)
    /\ \E originals \in SUBSET {o \in ContextOf(j) : Stored(o) /\ Fingerprint(o) = <<a, i>>} :
          bundle' = [bundle EXCEPT ![b] = [asset |-> a, ident |-> i, complete |-> TRUE,
                                           originals |-> originals]]
    /\ IF job[j].conv # None
       THEN /\ conv' = [conv EXCEPT ![job[j].conv].answers = @ \cup {b},
                                    ![job[j].conv].idle = FALSE]
            /\ page' = page
       ELSE /\ page' = [page EXCEPT ![a] = b]
            /\ conv' = conv
    /\ job' = [job EXCEPT ![j].status = "completed", ![j].result = b,
                          ![j].previous = None]
    /\ noted' = noted \cup {<<j, b>>}
    /\ UNCHANGED <<item, terms, asked, pending>>

\* transition, called by the ending of a run and by cancel.  A run that published
\* still refreshes term explanations and emits its last event, so an ending can
\* come then too; a terminal status is never left.  A section checkpoint survives
\* every ending but a request for the user's choice of an identity.  A redirected
\* question completes before it retrieves anything.
MayEnd(j) == Running(j) \/ job[j].status = "completed"
KeepsCheckpoint_Always == {"cancelled", "failed", "interrupted", "needs_identity"}
KeepsCheckpoint == {"cancelled", "failed", "interrupted"}
Finish(j, status) ==
    /\ MayEnd(j) /\ job[j].status \notin Absorbing
    /\ \/ status = "cancelled"
       \/ status = "failed" /\ HasTask(j)
       \/ status = "needs_identity" /\ job[j].status = "running"
                                    /\ job[j].kind = "research"
       \/ status = "completed" /\ job[j].status = "running"
                               /\ job[j].kind = "research" /\ job[j].result = None
    /\ job' = [job EXCEPT ![j].status = status, ![j].previous = None,
                          ![j].result = IF status \in KeepsCheckpoint THEN @ ELSE None]
    /\ UNCHANGED <<bundle, page, conv, item, terms, noted, asked, pending>>

-----------------------------------------------------------------------------
(* Saved artifacts and term explanations                                   *)

\* create_saved and create_report cite one version, create_comparison two
\* versions of different assets.
SaveItem(k, cites) ==
    /\ item[k] = {}
    /\ \A b \in cites : Stored(b)
    /\ \/ Cardinality(cites) = 1
       \/ Cardinality(cites) = 2
          /\ \A b, o \in cites : b # o => bundle[b].asset # bundle[o].asset
    /\ item' = [item EXCEPT ![k] = cites]
    /\ UNCHANGED <<bundle, page, conv, terms, job, noted, asked, pending>>

DeleteItem(k) ==
    /\ item[k] # {}
    /\ item' = [item EXCEPT ![k] = {}]
    /\ UNCHANGED <<bundle, page, conv, terms, job, noted, asked, pending>>

TermJobs(b) == {j \in Jobs : job[j].kind = "term" /\ job[j].about = b}

\* TermService.submit and queue_term, without an await between them: a duplicate is
\* recognised by the saved explanation and by the pending task, not by other rows.
QueueTerm(j, b) ==
    /\ Unused(j) /\ "term" \in Kinds
    /\ Stored(b) /\ b \notin terms /\ pending[b] = None
    /\ pending' = [pending EXCEPT ![b] = j]
    /\ job' = [job EXCEPT ![j] = [NoJob EXCEPT !.status = "queued", !.kind = "term",
                                               !.about = b]]
    /\ UNCHANGED <<bundle, page, conv, item, terms, noted, asked>>

\* The done-callback: the task has ended its row, or was discarded by close() before
\* its first step and leaves the row as it was admitted.
TermTaskOver_Early(b) ==
    /\ pending[b] # None
    /\ pending' = [pending EXCEPT ![b] = None]
    /\ UNCHANGED <<bundle, page, conv, item, terms, job, noted, asked>>
TermTaskOver(b) ==
    /\ pending[b] # None /\ job[pending[b]].status # "running"
    /\ pending' = [pending EXCEPT ![b] = None]
    /\ UNCHANGED <<bundle, page, conv, item, terms, job, noted, asked>>

CompleteTerm(j) ==
    /\ job[j].status = "running" /\ job[j].kind = "term"
    /\ Stored(job[j].about) /\ job[j].about \notin terms
    /\ terms' = terms \cup {job[j].about}
    /\ job' = [job EXCEPT ![j].status = "completed", ![j].result = job[j].about]
    /\ UNCHANGED <<bundle, page, conv, item, noted, asked, pending>>

\* delete_saved_item for a term: with every job of that explanation.
DeleteTerm(b) ==
    /\ b \in terms
    /\ \A j \in TermJobs(b) : ~ Running(j)
    /\ terms' = terms \ {b}
    /\ job' = [j \in Jobs |-> IF j \in TermJobs(b) THEN NoJob ELSE job[j]]
    /\ noted' = {e \in noted : e[1] \notin TermJobs(b)}
    /\ UNCHANGED <<bundle, page, conv, item, asked, pending>>

-----------------------------------------------------------------------------
(* Cache maintenance                                                       *)

\* The references of a job and of its events, as graph() projects them.
JobCites(j, b) ==
    b # None /\ (b = job[j].about \/ b = job[j].result \/ <<j, b>> \in noted)
RootJob(j) ==
    Exists(j) /\ (Running(j) \/ job[j].conv # None \/ job[j].kind = "term")

\* Every reference of every row names a row that exists: graph() raises
\* CacheError and the backup validator refuses the library otherwise.
PageRefs == \A a \in Assets : page[a] # None => Stored(page[a])
VersionRefs == \A b \in Bundles : \A o \in bundle[b].originals : Stored(o)
ConversationRefs ==
    \A c \in Convs : Open(c) =>
        /\ page[conv[c].asset] # None
        /\ Stored(conv[c].ctx)
        /\ \A b \in Messages(c) : Stored(b)
ItemRefs == \A k \in Items : \A b \in item[k] : Stored(b)
TermRefs == \A b \in terms : Stored(b)
JobRefs ==
    \A j \in Jobs : Exists(j) =>
        /\ job[j].conv # None => Open(job[j].conv)
        /\ job[j].about # None => Stored(job[j].about)
        /\ job[j].result # None =>
              IF job[j].kind = "term" THEN job[j].result \in terms
                                      ELSE Stored(job[j].result)
EventRefs == \A e \in noted : Exists(e[1]) /\ Stored(e[2])
RefsResolve == /\ PageRefs /\ VersionRefs /\ ConversationRefs /\ ItemRefs /\ TermRefs
               /\ JobRefs /\ EventRefs

\* Versions cited by a root node: anything the user keeps, active work, and the
\* jobs that belong to a conversation or to a learning request.
RootCites_ItemsForgotten(b) ==
    \/ \E c \in Convs : Open(c) /\ (b = conv[c].ctx \/ b \in Messages(c)
                                    \/ b = page[conv[c].asset])
    \/ b \in terms
    \/ \E j \in Jobs : RootJob(j) /\ JobCites(j, b)
RootCites(b) ==
    \/ \E c \in Convs : Open(c) /\ (b = conv[c].ctx \/ b \in Messages(c)
                                    \/ b = page[conv[c].asset])
    \/ \E k \in Items : b \in item[k]
    \/ b \in terms
    \/ \E j \in Jobs : RootJob(j) /\ JobCites(j, b)

\* plan(): what the roots lead to is protected, the rest is free.
Protected_RootsOnly == {b \in Bundles : Stored(b) /\ RootCites(b)}
Protected == Reach({b \in Bundles : Stored(b) /\ RootCites(b)})
FreeBundles == {b \in Bundles : Stored(b)} \ Protected
FreePages == {a \in Assets : page[a] # None /\ \A c \in Convs : conv[c].asset # a}
FreeJobs == {j \in Jobs : Exists(j) /\ ~ RootJob(j)}

\* Its second loop: whole connected components of what is free.  Which of them
\* go depends on ages, sizes and the budget, and is left open here.
WholeComponents(B, P, J) ==
    LET free == FreeBundles IN
    /\ \A a \in FreePages : page[a] \in free => (a \in P <=> page[a] \in B)
    /\ \A b \in free : \A o \in bundle[b].originals \cap free : b \in B <=> o \in B
    /\ \A j \in FreeJobs : \A b \in free : JobCites(j, b) => (j \in J <=> b \in B)

\* manage_cache(evict=True): deferred while any job is active, refused when a
\* reference does not resolve.
Evict(B, P, J) ==
    /\ B \cup P \cup J # {}
    /\ WholeComponents(B, P, J)
    /\ bundle' = [b \in Bundles |-> IF b \in B THEN NoBundle ELSE bundle[b]]
    /\ page' = [a \in Assets |-> IF a \in P THEN None ELSE page[a]]
    /\ job' = [j \in Jobs |-> IF j \in J THEN NoJob ELSE job[j]]
    /\ noted' = {e \in noted : e[1] \notin J}
    /\ UNCHANGED <<conv, item, terms, asked, pending>>

IdleLibrary_QueueOnly == \A j \in Jobs : job[j].status # "queued"
IdleLibrary == \A j \in Jobs : ~ Running(j)
ManageCache ==
    /\ IdleLibrary
    /\ RefsResolve
    /\ \E B \in SUBSET FreeBundles, P \in SUBSET FreePages, J \in SUBSET FreeJobs :
          Evict(B, P, J)

-----------------------------------------------------------------------------
(* Crash and restart: the tasks are gone, recover() marks what they left    *)

Restart ==
    /\ asked # {} \/ (\E b \in Bundles : pending[b] # None) \/ \E j \in Jobs : Running(j)
    /\ asked' = {}
    /\ pending' = [b \in Bundles |-> None]
    /\ job' = [j \in Jobs |-> IF Running(j)
                 THEN [job[j] EXCEPT !.status = "interrupted", !.previous = None]
                 ELSE job[j]]
    /\ UNCHANGED <<bundle, page, conv, item, terms, noted>>

-----------------------------------------------------------------------------

ConversationStep ==
    \E c \in Convs :
        \/ \E a \in Assets, v \in Bundles :
              CreateConversation(c, a, v) \/ ChangeScope(c, a, v)
        \/ \E flag \in BOOLEAN : Bookmark(c, flag)
        \/ Age(c)
        \/ DeleteConversation(c)

JobStep ==
    \E j \in Jobs :
        \/ \E a \in Assets \cup {None} : QueueResearch(j, a)
        \/ \E c \in Convs : QueueFollowUp(j, c)
        \/ Start(j)
        \/ \E b \in Bundles, a \in Assets, i \in Idents :
              Checkpoint(j, b, a, i) \/ Complete(j, b, a, i)
        \/ \E status \in JobStatus : Finish(j, status)
        \/ \E b \in Bundles : QueueTerm(j, b)
        \/ CompleteTerm(j)

ArtifactStep ==
    \/ \E k \in Items : DeleteItem(k) \/ \E cites \in SUBSET Bundles : SaveItem(k, cites)
    \/ \E b \in Bundles : DeleteTerm(b) \/ TermTaskOver(b)

Next == ConversationStep \/ JobStep \/ ArtifactStep
        \/ (\E a \in Assets : AskRefresh(a) \/ DropRequest(a))
        \/ ExpireConversations \/ ManageCache \/ Restart

Spec == Init /\ [][Next]_vars

-----------------------------------------------------------------------------
(* Properties                                                              *)

\* An answer in flight keeps the meaning of its question: while a follow-up is
\* queued or running its conversation still has the scope and the page version
\* that were frozen into the request, whatever scope edits, deletion and expiry
\* do from other threads.
ScopeFrozen ==
    \A j \in Jobs : Running(j) /\ job[j].conv # None =>
        /\ conv[job[j].conv].asset = job[j].asset
        /\ conv[job[j].conv].ctx = job[j].about

\* The scope of a library that the backup validator accepts: pages show complete
\* versions of their own asset and a conversation's page version is of its asset.
ScopesAgree ==
    /\ \A a \in Assets : page[a] # None =>
          bundle[page[a]].asset = a /\ bundle[page[a]].complete
    /\ \A c \in Convs : Open(c) => bundle[conv[c].ctx].asset = conv[c].asset

\* A section checkpoint never passes for a finished answer: only an unfinished
\* run holds one as its result, and a completed run never does.
CheckpointsLabelled ==
    \A j \in Jobs : job[j].kind = "research" /\ job[j].result # None =>
        IF bundle[job[j].result].complete
        THEN job[j].status = "completed"
        ELSE job[j].status \in {"running", "failed", "cancelled", "interrupted"}

\* Publication is all or nothing: the answers in a conversation are exactly what
\* its completed follow-ups hold as their results, all of them complete versions.
AnswersPublished ==
    \A c \in Convs : Open(c) =>
        /\ conv[c].answers =
              {job[j].result : j \in {k \in Jobs : job[k].conv = c
                                     /\ job[k].status = "completed"}} \ {None}
        /\ \A b \in conv[c].answers : bundle[b].complete

\* A term is explained once: while a job works on a version's explanation no other
\* works on it or has written it, and only a completed job holds an explanation, its
\* own.  The deduplication is in memory and starts anew with every task that ends,
\* deletion and completion are in the database, and a row that close() left queued
\* may stand beside the job that replaces it.
TermsExplainedOnce ==
    /\ \A b \in Bundles : \A j, o \in TermJobs(b) : job[j].status = "running" =>
          b \notin terms /\ (job[o].status \in {"running", "completed"} => j = o)
    /\ \A j \in Jobs : Exists(j) /\ job[j].kind = "term" =>
          job[j].result = IF job[j].status = "completed" THEN job[j].about ELSE None

\* The saved version a run read when it started is still in the library when it
\* publishes: maintenance does not pull it away from under the run.
HeldEvidenceStays ==
    \A j \in Jobs : job[j].previous # None => Stored(job[j].previous)

\* What the user kept reads the same for as long as it is kept: no transaction
\* removes or rewrites a version that an item, a term explanation or a conversation
\* cites, nor an original that such a version leads to, however far.
KeptCites(b) ==
    \/ \E k \in Items : b \in item[k]
    \/ b \in terms
    \/ \E c \in Convs : Open(c) /\ (b = conv[c].ctx \/ b \in Messages(c))
Kept == Reach({b \in Bundles : KeptCites(b)})
SavedWorkStable == [][\A b \in Kept : bundle'[b] = bundle[b]]_vars

\* The transactions on the job table keep the promises of JobLifecycle.
Lifecycle == INSTANCE JobLifecycle WITH status <- [j \in Jobs |-> job[j].status]
LifecycleSpec == Lifecycle!Spec

\* "Complete identity hashes bind name, symbol, listing, type, currency and
\* identifiers; even the same ID cannot change those attributes": a conversation's
\* page version and the page its asset shows have one identity.  The backup
\* validator refuses the whole library where they differ.
ContextMatchesPage ==
    \A c \in Convs : Open(c) /\ page[conv[c].asset] # None =>
        SameIdentity(conv[c].ctx, page[conv[c].asset])
=============================================================================
