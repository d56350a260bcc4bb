------------------------- MODULE ExplanationsProofs -------------------------
(***************************************************************************)
(* Proofs about the explanation jobs of EventStream, for any documents,    *)
(* jobs and queue limit.                                                   *)
(*                                                                         *)
(* What the properties say of saved records has to be known of the tasks   *)
(* that may still save one: the stage of a task fixes the status of its    *)
(* row (RowInv), a task is the one that is pending under its key until it  *)
(* is reaped (PendInv), and work that was revoked is only found while the  *)
(* request that revoked it holds the settings lock (RevInv).               *)
(***************************************************************************)
EXTENDS EventStream, TLAPS

RowInv ==
    \A j \in Jobs :
        /\ stage[j] \in {"ready", "line"} => status[j] = "queued"
        /\ stage[j] \in {"viewing", "model", "unwinding", "expiring"} => status[j] = "running"
        /\ stage[j] = "submitting" => status[j] = "none"
        /\ key[j] = None => status[j] = "none" /\ stage[j] = "none"

DocInv == NothingOutlivesDocument

PendInv ==
    /\ \A j \in Tasks : pending[key[j]] = j
    /\ \A j \in Live : key[j] \notin saved

RevInv ==
    /\ setter # "idle" => ~ consent
    /\ \A j \in revoked \cap Jobs :
          /\ key[j] # None /\ stage[j] # "submitting" /\ status[j] # "completed"
          /\ j \in Live => setter # "idle"
    /\ \A d \in revoked \cap Docs :
          /\ document[d] \in {"fetching", "gone"}
          /\ document[d] = "fetching" => setter = "imports"

IInv == ExplanationTypeOK /\ RowInv /\ DocInv /\ PendInv /\ RevInv

-----------------------------------------------------------------------------

LEMMA KeyFacts ==
  /\ \A k \in Keys : k[1] \in Docs /\ k # None
  /\ \A k \in Keys, d \in Docs : k \in KeysOf(d) <=> k[1] = d
  BY ExplanationsAssumption DEF Keys, KeysOf

\* The status and the event of an ending leave the table well typed.
LEMMA EndTypes ==
  ASSUME ExplanationTypeOK, NEW j \in Jobs, NEW s \in {"completed", "failed", "cancelled"},
         End(j, s)
  PROVE  /\ status' \in [Jobs -> Statuses] /\ stage' \in [Jobs -> Stages]
         /\ hit' \subseteq Jobs /\ holder' \in Jobs \cup {None}
         /\ events' \in [Jobs -> Seq(Kinds)]
         /\ \A i \in Jobs : /\ status'[i] = IF i = j THEN s ELSE status[i]
                            /\ stage'[i] = IF i = j THEN "ended" ELSE stage[i]
                            /\ i # j => events'[i] = events[i]
  <1>1. EventOf(s) \in Kinds
    BY DEF EventOf, Kinds
  <1>2. events' \in [Jobs -> Seq(Kinds)] /\ \A i \in Jobs : i # j => events'[i] = events[i]
    <2>1. events \in [Jobs -> Seq(Kinds)] /\ events' = [events EXCEPT ![j] = Append(@, EventOf(s))]
      BY DEF End, ExplanationTypeOK
    <2>2. Append(events[j], EventOf(s)) \in Seq(Kinds)
      BY <1>1, <2>1
    <2>. QED BY <2>1, <2>2
  <1>3. status \in [Jobs -> Statuses] /\ stage \in [Jobs -> Stages] /\ hit \subseteq Jobs
        /\ holder \in Jobs \cup {None}
    BY DEF ExplanationTypeOK
  <1>4. status' \in [Jobs -> Statuses] /\ stage' \in [Jobs -> Stages]
        /\ \A i \in Jobs : /\ status'[i] = IF i = j THEN s ELSE status[i]
                           /\ stage'[i] = IF i = j THEN "ended" ELSE stage[i]
    BY <1>3 DEF End, Statuses, Stages
  <1>5. hit' \subseteq Jobs /\ holder' \in Jobs \cup {None}
    BY <1>3 DEF End
  <1>. QED BY <1>2, <1>4, <1>5

\* A task that ends without an answer keeps the invariant, however it came to that.
LEMMA EndKeeps ==
  ASSUME IInv, NEW j \in Live, NEW s \in {"failed", "cancelled"}, End(j, s), Own(j)
  PROVE  IInv'
  <1>. USE ExplanationsAssumption, KeyFacts DEF IInv
  <1>1. j \in Jobs /\ UNCHANGED <<key, pending, cancels, document, saved, consent, setter, revoked>>
    BY DEF Live, Tasks, Own, docs, switch
  <1>2. /\ status' \in [Jobs -> Statuses] /\ stage' \in [Jobs -> Stages]
        /\ hit' \subseteq Jobs /\ holder' \in Jobs \cup {None}
        /\ events' \in [Jobs -> Seq(Kinds)]
        /\ \A i \in Jobs : /\ status'[i] = IF i = j THEN s ELSE status[i]
                           /\ stage'[i] = IF i = j THEN "ended" ELSE stage[i]
                           /\ i # j => events'[i] = events[i]
    BY <1>1, EndTypes
  <1>3. ExplanationTypeOK'
    BY <1>1, <1>2 DEF ExplanationTypeOK
  <1>4. RowInv'
    BY <1>1, <1>2 DEF RowInv, Live, Tasks, ExplanationTypeOK
  <1>5. DocInv'
    BY <1>1, <1>2 DEF DocInv, NothingOutlivesDocument, Active
  <1>6. PendInv'
    BY <1>1, <1>2 DEF PendInv, Live, Tasks
  <1>7. RevInv'
    <2>1. \A i \in Live' : i \in Live
      BY <1>1, <1>2 DEF Live, Tasks
    <2>2. \A i \in Jobs : /\ stage'[i] = "submitting" => stage[i] = "submitting"
                          /\ status'[i] = "completed" => status[i] = "completed"
      BY <1>2
    <2>. QED BY <1>1, <2>1, <2>2 DEF RevInv
  <1>. QED BY <1>3, <1>4, <1>5, <1>6, <1>7 DEF IInv

LEMMA RetainFileKeeps ==
  ASSUME IInv, NEW d \in Docs, RetainFile(d) PROVE IInv'
  <1>. USE ExplanationsAssumption, KeyFacts DEF IInv
  <1>1. ExplanationTypeOK'
    BY DEF RetainFile, ExplanationTypeOK, Keys, Statuses, Stages, Documents, Kinds,
       Tasks, Live, requests, table, docs, switch
  <1>2. RowInv'
    BY DEF RetainFile, RowInv, Tasks, Live, ExplanationTypeOK, Keys, Statuses,
       Stages, Documents, Kinds, requests, table, docs, switch
  <1>3. DocInv'
    BY DEF RetainFile, DocInv, NothingOutlivesDocument, RowInv, Tasks, Live,
       ExplanationTypeOK, Keys, Statuses, Stages, Documents, Kinds, Active,
       requests, table, docs, switch
  <1>4. PendInv'
    BY DEF RetainFile, PendInv, RowInv, Tasks, Live, ExplanationTypeOK, Keys,
       Statuses, Stages, Documents, Kinds, requests, table, docs, switch
  <1>5. RevInv'
    BY DEF RetainFile, RevInv, RowInv, Tasks, Live, ExplanationTypeOK, Keys,
       Statuses, Stages, Documents, Kinds, requests, table, docs, switch
  <1>. QED BY <1>1, <1>2, <1>3, <1>4, <1>5 DEF IInv

LEMMA StartFetchKeeps ==
  ASSUME IInv, NEW d \in Docs, StartFetch(d) PROVE IInv'
  <1>. USE ExplanationsAssumption, KeyFacts DEF IInv
  <1>1. ExplanationTypeOK'
    BY DEF StartFetch, ExplanationTypeOK, Keys, Statuses, Stages, Documents, Kinds,
       Tasks, Live, requests, table, docs, switch
  <1>2. RowInv'
    BY DEF StartFetch, RowInv, Tasks, Live, ExplanationTypeOK, Keys, Statuses,
       Stages, Documents, Kinds, requests, table, docs, switch
  <1>3. DocInv'
    BY DEF StartFetch, DocInv, NothingOutlivesDocument, RowInv, Tasks, Live,
       ExplanationTypeOK, Keys, Statuses, Stages, Documents, Kinds, Active,
       requests, table, docs, switch
  <1>4. PendInv'
    BY DEF StartFetch, PendInv, RowInv, Tasks, Live, ExplanationTypeOK, Keys,
       Statuses, Stages, Documents, Kinds, requests, table, docs, switch
  <1>5. RevInv'
    BY DEF StartFetch, RevInv, RowInv, Tasks, Live, ExplanationTypeOK, Keys,
       Statuses, Stages, Documents, Kinds, requests, table, docs, switch
  <1>. QED BY <1>1, <1>2, <1>3, <1>4, <1>5 DEF IInv

LEMMA FetchDoneKeeps ==
  ASSUME IInv, NEW d \in Docs, FetchDone(d) PROVE IInv'
  <1>. USE ExplanationsAssumption, KeyFacts DEF IInv
  <1>1. ExplanationTypeOK'
    BY DEF FetchDone, ExplanationTypeOK, Keys, Statuses, Stages, Documents, Kinds,
       Tasks, Live, requests, table, docs, switch
  <1>2. RowInv'
    BY DEF FetchDone, RowInv, Tasks, Live, ExplanationTypeOK, Keys, Statuses,
       Stages, Documents, Kinds, requests, table, docs, switch
  <1>3. DocInv'
    BY DEF FetchDone, DocInv, NothingOutlivesDocument, RowInv, Tasks, Live,
       ExplanationTypeOK, Keys, Statuses, Stages, Documents, Kinds, Active,
       requests, table, docs, switch
  <1>4. PendInv'
    BY DEF FetchDone, PendInv, RowInv, Tasks, Live, ExplanationTypeOK, Keys,
       Statuses, Stages, Documents, Kinds, requests, table, docs, switch
  <1>5. RevInv'
    BY DEF FetchDone, RevInv, RowInv, Tasks, Live, ExplanationTypeOK, Keys,
       Statuses, Stages, Documents, Kinds, requests, table, docs, switch
  <1>. QED BY <1>1, <1>2, <1>3, <1>4, <1>5 DEF IInv

LEMMA FetchEndsKeeps ==
  ASSUME IInv, NEW d \in Docs, FetchEnds(d) PROVE IInv'
  <1>. USE ExplanationsAssumption, KeyFacts DEF IInv
  <1>1. ExplanationTypeOK'
    BY DEF FetchEnds, ExplanationTypeOK, Keys, Statuses, Stages, Documents, Kinds,
       Tasks, Live, requests, table, docs, switch
  <1>2. RowInv'
    BY DEF FetchEnds, RowInv, Tasks, Live, ExplanationTypeOK, Keys, Statuses,
       Stages, Documents, Kinds, requests, table, docs, switch
  <1>3. DocInv'
    BY DEF FetchEnds, DocInv, NothingOutlivesDocument, RowInv, Tasks, Live,
       ExplanationTypeOK, Keys, Statuses, Stages, Documents, Kinds, Active,
       requests, table, docs, switch
  <1>4. PendInv'
    BY DEF FetchEnds, PendInv, RowInv, Tasks, Live, ExplanationTypeOK, Keys,
       Statuses, Stages, Documents, Kinds, requests, table, docs, switch
  <1>5. RevInv'
    BY DEF FetchEnds, RevInv, RowInv, Tasks, Live, ExplanationTypeOK, Keys,
       Statuses, Stages, Documents, Kinds, requests, table, docs, switch
  <1>. QED BY <1>1, <1>2, <1>3, <1>4, <1>5 DEF IInv

LEMMA StoreFetchedKeeps ==
  ASSUME IInv, NEW d \in Docs, StoreFetched(d) PROVE IInv'
  <1>. USE ExplanationsAssumption, KeyFacts DEF IInv
  <1>1. ExplanationTypeOK'
    BY DEF StoreFetched, ExplanationTypeOK, Keys, Statuses, Stages, Documents,
       Kinds, Tasks, Live, requests, table, docs, switch
  <1>2. RowInv'
    BY DEF StoreFetched, RowInv, Tasks, Live, ExplanationTypeOK, Keys, Statuses,
       Stages, Documents, Kinds, requests, table, docs, switch
  <1>3. DocInv'
    BY DEF StoreFetched, DocInv, NothingOutlivesDocument, RowInv, Tasks, Live,
       ExplanationTypeOK, Keys, Statuses, Stages, Documents, Kinds, Active,
       requests, table, docs, switch
  <1>4. PendInv'
    BY DEF StoreFetched, PendInv, RowInv, Tasks, Live, ExplanationTypeOK, Keys,
       Statuses, Stages, Documents, Kinds, requests, table, docs, switch
  <1>5. RevInv'
    BY DEF StoreFetched, RevInv, RowInv, Tasks, Live, ExplanationTypeOK, Keys,
       Statuses, Stages, Documents, Kinds, requests, table, docs, switch
  <1>. QED BY <1>1, <1>2, <1>3, <1>4, <1>5 DEF IInv

LEMMA DeleteDocumentKeeps ==
  ASSUME IInv, NEW d \in Docs, DeleteDocument(d) PROVE IInv'
  <1>. USE ExplanationsAssumption, KeyFacts DEF IInv
  <1>1. ExplanationTypeOK'
    BY DEF DeleteDocument, ExplanationTypeOK, Keys, Statuses, Stages, Documents,
       Kinds, Tasks, Live, Forget, About, KeysOf, ActiveJobs, Active, requests,
       table, docs, switch
  <1>2. RowInv'
    BY DEF DeleteDocument, RowInv, Tasks, Live, ExplanationTypeOK, Keys, Statuses,
       Stages, Documents, Kinds, Forget, About, KeysOf, ActiveJobs, Active,
       requests, table, docs, switch
  <1>3. DocInv'
    BY DEF DeleteDocument, DocInv, NothingOutlivesDocument, RowInv, Tasks, Live,
       ExplanationTypeOK, Keys, Statuses, Stages, Documents, Kinds, Forget, About,
       KeysOf, ActiveJobs, Active, requests, table, docs, switch
  <1>4. PendInv'
    BY DEF DeleteDocument, PendInv, RowInv, Tasks, Live, ExplanationTypeOK, Keys,
       Statuses, Stages, Documents, Kinds, Forget, About, KeysOf, ActiveJobs,
       Active, requests, table, docs, switch
  <1>5. RevInv'
    BY DEF DeleteDocument, RevInv, RowInv, Tasks, Live, ExplanationTypeOK, Keys,
       Statuses, Stages, Documents, Kinds, Forget, About, KeysOf, ActiveJobs,
       Active, requests, table, docs, switch
  <1>. QED BY <1>1, <1>2, <1>3, <1>4, <1>5 DEF IInv

LEMMA DeleteExplanationKeeps ==
  ASSUME IInv, NEW k \in Keys, DeleteExplanation(k) PROVE IInv'
  <1>. USE ExplanationsAssumption, KeyFacts DEF IInv
  <1>1. ExplanationTypeOK'
    BY DEF DeleteExplanation, ExplanationTypeOK, Keys, Statuses, Stages, Documents,
       Kinds, Tasks, Live, Forget, About, ActiveJobs, Active, requests, table, docs,
       switch
  <1>2. RowInv'
    BY DEF DeleteExplanation, RowInv, Tasks, Live, ExplanationTypeOK, Keys,
       Statuses, Stages, Documents, Kinds, Forget, About, ActiveJobs, Active,
       requests, table, docs, switch
  <1>3. DocInv'
    BY DEF DeleteExplanation, DocInv, NothingOutlivesDocument, RowInv, Tasks, Live,
       ExplanationTypeOK, Keys, Statuses, Stages, Documents, Kinds, Forget, About,
       ActiveJobs, Active, requests, table, docs, switch
  <1>4. PendInv'
    BY DEF DeleteExplanation, PendInv, RowInv, Tasks, Live, ExplanationTypeOK, Keys,
       Statuses, Stages, Documents, Kinds, Forget, About, ActiveJobs, Active,
       requests, table, docs, switch
  <1>5. RevInv'
    BY DEF DeleteExplanation, RevInv, RowInv, Tasks, Live, ExplanationTypeOK, Keys,
       Statuses, Stages, Documents, Kinds, Forget, About, ActiveJobs, Active,
       requests, table, docs, switch
  <1>. QED BY <1>1, <1>2, <1>3, <1>4, <1>5 DEF IInv

LEMMA SubmitKeeps ==
  ASSUME IInv, NEW j \in Jobs, NEW k \in Keys, Submit(j, k) PROVE IInv'
  <1>. USE ExplanationsAssumption, KeyFacts DEF IInv
  <1>1. ExplanationTypeOK'
    BY DEF Submit, ExplanationTypeOK, Keys, Statuses, Stages, Documents, Kinds,
       Tasks, Live, requests, table, docs, switch
  <1>2. RowInv'
    BY DEF Submit, RowInv, Tasks, Live, ExplanationTypeOK, Keys, Statuses, Stages,
       Documents, Kinds, requests, table, docs, switch
  <1>3. DocInv'
    BY DEF Submit, DocInv, NothingOutlivesDocument, RowInv, Tasks, Live,
       ExplanationTypeOK, Keys, Statuses, Stages, Documents, Kinds, Active,
       requests, table, docs, switch
  <1>4. PendInv'
    BY DEF Submit, PendInv, RowInv, Tasks, Live, ExplanationTypeOK, Keys, Statuses,
       Stages, Documents, Kinds, requests, table, docs, switch
  <1>5. RevInv'
    BY DEF Submit, RevInv, RowInv, Tasks, Live, ExplanationTypeOK, Keys, Statuses,
       Stages, Documents, Kinds, requests, table, docs, switch
  <1>. QED BY <1>1, <1>2, <1>3, <1>4, <1>5 DEF IInv

LEMMA AdmitKeeps ==
  ASSUME IInv, NEW j \in Jobs, Admit(j) PROVE IInv'
  <1>. USE ExplanationsAssumption, KeyFacts DEF IInv
  <1>1. ExplanationTypeOK'
    BY DEF Admit, ExplanationTypeOK, Keys, Statuses, Stages, Documents, Kinds,
       Tasks, Live, Register, requests, table, docs, switch
  <1>2. RowInv'
    BY DEF Admit, RowInv, Tasks, Live, ExplanationTypeOK, Keys, Statuses, Stages,
       Documents, Kinds, Register, requests, table, docs, switch
  <1>3. DocInv'
    BY DEF Admit, DocInv, NothingOutlivesDocument, RowInv, Tasks, Live,
       ExplanationTypeOK, Keys, Statuses, Stages, Documents, Kinds, Active,
       Register, requests, table, docs, switch
  <1>4. PendInv'
    BY DEF Admit, PendInv, RowInv, Tasks, Live, ExplanationTypeOK, Keys, Statuses,
       Stages, Documents, Kinds, Register, requests, table, docs, switch
  <1>5. RevInv'
    BY DEF Admit, RevInv, RowInv, Tasks, Live, ExplanationTypeOK, Keys, Statuses,
       Stages, Documents, Kinds, Register, requests, table, docs, switch
  <1>. QED BY <1>1, <1>2, <1>3, <1>4, <1>5 DEF IInv

LEMMA ReturnKeeps ==
  ASSUME IInv, NEW j \in Jobs, Return(j) PROVE IInv'
  <1>. USE ExplanationsAssumption, KeyFacts DEF IInv
  <1>1. ExplanationTypeOK'
    BY DEF Return, ExplanationTypeOK, Keys, Statuses, Stages, Documents, Kinds,
       Tasks, Live, requests, table, docs, switch
  <1>2. RowInv'
    BY DEF Return, RowInv, Tasks, Live, ExplanationTypeOK, Keys, Statuses, Stages,
       Documents, Kinds, requests, table, docs, switch
  <1>3. DocInv'
    BY DEF Return, DocInv, NothingOutlivesDocument, RowInv, Tasks, Live,
       ExplanationTypeOK, Keys, Statuses, Stages, Documents, Kinds, Active,
       requests, table, docs, switch
  <1>4. PendInv'
    BY DEF Return, PendInv, RowInv, Tasks, Live, ExplanationTypeOK, Keys, Statuses,
       Stages, Documents, Kinds, requests, table, docs, switch
  <1>5. RevInv'
    BY DEF Return, RevInv, RowInv, Tasks, Live, ExplanationTypeOK, Keys, Statuses,
       Stages, Documents, Kinds, requests, table, docs, switch
  <1>. QED BY <1>1, <1>2, <1>3, <1>4, <1>5 DEF IInv

LEMMA ReapKeeps ==
  ASSUME IInv, NEW j \in Jobs, Reap(j) PROVE IInv'
  <1>. USE ExplanationsAssumption, KeyFacts DEF IInv
  <1>1. ExplanationTypeOK'
    BY DEF Reap, ExplanationTypeOK, Keys, Statuses, Stages, Documents, Kinds, Tasks,
       Live, requests, table, docs, switch
  <1>2. RowInv'
    BY DEF Reap, RowInv, Tasks, Live, ExplanationTypeOK, Keys, Statuses, Stages,
       Documents, Kinds, requests, table, docs, switch
  <1>3. DocInv'
    BY DEF Reap, DocInv, NothingOutlivesDocument, RowInv, Tasks, Live,
       ExplanationTypeOK, Keys, Statuses, Stages, Documents, Kinds, Active,
       requests, table, docs, switch
  <1>4. PendInv'
    BY DEF Reap, PendInv, RowInv, Tasks, Live, ExplanationTypeOK, Keys, Statuses,
       Stages, Documents, Kinds, requests, table, docs, switch
  <1>5. RevInv'
    BY DEF Reap, RevInv, RowInv, Tasks, Live, ExplanationTypeOK, Keys, Statuses,
       Stages, Documents, Kinds, requests, table, docs, switch
  <1>. QED BY <1>1, <1>2, <1>3, <1>4, <1>5 DEF IInv

LEMMA FirstStepKeeps ==
  ASSUME IInv, NEW j \in Jobs, FirstStep(j) PROVE IInv'
  <1>. USE ExplanationsAssumption, KeyFacts DEF IInv
  <1>1. ExplanationTypeOK'
    BY DEF FirstStep, ExplanationTypeOK, Keys, Statuses, Stages, Documents, Kinds,
       Tasks, Live, MoveTo, Own, requests, table, docs, switch
  <1>2. RowInv'
    BY DEF FirstStep, RowInv, Tasks, Live, ExplanationTypeOK, Keys, Statuses,
       Stages, Documents, Kinds, MoveTo, Own, requests, table, docs, switch
  <1>3. DocInv'
    BY DEF FirstStep, DocInv, NothingOutlivesDocument, RowInv, Tasks, Live,
       ExplanationTypeOK, Keys, Statuses, Stages, Documents, Kinds, Active, MoveTo,
       Own, requests, table, docs, switch
  <1>4. PendInv'
    BY DEF FirstStep, PendInv, RowInv, Tasks, Live, ExplanationTypeOK, Keys,
       Statuses, Stages, Documents, Kinds, MoveTo, Own, requests, table, docs,
       switch
  <1>5. RevInv'
    BY DEF FirstStep, RevInv, RowInv, Tasks, Live, ExplanationTypeOK, Keys,
       Statuses, Stages, Documents, Kinds, MoveTo, Own, requests, table, docs,
       switch
  <1>. QED BY <1>1, <1>2, <1>3, <1>4, <1>5 DEF IInv

LEMMA EnterKeeps ==
  ASSUME IInv, NEW j \in Jobs, Enter(j) PROVE IInv'
  <1>1. j \in Live
    BY DEF Enter, Live, Tasks
  <1>2. CASE End(j, "failed")
    BY <1>1, <1>2, EndKeeps DEF Enter
  <1>3. CASE ~ End(j, "failed")
    <2>. USE ExplanationsAssumption, KeyFacts DEF IInv
    <2>1. /\ UNCHANGED <<key, pending, cancels, document, saved, consent, setter, revoked>>
          /\ UNCHANGED <<events, hit>> /\ consent /\ holder' = j
          /\ status' = [status EXCEPT ![j] = "running"]
          /\ stage' = [stage EXCEPT ![j] = "viewing"]
      BY <1>3 DEF Enter, Own, docs, switch
    <2>2. ExplanationTypeOK'
      BY <2>1 DEF ExplanationTypeOK, Statuses, Stages
    <2>3. RowInv'
      BY <1>1, <2>1 DEF RowInv, ExplanationTypeOK, Live, Tasks
    <2>4. DocInv'
      BY <1>1, <2>1 DEF DocInv, NothingOutlivesDocument, Active, ExplanationTypeOK,
         RowInv, Enter
    <2>5. PendInv'
      BY <1>1, <2>1 DEF PendInv, Live, Tasks, ExplanationTypeOK
    <2>6. RevInv'
      BY <1>1, <2>1 DEF RevInv, Live, Tasks, ExplanationTypeOK
    <2>. QED BY <2>2, <2>3, <2>4, <2>5, <2>6 DEF IInv
  <1>. QED BY <1>2, <1>3

LEMMA ViewedKeeps ==
  ASSUME IInv, NEW j \in Jobs, Viewed(j) PROVE IInv'
  <1>1. j \in Live
    BY DEF Viewed, Live, Tasks
  <1>2. CASE End(j, "failed")
    BY <1>1, <1>2, EndKeeps DEF Viewed
  <1>3. CASE ~ End(j, "failed")
    <2>. USE ExplanationsAssumption, KeyFacts DEF IInv
    <2>1. /\ UNCHANGED <<key, pending, cancels, document, saved, consent, setter, revoked>>
          /\ UNCHANGED <<status, hit, holder>> /\ stage[j] = "viewing"
          /\ events' = [events EXCEPT ![j] = Append(@, "run.started")]
          /\ stage' = [stage EXCEPT ![j] = "model"]
      BY <1>3 DEF Viewed, Own, docs, switch, MoveTo
    <2>2. events' \in [Jobs -> Seq(Kinds)] /\ \A i \in Jobs : i # j => events'[i] = events[i]
      <3>1. events \in [Jobs -> Seq(Kinds)] /\ "run.started" \in Kinds
        BY DEF ExplanationTypeOK, Kinds
      <3>2. Append(events[j], "run.started") \in Seq(Kinds)
        BY <3>1
      <3>. QED BY <2>1, <3>1, <3>2
    <2>3. ExplanationTypeOK'
      BY <2>1, <2>2 DEF ExplanationTypeOK, Stages
    <2>4. RowInv'
      BY <1>1, <2>1 DEF RowInv, ExplanationTypeOK, Live, Tasks
    <2>5. DocInv'
      BY <1>1, <2>1, <2>2 DEF DocInv, NothingOutlivesDocument, RowInv
    <2>6. PendInv'
      BY <1>1, <2>1 DEF PendInv, Live, Tasks, ExplanationTypeOK
    <2>7. RevInv'
      BY <1>1, <2>1 DEF RevInv, Live, Tasks, ExplanationTypeOK
    <2>. QED BY <2>3, <2>4, <2>5, <2>6, <2>7 DEF IInv
  <1>. QED BY <1>2, <1>3

LEMMA AnsweredKeeps ==
  ASSUME IInv, NEW j \in Jobs, Answered(j) PROVE IInv'
  <1>1. j \in Live
    BY DEF Answered, Live, Tasks
  <1>2. CASE End(j, "failed") /\ UNCHANGED saved
    BY <1>1, <1>2, EndKeeps DEF Answered, Own, docs, switch
  <1>3. CASE consent /\ Publish(j)
    <2>. USE ExplanationsAssumption, KeyFacts DEF IInv
    <2>1. /\ UNCHANGED <<key, pending, cancels, document, consent, setter, revoked>>
          /\ stage[j] = "model" /\ consent
          /\ saved' = saved \cup {key[j]} /\ document[key[j][1]] = "kept"
          /\ End(j, "completed")
      BY <1>3 DEF Answered, Publish, switch
    <2>2. /\ status' \in [Jobs -> Statuses] /\ stage' \in [Jobs -> Stages]
          /\ hit' \subseteq Jobs /\ holder' \in Jobs \cup {None}
          /\ events' \in [Jobs -> Seq(Kinds)]
          /\ \A i \in Jobs : /\ status'[i] = IF i = j THEN "completed" ELSE status[i]
                             /\ stage'[i] = IF i = j THEN "ended" ELSE stage[i]
                             /\ i # j => events'[i] = events[i]
      BY <2>1, EndTypes
    <2>3. key[j] \in Keys
      BY <2>1 DEF RowInv, ExplanationTypeOK
    <2>4. ExplanationTypeOK'
      BY <2>1, <2>2, <2>3 DEF ExplanationTypeOK
    <2>5. RowInv'
      BY <2>1, <2>2 DEF RowInv
    <2>6. DocInv'
      BY <2>1, <2>2 DEF DocInv, NothingOutlivesDocument, Active
    <2>7. PendInv'
      <3>1. \A i \in Tasks' : i \in Tasks /\ pending'[key'[i]] = i
        BY <1>1, <2>1, <2>2 DEF PendInv, Live, Tasks
      <3>2. \A i \in Live' : i \in Live /\ i # j
        BY <2>2 DEF Live, Tasks
      <3>3. \A i \in Live' : key[i] # key[j]
        BY <1>1, <3>2 DEF PendInv, Live
      <3>. QED BY <2>1, <3>1, <3>2, <3>3 DEF PendInv
    <2>8. RevInv'
      <3>1. \A i \in Live' : i \in Live
        BY <2>2 DEF Live, Tasks
      <3>2. j \notin revoked
        BY <1>1, <2>1 DEF RevInv
      <3>3. \A i \in revoked \cap Jobs : stage'[i] = stage[i] /\ status'[i] = status[i]
        BY <2>2, <3>2
      <3>. QED BY <2>1, <3>1, <3>3 DEF RevInv
    <2>. QED BY <2>4, <2>5, <2>6, <2>7, <2>8 DEF IInv
  <1>. QED BY <1>2, <1>3 DEF Answered

LEMMA ExpiresKeeps ==
  ASSUME IInv, NEW j \in Jobs, Expires(j) PROVE IInv'
  <1>. USE ExplanationsAssumption, KeyFacts DEF IInv
  <1>1. ExplanationTypeOK'
    BY DEF Expires, ExplanationTypeOK, Keys, Statuses, Stages, Documents, Kinds,
       Tasks, Live, MoveTo, Own, requests, table, docs, switch
  <1>2. RowInv'
    BY DEF Expires, RowInv, Tasks, Live, ExplanationTypeOK, Keys, Statuses, Stages,
       Documents, Kinds, MoveTo, Own, requests, table, docs, switch
  <1>3. DocInv'
    BY DEF Expires, DocInv, NothingOutlivesDocument, RowInv, Tasks, Live,
       ExplanationTypeOK, Keys, Statuses, Stages, Documents, Kinds, Active, MoveTo,
       Own, requests, table, docs, switch
  <1>4. PendInv'
    BY DEF Expires, PendInv, RowInv, Tasks, Live, ExplanationTypeOK, Keys, Statuses,
       Stages, Documents, Kinds, MoveTo, Own, requests, table, docs, switch
  <1>5. RevInv'
    BY DEF Expires, RevInv, RowInv, Tasks, Live, ExplanationTypeOK, Keys, Statuses,
       Stages, Documents, Kinds, MoveTo, Own, requests, table, docs, switch
  <1>. QED BY <1>1, <1>2, <1>3, <1>4, <1>5 DEF IInv

LEMMA DropUnstartedKeeps ==
  ASSUME IInv, NEW j \in Jobs, DropUnstarted(j) PROVE IInv'
  <1>. USE ExplanationsAssumption, KeyFacts DEF IInv
  <1>1. ExplanationTypeOK'
    BY DEF DropUnstarted, ExplanationTypeOK, Keys, Statuses, Stages, Documents,
       Kinds, Tasks, Live, Own, requests, table, docs, switch
  <1>2. RowInv'
    BY DEF DropUnstarted, RowInv, Tasks, Live, ExplanationTypeOK, Keys, Statuses,
       Stages, Documents, Kinds, Own, requests, table, docs, switch
  <1>3. DocInv'
    BY DEF DropUnstarted, DocInv, NothingOutlivesDocument, RowInv, Tasks, Live,
       ExplanationTypeOK, Keys, Statuses, Stages, Documents, Kinds, Active, Own,
       requests, table, docs, switch
  <1>4. PendInv'
    BY DEF DropUnstarted, PendInv, RowInv, Tasks, Live, ExplanationTypeOK, Keys,
       Statuses, Stages, Documents, Kinds, Own, requests, table, docs, switch
  <1>5. RevInv'
    BY DEF DropUnstarted, RevInv, RowInv, Tasks, Live, ExplanationTypeOK, Keys,
       Statuses, Stages, Documents, Kinds, Own, requests, table, docs, switch
  <1>. QED BY <1>1, <1>2, <1>3, <1>4, <1>5 DEF IInv

LEMMA DeliverKeeps ==
  ASSUME IInv, NEW j \in Jobs, Deliver(j) PROVE IInv'
  <1>1. j \in Live
    BY DEF Deliver, Live, Tasks
  <1>. QED BY <1>1, EndKeeps DEF Deliver

LEMMA UnwindKeeps ==
  ASSUME IInv, NEW j \in Jobs, Unwind(j) PROVE IInv'
  <1>. USE ExplanationsAssumption, KeyFacts DEF IInv
  <1>1. ExplanationTypeOK'
    BY DEF Unwind, ExplanationTypeOK, Keys, Statuses, Stages, Documents, Kinds,
       Tasks, Live, Own, requests, table, docs, switch
  <1>2. RowInv'
    BY DEF Unwind, RowInv, Tasks, Live, ExplanationTypeOK, Keys, Statuses, Stages,
       Documents, Kinds, Own, requests, table, docs, switch
  <1>3. DocInv'
    BY DEF Unwind, DocInv, NothingOutlivesDocument, RowInv, Tasks, Live,
       ExplanationTypeOK, Keys, Statuses, Stages, Documents, Kinds, Active, Own,
       requests, table, docs, switch
  <1>4. PendInv'
    BY DEF Unwind, PendInv, RowInv, Tasks, Live, ExplanationTypeOK, Keys, Statuses,
       Stages, Documents, Kinds, Own, requests, table, docs, switch
  <1>5. RevInv'
    BY DEF Unwind, RevInv, RowInv, Tasks, Live, ExplanationTypeOK, Keys, Statuses,
       Stages, Documents, Kinds, Own, requests, table, docs, switch
  <1>. QED BY <1>1, <1>2, <1>3, <1>4, <1>5 DEF IInv

LEMMA UnwoundKeeps ==
  ASSUME IInv, NEW j \in Jobs, Unwound(j) PROVE IInv'
  <1>1. j \in Live
    BY DEF Unwound, Live, Tasks
  <1>. QED BY <1>1, EndKeeps DEF Unwound

LEMMA CancelKeeps ==
  ASSUME IInv, NEW j \in Jobs, Cancel(j) PROVE IInv'
  <1>. USE ExplanationsAssumption, KeyFacts DEF IInv
  <1>1. ExplanationTypeOK'
    BY DEF Cancel, ExplanationTypeOK, Keys, Statuses, Stages, Documents, Kinds,
       Tasks, Live, ActiveJobs, requests, table, docs, switch
  <1>2. RowInv'
    BY DEF Cancel, RowInv, Tasks, Live, ExplanationTypeOK, Keys, Statuses, Stages,
       Documents, Kinds, ActiveJobs, requests, table, docs, switch
  <1>3. DocInv'
    BY DEF Cancel, DocInv, NothingOutlivesDocument, RowInv, Tasks, Live,
       ExplanationTypeOK, Keys, Statuses, Stages, Documents, Kinds, ActiveJobs,
       requests, table, docs, switch
  <1>4. PendInv'
    BY DEF Cancel, PendInv, RowInv, Tasks, Live, ExplanationTypeOK, Keys, Statuses,
       Stages, Documents, Kinds, ActiveJobs, requests, table, docs, switch
  <1>5. RevInv'
    BY DEF Cancel, RevInv, RowInv, Tasks, Live, ExplanationTypeOK, Keys, Statuses,
       Stages, Documents, Kinds, ActiveJobs, requests, table, docs, switch
  <1>. QED BY <1>1, <1>2, <1>3, <1>4, <1>5 DEF IInv

LEMMA CancelReturnsKeeps ==
  ASSUME IInv, NEW j \in Jobs, CancelReturns(j) PROVE IInv'
  <1>1. CASE status[j] \in Active
    <2>. USE ExplanationsAssumption, KeyFacts DEF IInv
    <2>1. /\ UNCHANGED <<key, stage, pending, hit, holder, document, saved, consent, setter, revoked>>
          /\ j \notin Live /\ cancels' = cancels \ {j}
          /\ status' = [status EXCEPT ![j] = "cancelled"]
          /\ events' = [events EXCEPT ![j] = Append(@, "run.cancelled")]
      BY <1>1 DEF CancelReturns, docs, switch
    <2>2. events' \in [Jobs -> Seq(Kinds)] /\ \A i \in Jobs : i # j => events'[i] = events[i]
      <3>1. events \in [Jobs -> Seq(Kinds)] /\ "run.cancelled" \in Kinds
        BY DEF ExplanationTypeOK, Kinds
      <3>2. Append(events[j], "run.cancelled") \in Seq(Kinds)
        BY <3>1
      <3>. QED BY <2>1, <3>1, <3>2
    <2>3. ExplanationTypeOK'
      BY <2>1, <2>2 DEF ExplanationTypeOK, Statuses
    <2>4. RowInv'
      BY <1>1, <2>1 DEF RowInv, ExplanationTypeOK, Live, Tasks, Active
    <2>5. DocInv'
      BY <1>1, <2>1, <2>2 DEF DocInv, NothingOutlivesDocument, ExplanationTypeOK,
         Active
    <2>6. PendInv'
      BY <2>1 DEF PendInv, Live, Tasks
    <2>7. RevInv'
      BY <2>1 DEF RevInv, Live, Tasks, ExplanationTypeOK
    <2>. QED BY <2>3, <2>4, <2>5, <2>6, <2>7 DEF IInv
  <1>2. CASE status[j] \notin Active
    <2>1. UNCHANGED <<key, stage, pending, hit, holder, table, docs, switch>> /\ cancels' = cancels \ {j}
      BY <1>2 DEF CancelReturns
    <2>. QED BY <2>1 DEF IInv, ExplanationTypeOK, RowInv, DocInv, NothingOutlivesDocument,
                PendInv, RevInv, Live, Tasks, table, docs, switch
  <1>. QED BY <1>1, <1>2

LEMMA GrantKeeps ==
  ASSUME IInv, Grant PROVE IInv'
  <1>. USE ExplanationsAssumption, KeyFacts DEF IInv
  <1>1. ExplanationTypeOK'
    BY DEF Grant, ExplanationTypeOK, Keys, Statuses, Stages, Documents, Kinds,
       Tasks, Live, requests, table, docs, switch
  <1>2. RowInv'
    BY DEF Grant, RowInv, Tasks, Live, ExplanationTypeOK, Keys, Statuses, Stages,
       Documents, Kinds, requests, table, docs, switch
  <1>3. DocInv'
    BY DEF Grant, DocInv, NothingOutlivesDocument, RowInv, Tasks, Live,
       ExplanationTypeOK, Keys, Statuses, Stages, Documents, Kinds, Active,
       requests, table, docs, switch
  <1>4. PendInv'
    BY DEF Grant, PendInv, RowInv, Tasks, Live, ExplanationTypeOK, Keys, Statuses,
       Stages, Documents, Kinds, requests, table, docs, switch
  <1>5. RevInv'
    BY DEF Grant, RevInv, RowInv, Tasks, Live, ExplanationTypeOK, Keys, Statuses,
       Stages, Documents, Kinds, requests, table, docs, switch
  <1>. QED BY <1>1, <1>2, <1>3, <1>4, <1>5 DEF IInv

LEMMA RevokeKeeps ==
  ASSUME IInv, Revoke PROVE IInv'
  <1>. USE ExplanationsAssumption, KeyFacts DEF IInv
  <1>1. ExplanationTypeOK'
    BY DEF Revoke, ExplanationTypeOK, Keys, Statuses, Stages, Documents, Kinds,
       Tasks, Live, ActiveJobs, Active, requests, table, docs, switch
  <1>2. RowInv'
    BY DEF Revoke, RowInv, Tasks, Live, ExplanationTypeOK, Keys, Statuses, Stages,
       Documents, Kinds, ActiveJobs, Active, requests, table, docs, switch
  <1>3. DocInv'
    BY DEF Revoke, DocInv, NothingOutlivesDocument, RowInv, Tasks, Live,
       ExplanationTypeOK, Keys, Statuses, Stages, Documents, Kinds, ActiveJobs,
       Active, requests, table, docs, switch
  <1>4. PendInv'
    BY DEF Revoke, PendInv, RowInv, Tasks, Live, ExplanationTypeOK, Keys, Statuses,
       Stages, Documents, Kinds, ActiveJobs, Active, requests, table, docs, switch
  <1>5. RevInv'
    BY DEF Revoke, RevInv, RowInv, Tasks, Live, ExplanationTypeOK, Keys, Statuses,
       Stages, Documents, Kinds, ActiveJobs, Active, requests, table, docs, switch
  <1>. QED BY <1>1, <1>2, <1>3, <1>4, <1>5 DEF IInv

LEMMA CloseServiceKeeps ==
  ASSUME IInv, CloseService PROVE IInv'
  <1>. USE ExplanationsAssumption, KeyFacts DEF IInv
  <1>1. ExplanationTypeOK'
    BY DEF CloseService, ExplanationTypeOK, Keys, Statuses, Stages, Documents,
       Kinds, Tasks, Live, requests, table, docs, switch
  <1>2. RowInv'
    BY DEF CloseService, RowInv, Tasks, Live, ExplanationTypeOK, Keys, Statuses,
       Stages, Documents, Kinds, requests, table, docs, switch
  <1>3. DocInv'
    BY DEF CloseService, DocInv, NothingOutlivesDocument, RowInv, Tasks, Live,
       ExplanationTypeOK, Keys, Statuses, Stages, Documents, Kinds, Active,
       requests, table, docs, switch
  <1>4. PendInv'
    BY DEF CloseService, PendInv, RowInv, Tasks, Live, ExplanationTypeOK, Keys,
       Statuses, Stages, Documents, Kinds, requests, table, docs, switch
  <1>5. RevInv'
    BY DEF CloseService, RevInv, RowInv, Tasks, Live, ExplanationTypeOK, Keys,
       Statuses, Stages, Documents, Kinds, requests, table, docs, switch
  <1>. QED BY <1>1, <1>2, <1>3, <1>4, <1>5 DEF IInv

LEMMA SettingsReturnKeeps ==
  ASSUME IInv, SettingsReturn PROVE IInv'
  <1>. USE ExplanationsAssumption, KeyFacts DEF IInv
  <1>1. ExplanationTypeOK'
    BY DEF SettingsReturn, ExplanationTypeOK, Keys, Statuses, Stages, Documents,
       Kinds, Tasks, Live, requests, table, docs, switch
  <1>2. RowInv'
    BY DEF SettingsReturn, RowInv, Tasks, Live, ExplanationTypeOK, Keys, Statuses,
       Stages, Documents, Kinds, requests, table, docs, switch
  <1>3. DocInv'
    BY DEF SettingsReturn, DocInv, NothingOutlivesDocument, RowInv, Tasks, Live,
       ExplanationTypeOK, Keys, Statuses, Stages, Documents, Kinds, Active,
       requests, table, docs, switch
  <1>4. PendInv'
    BY DEF SettingsReturn, PendInv, RowInv, Tasks, Live, ExplanationTypeOK, Keys,
       Statuses, Stages, Documents, Kinds, requests, table, docs, switch
  <1>5. RevInv'
    BY DEF SettingsReturn, RevInv, RowInv, Tasks, Live, ExplanationTypeOK, Keys,
       Statuses, Stages, Documents, Kinds, requests, table, docs, switch
  <1>. QED BY <1>1, <1>2, <1>3, <1>4, <1>5 DEF IInv

LEMMA CrashKeeps ==
  ASSUME IInv, Crash PROVE IInv'
  <1>. USE ExplanationsAssumption, KeyFacts DEF IInv
  <1>1. ExplanationTypeOK'
    BY DEF Crash, ExplanationTypeOK, Keys, Statuses, Stages, Documents, Kinds,
       Tasks, Live, ActiveJobs, Active, requests, table, docs, switch
  <1>2. RowInv'
    BY DEF Crash, RowInv, Tasks, Live, ExplanationTypeOK, Keys, Statuses, Stages,
       Documents, Kinds, ActiveJobs, Active, requests, table, docs, switch
  <1>3. DocInv'
    BY DEF Crash, DocInv, NothingOutlivesDocument, RowInv, Tasks, Live,
       ExplanationTypeOK, Keys, Statuses, Stages, Documents, Kinds, ActiveJobs,
       Active, requests, table, docs, switch
  <1>4. PendInv'
    BY DEF Crash, PendInv, RowInv, Tasks, Live, ExplanationTypeOK, Keys, Statuses,
       Stages, Documents, Kinds, ActiveJobs, Active, requests, table, docs, switch
  <1>5. RevInv'
    BY DEF Crash, RevInv, RowInv, Tasks, Live, ExplanationTypeOK, Keys, Statuses,
       Stages, Documents, Kinds, ActiveJobs, Active, requests, table, docs, switch
  <1>. QED BY <1>1, <1>2, <1>3, <1>4, <1>5 DEF IInv
-----------------------------------------------------------------------------

LEMMA InitIInv == Init => IInv
<1> SUFFICES ASSUME Init PROVE IInv
  OBVIOUS
<1> USE ExplanationsAssumption DEF Init, ExplanationInit
<1>1. ExplanationTypeOK
  <2>1. <<>> \in Seq(Kinds)
    OBVIOUS
  <2>2. events \in [Jobs -> Seq(Kinds)]
    BY <2>1
  <2> QED BY <2>2 DEF ExplanationTypeOK, Documents, Statuses, Stages
<1>2. RowInv /\ PendInv /\ RevInv
  BY DEF RowInv, PendInv, RevInv, Live, Tasks
<1>3. DocInv
  BY DEF DocInv, NothingOutlivesDocument, Active
<1> QED BY <1>1, <1>2, <1>3 DEF IInv

LEMMA StutterKeeps == IInv /\ UNCHANGED explanationVars => IInv'
BY DEF explanationVars, requests, table, docs, switch, IInv, ExplanationTypeOK,
   RowInv, DocInv,
   NothingOutlivesDocument, PendInv, Live, Tasks, RevInv

\* The window and its socket change nothing of the jobs, except that the socket dies
\* with the server.
LEMMA JobSteps == [Next]_vars => ExplanationStep \/ Crash \/ UNCHANGED explanationVars
BY DEF Next, vars, ServerDies, Observe, Poll, ReadJob, Arrives, ReplyLost,
   ReadEvents, Send,
   Drop

LEMMA StepIInv == IInv /\ [Next]_vars => IInv'
<1> SUFFICES ASSUME IInv, ExplanationStep \/ Crash PROVE IInv'
  BY JobSteps, StutterKeeps
<1>1. ASSUME NEW d \in Docs,
             \/ RetainFile(d) \/ StartFetch(d) \/ FetchDone(d) \/ FetchEnds(d)
             \/ StoreFetched(d) \/ DeleteDocument(d)
      PROVE  IInv'
  BY <1>1, RetainFileKeeps, StartFetchKeeps, FetchDoneKeeps, FetchEndsKeeps,
     StoreFetchedKeeps, DeleteDocumentKeeps
<1>2. ASSUME NEW k \in Keys, DeleteExplanation(k) \/ \E j \in Jobs : Submit(j, k)
      PROVE  IInv'
  BY <1>2, DeleteExplanationKeeps, SubmitKeeps
<1>3. ASSUME NEW j \in Jobs, RunStep(j) PROVE IInv'
  BY <1>3, FirstStepKeeps, EnterKeeps, ViewedKeeps, AnsweredKeeps, ExpiresKeeps,
     DropUnstartedKeeps, DeliverKeeps, UnwindKeeps, UnwoundKeeps DEF RunStep
<1>4. ASSUME NEW j \in Jobs,
             Admit(j) \/ Return(j) \/ Reap(j) \/ Cancel(j) \/ CancelReturns(j)
      PROVE  IInv'
  BY <1>4, AdmitKeeps, ReturnKeeps, ReapKeeps, CancelKeeps, CancelReturnsKeeps
<1>5. CASE Grant \/ Revoke \/ CloseService \/ SettingsReturn \/ Crash
  BY <1>5, GrantKeeps, RevokeKeeps, CloseServiceKeeps, SettingsReturnKeeps,
     CrashKeeps
<1> QED BY <1>1, <1>2, <1>3, <1>4, <1>5 DEF ExplanationStep

LEMMA AlwaysIInv == Spec => []IInv
BY InitIInv, StepIInv, PTL DEF Spec

-----------------------------------------------------------------------------
(* Theorems                                                                *)

\* Explanations and whatever awaits them never reach a document that is gone, in
\* every interleaving of retention, submission, deletion, revocation and restart.
THEOREM DocumentsOwnExplanations == Spec => []NothingOutlivesDocument
<1>1. IInv => NothingOutlivesDocument
  BY DEF IInv, DocInv
<1> QED BY <1>1, AlwaysIInv, PTL

\* No two tasks write one explanation, and none writes one that is there: a task is
\* what pending holds under its key, which holds one task.
THEOREM OneTaskPerKey == Spec => []OneWriter
<1>1. IInv => OneWriter
  <2> SUFFICES ASSUME IInv PROVE OneWriter
    OBVIOUS
  <2>1. \A j \in Live : pending[key[j]] = j /\ key[j] \notin saved
    BY DEF IInv, PendInv, Live
  <2> QED BY <2>1 DEF OneWriter
<1> QED BY <1>1, AlwaysIInv, PTL

\* What was under way when consent was withdrawn publishes nothing and keeps nothing,
\* because the settings handler holds its lock until all of it has ended.
THEOREM RevokedLeavesNothing == Spec => []NothingAfterRevocation
<1>1. IInv => NothingAfterRevocation
  BY DEF IInv, RevInv, NothingAfterRevocation
<1> QED BY <1>1, AlwaysIInv, PTL

-----------------------------------------------------------------------------
(* The socket and the observer are well typed                              *)

LEMMA StreamStep == TypeOK /\ IInv /\ [Next]_vars => TypeOK'
<1> SUFFICES ASSUME TypeOK, IInv, [Next]_vars PROVE TypeOK'
  OBVIOUS
<1> USE DEF TypeOK, Answers, Closed
<1>1. ExplanationTypeOK'
  BY StepIInv DEF IInv
<1>2. Len(events[Watched]) \in Nat
  BY WatchedAssumption DEF ExplanationTypeOK
<1>3. Refreshed \in Answers \cup {"idle", "asked"}
  BY DEF Refreshed
<1>4. CASE UNCHANGED streamVars
  BY <1>1, <1>4 DEF streamVars
<1>5. CASE Observe
  BY <1>1, <1>5 DEF Observe
<1>6. CASE Poll \/ ReplyLost
  BY <1>1, <1>6 DEF Poll, ReplyLost
<1>7. CASE Arrives
  <2>1. shown' \in {"off", "watching", "finished"}
    BY <1>7 DEF Arrives
  <2> QED BY <1>1, <1>7, <2>1 DEF Arrives
<1>8. CASE ReadJob
  BY <1>1, <1>8 DEF ReadJob
<1>9. ASSUME Check PROVE socket' \in [open : BOOLEAN, left : Nat]
  BY <1>9 DEF Check
<1>10. CASE ReadEvents
  <2>1. CASE Len(events[Watched]) > after
    <3>1. /\ socket' = [open |-> TRUE, left |-> Len(events[Watched]) - after]
          /\ after' = Len(events[Watched]) /\ UNCHANGED <<reply, shown>>
      BY <1>10, <2>1 DEF ReadEvents
    <3>2. Len(events[Watched]) - after \in Nat
      BY <1>2, <2>1
    <3> QED BY <1>1, <1>2, <3>1, <3>2
  <2>2. CASE ~ (Len(events[Watched]) > after)
    BY <1>1, <1>3, <1>9, <1>10, <2>2 DEF ReadEvents
  <2> QED BY <2>1, <2>2
<1>11. CASE Send
  <2>1. CASE socket.left > 1
    BY <1>1, <1>3, <1>11, <2>1 DEF Send
  <2>2. CASE ~ (socket.left > 1)
    BY <1>1, <1>3, <1>9, <1>11, <2>2 DEF Send
  <2> QED BY <2>1, <2>2
<1>12. CASE Drop
  BY <1>1, <1>3, <1>12 DEF Drop
<1>13. CASE ServerDies
  BY <1>1, <1>3, <1>13 DEF ServerDies
<1> QED BY <1>4, <1>5, <1>6, <1>7, <1>8, <1>10, <1>11, <1>12,
           <1>13 DEF Next, vars

\* The variables of the jobs, of the socket and of the window have their types.
THEOREM StreamTypes == Spec => []TypeOK
<1>1. Init => TypeOK
  BY InitIInv DEF Init, TypeOK, IInv, Closed
<1> QED BY <1>1, AlwaysIInv, StreamStep, PTL DEF Spec

-----------------------------------------------------------------------------
(* The jobs implement JobLifecycle                                         *)

\* Jobs are deleted together with what they are about, none of them active.
LEMMA ForgetRemoves ==
  ASSUME ExplanationTypeOK, NEW S \in SUBSET Jobs, S \subseteq {j \in Jobs : status[j] # "none"},
         Forget(S)
  PROVE  Lifecycle!Next
<1>1. \A j \in S : status[j] \in Lifecycle!Ended
  BY DEF ExplanationTypeOK, Statuses, Forget, ActiveJobs, Active, Lifecycle!Ended
<1>2. Lifecycle!Remove(S)
  BY <1>1 DEF Forget, Lifecycle!Remove
<1> QED BY <1>2 DEF Lifecycle!Next

LEMMA FinishEnds ==
  ASSUME NEW j \in Jobs, NEW s \in {"cancelled", "failed", "completed"},
         status[j] \in Active, status' = [status EXCEPT ![j] = s]
  PROVE  Lifecycle!Next
<1>1. Lifecycle!Finish(j, s) /\ s \in Lifecycle!Ended
  BY DEF Lifecycle!Finish, Lifecycle!Ended, Active
<1> QED BY <1>1 DEF Lifecycle!Next

LEMMA RunLifecycle ==
  ASSUME IInv, NEW j \in Jobs, RunStep(j)
  PROVE  Lifecycle!Next \/ status' = status
<1>1. CASE FirstStep(j) \/ Expires(j) \/ DropUnstarted(j) \/ Unwind(j)
  BY <1>1 DEF FirstStep, Expires, DropUnstarted, Unwind, table
<1>2. CASE Enter(j) /\ ~ End(j, "failed")
  <2>1. status[j] = "queued" /\ status' = [status EXCEPT ![j] = "running"]
    BY <1>2 DEF Enter, IInv, RowInv
  <2>2. Lifecycle!Begin(j)
    BY <2>1 DEF Lifecycle!Begin
  <2> QED BY <2>2 DEF Lifecycle!Next
<1>3. CASE Viewed(j) /\ ~ End(j, "failed")
  BY <1>3 DEF Viewed
<1>4. ASSUME NEW s \in {"cancelled", "failed", "completed"}, End(j, s),
             stage[j] \in {"line", "viewing", "model", "unwinding", "expiring"}
      PROVE  Lifecycle!Next
  <2>1. status[j] \in Active
    BY <1>4 DEF IInv, RowInv, Active
  <2> QED BY <1>4, <2>1, FinishEnds DEF End
<1>5. CASE \/ Enter(j) /\ End(j, "failed")
           \/ Viewed(j) /\ End(j, "failed")
           \/ Answered(j) \/ Deliver(j) \/ Unwound(j)
  BY <1>4, <1>5 DEF Enter, Viewed, Answered, Publish, Deliver, Unwound
<1> QED BY <1>1, <1>2, <1>3, <1>5 DEF RunStep

LEMMA LifecycleStep == IInv /\ [Next]_vars => Lifecycle!Next \/ status' = status
<1> SUFFICES ASSUME IInv, ExplanationStep \/ Crash, status' # status PROVE Lifecycle!Next
  BY JobSteps DEF explanationVars, table
<1>1. ASSUME NEW d \in Docs, DeleteDocument(d) PROVE Lifecycle!Next
  BY <1>1, ForgetRemoves DEF DeleteDocument, About, IInv
<1>2. ASSUME NEW k \in Keys, DeleteExplanation(k) PROVE Lifecycle!Next
  BY <1>2, ForgetRemoves DEF DeleteExplanation, About, IInv
<1>3. ASSUME NEW j \in Jobs, Admit(j) PROVE Lifecycle!Next
  <2>1. status[j] = "none" /\ status' = [status EXCEPT ![j] = "queued"]
    BY <1>3 DEF Admit, Register, IInv, RowInv
  <2>2. Lifecycle!Admit(j)
    BY <2>1 DEF Lifecycle!Admit
  <2> QED BY <2>2 DEF Lifecycle!Next
<1>4. ASSUME NEW j \in Jobs, RunStep(j) PROVE Lifecycle!Next
  BY <1>4, RunLifecycle
<1>5. ASSUME NEW j \in Jobs, CancelReturns(j) PROVE Lifecycle!Next
  BY <1>5, FinishEnds DEF CancelReturns, table
<1>6. CASE Crash
  <2>1. Lifecycle!Recover
    BY <1>6 DEF Crash, ActiveJobs, Active, Lifecycle!Recover, Lifecycle!Active
  <2> QED BY <2>1 DEF Lifecycle!Next
<1>7. CASE \/ \E d \in Docs : \/ RetainFile(d) \/ StartFetch(d) \/ FetchDone(d) \/ FetchEnds(d)
                              \/ StoreFetched(d)
           \/ \E j \in Jobs : \/ Return(j) \/ Reap(j) \/ Cancel(j) \/ \E k \in Keys : Submit(j, k)
           \/ Grant \/ Revoke \/ CloseService \/ SettingsReturn
  BY <1>7 DEF RetainFile, StartFetch, FetchDone, FetchEnds, StoreFetched, Return,
     Reap, Cancel,
              Submit, Grant, Revoke, CloseService, SettingsReturn, table, requests
<1> QED BY <1>1, <1>2, <1>3, <1>4, <1>5, <1>6, <1>7 DEF ExplanationStep

\* An explanation job is admitted once, begins and ends at most once, is never replayed
\* after a restart, and its row is removed only after it ended.
THEOREM ExplanationLifecycle == Spec => LifecycleSpec
<1>1. Init => Lifecycle!Init
  BY DEF Init, ExplanationInit, Lifecycle!Init
<1>2. IInv /\ [Next]_vars => [Lifecycle!Next]_status
  BY LifecycleStep
<1> QED BY <1>1, <1>2, AlwaysIInv, PTL DEF Spec, LifecycleSpec, Lifecycle!Spec

\* The ending of an explanation job is final until its document or explanation is
\* deleted, and a job that has not ended keeps its row.
THEOREM ExplanationStatusesFinal == Spec => Lifecycle!NeverReplayed
<1> DEFINE Final == \A j \in Jobs :
           /\ status[j] \in Lifecycle!Ended => status'[j] \in {status[j], "none"}
           /\ status[j] = "running" => status'[j] \in Lifecycle!Ended \cup {"running"}
           /\ status[j] = "queued" => status'[j] # "none"
<1>1. ASSUME Lifecycle!Next, ExplanationTypeOK PROVE Final
  <2>1. ASSUME NEW j \in Jobs,
               \/ Lifecycle!Admit(j) \/ Lifecycle!Begin(j)
               \/ \E s \in Lifecycle!Ended : Lifecycle!Finish(j, s)
        PROVE  Final
    BY <1>1, <2>1
    DEF Lifecycle!Admit, Lifecycle!Begin, Lifecycle!Finish, Lifecycle!Ended, ExplanationTypeOK
  <2>2. CASE Lifecycle!Recover
    BY <1>1, <2>2 DEF Lifecycle!Recover, Lifecycle!Ended, Lifecycle!Active,
       ExplanationTypeOK
  <2>3. ASSUME NEW S \in SUBSET Jobs, Lifecycle!Remove(S) PROVE Final
    BY <1>1, <2>3 DEF Lifecycle!Remove, Lifecycle!Ended, ExplanationTypeOK
  <2> QED BY <1>1, <2>1, <2>2, <2>3 DEF Lifecycle!Next
<1>2. IInv /\ [Next]_vars => [Final]_status
  BY <1>1, LifecycleStep DEF IInv
<1> QED BY <1>2, AlwaysIInv, PTL DEF Spec, Lifecycle!NeverReplayed

-----------------------------------------------------------------------------
(* The semaphore, the settings request and what the window concludes       *)

\* The inference semaphore is held exactly for the task that has something open
\* behind it, from the parser to the end of its clean-up.
Inside == {j \in Jobs : stage[j] \in {"viewing", "model", "unwinding", "expiring"}}
SemaphoreOwned == Inside = {holder} \ {None}

\* While consent is withdrawn, tasks are only left as long as the request that
\* withdrew it, and fetches only as long as it awaits the imports.
QuietInv ==
    /\ ~ consent /\ setter = "idle" => Live = {}
    /\ ~ consent /\ setter # "imports" => \A d \in Docs : document[d] # "fetching"

\* A job whose row has ended or is gone; nothing can make it active again.
Over(j) == status[j] \notin Active /\ key[j] # None /\ stage[j] \in {"none", "ended"}

\* The window has concluded, or is about to, only what is so.
FinishedInv == shown = "finished" \/ reply \in {"over", "completed"} => Over(Watched)

LEMMA HolderTypes ==
  ASSUME IInv
  PROVE  /\ stage \in [Jobs -> Stages] /\ status \in [Jobs -> Statuses]
         /\ holder \in Jobs \cup {None} /\ None \notin Jobs
         /\ document \in [Docs -> Documents]
  BY ExplanationsAssumption DEF IInv, ExplanationTypeOK

\* Entering the semaphore and leaving it go together with the stage.
LEMMA RunOwns ==
  ASSUME IInv, SemaphoreOwned, NEW j \in Jobs, RunStep(j)
  PROVE  SemaphoreOwned'
  <1>. USE HolderTypes
  <1>1. ASSUME stage[j] \notin {"viewing", "model", "unwinding", "expiring"},
               NEW s \in {"line", "ended"}, stage' = [stage EXCEPT ![j] = s],
               holder' = IF holder = j THEN None ELSE holder
        PROVE  SemaphoreOwned'
    <2>1. Inside' = Inside /\ holder # j
      BY <1>1 DEF Inside, SemaphoreOwned
    <2>. QED BY <1>1, <2>1 DEF SemaphoreOwned
  <1>2. ASSUME stage[j] \in {"viewing", "model", "unwinding", "expiring"},
               NEW s \in {"model", "unwinding", "expiring"},
               stage' = [stage EXCEPT ![j] = s], holder' = holder
        PROVE  SemaphoreOwned'
    <2>1. Inside' = Inside
      BY <1>2 DEF Inside
    <2>. QED BY <1>2, <2>1 DEF SemaphoreOwned
  <1>3. ASSUME stage[j] \in {"viewing", "model", "unwinding", "expiring"},
               stage' = [stage EXCEPT ![j] = "ended"],
               holder' = IF holder = j THEN None ELSE holder
        PROVE  SemaphoreOwned'
    <2>1. Inside' = Inside \ {j} /\ holder = j
      BY <1>3 DEF Inside, SemaphoreOwned
    <2>. QED BY <1>3, <2>1 DEF SemaphoreOwned
  <1>4. CASE FirstStep(j)
    <2>1. holder # j
      BY <1>4 DEF FirstStep, SemaphoreOwned, Inside
    <2>. QED BY <1>1, <1>4, <2>1 DEF FirstStep, MoveTo
  <1>5. CASE Enter(j)
    <2>1. CASE End(j, "failed")
      BY <1>1, <1>5, <2>1 DEF Enter, End
    <2>2. CASE stage' = [stage EXCEPT ![j] = "viewing"] /\ holder' = j
      <3>1. Inside' = Inside \cup {j} /\ holder = None
        BY <1>5, <2>2 DEF Enter, Inside
      <3>. QED BY <2>2, <3>1 DEF SemaphoreOwned
    <2>. QED BY <1>5, <2>1, <2>2 DEF Enter
  <1>6. CASE Viewed(j)
    BY <1>2, <1>3, <1>6 DEF Viewed, MoveTo, End
  <1>7. CASE Answered(j)
    BY <1>3, <1>7 DEF Answered, Publish, End
  <1>8. CASE Expires(j)
    BY <1>2, <1>8 DEF Expires, MoveTo
  <1>9. CASE DropUnstarted(j)
    <2>1. holder # j
      BY <1>9 DEF DropUnstarted, SemaphoreOwned, Inside
    <2>. QED BY <1>1, <1>9, <2>1 DEF DropUnstarted
  <1>10. CASE Deliver(j)
    BY <1>1, <1>10 DEF Deliver, End
  <1>11. CASE Unwind(j)
    BY <1>2, <1>11 DEF Unwind
  <1>12. CASE Unwound(j)
    BY <1>3, <1>12 DEF Unwound, End
  <1>. QED BY <1>4, <1>5, <1>6, <1>7, <1>8, <1>9, <1>10, <1>11, <1>12 DEF RunStep

\* Steps that are not of a run move no task through the semaphore.
LEMMA OthersOwn ==
  ASSUME IInv, SemaphoreOwned, ExplanationStep \/ Crash, \A j \in Jobs : ~ RunStep(j)
  PROVE  SemaphoreOwned'
  <1>. USE HolderTypes
  <1>1. ASSUME UNCHANGED <<stage, holder>> PROVE SemaphoreOwned'
    BY <1>1 DEF SemaphoreOwned, Inside
  <1>2. ASSUME NEW d \in Docs,
               \/ RetainFile(d) \/ StartFetch(d) \/ FetchDone(d) \/ FetchEnds(d)
               \/ StoreFetched(d) \/ DeleteDocument(d)
        PROVE  SemaphoreOwned'
    BY <1>1, <1>2 DEF RetainFile, StartFetch, FetchDone, FetchEnds, StoreFetched,
       DeleteDocument, requests
  <1>3. ASSUME NEW k \in Keys, DeleteExplanation(k) PROVE SemaphoreOwned'
    BY <1>1, <1>3 DEF DeleteExplanation, requests
  <1>4. ASSUME NEW j \in Jobs, NEW s \in {"none", "submitting", "ready"},
               stage[j] \notin {"viewing", "model", "unwinding", "expiring"},
               stage' = [stage EXCEPT ![j] = s], holder' = holder
        PROVE  SemaphoreOwned'
    <2>1. Inside' = Inside
      BY <1>4 DEF Inside
    <2>. QED BY <1>4, <2>1 DEF SemaphoreOwned
  <1>5. ASSUME NEW j \in Jobs, NEW k \in Keys, Submit(j, k) PROVE SemaphoreOwned'
    <2>1. stage[j] = "none"
      BY <1>5 DEF Submit, IInv, RowInv
    <2>. QED BY <1>4, <1>5, <2>1 DEF Submit
  <1>6. ASSUME NEW j \in Jobs, Admit(j) \/ Return(j) \/ Reap(j) PROVE SemaphoreOwned'
    BY <1>4, <1>6 DEF Admit, Register, Return, Reap
  <1>7. ASSUME NEW j \in Jobs, Cancel(j) \/ CancelReturns(j) PROVE SemaphoreOwned'
    BY <1>1, <1>7 DEF Cancel, CancelReturns
  <1>8. CASE Grant \/ Revoke \/ CloseService \/ SettingsReturn
    BY <1>1, <1>8 DEF Grant, Revoke, CloseService, SettingsReturn, requests
  <1>9. CASE Crash
    BY <1>9 DEF Crash, SemaphoreOwned, Inside
  <1>. QED BY <1>2, <1>3, <1>5, <1>6, <1>7, <1>8, <1>9 DEF ExplanationStep

\* Without consent nothing begins; a step of a run only takes tasks away.
LEMMA StepQuiet ==
  ASSUME IInv, QuietInv, ExplanationStep \/ Crash
  PROVE  QuietInv'
  <1>. USE HolderTypes
  <1>1. ASSUME UNCHANGED <<consent, setter>>, ~ consent => Live' \subseteq Live,
               \A d \in Docs : document'[d] = "fetching" => consent \/ document[d] = "fetching"
        PROVE  QuietInv'
    BY <1>1 DEF QuietInv
  <1>2. ASSUME NEW d \in Docs,
               \/ RetainFile(d) \/ StartFetch(d) \/ FetchDone(d) \/ FetchEnds(d)
               \/ StoreFetched(d) \/ DeleteDocument(d)
        PROVE  QuietInv'
    <2>1. UNCHANGED <<consent, setter, stage>>
      BY <1>2 DEF RetainFile, StartFetch, FetchDone, FetchEnds, StoreFetched,
         DeleteDocument, requests, switch
    <2>2. \A e \in Docs : document'[e] = "fetching" => consent \/ document[e] = "fetching"
      BY <1>2 DEF RetainFile, StartFetch, FetchDone, FetchEnds, StoreFetched, DeleteDocument
    <2>. QED BY <1>1, <2>1, <2>2 DEF Live, Tasks
  <1>3. ASSUME NEW k \in Keys, DeleteExplanation(k) PROVE QuietInv'
    BY <1>1, <1>3 DEF DeleteExplanation, requests, switch, Live, Tasks
  <1>4. ASSUME NEW j \in Jobs, NEW s \in Stages, stage' = [stage EXCEPT ![j] = s],
               j \in Live \/ consent \/ s \in {"none", "submitting", "ended"},
               UNCHANGED <<consent, setter, document>>
        PROVE  QuietInv'
    <2>1. ~ consent => Live' \subseteq Live
      BY <1>4 DEF Live, Tasks
    <2>. QED BY <1>1, <1>4, <2>1
  <1>5. ASSUME NEW j \in Jobs, NEW k \in Keys, Submit(j, k) PROVE QuietInv'
    BY <1>4, <1>5 DEF Submit, docs, switch, Stages
  <1>6. ASSUME NEW j \in Jobs, Admit(j) \/ Return(j) \/ Reap(j) PROVE QuietInv'
    BY <1>4, <1>6 DEF Admit, Register, Return, Reap, docs, switch, Stages
  <1>7. ASSUME NEW j \in Jobs, Cancel(j) \/ CancelReturns(j) PROVE QuietInv'
    BY <1>1, <1>7 DEF Cancel, CancelReturns, docs, switch, Live, Tasks
  <1>8. ASSUME NEW j \in Jobs, RunStep(j) PROVE QuietInv'
    <2>1. j \in Live
      BY <1>8 DEF RunStep, FirstStep, Enter, Viewed, Answered, Expires, DropUnstarted,
         Deliver, Unwind, Unwound, Live, Tasks
    <2>2. UNCHANGED <<consent, setter, document>>
      BY <1>8 DEF RunStep, FirstStep, Enter, Viewed, Answered, Expires, DropUnstarted,
         Deliver, Unwind, Unwound, Own, docs, switch
    <2>3. \E s \in Stages : stage' = [stage EXCEPT ![j] = s]
      BY <1>8 DEF RunStep, FirstStep, Enter, Viewed, Answered, Expires, DropUnstarted,
         Deliver, Unwind, Unwound, Publish, End, MoveTo, Stages
    <2>. QED BY <1>4, <2>1, <2>2, <2>3
  <1>9. CASE Grant \/ Revoke
    BY <1>9 DEF Grant, Revoke, QuietInv
  <1>10. CASE CloseService \/ SettingsReturn
    BY <1>10 DEF CloseService, SettingsReturn, QuietInv, Live, Tasks, requests, docs
  <1>11. CASE Crash
    BY <1>11 DEF Crash, QuietInv, Live, Tasks
  <1>. QED BY <1>2, <1>3, <1>5, <1>6, <1>7, <1>8, <1>9, <1>10, <1>11 DEF ExplanationStep

\* What is over stays over: its row is neither written nor replaced by another.
LEMMA OverStays ==
  ASSUME IInv, ExplanationStep \/ Crash, NEW i \in Jobs, Over(i)
  PROVE  Over(i)'
  <1>. USE HolderTypes
  <1>1. ASSUME UNCHANGED <<status, key, stage>> PROVE Over(i)'
    BY <1>1 DEF Over
  <1>2. ASSUME NEW d \in Docs,
               RetainFile(d) \/ StartFetch(d) \/ FetchDone(d) \/ FetchEnds(d) \/ StoreFetched(d)
        PROVE  Over(i)'
    BY <1>1, <1>2 DEF RetainFile, StartFetch, FetchDone, FetchEnds, StoreFetched, requests, table
  <1>3. ASSUME NEW S, Forget(S), UNCHANGED <<key, stage>> PROVE Over(i)'
    BY <1>3 DEF Forget, Over, Active
  <1>4. ASSUME NEW d \in Docs, DeleteDocument(d) PROVE Over(i)'
    BY <1>3, <1>4 DEF DeleteDocument, requests
  <1>5. ASSUME NEW k \in Keys, DeleteExplanation(k) PROVE Over(i)'
    BY <1>3, <1>5 DEF DeleteExplanation, requests
  <1>6. ASSUME NEW j \in Jobs, NEW k \in Keys, Submit(j, k) PROVE Over(i)'
    <2>1. i # j
      BY <1>6 DEF Submit, Over
    <2>2. key \in [Jobs -> Keys \cup {None}]
      BY DEF IInv, ExplanationTypeOK
    <2>. QED BY <1>6, <2>1, <2>2 DEF Submit, table, Over
  <1>7. ASSUME NEW j \in Jobs, Admit(j) \/ Return(j) PROVE Over(i)'
    <2>1. i # j
      BY <1>7 DEF Admit, Return, Over
    <2>2. key \in [Jobs -> Keys \cup {None}]
      BY DEF IInv, ExplanationTypeOK
    <2>. QED BY <1>7, <2>1, <2>2 DEF Admit, Register, Return, table, Over
  <1>8. ASSUME NEW j \in Jobs, Reap(j) PROVE Over(i)'
    BY <1>8 DEF Reap, table, Over
  <1>9. ASSUME NEW j \in Jobs, Cancel(j) PROVE Over(i)'
    BY <1>1, <1>9 DEF Cancel, table
  <1>10. ASSUME NEW j \in Jobs, CancelReturns(j) PROVE Over(i)'
    BY <1>1, <1>10 DEF CancelReturns, table, Over, Active
  <1>11. ASSUME NEW j \in Jobs, RunStep(j) PROVE Over(i)'
    <2>1. i # j
      BY <1>11 DEF RunStep, FirstStep, Enter, Viewed, Answered, Expires, DropUnstarted,
         Deliver, Unwind, Unwound, Over
    <2>2. key' = key
      BY <1>11 DEF RunStep, FirstStep, Enter, Viewed, Answered, Expires, DropUnstarted,
         Deliver, Unwind, Unwound, Own
    <2>3. status'[i] = status[i] /\ stage'[i] = stage[i]
      BY <1>11, <2>1 DEF RunStep, FirstStep, Enter, Viewed, Answered, Expires, DropUnstarted,
         Deliver, Unwind, Unwound, Publish, End, MoveTo, table
    <2>. QED BY <2>2, <2>3 DEF Over
  <1>12. CASE Grant \/ Revoke \/ CloseService \/ SettingsReturn
    BY <1>1, <1>12 DEF Grant, Revoke, CloseService, SettingsReturn, requests, table
  <1>13. CASE Crash
    BY <1>13 DEF Crash, Over, Active
  <1>. QED BY <1>2, <1>4, <1>5, <1>6, <1>7, <1>8, <1>9, <1>10, <1>11, <1>12, <1>13
          DEF ExplanationStep

\* The answer that says that a job is over is read from its row, and only this answer
\* ends the watching.
LEMMA StepFinished ==
  ASSUME IInv, FinishedInv, [Next]_vars
  PROVE  FinishedInv'
  <1>. USE WatchedAssumption
  <1>1. ASSUME Over(Watched) PROVE Over(Watched)'
    <2>1. CASE UNCHANGED explanationVars
      BY <1>1, <2>1 DEF explanationVars, requests, table, Over
    <2>. QED BY <1>1, <2>1, JobSteps, OverStays
  <1>2. CASE ReadJob
    <2>1. reply' \in {"over", "completed"} => Over(Watched)
      <3>1. reply' \in {"over", "completed"} => status[Watched] \notin Active \cup {"none"}
        BY <1>2 DEF ReadJob, Active
      <3>2. status[Watched] \notin Active \cup {"none"} => Over(Watched)
        BY DEF IInv, RowInv, ExplanationTypeOK, Stages, Over, Active
      <3>. QED BY <3>1, <3>2
    <2>. QED BY <1>1, <1>2, <2>1 DEF ReadJob, FinishedInv
  <1>3. ASSUME shown' = "finished" => shown = "finished",
               reply' \in {"over", "completed"} => reply' = reply
        PROVE  FinishedInv'
    BY <1>1, <1>3 DEF FinishedInv
  <1>4. CASE Arrives
    BY <1>1, <1>4 DEF Arrives, FinishedInv
  <1>5. Refreshed \in {reply, "asked"}
    BY DEF Refreshed
  <1>6. CASE \/ UNCHANGED vars
             \/ ExplanationStep /\ UNCHANGED streamVars
             \/ ServerDies \/ Observe \/ Poll \/ ReplyLost \/ Send \/ Drop
    BY <1>3, <1>5, <1>6 DEF vars, streamVars, ServerDies, Observe, Poll, ReplyLost, Send, Drop
  <1>7. CASE ReadEvents
    <2>1. reply' \in {reply, Refreshed} /\ shown' = shown
      BY <1>7 DEF ReadEvents
    <2>. QED BY <1>3, <1>5, <2>1
  <1>. QED BY <1>2, <1>4, <1>6, <1>7 DEF Next

LEMMA AlwaysOwned == Spec => [](IInv /\ SemaphoreOwned /\ QuietInv /\ FinishedInv)
  <1>1. Init => SemaphoreOwned /\ QuietInv /\ FinishedInv
    BY ExplanationsAssumption DEF Init, ExplanationInit, SemaphoreOwned, Inside, QuietInv,
       Live, Tasks, FinishedInv
  <1>2. IInv /\ SemaphoreOwned /\ QuietInv /\ [Next]_vars => SemaphoreOwned' /\ QuietInv'
    <2>1. CASE UNCHANGED explanationVars
      BY <2>1 DEF explanationVars, requests, docs, switch, SemaphoreOwned, Inside, QuietInv,
         Live, Tasks
    <2>. QED BY <2>1, JobSteps, RunOwns, OthersOwn, StepQuiet
  <1>3. IInv /\ FinishedInv /\ [Next]_vars => FinishedInv'
    BY StepFinished
  <1>. QED BY <1>1, <1>2, <1>3, InitIInv, StepIInv, PTL DEF Spec

\* One explanation at a time has a parser or a provider open behind the semaphore, and
\* the semaphore is held for it until the last of them is closed, whether it answers,
\* fails, expires or is cancelled (import_learning.py).
THEOREM OneInsideSemaphore == Spec => []SemaphoreOwned
  BY AlwaysOwned, PTL

\* When the settings request that withdrew consent has returned, no task and no fetch
\* is left, and the semaphore is free (api.py, import_previews.py, research.py).
THEOREM RevocationLeavesQuiet == Spec => []QuietAfterRevocation
  <1>1. IInv /\ SemaphoreOwned /\ QuietInv => QuietAfterRevocation
    <2>. SUFFICES ASSUME IInv, SemaphoreOwned, QuietInv, ~ consent, setter = "idle"
                  PROVE  Live = {} /\ holder = None /\ \A d \in Docs : document[d] # "fetching"
      BY DEF QuietAfterRevocation
    <2>1. Live = {} /\ \A d \in Docs : document[d] # "fetching"
      BY DEF QuietInv
    <2>2. Inside \subseteq Live
      BY DEF Inside, Live, Tasks
    <2>. QED BY <2>1, <2>2, HolderTypes DEF SemaphoreOwned
  <1>. QED BY <1>1, AlwaysOwned, PTL

\* A window that has stopped watching a job was told the truth, however late the answer
\* came and whatever happened to the job, its record and the server meanwhile
\* (researchObservation.ts, ImportLearning.tsx, api.py).
THEOREM WatchingEndsRightly == Spec => []FinishedIsOver
  <1>1. FinishedInv => FinishedIsOver
    BY DEF FinishedInv, FinishedIsOver, Over
  <1>. QED BY <1>1, AlwaysOwned, PTL

-----------------------------------------------------------------------------
(* Cancellations                                                           *)

\* Who waits for a task waits for a job that was admitted: a submission that comes
\* later never takes its place.
AwaitedBefore == \A j \in cancels : key[j] # None /\ stage[j] # "submitting"
CancelInv == CancelNeverLost /\ AwaitedBefore

\* A marked task can only end or close its stream; the marks of others stay.
LEMMA MarkedStep ==
  ASSUME IInv, NEW j \in Jobs, RunStep(j)
  PROVE  /\ \A i \in Jobs : i # j => stage'[i] = stage[i] /\ (i \in hit => i \in hit')
         /\ GoingDown(j) => stage'[j] \in {"ended", "unwinding"}
         /\ j \in Live /\ stage'[j] # "submitting"
  <1>. USE HolderTypes
  <1>1. \A i \in Jobs : i # j => stage'[i] = stage[i] /\ (i \in hit => i \in hit')
    BY DEF RunStep, FirstStep, Enter, Viewed, Answered, Expires, DropUnstarted, Deliver, Unwind,
       Unwound, Publish, End, MoveTo
  <1>2. ASSUME GoingDown(j) PROVE stage'[j] \in {"ended", "unwinding"}
    <2>1. DropUnstarted(j) \/ Deliver(j) \/ Unwind(j) \/ Unwound(j)
      BY <1>2 DEF GoingDown, RunStep, FirstStep, Enter, Viewed, Answered, Expires
    <2>. QED BY <2>1 DEF DropUnstarted, Deliver, Unwind, Unwound, End
  <1>3. j \in Live /\ stage'[j] # "submitting"
    BY DEF RunStep, FirstStep, Enter, Viewed, Answered, Expires, DropUnstarted, Deliver, Unwind,
       Unwound, Publish, End, MoveTo, Live, Tasks
  <1>. QED BY <1>1, <1>2, <1>3

LEMMA CancelKept == IInv /\ CancelInv /\ (ExplanationStep \/ Crash) => CancelInv'
  <1>. USE HolderTypes
  <1>. SUFFICES ASSUME IInv, CancelInv, ExplanationStep \/ Crash PROVE CancelInv'
    OBVIOUS
  <1>0. /\ key \in [Jobs -> Keys \cup {None}] /\ cancels \subseteq Jobs /\ hit \subseteq Jobs
        /\ setter # "idle" => ~ consent
    BY DEF IInv, ExplanationTypeOK, RevInv
  <1>1. ASSUME UNCHANGED requests, setter' \in {setter, "idle", "imports"} PROVE CancelInv'
    BY <1>1 DEF requests, CancelInv, CancelNeverLost, AwaitedBefore, GoingDown, Live, Tasks
  <1>2. ASSUME NEW d \in Docs,
               \/ RetainFile(d) \/ StartFetch(d) \/ FetchDone(d) \/ FetchEnds(d)
               \/ StoreFetched(d) \/ DeleteDocument(d)
        PROVE  CancelInv'
    BY <1>1, <1>2 DEF RetainFile, StartFetch, FetchDone, FetchEnds, StoreFetched,
       DeleteDocument, switch
  <1>3. ASSUME NEW k \in Keys, DeleteExplanation(k) PROVE CancelInv'
    BY <1>1, <1>3 DEF DeleteExplanation, switch
  \* A step that touches the task of a job nobody waits for.
  <1>4. ASSUME NEW j \in Jobs, NEW s \in {"none", "submitting", "ready"},
               stage' = [stage EXCEPT ![j] = s], UNCHANGED <<hit, cancels, setter>>,
               \A i \in Jobs : i # j => key'[i] = key[i],
               j \in cancels => key'[j] # None /\ s # "submitting",
               s = "ready" => j \notin cancels /\ setter # "service"
        PROVE  CancelInv'
    <2>1. ASSUME NEW i \in Jobs, i \in Live'
          PROVE  IF i = j THEN s = "ready" ELSE i \in Live /\ (GoingDown(i) => GoingDown(i)')
      BY <1>4, <2>1 DEF Live, Tasks, GoingDown
    <2>2. CancelNeverLost'
      BY <1>4, <2>1 DEF CancelInv, CancelNeverLost, Live, Tasks
    <2>3. AwaitedBefore'
      BY <1>0, <1>4 DEF CancelInv, AwaitedBefore
    <2>. QED BY <2>2, <2>3 DEF CancelInv
  <1>5. ASSUME NEW j \in Jobs, NEW k \in Keys, Submit(j, k) PROVE CancelInv'
    <2>1. j \notin cancels /\ UNCHANGED <<hit, cancels, setter>>
      BY <1>5 DEF Submit, CancelInv, AwaitedBefore, switch
    <2>2. \A i \in Jobs : i # j => key'[i] = key[i]
      BY <1>5 DEF Submit
    <2>. QED BY <1>4, <1>5, <2>1, <2>2 DEF Submit
  <1>6. ASSUME NEW j \in Jobs, Admit(j) \/ Return(j) PROVE CancelInv'
    <2>1. j \notin cancels /\ UNCHANGED <<hit, cancels, setter>>
      BY <1>6 DEF Admit, Register, Return, CancelInv, AwaitedBefore, switch
    <2>2. \A i \in Jobs : i # j => key'[i] = key[i]
      BY <1>0, <1>6 DEF Admit, Register, Return
    <2>3. CASE Admit(j)
      BY <1>0, <1>4, <2>1, <2>2, <2>3 DEF Admit, Register
    <2>4. CASE Return(j)
      BY <1>4, <2>1, <2>2, <2>4 DEF Return
    <2>. QED BY <1>6, <2>3, <2>4
  <1>7. ASSUME NEW j \in Jobs, Reap(j) PROVE CancelInv'
    <2>1. j \in cancels => key[j] # None
      BY DEF CancelInv, AwaitedBefore
    <2>. QED BY <1>4, <1>7, <2>1 DEF Reap, switch
  <1>8. ASSUME NEW j \in Jobs, Cancel(j) PROVE CancelInv'
    <2>1. /\ cancels' = cancels \cup {j} /\ hit' = hit \cup ({j} \cap Live)
          /\ UNCHANGED <<key, stage, setter>>
      BY <1>8 DEF Cancel, switch
    <2>2. key[j] # None /\ stage[j] # "submitting"
      BY <1>8 DEF Cancel, Live, Tasks, ActiveJobs, Active, IInv, RowInv
    <2>3. AwaitedBefore'
      BY <2>1, <2>2 DEF CancelInv, AwaitedBefore
    <2>4. CancelNeverLost'
      BY <2>1 DEF CancelInv, CancelNeverLost, GoingDown, Live, Tasks
    <2>. QED BY <2>3, <2>4 DEF CancelInv
  <1>9. ASSUME NEW j \in Jobs, CancelReturns(j) PROVE CancelInv'
    BY <1>9 DEF CancelReturns, switch, CancelInv, CancelNeverLost, AwaitedBefore, GoingDown,
       Live, Tasks
  <1>10. ASSUME NEW j \in Jobs, RunStep(j) PROVE CancelInv'
    <2>1. UNCHANGED <<key, cancels, setter>>
      BY <1>10 DEF RunStep, FirstStep, Enter, Viewed, Answered, Expires, DropUnstarted,
         Deliver, Unwind, Unwound, Own, switch
    <2>2. AwaitedBefore'
      BY <1>0, <1>10, <2>1, MarkedStep DEF CancelInv, AwaitedBefore
    <2>3. ASSUME NEW i \in Jobs, i \in Live'
          PROVE  i \in Live /\ (GoingDown(i) => GoingDown(i)')
      BY <1>10, <2>3, MarkedStep DEF Live, Tasks, GoingDown
    <2>4. CancelNeverLost'
      BY <2>1, <2>3 DEF CancelInv, CancelNeverLost, Live, Tasks
    <2>. QED BY <2>2, <2>4 DEF CancelInv
  <1>11. CASE Grant \/ Revoke \/ SettingsReturn
    BY <1>1, <1>11 DEF Grant, Revoke, SettingsReturn
  <1>12. CASE CloseService
    BY <1>12 DEF CloseService, CancelInv, CancelNeverLost, AwaitedBefore, GoingDown, Live, Tasks
  <1>13. CASE Crash
    BY <1>13 DEF Crash, CancelInv, CancelNeverLost, AwaitedBefore, Live, Tasks
  <1>. QED BY <1>2, <1>3, <1>5, <1>6, <1>7, <1>8, <1>9, <1>10, <1>11, <1>12, <1>13
          DEF ExplanationStep

\* A cancel request and the settings request only wait for tasks whose CancelledError
\* is still to be delivered or is being handled, whether it meets an answer, a parser
\* or the timeout of the turn (ImportLearning.cancel, close, _run).
THEOREM ExplanationCancelsArrive == Spec => []CancelNeverLost
  <1>1. Init => CancelInv
    BY DEF Init, ExplanationInit, CancelInv, CancelNeverLost, AwaitedBefore
  <1>2. IInv /\ CancelInv /\ [Next]_vars => CancelInv'
    <2>1. CASE UNCHANGED explanationVars
      BY <2>1 DEF explanationVars, requests, switch, CancelInv, CancelNeverLost, AwaitedBefore,
         GoingDown, Live, Tasks
    <2>. QED BY <2>1, JobSteps, CancelKept
  <1>3. CancelInv => CancelNeverLost
    BY DEF CancelInv
  <1>. QED BY <1>1, <1>2, <1>3, AlwaysIInv, PTL DEF Spec
=============================================================================
