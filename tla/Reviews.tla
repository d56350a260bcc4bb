------------------------------ MODULE Reviews ------------------------------
(***************************************************************************)
(* A research run between the two things it asks its user: which sources   *)
(* it may use (SourceReviews) and whether its agent gets more access       *)
(* (CodexTurn).  Cancel, revocation and the settings meet both.            *)
(***************************************************************************)
EXTENDS SourceReviews, CodexTurn

VARIABLE setter    \* the PUT /api/settings that closes the service, and whom it awaits

vars == <<reviewVars, turnVars, setter>>

Setter == [stage : {"idle", "imports", "closing"}, awaited : SUBSET Runs]
IdleSetter == [stage |-> "idle", awaited |-> {}]

TypeOK == ReviewTypeOK /\ TurnTypeOK /\ setter \in Setter

Init == ReviewInit /\ TurnInit /\ setter = IdleSetter

-----------------------------------------------------------------------------

\* The run whose turn is open.
Asker == {r \in Runs : stage[r] = "model"}

\* A step of a run that leaves its agent alone.
Alone == UNCHANGED <<turnVars, setter>>
RunStep(r) ==
    \/ /\ Alone
       /\ \/ Begin(r) \/ Stop(r) \/ Publish(r)
          \/ \E U \in SUBSET Urls : U # {} /\ \E purpose \in Purposes : Select(r, U, purpose)
          \/ \E u \in Urls : Take(r, u)
          \/ \E U \in SUBSET Urls : Checkpoint(r, U)

\* The inference semaphore is taken with consent and with quotations that are
\* still allowed; otherwise the run stops.
Ask(r) ==
    /\ Running(r) /\ consent /\ r \notin answered
    /\ ContextAllowed(r)
    /\ OpenTurn
    /\ stage' = [stage EXCEPT ![r] = "model"]
    /\ scope' = [scope EXCEPT ![r] = Latch(@)]
    /\ UNCHANGED <<permissions, hit, review, held, stored, answered, chosen, setter>>

\* What the agent and its broker do while the run is not marked.
TurnStep ==
    /\ Asker \cap hit = {}
    /\ \/ \E i \in Items : Declare(i) \/ Request(i) \/ Report(i)
       \/ Complete \/ Break \/ Reply \/ Lost
    /\ UNCHANGED <<reviewVars, setter>>
Outside ==
    /\ AccessExpires \/ Disconnect
    /\ UNCHANGED <<reviewVars, setter>>

\* POST .../approvals/{id}: the job is running, its task alive and consent given.
DecideAccess ==
    /\ consent
    /\ \E d \in {"deny", "cancel"} : Decide(d)
    /\ UNCHANGED <<reviewVars, setter>>

Cancelled ==
    /\ Asker \cap hit # {}
    /\ Interrupted
    /\ hit' = hit \ Asker
    /\ UNCHANGED <<permissions, stage, scope, review, held, stored, answered, chosen, setter>>

\* The process is closed and the run goes on with an answer or ends.
Closed(r) ==
    /\ r \in Asker
    /\ CloseTurn
    /\ IF turn.end = "answered" /\ r \notin hit
       THEN /\ stage' = [stage EXCEPT ![r] = "open"]
            /\ answered' = answered \cup {r}
            /\ UNCHANGED <<permissions, hit, scope, held, chosen>>
       ELSE End(r)
    /\ UNCHANGED <<review, stored, setter>>

-----------------------------------------------------------------------------
(* Cancel, and the settings                                                *)

\* service.cancel and service.close: both brokers first, then the tasks.
CancelAll(S) ==
    /\ review' = Withdrawn(S) /\ access' = IF Asker \cap S # {} THEN WithdrawnAccess ELSE access
    /\ hit' = hit \cup (S \cap Live)
    /\ UNCHANGED <<stage, scope, held, stored, answered, chosen, turn, item, requested,
                   connected, denied>>

Cancel(r) ==
    /\ stage[r] # "none"
    /\ CancelAll({r})
    /\ UNCHANGED <<permissions, setter>>

\* A change that closes nothing.
Set(c, m, o) ==
    /\ setter = IdleSetter
    /\ c /\ (optin => o)
    /\ consent' = c /\ manual' = m /\ optin' = o
    /\ UNCHANGED <<stage, hit, scope, review, held, stored, answered, chosen, turnVars, setter>>

\* Consent is withdrawn: stored, then the imports are awaited, then close().
Revoke(m, o) ==
    /\ setter = IdleSetter
    /\ consent' = FALSE /\ manual' = m /\ optin' = o
    /\ setter' = [IdleSetter EXCEPT !.stage = "imports"]
    /\ UNCHANGED <<stage, hit, scope, review, held, stored, answered, chosen, turnVars>>
CloseService ==
    /\ setter.stage = "imports"
    /\ CancelAll(Runs)
    /\ setter' = [stage |-> "closing", awaited |-> Live]
    /\ UNCHANGED permissions

\* Only the private opt-in is withdrawn: stored and close() in one step.
OptOut(m) ==
    /\ setter = IdleSetter /\ optin
    /\ consent' = TRUE /\ manual' = m /\ optin' = FALSE
    /\ CancelAll(Runs)
    /\ setter' = [stage |-> "closing", awaited |-> Live]

\* close() awaits the tasks it marked, to the end of their clean-up.
SettingsReturn_Marked ==
    /\ setter.stage = "closing" /\ hit \cap Live = {}
    /\ setter' = IdleSetter
    /\ UNCHANGED <<reviewVars, turnVars>>
SettingsReturn ==
    /\ setter.stage = "closing" /\ setter.awaited \cap Live = {}
    /\ setter' = IdleSetter
    /\ UNCHANGED <<reviewVars, turnVars>>

Settings ==
    \/ \E c, m, o \in BOOLEAN : Set(c, m, o)
    \/ \E m, o \in BOOLEAN : Revoke(m, o)
    \/ \E m \in BOOLEAN : OptOut(m)
    \/ CloseService \/ SettingsReturn

BrokerStep(r) ==
    /\ Alone
    /\ \/ \E U \in SUBSET Urls, cancel \in BOOLEAN : Answer(r, U, cancel)
       \/ DeadlinePasses(r) \/ Reviewed(r)

Next ==
    \/ \E r \in Runs : RunStep(r) \/ Ask(r) \/ BrokerStep(r) \/ Closed(r) \/ Cancel(r)
    \/ TurnStep \/ Outside \/ DecideAccess \/ Cancelled
    \/ Settings

Spec == Init /\ [][Next]_vars

\* Both reviews have deadlines and so has the turn; closing a process ends; the event
\* loop resumes a marked task and a handler that can go on.
Fairness ==
    /\ \A r \in Runs :
          /\ WF_vars(Alone /\ DeadlinePasses(r)) /\ WF_vars(Alone /\ Reviewed(r))
          /\ WF_vars(Closed(r)) /\ WF_vars(Alone /\ r \in hit /\ Stop(r))
    /\ WF_vars(AccessExpires /\ UNCHANGED <<reviewVars, setter>>)
    /\ WF_vars(TurnStep /\ (Reply \/ Lost))
    /\ WF_vars(TurnStep /\ Break)
    /\ WF_vars(Cancelled)
    /\ WF_vars(CloseService) /\ WF_vars(SettingsReturn)

FairSpec == Spec /\ Fairness

-----------------------------------------------------------------------------
(* Properties                                                              *)

\* "Once enabled for a run, review cannot be silently removed by a settings toggle":
\* a run that has put sources to its user, or that stores while the setting is on,
\* stores evidence only from what was selected in its own reviews, and private data
\* that is not quoted from earlier work only while the opt-in is given.
StoredReviewed ==
    [][\A r \in Runs : \A u \in stored'[r] \ stored[r] :
          /\ scope[r].considered # {} \/ manual => u \in chosen[r]
          /\ u \in scope[r].private \ scope[r].context => optin]_vars

\* An answer the service accepted counts: the run goes on with exactly that selection
\* under unchanged rules, or stops because the user cancelled it, or withdrew
\* consent.  Neither the deadline nor an answer nobody gave decides otherwise.
AnswersCount ==
    [][\A r \in Runs :
          stage[r] = "review" /\ stage'[r] # "review" =>
              IF stage'[r] = "open"
              THEN /\ review[r].future = "decided" /\ consent
                   /\ \A u \in Urls :
                         scope'[r].accepted[u] # scope[r].accepted[u] => u \in review[r].choice
                   /\ \A u \in review[r].choice :
                         \/ scope'[r].accepted[u] # "none"
                         \/ Rule(scope[r], u) # review[r].asked[u]
              ELSE review[r].future = "decided" =>
                       review[r].cancel \/ r \in hit \/ ~ consent]_vars

\* "Recognize proposed work only so it can be declined, never executed": an answer is
\* used only if the user denied, in time, whatever the agent declared or asked for.
DeniedOnly ==
    [][turn.stage = "active" /\ turn'.end = "answered" =>
           \A i \in Items : item[i] # "none" \/ i \in requested => i \in denied]_vars

\* The request that withdrew consent does not return before everything that was under
\* way is over: no run is left, no question waits for an answer and no process of the
\* agent is open, although a run that lost a turn closes its process first.
QuietAfterRevocation ==
    ~ consent /\ setter = IdleSetter =>
        Live = {} /\ Pending = {} /\ turn = NoTurn /\ access = NoAccess

\* Questions are bounded and each is awaited: a question pends exactly while its run
\* stands at it, and there are no more of them, and no more requests for access in a
\* turn, than the limits allow.
QuestionsAwaited ==
    /\ \A r \in Runs : review[r].future # "none" <=> stage[r] = "review"
    /\ Cardinality(Pending) <= PendingLimit /\ Cardinality(requested) <= AskLimit
    /\ turn # NoTurn <=> Asker # {}

\* Reviews and turns come to an end, whoever is silent, and a settings request that
\* closes the service returns.
ReviewsEnd ==
    /\ \A r \in Runs : stage[r] = "review" ~> stage[r] # "review"
    /\ \A r \in Runs : stage[r] = "model" ~> stage[r] # "model"
    /\ setter # IdleSetter ~> setter = IdleSetter
=============================================================================
