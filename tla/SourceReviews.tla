--------------------------- MODULE SourceReviews ---------------------------
(***************************************************************************)
(* Manual review of sources (source_review.py): the broker that holds at   *)
(* most one question per run until its deadline, the scope in which a run  *)
(* remembers what was chosen, and the places where research.py and         *)
(* market_research.py consult it.                                          *)
(*                                                                         *)
(* The order in which a run selects, retrieves and stores is left open;    *)
(* what each of these steps checks is not.  A rule is abstracted to the    *)
(* registry it comes from; the registries are constant.                    *)
(***************************************************************************)
EXTENDS Naturals, FiniteSets

CONSTANTS
    Runs,           \* research runs
    FullText,       \* addresses of the registry of public documents
    Market,         \* addresses of the registry of private market data
    PendingLimit    \* reviews pending at once (20 in the code)

Urls == FullText \cup Market

ASSUME ReviewAssumption ==
    /\ FullText \cap Market = {}
    /\ PendingLimit \in Nat

VARIABLES
    consent,    \* settings.cloud_enabled
    manual,     \* settings.manual_source_review
    optin,      \* settings.experimental_yahoo_enabled
    stage,      \* where each run is: "open" is any other await of its body
    hit,        \* runs marked by task.cancel()
    scope,      \* SourceReviewScope of each run
    review,     \* SourceReviewBroker.pending: the review of each run
    held,       \* addresses whose content the run has retrieved or quotes
    stored,     \* addresses the run has stored evidence from
    answered,   \* runs whose provider turn has ended with an answer
    chosen      \* history: what the user selected in reviews of the run

permissions == <<consent, manual, optin>>
reviewVars == <<permissions, stage, hit, scope, review, held, stored, answered, chosen>>

-----------------------------------------------------------------------------

Rules == {"none", "source", "market"}
Scope == [enabled : BOOLEAN, accepted : [Urls -> Rules], considered : SUBSET Urls,
          private : SUBSET Market, context : SUBSET Market]
NoScope == [enabled |-> FALSE, accepted |-> [u \in Urls |-> "none"], considered |-> {},
            private |-> {}, context |-> {}]
Review == [future : {"none", "open", "decided", "cancelled"}, asked : [Urls -> Rules],
           choice : SUBSET Urls, cancel : BOOLEAN, late : BOOLEAN]
NoReview == [future |-> "none", asked |-> [u \in Urls |-> "none"], choice |-> {},
             cancel |-> FALSE, late |-> FALSE]

ReviewTypeOK ==
    /\ consent \in BOOLEAN /\ manual \in BOOLEAN /\ optin \in BOOLEAN
    /\ stage \in [Runs -> {"none", "open", "review", "model", "ended"}]
    /\ hit \in SUBSET Runs
    /\ scope \in [Runs -> Scope]
    /\ review \in [Runs -> Review]
    /\ held \in [Runs -> SUBSET Urls] /\ stored \in [Runs -> SUBSET Urls]
    /\ answered \in SUBSET Runs
    /\ chosen \in [Runs -> SUBSET Urls]

ReviewInit ==
    /\ consent = TRUE /\ manual \in BOOLEAN /\ optin \in BOOLEAN
    /\ stage = [r \in Runs |-> "none"] /\ hit = {}
    /\ scope = [r \in Runs |-> NoScope]
    /\ review = [r \in Runs |-> NoReview]
    /\ held = [r \in Runs |-> {}] /\ stored = [r \in Runs |-> {}]
    /\ answered = {}
    /\ chosen = [r \in Runs |-> {}]

Pending == {r \in Runs : review[r].future # "none"}
Live == {r \in Runs : stage[r] \notin {"none", "ended"}}
Running(r) == stage[r] = "open" /\ r \notin hit

-----------------------------------------------------------------------------
(* SourceReviewScope                                                       *)

\* current_rule
Rule(s, u) ==
    CASE u \in s.context -> "market"
      [] u \in s.private \ s.context -> IF optin THEN "market" ELSE "none"
      [] OTHER -> IF u \in FullText THEN "source" ELSE "none"

\* active: a setting that is on is remembered, one that is off again is not.
Active_Current(s) == manual
Active(s) == s.enabled \/ manual
Latch(s) == [s EXCEPT !.enabled = Active(s)]

Allowed(s, u) ==
    /\ u \in s.private \ s.context => optin
    /\ Active(s) => s.accepted[u] # "none" /\ Rule(s, u) = s.accepted[u]

Purposes == {"document", "private", "context"}

\* What select looks at: numbers come only from addresses of the market registry.
Filtered(U, purpose) == IF purpose = "document" THEN U ELSE U \cap Market

\* select up to its await: what the addresses are used for is recorded, and those
\* with a rule that were not put to the user before are.
Noted(s, U, purpose) ==
    Latch([s EXCEPT !.context = @ \cup IF purpose = "context" THEN U ELSE {},
                    !.private = @ \cup IF purpose = "private" THEN U ELSE {}])
Considered(s, U) == IF s.enabled THEN [s EXCEPT !.considered = @ \cup U] ELSE s
Asked(s, U, purpose) ==
    [u \in Urls |-> IF s.enabled /\ u \in U \ s.considered
                       /\ Rule(s, u) \in {"source"} \cup IF purpose = "document" THEN {} ELSE {"market"}
                    THEN Rule(s, u) ELSE "none"]
Empty(asked) == \A u \in Urls : asked[u] = "none"

-----------------------------------------------------------------------------
(* A run                                                                   *)

\* The run goes on with scope s, or ends and its scope with it.
GoOn(r, s) ==
    /\ scope' = [scope EXCEPT ![r] = s]
    /\ UNCHANGED <<permissions, hit, answered, chosen>>
End(r) ==
    /\ stage' = [stage EXCEPT ![r] = "ended"]
    /\ scope' = [scope EXCEPT ![r] = NoScope]
    /\ held' = [held EXCEPT ![r] = {}] /\ answered' = answered \ {r}
    /\ hit' = hit \ {r}
    /\ UNCHANGED <<permissions, chosen>>

Begin(r) ==
    /\ stage[r] = "none" /\ consent
    /\ stage' = [stage EXCEPT ![r] = "open"]
    /\ GoOn(r, Latch(NoScope))
    /\ UNCHANGED <<review, held, stored>>

\* A run that stops for any reason of its own, or whose CancelledError arrives.
Stop(r) ==
    /\ stage[r] = "open"
    /\ End(r)
    /\ UNCHANGED <<review, stored>>

\* select with consent: returns at once, asks the user, or finds the queue full;
\* others are the reviews of runs outside the model.
Select(r, U, purpose) ==
    /\ Running(r) /\ consent
    /\ purpose = "private" => optin
    /\ LET V == Filtered(U, purpose)
           noted == Noted(scope[r], V, purpose)
           asked == Asked(noted, V, purpose)
       IN \E others \in 0..PendingLimit :
             IF Empty(asked)
             THEN /\ GoOn(r, Considered(noted, V))
                  /\ UNCHANGED <<stage, review, held>>
             ELSE IF Cardinality(Pending) + others < PendingLimit
             THEN /\ GoOn(r, Considered(noted, V))
                  /\ stage' = [stage EXCEPT ![r] = "review"]
                  /\ review' = [review EXCEPT ![r] = [NoReview EXCEPT !.future = "open",
                                                                      !.asked = asked]]
                  /\ UNCHANGED held
             ELSE End(r) /\ UNCHANGED review
    /\ UNCHANGED stored

\* The content of an address is retrieved, or saved evidence is quoted, after
\* select and if it is allowed now.
Take(r, u) ==
    /\ Running(r) /\ consent
    /\ u \notin held[r] /\ Allowed(scope[r], u)
    /\ u \in Market => u \in scope[r].private \cup scope[r].context
    /\ held' = [held EXCEPT ![r] = @ \cup {u}]
    /\ GoOn(r, Latch(scope[r]))
    /\ UNCHANGED <<stage, review, stored>>

\* checkpoint: a section is stored only if every source of it is allowed now.
Checkpoint(r, U) ==
    /\ Running(r) /\ consent
    /\ U # {} /\ U \subseteq held[r]
    /\ \A u \in U : Allowed(scope[r], u)
    /\ stored' = [stored EXCEPT ![r] = @ \cup U]
    /\ GoOn(r, Latch(scope[r]))
    /\ UNCHANGED <<stage, review, held>>

\* Quoted numbers that are no longer allowed stop the run before inference and
\* before publication.
ContextAllowed(r) ==
    \A u \in held[r] \cap scope[r].context : Allowed(scope[r], u)

\* The publication, in one step with its last checks: sources that are not allowed
\* are reduced to their metadata.
Publish(r) ==
    /\ Running(r) /\ consent /\ r \in answered
    /\ ContextAllowed(r)
    /\ stored' = [stored EXCEPT ![r] = @ \cup {u \in held[r] : Allowed(scope[r], u)}]
    /\ End(r)
    /\ UNCHANGED review

-----------------------------------------------------------------------------
(* SourceReviewBroker                                                      *)

\* The route that answers: the run is live and consent is given; the review is
\* open, not past its deadline, and the selection is part of it.
Answer_Late(r, U, cancel) ==
    /\ review[r].future = "open"
    /\ consent
    /\ \A u \in U : review[r].asked[u] # "none"
    /\ cancel => U = {}
    /\ review' = [review EXCEPT ![r].future = "decided", ![r].choice = U, ![r].cancel = cancel]
    /\ chosen' = [chosen EXCEPT ![r] = @ \cup U]
    /\ UNCHANGED <<permissions, stage, hit, scope, held, stored, answered>>
Answer(r, U, cancel) ==
    /\ review[r].future = "open" /\ ~ review[r].late
    /\ consent
    /\ \A u \in U : review[r].asked[u] # "none"
    /\ cancel => U = {}
    /\ review' = [review EXCEPT ![r].future = "decided", ![r].choice = U, ![r].cancel = cancel]
    /\ chosen' = [chosen EXCEPT ![r] = @ \cup U]
    /\ UNCHANGED <<permissions, stage, hit, scope, held, stored, answered>>

\* The deadline passes.  A run whose answer came before is resumed before the timer.
DeadlinePasses_Never(r) == FALSE /\ UNCHANGED reviewVars
DeadlinePasses(r) ==
    /\ review[r].future = "open" /\ ~ review[r].late
    /\ review' = [review EXCEPT ![r].late = TRUE]
    /\ UNCHANGED <<permissions, stage, hit, scope, held, stored, answered, chosen>>

\* The run is resumed and the review forgotten.  After a selection consent is read
\* again, and only what has the rule it was offered under is accepted.
Accepting(r) ==
    [scope[r] EXCEPT !.accepted =
        [u \in Urls |-> IF u \in review[r].choice /\ Rule(scope[r], u) = review[r].asked[u]
                        THEN review[r].asked[u] ELSE @[u]]]
Reviewed(r) ==
    /\ stage[r] = "review"
    /\ \/ /\ \/ r \in hit \/ review[r].late
             \/ review[r].future = "decided" /\ (review[r].cancel \/ ~ consent)
          /\ End(r)
       \/ /\ r \notin hit /\ ~ review[r].late /\ consent
          /\ review[r].future = "decided" /\ ~ review[r].cancel
          /\ stage' = [stage EXCEPT ![r] = "open"]
          /\ GoOn(r, Latch(Accepting(r)))
          /\ UNCHANGED held
    /\ review' = [review EXCEPT ![r] = NoReview]
    /\ UNCHANGED stored

\* cancel: open reviews of the runs are withdrawn, in one step with task.cancel().
Withdrawn(S) ==
    [r \in Runs |-> IF r \in S /\ review[r].future = "open"
                    THEN [review[r] EXCEPT !.future = "cancelled"] ELSE review[r]]
=============================================================================
