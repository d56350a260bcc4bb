--------------------------- MODULE ReviewsProofs ---------------------------
(***************************************************************************)
(* Proofs about Reviews: what a run stores was selected in its reviews, an *)
(* answer counts, and only denied work stands behind an answer, for any    *)
(* runs, registries, tools and limits.                                     *)
(***************************************************************************)
EXTENDS Reviews, FiniteSetTheorems, TLAPS

\* A scope accepts only what its user selected, and what was put to the user is
\* remembered together with the setting.
Sound(r, s) ==
    /\ s \in Scope
    /\ \A u \in Urls : s.accepted[u] # "none" => u \in chosen[r]
    /\ s.considered # {} => s.enabled

\* A selection is part of the question and of the history, and comes in time.
Fits(r, v) ==
    /\ v \in Review
    /\ v.choice \subseteq chosen[r]
    /\ \A u \in v.choice : v.asked[u] # "none"
    /\ v.late => v.future # "decided"

ReviewInv ==
    /\ ReviewTypeOK
    /\ \A r \in Runs : Sound(r, scope[r]) /\ Fits(r, review[r])

\* What the agent asked for has been denied, except for the one request that waits;
\* it has got no further with anything it did not ask for.
TurnInv ==
    /\ TurnTypeOK
    /\ IF turn.stage = "asking" THEN access.item \in requested ELSE access = NoAccess
    /\ turn.stage \in {"active", "asking"} => turn.end = "none"
    /\ access.decision = "deny" => access.item \in denied
    /\ \A i \in requested : i \in denied \/ (turn.stage = "asking" /\ access.item = i)
    /\ \A i \in Items : item[i] \in {"denied", "started", "completed"} => i \in requested
    /\ \A i \in Grants : item[i] # "pending"

IInv == ReviewInv /\ TurnInv /\ setter \in Setter

-----------------------------------------------------------------------------
(* Scopes                                                                  *)

LEMMA NoScopeSound ==
  ASSUME NEW r
  PROVE  Sound(r, NoScope)
  BY DEF Sound, NoScope, Scope, Rules

LEMMA NoReviewFits ==
  ASSUME NEW r
  PROVE  Fits(r, NoReview)
  BY DEF Fits, NoReview, Review, Rules

LEMMA LatchSound ==
  ASSUME manual \in BOOLEAN, NEW r, NEW s, Sound(r, s)
  PROVE  Sound(r, Latch(s))
  BY DEF Sound, Latch, Active, Scope

LEMMA NotedSound ==
  ASSUME manual \in BOOLEAN, NEW r, NEW s, Sound(r, s), NEW U \in SUBSET Urls, NEW purpose
  PROVE  Sound(r, Noted(s, Filtered(U, purpose), purpose))
  <1>. DEFINE V == Filtered(U, purpose)
              C == s.context \cup IF purpose = "context" THEN V ELSE {}
              P == s.private \cup IF purpose = "private" THEN V ELSE {}
              t == [s EXCEPT !.context = C, !.private = P]
  <1>1. s \in Scope
    BY DEF Sound
  <1>2. C \in SUBSET Market /\ P \in SUBSET Market
    BY <1>1 DEF Scope, Filtered
  <1>3. /\ t \in Scope /\ t.accepted = s.accepted /\ t.considered = s.considered
        /\ t.enabled = s.enabled
    BY <1>1, <1>2 DEF Scope
  <1>4. Sound(r, t)
    BY <1>3 DEF Sound
  <1>. QED BY <1>4, LatchSound DEF Noted

LEMMA ConsideredSound ==
  ASSUME NEW r, NEW s, Sound(r, s), NEW U \in SUBSET Urls
  PROVE  Sound(r, Considered(s, U))
  BY DEF Sound, Considered, Scope

LEMMA AcceptingSound ==
  ASSUME NEW r \in Runs, ReviewInv
  PROVE  Sound(r, Accepting(r))
  <1>1. scope[r] \in Scope /\ review[r] \in Review /\ review[r].choice \subseteq chosen[r]
        /\ Sound(r, scope[r])
    BY DEF ReviewInv, Sound, Fits
  <1>. DEFINE f == [u \in Urls |->
                      IF u \in review[r].choice /\ Rule(scope[r], u) = review[r].asked[u]
                      THEN review[r].asked[u] ELSE scope[r].accepted[u]]
  <1>2. f \in [Urls -> Rules] /\ \A u \in Urls : f[u] # "none" => u \in chosen[r]
    BY <1>1 DEF Scope, Review, Sound
  <1>3. Accepting(r) = [scope[r] EXCEPT !.accepted = f]
    BY DEF Accepting
  <1>. HIDE DEF f
  <1>. QED BY <1>1, <1>2, <1>3 DEF Sound, Scope

-----------------------------------------------------------------------------
(* Steps of a run                                                          *)

\* A step that touches the scope and the review of one run.
LEMMA OneRun ==
  ASSUME ReviewInv, NEW r \in Runs,
         NEW s, Sound(r, s), scope' = scope \/ scope' = [scope EXCEPT ![r] = s],
         NEW v, Fits(r, v), review' = review \/ review' = [review EXCEPT ![r] = v],
         chosen' = chosen,
         consent' \in BOOLEAN, manual' \in BOOLEAN, optin' \in BOOLEAN,
         stage' \in [Runs -> {"none", "open", "review", "model", "ended"}],
         hit' \in SUBSET Runs, held' \in [Runs -> SUBSET Urls],
         stored' \in [Runs -> SUBSET Urls], answered' \in SUBSET Runs
  PROVE  ReviewInv'
  <1>1. scope \in [Runs -> Scope] /\ review \in [Runs -> Review]
    BY DEF ReviewInv, ReviewTypeOK
  <1>2. s \in Scope /\ v \in Review
    BY DEF Sound, Fits
  <1>3. scope' \in [Runs -> Scope]
        /\ \A q \in Runs : (scope'[q] = scope[q]) \/ (q = r /\ scope'[q] = s)
    BY <1>1, <1>2
  <1>4. review' \in [Runs -> Review]
        /\ \A q \in Runs : (review'[q] = review[q]) \/ (q = r /\ review'[q] = v)
    BY <1>1, <1>2
  <1>5. (\A q \in Runs : Sound(q, scope[q]))'
    BY <1>3 DEF Sound, ReviewInv
  <1>6. (\A q \in Runs : Fits(q, review[q]))'
    BY <1>4 DEF Fits, ReviewInv
  <1>. QED BY <1>3, <1>4, <1>5, <1>6 DEF ReviewInv, ReviewTypeOK

LEMMA InvFacts ==
  ASSUME ReviewInv, NEW r \in Runs
  PROVE  /\ Sound(r, scope[r]) /\ Fits(r, review[r])
         /\ consent \in BOOLEAN /\ manual \in BOOLEAN /\ optin \in BOOLEAN
         /\ stage \in [Runs -> {"none", "open", "review", "model", "ended"}]
         /\ hit \in SUBSET Runs /\ held \in [Runs -> SUBSET Urls]
         /\ stored \in [Runs -> SUBSET Urls] /\ answered \in SUBSET Runs
  BY DEF ReviewInv, ReviewTypeOK

\* The run goes on.
LEMMA GoOnKeeps ==
  ASSUME ReviewInv, NEW r \in Runs, NEW s, Sound(r, s), GoOn(r, s),
         NEW v, Fits(r, v), review' = review \/ review' = [review EXCEPT ![r] = v],
         NEW k \in {"none", "open", "review", "model", "ended"},
         stage' = stage \/ stage' = [stage EXCEPT ![r] = k],
         held' \in [Runs -> SUBSET Urls], stored' \in [Runs -> SUBSET Urls]
  PROVE  ReviewInv'
  <1>1. /\ scope' = [scope EXCEPT ![r] = s] /\ chosen' = chosen
        /\ consent' = consent /\ manual' = manual /\ optin' = optin
        /\ hit' = hit /\ answered' = answered
    BY DEF GoOn, permissions
  <1>2. stage' \in [Runs -> {"none", "open", "review", "model", "ended"}]
    BY InvFacts
  <1>. QED BY <1>1, <1>2, InvFacts, OneRun

\* The run ends.
LEMMA EndKeeps ==
  ASSUME ReviewInv, NEW r \in Runs, End(r),
         review' = review \/ review' = [review EXCEPT ![r] = NoReview],
         stored' \in [Runs -> SUBSET Urls]
  PROVE  ReviewInv'
  <1>1. /\ scope' = [scope EXCEPT ![r] = NoScope] /\ chosen' = chosen
        /\ consent' = consent /\ manual' = manual /\ optin' = optin
        /\ hit' = hit \ {r} /\ answered' = answered \ {r}
        /\ stage' = [stage EXCEPT ![r] = "ended"] /\ held' = [held EXCEPT ![r] = {}]
    BY DEF End, permissions
  <1>2. /\ stage' \in [Runs -> {"none", "open", "review", "model", "ended"}]
        /\ held' \in [Runs -> SUBSET Urls] /\ hit' \in SUBSET Runs /\ answered' \in SUBSET Runs
        /\ consent' \in BOOLEAN /\ manual' \in BOOLEAN /\ optin' \in BOOLEAN
    BY <1>1, InvFacts
  <1>. QED BY <1>1, <1>2, NoScopeSound, NoReviewFits, OneRun

LEMMA SelectKeeps ==
  ASSUME ReviewInv, NEW r \in Runs, NEW U \in SUBSET Urls, NEW purpose \in Purposes,
         Select(r, U, purpose)
  PROVE  ReviewInv'
  <1>. DEFINE V == Filtered(U, purpose)
              noted == Noted(scope[r], V, purpose)
              asked == Asked(noted, V, purpose)
              v == [NoReview EXCEPT !.future = "open", !.asked = asked]
  <1>1. V \in SUBSET Urls
    BY DEF Filtered
  <1>2. Sound(r, noted)
    BY InvFacts, NotedSound
  <1>3. Sound(r, Considered(noted, V))
    BY <1>1, <1>2, ConsideredSound
  <1>4. asked \in [Urls -> Rules]
    BY DEF Asked, Rule, Rules
  <1>. HIDE DEF asked, noted, V
  <1>5. NoReview \in Review /\ NoReview.choice = {} /\ NoReview.late = FALSE
    BY DEF NoReview, Review, Rules
  <1>6. Fits(r, v)
    <2>1. v \in Review /\ v.choice = {} /\ v.late = FALSE
      BY <1>4, <1>5 DEF Review
    <2>. QED BY <2>1 DEF Fits
  <1>7. stored' = stored
    BY DEF Select
  <1>8. CASE GoOn(r, Considered(noted, V)) /\ UNCHANGED <<stage, review, held>>
    BY <1>3, <1>7, <1>8, InvFacts, GoOnKeeps
  <1>9. CASE GoOn(r, Considered(noted, V)) /\ stage' = [stage EXCEPT ![r] = "review"]
             /\ review' = [review EXCEPT ![r] = v] /\ UNCHANGED held
    BY <1>3, <1>6, <1>7, <1>9, InvFacts, GoOnKeeps
  <1>10. CASE End(r) /\ UNCHANGED review
    BY <1>7, <1>10, InvFacts, EndKeeps
  <1>. QED BY <1>8, <1>9, <1>10 DEF Select, V, noted, asked

LEMMA RunKeeps ==
  ASSUME ReviewInv, NEW r \in Runs, RunStep(r)
  PROVE  ReviewInv'
  <1>1. Sound(r, Latch(scope[r])) /\ Sound(r, Latch(NoScope))
    BY InvFacts, NoScopeSound, LatchSound
  <1>2. CASE Begin(r)
    BY <1>1, <1>2, InvFacts, GoOnKeeps DEF Begin
  <1>3. CASE Stop(r)
    BY <1>3, InvFacts, EndKeeps DEF Stop
  <1>4. CASE Publish(r)
    <2>1. stored' \in [Runs -> SUBSET Urls]
      BY <1>4, InvFacts DEF Publish
    <2>. QED BY <1>4, <2>1, EndKeeps DEF Publish
  <1>5. ASSUME NEW u \in Urls, Take(r, u) PROVE ReviewInv'
    <2>1. held' \in [Runs -> SUBSET Urls]
      BY <1>5, InvFacts DEF Take
    <2>. QED BY <1>1, <1>5, <2>1, InvFacts, GoOnKeeps DEF Take
  <1>6. ASSUME NEW U \in SUBSET Urls, Checkpoint(r, U) PROVE ReviewInv'
    <2>1. stored' \in [Runs -> SUBSET Urls]
      BY <1>6, InvFacts DEF Checkpoint
    <2>. QED BY <1>1, <1>6, <2>1, InvFacts, GoOnKeeps DEF Checkpoint
  <1>. QED BY <1>2, <1>3, <1>4, <1>5, <1>6, SelectKeeps DEF RunStep

-----------------------------------------------------------------------------
(* Steps of the brokers, the turn and the settings                         *)

LEMMA AnswerKeeps ==
  ASSUME ReviewInv, NEW r \in Runs, NEW U \in SUBSET Urls, NEW cancel \in BOOLEAN,
         Answer(r, U, cancel)
  PROVE  ReviewInv'
  <1>. DEFINE v == [review[r] EXCEPT !.future = "decided", !.choice = U, !.cancel = cancel]
  <1>1. /\ scope \in [Runs -> Scope] /\ review \in [Runs -> Review]
        /\ chosen \in [Runs -> SUBSET Urls]
    BY DEF ReviewInv, ReviewTypeOK
  <1>2. review[r] \in Review
    BY <1>1
  <1>3. /\ v \in Review /\ v.choice = U /\ v.asked = review[r].asked /\ v.late = review[r].late
    BY <1>2 DEF Review
  <1>4. review' = [review EXCEPT ![r] = v] /\ chosen' = [chosen EXCEPT ![r] = @ \cup U]
    BY DEF Answer
  <1>5. /\ UNCHANGED <<permissions, stage, hit, scope, held, stored, answered>>
        /\ ~ review[r].late /\ \A u \in U : review[r].asked[u] # "none"
    BY DEF Answer
  <1>. HIDE DEF v
  <1>6. /\ review' \in [Runs -> Review] /\ chosen' \in [Runs -> SUBSET Urls]
        /\ \A q \in Runs : chosen[q] \subseteq chosen'[q]
        /\ \A q \in Runs \ {r} : review'[q] = review[q]
        /\ review'[r] = v /\ U \subseteq chosen'[r]
    BY <1>1, <1>3, <1>4
  <1>7. (\A q \in Runs : Sound(q, scope[q]))'
    BY <1>5, <1>6 DEF Sound, ReviewInv
  <1>8. (\A q \in Runs : Fits(q, review[q]))'
    <2>1. ASSUME NEW q \in Runs \ {r} PROVE Fits(q, review[q])'
      BY <1>6 DEF Fits, ReviewInv
    <2>2. Fits(r, review[r])'
      BY <1>3, <1>5, <1>6 DEF Fits
    <2>. QED BY <2>1, <2>2
  <1>. QED BY <1>5, <1>6, <1>7, <1>8 DEF ReviewInv, ReviewTypeOK, permissions

LEMMA DeadlineKeeps ==
  ASSUME ReviewInv, NEW r \in Runs, DeadlinePasses(r)
  PROVE  ReviewInv'
  <1>. DEFINE v == [review[r] EXCEPT !.late = TRUE]
  <1>1. review[r] \in Review /\ Fits(r, review[r])
    BY InvFacts DEF Fits
  <1>2. v \in Review /\ v.choice = review[r].choice /\ v.asked = review[r].asked
        /\ v.future = review[r].future
    BY <1>1 DEF Review
  <1>3. review' = [review EXCEPT ![r] = v] /\ review[r].future = "open"
        /\ UNCHANGED <<permissions, stage, hit, scope, held, stored, answered, chosen>>
    BY DEF DeadlinePasses
  <1>. HIDE DEF v
  <1>4. Fits(r, v)
    BY <1>1, <1>2, <1>3 DEF Fits
  <1>. QED BY <1>3, <1>4, InvFacts, OneRun DEF permissions

LEMMA ReviewedKeeps ==
  ASSUME ReviewInv, NEW r \in Runs, Reviewed(r)
  PROVE  ReviewInv'
  <1>1. Sound(r, Latch(Accepting(r)))
    BY AcceptingSound, InvFacts, LatchSound
  <1>2. review' = [review EXCEPT ![r] = NoReview] /\ stored' = stored
    BY DEF Reviewed
  <1>3. CASE End(r)
    BY <1>2, <1>3, InvFacts, EndKeeps
  <1>4. CASE /\ stage' = [stage EXCEPT ![r] = "open"]
             /\ GoOn(r, Latch(Accepting(r))) /\ UNCHANGED held
    BY <1>1, <1>2, <1>4, InvFacts, NoReviewFits, GoOnKeeps
  <1>. QED BY <1>3, <1>4 DEF Reviewed

\* Both brokers withdraw what is open and the tasks are marked.
LEMMA CancelAllKeeps ==
  ASSUME ReviewInv, NEW S \in SUBSET Runs, CancelAll(S),
         consent' \in BOOLEAN, manual' \in BOOLEAN, optin' \in BOOLEAN
  PROVE  ReviewInv'
  <1>1. /\ review' = Withdrawn(S) /\ hit' = hit \cup (S \cap Live)
        /\ UNCHANGED <<stage, scope, held, stored, answered, chosen>>
    BY DEF CancelAll
  <1>2. ASSUME NEW q \in Runs PROVE Fits(q, review'[q])
    <2>1. review[q] \in Review /\ Fits(q, review[q])
      BY InvFacts DEF Fits
    <2>2. CASE review'[q] = review[q]
      BY <2>1, <2>2
    <2>3. CASE review'[q] = [review[q] EXCEPT !.future = "cancelled"]
      BY <2>1, <2>3 DEF Fits, Review
    <2>. QED BY <1>1, <2>2, <2>3 DEF Withdrawn
  <1>3. (\A q \in Runs : Fits(q, review[q]))'
    BY <1>1, <1>2 DEF Fits
  <1>4. review' \in [Runs -> Review]
    BY <1>1, <1>2 DEF Withdrawn, Fits
  <1>5. (\A q \in Runs : Sound(q, scope[q]))'
    BY <1>1 DEF Sound, ReviewInv
  <1>6. hit' \in SUBSET Runs
    BY <1>1 DEF ReviewInv, ReviewTypeOK
  <1>. QED BY <1>1, <1>3, <1>4, <1>5, <1>6 DEF ReviewInv, ReviewTypeOK

\* A step that leaves reviews alone, whatever it does to the permissions.
LEMMA SwitchKeeps ==
  ASSUME ReviewInv, consent' \in BOOLEAN, manual' \in BOOLEAN, optin' \in BOOLEAN,
         UNCHANGED <<stage, hit, scope, review, held, stored, answered, chosen>>
  PROVE  ReviewInv'
  BY DEF ReviewInv, ReviewTypeOK, Sound, Fits

-----------------------------------------------------------------------------
(* The turn                                                                *)

LEMMA TurnFacts ==
  ASSUME TurnInv
  PROVE  /\ turn \in Turn /\ item \in [Items -> ItemStates] /\ access \in Access
         /\ requested \in SUBSET Items /\ denied \in SUBSET Items /\ connected \in BOOLEAN
  BY DEF TurnInv, TurnTypeOK

LEMMA OpenKeeps ==
  ASSUME TurnInv, OpenTurn
  PROVE  TurnInv'
  <1>1. turn' = [stage |-> "active", end |-> "none"] /\ connected' = TRUE
        /\ UNCHANGED <<item, requested, access, denied>>
    BY DEF OpenTurn
  <1>2. turn.stage = "none" /\ access = NoAccess
    BY DEF OpenTurn, NoTurn, TurnInv
  <1>3. access.decision = "none" /\ \A i \in requested : i \in denied
    BY <1>2 DEF NoAccess, TurnInv
  <1>. QED BY <1>1, <1>2, <1>3 DEF TurnInv, TurnTypeOK, Turn

LEMMA FinishKeeps ==
  ASSUME TurnInv, NEW end \in {"answered", "failed", "cancelled"}, Finish(end),
         access' = NoAccess
  PROVE  TurnInv'
  <1>1. turn \in Turn
    BY TurnFacts
  <1>2. turn' \in Turn /\ turn'.stage = "closing"
    BY <1>1 DEF Finish, Turn
  <1>3. item' = [i \in Items |-> "none"] /\ requested' = {} /\ denied' = {}
        /\ connected' = FALSE
    BY DEF Finish
  <1>4. access' \in Access /\ access'.decision = "none"
    BY DEF NoAccess, Access
  <1>. QED BY <1>2, <1>3, <1>4 DEF TurnInv, TurnTypeOK, ItemStates, Items

LEMMA ItemKeeps ==
  ASSUME TurnInv, NEW i \in Items, NEW s \in ItemStates, item' = [item EXCEPT ![i] = s],
         s = "pending" => i \in Tools,
         s \in {"denied", "started", "completed"} => i \in requested,
         UNCHANGED <<turn, requested, access, connected, denied>>
  PROVE  TurnInv'
  <1>. USE TurnAssumption
  <1>1. item \in [Items -> ItemStates]
    BY TurnFacts
  <1>2. item' \in [Items -> ItemStates] /\ \A k \in Items : k # i => item'[k] = item[k]
    BY <1>1
  <1>3. item'[i] = s
    BY <1>1
  <1>. QED BY <1>2, <1>3 DEF TurnInv, TurnTypeOK, Items

LEMMA RequestKeeps ==
  ASSUME TurnInv, NEW i \in Items, Request(i)
  PROVE  TurnInv'
  <1>1. turn \in Turn /\ turn.stage = "active" /\ turn.end = "none"
    BY TurnFacts DEF Request, Listening, TurnInv
  <1>2. turn' \in Turn /\ turn'.stage = "asking" /\ turn'.end = "none"
    BY <1>1 DEF Request, Turn
  <1>3. requested' = requested \cup {i} /\ UNCHANGED <<item, connected, denied>>
    BY DEF Request
  <1>4. access' = [NoAccess EXCEPT !.item = i, !.future = "open"]
    BY DEF Request
  <1>5. access' \in Access /\ access'.item = i /\ access'.decision = "none"
    BY <1>4 DEF NoAccess, Access
  <1>6. \A k \in requested : k \in denied
    BY <1>1 DEF TurnInv
  <1>. QED BY <1>2, <1>3, <1>5, <1>6 DEF TurnInv, TurnTypeOK

LEMMA ReplyKeeps ==
  ASSUME TurnInv, Reply
  PROVE  TurnInv'
  <1>1. turn \in Turn /\ turn.stage = "asking" /\ turn.end = "none" /\ access' = NoAccess
    BY TurnFacts DEF Reply, TurnInv
  <1>2. CASE ~ access.late /\ access.decision = "deny"
    <2>. access.item \in requested
      BY <1>1 DEF TurnInv
    <2>1. /\ turn' = [turn EXCEPT !.stage = "active"]
          /\ item' = [item EXCEPT ![access.item] = "denied"]
          /\ UNCHANGED <<requested, connected, denied>>
      BY <1>2 DEF Reply
    <2>2. turn' \in Turn /\ turn'.stage = "active" /\ turn'.end = "none"
      BY <1>1, <2>1 DEF Turn
    <2>3. access.item \in denied /\ \A k \in requested : k \in denied
      BY <1>2 DEF TurnInv
    <2>4. access' \in Access /\ access'.decision = "none"
      BY <1>1 DEF NoAccess, Access
    <2>. QED BY <1>1, <2>1, <2>2, <2>3, <2>4 DEF TurnInv, TurnTypeOK, ItemStates
  <1>3. CASE ~ (~ access.late /\ access.decision = "deny")
    BY <1>1, <1>3, FinishKeeps DEF Reply
  <1>. QED BY <1>2, <1>3

\* A step that changes the access review only.
LEMMA AccessKeeps ==
  ASSUME TurnInv, NEW a \in Access, access' = a, a.item = access.item,
         turn.stage = "asking", turn' = turn,
         connected' \in BOOLEAN, UNCHANGED <<item, requested>>,
         denied' \in SUBSET Items, denied \subseteq denied',
         a.decision = "deny" => a.item \in denied'
  PROVE  TurnInv'
  BY DEF TurnInv, TurnTypeOK

LEMMA DecideKeeps ==
  ASSUME TurnInv, NEW d \in {"deny", "cancel"}, Decide(d)
  PROVE  TurnInv'
  <1>1. access.future = "open" /\ access \in Access /\ denied \in SUBSET Items
    BY TurnFacts DEF Decide
  <1>2. turn.stage = "asking" /\ access.item \in Items
    BY <1>1, TurnFacts DEF TurnInv, NoAccess
  <1>. DEFINE a == [access EXCEPT !.future = "decided", !.decision = d]
  <1>3. a \in Access /\ a.item = access.item /\ a.decision = d
    BY <1>1 DEF Access
  <1>4. access' = a /\ denied' = (IF d = "deny" THEN denied \cup {access.item} ELSE denied)
        /\ UNCHANGED <<turn, item, requested, connected>>
    BY DEF Decide
  <1>. HIDE DEF a
  <1>. QED BY <1>1, <1>2, <1>3, <1>4, TurnFacts, AccessKeeps

LEMMA ExpireKeeps ==
  ASSUME TurnInv, AccessExpires
  PROVE  TurnInv'
  <1>1. access.future = "open" /\ access \in Access
    BY TurnFacts DEF AccessExpires
  <1>2. turn.stage = "asking"
    BY <1>1 DEF TurnInv, NoAccess
  <1>. DEFINE a == [access EXCEPT !.late = TRUE]
  <1>3. a \in Access /\ a.item = access.item /\ a.decision = access.decision
    BY <1>1 DEF Access
  <1>4. access' = a /\ UNCHANGED <<turn, item, requested, connected, denied>>
    BY DEF AccessExpires
  <1>. HIDE DEF a
  <1>5. a.decision = "deny" => a.item \in denied
    BY <1>3 DEF TurnInv
  <1>. QED BY <1>2, <1>3, <1>4, <1>5, TurnFacts, AccessKeeps

LEMMA WithdrawKeeps ==
  ASSUME TurnInv, access' \in {access, WithdrawnAccess},
         UNCHANGED <<turn, item, requested, connected, denied>>
  PROVE  TurnInv'
  <1>1. CASE access' = access
    BY <1>1 DEF TurnInv, TurnTypeOK
  <1>2. CASE access.future = "open" /\ access' = [access EXCEPT !.future = "cancelled"]
    <2>1. access \in Access
      BY TurnFacts
    <2>2. turn.stage = "asking"
      BY <1>2 DEF TurnInv, NoAccess
    <2>3. access' \in Access /\ access'.item = access.item /\ access'.decision = access.decision
      BY <1>2, <2>1 DEF Access
    <2>. QED BY <2>2, <2>3 DEF TurnInv, TurnTypeOK
  <1>. QED BY <1>1, <1>2 DEF WithdrawnAccess

LEMMA TurnKeeps ==
  ASSUME TurnInv, TurnStep
  PROVE  TurnInv'
  <1>. USE TurnAssumption
  <1>1. ASSUME NEW i \in Items, Declare(i) PROVE TurnInv'
    BY <1>1, ItemKeeps DEF Declare, ItemStates
  <1>2. ASSUME NEW i \in Items, Report(i) PROVE TurnInv'
    <2>1. item[i] \in {"denied", "started"} /\ i \in requested
      BY <1>2 DEF Report, TurnInv
    <2>. QED BY <1>2, <2>1, ItemKeeps DEF Report, ItemStates
  <1>3. ASSUME turn.stage = "active", NEW end \in {"answered", "failed"}, Finish(end),
               UNCHANGED access
        PROVE  TurnInv'
    BY <1>3, FinishKeeps DEF TurnInv
  <1>4. CASE Complete
    BY <1>3, <1>4 DEF Complete, Listening
  <1>5. CASE Break
    BY <1>3, <1>5 DEF Break
  <1>6. CASE Lost
    BY <1>6, FinishKeeps DEF Lost
  <1>. QED BY <1>1, <1>2, <1>4, <1>5, <1>6, RequestKeeps, ReplyKeeps DEF TurnStep

LEMMA OutsideKeeps ==
  ASSUME TurnInv, Outside
  PROVE  TurnInv'
  <1>1. CASE Disconnect
    BY <1>1 DEF Disconnect, TurnInv, TurnTypeOK
  <1>. QED BY <1>1, ExpireKeeps DEF Outside

LEMMA CloseKeeps ==
  ASSUME TurnInv, CloseTurn
  PROVE  TurnInv'
  <1>1. turn' = NoTurn /\ turn.stage = "closing"
        /\ UNCHANGED <<item, requested, access, connected, denied>>
    BY DEF CloseTurn
  <1>2. access = NoAccess /\ \A i \in requested : i \in denied
    BY <1>1 DEF TurnInv
  <1>. QED BY <1>1, <1>2 DEF TurnInv, TurnTypeOK, NoTurn, Turn

-----------------------------------------------------------------------------
(* The inductive invariant                                                 *)

LEMMA InitInv == Init => IInv
  <1>. SUFFICES ASSUME Init PROVE IInv
    OBVIOUS
  <1>1. ReviewTypeOK
    <2>1. NoScope \in Scope /\ NoReview \in Review
      BY NoScopeSound, NoReviewFits DEF Sound, Fits
    <2>. QED BY <2>1 DEF Init, ReviewInit, ReviewTypeOK
  <1>2. \A r \in Runs : Sound(r, scope[r]) /\ Fits(r, review[r])
    BY NoScopeSound, NoReviewFits DEF Init, ReviewInit
  <1>3. TurnInv
    BY DEF Init, TurnInit, TurnInv, TurnTypeOK, NoTurn, NoAccess, Turn, Access, ItemStates, Items
  <1>. QED BY <1>1, <1>2, <1>3 DEF IInv, ReviewInv, Init, Setter, IdleSetter

LEMMA StepInv == IInv /\ [Next]_vars => IInv'
  <1>. SUFFICES ASSUME IInv, [Next]_vars PROVE IInv'
    OBVIOUS
  <1>. USE DEF IInv
  <1>0. consent \in BOOLEAN /\ manual \in BOOLEAN /\ optin \in BOOLEAN
    BY DEF ReviewInv, ReviewTypeOK
  <1>1. ASSUME UNCHANGED <<turnVars, setter>> PROVE TurnInv' /\ setter' \in Setter
    BY <1>1 DEF turnVars, TurnInv, TurnTypeOK
  <1>2. ASSUME UNCHANGED reviewVars PROVE ReviewInv'
    BY <1>0, <1>2, SwitchKeeps DEF reviewVars, permissions
  <1>3. ASSUME NEW r \in Runs, RunStep(r) PROVE IInv'
    <2>1. UNCHANGED <<turnVars, setter>>
      BY <1>3 DEF RunStep, Alone
    <2>. QED BY <1>1, <1>3, <2>1, RunKeeps
  <1>4. ASSUME NEW r \in Runs, Ask(r) PROVE IInv'
    <2>1. Sound(r, Latch(scope[r]))
      BY InvFacts, LatchSound
    <2>2. /\ OpenTurn /\ stage' = [stage EXCEPT ![r] = "model"]
          /\ scope' = [scope EXCEPT ![r] = Latch(scope[r])]
          /\ UNCHANGED <<permissions, hit, review, held, stored, answered, chosen, setter>>
      BY <1>4 DEF Ask
    <2>3. stage' \in [Runs -> {"none", "open", "review", "model", "ended"}]
      BY <2>2, InvFacts
    <2>4. ReviewInv'
      BY <2>1, <2>2, <2>3, InvFacts, OneRun DEF permissions
    <2>. QED BY <2>2, <2>4, OpenKeeps
  <1>5. ASSUME NEW r \in Runs, BrokerStep(r) PROVE IInv'
    <2>1. UNCHANGED <<turnVars, setter>>
      BY <1>5 DEF BrokerStep, Alone
    <2>. QED BY <1>1, <1>5, <2>1, AnswerKeeps, DeadlineKeeps, ReviewedKeeps DEF BrokerStep
  <1>6. ASSUME NEW r \in Runs, Closed(r) PROVE IInv'
    <2>1. CloseTurn /\ UNCHANGED <<review, stored, setter>>
      BY <1>6 DEF Closed
    <2>2. CASE End(r)
      BY <2>1, <2>2, InvFacts, EndKeeps, CloseKeeps
    <2>3. CASE /\ stage' = [stage EXCEPT ![r] = "open"]
               /\ answered' = answered \cup {r}
               /\ UNCHANGED <<permissions, hit, scope, held, chosen>>
      <3>1. /\ stage' \in [Runs -> {"none", "open", "review", "model", "ended"}]
            /\ answered' \in SUBSET Runs
        BY <2>3, InvFacts
      <3>2. ReviewInv'
        BY <2>1, <2>3, <3>1, InvFacts, OneRun DEF permissions
      <3>. QED BY <2>1, <3>2, CloseKeeps
    <2>. QED BY <1>6, <2>2, <2>3 DEF Closed
  <1>7. ASSUME NEW S \in SUBSET Runs, CancelAll(S), permissions' \in BOOLEAN \X BOOLEAN \X BOOLEAN
        PROVE  ReviewInv' /\ TurnInv'
    <2>1. consent' \in BOOLEAN /\ manual' \in BOOLEAN /\ optin' \in BOOLEAN
      BY <1>7 DEF permissions
    <2>2. access' \in {access, WithdrawnAccess}
          /\ UNCHANGED <<turn, item, requested, connected, denied>>
      BY <1>7 DEF CancelAll
    <2>. QED BY <1>7, <2>1, <2>2, CancelAllKeeps, WithdrawKeeps
  <1>8. permissions \in BOOLEAN \X BOOLEAN \X BOOLEAN
    BY <1>0 DEF permissions
  <1>9. ASSUME NEW r \in Runs, Cancel(r) PROVE IInv'
    BY <1>7, <1>8, <1>9 DEF Cancel
  <1>10. CASE TurnStep
    BY <1>2, <1>10, TurnKeeps DEF TurnStep
  <1>11. CASE Outside
    BY <1>2, <1>11, OutsideKeeps DEF Outside
  <1>12. CASE DecideAccess
    BY <1>2, <1>12, DecideKeeps DEF DecideAccess
  <1>13. CASE Cancelled
    <2>1. Interrupted /\ hit' = hit \ Asker
          /\ UNCHANGED <<permissions, stage, scope, review, held, stored, answered, chosen, setter>>
      BY <1>13 DEF Cancelled
    <2>2. ReviewInv'
      BY <2>1 DEF ReviewInv, ReviewTypeOK, permissions, Sound, Fits
    <2>. QED BY <2>1, <2>2, FinishKeeps DEF Interrupted
  <1>14. CASE Settings
    <2>1. ASSUME NEW c \in BOOLEAN, NEW m \in BOOLEAN, NEW o \in BOOLEAN, Set(c, m, o)
          PROVE  IInv'
      <3>1. /\ consent' = c /\ manual' = m /\ optin' = o
            /\ UNCHANGED <<stage, hit, scope, review, held, stored, answered, chosen>>
            /\ UNCHANGED <<turnVars, setter>>
        BY <2>1 DEF Set
      <3>. QED BY <1>1, <3>1, SwitchKeeps
    <2>2. ASSUME NEW m \in BOOLEAN, NEW o \in BOOLEAN, Revoke(m, o) PROVE IInv'
      <3>1. /\ consent' = FALSE /\ manual' = m /\ optin' = o /\ setter' = [IdleSetter EXCEPT !.stage = "imports"]
            /\ UNCHANGED <<stage, hit, scope, review, held, stored, answered, chosen, turnVars>>
        BY <2>2 DEF Revoke
      <3>2. TurnInv'
        BY <3>1 DEF turnVars, TurnInv, TurnTypeOK
      <3>3. setter' \in Setter
        BY <3>1 DEF Setter, IdleSetter
      <3>. QED BY <3>1, <3>2, <3>3, SwitchKeeps
    <2>3. ASSUME NEW m \in BOOLEAN, OptOut(m) PROVE IInv'
      <3>1. permissions' \in BOOLEAN \X BOOLEAN \X BOOLEAN
        BY <2>3 DEF OptOut, permissions
      <3>2. setter' \in Setter
        BY <2>3 DEF OptOut, Setter, Live
      <3>. QED BY <1>7, <2>3, <3>1, <3>2 DEF OptOut
    <2>4. CASE CloseService
      <3>1. setter' \in Setter
        BY <2>4 DEF CloseService, Setter, Live
      <3>. QED BY <1>7, <1>8, <2>4, <3>1 DEF CloseService
    <2>5. CASE SettingsReturn
      <3>1. TurnInv'
        BY <2>5 DEF SettingsReturn, turnVars, TurnInv, TurnTypeOK
      <3>2. setter' \in Setter
        BY <2>5 DEF SettingsReturn, Setter, IdleSetter
      <3>. QED BY <1>2, <2>5, <3>1, <3>2 DEF SettingsReturn
    <2>. QED BY <1>14, <2>1, <2>2, <2>3, <2>4, <2>5 DEF Settings
  <1>15. CASE UNCHANGED vars
    BY <1>1, <1>2, <1>15 DEF vars
  <1>. QED BY <1>3, <1>4, <1>5, <1>6, <1>9, <1>10, <1>11, <1>12, <1>13, <1>14, <1>15 DEF Next

LEMMA Invariance == Spec => []IInv
  <1>. QED BY InitInv, StepInv, PTL DEF Spec

-----------------------------------------------------------------------------
(* What follows from it                                                    *)

\* The three parts of a run's memory, the two broker tables and the settings keep
\* their types (source_review.py, approvals.py, codex_approvals.py).
THEOREM ReviewsTypeCorrect == Spec => []TypeOK
  <1>1. IInv => TypeOK
    BY DEF IInv, ReviewInv, TurnInv, TypeOK
  <1>. QED BY <1>1, Invariance, PTL

\* What is allowed was selected, where there is something to select.
LEMMA AllowedIsChosen ==
  ASSUME IInv, NEW r \in Runs, NEW u \in Urls, Allowed(scope[r], u)
  PROVE  /\ scope[r].considered # {} \/ manual => u \in chosen[r]
         /\ u \in scope[r].private \ scope[r].context => optin
  <1>1. Sound(r, scope[r])
    BY InvFacts DEF IInv
  <1>. QED BY <1>1 DEF Allowed, Active, Sound

\* Evidence is stored by checkpoint and by the publication of a run, and by nothing
\* else.
LEMMA StoredStep ==
  ASSUME IInv, [Next]_vars, NEW r \in Runs, NEW u \in stored'[r] \ stored[r]
  PROVE  u \in Urls /\ Allowed(scope[r], u)
  <1>1. stored \in [Runs -> SUBSET Urls]
    BY DEF IInv, ReviewInv, ReviewTypeOK
  <1>2. stored' # stored
    OBVIOUS
  <1>3. ASSUME NEW q \in Runs, NEW U \in SUBSET Urls, Checkpoint(q, U)
        PROVE  u \in Urls /\ Allowed(scope[r], u)
    <2>1. stored' = [stored EXCEPT ![q] = @ \cup U] /\ \A x \in U : Allowed(scope[q], x)
      BY <1>3 DEF Checkpoint
    <2>. QED BY <1>1, <2>1
  <1>4. ASSUME NEW q \in Runs, Publish(q)
        PROVE  u \in Urls /\ Allowed(scope[r], u)
    <2>1. stored' = [stored EXCEPT ![q] = @ \cup {x \in held[q] : Allowed(scope[q], x)}]
      BY <1>4 DEF Publish
    <2>2. held[q] \subseteq Urls
      BY InvFacts DEF IInv
    <2>. QED BY <1>1, <2>1, <2>2
  <1>5. ASSUME NEW q \in Runs, RunStep(q)
        PROVE  u \in Urls /\ Allowed(scope[r], u)
    BY <1>2, <1>3, <1>4, <1>5 DEF RunStep, Begin, Stop, Select, Take
  <1>6. ASSUME NEW q \in Runs, BrokerStep(q) PROVE FALSE
    BY <1>2, <1>6 DEF BrokerStep, Answer, DeadlinePasses, Reviewed
  <1>7. ASSUME NEW q \in Runs, Ask(q) \/ Closed(q) \/ Cancel(q) PROVE FALSE
    BY <1>2, <1>7 DEF Ask, Closed, Cancel, CancelAll
  <1>8. ASSUME TurnStep \/ Outside \/ DecideAccess \/ Cancelled PROVE FALSE
    BY <1>2, <1>8 DEF TurnStep, Outside, DecideAccess, Cancelled, reviewVars
  <1>9. ASSUME Settings PROVE FALSE
    BY <1>2, <1>9 DEF Settings, Set, Revoke, OptOut, CloseService, SettingsReturn, CancelAll,
       reviewVars
  <1>10. ASSUME UNCHANGED vars PROVE FALSE
    BY <1>2, <1>10 DEF vars, reviewVars
  <1>. QED BY <1>5, <1>6, <1>7, <1>8, <1>9, <1>10 DEF Next

\* A run that has put sources to its user, or that stores under manual review, stores
\* only what was selected, and private data only while the opt-in is given, in
\* whichever order settings, selections, deadlines and checkpoints come
\* (source_review.py, research.py).
THEOREM StoresOnlyReviewed == Spec => StoredReviewed
  <1>. DEFINE Keeps(r) == \A u \in stored'[r] \ stored[r] :
                 /\ scope[r].considered # {} \/ manual => u \in chosen[r]
                 /\ u \in scope[r].private \ scope[r].context => optin
  <1>1. IInv /\ [Next]_vars => [\A r \in Runs : Keeps(r)]_vars
    BY StoredStep, AllowedIsChosen
  <1>. QED BY <1>1, Invariance, PTL DEF Spec, StoredReviewed

\* Where a run stands at a review, only its resumption moves it.
LEMMA LeavesReview ==
  ASSUME IInv, [Next]_vars, NEW r \in Runs, stage[r] = "review", stage'[r] # "review"
  PROVE  Reviewed(r)
  <1>1. stage \in [Runs -> {"none", "open", "review", "model", "ended"}] /\ stage' # stage
    BY DEF IInv, ReviewInv, ReviewTypeOK
  <1>2. ASSUME NEW q \in Runs, RunStep(q) PROVE FALSE
    <2>1. stage[q] # "review" /\ \A p \in Runs : p # q => stage'[p] = stage[p]
      BY <1>1, <1>2 DEF RunStep, Begin, Stop, Publish, Select, Take, Checkpoint, End, GoOn, Running
    <2>. QED BY <2>1
  <1>3. ASSUME NEW q \in Runs, Ask(q) \/ Closed(q) PROVE FALSE
    <2>1. stage[q] # "review" /\ \A p \in Runs : p # q => stage'[p] = stage[p]
      BY <1>1, <1>3 DEF Ask, Running, Closed, End, Asker
    <2>. QED BY <2>1
  <1>4. ASSUME NEW q \in Runs, BrokerStep(q) PROVE Reviewed(r)
    <2>1. CASE Reviewed(q)
      <3>1. \A p \in Runs : p # q => stage'[p] = stage[p]
        BY <1>1, <2>1 DEF Reviewed, End
      <3>. QED BY <2>1, <3>1
    <2>. QED BY <1>1, <1>4, <2>1 DEF BrokerStep, Answer, DeadlinePasses
  <1>5. ASSUME NEW q \in Runs, Cancel(q) PROVE FALSE
    BY <1>1, <1>5 DEF Cancel, CancelAll
  <1>6. ASSUME TurnStep \/ Outside \/ DecideAccess \/ Cancelled PROVE FALSE
    BY <1>1, <1>6 DEF TurnStep, Outside, DecideAccess, Cancelled, reviewVars
  <1>7. ASSUME Settings PROVE FALSE
    BY <1>1, <1>7 DEF Settings, Set, Revoke, OptOut, CloseService, SettingsReturn, CancelAll,
       reviewVars
  <1>8. ASSUME UNCHANGED vars PROVE FALSE
    BY <1>1, <1>8 DEF vars, reviewVars
  <1>. QED BY <1>2, <1>3, <1>4, <1>5, <1>6, <1>7, <1>8 DEF Next

\* An answer the broker accepted decides how the run goes on; the deadline, a withdrawn
\* review and an answer nobody gave never do (source_review.py).
THEOREM AnswersDecide == Spec => AnswersCount
  <1>. DEFINE Counts(r) ==
         stage[r] = "review" /\ stage'[r] # "review" =>
              IF stage'[r] = "open"
              THEN /\ review[r].future = "decided" /\ consent
                   /\ \A u \in Urls :
                         scope'[r].accepted[u] # scope[r].accepted[u] => u \in review[r].choice
                   /\ \A u \in review[r].choice :
                         \/ scope'[r].accepted[u] # "none"
                         \/ Rule(scope[r], u) # review[r].asked[u]
              ELSE review[r].future = "decided" =>
                       review[r].cancel \/ r \in hit \/ ~ consent
  <1>1. ASSUME IInv, [Next]_vars, NEW r \in Runs PROVE Counts(r)
    <2>. SUFFICES ASSUME stage[r] = "review", stage'[r] # "review" PROVE Counts(r)
      OBVIOUS
    <2>1. Reviewed(r)
      BY <1>1, LeavesReview
    <2>2. /\ scope \in [Runs -> Scope] /\ Fits(r, review[r]) /\ Sound(r, Accepting(r))
          /\ stage \in [Runs -> {"none", "open", "review", "model", "ended"}]
      BY <1>1, InvFacts, AcceptingSound DEF IInv, ReviewInv, ReviewTypeOK
    <2>3. CASE /\ \/ r \in hit \/ review[r].late
                  \/ review[r].future = "decided" /\ (review[r].cancel \/ ~ consent)
               /\ End(r)
      <3>1. stage'[r] = "ended"
        BY <2>2, <2>3 DEF End
      <3>2. review[r].late => review[r].future # "decided"
        BY <2>2 DEF Fits
      <3>. QED BY <2>3, <3>1, <3>2
    <2>4. CASE /\ r \notin hit /\ ~ review[r].late /\ consent
               /\ review[r].future = "decided" /\ ~ review[r].cancel
               /\ stage' = [stage EXCEPT ![r] = "open"]
               /\ GoOn(r, Latch(Accepting(r)))
      <3>1. stage'[r] = "open"
        BY <2>2, <2>4
      <3>2. scope'[r] = Latch(Accepting(r))
        BY <2>2, <2>4 DEF GoOn
      <3>3. Accepting(r) \in Scope
        BY <2>2 DEF Sound
      <3>4. scope'[r].accepted = Accepting(r).accepted
        BY <3>2, <3>3 DEF Latch, Scope
      <3>5. scope[r] \in Scope /\ review[r] \in Review
        BY <2>2 DEF Fits
      <3>. DEFINE f == [u \in Urls |->
                          IF u \in review[r].choice /\ Rule(scope[r], u) = review[r].asked[u]
                          THEN review[r].asked[u] ELSE scope[r].accepted[u]]
      <3>6. Accepting(r) = [scope[r] EXCEPT !.accepted = f]
        BY DEF Accepting
      <3>7. \A u \in Urls :
               f[u] = IF u \in review[r].choice /\ Rule(scope[r], u) = review[r].asked[u]
                      THEN review[r].asked[u] ELSE scope[r].accepted[u]
        OBVIOUS
      <3>. HIDE DEF f
      <3>8. scope'[r].accepted = f
        BY <3>4, <3>5, <3>6 DEF Scope
      <3>9. review[r].choice \subseteq Urls /\ \A u \in review[r].choice : review[r].asked[u] # "none"
        BY <2>2, <3>5 DEF Fits, Review
      <3>10. \A u \in Urls : scope'[r].accepted[u] # scope[r].accepted[u] => u \in review[r].choice
        BY <3>7, <3>8
      <3>11. \A u \in review[r].choice :
                scope'[r].accepted[u] # "none" \/ Rule(scope[r], u) # review[r].asked[u]
        BY <3>7, <3>8, <3>9
      <3>. QED BY <2>4, <3>1, <3>10, <3>11
    <2>. QED BY <2>1, <2>3, <2>4 DEF Reviewed
  <1>2. IInv /\ [Next]_vars => [\A r \in Runs : Counts(r)]_vars
    BY <1>1
  <1>. QED BY <1>2, Invariance, PTL DEF Spec, AnswersCount

\* A turn that ends with an answer has had every request and every declared activity
\* denied by the user in time (codex_approvals.py, approvals.py).
THEOREM AnswersAreDenials == Spec => DeniedOnly
  <1>. DEFINE Denied == turn.stage = "active" /\ turn'.end = "answered" =>
                 \A i \in Items : item[i] # "none" \/ i \in requested => i \in denied
  <1>1. ASSUME IInv, [Next]_vars PROVE Denied
    <2>. SUFFICES ASSUME turn.stage = "active", turn'.end = "answered" PROVE Denied
      OBVIOUS
    <2>1. /\ turn \in Turn /\ turn.end = "none" /\ item \in [Items -> ItemStates]
          /\ \A i \in requested : i \in denied
          /\ \A i \in Items : item[i] \in {"denied", "started", "completed"} => i \in requested
          /\ \A i \in Grants : item[i] # "pending"
      BY <1>1 DEF IInv, TurnInv, TurnTypeOK
    <2>2. turn' # turn
      BY <2>1
    <2>3. ASSUME NEW end \in {"failed", "cancelled"}, Finish(end) PROVE FALSE
      BY <2>1, <2>3 DEF Finish, Turn
    <2>4. ASSUME Complete PROVE Denied
      <3>1. \A i \in Tools : item[i] \in {"none", "completed"}
        BY <2>4 DEF Complete
      <3>. QED BY <2>1, <3>1 DEF Items, ItemStates
    <2>5. ASSUME TurnStep PROVE Complete
      <3>1. ASSUME NEW i \in Items, Request(i) PROVE FALSE
        BY <2>1, <3>1 DEF Request, Turn
      <3>. QED BY <2>2, <2>3, <2>5, <3>1 DEF TurnStep, Declare, Report, Break, Reply, Lost
    <2>6. ASSUME Cancelled PROVE FALSE
      BY <2>3, <2>6 DEF Cancelled, Interrupted
    <2>7. ASSUME NEW r \in Runs, Ask(r) \/ Closed(r) PROVE FALSE
      BY <2>7 DEF Ask, OpenTurn, NoTurn, Closed, CloseTurn
    <2>8. ASSUME NEW r \in Runs, RunStep(r) \/ BrokerStep(r) PROVE FALSE
      BY <2>2, <2>8 DEF RunStep, BrokerStep, Alone, turnVars
    <2>9. ASSUME NEW r \in Runs, Cancel(r) PROVE FALSE
      BY <2>2, <2>9 DEF Cancel, CancelAll
    <2>10. ASSUME Outside \/ DecideAccess PROVE FALSE
      BY <2>2, <2>10 DEF Outside, DecideAccess, AccessExpires, Disconnect, Decide
    <2>11. ASSUME Settings PROVE FALSE
      BY <2>2, <2>11 DEF Settings, Set, Revoke, OptOut, CloseService, SettingsReturn, CancelAll,
         turnVars
    <2>12. ASSUME UNCHANGED vars PROVE FALSE
      BY <2>2, <2>12 DEF vars, turnVars
    <2>. QED BY <1>1, <2>4, <2>5, <2>6, <2>7, <2>8, <2>9, <2>10, <2>11, <2>12 DEF Next
  <1>2. IInv /\ [Next]_vars => [Denied]_vars
    BY <1>1
  <1>. QED BY <1>2, Invariance, PTL DEF Spec, DeniedOnly

-----------------------------------------------------------------------------
(* Who waits for whom: questions, turns and the settings request           *)

\* Every question belongs to a run that stands at it, every turn to the one run that
\* has it, and both are bounded.
AwaitInv ==
    /\ \A r \in Runs : review[r].future # "none" <=> stage[r] = "review"
    /\ IsFiniteSet(Pending) /\ Cardinality(Pending) <= PendingLimit
    /\ IsFiniteSet(requested) /\ Cardinality(requested) <= AskLimit
    /\ turn # NoTurn <=> Asker # {}
    /\ \A q, r \in Asker : q = r

\* While a settings request that withdrew consent is on its way, every run that is
\* left is one it awaits; none is left when it has returned.
QuietInv ==
    /\ setter.stage = "imports" => ~ consent
    /\ ~ consent => \/ setter.stage = "imports"
                    \/ setter.stage = "closing" /\ Live \subseteq setter.awaited
                    \/ setter = IdleSetter /\ Live = {}

\* What a step of a run, or of the broker for it, may do to the run.
Moves(r) ==
    /\ \A q \in Runs \ {r} : stage'[q] = stage[q] /\ review'[q].future = review[q].future
    /\ consent' = consent /\ setter' = setter
    /\ stage[r] = "none" /\ stage'[r] # "none" => consent
    /\ stage[r] = "ended" => stage'[r] = "ended"

\* A step that moves no run and answers no question.
Stands ==
    /\ stage' = stage /\ Pending' = Pending
    /\ \A r \in Runs : review'[r].future # "none" <=> review[r].future # "none"

LEMMA RunMoves ==
  ASSUME IInv, IsFiniteSet(Pending), NEW r \in Runs, RunStep(r)
  PROVE  /\ Moves(r) /\ UNCHANGED turnVars
         /\ stage[r] \in {"none", "open"} /\ stage'[r] \in {"open", "ended", "review"}
         /\ \/ stage'[r] # "review" /\ review' = review
            \/ /\ stage'[r] = "review" /\ review'[r].future # "none"
               /\ Cardinality(Pending) < PendingLimit
  <1>1. /\ stage \in [Runs -> {"none", "open", "review", "model", "ended"}]
        /\ review \in [Runs -> Review]
    BY DEF IInv, ReviewInv, ReviewTypeOK
  <1>2. UNCHANGED <<turnVars, setter>>
    BY DEF RunStep, Alone
  <1>3. CASE Begin(r) \/ Stop(r) \/ Publish(r)
    BY <1>1, <1>2, <1>3 DEF Begin, Stop, Publish, GoOn, End, Running, permissions, Moves
  <1>4. ASSUME NEW u \in Urls, Take(r, u) PROVE stage' = stage /\ review' = review
                /\ consent' = consent /\ stage[r] = "open"
    BY <1>4 DEF Take, GoOn, permissions, Running
  <1>5. ASSUME NEW U \in SUBSET Urls, Checkpoint(r, U)
        PROVE  stage' = stage /\ review' = review /\ consent' = consent /\ stage[r] = "open"
    BY <1>5 DEF Checkpoint, GoOn, permissions, Running
  <1>6. ASSUME NEW U \in SUBSET Urls, NEW purpose \in Purposes, Select(r, U, purpose)
        PROVE  /\ Moves(r) /\ UNCHANGED turnVars
               /\ stage[r] \in {"none", "open"} /\ stage'[r] \in {"open", "ended", "review"}
               /\ \/ stage'[r] # "review" /\ review' = review
                  \/ /\ stage'[r] = "review" /\ review'[r].future # "none"
                     /\ Cardinality(Pending) < PendingLimit
    <2>. DEFINE V == Filtered(U, purpose)
                noted == Noted(scope[r], V, purpose)
                asked == Asked(noted, V, purpose)
                v == [NoReview EXCEPT !.future = "open", !.asked = asked]
    <2>1. stage[r] = "open" /\ consent
      BY <1>6 DEF Select, Running
    <2>. HIDE DEF V, noted, asked
    <2>2. CASE GoOn(r, Considered(noted, V)) /\ UNCHANGED <<stage, review, held>>
      BY <1>1, <1>2, <2>1, <2>2 DEF GoOn, permissions, Moves
    <2>3. ASSUME NEW others \in 0..PendingLimit, Cardinality(Pending) + others < PendingLimit,
                 GoOn(r, Considered(noted, V)), stage' = [stage EXCEPT ![r] = "review"],
                 review' = [review EXCEPT ![r] = v]
          PROVE  /\ Moves(r) /\ stage'[r] = "review" /\ review'[r].future # "none"
                 /\ Cardinality(Pending) < PendingLimit
      <3>1. v.future = "open"
        BY DEF NoReview
      <3>. HIDE DEF v
      <3>2. Cardinality(Pending) < PendingLimit
        BY <2>3, FS_CardinalityType, ReviewAssumption
      <3>. QED BY <1>1, <1>2, <2>1, <2>3, <3>1, <3>2 DEF GoOn, permissions, Moves
    <2>4. CASE End(r) /\ UNCHANGED review
      BY <1>1, <1>2, <2>1, <2>4 DEF End, permissions, Moves
    <2>. QED BY <1>2, <1>6, <2>1, <2>2, <2>3, <2>4 DEF Select, V, noted, asked
  <1>. QED BY <1>1, <1>2, <1>3, <1>4, <1>5, <1>6 DEF RunStep, Moves

LEMMA BrokerMoves ==
  ASSUME IInv, NEW r \in Runs, BrokerStep(r)
  PROVE  /\ Moves(r) /\ UNCHANGED turnVars
         /\ \/ stage' = stage /\ (review'[r].future # "none" <=> review[r].future # "none")
            \/ /\ stage[r] = "review" /\ stage'[r] \in {"open", "ended"}
               /\ review'[r].future = "none"
  <1>1. /\ stage \in [Runs -> {"none", "open", "review", "model", "ended"}]
        /\ review \in [Runs -> Review]
    BY DEF IInv, ReviewInv, ReviewTypeOK
  <1>2. UNCHANGED <<turnVars, setter>>
    BY DEF BrokerStep, Alone
  <1>3. ASSUME NEW U \in SUBSET Urls, NEW cancel \in BOOLEAN, Answer(r, U, cancel)
        PROVE  Moves(r) /\ stage' = stage /\ review[r].future # "none" /\ review'[r].future # "none"
    <2>. DEFINE v == [review[r] EXCEPT !.future = "decided", !.choice = U, !.cancel = cancel]
    <2>1. review' = [review EXCEPT ![r] = v] /\ review[r].future = "open"
          /\ UNCHANGED <<permissions, stage>>
      BY <1>3 DEF Answer
    <2>2. v.future = "decided"
      BY <1>1 DEF Review
    <2>. HIDE DEF v
    <2>. QED BY <1>1, <1>2, <2>1, <2>2 DEF Moves, permissions
  <1>4. CASE DeadlinePasses(r)
    <2>. DEFINE v == [review[r] EXCEPT !.late = TRUE]
    <2>1. review' = [review EXCEPT ![r] = v] /\ review[r].future = "open"
          /\ UNCHANGED <<permissions, stage>>
      BY <1>4 DEF DeadlinePasses
    <2>2. v.future = "open"
      BY <1>1, <2>1 DEF Review
    <2>. HIDE DEF v
    <2>. QED BY <1>1, <1>2, <2>1, <2>2 DEF Moves, permissions
  <1>5. CASE Reviewed(r)
    <2>1. NoReview.future = "none"
      BY DEF NoReview
    <2>2. stage[r] = "review" /\ review' = [review EXCEPT ![r] = NoReview]
      BY <1>5 DEF Reviewed
    <2>3. consent' = consent /\ (stage' = [stage EXCEPT ![r] = "ended"]
                                 \/ stage' = [stage EXCEPT ![r] = "open"])
      BY <1>5 DEF Reviewed, End, GoOn, permissions
    <2>. QED BY <1>1, <1>2, <2>1, <2>2, <2>3 DEF Moves
  <1>. QED BY <1>2, <1>3, <1>4, <1>5 DEF BrokerStep

LEMMA TurnMoves ==
  ASSUME IInv, NEW r \in Runs, Ask(r) \/ Closed(r)
  PROVE  /\ Moves(r) /\ UNCHANGED <<review, requested>>
         /\ \/ Ask(r) /\ turn = NoTurn /\ turn' # NoTurn /\ stage[r] = "open" /\ stage'[r] = "model"
            \/ Closed(r) /\ turn # NoTurn /\ turn' = NoTurn /\ stage[r] = "model"
               /\ stage'[r] \in {"open", "ended"}
  <1>1. stage \in [Runs -> {"none", "open", "review", "model", "ended"}]
    BY DEF IInv, ReviewInv, ReviewTypeOK
  <1>2. CASE Ask(r)
    BY <1>1, <1>2 DEF Ask, OpenTurn, NoTurn, Running, permissions, Moves
  <1>3. CASE Closed(r)
    BY <1>1, <1>3 DEF Closed, CloseTurn, NoTurn, Asker, End, permissions, Moves
  <1>. QED BY <1>2, <1>3

\* The agent's steps leave the runs alone and keep the turn open; they only empty the
\* set of requests or add one below the limit.
LEMMA TurnStepMoves ==
  ASSUME IInv, TurnStep \/ Outside \/ DecideAccess \/ Cancelled
  PROVE  /\ stage' = stage /\ review' = review /\ consent' = consent /\ setter' = setter
         /\ turn = NoTurn <=> turn' = NoTurn
         /\ \/ requested' \in {requested, {}}
            \/ \E i \in Items : requested' = requested \cup {i} /\ Cardinality(requested) < AskLimit
                                /\ i \notin requested
  <1>1. turn \in Turn
    BY DEF IInv, TurnInv, TurnTypeOK
  <1>2. stage' = stage /\ review' = review /\ consent' = consent /\ setter' = setter
    BY DEF TurnStep, Outside, DecideAccess, Cancelled, reviewVars, permissions
  <1>3. ASSUME NEW end, Finish(end) PROVE turn' # NoTurn /\ requested' = {}
    BY <1>1, <1>3 DEF Finish, NoTurn, Turn
  <1>4. ASSUME NEW i \in Items, Declare(i) \/ Report(i)
        PROVE  turn' = turn /\ requested' = requested
    BY <1>4 DEF Declare, Report
  <1>5. ASSUME NEW i \in Items, Request(i)
        PROVE  /\ turn.stage = "active" /\ turn'.stage = "asking"
               /\ requested' = requested \cup {i} /\ Cardinality(requested) < AskLimit
               /\ i \notin requested
    BY <1>1, <1>5 DEF Request, Listening, Turn
  <1>6. CASE Complete \/ Break \/ Lost \/ Cancelled
    <2>1. turn.stage # "none"
      BY <1>6 DEF Complete, Break, Lost, Cancelled, Interrupted, Listening
    <2>. QED BY <1>2, <1>3, <1>6, <2>1 DEF Complete, Break, Lost, Cancelled, Interrupted, NoTurn
  <1>7. CASE Reply
    <2>1. turn.stage = "asking"
      BY <1>7 DEF Reply
    <2>2. CASE ~ access.late /\ access.decision = "deny"
      <3>1. turn' = [turn EXCEPT !.stage = "active"] /\ requested' = requested
        BY <1>7, <2>2 DEF Reply
      <3>2. turn'.stage = "active"
        BY <1>1, <3>1 DEF Turn
      <3>. QED BY <1>2, <2>1, <3>1, <3>2 DEF NoTurn
    <2>3. CASE ~ (~ access.late /\ access.decision = "deny")
      <3>1. \E end : Finish(end)
        BY <1>7, <2>3 DEF Reply
      <3>. QED BY <1>2, <1>3, <2>1, <3>1 DEF NoTurn
    <2>. QED BY <2>2, <2>3
  <1>8. CASE Outside \/ DecideAccess
    <2>1. turn' = turn /\ requested' = requested
      BY <1>8 DEF Outside, DecideAccess, AccessExpires, Disconnect, Decide
    <2>. QED BY <1>2, <2>1
  <1>. QED BY <1>2, <1>4, <1>5, <1>6, <1>7, <1>8 DEF TurnStep, NoTurn

\* Cancel and the settings withdraw questions; they do not remove them.
LEMMA SettingsStand ==
  ASSUME IInv, Settings \/ \E r \in Runs : Cancel(r)
  PROVE  Stands /\ UNCHANGED <<turn, requested>>
  <1>1. /\ stage \in [Runs -> {"none", "open", "review", "model", "ended"}]
        /\ review \in [Runs -> Review]
    BY DEF IInv, ReviewInv, ReviewTypeOK
  <1>2. ASSUME NEW S \in SUBSET Runs, CancelAll(S) PROVE Stands /\ UNCHANGED <<turn, requested>>
    <2>1. review' = Withdrawn(S) /\ UNCHANGED <<stage, turn, requested>>
      BY <1>2 DEF CancelAll
    <2>2. ASSUME NEW r \in Runs PROVE review'[r].future # "none" <=> review[r].future # "none"
      <3>1. CASE review'[r] = review[r]
        BY <3>1
      <3>2. CASE review[r].future = "open" /\ review'[r] = [review[r] EXCEPT !.future = "cancelled"]
        BY <1>1, <3>2 DEF Review
      <3>. QED BY <2>1, <3>1, <3>2 DEF Withdrawn
    <2>. QED BY <2>1, <2>2 DEF Stands, Pending
  <1>3. ASSUME UNCHANGED <<stage, review, turn, requested>>
        PROVE  Stands /\ UNCHANGED <<turn, requested>>
    BY <1>3 DEF Stands, Pending
  <1>. QED BY <1>2, <1>3 DEF Settings, Cancel, Set, Revoke, CloseService, OptOut, SettingsReturn,
          reviewVars, turnVars

LEMMA InitAwait == Init => AwaitInv /\ QuietInv
  <1>. SUFFICES ASSUME Init PROVE AwaitInv /\ QuietInv
    OBVIOUS
  <1>1. Pending = {} /\ Asker = {} /\ requested = {} /\ turn = NoTurn /\ Live = {}
    BY DEF Init, ReviewInit, TurnInit, Pending, Asker, Live, NoReview
  <1>2. \A r \in Runs : review[r].future = "none" /\ stage[r] = "none"
    BY DEF Init, ReviewInit, NoReview
  <1>. QED BY <1>1, <1>2, FS_EmptySet, ReviewAssumption, TurnAssumption
          DEF AwaitInv, QuietInv, Init, ReviewInit, IdleSetter

\* A question that is asked is one more, below the limit; none is asked otherwise.
LEMMA PendingKeeps ==
  ASSUME AwaitInv, NEW r \in Runs, Moves(r),
         \/ review'[r].future # "none" => review[r].future # "none"
         \/ Cardinality(Pending) < PendingLimit
  PROVE  IsFiniteSet(Pending)' /\ (Cardinality(Pending) <= PendingLimit)'
  <1>. USE ReviewAssumption
  <1>1. /\ IsFiniteSet(Pending) /\ Cardinality(Pending) \in Nat
        /\ Cardinality(Pending) <= PendingLimit
    BY FS_CardinalityType DEF AwaitInv
  <1>2. CASE review'[r].future # "none" => review[r].future # "none"
    <2>1. Pending' \subseteq Pending
      BY <1>2 DEF Pending, Moves
    <2>2. IsFiniteSet(Pending') /\ Cardinality(Pending') <= Cardinality(Pending)
          /\ Cardinality(Pending') \in Nat
      BY <1>1, <2>1, FS_Subset, FS_CardinalityType
    <2>. QED BY <1>1, <2>2
  <1>3. CASE Cardinality(Pending) < PendingLimit
    <2>1. Pending' \subseteq Pending \cup {r}
      BY DEF Pending, Moves
    <2>. DEFINE n == Cardinality(Pending)
                m == Cardinality(Pending \cup {r})
    <2>2. IsFiniteSet(Pending \cup {r}) /\ (m = n \/ m = n + 1)
      BY <1>1, FS_AddElement
    <2>3. /\ IsFiniteSet(Pending') /\ Cardinality(Pending') <= Cardinality(Pending \cup {r})
          /\ Cardinality(Pending') \in Nat /\ Cardinality(Pending \cup {r}) \in Nat
      BY <2>1, <2>2, FS_Subset, FS_CardinalityType
    <2>. QED BY <1>1, <1>3, <2>2, <2>3
  <1>. QED BY <1>2, <1>3

LEMMA StepAwait == IInv /\ AwaitInv /\ [Next]_vars => AwaitInv'
  <1>. SUFFICES ASSUME IInv, AwaitInv, [Next]_vars PROVE AwaitInv'
    OBVIOUS
  <1>. USE ReviewAssumption, TurnAssumption
  <1>1. ASSUME NEW r \in Runs, RunStep(r) PROVE AwaitInv'
    <2>1. /\ Moves(r) /\ UNCHANGED turnVars
          /\ stage[r] \in {"none", "open"} /\ stage'[r] \in {"open", "ended", "review"}
          /\ \/ stage'[r] # "review" /\ review' = review
             \/ /\ stage'[r] = "review" /\ review'[r].future # "none"
                /\ Cardinality(Pending) < PendingLimit
      BY <1>1, RunMoves DEF AwaitInv
    <2>2. IsFiniteSet(Pending)' /\ (Cardinality(Pending) <= PendingLimit)'
      BY <2>1, PendingKeeps
    <2>3. Asker' = Asker
      BY <2>1 DEF Asker, Moves
    <2>4. \A q \in Runs : review'[q].future # "none" <=> stage'[q] = "review"
      BY <2>1 DEF AwaitInv, Moves
    <2>. QED BY <2>1, <2>2, <2>3, <2>4 DEF AwaitInv, turnVars
  <1>2. ASSUME NEW r \in Runs, BrokerStep(r) PROVE AwaitInv'
    <2>1. /\ Moves(r) /\ UNCHANGED turnVars
          /\ \/ stage' = stage /\ (review'[r].future # "none" <=> review[r].future # "none")
             \/ /\ stage[r] = "review" /\ stage'[r] \in {"open", "ended"}
                /\ review'[r].future = "none"
      BY <1>2, BrokerMoves
    <2>2. IsFiniteSet(Pending)' /\ (Cardinality(Pending) <= PendingLimit)'
      BY <2>1, PendingKeeps
    <2>3. Asker' = Asker
      BY <2>1 DEF Asker, Moves
    <2>4. \A q \in Runs : review'[q].future # "none" <=> stage'[q] = "review"
      BY <2>1 DEF AwaitInv, Moves
    <2>. QED BY <2>1, <2>2, <2>3, <2>4 DEF AwaitInv, turnVars
  <1>3. ASSUME NEW r \in Runs, Ask(r) \/ Closed(r) PROVE AwaitInv'
    <2>1. /\ Moves(r) /\ UNCHANGED <<review, requested>>
          /\ \/ turn = NoTurn /\ turn' # NoTurn /\ stage[r] = "open" /\ stage'[r] = "model"
             \/ /\ turn # NoTurn /\ turn' = NoTurn /\ stage[r] = "model"
                /\ stage'[r] \in {"open", "ended"}
      BY <1>3, TurnMoves
    <2>2. IsFiniteSet(Pending)' /\ (Cardinality(Pending) <= PendingLimit)'
      BY <2>1, PendingKeeps
    <2>3. \A q \in Runs : review'[q].future # "none" <=> stage'[q] = "review"
      BY <2>1 DEF AwaitInv, Moves
    <2>4. CASE turn = NoTurn /\ turn' # NoTurn /\ stage'[r] = "model"
      <3>1. Asker' = {r}
        BY <2>1, <2>4 DEF Asker, Moves, AwaitInv
      <3>. QED BY <2>1, <2>2, <2>3, <2>4, <3>1 DEF AwaitInv
    <2>5. CASE turn' = NoTurn /\ stage[r] = "model" /\ stage'[r] \in {"open", "ended"}
      <3>1. Asker' = {}
        BY <2>1, <2>5 DEF Asker, Moves, AwaitInv
      <3>. QED BY <2>1, <2>2, <2>3, <2>5, <3>1 DEF AwaitInv
    <2>. QED BY <2>1, <2>4, <2>5
  <1>4. CASE TurnStep \/ Outside \/ DecideAccess \/ Cancelled
    <2>1. /\ stage' = stage /\ review' = review
          /\ turn = NoTurn <=> turn' = NoTurn
          /\ \/ requested' \in {requested, {}}
             \/ \E i \in Items : /\ requested' = requested \cup {i} /\ i \notin requested
                                 /\ Cardinality(requested) < AskLimit
      BY <1>4, TurnStepMoves
    <2>2. IsFiniteSet(requested)' /\ (Cardinality(requested) <= AskLimit)'
      <3>1. CASE requested' = requested
        BY <3>1 DEF AwaitInv
      <3>2. CASE requested' = {}
        BY <3>2, FS_EmptySet
      <3>3. ASSUME NEW i, requested' = requested \cup {i}, i \notin requested,
                   Cardinality(requested) < AskLimit
            PROVE  IsFiniteSet(requested)' /\ (Cardinality(requested) <= AskLimit)'
        <4>1. IsFiniteSet(requested) /\ Cardinality(requested) \in Nat
          BY FS_CardinalityType DEF AwaitInv
        <4>2. /\ IsFiniteSet(requested \cup {i})
              /\ Cardinality(requested \cup {i}) = Cardinality(requested) + 1
          BY <3>3, <4>1, FS_AddElement
        <4>. QED BY <3>3, <4>1, <4>2
      <3>. QED BY <2>1, <3>1, <3>2, <3>3
    <2>. QED BY <2>1, <2>2 DEF AwaitInv, Pending, Asker
  <1>5. CASE Settings \/ \E r \in Runs : Cancel(r)
    <2>1. Stands /\ UNCHANGED <<turn, requested>>
      BY <1>5, SettingsStand
    <2>. QED BY <2>1 DEF AwaitInv, Stands, Asker
  <1>6. CASE UNCHANGED vars
    BY <1>6 DEF vars, reviewVars, turnVars, AwaitInv, Pending, Asker
  <1>. QED BY <1>1, <1>2, <1>3, <1>4, <1>5, <1>6 DEF Next

LEMMA StepQuiet == IInv /\ AwaitInv /\ QuietInv /\ [Next]_vars => QuietInv'
  <1>. SUFFICES ASSUME IInv, AwaitInv, QuietInv, [Next]_vars PROVE QuietInv'
    OBVIOUS
  <1>1. ASSUME consent' = consent, setter' = setter, ~ consent => Live' \subseteq Live
        PROVE  QuietInv'
    BY <1>1 DEF QuietInv
  <1>2. ASSUME NEW r \in Runs, Moves(r) PROVE QuietInv'
    <2>1. ~ consent => Live' \subseteq Live
      BY <1>2 DEF Moves, Live
    <2>. QED BY <1>1, <1>2, <2>1 DEF Moves
  <1>3. ASSUME NEW r \in Runs, RunStep(r) \/ Ask(r) \/ BrokerStep(r) \/ Closed(r) PROVE QuietInv'
    BY <1>2, <1>3, RunMoves, BrokerMoves, TurnMoves DEF AwaitInv
  <1>4. CASE TurnStep \/ Outside \/ DecideAccess \/ Cancelled
    BY <1>1, <1>4, TurnStepMoves DEF Live
  <1>5. CASE Settings \/ \E r \in Runs : Cancel(r)
    <2>1. Live' = Live
      BY <1>5, SettingsStand DEF Stands, Live
    <2>2. ASSUME NEW r \in Runs, Cancel(r) PROVE QuietInv'
      BY <1>1, <2>1, <2>2 DEF Cancel, permissions
    <2>3. ASSUME NEW c \in BOOLEAN, NEW m \in BOOLEAN, NEW o \in BOOLEAN, Set(c, m, o)
          PROVE  QuietInv'
      BY <2>3 DEF Set, QuietInv, IdleSetter
    <2>4. ASSUME NEW m \in BOOLEAN, NEW o \in BOOLEAN, Revoke(m, o) PROVE QuietInv'
      BY <2>4 DEF Revoke, QuietInv, IdleSetter
    <2>5. ASSUME NEW m \in BOOLEAN, OptOut(m) PROVE QuietInv'
      BY <2>5 DEF OptOut, QuietInv
    <2>6. CASE CloseService
      BY <2>1, <2>6 DEF CloseService, QuietInv, permissions
    <2>7. CASE SettingsReturn
      <3>1. /\ setter.stage = "closing" /\ setter.awaited \cap Live = {}
            /\ setter' = IdleSetter /\ consent' = consent
        BY <2>7 DEF SettingsReturn, reviewVars, permissions
      <3>. QED BY <2>1, <3>1 DEF QuietInv, IdleSetter
    <2>. QED BY <1>5, <2>2, <2>3, <2>4, <2>5, <2>6, <2>7 DEF Settings
  <1>6. CASE UNCHANGED vars
    BY <1>1, <1>6 DEF vars, reviewVars, permissions, Live
  <1>. QED BY <1>3, <1>4, <1>5, <1>6 DEF Next

LEMMA AwaitInvariance == Spec => [](IInv /\ AwaitInv /\ QuietInv)
  <1>. QED BY InitInv, StepInv, InitAwait, StepAwait, StepQuiet, PTL DEF Spec

\* Every pending question has a run that stands at it and every open turn one that has
\* it; questions stay below the queue's limit and requests below that of a turn, for
\* any number of runs (source_review.py, approvals.py, codex_approvals.py).
THEOREM QuestionsAreAwaited == Spec => []QuestionsAwaited
  <1>1. AwaitInv => QuestionsAwaited
    BY DEF AwaitInv, QuestionsAwaited
  <1>. QED BY <1>1, AwaitInvariance, PTL

\* When the request that withdrew consent has returned, no run, question or process
\* is left, whichever of them was winding down when it closed the service (api.py,
\* research.py).
THEOREM RevocationIsQuiet == Spec => []QuietAfterRevocation
  <1>1. IInv /\ AwaitInv /\ QuietInv => QuietAfterRevocation
    <2>. SUFFICES ASSUME IInv, AwaitInv, QuietInv, ~ consent, setter = IdleSetter
                  PROVE  Live = {} /\ Pending = {} /\ turn = NoTurn /\ access = NoAccess
      BY DEF QuietAfterRevocation
    <2>1. Live = {}
      BY DEF QuietInv, IdleSetter
    <2>2. Pending = {} /\ Asker = {}
      BY <2>1 DEF AwaitInv, Pending, Live, Asker
    <2>3. turn = NoTurn
      BY <2>2 DEF AwaitInv
    <2>4. access = NoAccess
      BY <2>3 DEF IInv, TurnInv, NoTurn
    <2>. QED BY <2>1, <2>2, <2>3, <2>4
  <1>. QED BY <1>1, AwaitInvariance, PTL
=============================================================================
