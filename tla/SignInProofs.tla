---------------------------- MODULE SignInProofs ----------------------------
(***************************************************************************)
(* Proofs about SignIn, for any number of handlers and research jobs.      *)
(*                                                                         *)
(* The lock is what carries the argument.  A handler is between taking and *)
(* leaving it exactly while it holds it (LockInv), a process is opened     *)
(* only under it and when no monitor is alive (OpenInv), and a monitor is  *)
(* handed its process while its creator still holds it, so that nobody can *)
(* mark it before its first step (CreatedInv).                             *)
(***************************************************************************)
EXTENDS SignIn, FiniteSetTheorems, TLAPS

Inside == {"opening", "entering", "closing", "aborting", "joining"}

LockInv == \A h \in Handlers : at[h] \in Inside <=> lock = h

OwnInv ==
    /\ \A s \in procs : Owners(s)
    /\ \A s, t \in procs : s = t

OpenInv ==
    \A s \in Starts :
        /\ at[s] \in {"opening", "closing"} => ~ Alive
        /\ at[s] = "opening" => s \in procs
        /\ at[s] = "aborting" => down \notin {"up", "leaving"}

CreatedInv ==
    monitor.stage = "created" =>
        /\ monitor.rpc \in Starts /\ at[monitor.rpc] = "entering"
        /\ ~ hit

HitInv == hit => Alive

QuitInv == down \in {"up", "leaving"} => at[Quit] = "idle"

IInv ==
    /\ TypeOK /\ LockInv /\ OwnInv /\ OpenInv /\ CreatedInv /\ PendingWatched
    /\ HitInv /\ QuitInv

-----------------------------------------------------------------------------
(* Every action keeps the invariant: one lemma per action, one step per    *)
(* part of it.                                                             *)

LEMMA StartLoginKeeps ==
  ASSUME IInv, NEW s \in Starts, StartLogin(s) PROVE IInv'
  <1>. USE SignInAssumption DEF IInv
  <1>1. TypeOK'
    BY DEF StartLogin, TypeOK, At, Statuses, Handlers, Cancellers, Alive, Monitor,
       Move, Release
  <1>2. LockInv'
    BY DEF StartLogin, LockInv, Inside, TypeOK, Handlers, Cancellers, Alive,
       Monitor, Move, Release
  <1>3. OwnInv'
    BY DEF StartLogin, OwnInv, Owners, OpenInv, LockInv, Inside, TypeOK, Handlers,
       Cancellers, Alive, Monitor, Move, Release
  <1>4. OpenInv'
    BY DEF StartLogin, OpenInv, OwnInv, Owners, LockInv, Inside, TypeOK, Handlers,
       Cancellers, Alive, Monitor, Move, Release
  <1>5. CreatedInv'
    BY DEF StartLogin, CreatedInv, LockInv, Inside, OpenInv, TypeOK, Handlers,
       Cancellers, Alive, Monitor, Move, Release
  <1>6. PendingWatched'
    BY DEF StartLogin, PendingWatched, OpenInv, CreatedInv, LockInv, Inside, TypeOK,
       Handlers, Cancellers, Alive, Monitor, Move, Release
  <1>7. HitInv'
    BY DEF StartLogin, HitInv, TypeOK, Handlers, Cancellers, Alive, Monitor, Move,
       Release
  <1>8. QuitInv'
    BY DEF StartLogin, QuitInv, TypeOK, Handlers, Cancellers, Alive, Monitor, Move,
       Release
  <1>. QED BY <1>1, <1>2, <1>3, <1>4, <1>5, <1>6, <1>7, <1>8 DEF IInv

LEMMA LockStartKeeps ==
  ASSUME IInv, NEW s \in Starts, LockStart(s) PROVE IInv'
  <1>. USE SignInAssumption DEF IInv
  <1>1. TypeOK'
    BY DEF LockStart, TypeOK, At, Statuses, Handlers, Cancellers, Alive, Monitor,
       Move, Release
  <1>2. LockInv'
    BY DEF LockStart, LockInv, Inside, TypeOK, Handlers, Cancellers, Alive, Monitor,
       Move, Release
  <1>3. OwnInv'
    BY DEF LockStart, OwnInv, Owners, OpenInv, LockInv, Inside, TypeOK, Handlers,
       Cancellers, Alive, Monitor, Move, Release
  <1>4. OpenInv'
    BY DEF LockStart, OpenInv, OwnInv, Owners, LockInv, Inside, TypeOK, Handlers,
       Cancellers, Alive, Monitor, Move, Release
  <1>5. CreatedInv'
    BY DEF LockStart, CreatedInv, LockInv, Inside, OpenInv, TypeOK, Handlers,
       Cancellers, Alive, Monitor, Move, Release
  <1>6. PendingWatched'
    BY DEF LockStart, PendingWatched, OpenInv, CreatedInv, LockInv, Inside, TypeOK,
       Handlers, Cancellers, Alive, Monitor, Move, Release
  <1>7. HitInv'
    BY DEF LockStart, HitInv, TypeOK, Handlers, Cancellers, Alive, Monitor, Move,
       Release
  <1>8. QuitInv'
    BY DEF LockStart, QuitInv, TypeOK, Handlers, Cancellers, Alive, Monitor, Move,
       Release
  <1>. QED BY <1>1, <1>2, <1>3, <1>4, <1>5, <1>6, <1>7, <1>8 DEF IInv

LEMMA OpeningEndsKeeps ==
  ASSUME IInv, NEW s \in Starts, OpeningEnds(s) PROVE IInv'
  <1>. USE SignInAssumption DEF IInv
  <1>1. TypeOK'
    BY DEF OpeningEnds, TypeOK, At, Statuses, Handlers, Cancellers, Alive, Monitor,
       Move, Release
  <1>2. LockInv'
    BY DEF OpeningEnds, LockInv, Inside, TypeOK, Handlers, Cancellers, Alive,
       Monitor, Move, Release
  <1>3. OwnInv'
    BY DEF OpeningEnds, OwnInv, Owners, OpenInv, LockInv, Inside, TypeOK, Handlers,
       Cancellers, Alive, Monitor, Move, Release
  <1>4. OpenInv'
    BY DEF OpeningEnds, OpenInv, OwnInv, Owners, LockInv, Inside, TypeOK, Handlers,
       Cancellers, Alive, Monitor, Move, Release
  <1>5. CreatedInv'
    BY DEF OpeningEnds, CreatedInv, LockInv, Inside, OpenInv, TypeOK, Handlers,
       Cancellers, Alive, Monitor, Move, Release
  <1>6. PendingWatched'
    BY DEF OpeningEnds, PendingWatched, OpenInv, CreatedInv, LockInv, Inside,
       TypeOK, Handlers, Cancellers, Alive, Monitor, Move, Release
  <1>7. HitInv'
    BY DEF OpeningEnds, HitInv, TypeOK, Handlers, Cancellers, Alive, Monitor, Move,
       Release
  <1>8. QuitInv'
    BY DEF OpeningEnds, QuitInv, TypeOK, Handlers, Cancellers, Alive, Monitor, Move,
       Release
  <1>. QED BY <1>1, <1>2, <1>3, <1>4, <1>5, <1>6, <1>7, <1>8 DEF IInv

LEMMA IssuedKeeps ==
  ASSUME IInv, NEW s \in Starts, Issued(s) PROVE IInv'
  <1>. USE SignInAssumption DEF IInv
  <1>1. TypeOK'
    BY DEF Issued, TypeOK, At, Statuses, Handlers, Cancellers, Alive, Monitor, Move,
       Release
  <1>2. LockInv'
    BY DEF Issued, LockInv, Inside, TypeOK, Handlers, Cancellers, Alive, Monitor,
       Move, Release
  <1>3. OwnInv'
    BY DEF Issued, OwnInv, Owners, OpenInv, LockInv, Inside, TypeOK, Handlers,
       Cancellers, Alive, Monitor, Move, Release
  <1>4. OpenInv'
    BY DEF Issued, OpenInv, OwnInv, Owners, LockInv, Inside, TypeOK, Handlers,
       Cancellers, Alive, Monitor, Move, Release
  <1>5. CreatedInv'
    BY DEF Issued, HitInv, CreatedInv, LockInv, Inside, OpenInv, TypeOK, Handlers,
       Cancellers, Alive, Monitor, Move, Release
  <1>6. PendingWatched'
    BY DEF Issued, PendingWatched, OpenInv, CreatedInv, LockInv, Inside, TypeOK,
       Handlers, Cancellers, Alive, Monitor, Move, Release
  <1>7. HitInv'
    BY DEF Issued, HitInv, TypeOK, Handlers, Cancellers, Alive, Monitor, Move,
       Release
  <1>8. QuitInv'
    BY DEF Issued, QuitInv, TypeOK, Handlers, Cancellers, Alive, Monitor, Move,
       Release
  <1>. QED BY <1>1, <1>2, <1>3, <1>4, <1>5, <1>6, <1>7, <1>8 DEF IInv

LEMMA StartReturnsKeeps ==
  ASSUME IInv, NEW s \in Starts, StartReturns(s) PROVE IInv'
  <1>. USE SignInAssumption DEF IInv
  <1>1. TypeOK'
    BY DEF StartReturns, TypeOK, At, Statuses, Handlers, Cancellers, Alive, Monitor,
       Move, Release
  <1>2. LockInv'
    BY DEF StartReturns, LockInv, Inside, TypeOK, Handlers, Cancellers, Alive,
       Monitor, Move, Release
  <1>3. OwnInv'
    BY DEF StartReturns, OwnInv, Owners, OpenInv, LockInv, Inside, TypeOK, Handlers,
       Cancellers, Alive, Monitor, Move, Release
  <1>4. OpenInv'
    BY DEF StartReturns, OpenInv, OwnInv, Owners, LockInv, Inside, TypeOK, Handlers,
       Cancellers, Alive, Monitor, Move, Release
  <1>5. CreatedInv'
    BY DEF StartReturns, CreatedInv, LockInv, Inside, OpenInv, TypeOK, Handlers,
       Cancellers, Alive, Monitor, Move, Release
  <1>6. PendingWatched'
    BY DEF StartReturns, PendingWatched, OpenInv, CreatedInv, LockInv, Inside,
       TypeOK, Handlers, Cancellers, Alive, Monitor, Move, Release
  <1>7. HitInv'
    BY DEF StartReturns, HitInv, TypeOK, Handlers, Cancellers, Alive, Monitor, Move,
       Release
  <1>8. QuitInv'
    BY DEF StartReturns, QuitInv, TypeOK, Handlers, Cancellers, Alive, Monitor,
       Move, Release
  <1>. QED BY <1>1, <1>2, <1>3, <1>4, <1>5, <1>6, <1>7, <1>8 DEF IInv

LEMMA StartEndsKeeps ==
  ASSUME IInv, NEW s \in Starts, StartEnds(s) PROVE IInv'
  <1>. USE SignInAssumption DEF IInv
  <1>1. TypeOK'
    BY DEF StartEnds, TypeOK, At, Statuses, Handlers, Cancellers, Alive, Monitor,
       Move, Release
  <1>2. LockInv'
    BY DEF StartEnds, LockInv, Inside, TypeOK, Handlers, Cancellers, Alive, Monitor,
       Move, Release
  <1>3. OwnInv'
    BY DEF StartEnds, OwnInv, Owners, OpenInv, LockInv, Inside, TypeOK, Handlers,
       Cancellers, Alive, Monitor, Move, Release
  <1>4. OpenInv'
    BY DEF StartEnds, OpenInv, OwnInv, Owners, LockInv, Inside, TypeOK, Handlers,
       Cancellers, Alive, Monitor, Move, Release
  <1>5. CreatedInv'
    BY DEF StartEnds, CreatedInv, LockInv, Inside, OpenInv, TypeOK, Handlers,
       Cancellers, Alive, Monitor, Move, Release
  <1>6. PendingWatched'
    BY DEF StartEnds, PendingWatched, OpenInv, CreatedInv, LockInv, Inside, TypeOK,
       Handlers, Cancellers, Alive, Monitor, Move, Release
  <1>7. HitInv'
    BY DEF StartEnds, HitInv, TypeOK, Handlers, Cancellers, Alive, Monitor, Move,
       Release
  <1>8. QuitInv'
    BY DEF StartEnds, QuitInv, TypeOK, Handlers, Cancellers, Alive, Monitor, Move,
       Release
  <1>. QED BY <1>1, <1>2, <1>3, <1>4, <1>5, <1>6, <1>7, <1>8 DEF IInv

LEMMA FirstStepKeeps ==
  ASSUME IInv, FirstStep PROVE IInv'
  <1>. USE SignInAssumption DEF IInv
  <1>1. TypeOK'
    BY DEF FirstStep, TypeOK, At, Statuses, Handlers, Cancellers, Alive, Monitor,
       Move, Release
  <1>2. LockInv'
    BY DEF FirstStep, LockInv, Inside, TypeOK, Handlers, Cancellers, Alive, Monitor,
       Move, Release
  <1>3. OwnInv'
    BY DEF FirstStep, CreatedInv, OwnInv, Owners, OpenInv, LockInv, Inside, TypeOK,
       Handlers, Cancellers, Alive, Monitor, Move, Release
  <1>4. OpenInv'
    BY DEF FirstStep, OpenInv, OwnInv, Owners, LockInv, Inside, TypeOK, Handlers,
       Cancellers, Alive, Monitor, Move, Release
  <1>5. CreatedInv'
    BY DEF FirstStep, CreatedInv, LockInv, Inside, OpenInv, TypeOK, Handlers,
       Cancellers, Alive, Monitor, Move, Release
  <1>6. PendingWatched'
    BY DEF FirstStep, PendingWatched, OpenInv, CreatedInv, LockInv, Inside, TypeOK,
       Handlers, Cancellers, Alive, Monitor, Move, Release
  <1>7. HitInv'
    BY DEF FirstStep, HitInv, TypeOK, Handlers, Cancellers, Alive, Monitor, Move,
       Release
  <1>8. QuitInv'
    BY DEF FirstStep, QuitInv, TypeOK, Handlers, Cancellers, Alive, Monitor, Move,
       Release
  <1>. QED BY <1>1, <1>2, <1>3, <1>4, <1>5, <1>6, <1>7, <1>8 DEF IInv

LEMMA WatchedKeeps ==
  ASSUME IInv, Watched PROVE IInv'
  <1>. USE SignInAssumption DEF IInv
  <1>1. TypeOK'
    BY DEF Watched, TypeOK, At, Statuses, Handlers, Cancellers, Alive, Monitor,
       Move, Release
  <1>2. LockInv'
    BY DEF Watched, LockInv, Inside, TypeOK, Handlers, Cancellers, Alive, Monitor,
       Move, Release
  <1>3. OwnInv'
    BY DEF Watched, OwnInv, Owners, OpenInv, LockInv, Inside, TypeOK, Handlers,
       Cancellers, Alive, Monitor, Move, Release
  <1>4. OpenInv'
    BY DEF Watched, OpenInv, OwnInv, Owners, LockInv, Inside, TypeOK, Handlers,
       Cancellers, Alive, Monitor, Move, Release
  <1>5. CreatedInv'
    BY DEF Watched, CreatedInv, LockInv, Inside, OpenInv, TypeOK, Handlers,
       Cancellers, Alive, Monitor, Move, Release
  <1>6. PendingWatched'
    BY DEF Watched, PendingWatched, OpenInv, CreatedInv, LockInv, Inside, TypeOK,
       Handlers, Cancellers, Alive, Monitor, Move, Release
  <1>7. HitInv'
    BY DEF Watched, HitInv, TypeOK, Handlers, Cancellers, Alive, Monitor, Move,
       Release
  <1>8. QuitInv'
    BY DEF Watched, QuitInv, TypeOK, Handlers, Cancellers, Alive, Monitor, Move,
       Release
  <1>. QED BY <1>1, <1>2, <1>3, <1>4, <1>5, <1>6, <1>7, <1>8 DEF IInv

LEMMA ExpireKeeps ==
  ASSUME IInv, Expire PROVE IInv'
  <1>. USE SignInAssumption DEF IInv
  <1>1. TypeOK'
    BY DEF Expire, TypeOK, At, Statuses, Handlers, Cancellers, Alive, Monitor, Move,
       Release
  <1>2. LockInv'
    BY DEF Expire, LockInv, Inside, TypeOK, Handlers, Cancellers, Alive, Monitor,
       Move, Release
  <1>3. OwnInv'
    BY DEF Expire, OwnInv, Owners, OpenInv, LockInv, Inside, TypeOK, Handlers,
       Cancellers, Alive, Monitor, Move, Release
  <1>4. OpenInv'
    BY DEF Expire, OpenInv, OwnInv, Owners, LockInv, Inside, TypeOK, Handlers,
       Cancellers, Alive, Monitor, Move, Release
  <1>5. CreatedInv'
    BY DEF Expire, CreatedInv, LockInv, Inside, OpenInv, TypeOK, Handlers,
       Cancellers, Alive, Monitor, Move, Release
  <1>6. PendingWatched'
    BY DEF Expire, PendingWatched, OpenInv, CreatedInv, LockInv, Inside, TypeOK,
       Handlers, Cancellers, Alive, Monitor, Move, Release
  <1>7. HitInv'
    BY DEF Expire, HitInv, TypeOK, Handlers, Cancellers, Alive, Monitor, Move,
       Release
  <1>8. QuitInv'
    BY DEF Expire, QuitInv, TypeOK, Handlers, Cancellers, Alive, Monitor, Move,
       Release
  <1>. QED BY <1>1, <1>2, <1>3, <1>4, <1>5, <1>6, <1>7, <1>8 DEF IInv

LEMMA CancelArrivesKeeps ==
  ASSUME IInv, CancelArrives PROVE IInv'
  <1>. USE SignInAssumption DEF IInv
  <1>1. TypeOK'
    BY DEF CancelArrives, TypeOK, At, Statuses, Handlers, Cancellers, Alive,
       Monitor, Move, Release
  <1>2. LockInv'
    BY DEF CancelArrives, LockInv, Inside, TypeOK, Handlers, Cancellers, Alive,
       Monitor, Move, Release
  <1>3. OwnInv'
    BY DEF CancelArrives, OwnInv, Owners, OpenInv, LockInv, Inside, TypeOK,
       Handlers, Cancellers, Alive, Monitor, Move, Release
  <1>4. OpenInv'
    BY DEF CancelArrives, OpenInv, OwnInv, Owners, LockInv, Inside, TypeOK,
       Handlers, Cancellers, Alive, Monitor, Move, Release
  <1>5. CreatedInv'
    BY DEF CancelArrives, CreatedInv, LockInv, Inside, OpenInv, TypeOK, Handlers,
       Cancellers, Alive, Monitor, Move, Release
  <1>6. PendingWatched'
    BY DEF CancelArrives, PendingWatched, OpenInv, CreatedInv, LockInv, Inside,
       TypeOK, Handlers, Cancellers, Alive, Monitor, Move, Release
  <1>7. HitInv'
    BY DEF CancelArrives, HitInv, TypeOK, Handlers, Cancellers, Alive, Monitor,
       Move, Release
  <1>8. QuitInv'
    BY DEF CancelArrives, QuitInv, TypeOK, Handlers, Cancellers, Alive, Monitor,
       Move, Release
  <1>. QED BY <1>1, <1>2, <1>3, <1>4, <1>5, <1>6, <1>7, <1>8 DEF IInv

LEMMA WithdrawnKeeps ==
  ASSUME IInv, Withdrawn PROVE IInv'
  <1>. USE SignInAssumption DEF IInv
  <1>1. TypeOK'
    BY DEF Withdrawn, TypeOK, At, Statuses, Handlers, Cancellers, Alive, Monitor,
       Move, Release
  <1>2. LockInv'
    BY DEF Withdrawn, LockInv, Inside, TypeOK, Handlers, Cancellers, Alive, Monitor,
       Move, Release
  <1>3. OwnInv'
    BY DEF Withdrawn, OwnInv, Owners, OpenInv, LockInv, Inside, TypeOK, Handlers,
       Cancellers, Alive, Monitor, Move, Release
  <1>4. OpenInv'
    BY DEF Withdrawn, OpenInv, OwnInv, Owners, LockInv, Inside, TypeOK, Handlers,
       Cancellers, Alive, Monitor, Move, Release
  <1>5. CreatedInv'
    BY DEF Withdrawn, CreatedInv, LockInv, Inside, OpenInv, TypeOK, Handlers,
       Cancellers, Alive, Monitor, Move, Release
  <1>6. PendingWatched'
    BY DEF Withdrawn, PendingWatched, OpenInv, CreatedInv, LockInv, Inside, TypeOK,
       Handlers, Cancellers, Alive, Monitor, Move, Release
  <1>7. HitInv'
    BY DEF Withdrawn, HitInv, TypeOK, Handlers, Cancellers, Alive, Monitor, Move,
       Release
  <1>8. QuitInv'
    BY DEF Withdrawn, QuitInv, TypeOK, Handlers, Cancellers, Alive, Monitor, Move,
       Release
  <1>. QED BY <1>1, <1>2, <1>3, <1>4, <1>5, <1>6, <1>7, <1>8 DEF IInv

LEMMA ClosedKeeps ==
  ASSUME IInv, Closed PROVE IInv'
  <1>. USE SignInAssumption DEF IInv
  <1>1. TypeOK'
    <2>1. monitor \in Monitor /\ procs \in SUBSET Starts
      BY DEF TypeOK
    <2>2. PICK end \in {IF hit THEN "cancelled" ELSE monitor.outcome, "raised"} :
            monitor' = [monitor EXCEPT !.stage = "done", !.outcome = end]
      BY DEF Closed
    <2>3. monitor' \in Monitor
      BY <2>1, <2>2 DEF Monitor
    <2>. QED BY <2>1, <2>3 DEF Closed, TypeOK
  <1>2. LockInv'
    BY DEF Closed, LockInv, Inside, TypeOK, Handlers, Cancellers, Alive, Monitor,
       Move, Release
  <1>3. OwnInv'
    BY DEF Closed, OwnInv, Owners, OpenInv, LockInv, Inside, TypeOK, Handlers,
       Cancellers, Alive, Monitor, Move, Release
  <1>4. OpenInv'
    BY DEF Closed, OpenInv, OwnInv, Owners, LockInv, Inside, TypeOK, Handlers,
       Cancellers, Alive, Monitor, Move, Release
  <1>5. CreatedInv'
    BY DEF Closed, CreatedInv, LockInv, Inside, OpenInv, TypeOK, Handlers,
       Cancellers, Alive, Monitor, Move, Release
  <1>6. PendingWatched'
    BY DEF Closed, PendingWatched, OpenInv, CreatedInv, LockInv, Inside, TypeOK,
       Handlers, Cancellers, Alive, Monitor, Move, Release
  <1>7. HitInv'
    BY DEF Closed, HitInv, TypeOK, Handlers, Cancellers, Alive, Monitor, Move,
       Release
  <1>8. QuitInv'
    BY DEF Closed, QuitInv, TypeOK, Handlers, Cancellers, Alive, Monitor, Move,
       Release
  <1>. QED BY <1>1, <1>2, <1>3, <1>4, <1>5, <1>6, <1>7, <1>8 DEF IInv

LEMMA CancelLoginKeeps ==
  ASSUME IInv, NEW c \in Cancels, CancelLogin(c) PROVE IInv'
  <1>. USE SignInAssumption DEF IInv
  <1>1. TypeOK'
    BY DEF CancelLogin, TypeOK, At, Statuses, Handlers, Cancellers, Alive, Monitor,
       Move, Release, After
  <1>2. LockInv'
    BY DEF CancelLogin, LockInv, Inside, TypeOK, Handlers, Cancellers, Alive,
       Monitor, Move, Release, After
  <1>3. OwnInv'
    BY DEF CancelLogin, OwnInv, Owners, OpenInv, LockInv, Inside, TypeOK, Handlers,
       Cancellers, Alive, Monitor, Move, Release, After
  <1>4. OpenInv'
    BY DEF CancelLogin, OpenInv, OwnInv, Owners, LockInv, Inside, TypeOK, Handlers,
       Cancellers, Alive, Monitor, Move, Release, After
  <1>5. CreatedInv'
    BY DEF CancelLogin, CreatedInv, LockInv, Inside, OpenInv, TypeOK, Handlers,
       Cancellers, Alive, Monitor, Move, Release, After
  <1>6. PendingWatched'
    BY DEF CancelLogin, PendingWatched, OpenInv, CreatedInv, LockInv, Inside,
       TypeOK, Handlers, Cancellers, Alive, Monitor, Move, Release, After
  <1>7. HitInv'
    BY DEF CancelLogin, HitInv, TypeOK, Handlers, Cancellers, Alive, Monitor, Move,
       Release, After
  <1>8. QuitInv'
    BY DEF CancelLogin, QuitInv, TypeOK, Handlers, Cancellers, Alive, Monitor, Move,
       Release, After
  <1>. QED BY <1>1, <1>2, <1>3, <1>4, <1>5, <1>6, <1>7, <1>8 DEF IInv

LEMMA LockCancelKeeps ==
  ASSUME IInv, NEW c \in Cancellers, LockCancel(c) PROVE IInv'
  <1>. USE SignInAssumption DEF IInv
  <1>1. TypeOK'
    <2>1. at' \in [Handlers -> At] /\ lock' \in Handlers \cup {None}
      BY DEF LockCancel, TypeOK, At, Handlers, Cancellers, Move
    <2>2. down' \in {"up", "leaving", "login", "stopped", "aborted"}
      BY DEF LockCancel, TypeOK, After
    <2>3. hit' \in BOOLEAN
      BY DEF LockCancel, TypeOK
    <2>. QED BY <2>1, <2>2, <2>3 DEF LockCancel, TypeOK
  <1>2. LockInv'
    BY DEF LockCancel, LockInv, Inside, TypeOK, Handlers, Cancellers, Alive,
       Monitor, Move, Release, After
  <1>3. OwnInv'
    BY DEF LockCancel, OwnInv, Owners, OpenInv, LockInv, Inside, TypeOK, Handlers,
       Cancellers, Alive, Monitor, Move, Release, After
  <1>4. OpenInv'
    BY DEF LockCancel, OpenInv, OwnInv, Owners, LockInv, Inside, TypeOK, Handlers,
       Cancellers, Alive, Monitor, Move, Release, After
  <1>5. CreatedInv'
    BY DEF LockCancel, CreatedInv, LockInv, Inside, OpenInv, TypeOK, Handlers,
       Cancellers, Alive, Monitor, Move, Release, After
  <1>6. PendingWatched'
    BY DEF LockCancel, PendingWatched, OpenInv, CreatedInv, LockInv, Inside, TypeOK,
       Handlers, Cancellers, Alive, Monitor, Move, Release, After
  <1>7. HitInv'
    BY DEF LockCancel, HitInv, TypeOK, Handlers, Cancellers, Alive, Monitor, Move,
       Release, After
  <1>8. QuitInv'
    BY DEF LockCancel, QuitInv, TypeOK, Handlers, Cancellers, Alive, Monitor, Move,
       Release, After
  <1>. QED BY <1>1, <1>2, <1>3, <1>4, <1>5, <1>6, <1>7, <1>8 DEF IInv

LEMMA JoinedKeeps ==
  ASSUME IInv, NEW c \in Cancellers, Joined(c) PROVE IInv'
  <1>. USE SignInAssumption DEF IInv
  <1>1. TypeOK'
    BY DEF Joined, TypeOK, At, Statuses, Handlers, Cancellers, Alive, Monitor, Move,
       Release, After
  <1>2. LockInv'
    BY DEF Joined, LockInv, Inside, TypeOK, Handlers, Cancellers, Alive, Monitor,
       Move, Release, After
  <1>3. OwnInv'
    BY DEF Joined, OwnInv, Owners, OpenInv, LockInv, Inside, TypeOK, Handlers,
       Cancellers, Alive, Monitor, Move, Release, After
  <1>4. OpenInv'
    BY DEF Joined, OpenInv, OwnInv, Owners, LockInv, Inside, TypeOK, Handlers,
       Cancellers, Alive, Monitor, Move, Release, After
  <1>5. CreatedInv'
    BY DEF Joined, CreatedInv, LockInv, Inside, OpenInv, TypeOK, Handlers,
       Cancellers, Alive, Monitor, Move, Release, After
  <1>6. PendingWatched'
    BY DEF Joined, PendingWatched, OpenInv, CreatedInv, LockInv, Inside, TypeOK,
       Handlers, Cancellers, Alive, Monitor, Move, Release, After
  <1>7. HitInv'
    BY DEF Joined, HitInv, TypeOK, Handlers, Cancellers, Alive, Monitor, Move,
       Release, After
  <1>8. QuitInv'
    BY DEF Joined, QuitInv, TypeOK, Handlers, Cancellers, Alive, Monitor, Move,
       Release, After
  <1>. QED BY <1>1, <1>2, <1>3, <1>4, <1>5, <1>6, <1>7, <1>8 DEF IInv

LEMMA LeaveKeeps ==
  ASSUME IInv, Leave PROVE IInv'
  <1>. USE SignInAssumption DEF IInv
  <1>1. TypeOK'
    BY DEF Leave, TypeOK, At, Statuses, Handlers, Cancellers, Alive, Monitor, Move,
       Release
  <1>2. LockInv'
    BY DEF Leave, LockInv, Inside, TypeOK, Handlers, Cancellers, Alive, Monitor,
       Move, Release
  <1>3. OwnInv'
    BY DEF Leave, OwnInv, Owners, OpenInv, LockInv, Inside, TypeOK, Handlers,
       Cancellers, Alive, Monitor, Move, Release
  <1>4. OpenInv'
    BY DEF Leave, OpenInv, OwnInv, Owners, LockInv, Inside, TypeOK, Handlers,
       Cancellers, Alive, Monitor, Move, Release
  <1>5. CreatedInv'
    BY DEF Leave, CreatedInv, LockInv, Inside, OpenInv, TypeOK, Handlers,
       Cancellers, Alive, Monitor, Move, Release
  <1>6. PendingWatched'
    BY DEF Leave, PendingWatched, OpenInv, CreatedInv, LockInv, Inside, TypeOK,
       Handlers, Cancellers, Alive, Monitor, Move, Release
  <1>7. HitInv'
    BY DEF Leave, HitInv, TypeOK, Handlers, Cancellers, Alive, Monitor, Move,
       Release
  <1>8. QuitInv'
    BY DEF Leave, QuitInv, TypeOK, Handlers, Cancellers, Alive, Monitor, Move,
       Release
  <1>. QED BY <1>1, <1>2, <1>3, <1>4, <1>5, <1>6, <1>7, <1>8 DEF IInv

LEMMA ShutdownKeeps ==
  ASSUME IInv, Shutdown PROVE IInv'
  <1>. USE SignInAssumption DEF IInv
  <1>1. TypeOK'
    BY DEF Shutdown, TypeOK, At, Statuses, Handlers, Cancellers, Alive, Monitor,
       Move, Release
  <1>2. LockInv'
    BY DEF Shutdown, QuitInv, LockInv, Inside, TypeOK, Handlers, Cancellers, Alive,
       Monitor, Move, Release
  <1>3. OwnInv'
    BY DEF Shutdown, OwnInv, Owners, OpenInv, LockInv, Inside, TypeOK, Handlers,
       Cancellers, Alive, Monitor, Move, Release
  <1>4. OpenInv'
    BY DEF Shutdown, OpenInv, OwnInv, Owners, LockInv, Inside, TypeOK, Handlers,
       Cancellers, Alive, Monitor, Move, Release
  <1>5. CreatedInv'
    BY DEF Shutdown, CreatedInv, LockInv, Inside, OpenInv, TypeOK, Handlers,
       Cancellers, Alive, Monitor, Move, Release
  <1>6. PendingWatched'
    BY DEF Shutdown, PendingWatched, OpenInv, CreatedInv, LockInv, Inside, TypeOK,
       Handlers, Cancellers, Alive, Monitor, Move, Release
  <1>7. HitInv'
    BY DEF Shutdown, HitInv, TypeOK, Handlers, Cancellers, Alive, Monitor, Move,
       Release
  <1>8. QuitInv'
    BY DEF Shutdown, QuitInv, TypeOK, Handlers, Cancellers, Alive, Monitor, Move,
       Release
  <1>. QED BY <1>1, <1>2, <1>3, <1>4, <1>5, <1>6, <1>7, <1>8 DEF IInv

LEMMA ResearchKeeps ==
  ASSUME IInv, NEW j \in Jobs, Research(j) \/ LookedUp(j) \/ JobEnds(j) PROVE IInv'
  <1>1. UNCHANGED <<status, lock, at, procs, monitor, hit, down>>
    BY DEF Research, LookedUp, JobEnds
  <1>2. TypeOK'
    BY <1>1 DEF IInv, TypeOK, Research, LookedUp, JobEnds
  <1>. QED BY <1>1, <1>2 DEF IInv, LockInv, OwnInv, Owners, OpenInv, CreatedInv,
                           PendingWatched, HitInv, QuitInv, Alive

-----------------------------------------------------------------------------

LEMMA InitKeeps == Init => IInv
  <1>. SUFFICES ASSUME Init PROVE IInv
    OBVIOUS
  <1>. USE SignInAssumption DEF Init
  <1>1. monitor \in Monitor /\ ~ Alive
    BY DEF NoMonitor, Monitor, Alive
  <1>2. TypeOK
    BY <1>1 DEF TypeOK, At, Statuses
  <1>3. LockInv
    BY DEF LockInv, Handlers, Cancellers, Inside
  <1>4. OpenInv /\ QuitInv
    BY DEF OpenInv, QuitInv, Handlers
  <1>5. OwnInv /\ PendingWatched /\ HitInv /\ CreatedInv
    BY DEF OwnInv, PendingWatched, HitInv, CreatedInv, NoMonitor
  <1>. QED BY <1>2, <1>3, <1>4, <1>5 DEF IInv

LEMMA StepKeeps == IInv /\ [Next]_vars => IInv'
  <1>. SUFFICES ASSUME IInv, [Next]_vars PROVE IInv'
    OBVIOUS
  <1>1. ASSUME NEW s \in Starts, StartLogin(s) \/ StartStep(s) PROVE IInv'
    BY <1>1, StartLoginKeeps, LockStartKeeps, OpeningEndsKeeps, IssuedKeeps,
       StartReturnsKeeps, StartEndsKeeps DEF StartStep
  <1>2. ASSUME NEW c \in Cancels, CancelLogin(c) PROVE IInv'
    BY <1>2, CancelLoginKeeps
  <1>3. ASSUME NEW c \in Cancellers, CancelStep(c) PROVE IInv'
    BY <1>3, LockCancelKeeps, JoinedKeeps DEF CancelStep
  <1>4. CASE MonitorStep
    BY <1>4, FirstStepKeeps, WatchedKeeps, ExpireKeeps, CancelArrivesKeeps,
       WithdrawnKeeps, ClosedKeeps DEF MonitorStep
  <1>5. CASE Leave \/ Shutdown
    BY <1>5, LeaveKeeps, ShutdownKeeps
  <1>6. ASSUME NEW j \in Jobs, Research(j) \/ LookedUp(j) \/ JobEnds(j) PROVE IInv'
    BY <1>6, ResearchKeeps
  <1>7. CASE UNCHANGED vars
    BY <1>7 DEF vars, IInv, TypeOK, LockInv, OwnInv, Owners, OpenInv, CreatedInv,
       PendingWatched, HitInv, QuitInv, Alive
  <1>. QED BY <1>1, <1>2, <1>3, <1>4, <1>5, <1>6, <1>7 DEF Next

LEMMA AlwaysIInv == Spec => []IInv
  BY InitKeeps, StepKeeps, PTL DEF Spec

\* The variables of a sign-in keep their types, for any number of handlers.
THEOREM TypeCorrect == Spec => []TypeOK
  <1>1. IInv => TypeOK
    BY DEF IInv
  <1>. QED BY <1>1, AlwaysIInv, PTL

\* At most one sign-in process exists and it has an owner, whatever starts, cancels
\* and the shutdown do at the same time.
THEOREM ProcessOwned == Spec => []OneOwnedProcess
  <1>1. IInv => OneOwnedProcess
    <2>. SUFFICES ASSUME IInv PROVE OneOwnedProcess
      OBVIOUS
    <2>1. \A s \in procs : Owners(s)
      BY DEF IInv, OwnInv
    <2>2. CASE procs = {}
      <3>1. Cardinality(procs) = 0
        BY <2>2, FS_EmptySet
      <3>. QED BY <3>1, <2>1 DEF OneOwnedProcess
    <2>3. ASSUME NEW s \in procs PROVE OneOwnedProcess
      <3>1. procs = {s}
        BY <2>3 DEF IInv, OwnInv
      <3>2. Cardinality(procs) = 1
        BY <3>1, FS_Singleton
      <3>. QED BY <3>2, <2>1 DEF OneOwnedProcess
    <2>. QED BY <2>2, <2>3
  <1>. QED BY <1>1, AlwaysIInv, PTL

\* A code that is shown is watched by a live monitor.
THEOREM CodeWatched == Spec => []PendingWatched
  <1>1. IInv => PendingWatched
    BY DEF IInv
  <1>. QED BY <1>1, AlwaysIInv, PTL

\* With the lock free and no monitor alive nothing of a sign-in is left.
LEMMA NothingLeft ==
  ASSUME IInv, ~ Alive, lock \notin Starts PROVE procs = {} /\ status # "pending"
  <1>1. procs \subseteq Starts /\ Starts \subseteq Handlers
    BY DEF IInv, TypeOK, Handlers
  <1>2. ASSUME NEW s \in procs PROVE FALSE
    <2>1. at[s] \in Inside
      BY <1>2 DEF IInv, OwnInv, Owners, Inside
    <2>2. lock = s
      BY <1>1, <2>1 DEF IInv, LockInv
    <2>. QED BY <1>1, <2>2
  <1>3. status # "pending"
    BY DEF IInv, PendingWatched, Alive
  <1>. QED BY <1>2, <1>3

LEMMA CancelStepSettles ==
  ASSUME IInv, NEW c \in Cancellers, CancelStep(c)
  PROVE  (procs' = {} /\ status' # "pending") \/ at'[c] # "idle"
  <1>. USE SignInAssumption
  <1>1. c \in Handlers /\ c \notin Starts /\ None \notin Starts
    BY DEF Handlers, Cancellers
  <1>2. at \in [Handlers -> At]
    BY DEF IInv, TypeOK
  <1>3. CASE LockCancel(c)
    <2>1. CASE Alive
      BY <1>1, <1>2, <1>3, <2>1 DEF LockCancel, Move
    <2>2. CASE ~ Alive
      <3>1. lock = None /\ UNCHANGED <<status, procs>>
        BY <1>3 DEF LockCancel
      <3>. QED BY <1>1, <2>2, <3>1, NothingLeft
    <2>. QED BY <2>1, <2>2
  <1>4. CASE Joined(c)
    <2>1. ~ Alive /\ at[c] = "joining" /\ UNCHANGED <<status, procs>>
      BY <1>4 DEF Joined
    <2>2. lock = c
      BY <1>1, <2>1 DEF IInv, LockInv, Inside
    <2>. QED BY <1>1, <2>1, <2>2, NothingLeft
  <1>. QED BY <1>3, <1>4 DEF CancelStep

\* No other step lets a cancelling handler return, the shutdown's own apart.
LEMMA OthersLeaveIt ==
  ASSUME IInv, [Next]_vars, NEW c \in Cancellers, ~ CancelStep(c),
         at[c] \in {"waiting", "joining"}, down' # "login"
  PROVE  at'[c] # "idle"
  <1>. USE SignInAssumption
  <1>1. c \in Handlers /\ c \notin Starts /\ Starts \subseteq Handlers /\ Cancellers \subseteq Handlers
        /\ Cancels \subseteq Handlers
    BY DEF Handlers, Cancellers
  <1>2. at \in [Handlers -> At]
    BY DEF IInv, TypeOK
  <1>3. ASSUME NEW s \in Starts, StartLogin(s) \/ StartStep(s) PROVE at'[c] = at[c]
    BY <1>1, <1>2, <1>3 DEF StartLogin, StartStep, LockStart, OpeningEnds, Issued,
       StartReturns, StartEnds, Release, Move
  <1>4. ASSUME NEW d \in Cancels, CancelLogin(d) PROVE at'[c] # "idle"
    BY <1>1, <1>2, <1>4 DEF CancelLogin, Move
  <1>5. ASSUME NEW d \in Cancellers, CancelStep(d) PROVE at'[c] = at[c]
    BY <1>1, <1>2, <1>5 DEF CancelStep, LockCancel, Joined, Release, Move
  <1>6. MonitorStep => UNCHANGED at
    BY DEF MonitorStep, FirstStep, Watched, Expire, CancelArrives, Withdrawn, Closed
  <1>7. Leave => UNCHANGED at
    BY DEF Leave
  <1>8. ~ Shutdown
    BY DEF Shutdown
  <1>9. ASSUME NEW j \in Jobs, Research(j) \/ LookedUp(j) \/ JobEnds(j) PROVE UNCHANGED at
    BY <1>9 DEF Research, LookedUp, JobEnds
  <1>10. UNCHANGED vars => UNCHANGED at
    BY DEF vars
  <1>. QED BY <1>3, <1>4, <1>5, <1>6, <1>7, <1>8, <1>9, <1>10 DEF Next

\* Cancellation and shutdown return only when nothing is pending and no process is
\* left, for any number of concurrent starts and cancels.
THEOREM CancelsSettle == Spec => CancelSettles
  <1>1. IInv /\ [Next]_vars =>
          [\A c \in Cancellers :
             at[c] \in {"waiting", "joining"} /\ at'[c] = "idle" /\ down' # "login"
             => procs' = {} /\ status' # "pending"]_vars
    BY CancelStepSettles, OthersLeaveIt
  <1>. QED BY <1>1, AlwaysIInv, PTL DEF Spec, CancelSettles

-----------------------------------------------------------------------------
(* Waits                                                                   *)

\* Who may be where: only handlers that start open a process, only handlers that
\* cancel join the monitor.
RoleInv ==
    /\ \A c \in Cancellers : at[c] \in {"idle", "waiting", "joining"}
    /\ \A s \in Starts : at[s] # "joining"

LEMMA RoleKept == TypeOK /\ RoleInv /\ [Next]_vars => RoleInv'
  <1>. USE SignInAssumption
  <1>. SUFFICES ASSUME TypeOK, RoleInv, [Next]_vars PROVE RoleInv'
    OBVIOUS
  <1>0. /\ at \in [Handlers -> At] /\ Starts \subseteq Handlers /\ Cancellers \subseteq Handlers
        /\ Cancels \subseteq Cancellers /\ Quit \in Cancellers
        /\ Starts \cap Cancellers = {} /\ Handlers = Starts \cup Cancellers
    BY DEF TypeOK, Handlers, Cancellers
  <1>1. ASSUME NEW s \in Starts, StartLogin(s) \/ StartStep(s) PROVE RoleInv'
    BY <1>0, <1>1 DEF StartLogin, StartStep, LockStart, OpeningEnds, Issued, StartReturns,
       StartEnds, Release, Move, RoleInv
  <1>2. ASSUME NEW c \in Cancels, CancelLogin(c) PROVE RoleInv'
    BY <1>0, <1>2 DEF CancelLogin, Move, RoleInv
  <1>3. ASSUME NEW c \in Cancellers, CancelStep(c) PROVE RoleInv'
    BY <1>0, <1>3 DEF CancelStep, LockCancel, Joined, Release, Move, RoleInv
  <1>4. CASE Shutdown
    <2>1. ASSUME NEW h \in Handlers
          PROVE  at'[h] = CASE h = Quit -> "waiting"
                            [] h # Quit /\ at[h] = "waiting" -> "idle"
                            [] h # Quit /\ at[h] \in {"opening", "entering"} -> "aborting"
                            [] OTHER -> at[h]
      BY <1>4 DEF Shutdown
    <2>2. ASSUME NEW c \in Cancellers PROVE at'[c] \in {"idle", "waiting", "joining"}
      BY <1>0, <2>1 DEF RoleInv
    <2>3. ASSUME NEW s \in Starts PROVE at'[s] # "joining"
      BY <1>0, <2>1 DEF RoleInv
    <2>. QED BY <2>2, <2>3 DEF RoleInv
  <1>5. CASE MonitorStep \/ Leave \/ UNCHANGED vars
            \/ \E j \in Jobs : Research(j) \/ LookedUp(j) \/ JobEnds(j)
    <2>1. at' = at
      BY <1>5 DEF MonitorStep, FirstStep, Watched, Expire, CancelArrives, Withdrawn, Closed,
         Leave, Research, LookedUp, JobEnds, vars
    <2>. QED BY <2>1 DEF RoleInv
  <1>. QED BY <1>1, <1>2, <1>3, <1>4, <1>5 DEF Next

\* While a handler joins the monitor it holds the lock, so no new monitor appears and
\* the one it joins has made its first step.
LEMMA JoinKept == IInv /\ RoleInv /\ JoinedGoesDown /\ [Next]_vars => JoinedGoesDown'
  <1>. USE SignInAssumption
  <1>. SUFFICES ASSUME IInv, RoleInv, JoinedGoesDown, [Next]_vars,
                       NEW c \in Cancellers, at'[c] = "joining", Alive'
                PROVE  hit' \/ monitor'.stage \in {"withdrawing", "closing"}
    BY DEF JoinedGoesDown
  <1>0. /\ at \in [Handlers -> At] /\ Starts \subseteq Handlers /\ Cancellers \subseteq Handlers
        /\ Cancels \subseteq Cancellers /\ Quit \in Cancellers /\ c \in Handlers
        /\ Starts \cap Cancellers = {} /\ monitor \in Monitor /\ hit \in BOOLEAN
    BY DEF IInv, TypeOK, Handlers, Cancellers
  <1>1. ASSUME at[c] = "joining"
        PROVE  /\ lock = c
               /\ monitor.stage # "created"
               /\ Alive => hit \/ monitor.stage \in {"withdrawing", "closing"}
    <2>1. lock = c
      BY <1>0, <1>1 DEF IInv, LockInv, Inside
    <2>2. monitor.stage # "created"
      BY <1>0, <2>1 DEF IInv, CreatedInv, LockInv, Inside
    <2>. QED BY <1>1, <2>1, <2>2 DEF JoinedGoesDown
  <1>2. ASSUME NEW s \in Starts, StartLogin(s) \/ StartStep(s)
        PROVE  hit' \/ monitor'.stage \in {"withdrawing", "closing"}
    <2>1. at[c] = "joining"
      BY <1>0, <1>2 DEF StartLogin, StartStep, LockStart, OpeningEnds, Issued, StartReturns,
         StartEnds, Release, Move
    <2>2. ~ Issued(s)
      BY <1>0, <1>1, <2>1 DEF Issued, IInv, LockInv, Inside
    <2>3. monitor' = monitor /\ hit' = hit
      BY <1>2, <2>2 DEF StartLogin, StartStep, LockStart, OpeningEnds, StartReturns, StartEnds
    <2>. QED BY <1>1, <2>1, <2>3 DEF Alive
  <1>3. ASSUME NEW d \in Cancels, CancelLogin(d)
        PROVE  hit' \/ monitor'.stage \in {"withdrawing", "closing"}
    BY <1>0, <1>1, <1>3 DEF CancelLogin, Move, Alive
  <1>4. ASSUME NEW d \in Cancellers, CancelStep(d)
        PROVE  hit' \/ monitor'.stage \in {"withdrawing", "closing"}
    <2>1. CASE hit' = TRUE
      BY <2>1
    <2>2. CASE ~ (hit' = TRUE)
      <3>1. monitor' = monitor /\ hit' = hit /\ at[c] = "joining"
        BY <1>0, <1>4, <2>2 DEF CancelStep, LockCancel, Joined, Release, Move
      <3>. QED BY <1>1, <3>1 DEF Alive
    <2>. QED BY <2>1, <2>2
  <1>5. CASE MonitorStep
    <2>1. at[c] = "joining"
      BY <1>5 DEF MonitorStep, FirstStep, Watched, Expire, CancelArrives, Withdrawn, Closed
    <2>2. CASE FirstStep
      BY <1>1, <2>1, <2>2 DEF FirstStep
    <2>3. CASE Watched \/ Expire
      BY <1>0, <2>3 DEF Watched, Expire, Monitor
    <2>4. CASE CancelArrives \/ Withdrawn \/ Closed
      BY <1>0, <2>4 DEF CancelArrives, Withdrawn, Closed, Monitor, Alive
    <2>. QED BY <1>5, <2>2, <2>3, <2>4 DEF MonitorStep
  <1>6. CASE Shutdown
    <2>1. at[c] = "joining" /\ monitor' = monitor /\ (hit => hit')
      BY <1>0, <1>6 DEF Shutdown
    <2>. QED BY <1>1, <2>1 DEF Alive
  <1>7. CASE Leave \/ UNCHANGED vars \/ \E j \in Jobs : Research(j) \/ LookedUp(j) \/ JobEnds(j)
    <2>1. at' = at /\ monitor' = monitor /\ hit' = hit
      BY <1>7 DEF Leave, Research, LookedUp, JobEnds, vars
    <2>. QED BY <1>1, <2>1 DEF Alive
  <1>. QED BY <1>2, <1>3, <1>4, <1>5, <1>6, <1>7 DEF Next

\* A cancel, and the shutdown that cancels, only join a monitor that will not wait for
\* the provider or the deadline of its code any more (CodexLogin.cancel).
THEOREM JoinIsShort == Spec => []JoinedGoesDown
  <1>1. Init => RoleInv /\ JoinedGoesDown
    <2>. SUFFICES ASSUME Init PROVE \A h \in Handlers : at[h] = "idle"
      BY DEF RoleInv, JoinedGoesDown, Handlers, Cancellers
    <2>. QED BY DEF Init
  <1>2. IInv => TypeOK
    BY DEF IInv
  <1>. QED BY <1>1, <1>2, RoleKept, JoinKept, AlwaysIInv, PTL DEF Spec

\* Handlers and monitor never wait for each other in a circle: the lock is held by a
\* handler that can be resumed, or that waits for a monitor which has a step left.
THEOREM NoCircleOfWaits == Spec => []SomeoneGoesOn
  <1>. USE SignInAssumption
  <1>1. Init => RoleInv
    BY DEF Init, RoleInv, Handlers, Cancellers
  <1>2. ASSUME IInv, RoleInv PROVE SomeoneGoesOn
    <2>. SUFFICES ASSUME NEW h \in Handlers, at[h] # "idle", ~ Alive
                  PROVE  CanGoOn(h) \/ (at[h] = "waiting" /\ lock \in Handlers /\ CanGoOn(lock))
      BY DEF SomeoneGoesOn
    <2>0. /\ at \in [Handlers -> At] /\ lock \in Handlers \cup {None}
          /\ Handlers = Starts \cup Cancellers /\ monitor.stage # "created"
      BY <1>2 DEF IInv, TypeOK, Handlers, Cancellers, Alive
    <2>1. ASSUME NEW k \in Handlers, at[k] \in Inside PROVE CanGoOn(k)
      BY <1>2, <2>0, <2>1 DEF CanGoOn, RoleInv, Inside
    <2>2. CASE at[h] = "waiting" /\ lock # None
      <3>1. lock \in Handlers /\ at[lock] \in Inside
        BY <1>2, <2>0, <2>2 DEF IInv, LockInv
      <3>. QED BY <2>1, <2>2, <3>1
    <2>3. CASE at[h] = "waiting" /\ lock = None
      BY <2>3 DEF CanGoOn
    <2>4. CASE at[h] # "waiting"
      BY <2>0, <2>1, <2>4 DEF At, Inside
    <2>. QED BY <2>2, <2>3, <2>4
  <1>3. IInv => TypeOK
    BY DEF IInv
  <1>. QED BY <1>1, <1>2, <1>3, RoleKept, AlwaysIInv, PTL DEF Spec
=============================================================================
