------------------------------- MODULE SignIn -------------------------------
(***************************************************************************)
(* Device sign-in: CodexLogin (codex_login.py), the routes that start and  *)
(* cancel it and refuse research meanwhile, and the shutdown that closes   *)
(* it (api.py).  Handlers and the monitor are tasks of one event loop; a   *)
(* step is the code between two awaits, as in ResearchService.             *)
(*                                                                         *)
(* What the provider answers is abstracted to how the opening or the       *)
(* watching ends.  A process is named by the handler that launched it.     *)
(***************************************************************************)
EXTENDS Naturals, FiniteSets

CONSTANTS
    Starts,      \* POST login handlers
    Cancels,     \* POST login/cancel handlers
    Quit,        \* the shutdown of the application, which cancels as well
    Jobs,        \* research that may be submitted
    None

ASSUME SignInAssumption ==
    /\ IsFiniteSet(Starts)
    /\ Starts \cap (Cancels \cup {Quit}) = {}
    /\ Quit \notin Cancels
    /\ None \notin Starts \cup Cancels \cup {Quit}

VARIABLES
    status,     \* CodexLogin.state.status
    lock,       \* CodexLogin.lock: the handler that holds it
    at,         \* where each handler is suspended
    procs,      \* sign-in processes that have not been closed
    monitor,    \* CodexLogin.task: stage, process and outcome of the monitor
    hit,        \* the monitor is marked by cancel(), the error not delivered yet
    jobs,       \* research handlers and tasks
    down        \* the shutdown of the application

vars == <<status, lock, at, procs, monitor, hit, jobs, down>>

-----------------------------------------------------------------------------

Handlers == Starts \cup Cancels \cup {Quit}
Cancellers == Cancels \cup {Quit}

Statuses == {"idle", "pending", "authenticated", "failed", "cancelled", "expired"}

\* "entering" is the sleep(0) after the monitor is created; "aborting" closes the
\* process of a start that was itself cancelled.
At == {"idle", "waiting", "opening", "entering", "closing", "aborting", "joining"}

\* "withdrawing" asks the provider to drop the request, "closing" ends the process.
Monitor == [stage : {"none", "created", "watching", "withdrawing", "closing", "done"},
            rpc : Starts \cup {None},
            outcome : {"returned", "cancelled", "raised"}]
NoMonitor == [stage |-> "none", rpc |-> None, outcome |-> "returned"]
Alive == monitor.stage \notin {"none", "done"}

TypeOK ==
    /\ status \in Statuses
    /\ lock \in Handlers \cup {None}
    /\ at \in [Handlers -> At]
    /\ procs \in SUBSET Starts
    /\ monitor \in Monitor
    /\ hit \in BOOLEAN
    /\ jobs \in [Jobs -> {"none", "lookup", "live"}]
    /\ down \in {"up", "leaving", "login", "stopped", "aborted"}

Init ==
    /\ status = "idle" /\ lock = None
    /\ at = [h \in Handlers |-> "idle"]
    /\ procs = {} /\ monitor = NoMonitor /\ hit = FALSE
    /\ jobs = [j \in Jobs |-> "none"]
    /\ down = "up"

Move(h, stage) == at' = [at EXCEPT ![h] = stage]

\* A handler leaves the lock and returns.
Release(h) == Move(h, "idle") /\ lock' = None

-----------------------------------------------------------------------------
(* POST /api/connections/codex/login                                       *)

StartLogin(s) ==
    /\ down = "up" /\ at[s] = "idle"
    /\ \A j \in Jobs : jobs[j] # "live"
    /\ Move(s, "waiting")
    /\ UNCHANGED <<status, lock, procs, monitor, hit, jobs, down>>

\* With the lock: a monitor that is alive, also one that is winding down, makes
\* this call return the state as it is.
LockStart_Restarts(s) ==
    /\ at[s] = "waiting" /\ lock = None
    /\ Move(s, "opening") /\ lock' = s /\ procs' = procs \cup {s}
    /\ UNCHANGED <<status, monitor, hit, jobs, down>>
LockStart(s) ==
    /\ at[s] = "waiting" /\ lock = None
    /\ IF Alive
       THEN Move(s, "idle") /\ UNCHANGED <<lock, procs>>
       ELSE Move(s, "opening") /\ lock' = s /\ procs' = procs \cup {s}
    /\ UNCHANGED <<status, monitor, hit, jobs, down>>

\* The handshake and the account answer: signed in already, or not usable.
OpeningEnds(s) ==
    /\ at[s] = "opening"
    /\ \E end \in {"authenticated", "failed"} : status' = end
    /\ Move(s, "closing")
    /\ UNCHANGED <<lock, procs, monitor, hit, jobs, down>>

\* The code is issued and the monitor created; the lock is kept until the monitor
\* has entered its cleanup scope.
Issued_NoYield(s) ==
    /\ at[s] = "opening"
    /\ status' = "pending"
    /\ monitor' = [stage |-> "created", rpc |-> s, outcome |-> "returned"]
    /\ Release(s)
    /\ UNCHANGED <<procs, hit, jobs, down>>
Issued(s) ==
    /\ at[s] = "opening"
    /\ status' = "pending"
    /\ monitor' = [stage |-> "created", rpc |-> s, outcome |-> "returned"]
    /\ Move(s, "entering")
    /\ UNCHANGED <<lock, procs, hit, jobs, down>>
StartReturns(s) ==
    /\ at[s] = "entering" /\ monitor.stage # "created"
    /\ Release(s)
    /\ UNCHANGED <<status, procs, monitor, hit, jobs, down>>

\* rpc.close() of the handler; a close that fails turns "authenticated" around.
StartEnds(s) ==
    /\ at[s] \in {"closing", "aborting"}
    /\ procs' = procs \ {s}
    /\ status' \in {status} \cup IF at[s] = "closing" THEN {"failed"} ELSE {}
    /\ Release(s)
    /\ UNCHANGED <<monitor, hit, jobs, down>>

StartStep(s) ==
    \/ LockStart(s) \/ OpeningEnds(s) \/ Issued(s) \/ StartReturns(s) \/ StartEnds(s)

-----------------------------------------------------------------------------
(* The monitor                                                             *)

\* A task that is cancelled before its first step runs nothing of its body.
FirstStep ==
    /\ monitor.stage = "created"
    /\ monitor' = IF hit THEN [monitor EXCEPT !.stage = "done", !.outcome = "cancelled"]
                         ELSE [monitor EXCEPT !.stage = "watching"]
    /\ hit' = FALSE
    /\ UNCHANGED <<status, lock, at, procs, jobs, down>>

\* The provider reports the end; only an open process can report a success.
Watched ==
    /\ monitor.stage = "watching" /\ ~ hit
    /\ \/ status' = "authenticated" /\ monitor.rpc \in procs
       \/ status' = "failed"
    /\ monitor' = [monitor EXCEPT !.stage = "closing"]
    /\ UNCHANGED <<lock, at, procs, hit, jobs, down>>

Expire_Never == FALSE /\ UNCHANGED vars
Expire ==
    /\ monitor.stage = "watching" /\ ~ hit
    /\ status' = "expired"
    /\ monitor' = [monitor EXCEPT !.stage = "withdrawing"]
    /\ UNCHANGED <<lock, at, procs, hit, jobs, down>>

CancelArrives ==
    /\ monitor.stage = "watching" /\ hit
    /\ status' = "cancelled" /\ hit' = FALSE
    /\ monitor' = [monitor EXCEPT !.stage = "withdrawing"]
    /\ UNCHANGED <<lock, at, procs, jobs, down>>

\* cancel_provider is answered, refused, times out, or is itself cancelled: the
\* process is closed all the same, but then the task ends cancelled.
Withdrawn ==
    /\ monitor.stage = "withdrawing"
    /\ monitor' = [monitor EXCEPT !.stage = "closing",
                                  !.outcome = IF hit THEN "cancelled" ELSE @]
    /\ hit' = FALSE
    /\ UNCHANGED <<status, lock, at, procs, jobs, down>>

\* close_owned kills the process whatever interrupts its grace period, and reports
\* one that will not end.
Closed ==
    /\ monitor.stage = "closing"
    /\ procs' = procs \ {monitor.rpc}
    /\ \E end \in {IF hit THEN "cancelled" ELSE monitor.outcome, "raised"} :
           monitor' = [monitor EXCEPT !.stage = "done", !.outcome = end]
    /\ hit' = FALSE
    /\ UNCHANGED <<status, lock, at, jobs, down>>

MonitorStep == FirstStep \/ Watched \/ Expire \/ CancelArrives \/ Withdrawn \/ Closed

-----------------------------------------------------------------------------
(* POST /api/connections/codex/login/cancel, and the shutdown              *)

CancelLogin(c) ==
    /\ down = "up" /\ at[c] = "idle"
    /\ Move(c, "waiting")
    /\ UNCHANGED <<status, lock, procs, monitor, hit, jobs, down>>

\* The shutdown goes on with imports and research only where cancel() returned.
After(c, returned) ==
    down' = IF c # Quit THEN down ELSE IF returned THEN "stopped" ELSE "aborted"

LockCancel_NoMark(c) ==
    /\ at[c] = "waiting" /\ lock = None
    /\ IF Alive
       THEN Move(c, "joining") /\ lock' = c /\ UNCHANGED <<hit, down>>
       ELSE Move(c, "idle") /\ After(c, TRUE) /\ UNCHANGED <<lock, hit>>
    /\ UNCHANGED <<status, procs, monitor, jobs>>
LockCancel(c) ==
    /\ at[c] = "waiting" /\ lock = None
    /\ IF Alive
       THEN Move(c, "joining") /\ lock' = c /\ hit' = TRUE /\ UNCHANGED down
       ELSE Move(c, "idle") /\ After(c, TRUE) /\ UNCHANGED <<lock, hit>>
    /\ UNCHANGED <<status, procs, monitor, jobs>>

\* Awaiting the task raises what the task ended with.
Joined_NoWait(c) ==
    /\ at[c] = "joining"
    /\ Release(c)
    /\ After(c, TRUE)
    /\ UNCHANGED <<status, procs, monitor, hit, jobs>>
Joined(c) ==
    /\ at[c] = "joining" /\ ~ Alive
    /\ Release(c)
    /\ After(c, monitor.outcome = "returned")
    /\ UNCHANGED <<status, procs, monitor, hit, jobs>>

CancelStep(c) == LockCancel(c) \/ Joined(c)

\* Quit refuses new requests and lets the ones in flight finish; after a grace
\* period it cancels the handlers that are left and runs the shutdown.  Cancelling a
\* handler that joins the monitor cancels the monitor once more.
Leave ==
    /\ down = "up"
    /\ down' = "leaving"
    /\ UNCHANGED <<status, lock, at, procs, monitor, hit, jobs>>
Shutdown ==
    /\ down = "leaving"
    /\ monitor.stage # "created"
    /\ down' = "login"
    /\ at' = [h \in Handlers |->
                 CASE h = Quit -> "waiting"
                   [] h # Quit /\ at[h] = "waiting" -> "idle"
                   [] h # Quit /\ at[h] \in {"opening", "entering"} -> "aborting"
                   [] OTHER -> at[h]]
    /\ hit' = (hit \/ (Alive /\ \E c \in Cancels : at[c] = "joining"))
    /\ UNCHANGED <<status, lock, procs, monitor, jobs>>

-----------------------------------------------------------------------------
(* POST /api/research: the status is read once, the job is created now or  *)
(* after the lookups of submit.                                            *)

Research(j) ==
    /\ down = "up" /\ jobs[j] = "none"
    /\ status # "pending"
    /\ \E s \in {"lookup", "live"} : jobs' = [jobs EXCEPT ![j] = s]
    /\ UNCHANGED <<status, lock, at, procs, monitor, hit, down>>
LookedUp(j) ==
    /\ jobs[j] = "lookup"
    /\ \E s \in {"none", "live"} : jobs' = [jobs EXCEPT ![j] = s]
    /\ UNCHANGED <<status, lock, at, procs, monitor, hit, down>>
JobEnds(j) ==
    /\ jobs[j] = "live"
    /\ jobs' = [jobs EXCEPT ![j] = "none"]
    /\ UNCHANGED <<status, lock, at, procs, monitor, hit, down>>

Next ==
    \/ \E s \in Starts : StartLogin(s) \/ StartStep(s)
    \/ \E c \in Cancels : CancelLogin(c)
    \/ \E c \in Cancellers : CancelStep(c)
    \/ MonitorStep
    \/ Leave \/ Shutdown
    \/ \E j \in Jobs : Research(j) \/ LookedUp(j) \/ JobEnds(j)

Spec == Init /\ [][Next]_vars

\* Every request to the provider has a deadline, and the sign-in has one whatever the
\* provider reports; the lock is handed over first in, first out; the shutdown has a
\* grace period.
Fairness ==
    /\ \A s \in Starts : /\ SF_vars(LockStart(s))
                         /\ WF_vars(OpeningEnds(s) \/ Issued(s))
                         /\ WF_vars(StartReturns(s)) /\ WF_vars(StartEnds(s))
    /\ \A c \in Cancellers : SF_vars(LockCancel(c)) /\ WF_vars(Joined(c))
    /\ WF_vars(FirstStep) /\ WF_vars(Expire \/ CancelArrives) /\ WF_vars(Withdrawn) /\ WF_vars(Closed)
    /\ WF_vars(Shutdown)

FairSpec == Spec /\ Fairness

-----------------------------------------------------------------------------
(* Properties                                                              *)

\* At most one sign-in process exists, and one that does has an owner that will
\* close it: the handler that is still starting it, or a monitor that has entered
\* its cleanup scope or cannot be cancelled before it does.
Owners(s) ==
    \/ at[s] \in {"opening", "closing", "aborting"}
    \/ monitor.rpc = s /\ Alive
OneOwnedProcess ==
    /\ Cardinality(procs) <= 1
    /\ \A s \in procs : Owners(s)

\* A code shown to the user is being watched: the monitor is alive, and until the
\* application quits its process is too.
PendingWatched ==
    status = "pending" =>
        /\ monitor.stage \in {"created", "watching"}
        /\ down \in {"up", "leaving"} => monitor.rpc \in procs

\* Cancellation and shutdown join what they cancel: when they leave the lock or find
\* nothing to cancel, with a result or an error, no sign-in is pending and no
\* process is left.
CancelSettles ==
    [][\A c \in Cancellers :
          at[c] \in {"waiting", "joining"} /\ at'[c] = "idle" /\ down' # "login"
          => procs' = {} /\ status' # "pending"]_vars

\* A cancel waits for the end of the monitor, never for the end of the code's
\* lifetime: the monitor it joins is still marked or is already winding down.
JoinedGoesDown ==
    \A c \in Cancellers : at[c] = "joining" /\ Alive =>
        hit \/ monitor.stage \in {"withdrawing", "closing"}

\* There is no circle of waits between handlers and monitor: a handler in flight can
\* be resumed, or waits for a lock whose holder can be, or for a monitor that is
\* alive and so has a step of its own.
CanGoOn(h) ==
    \/ at[h] = "waiting" /\ lock = None
    \/ h \in Starts /\ at[h] \in {"opening", "closing", "aborting"}
    \/ h \in Starts /\ at[h] = "entering" /\ monitor.stage # "created"
    \/ h \in Cancellers /\ at[h] = "joining" /\ ~ Alive
SomeoneGoesOn ==
    \A h \in Handlers : at[h] # "idle" =>
        CanGoOn(h) \/ Alive \/ (at[h] = "waiting" /\ lock \in Handlers /\ CanGoOn(lock))

\* Every code ends, every request returns, also one that waits for the lock while
\* another sign-in opens, and Quit comes to an end.
SignInEnds ==
    /\ status = "pending" ~> status # "pending"
    /\ \A h \in Handlers : at[h] # "idle" ~> at[h] = "idle"
    /\ down = "leaving" ~> down \in {"stopped", "aborted"}

\* "Finish or cancel active research before changing the connection", "Complete or
\* cancel Codex sign-in before starting research": no research is live while a
\* sign-in is pending.  Each route reads its condition before it awaits.
SignInExcludesResearch ==
    status = "pending" => \A j \in Jobs : jobs[j] # "live"
=============================================================================
