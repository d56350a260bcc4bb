----------------------------- MODULE EventStream -----------------------------
(***************************************************************************)
(* How a window learns what becomes of a job: the websocket                *)
(* /api/events/{job_id} (api.py) and the observer of the desktop           *)
(* (researchObservation.ts and ImportLearning.tsx), beside the jobs of     *)
(* module Explanations.  The socket carries events from a database it      *)
(* reads again and again; the observer takes the status of the job only    *)
(* from GET /api/jobs/{id}, which it repeats, one at a time.               *)
(***************************************************************************)
EXTENDS Explanations

CONSTANT Watched    \* the job the window shows

ASSUME WatchedAssumption == Watched \in Jobs

VARIABLES
    socket,    \* the handler of the websocket; left: events read and not yet sent
    after,     \* the sequence number it reads from
    shown,     \* the observer: "off", "watching", "finished"
    reply      \* its GET: "idle", "asked", or what the answer under way says

streamVars == <<socket, after, shown, reply>>
vars == <<explanationVars, streamVars>>

Answers == {"active", "completed", "over", "missing"}
Closed == [open |-> FALSE, left |-> 0]

TypeOK ==
    /\ ExplanationTypeOK
    /\ socket \in [open : BOOLEAN, left : Nat] /\ after \in Nat
    /\ shown \in {"off", "watching", "finished"}
    /\ reply \in Answers \cup {"idle", "asked"}

Init ==
    /\ ExplanationInit
    /\ socket = Closed /\ after = 0 /\ shown = "off" /\ reply = "idle"

-----------------------------------------------------------------------------
(* The observer                                                            *)

\* refresh, which is ignored while an answer is awaited and when the job has ended.
Refreshed == IF shown = "watching" /\ reply = "idle" THEN "asked" ELSE reply

\* The window opens on a job it was told of: a read and a socket are started.
Observe ==
    /\ shown = "off" /\ status[Watched] # "none"
    /\ shown' = "watching" /\ reply' = "asked"
    /\ socket' = [open |-> TRUE, left |-> 0] /\ after' = 0
    /\ UNCHANGED explanationVars

\* Two seconds after an answer, and after an error.
Poll_WhileConnected ==
    /\ shown = "watching" /\ reply = "idle" /\ socket.open
    /\ reply' = "asked"
    /\ UNCHANGED <<explanationVars, socket, after, shown>>
Poll ==
    /\ shown = "watching" /\ reply = "idle"
    /\ reply' = "asked"
    /\ UNCHANGED <<explanationVars, socket, after, shown>>

\* GET /api/jobs/{id} reads the row; the answer arrives later.
ReadJob_QueuedIsOver ==
    /\ reply = "asked"
    /\ reply' = CASE status[Watched] = "running" -> "active"
                  [] status[Watched] = "completed" -> "completed"
                  [] status[Watched] = "none" -> "missing"
                  [] OTHER -> "over"
    /\ UNCHANGED <<explanationVars, socket, after, shown>>
ReadJob ==
    /\ reply = "asked"
    /\ reply' = CASE status[Watched] \in Active -> "active"
                  [] status[Watched] = "completed" -> "completed"
                  [] status[Watched] = "none" -> "missing"
                  [] OTHER -> "over"
    /\ UNCHANGED <<explanationVars, socket, after, shown>>

\* The answer.  No row is a 404, and a completed explanation that is no longer
\* saved a 409: both are errors the observer goes on after.
Arrives ==
    /\ reply \in Answers
    /\ reply' = "idle"
    /\ shown' = IF reply = "over" \/ (reply = "completed" /\ key[Watched] \in saved)
                THEN "finished" ELSE shown
    /\ UNCHANGED <<explanationVars, socket, after>>

\* The request is lost.
ReplyLost ==
    /\ reply \in Answers
    /\ reply' = "idle"
    /\ UNCHANGED <<explanationVars, socket, after, shown>>

-----------------------------------------------------------------------------
(* The socket                                                              *)

\* The status is read after the last event was sent: a row that is gone or has
\* ended closes the socket, which the client answers with a refresh.  An ending
\* written while events were being sent closes it without its event.
Check_Missing ==
    socket' = IF status[Watched] \in Active \cup {"none"} THEN [open |-> TRUE, left |-> 0]
              ELSE Closed
Check ==
    socket' = IF status[Watched] \in Active THEN [open |-> TRUE, left |-> 0] ELSE Closed

\* One turn of the loop: the events after the last one are read; if there are none
\* the status is read in the same step, otherwise the first is sent.
ReadEvents ==
    /\ socket.open /\ socket.left = 0
    /\ IF Len(events[Watched]) > after
       THEN /\ socket' = [open |-> TRUE, left |-> Len(events[Watched]) - after]
            /\ after' = Len(events[Watched])
            /\ UNCHANGED reply
       ELSE /\ Check
            /\ reply' = IF socket'.open THEN reply ELSE Refreshed
            /\ UNCHANGED after
    /\ UNCHANGED <<explanationVars, shown>>

\* send_json is an await: the client gets the event and refreshes.
Send ==
    /\ socket.left > 0
    /\ IF socket.left > 1 THEN socket' = [socket EXCEPT !.left = @ - 1] ELSE Check
    /\ reply' = Refreshed
    /\ UNCHANGED <<explanationVars, after, shown>>

\* The connection breaks.
Drop ==
    /\ socket.open
    /\ socket' = Closed /\ reply' = Refreshed
    /\ UNCHANGED <<explanationVars, after, shown>>

ServerDies ==
    /\ Crash
    /\ socket' = Closed
    /\ reply' = IF reply = "idle" THEN Refreshed ELSE "idle"
    /\ UNCHANGED <<after, shown>>

-----------------------------------------------------------------------------

Next ==
    \/ ExplanationStep /\ UNCHANGED streamVars
    \/ ServerDies
    \/ Observe \/ Poll \/ ReadJob \/ Arrives \/ ReplyLost
    \/ ReadEvents \/ Send \/ Drop

Spec == Init /\ [][Next]_vars

\* The loop of the handler goes on, timers fire and requests are answered; that a
\* request is lost each time it is repeated is not assumed away, so what the
\* observer gets is fair in the strong sense.
FairSpec ==
    /\ Spec /\ ExplanationFairness
    /\ WF_vars(ReadEvents \/ Send)
    /\ WF_vars(Poll) /\ WF_vars(ReadJob) /\ WF_vars(Arrives \/ ReplyLost)
    /\ SF_vars(Arrives /\ shown' = "finished")

-----------------------------------------------------------------------------
(* Properties                                                              *)

\* A window that stops watching is never wrong to: the answer it stopped on was read
\* earlier and came late, and still the job is over, in every state from then on.
FinishedIsOver == shown = "finished" => status[Watched] \notin Active

\* Every submission and every task ends, and the socket of a job does not stay open
\* once the job has ended or its row is gone.
EverythingEnds ==
    /\ \A j \in Jobs : stage[j] # "none" ~> stage[j] = "none"
    /\ status[Watched] \notin Active ~> ~ socket.open

\* "Authoritative state is always read from the existing job": a window that stays
\* on a job learns that it has ended, whichever events, answers and connections
\* were lost, unless the job is deleted under it.
ObserverLearns ==
    shown = "watching" /\ status[Watched] \notin Active
        ~> shown = "finished" \/ status[Watched] = "none"
=============================================================================
