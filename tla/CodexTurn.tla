----------------------------- MODULE CodexTurn -----------------------------
(***************************************************************************)
(* One turn of the coding agent: CodexRuntime.stream (codex_runtime.py),   *)
(* the pending tool activity and access requests it follows                *)
(* (codex_approvals.py), and the broker that puts one access request at a  *)
(* time to the user (approvals.py).  The agent may declare any activity    *)
(* and ask for any access; nothing it asks for is ever granted.            *)
(*                                                                         *)
(* The inference semaphore of ResearchService admits one turn at a time.   *)
(* Every event the handlers refuse ends the turn like any other failure.   *)
(***************************************************************************)
EXTENDS Naturals, FiniteSets

CONSTANTS
    Tools,      \* item ids of command and file activity
    Grants,     \* item ids of permission requests
    AskLimit,   \* declarations, and requests, of one turn (3 in the code)
    None

ASSUME TurnAssumption ==
    /\ Tools \cap Grants = {} /\ None \notin Tools \cup Grants
    /\ AskLimit \in Nat

VARIABLES
    turn,       \* the open turn: where it is and how it ends
    item,       \* PendingTools.items and CodexApprovals.permission_outputs
    requested,  \* CodexApprovals.items: what was requested in this turn
    access,     \* ApprovalBroker.pending
    connected,  \* the agent's process is alive
    denied      \* history: requests of this turn the user denied in time

turnVars == <<turn, item, requested, access, connected, denied>>

-----------------------------------------------------------------------------

Items == Tools \cup Grants
ItemStates == {"none", "pending", "denied", "started", "completed"}
Turn == [stage : {"none", "active", "asking", "closing"},
         end : {"none", "answered", "failed", "cancelled"}]
NoTurn == [stage |-> "none", end |-> "none"]
Access == [item : Items \cup {None}, future : {"none", "open", "decided", "cancelled"},
           decision : {"none", "deny", "cancel"}, late : BOOLEAN]
NoAccess == [item |-> None, future |-> "none", decision |-> "none", late |-> FALSE]

TurnTypeOK ==
    /\ turn \in Turn
    /\ item \in [Items -> ItemStates]
    /\ requested \in SUBSET Items /\ denied \in SUBSET Items
    /\ access \in Access
    /\ connected \in BOOLEAN

TurnInit ==
    /\ turn = NoTurn /\ item = [i \in Items |-> "none"]
    /\ requested = {} /\ denied = {}
    /\ access = NoAccess /\ connected = FALSE

OpenTurn ==
    /\ turn = NoTurn
    /\ turn' = [stage |-> "active", end |-> "none"]
    /\ connected' = TRUE
    /\ UNCHANGED <<item, requested, access, denied>>

\* The stream leaves its loop, and with it what it followed; its finally clause asks
\* for an interruption of a turn that is not complete and then closes the process.
Finish(end) ==
    /\ turn' = [turn EXCEPT !.stage = "closing", !.end = end]
    /\ item' = [i \in Items |-> "none"]
    /\ requested' = {} /\ denied' = {} /\ connected' = FALSE

-----------------------------------------------------------------------------
(* What the agent reports                                                  *)

Listening == turn.stage = "active" /\ connected

\* item/started of a command or a file change.
Declare(i) ==
    /\ Listening /\ i \in Tools
    /\ item[i] = "none"
    /\ Cardinality({k \in Tools : item[k] # "none"}) < AskLimit
    /\ item' = [item EXCEPT ![i] = "pending"]
    /\ UNCHANGED <<turn, requested, access, connected, denied>>

\* A request for access: a tool must have been declared, no item is asked twice.
Request(i) ==
    /\ Listening
    /\ i \in Tools => item[i] = "pending"
    /\ i \notin requested /\ Cardinality(requested) < AskLimit
    /\ access = NoAccess
    /\ turn' = [turn EXCEPT !.stage = "asking"]
    /\ requested' = requested \cup {i}
    /\ access' = [NoAccess EXCEPT !.item = i, !.future = "open"]
    /\ UNCHANGED <<item, connected, denied>>

\* item/completed of a declined tool; the output of a denied permission request,
\* which may be announced first.
Report(i) ==
    /\ Listening
    /\ item[i] \in IF i \in Tools THEN {"denied"} ELSE {"denied", "started"}
    /\ \E s \in {"completed"} \cup IF i \in Grants /\ item[i] = "denied" THEN {"started"} ELSE {} :
           item' = [item EXCEPT ![i] = s]
    /\ UNCHANGED <<turn, requested, access, connected, denied>>

\* turn/completed: no activity is left unresolved.
Complete ==
    /\ Listening
    /\ \A i \in Tools : item[i] \in {"none", "completed"}
    /\ \A i \in Grants : item[i] # "started"
    /\ Finish("answered")
    /\ UNCHANGED access

\* An error, the end of its output, an event that is refused, or the deadline of the
\* turn, which always comes.
Break ==
    /\ turn.stage = "active"
    /\ Finish("failed")
    /\ UNCHANGED access
Disconnect ==
    /\ turn.stage \in {"active", "asking"} /\ connected
    /\ connected' = FALSE
    /\ UNCHANGED <<turn, item, requested, access, denied>>

-----------------------------------------------------------------------------
(* The access review                                                       *)

Decide(d) ==
    /\ access.future = "open" /\ ~ access.late
    /\ access' = [access EXCEPT !.future = "decided", !.decision = d]
    /\ denied' = IF d = "deny" THEN denied \cup {access.item} ELSE denied
    /\ UNCHANGED <<turn, item, requested, connected>>

AccessExpires ==
    /\ access.future = "open" /\ ~ access.late
    /\ access' = [access EXCEPT !.late = TRUE]
    /\ UNCHANGED <<turn, item, requested, connected, denied>>

\* The answer goes to the agent: "decline" and the turn goes on, or "cancel" and
\* the run is cancelled, or fails where nobody answered.
Reply_Lenient ==
    /\ turn.stage = "asking"
    /\ access.late \/ access.future = "decided"
    /\ access' = NoAccess
    /\ IF access.decision # "cancel"
       THEN /\ turn' = [turn EXCEPT !.stage = "active"]
            /\ item' = [item EXCEPT ![access.item] = "denied"]
            /\ UNCHANGED <<requested, connected, denied>>
       ELSE Finish("cancelled")
Reply ==
    /\ turn.stage = "asking"
    /\ access.late \/ access.future = "decided"
    /\ access' = NoAccess
    /\ IF ~ access.late /\ access.decision = "deny"
       THEN /\ turn' = [turn EXCEPT !.stage = "active"]
            /\ item' = [item EXCEPT ![access.item] = "denied"]
            /\ UNCHANGED <<requested, connected, denied>>
       ELSE Finish(IF access.late THEN "failed" ELSE "cancelled")

\* The process is found to have exited, whatever the user decided meanwhile.
Lost ==
    /\ turn.stage = "asking" /\ ~ connected
    /\ Finish("failed") /\ access' = NoAccess

\* The CancelledError of the run arrives; the pending review is withdrawn first.
Interrupted ==
    /\ turn.stage \in {"active", "asking"}
    /\ Finish("cancelled") /\ access' = NoAccess

\* The process is closed.
CloseTurn ==
    /\ turn.stage = "closing"
    /\ turn' = NoTurn
    /\ UNCHANGED <<item, requested, access, connected, denied>>

\* cancel: an open access review is withdrawn.
WithdrawnAccess ==
    IF access.future = "open"
    THEN [access EXCEPT !.future = "cancelled"] ELSE access
=============================================================================
