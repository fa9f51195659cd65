-------------------------- MODULE CoordinatorTurn --------------------------
(***************************************************************************)
(* The end of a coordinator's turn (finalize_normal_turn in                *)
(* src/src/core/query_loop.rs) beside the task manager: the turn's tool    *)
(* calls are over, the coordinator takes the events of its session from    *)
(* the queue, then asks whether orchestration is still pending, and either *)
(* waits for another turn or goes on to its final synthesis.  Others make  *)
(* tasks for the same session at any time: a worker that may spawn, and    *)
(* the dispatches of the boss.                                             *)
(***************************************************************************)
EXTENDS TaskManager

VARIABLES
  turn,   \* per session: "open", "drained", "final"
  own     \* the tasks made by tool calls of these turns

turnVars == <<vars, turn, own>>

TurnInit == Init /\ turn = [s \in Session |-> "open"] /\ own = {}

Owns(s, t) == t \in own /\ asked[t].session = s

\* The turn's own tool calls are over: a batch is awaited, and Agent calls, which are
\* not concurrency safe, are dropped with it.
CallsOver(s) == \A t \in Task : Owns(s, t) => launch[t] \in {"dropped", "registered"}

\* inbox_messages
TurnDrain(s) ==
  /\ turn[s] = "open"
  /\ CallsOver(s)
  /\ turn' = [turn EXCEPT ![s] = "drained"] /\ UNCHANGED own
  /\ IF InboxOf(s) = << >> THEN UNCHANGED vars ELSE Drain(s)

\* Mutant: the gate looks at pending verification only.
TurnGateVerified(s) ==
  /\ turn[s] = "drained"
  /\ turn' = [turn EXCEPT ![s] =
                IF \E t \in Task : validation[t] = "PendingVerification"
                THEN "open" ELSE "final"]
  /\ UNCHANGED <<vars, own>>

\* The gate on has_pending_orchestration.
TurnGate(s) ==
  /\ turn[s] = "drained"
  /\ turn' = [turn EXCEPT ![s] = IF PendingOrchestration(s) THEN "open" ELSE "final"]
  /\ UNCHANGED <<vars, own>>

NewTurn(s) ==
  /\ turn[s] = "final"
  /\ turn' = [turn EXCEPT ![s] = "open"]
  /\ UNCHANGED <<vars, own>>

\* The turn calls its tools while it is open.
OwnCall ==
  /\ \E r \in Requests, p \in Task \cup {NoTask} :
       turn[r.session] = "open" /\ Create(r, p)
  /\ own' = own \cup {next}
  /\ UNCHANGED turn

\* Others call them, workers work and killers kill at any time.
Manager ==
  /\ \/ \E r \in Requests, p \in Task \cup {NoTask} : Create(r, p)
     \/ \E t \in Task : Call(t) \/ Work(t)
     \/ \E k \in Killer, t \in Task : KillAny(k, t)
     \/ \E k \in Killer : Abort(k)
     \/ \E p \in Proc : Finish(p)
  /\ UNCHANGED <<turn, own>>

TurnNext == OwnCall \/ Manager \/ \E s \in Session : TurnDrain(s) \/ TurnGate(s) \/ NewTurn(s)

TurnSpec == TurnInit /\ [][TurnNext]_turnVars

-----------------------------------------------------------------------------
\* The group has a member that the turns of session s did not make: its id is a text
\* of the request, which anybody may use, and group_tasks does not ask for the session.
SharedGroup(s, g) == \E t \in Members(g) : ~Owns(s, t)

\* A synthesis that was let through stays justified while it is being written, as far
\* as the turn's own tasks go: nothing that workers, killers or other callers do makes
\* one of them wait for verification again, or its group unfinished, although the gate
\* read the records only once, before.  Others can add to a group; and the tasks they
\* make on their own may make orchestration pending again, which nobody looks at.
SynthesisStaysSettled ==
  \A s \in Session, t \in Task :
    turn[s] = "final" /\ Owns(s, t) =>
      /\ validation[t] # "PendingVerification"
      /\ GroupOf(t) # NoGroup => GroupReady(GroupOf(t)) \/ SharedGroup(s, GroupOf(t))
=============================================================================
