------------------------------ MODULE TaskLife ------------------------------
(***************************************************************************)
(* What the task manager promises to whoever looks at a task or waits for  *)
(* it: the life of a task.  It is pending, is started at most once, and    *)
(* ends; once it was started its end is final and is reported once.  Only  *)
(* a task that was never started can come back from its end, killed before *)
(* its launch went on.                                                     *)
(***************************************************************************)
EXTENDS Sequences

CONSTANT Task

VARIABLES
  status,    \* what the record of each task shows
  started,   \* the tasks that were started
  outcomes   \* the ends reported of each task

vars == <<status, started, outcomes>>

Init == /\ status = [t \in Task |-> "Absent"]
        /\ started = {}
        /\ outcomes = [t \in Task |-> << >>]

Create(t) == /\ status[t] = "Absent"
             /\ status' = [status EXCEPT ![t] = "Pending"]
             /\ UNCHANGED <<started, outcomes>>

Start(t) == /\ t \notin started
            /\ \/ status[t] = "Pending" /\ outcomes[t] = << >>
               \/ status[t] = "Killed" /\ outcomes[t] = <<"Killed">>
            /\ status' = [status EXCEPT ![t] = "Running"]
            /\ started' = started \cup {t}
            /\ UNCHANGED outcomes

\* Anything may be the end of a task that runs, only a kill that of one that waits.
End(t, v) == /\ \/ status[t] = "Running" /\ t \in started
                \/ status[t] = "Pending" /\ t \notin started /\ v = "Killed"
             /\ status' = [status EXCEPT ![t] = v]
             /\ outcomes' = [outcomes EXCEPT ![t] = Append(@, v)]
             /\ UNCHANGED started

Next == \E t \in Task : \/ Create(t) \/ Start(t)
                        \/ \E v \in {"Completed", "Failed", "Killed"} : End(t, v)

Spec == Init /\ [][Next]_vars
=============================================================================
