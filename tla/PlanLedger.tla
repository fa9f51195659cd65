----------------------------- MODULE PlanLedger -----------------------------
(***************************************************************************)
(* What the execution of a boss plan promises to who wrote the plan and    *)
(* pays for its workers: a step gets a worker more only when those it had  *)
(* are paid for with attempts, and never more than its budget; it is       *)
(* accepted only when it was done; and the plan is completed, for good,    *)
(* only when every step was accepted.                                      *)
(***************************************************************************)
EXTENDS Integers

CONSTANTS Step, Budget

VARIABLES
  tried,     \* steps that were given a worker
  workers,   \* how many workers were launched for each step
  attempts,  \* how many attempts were counted
  done,      \* steps a worker of which has completed
  accepted,  \* steps that were accepted
  finished   \* whether the plan is completed

Init == /\ tried = {} /\ done = {} /\ accepted = {} /\ finished = FALSE
        /\ workers = [s \in Step |-> 0]
        /\ attempts = [s \in Step |-> 0]

Launch(s) == /\ workers[s] <= attempts[s] /\ workers[s] < Budget
             /\ workers' = [workers EXCEPT ![s] = @ + 1]
             /\ tried' = tried \cup {s}
             /\ UNCHANGED <<attempts, done, accepted, finished>>

\* A worker that runs is told to go on with the step.
PassOn(s) == /\ tried' = tried \cup {s}
             /\ UNCHANGED <<workers, attempts, done, accepted, finished>>

Count(s) == /\ s \in tried /\ attempts[s] < Budget
            /\ attempts' = [attempts EXCEPT ![s] = @ + 1]
            /\ UNCHANGED <<tried, workers, done, accepted, finished>>

\* A worker completes what it was given.
Do(S) == /\ S \subseteq tried
         /\ done' = done \cup S
         /\ UNCHANGED <<tried, workers, attempts, accepted, finished>>

Accept(s) == /\ s \in done
             /\ accepted' = accepted \cup {s}
             /\ UNCHANGED <<tried, workers, attempts, done, finished>>

Finish == /\ accepted = Step
          /\ finished' = TRUE
          /\ UNCHANGED <<tried, workers, attempts, done, accepted>>

Next == \/ \E s \in Step : Launch(s) \/ PassOn(s) \/ Count(s) \/ Accept(s)
        \/ \E S \in SUBSET Step : Do(S)
        \/ Finish

Spec == Init /\ [][Next]_<<tried, workers, attempts, done, accepted, finished>>
=============================================================================
