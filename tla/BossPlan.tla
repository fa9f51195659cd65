------------------------------ MODULE BossPlan ------------------------------
(***************************************************************************)
(* The execution of a boss plan (src/src/core/boss.rs): steps are          *)
(* dispatched to workers of executor B, what a worker hands in is reviewed *)
(* by designer A, and the plan advances when A accepts.                    *)
(*                                                                         *)
(* A plan is driven in one of two ways.  A headless run                    *)
(* (src/src/bootstrap/runtime.rs) makes a plan of one step and polls:      *)
(* every end of a worker reaches it twice, as a task event, which its loop *)
(* drains and handles one at a time, and as a notification, for which the  *)
(* dispatcher spawns a thread of its own.  In an interactive session the   *)
(* plan comes from a file and may have many steps; the user approves it,   *)
(* as often as he likes, and only notifications follow.                    *)
(*                                                                         *)
(* A handles what is asked of it one at a time and, inside the handler,    *)
(* advances the plan.  The run or the user (Driver), A and the threads of  *)
(* the notifications therefore run advance_plan concurrently; an action is *)
(* what one of them does between two points where it lets the others in.   *)
(*                                                                         *)
(* Modelled are steps carried out by workers (LisM off) whose objective    *)
(* names no artifact and no report, so that the verification gates of a    *)
(* review are open.  Texts, payloads and the saved plan are left out.      *)
(***************************************************************************)
EXTENDS Integers, Sequences, FiniteSets

CONSTANTS
  Headless,   \* whether a headless run or the user drives the plan
  MaxStep,    \* steps of the plan
  MaxWorker,  \* workers there are resources for (evaluate_boss_budget)
  Budget,     \* BossPlanStep::retry_budget
  LoopLimit,  \* reviews in a row without new evidence (record_boss_loop_guard)
  Approval,   \* steps that may require approval, as the planning file says
  Verdicts,   \* what A may answer
  Parents,    \* workers that have children in a group of their own
  Denials     \* whether a launch may be refused before resources run out

Step   == 1 .. MaxStep
Worker == 1 .. MaxWorker
None   == 0                 \* no step, no task
Driver == 0
A      == MaxWorker + 1
Thread == 0 .. MaxWorker + 1 \* Driver, A, and a notification thread per worker

ASSUME PlanAssumption ==
  /\ Headless \in BOOLEAN /\ (Headless => MaxStep = 1 /\ Approval = {})
  /\ MaxStep \in Nat \ {0} /\ MaxWorker \in Nat \ {0}
  /\ Budget \in Nat \ {0} /\ LoopLimit \in Nat \ {0, 1}
  /\ Approval \subseteq Step
  /\ Verdicts \subseteq {"Accept", "Correct", "Replan"}
  /\ Parents \subseteq Worker /\ Denials \in BOOLEAN

VARIABLES
  plan,     \* BossPlan::steps
  stage,    \* BossRuntimeStatus::stage
  current,  \* BossRuntimeStatus::current_step
  btask,    \* session.executor_b.task_id
  task,     \* the task manager's records of B's workers
  queue,    \* its event queue
  inbox,    \* events the driver has drained
  mailbox,  \* A's mailbox, the review at hand included
  pc,       \* where each thread is
  job,      \* what a thread runs advance_plan or on_task_event for
  at,       \* the step it is at
  aim,      \* the worker it is at
  next,     \* next_unfinished_step_id as it read it
  synced,   \* the driver's last sync found something
  accepted, \* history: the steps A has accepted
  given     \* history: the workers each step was given to

planVars   == <<plan, stage, current, btask>>
taskVars   == <<task, queue>>
threadVars == <<pc, job, at, aim, next, synced>>
histVars   == <<accepted, given>>
vars == <<planVars, taskVars, inbox, mailbox, threadVars, histVars>>

-----------------------------------------------------------------------------
Completed(s)   == plan[s].completed
Is(s, st)      == plan[s].status = st
Live(w)        == w # None /\ task[w].state = "live"
Over(w)        == w # None /\ task[w].state \notin {"none", "live"}
SomeFailed     == \E s \in Step : Is(s, "Failed")
SomeRunning    == \E s \in Step : Is(s, "Running")

\* Mutant: a step that has been handed in counts as completed.
AllHandedIn == \A s \in Step : Completed(s) \/ Is(s, "Reviewing")

AllCompleted == \A s \in Step : Completed(s)

\* The first step of a set, None if there is none (Iterator::find).
First(S) == IF S = {} THEN None ELSE CHOOSE s \in S : \A r \in S : s <= r

\* next_unfinished_step_id
NextUnfinished(p) == First({s \in Step : ~p[s].completed})

\* next_runnable_step: a step to be verified first, then the first one to be done.
Runnable ==
  LET toVerify == {s \in Step : ~Completed(s) /\ plan[s].verify
                                /\ plan[s].status \in {"Rejected", "Reviewing"}}
      toDo     == {s \in Step : ~Completed(s)
                                /\ plan[s].status \in {"Pending", "Rejected"}}
  IN  IF toVerify # {} THEN First(toVerify) ELSE First(toDo)

\* attempt_count + 1, as far as it is compared with the budget.
Attempted(s) == IF plan[s].attempts < Budget THEN plan[s].attempts + 1 ELSE Budget

-----------------------------------------------------------------------------
\* Threads.

Go(t, l) == pc' = [pc EXCEPT ![t] = l] /\ UNCHANGED <<job, at, aim, next, synced>>

\* ... having done with its step and worker.
Leave(t, l) == /\ pc' = [pc EXCEPT ![t] = l]
               /\ at' = [at EXCEPT ![t] = None]
               /\ aim' = [aim EXCEPT ![t] = None]
               /\ UNCHANGED <<job, next, synced>>

GoAt(t, l, s) == /\ pc' = [pc EXCEPT ![t] = l]
                 /\ at' = [at EXCEPT ![t] = s]
                 /\ UNCHANGED <<job, aim, next, synced>>

\* Where a thread goes on when its on_task_event or on_notification is over.
EventOver(t) == CASE job[t] = "event" -> "event"
                  [] job[t] = "sync"  -> "synced"
                  [] OTHER            -> "done"

\* ... and when its advance_plan is, by success or by error.
AdvanceOver(t, ok) ==
  CASE t = A             -> IF ok THEN "answer" ELSE "refuse"
    [] job[t] = "start"  -> IF Headless THEN "drain" ELSE "prompt"
    [] job[t] = "loop"   -> "looped"
    [] job[t] = "final"  -> "done"
    [] OTHER             -> IF ok THEN "current"
                            ELSE IF job[t] = "sync" THEN "unsynced" ELSE EventOver(t)

\* seed_plan_for_task: the plan is in execution, and the driver advances it.  Or
\* finalize_documentation_loop: it waits for the user's approval.
Init ==
  /\ \E required \in SUBSET Approval :
       plan = [s \in Step |-> [status |-> "Pending", completed |-> FALSE, attempts |-> 0,
                               verify |-> FALSE, count |-> 0, guarded |-> FALSE,
                               tracked |-> None, approval |-> s \in required]]
  /\ stage = IF Headless THEN "Execution" ELSE "WaitingForApproval"
  /\ current = (IF Headless THEN 1 ELSE None) /\ btask = None
  /\ task = [w \in Worker |-> [state |-> "none", step |-> None, fanin |-> FALSE]]
  /\ queue = << >> /\ inbox = << >> /\ mailbox = << >>
  /\ pc = [t \in Thread |-> IF t # Driver THEN "idle"
                             ELSE IF Headless THEN "advance" ELSE "prompt"]
  /\ job = [t \in Thread |-> CASE t = Driver -> "start" [] t = A -> "review"
                               [] OTHER -> "notify"]
  /\ at = [t \in Thread |-> None]
  /\ aim = [t \in Thread |-> None]
  /\ next = [t \in Thread |-> None]
  /\ synced = FALSE
  /\ accepted = {}
  /\ given = [s \in Step |-> {}]

-----------------------------------------------------------------------------
\* advance_once, called by thread t in a loop (advance_plan).

\* Under the plan's lock: what is to be done next.
AdvanceDone(t) ==
  /\ pc[t] = "advance" /\ AllCompleted
  /\ Go(t, "complete")
  /\ UNCHANGED <<planVars, taskVars, inbox, mailbox, histVars>>

AdvanceHalt(t) ==
  /\ pc[t] = "advance" /\ ~AllCompleted /\ SomeFailed
  /\ Go(t, "halt")
  /\ UNCHANGED <<planVars, taskVars, inbox, mailbox, histVars>>

Selecting(t) == pc[t] = "advance" /\ ~AllCompleted /\ ~SomeFailed

AdvanceBusy(t) ==
  /\ Selecting(t) /\ SomeRunning
  /\ Go(t, "again")
  /\ UNCHANGED <<planVars, taskVars, inbox, mailbox, histVars>>

\* Mutant: a step that is running is not looked for.
AdvanceStepBlindly(t) ==
  /\ Selecting(t) /\ Runnable # None /\ ~plan[Runnable].approval
  /\ GoAt(t, "dispatch", Runnable)
  /\ plan' = [plan EXCEPT ![Runnable].status = "Running"]
  /\ UNCHANGED <<stage, current, btask, taskVars, inbox, mailbox, histVars>>

AdvanceStep(t) ==
  /\ Selecting(t) /\ ~SomeRunning /\ Runnable # None
  /\ IF plan[Runnable].approval
     THEN GoAt(t, "barrier", Runnable) /\ UNCHANGED plan
     ELSE /\ GoAt(t, "dispatch", Runnable)
          /\ plan' = [plan EXCEPT ![Runnable].status = "Running"]
  /\ UNCHANGED <<stage, current, btask, taskVars, inbox, mailbox, histVars>>

AdvanceReplan(t) ==
  /\ Selecting(t) /\ ~SomeRunning /\ Runnable = None
  /\ LET s == First({r \in Step : Is(r, "ReplanRequired")}) IN
       IF s = None THEN Go(t, "again") ELSE GoAt(t, "point", s)
  /\ UNCHANGED <<planVars, taskVars, inbox, mailbox, histVars>>

\* The approval barrier sets the status in a lock section of its own.
Barrier(t) ==
  /\ pc[t] = "barrier"
  /\ plan' = [plan EXCEPT ![at[t]].status = "WaitingForApproval"]
  /\ Go(t, "point")
  /\ UNCHANGED <<stage, current, btask, taskVars, inbox, mailbox, histVars>>

Point(t) ==
  /\ pc[t] = "point"
  /\ current' = at[t]
  /\ Leave(t, "again")
  /\ UNCHANGED <<plan, stage, btask, taskVars, inbox, mailbox, histVars>>

\* PlanComplete: the stage is read, then transition_to(Completed) ...
Complete(t) ==
  /\ pc[t] = "complete"
  /\ current' = None
  /\ Go(t, IF stage = "Completed" THEN "again" ELSE "finish")
  /\ UNCHANGED <<plan, stage, btask, taskVars, inbox, mailbox, histVars>>

\* ... which is an error if another thread was faster.
Finish(t) ==
  /\ pc[t] = "finish"
  /\ stage' = "Completed"
  /\ Go(t, IF stage = "Completed" THEN AdvanceOver(t, FALSE) ELSE "again")
  /\ UNCHANGED <<plan, current, btask, taskVars, inbox, mailbox, histVars>>

\* TerminalFailure: back to Documentation, an error from Completed.
Halt(t) ==
  /\ pc[t] = "halt"
  /\ current' = None
  /\ stage' = IF stage = "Completed" THEN stage ELSE "Documentation"
  /\ Go(t, IF stage = "Completed" THEN AdvanceOver(t, FALSE) ELSE "again")
  /\ UNCHANGED <<plan, btask, taskVars, inbox, mailbox, histVars>>

\* should_continue of advance_plan.
Again(t) ==
  /\ pc[t] = "again"
  /\ LET continue == /\ \E s \in Step : Completed(s) \/ Is(s, "Rejected")
                     /\ ~AllCompleted /\ ~SomeFailed /\ ~SomeRunning
                     /\ Runnable # None
     IN  Go(t, IF continue THEN "advance" ELSE AdvanceOver(t, TRUE))
  /\ UNCHANGED <<planVars, taskVars, inbox, mailbox, histVars>>

-----------------------------------------------------------------------------
\* Dispatch of step at[t].

\* find_running_b_task_id: B's worker is used again if it has not ended.
Dispatch(t) ==
  /\ pc[t] = "dispatch"
  /\ current' = at[t]
  /\ pc' = [pc EXCEPT ![t] = "launch"]
  /\ aim' = [aim EXCEPT ![t] = IF Live(btask) THEN btask ELSE None]
  /\ UNCHANGED <<plan, stage, btask, taskVars, inbox, mailbox, job, at, next, synced,
                 histVars>>

\* ContinueStep: a message to the worker, if that is still running.
Continue(t) ==
  /\ pc[t] = "launch" /\ aim[t] # None
  /\ IF Live(aim[t])
     THEN /\ btask' = aim[t] /\ Go(t, "recordB")
          /\ given' = [given EXCEPT ![at[t]] = @ \cup {aim[t]}]
     ELSE Go(t, "blocked") /\ UNCHANGED <<btask, given>>
  /\ UNCHANGED <<plan, stage, current, taskVars, inbox, mailbox, accepted>>

\* DispatchStep: a new worker, recorded as B's task by B's handler.
Spawn(t) ==
  /\ pc[t] = "launch" /\ aim[t] = None
  /\ LET w == First({v \in Worker : task[v].state = "none"}) IN
       /\ w # None
       /\ task' = [task EXCEPT ![w].state = "live", ![w].step = at[t]]
       /\ btask' = w
       /\ aim' = [aim EXCEPT ![t] = w]
       /\ given' = [given EXCEPT ![at[t]] = @ \cup {w}]
  /\ pc' = [pc EXCEPT ![t] = "recordB"]
  /\ UNCHANGED <<plan, stage, current, queue, inbox, mailbox, job, at, next, synced,
                 accepted>>

Denied(t) ==
  /\ pc[t] = "launch" /\ aim[t] = None
  /\ Denials \/ \A w \in Worker : task[w].state # "none"
  /\ Go(t, "blocked")
  /\ UNCHANGED <<planVars, taskVars, inbox, mailbox, histVars>>

\* record_step_dispatch_task_id: the session's task, then the step's.
RecordB(t) ==
  /\ pc[t] = "recordB"
  /\ btask' = aim[t]
  /\ Go(t, "recordStep")
  /\ UNCHANGED <<plan, stage, current, taskVars, inbox, mailbox, histVars>>

RecordStep(t) ==
  /\ pc[t] = "recordStep"
  /\ plan' = [plan EXCEPT ![at[t]].tracked = aim[t]]
  /\ Leave(t, "again")
  /\ UNCHANGED <<stage, current, btask, taskVars, inbox, mailbox, histVars>>

\* Mutant: the step stays as it is.
BlockedUnmarked(t) ==
  /\ pc[t] = "blocked"
  /\ Leave(t, "giveup")
  /\ UNCHANGED <<planVars, taskVars, inbox, mailbox, histVars>>

\* mark_step_recoverable_failure of a step whose dispatch or review failed ...
Blocked(t) ==
  /\ pc[t] = "blocked"
  /\ plan' = [plan EXCEPT ![at[t]].status = "Failed", ![at[t]].completed = FALSE]
  /\ Leave(t, "giveup")
  /\ UNCHANGED <<stage, current, btask, taskVars, inbox, mailbox, histVars>>

\* ... and the error it ends with in any case.
GiveUp(t) ==
  /\ pc[t] = "giveup"
  /\ stage' = IF stage = "Completed" THEN stage ELSE "Documentation"
  /\ Go(t, AdvanceOver(t, FALSE))
  /\ UNCHANGED <<plan, current, btask, taskVars, inbox, mailbox, histVars>>

Advance(t) ==
  \/ AdvanceDone(t) \/ AdvanceHalt(t) \/ AdvanceBusy(t) \/ AdvanceStep(t)
  \/ AdvanceReplan(t) \/ Barrier(t) \/ Point(t) \/ Complete(t) \/ Finish(t)
  \/ Halt(t) \/ Again(t) \/ Dispatch(t) \/ Continue(t) \/ Spawn(t) \/ Denied(t)
  \/ RecordB(t) \/ RecordStep(t) \/ Blocked(t) \/ GiveUp(t)

-----------------------------------------------------------------------------
\* A worker of B.

WorkerEnds(w, o) ==
  /\ Live(w)
  /\ task' = [task EXCEPT ![w].state = o]
  /\ queue' = Append(queue, [kind |-> "task", task |-> w])
  /\ Go(w, "notify")
  /\ UNCHANGED <<planVars, inbox, mailbox, histVars>>

\* The group its children form is complete: an event, and a notification that is
\* ignored for want of a step id.
WorkerFansIn(w) ==
  /\ w \in Parents /\ task[w].state # "none" /\ ~task[w].fanin
  /\ task' = [task EXCEPT ![w].fanin = TRUE]
  /\ queue' = Append(queue, [kind |-> "group", task |-> w])
  /\ UNCHANGED <<planVars, inbox, mailbox, threadVars, histVars>>

-----------------------------------------------------------------------------
\* on_task_event and on_notification, run by t for the end of worker w of step s.

\* Goes on with update_current_step, after maybe_auto_advance for l = "auto".
HandleOver(t, l, p) ==
  /\ plan' = p
  /\ pc' = [pc EXCEPT ![t] = l]
  /\ next' = [next EXCEPT ![t] = NextUnfinished(p)]
  /\ at' = [at EXCEPT ![t] = None] /\ aim' = [aim EXCEPT ![t] = None]
  /\ UNCHANGED <<job, synced>>

\* A step that is completed takes note of the worker, any other is reviewed.
HandleCompleted(t, s, w) ==
  IF Is(s, "Completed")
  THEN HandleOver(t, "current", [plan EXCEPT ![s].tracked = w])
  ELSE /\ plan' = [plan EXCEPT ![s].status = "Reviewing", ![s].completed = FALSE,
                               ![s].verify = FALSE, ![s].tracked = w]
       /\ pc' = [pc EXCEPT ![t] = "ask"]
       /\ at' = [at EXCEPT ![t] = s] /\ aim' = [aim EXCEPT ![t] = None]
       /\ UNCHANGED <<job, next, synced>>

Unfinished(s, w, st) ==
  [plan EXCEPT ![s].status = st, ![s].completed = FALSE, ![s].verify = FALSE,
               ![s].tracked = w]

\* Mutant: one attempt too many.
HandleFailedEventOnceMore(t, s, w) ==
  LET again == plan[s].attempts < Budget
      p     == Unfinished(s, w, IF again THEN "Rejected" ELSE "Failed")
  IN  HandleOver(t, IF again THEN "auto" ELSE "current",
                 [p EXCEPT ![s].attempts = Attempted(s)])

\* As an event (Failed or Killed): the step is tried again within its budget.
HandleFailedEvent(t, s, w) ==
  LET again == Attempted(s) < Budget
      p     == Unfinished(s, w, IF again THEN "Rejected" ELSE "Failed")
  IN  HandleOver(t, IF again THEN "auto" ELSE "current",
                 [p EXCEPT ![s].attempts = Attempted(s)])

\* As a notification: the step has failed.
HandleFailedNotification(t, s, w) ==
  HandleOver(t, "current", Unfinished(s, w, "Failed"))

Notified(w) ==
  /\ pc[w] = "notify"
  /\ IF task[w].state = "Completed" THEN HandleCompleted(w, task[w].step, w)
     ELSE HandleFailedNotification(w, task[w].step, w)
  /\ UNCHANGED <<stage, current, btask, taskVars, inbox, mailbox, histVars>>

HandleEvent(s, w) ==
  IF task[w].state = "Completed" THEN HandleCompleted(Driver, s, w)
  ELSE HandleFailedEvent(Driver, s, w)

\* maybe_auto_advance_after_completion: not while a loop guard is up.
AutoAdvance(t) ==
  /\ pc[t] = "auto"
  /\ Go(t, IF \E s \in Step : plan[s].guarded THEN AdvanceOver(t, TRUE) ELSE "advance")
  /\ UNCHANGED <<planVars, taskVars, inbox, mailbox, histVars>>

SetCurrent(t) ==
  /\ pc[t] = "current"
  /\ current' = next[t]
  /\ pc' = [pc EXCEPT ![t] = EventOver(t)]
  /\ next' = [next EXCEPT ![t] = None]
  /\ UNCHANGED <<plan, stage, btask, taskVars, inbox, mailbox, job, at, aim, synced,
                 histVars>>

\* trigger_review_for_completed_step: the request to A, whose answer is awaited.
Ask(t) ==
  /\ pc[t] = "ask"
  /\ current' = at[t]
  /\ mailbox' = Append(mailbox, [by |-> t, step |-> at[t]])
  /\ Go(t, "review")
  /\ UNCHANGED <<plan, stage, btask, taskVars, inbox, histVars>>

Handle(t) == AutoAdvance(t) \/ SetCurrent(t) \/ Ask(t)

-----------------------------------------------------------------------------
\* The user, at the prompt of an interactive session.

\* handle_user_approval: A is told, and with A's callbacks wired nobody sets the
\* stage ...
Approve ==
  /\ pc[Driver] = "prompt" /\ stage = "WaitingForApproval"
  /\ mailbox' = Append(mailbox, [by |-> Driver, step |-> None])
  /\ Go(Driver, "approval")
  /\ UNCHANGED <<planVars, taskVars, inbox, histVars>>

\* ... A confirms, and the command advances the plan.
Approved ==
  /\ pc[A] = "idle" /\ mailbox # << >> /\ Head(mailbox).step = None
  /\ mailbox' = Tail(mailbox)
  /\ Go(Driver, "advance")
  /\ UNCHANGED <<planVars, taskVars, inbox, histVars>>

-----------------------------------------------------------------------------
\* Designer A: the review at the head of its mailbox (apply_review_verdict).

Judging(v) == /\ pc[A] = "idle" /\ mailbox # << >> /\ Head(mailbox).step # None
              /\ v \in Verdicts
Judged     == Head(mailbox).step

JudgeAccept ==
  /\ Judging("Accept")
  /\ plan' = [plan EXCEPT ![Judged].status = "Completed", ![Judged].completed = TRUE,
                          ![Judged].verify = FALSE]
  /\ accepted' = accepted \cup {Judged}
  /\ Go(A, "accepted")
  /\ UNCHANGED <<stage, current, btask, taskVars, inbox, mailbox, given>>

\* The loop guard: evidence says whether the worker had new evidence, same whether
\* the situation is the one of the last review.
Guarded(r, evidence, same) ==
  LET n == IF same /\ ~evidence /\ r.count > 0 THEN r.count + 1 ELSE 1
      g == IF n >= LoopLimit THEN TRUE ELSE ~evidence /\ r.guarded
  IN  [r EXCEPT !.count = IF n > LoopLimit THEN LoopLimit ELSE n, !.guarded = g,
                !.status = IF n >= LoopLimit THEN "Failed" ELSE "Rejected"]

\* Mutant: the attempt is not counted.
JudgeCorrectUncounted ==
  /\ Judging("Correct")
  /\ \E verify, evidence, same \in BOOLEAN :
       plan' = [plan EXCEPT ![Judged] =
                  Guarded([plan[Judged] EXCEPT !.verify = verify], evidence, same)]
  /\ Go(A, "answer")
  /\ UNCHANGED <<stage, current, btask, taskVars, inbox, mailbox, histVars>>

\* The correction may ask for verification first.
JudgeCorrect ==
  /\ Judging("Correct")
  /\ LET r == [plan[Judged] EXCEPT !.attempts = Attempted(Judged)] IN
       IF r.attempts >= Budget
       THEN plan' = [plan EXCEPT ![Judged] = [r EXCEPT !.status = "Failed"]]
       ELSE \E verify, evidence, same \in BOOLEAN :
              plan' = [plan EXCEPT ![Judged] =
                         Guarded([r EXCEPT !.verify = verify], evidence, same)]
  /\ Go(A, "answer")
  /\ UNCHANGED <<stage, current, btask, taskVars, inbox, mailbox, histVars>>

JudgeReplan ==
  /\ Judging("Replan")
  /\ plan' = [plan EXCEPT ![Judged].status = "ReplanRequired", ![Judged].verify = FALSE]
  /\ Go(A, "answer")
  /\ UNCHANGED <<stage, current, btask, taskVars, inbox, mailbox, histVars>>

\* After an accepted step A points to the next one and advances the plan.
Accepted ==
  /\ pc[A] = "accepted"
  /\ current' = NextUnfinished(plan)
  /\ Go(A, IF NextUnfinished(plan) = None THEN "answer" ELSE "auto")
  /\ UNCHANGED <<plan, stage, btask, taskVars, inbox, mailbox, histVars>>

\* Mutant: there is no answer when A's handler had an error.
AnswerUnlessRefused ==
  /\ pc[A] \in {"answer", "refuse"}
  /\ IF pc[A] = "refuse" THEN Go(A, "idle")
     ELSE LET t == Head(mailbox).by IN
          /\ pc' = [pc EXCEPT ![A] = "idle", ![t] = EventOver(t)]
          /\ at' = [at EXCEPT ![t] = None]
          /\ UNCHANGED <<job, aim, next, synced>>
  /\ mailbox' = Tail(mailbox)
  /\ UNCHANGED <<planVars, taskVars, inbox, histVars>>

\* Who asked returns, or marks the step failed if A's handler had an error.
Answer ==
  /\ pc[A] \in {"answer", "refuse"}
  /\ LET t == Head(mailbox).by
         ok == pc[A] = "answer"
     IN  /\ pc' = [pc EXCEPT ![A] = "idle", ![t] = IF ok THEN EventOver(t) ELSE "blocked"]
         /\ at' = [at EXCEPT ![t] = IF ok THEN None ELSE @]
  /\ mailbox' = Tail(mailbox)
  /\ UNCHANGED <<planVars, taskVars, inbox, job, aim, next, synced, histVars>>

Review == JudgeAccept \/ JudgeCorrect \/ JudgeReplan \/ Accepted \/ Answer \/ Approved

-----------------------------------------------------------------------------
\* The headless run's loop.

Drain ==
  /\ pc[Driver] = "drain"
  /\ inbox' = queue /\ queue' = << >>
  /\ pc' = [pc EXCEPT ![Driver] = "event"] /\ job' = [job EXCEPT ![Driver] = "event"]
  /\ UNCHANGED <<planVars, task, mailbox, at, aim, next, synced, histVars>>

\* Mutant: a group's event is handled as the completion of its worker.
TakeEventOfGroup ==
  /\ pc[Driver] = "event" /\ inbox # << >>
  /\ inbox' = Tail(inbox)
  /\ HandleCompleted(Driver, task[Head(inbox).task].step, Head(inbox).task)
  /\ UNCHANGED <<stage, current, btask, taskVars, mailbox, histVars>>

\* A group's event puts the step it belongs to under review without asking for one.
TakeEvent ==
  /\ pc[Driver] = "event" /\ inbox # << >>
  /\ inbox' = Tail(inbox)
  /\ LET w == Head(inbox).task
         s == First({r \in Step : plan[r].tracked = w})
     IN  IF Head(inbox).kind = "task" THEN HandleEvent(task[w].step, w)
         ELSE /\ plan' = IF s = None THEN plan
                         ELSE [plan EXCEPT ![s].status = "Reviewing"]
              /\ UNCHANGED threadVars
  /\ UNCHANGED <<stage, current, btask, taskVars, mailbox, histVars>>

PollStage ==
  /\ pc[Driver] = "event" /\ inbox = << >>
  /\ Go(Driver, IF stage = "Completed" THEN "done" ELSE "pollFailure")
  /\ UNCHANGED <<planVars, taskVars, inbox, mailbox, histVars>>

PollFailure ==
  /\ pc[Driver] = "pollFailure"
  /\ pc' = [pc EXCEPT ![Driver] = IF SomeFailed THEN "advance" ELSE "pollWorkers"]
  /\ job' = [job EXCEPT ![Driver] = IF SomeFailed THEN "final" ELSE @]
  /\ UNCHANGED <<planVars, taskVars, inbox, mailbox, at, aim, next, synced, histVars>>

CurrentWorker == IF current = None THEN None ELSE plan[current].tracked

PollWorkers ==
  /\ pc[Driver] = "pollWorkers"
  /\ Go(Driver, IF Over(btask) \/ Over(CurrentWorker) THEN "sync" ELSE "drain")
  /\ UNCHANGED <<planVars, taskVars, inbox, mailbox, histVars>>

\* Steps sync_terminal_child_task_state takes up: their worker has ended.
Overdue == {s \in Step : /\ ~Completed(s) /\ ~Is(s, "Failed")
                         /\ Over(plan[s].tracked)}

Sync ==
  /\ pc[Driver] = "sync"
  /\ LET s == IF current \in Overdue THEN current ELSE First(Overdue) IN
       /\ pc' = [pc EXCEPT ![Driver] = IF s = None THEN "synced" ELSE "synth"]
       /\ at' = [at EXCEPT ![Driver] = s]
       /\ aim' = [aim EXCEPT ![Driver] = IF s = None THEN None ELSE plan[s].tracked]
       /\ synced' = (s # None)
  /\ job' = [job EXCEPT ![Driver] = "sync"]
  /\ UNCHANGED <<planVars, taskVars, inbox, mailbox, next, histVars>>

\* The event it makes up.
SyncEvent ==
  /\ pc[Driver] = "synth"
  /\ HandleEvent(at[Driver], aim[Driver])
  /\ UNCHANGED <<stage, current, btask, taskVars, inbox, mailbox, histVars>>

Synced ==
  /\ pc[Driver] \in {"synced", "unsynced"}
  /\ pc' = [pc EXCEPT ![Driver] = "advance"] /\ job' = [job EXCEPT ![Driver] = "loop"]
  /\ synced' = (synced /\ pc[Driver] = "synced")
  /\ UNCHANGED <<planVars, taskVars, inbox, mailbox, at, aim, next, histVars>>

\* The loop ends when the plan is complete, or nothing was left to wait for.
Looped ==
  /\ pc[Driver] = "looped"
  /\ Go(Driver, IF stage = "Completed" THEN "done" ELSE "tail")
  /\ UNCHANGED <<planVars, taskVars, inbox, mailbox, histVars>>

LoopTail ==
  /\ pc[Driver] = "tail"
  /\ Go(Driver, IF Live(btask) \/ Live(CurrentWorker) \/ synced THEN "drain" ELSE "done")
  /\ UNCHANGED <<planVars, taskVars, inbox, mailbox, histVars>>

\* The run's time is up, which it sees at the end of a round.
Deadline ==
  /\ pc[Driver] = "drain" /\ job[Driver] # "start"
  /\ Go(Driver, "done")
  /\ UNCHANGED <<planVars, taskVars, inbox, mailbox, histVars>>

Drive == Drain \/ TakeEvent \/ PollStage \/ PollFailure \/ PollWorkers \/ Sync
         \/ SyncEvent \/ Synced \/ Looped \/ LoopTail

-----------------------------------------------------------------------------
Next ==
  \/ \E t \in Thread : Advance(t) \/ Handle(t)
  \/ \E w \in Worker : Notified(w) \/ WorkerFansIn(w)
                       \/ \E o \in {"Completed", "Failed"} : WorkerEnds(w, o)
  \/ Review \/ Approve \/ Drive \/ Deadline

Spec == Init /\ [][Next]_vars

\* Threads are scheduled; a worker ends and A answers (their turns are bounded).
\* Nobody's time has to run out, and the user need not come back.
FairSpec ==
  /\ Spec
  /\ \A t \in Thread : WF_vars(Advance(t) \/ Handle(t))
  /\ \A w \in Worker : /\ WF_vars(Notified(w))
                       /\ WF_vars(\E o \in {"Completed", "Failed"} : WorkerEnds(w, o))
  /\ WF_vars(Review) /\ WF_vars(Drive)

-----------------------------------------------------------------------------
StepRecord == [status : {"Pending", "Running", "WaitingForApproval", "Reviewing",
                         "Rejected", "ReplanRequired", "Completed", "Failed"},
               completed : BOOLEAN, attempts : 0 .. Budget, verify : BOOLEAN,
               count : 0 .. LoopLimit, guarded : BOOLEAN,
               tracked : Worker \cup {None}, approval : BOOLEAN]

Label == {"idle", "done",
          "advance", "complete", "finish", "halt", "barrier", "point", "again",
          "dispatch", "launch", "recordB", "recordStep", "blocked", "giveup",
          "notify", "auto", "current", "ask", "review",
          "prompt", "approval", "accepted", "answer", "refuse",
          "drain", "event", "pollFailure", "pollWorkers", "sync", "synth", "synced",
          "unsynced", "looped", "tail"}

PlanTypeOK ==
  /\ plan \in [Step -> StepRecord]
  /\ stage \in {"WaitingForApproval", "Execution", "Documentation", "Completed"}
  /\ current \in Step \cup {None} /\ btask \in Worker \cup {None}
  /\ accepted \subseteq Step /\ given \in [Step -> SUBSET Worker]

TaskTypeOK ==
  /\ task \in [Worker -> [state : {"none", "live", "Completed", "Failed"},
                          step : Step \cup {None}, fanin : BOOLEAN]]
  /\ queue \in Seq([kind : {"task", "group"}, task : Worker])
  /\ inbox \in Seq([kind : {"task", "group"}, task : Worker])
  /\ mailbox \in Seq([by : Thread \ {A}, step : Step \cup {None}])

ThreadTypeOK ==
  /\ pc \in [Thread -> Label]
  /\ job \in [Thread -> {"start", "loop", "final", "event", "sync", "notify", "review"}]
  /\ at \in [Thread -> Step \cup {None}] /\ next \in [Thread -> Step \cup {None}]
  /\ aim \in [Thread -> Worker \cup {None}]
  /\ synced \in BOOLEAN

\* Every variable has its type.
TypeOK == PlanTypeOK /\ TaskTypeOK /\ ThreadTypeOK

Launched(s) == {w \in Worker : task[w].step = s}

\* However many threads advance the plan, at most one step is marked as being
\* carried out (advance_once).
OneStepRuns == \A s, r \in Step : Is(s, "Running") /\ Is(r, "Running") => s = r

\* The plan's stage is Completed only when A has accepted every step, although the
\* steps are looked at before the stage is set and late events may come between.
CompletedWasAccepted == stage = "Completed" => accepted = Step

\* A accepts a step only if a worker the step was given to has completed, however
\* often an end is reported, and although a worker may be passed on to another step.
AcceptedWasDone ==
  \A s \in accepted : \E w \in given[s] : task[w].state = "Completed"

\* Every worker a step gets after its first is paid for with an attempt, and a step
\* that is to be tried again has one left, although each end of a worker is reported
\* twice and counted by whoever handles it: no step gets more workers than its budget.
WithinBudget ==
  \A s \in Step : /\ Cardinality(Launched(s)) <= plan[s].attempts + 1
                  /\ Cardinality(Launched(s)) <= Budget
                  /\ Is(s, "Rejected") => plan[s].attempts < Budget

\* The promises of a plan (PlanLedger).  They hold step by step, so every launch finds
\* the workers before it paid for, although the thread that makes it decided to long
\* before; and a plan that is completed stays so (advance_once, on_task_event,
\* apply_review_verdict, transition_to).
Ledger ==
  INSTANCE PlanLedger WITH
    tried    <- {s \in Step : given[s] # {}},
    workers  <- [s \in Step |-> Cardinality(Launched(s))],
    attempts <- [s \in Step |-> plan[s].attempts],
    done     <- {s \in Step : \E w \in given[s] : task[w].state = "Completed"},
    finished <- stage = "Completed"
LedgerSpec == Ledger!Spec

\* A headless run ends by itself, without its deadline, when A asks for no replanning:
\* no failure, denial or late report leaves it polling.
EveryRunEnds == <>(pc[Driver] = "done")

\* A answers every request for a review, although it advances the plan itself before
\* it does: who asked is not left waiting.
EveryReviewAnswered == \A t \in Thread : pc[t] = "review" ~> pc[t] # "review"
=============================================================================
