--------------------------- MODULE BossPlanProofs ---------------------------
(***************************************************************************)
(* Proofs about BossPlan, for any number of steps and workers, any budget  *)
(* and loop guard, and whatever A answers.                                 *)
(*                                                                         *)
(* What makes an accepted step a step that was done is a chain of claims:  *)
(* who is about to record a worker has given it to the step, so the worker *)
(* a step or a task record names is one the step was given to; a review is *)
(* asked for only when such a worker has completed; and that stays so, for *)
(* a worker is never taken from a step and never runs again.               *)
(*                                                                         *)
(* What keeps a step within its budget is a second invariant (BInv, in the *)
(* second half), which counts the threads about to launch a worker with    *)
(* the workers launched; with it every launch finds the workers before it  *)
(* paid for, so the plan keeps the promises of PlanLedger step by step.    *)
(***************************************************************************)
EXTENDS BossPlan, WellFoundedInduction, FiniteSetTheorems, SequenceTheorems, TLAPS

\* A worker the step was given to has completed.
Done(s) == \E w \in given[s] : task[w].state = "Completed"

\* What the threads know of the step and the worker they are at.
AtStep ==
  \A t \in Thread :
    /\ pc[t] \in {"dispatch", "launch", "recordB", "recordStep"} => at[t] \in Step
    /\ pc[t] \in {"recordB", "recordStep"} => aim[t] \in given[at[t]]
    /\ pc[t] = "synth" => at[t] \in Step /\ aim[t] \in given[at[t]]

\* A review is asked for, by somebody else than A, of a step that was done.
Asked ==
  /\ \A t \in Thread : pc[t] = "ask" => t # A /\ at[t] \in Step /\ Done(at[t])
  /\ \A i \in DOMAIN mailbox : mailbox[i].step # None => Done(mailbox[i].step)

\* Records name only workers the step was given to.
Recorded ==
  /\ \A w \in Worker : /\ task[w].state # "none" => task[w].step # None
                       /\ task[w].step # None => w \in given[task[w].step]
  /\ \A s \in Step : plan[s].tracked # None => plan[s].tracked \in given[s]

\* Completed steps were accepted, and who is about to complete the plan has found
\* that all were.
Finished ==
  /\ \A s \in Step : Completed(s) => s \in accepted
  /\ \A t \in Thread : pc[t] \in {"complete", "finish"} => accepted = Step
  /\ stage = "Completed" => accepted = Step

IInv == /\ TypeOK /\ OneStepRuns /\ AtStep /\ Asked /\ Recorded /\ Finished
        /\ AcceptedWasDone

-----------------------------------------------------------------------------
\* Sets, labels and choices.

\* Every set of natural numbers that is not empty has a least element.
LEMMA LeastNat ==
  ASSUME NEW T \in SUBSET Nat, T # {}
  PROVE  \E m \in T : \A k \in T : m <= k
<1> DEFINE R == OpToRel(<, Nat)
<1>1. IsWellFoundedOn(R, Nat)
  BY NatLessThanWellFounded
<1>2. \A x, y \in Nat : <<y, x>> \in R <=> y < x
  BY DEF OpToRel
<1> HIDE DEF R
<1>3. PICK m \in T : \A k \in T : ~ (<<k, m>> \in R)
  BY <1>1, WFMin
<1>4. \A k \in T : k \in Nat /\ m \in Nat /\ ~ (k < m)
  BY <1>2, <1>3
<1> QED BY <1>4

LEMMA Threads == /\ Driver \in Thread /\ A \in Thread /\ Driver # A
                 /\ Worker \subseteq Thread /\ A \notin Worker /\ Driver \notin Worker
                 /\ None \notin Step /\ None \notin Worker
  BY PlanAssumption DEF Thread, Worker, Step, None, Driver, A

\* First picks a member of the set, if it has one.
LEMMA FirstOf ==
  ASSUME NEW S \in SUBSET Nat
  PROVE  IF S = {} THEN First(S) = None ELSE First(S) \in S
<1>1. CASE S = {}
  BY <1>1 DEF First
<1>2. CASE S # {}
  <2>1. PICK m \in S : \A k \in S : m <= k
    BY <1>2, LeastNat
  <2> QED BY <1>2, <2>1 DEF First
<1> QED BY <1>1, <1>2

LEMMA FirstStep ==
  ASSUME NEW S \in SUBSET Step
  PROVE  /\ First(S) \in S \cup {None}
         /\ First(S) # None => First(S) \in S
         /\ First(S) \in Step \cup {None}
<1>1. S \in SUBSET Nat
  BY PlanAssumption DEF Step
<1> QED BY <1>1, FirstOf

LEMMA FirstWorker ==
  ASSUME NEW S \in SUBSET Worker, First(S) # None
  PROVE  First(S) \in S
<1>1. S \in SUBSET Nat
  BY PlanAssumption DEF Worker
<1> QED BY <1>1, FirstOf

LEMMA NextUnfinishedType ==
  ASSUME NEW p PROVE NextUnfinished(p) \in Step \cup {None}
  BY FirstStep DEF NextUnfinished

LEMMA RunnableType == /\ Runnable \in Step \cup {None}
                      /\ Runnable # None => Runnable \in Step /\ ~Completed(Runnable)
<1> DEFINE V == {s \in Step : ~Completed(s) /\ plan[s].verify
                               /\ plan[s].status \in {"Rejected", "Reviewing"}}
           D == {s \in Step : ~Completed(s) /\ plan[s].status \in {"Pending", "Rejected"}}
<1>1. Runnable = IF V # {} THEN First(V) ELSE First(D)
  BY DEF Runnable
<1>2. /\ First(V) \in V \cup {None} /\ First(V) \in Step \cup {None}
      /\ First(D) \in D \cup {None} /\ First(D) \in Step \cup {None}
  BY FirstStep
<1> QED BY <1>1, <1>2, Threads

\* Labels at which the invariant says nothing of a thread.
Free == Label \ {"dispatch", "launch", "recordB", "recordStep", "synth", "ask",
                 "complete", "finish"}

LEMMA OverIsFree ==
  ASSUME NEW t, NEW ok
  PROVE  EventOver(t) \in Free /\ AdvanceOver(t, ok) \in Free
<1>1. EventOver(t) \in {"event", "synced", "done"}
  BY DEF EventOver
<1>2. AdvanceOver(t, ok) \in {"answer", "refuse", "drain", "prompt", "looped", "done",
                             "current", "unsynced"} \cup {EventOver(t)}
  BY DEF AdvanceOver
<1> QED BY <1>1, <1>2 DEF Free, Label

\* Whatever happens, what was done stays done.
LEMMA DoneStays ==
  ASSUME TypeOK,
         \A s \in Step : given[s] \subseteq given'[s],
         \A w \in Worker : task[w].state = "Completed" => task'[w].state = "Completed"
  PROVE  \A s \in Step : Done(s) => Done(s)'
  BY DEF Done, TypeOK, PlanTypeOK

\* A step that moves one thread, to a label whose claims it fulfils, and changes
\* neither plan nor tasks nor mailbox.
LEMMA Move ==
  ASSUME IInv, NEW t \in Thread, NEW l \in Label \ {"ask"},
         pc' = [pc EXCEPT ![t] = l], ThreadTypeOK',
         UNCHANGED <<plan, task, queue, inbox, mailbox, accepted, given>>,
         stage' \in {"WaitingForApproval", "Execution", "Documentation", "Completed"},
         stage' = "Completed" => accepted = Step,
         current' \in Step \cup {None}, btask' \in Worker \cup {None},
         \A u \in Thread \ {t} : at'[u] = at[u] /\ aim'[u] = aim[u],
         l \in {"dispatch", "launch", "recordB", "recordStep", "synth"} => at'[t] \in Step,
         l \in {"recordB", "recordStep", "synth"} => aim'[t] \in given[at'[t]],
         l \in {"complete", "finish"} => accepted = Step
  PROVE  IInv'
<1> USE DEF IInv
<1>0. /\ pc'[t] = l
      /\ \A u \in Thread \ {t} : pc'[u] = pc[u] /\ at'[u] = at[u] /\ aim'[u] = aim[u]
  BY DEF TypeOK, ThreadTypeOK
<1>1. TypeOK'
  BY DEF TypeOK, PlanTypeOK, TaskTypeOK
<1>2. OneStepRuns' /\ Recorded' /\ AcceptedWasDone'
  BY DEF OneStepRuns, Recorded, AcceptedWasDone, Is
<1>3. AtStep'
  <2> SUFFICES ASSUME NEW u \in Thread
               PROVE  /\ pc'[u] \in {"dispatch", "launch", "recordB", "recordStep"}
                           => at'[u] \in Step
                      /\ pc'[u] \in {"recordB", "recordStep"} => aim'[u] \in given[at'[u]]
                      /\ pc'[u] = "synth" => at'[u] \in Step /\ aim'[u] \in given[at'[u]]
    BY DEF AtStep
  <2>1. CASE u = t
    BY <2>1, <1>0
  <2>2. CASE u # t
    BY <2>2, <1>0 DEF AtStep
  <2> QED BY <2>1, <2>2
<1>4. Asked'
  <2>1. \A s : Done(s)' <=> Done(s)
    BY DEF Done
  <2> QED BY <1>0, <2>1 DEF Asked
<1>5. Finished'
  BY <1>0 DEF Finished, Completed
<1> QED BY <1>1, <1>2, <1>3, <1>4, <1>5

-----------------------------------------------------------------------------
\* The steps of advance_plan.

\* A step that goes to a label without claims.
LEMMA GoFree ==
  ASSUME IInv, NEW t \in Thread, NEW l \in Free, Go(t, l),
         UNCHANGED <<plan, task, queue, inbox, mailbox, accepted, given>>,
         stage' \in {"WaitingForApproval", "Execution", "Documentation", "Completed"},
         stage' = "Completed" => accepted = Step,
         current' \in Step \cup {None}, btask' \in Worker \cup {None}
  PROVE  IInv'
<1>1. ThreadTypeOK'
  BY DEF IInv, TypeOK, ThreadTypeOK, Go, Free
<1> QED BY <1>1, Move DEF Go, Free

\* The same of a step that forgets where it was.
LEMMA LeaveFree ==
  ASSUME IInv, NEW t \in Thread, NEW l \in Free, Leave(t, l),
         UNCHANGED <<plan, task, queue, inbox, mailbox, accepted, given>>,
         stage' = stage, current' \in Step \cup {None}, btask' \in Worker \cup {None}
  PROVE  IInv'
<1>1. ThreadTypeOK'
  BY DEF IInv, TypeOK, ThreadTypeOK, Leave, Free
<1>2. \A u \in Thread \ {t} : at'[u] = at[u] /\ aim'[u] = aim[u]
  BY DEF IInv, TypeOK, ThreadTypeOK, Leave
<1>3. /\ stage' \in {"WaitingForApproval", "Execution", "Documentation", "Completed"}
      /\ stage' = "Completed" => accepted = Step
  BY DEF IInv, TypeOK, PlanTypeOK, Finished
<1> QED BY <1>1, <1>2, <1>3, Move DEF Leave, Free

LEMMA StageType ==
  ASSUME IInv
  PROVE  /\ stage \in {"WaitingForApproval", "Execution", "Documentation", "Completed"}
         /\ stage = "Completed" => accepted = Step
         /\ current \in Step \cup {None} /\ btask \in Worker \cup {None}
  BY DEF IInv, TypeOK, PlanTypeOK, Finished

LEMMA AdvanceGoes ==
  ASSUME IInv, NEW t \in Thread,
         AdvanceHalt(t) \/ AdvanceBusy(t) \/ Halt(t) \/ Again(t) \/ Denied(t) \/ GiveUp(t)
  PROVE  IInv'
<1> USE StageType DEF planVars, taskVars, histVars
<1>1. {"halt", "again", "advance", "blocked"} \subseteq Free
  BY DEF Free, Label
<1>2. CASE AdvanceHalt(t)
  BY <1>1, <1>2, GoFree DEF AdvanceHalt
<1>3. CASE AdvanceBusy(t)
  BY <1>1, <1>3, GoFree DEF AdvanceBusy
<1>4. CASE Halt(t)
  <2>1. PICK l \in Free : Go(t, l)
    BY <1>1, <1>4, OverIsFree DEF Halt
  <2>2. current' \in Step \cup {None} /\ stage' \in {stage, "Documentation"}
    BY <1>4 DEF Halt
  <2> QED BY <1>4, <2>1, <2>2, GoFree DEF Halt
<1>5. CASE Again(t)
  <2>1. PICK l \in Free : Go(t, l)
    BY <1>1, <1>5, OverIsFree DEF Again
  <2> QED BY <1>5, <2>1, GoFree DEF Again
<1>6. CASE Denied(t)
  BY <1>1, <1>6, GoFree DEF Denied
<1>7. CASE GiveUp(t)
  <2>1. PICK l \in Free : Go(t, l)
    BY <1>7, OverIsFree DEF GiveUp
  <2>2. stage' \in {stage, "Documentation"}
    BY <1>7 DEF GiveUp
  <2> QED BY <1>7, <2>1, <2>2, GoFree DEF GiveUp
<1> QED BY <1>2, <1>3, <1>4, <1>5, <1>6, <1>7

\* A thread that finds every step completed knows that all were accepted.
LEMMA AdvanceDoneStep ==
  ASSUME IInv, NEW t \in Thread, AdvanceDone(t) \/ Complete(t) \/ Finish(t)
  PROVE  IInv'
<1> USE StageType DEF planVars, taskVars, histVars
<1>1. accepted = Step
  BY DEF IInv, TypeOK, PlanTypeOK, Finished, AdvanceDone, AllCompleted, Complete, Finish
<1>2. PICK l \in Free \cup {"complete", "finish"} : Go(t, l)
  <2>1. "again" \in Free
    BY DEF Free, Label
  <2> QED BY <2>1, OverIsFree DEF AdvanceDone, Complete, Finish
<1>3. ThreadTypeOK'
  BY <1>2 DEF IInv, TypeOK, ThreadTypeOK, Go, Free, Label
<1>4. l \in Label \ {"ask"} /\ l \notin {"dispatch", "launch", "recordB", "recordStep", "synth"}
  BY DEF Free, Label
<1>5. /\ UNCHANGED <<plan, task, queue, inbox, mailbox, accepted, given, btask>>
      /\ current' \in {current, None} /\ stage' \in {stage, "Completed"}
  BY DEF AdvanceDone, Complete, Finish
<1> QED BY <1>1, <1>2, <1>3, <1>4, <1>5, Move DEF Go

LEMMA AdvanceReplanStep ==
  ASSUME IInv, NEW t \in Thread, AdvanceReplan(t) PROVE IInv'
<1> USE StageType DEF planVars, taskVars, histVars
<1> DEFINE s == First({r \in Step : Is(r, "ReplanRequired")})
<1>1. s \in Step \cup {None}
  BY FirstStep
<1>2. CASE s = None
  <2>1. Go(t, "again") /\ "again" \in Free
    BY <1>2 DEF AdvanceReplan, Free, Label
  <2> QED BY <2>1, GoFree DEF AdvanceReplan
<1>3. CASE s # None
  <2>1. GoAt(t, "point", s)
    BY <1>3 DEF AdvanceReplan
  <2>2. ThreadTypeOK'
    BY <1>1, <2>1 DEF IInv, TypeOK, ThreadTypeOK, GoAt, Label
  <2>3. \A u \in Thread \ {t} : at'[u] = at[u] /\ aim'[u] = aim[u]
    BY <2>1 DEF IInv, TypeOK, ThreadTypeOK, GoAt
  <2>4. "point" \in Label \ {"ask"}
    BY DEF Label
  <2> QED BY <2>1, <2>2, <2>3, <2>4, Move DEF GoAt, AdvanceReplan
<1> QED BY <1>2, <1>3

LEMMA PointStep ==
  ASSUME IInv, NEW t \in Thread, Point(t) PROVE IInv'
<1>1. current' \in Step \cup {None} /\ Leave(t, "again") /\ "again" \in Free
  BY DEF IInv, TypeOK, ThreadTypeOK, Point, Free, Label
<1> QED BY <1>1, LeaveFree, StageType DEF Point, taskVars, histVars

LEMMA DispatchStep ==
  ASSUME IInv, NEW t \in Thread, Dispatch(t) PROVE IInv'
<1>1. ThreadTypeOK' /\ at'[t] = at[t] /\ at[t] \in Step /\ current' \in Step
  BY DEF IInv, TypeOK, PlanTypeOK, ThreadTypeOK, Dispatch, AtStep, Label
<1>2. \A u \in Thread \ {t} : at'[u] = at[u] /\ aim'[u] = aim[u]
  BY DEF IInv, TypeOK, ThreadTypeOK, Dispatch
<1>3. "launch" \in Label \ {"ask"}
  BY DEF Label
<1> QED BY <1>1, <1>2, <1>3, StageType, Move DEF Dispatch, taskVars, histVars

LEMMA RecordBStep ==
  ASSUME IInv, NEW t \in Thread, RecordB(t) PROVE IInv'
<1>1. ThreadTypeOK'
  BY DEF IInv, TypeOK, ThreadTypeOK, RecordB, Go, Label
<1>2. at[t] \in Step /\ aim[t] \in given[at[t]] /\ aim[t] \in Worker \cup {None}
  BY DEF IInv, TypeOK, ThreadTypeOK, RecordB, AtStep
<1>3. "recordStep" \in Label \ {"ask"}
  BY DEF Label
<1> QED BY <1>1, <1>2, <1>3, StageType, Move DEF RecordB, Go, taskVars, histVars

\* No other step starts to run.
LEMMA StillOne ==
  ASSUME OneStepRuns,
         \A s \in Step : plan'[s].status = "Running" => plan[s].status = "Running"
  PROVE  OneStepRuns'
  BY DEF OneStepRuns, Is

\* A step that changes the plan and moves one thread, but leaves tasks and mailbox.
LEMMA Change ==
  ASSUME IInv, NEW t \in Thread, NEW l \in Free \cup {"ask", "dispatch"},
         pc' = [pc EXCEPT ![t] = l], ThreadTypeOK', plan' \in [Step -> StepRecord],
         UNCHANGED <<stage, current, btask, task, queue, mailbox, given>>,
         inbox' \in Seq([kind : {"task", "group"}, task : Worker]),
         \A u \in Thread \ {t} : at'[u] = at[u] /\ aim'[u] = aim[u],
         l = "ask" => t # A /\ at'[t] \in Step /\ Done(at'[t]),
         l = "dispatch" => at'[t] \in Step,
         OneStepRuns',
         accepted \subseteq accepted', accepted' \subseteq Step,
         \A s \in accepted' : s \in accepted \/ Done(s),
         \A s \in Step : plan'[s].completed => plan[s].completed \/ s \in accepted',
         \A s \in Step : \/ plan'[s].tracked \in {None, plan[s].tracked}
                         \/ plan'[s].tracked \in given[s]
  PROVE  IInv'
<1> USE DEF IInv
<1>0. /\ pc'[t] = l
      /\ \A u \in Thread \ {t} : pc'[u] = pc[u] /\ at'[u] = at[u] /\ aim'[u] = aim[u]
  BY DEF TypeOK, ThreadTypeOK
<1>1. TypeOK'
  BY DEF TypeOK, PlanTypeOK, TaskTypeOK
<1>3. Recorded'
  BY DEF Recorded
<1>4. AtStep'
  <2> SUFFICES ASSUME NEW u \in Thread
               PROVE  /\ pc'[u] \in {"dispatch", "launch", "recordB", "recordStep"}
                           => at'[u] \in Step
                      /\ pc'[u] \in {"recordB", "recordStep"} => aim'[u] \in given[at'[u]]
                      /\ pc'[u] = "synth" => at'[u] \in Step /\ aim'[u] \in given[at'[u]]
    BY DEF AtStep
  <2>1. CASE u = t
    BY <2>1, <1>0 DEF Free
  <2>2. CASE u # t
    BY <2>2, <1>0 DEF AtStep
  <2> QED BY <2>1, <2>2
<1>5. \A s : Done(s)' <=> Done(s)
  BY DEF Done
<1>6. Asked'
  <2>1. ASSUME NEW u \in Thread, pc'[u] = "ask"
        PROVE  u # A /\ at'[u] \in Step /\ Done(at'[u])
    <3>1. CASE u = t
      BY <2>1, <3>1, <1>0
    <3>2. CASE u # t
      BY <2>1, <3>2, <1>0 DEF Asked
    <3> QED BY <3>1, <3>2
  <2> QED BY <1>5, <2>1 DEF Asked
<1>7. Finished'
  <2>1. accepted = Step => accepted' = Step
    OBVIOUS
  <2> QED BY <1>0, <2>1 DEF Finished, Completed, Free
<1>8. AcceptedWasDone'
  BY DEF AcceptedWasDone, Done
<1> QED BY <1>1, <1>3, <1>4, <1>6, <1>7, <1>8

\* An update of a field leaves a plan a plan.
LEMMA FieldType ==
  ASSUME NEW p \in [Step -> StepRecord], NEW s
  PROVE  /\ \A st \in {"Running", "WaitingForApproval", "Reviewing", "Rejected",
                       "ReplanRequired", "Completed", "Failed"} :
              [p EXCEPT ![s].status = st] \in [Step -> StepRecord]
         /\ \A b \in BOOLEAN : /\ [p EXCEPT ![s].completed = b] \in [Step -> StepRecord]
                              /\ [p EXCEPT ![s].verify = b] \in [Step -> StepRecord]
         /\ \A n \in 0 .. Budget : [p EXCEPT ![s].attempts = n] \in [Step -> StepRecord]
         /\ \A w \in Worker \cup {None} :
              [p EXCEPT ![s].tracked = w] \in [Step -> StepRecord]
<1>1. ASSUME NEW st \in {"Running", "WaitingForApproval", "Reviewing", "Rejected",
                        "ReplanRequired", "Completed", "Failed"}
      PROVE  [p EXCEPT ![s].status = st] \in [Step -> StepRecord]
  BY ZenonT(30) DEF StepRecord
<1>2. ASSUME NEW b \in BOOLEAN PROVE [p EXCEPT ![s].completed = b] \in [Step -> StepRecord]
  BY ZenonT(30) DEF StepRecord
<1>3. ASSUME NEW b \in BOOLEAN PROVE [p EXCEPT ![s].verify = b] \in [Step -> StepRecord]
  BY ZenonT(30) DEF StepRecord
<1>4. ASSUME NEW n \in 0 .. Budget PROVE [p EXCEPT ![s].attempts = n] \in [Step -> StepRecord]
  BY ZenonT(30) DEF StepRecord
<1>5. ASSUME NEW w \in Worker \cup {None}
      PROVE  [p EXCEPT ![s].tracked = w] \in [Step -> StepRecord]
  BY ZenonT(30) DEF StepRecord
<1> QED BY <1>1, <1>2, <1>3, <1>4, <1>5

LEMMA BarrierStep ==
  ASSUME IInv, NEW t \in Thread, Barrier(t) PROVE IInv'
<1>1. plan \in [Step -> StepRecord] /\ accepted \subseteq Step
  BY DEF IInv, TypeOK, PlanTypeOK
<1>2. plan' = [plan EXCEPT ![at[t]].status = "WaitingForApproval"]
  BY DEF Barrier
<1>3. plan' \in [Step -> StepRecord]
  BY <1>1, <1>2, FieldType
<1>4. \A s \in Step : /\ plan'[s].status = "Running" => plan[s].status = "Running"
                      /\ plan'[s].completed = plan[s].completed
                      /\ plan'[s].tracked = plan[s].tracked
  BY <1>1, <1>2 DEF StepRecord
<1>5. Go(t, "point") /\ "point" \in Free
  BY DEF Barrier, Free, Label
<1>6. ThreadTypeOK'
  BY <1>5 DEF IInv, TypeOK, ThreadTypeOK, Go, Free
<1>7. inbox' \in Seq([kind : {"task", "group"}, task : Worker])
  BY DEF IInv, TypeOK, TaskTypeOK, Barrier
<1>9. OneStepRuns'
  BY <1>4, StillOne DEF IInv
<1> QED BY <1>1, <1>3, <1>4, <1>5, <1>6, <1>7, <1>9, Change DEF Barrier, Go, taskVars, histVars

LEMMA BlockedStep ==
  ASSUME IInv, NEW t \in Thread, Blocked(t) PROVE IInv'
<1>1. plan \in [Step -> StepRecord] /\ accepted \subseteq Step
  BY DEF IInv, TypeOK, PlanTypeOK
<1>2. plan' = [plan EXCEPT ![at[t]].status = "Failed", ![at[t]].completed = FALSE]
  BY DEF Blocked
<1>3. plan' \in [Step -> StepRecord]
  <2> DEFINE p == [plan EXCEPT ![at[t]].status = "Failed"]
  <2>1. p \in [Step -> StepRecord]
    BY <1>1, FieldType
  <2> HIDE DEF p
  <2>2. [p EXCEPT ![at[t]].completed = FALSE] \in [Step -> StepRecord]
    BY <2>1, FieldType
  <2> QED BY <1>2, <2>2 DEF p
<1>4. \A s \in Step : /\ plan'[s].status = "Running" => plan[s].status = "Running"
                      /\ plan'[s].completed => plan[s].completed
                      /\ plan'[s].tracked = plan[s].tracked
  BY <1>1, <1>2 DEF StepRecord
<1>5. Leave(t, "giveup") /\ "giveup" \in Free
  BY DEF Blocked, Free, Label
<1>6. ThreadTypeOK' /\ \A u \in Thread \ {t} : at'[u] = at[u] /\ aim'[u] = aim[u]
  BY <1>5 DEF IInv, TypeOK, ThreadTypeOK, Leave, Free
<1>7. inbox' \in Seq([kind : {"task", "group"}, task : Worker])
  BY DEF IInv, TypeOK, TaskTypeOK, Blocked
<1>9. OneStepRuns'
  BY <1>4, StillOne DEF IInv
<1> QED BY <1>1, <1>3, <1>4, <1>5, <1>6, <1>7, <1>9, Change DEF Blocked, Leave, taskVars, histVars

LEMMA RecordStepStep ==
  ASSUME IInv, NEW t \in Thread, RecordStep(t) PROVE IInv'
<1>1. plan \in [Step -> StepRecord] /\ accepted \subseteq Step
  BY DEF IInv, TypeOK, PlanTypeOK
<1>2. plan' = [plan EXCEPT ![at[t]].tracked = aim[t]]
  BY DEF RecordStep
<1>3. at[t] \in Step /\ aim[t] \in given[at[t]] /\ aim[t] \in Worker \cup {None}
  BY DEF IInv, TypeOK, ThreadTypeOK, AtStep, RecordStep
<1>4. plan' \in [Step -> StepRecord]
  BY <1>1, <1>2, <1>3 DEF StepRecord
<1>5. \A s \in Step : /\ plan'[s].status = plan[s].status
                      /\ plan'[s].completed = plan[s].completed
                      /\ plan'[s].tracked = plan[s].tracked \/ plan'[s].tracked \in given[s]
  BY <1>1, <1>2, <1>3 DEF StepRecord
<1>6. Leave(t, "again") /\ "again" \in Free
  BY DEF RecordStep, Free, Label
<1>7. ThreadTypeOK' /\ \A u \in Thread \ {t} : at'[u] = at[u] /\ aim'[u] = aim[u]
  BY <1>6 DEF IInv, TypeOK, ThreadTypeOK, Leave, Free
<1>8. inbox' \in Seq([kind : {"task", "group"}, task : Worker])
  BY DEF IInv, TypeOK, TaskTypeOK, RecordStep
<1>9. OneStepRuns'
  BY <1>5, StillOne DEF IInv
<1> QED BY <1>1, <1>4, <1>5, <1>6, <1>7, <1>8, <1>9, Change DEF RecordStep, Leave, taskVars, histVars

LEMMA AdvanceStepStep ==
  ASSUME IInv, NEW t \in Thread, AdvanceStep(t) PROVE IInv'
<1> USE StageType DEF planVars, taskVars, histVars
<1> DEFINE s == Runnable
<1>1. s \in Step
  BY RunnableType DEF AdvanceStep
<1>2. CASE plan[s].approval
  <2>1. GoAt(t, "barrier", s) /\ UNCHANGED plan
    BY <1>2 DEF AdvanceStep
  <2>2. ThreadTypeOK' /\ \A u \in Thread \ {t} : at'[u] = at[u] /\ aim'[u] = aim[u]
    BY <1>1, <2>1 DEF IInv, TypeOK, ThreadTypeOK, GoAt, Label
  <2>3. "barrier" \in Label \ {"ask"}
    BY DEF Label
  <2> QED BY <2>1, <2>2, <2>3, Move DEF GoAt, AdvanceStep
<1>3. CASE ~plan[s].approval
  <2>1. GoAt(t, "dispatch", s) /\ plan' = [plan EXCEPT ![s].status = "Running"]
    BY <1>3 DEF AdvanceStep
  <2>2. plan \in [Step -> StepRecord] /\ accepted \subseteq Step
    BY DEF IInv, TypeOK, PlanTypeOK
  <2>3. plan' \in [Step -> StepRecord]
    BY <2>1, <2>2, FieldType
  <2>4. \A r \in Step : /\ plan'[r].status = "Running" => r = s \/ plan[r].status = "Running"
                        /\ plan'[r].completed = plan[r].completed
                        /\ plan'[r].tracked = plan[r].tracked
    BY <2>1, <2>2 DEF StepRecord
  <2>5. OneStepRuns'
    BY <2>4 DEF OneStepRuns, Is, AdvanceStep, SomeRunning
  <2>6. /\ ThreadTypeOK' /\ at'[t] = s
        /\ \A u \in Thread \ {t} : at'[u] = at[u] /\ aim'[u] = aim[u]
    BY <1>1, <2>1 DEF IInv, TypeOK, ThreadTypeOK, GoAt, Label
  <2>7. inbox' \in Seq([kind : {"task", "group"}, task : Worker])
    BY DEF IInv, TypeOK, TaskTypeOK, AdvanceStep
  <2> QED BY <1>1, <2>1, <2>2, <2>3, <2>4, <2>5, <2>6, <2>7, Change DEF GoAt, AdvanceStep
<1> QED BY <1>2, <1>3

-----------------------------------------------------------------------------
\* Workers are given to steps.

\* Who is in the mailbox is not A, and asks about a step or about none.
LEMMA MailType ==
  ASSUME TypeOK, NEW i \in DOMAIN mailbox
  PROVE  mailbox[i].step \in Step \cup {None} /\ mailbox[i].by \in Thread \ {A}
<1>1. mailbox \in Seq([by : Thread \ {A}, step : Step \cup {None}])
  BY DEF TypeOK, TaskTypeOK
<1>2. mailbox[i] \in [by : Thread \ {A}, step : Step \cup {None}]
  BY <1>1, ElementOfSeq, LenProperties
<1> QED BY <1>2

\* A step that changes the tasks, or gives a worker to a step, and changes neither
\* plan nor mailbox.
LEMMA Give ==
  ASSUME IInv, TypeOK', NEW t \in Thread, NEW l \in Free \cup {"recordB"},
         pc' = [pc EXCEPT ![t] = l] \/ UNCHANGED pc,
         \A u \in Thread : at'[u] = at[u],
         \A u \in Thread \ {t} : aim'[u] = aim[u],
         UNCHANGED <<plan, stage, mailbox, accepted>>,
         \A s \in Step : given[s] \subseteq given'[s],
         \A w \in Worker : task[w].state = "Completed" => task'[w].state = "Completed",
         \A w \in Worker : /\ task'[w].state # "none" => task'[w].step # None
                           /\ \/ task'[w].step = task[w].step
                              \/ task'[w].step # None => w \in given'[task'[w].step],
         UNCHANGED pc => UNCHANGED aim,
         l = "recordB" => at[t] \in Step /\ aim'[t] \in given'[at[t]]
  PROVE  IInv'
<1> USE DEF IInv
<1>0. /\ pc'[t] = l \/ (pc'[t] = pc[t] /\ aim'[t] = aim[t])
      /\ \A u \in Thread \ {t} : pc'[u] = pc[u] /\ aim'[u] = aim[u]
      /\ \A u \in Thread : at'[u] = at[u] /\ at[u] \in Step \cup {None}
  BY DEF TypeOK, ThreadTypeOK
<1>1. \A s \in Step : Done(s) => Done(s)'
  BY DoneStays
<1>2. OneStepRuns'
  BY DEF OneStepRuns, Is
<1>3. Recorded'
  BY DEF Recorded, TypeOK, TaskTypeOK, PlanTypeOK
<1>4. AtStep'
  <2> SUFFICES ASSUME NEW u \in Thread
               PROVE  /\ pc'[u] \in {"dispatch", "launch", "recordB", "recordStep"}
                           => at'[u] \in Step
                      /\ pc'[u] \in {"recordB", "recordStep"} => aim'[u] \in given'[at'[u]]
                      /\ pc'[u] = "synth" => at'[u] \in Step /\ aim'[u] \in given'[at'[u]]
    BY DEF AtStep
  <2>1. CASE u = t /\ pc'[t] = l
    BY <2>1, <1>0 DEF Free
  <2>2. CASE u # t \/ pc'[t] # l
    BY <2>2, <1>0 DEF AtStep
  <2> QED BY <2>1, <2>2
<1>5. Asked'
  <2>0. \A s \in Step : Done(s) => \E w \in given'[s] : task'[w].state = "Completed"
    BY <1>1 DEF Done
  <2>1. ASSUME NEW u \in Thread, pc'[u] = "ask"
        PROVE  /\ u # A /\ at'[u] \in Step
               /\ \E w \in given'[at'[u]] : task'[w].state = "Completed"
    <3>1. pc[u] = "ask"
      BY <2>1, <1>0 DEF Free
    <3>2. u # A /\ at[u] \in Step /\ Done(at[u]) /\ at'[u] = at[u]
      BY <3>1, <1>0 DEF Asked
    <3> QED BY <3>2, <2>0
  <2>2. ASSUME NEW i \in DOMAIN mailbox, mailbox[i].step # None
        PROVE  \E w \in given'[mailbox[i].step] : task'[w].state = "Completed"
    <3>1. mailbox[i].step \in Step
      BY <2>2, MailType
    <3> QED BY <2>2, <3>1, <2>0 DEF Asked
  <2>3. mailbox' = mailbox
    OBVIOUS
  <2> QED BY <2>1, <2>2, <2>3 DEF Asked, Done
<1>6. Finished'
  BY <1>0 DEF Finished, Completed, Free
<1>7. AcceptedWasDone'
  <2>1. \A s \in accepted : Done(s) /\ s \in Step
    BY DEF AcceptedWasDone, Done, TypeOK, PlanTypeOK
  <2> QED BY <2>1, <1>1 DEF AcceptedWasDone, Done
<1> QED BY <1>2, <1>3, <1>4, <1>5, <1>6, <1>7

LEMMA ContinueStep ==
  ASSUME IInv, NEW t \in Thread, Continue(t) PROVE IInv'
<1>1. at[t] \in Step /\ aim[t] \in Worker /\ given \in [Step -> SUBSET Worker]
  BY DEF IInv, TypeOK, PlanTypeOK, ThreadTypeOK, AtStep, Continue
<1>2. CASE Live(aim[t])
  <2>1. /\ btask' = aim[t] /\ Go(t, "recordB")
        /\ given' = [given EXCEPT ![at[t]] = @ \cup {aim[t]}]
    BY <1>2 DEF Continue
  <2>2. TypeOK'
    BY <1>1, <2>1
       DEF Continue, Go, IInv, TypeOK, PlanTypeOK, TaskTypeOK, ThreadTypeOK, taskVars, Label
  <2>3. /\ \A s \in Step : given[s] \subseteq given'[s]
        /\ aim'[t] \in given'[at[t]]
    BY <1>1, <2>1 DEF Go
  <2>4. \A w \in Worker : task[w].state # "none" => task[w].step # None
    BY DEF IInv, Recorded
  <2> QED BY <1>1, <2>1, <2>2, <2>3, <2>4, Give DEF Continue, Go, taskVars
<1>3. CASE ~Live(aim[t])
  <2>1. Go(t, "blocked") /\ "blocked" \in Free
    <3>1. Go(t, "blocked")
      BY <1>3 DEF Continue
    <3>2. "blocked" \in Free
      BY ZenonT(30) DEF Free, Label
    <3> QED BY <3>1, <3>2
  <2> QED BY <1>3, <2>1, GoFree, StageType DEF Continue, taskVars
<1> QED BY <1>2, <1>3

LEMMA SpawnStep ==
  ASSUME IInv, NEW t \in Thread, Spawn(t) PROVE IInv'
<1> DEFINE w == First({v \in Worker : task[v].state = "none"})
<1>1. w \in Worker /\ task[w].state = "none"
  BY FirstWorker DEF Spawn
<1>2. /\ at[t] \in Step /\ at[t] # None
      /\ given \in [Step -> SUBSET Worker]
  BY Threads DEF IInv, TypeOK, PlanTypeOK, AtStep, Spawn
<1> HIDE DEF w
<1>3. /\ task' = [task EXCEPT ![w].state = "live", ![w].step = at[t]]
      /\ btask' = w /\ aim' = [aim EXCEPT ![t] = w]
      /\ given' = [given EXCEPT ![at[t]] = @ \cup {w}]
      /\ pc' = [pc EXCEPT ![t] = "recordB"]
  BY DEF Spawn, w
<1>4. task \in [Worker -> [state : {"none", "live", "Completed", "Failed"},
                          step : Step \cup {None}, fanin : BOOLEAN]]
  BY DEF IInv, TypeOK, TaskTypeOK
<1>5. /\ task'[w].state = "live" /\ task'[w].step = at[t]
      /\ \A v \in Worker \ {w} : task'[v] = task[v]
  BY <1>1, <1>3, <1>4
<1>6. /\ \A s \in Step : given[s] \subseteq given'[s]
      /\ w \in given'[at[t]] /\ given' \in [Step -> SUBSET Worker]
  BY <1>1, <1>2, <1>3
<1>7. TypeOK'
  <2>1. PlanTypeOK'
    BY <1>1, <1>3, <1>6 DEF Spawn, IInv, TypeOK, PlanTypeOK
  <2>2. TaskTypeOK'
    <3>1. task' \in [Worker -> [state : {"none", "live", "Completed", "Failed"},
                               step : Step \cup {None}, fanin : BOOLEAN]]
      <4> DEFINE r == [task[w] EXCEPT !.state = "live", !.step = at[t]]
      <4>1. task' = [task EXCEPT ![w] = r]
        BY <1>1, <1>3, <1>4
      <4>2. r \in [state : {"none", "live", "Completed", "Failed"},
                   step : Step \cup {None}, fanin : BOOLEAN]
        BY <1>1, <1>2, <1>4
      <4> HIDE DEF r
      <4> QED BY <4>1, <4>2, <1>4
    <3> QED BY <3>1 DEF Spawn, IInv, TypeOK, TaskTypeOK
  <2>3. ThreadTypeOK'
    BY <1>1, <1>3 DEF Spawn, IInv, TypeOK, ThreadTypeOK, Label
  <2> QED BY <2>1, <2>2, <2>3 DEF TypeOK
<1>8. aim'[t] = w /\ \A u \in Thread \ {t} : aim'[u] = aim[u]
  BY <1>1, <1>3 DEF IInv, TypeOK, ThreadTypeOK
<1>9. \A v \in Worker : /\ task[v].state = "Completed" => task'[v].state = "Completed"
                        /\ task'[v].state # "none" => task'[v].step # None
                        /\ \/ task'[v].step = task[v].step
                           \/ task'[v].step # None => v \in given'[task'[v].step]
  BY <1>1, <1>2, <1>5, <1>6 DEF IInv, Recorded
<1>10. pc' # pc
  BY <1>3 DEF Spawn, IInv, TypeOK, ThreadTypeOK
<1> QED BY <1>2, <1>3, <1>6, <1>7, <1>8, <1>9, <1>10, Give DEF Spawn

\* An event is added to the queue.
LEMMA QueueType ==
  ASSUME TypeOK, NEW k \in {"task", "group"}, NEW w \in Worker,
         queue' = Append(queue, [kind |-> k, task |-> w])
  PROVE  queue' \in Seq([kind : {"task", "group"}, task : Worker])
  BY AppendProperties DEF TypeOK, TaskTypeOK

LEMMA WorkerEndsStep ==
  ASSUME IInv, NEW w \in Worker, NEW o \in {"Completed", "Failed"}, WorkerEnds(w, o)
  PROVE  IInv'
<1>1. w \in Thread /\ "notify" \in Free
  BY Threads DEF Free, Label
<1>2. task \in [Worker -> [state : {"none", "live", "Completed", "Failed"},
                          step : Step \cup {None}, fanin : BOOLEAN]]
  BY DEF IInv, TypeOK, TaskTypeOK
<1>3. /\ task[w].state = "live" /\ task' = [task EXCEPT ![w].state = o]
      /\ Go(w, "notify")
  BY DEF WorkerEnds, Live
<1>4. TypeOK'
  <2>1. PlanTypeOK'
    BY DEF WorkerEnds, IInv, TypeOK, PlanTypeOK, planVars, histVars
  <2>2. TaskTypeOK'
    <3>1. task' \in [Worker -> [state : {"none", "live", "Completed", "Failed"},
                               step : Step \cup {None}, fanin : BOOLEAN]]
      BY <1>2, <1>3
    <3> QED BY <3>1, QueueType DEF WorkerEnds, IInv, TypeOK, TaskTypeOK
  <2>3. ThreadTypeOK'
    BY <1>1, <1>3 DEF Go, IInv, TypeOK, ThreadTypeOK, Free
  <2> QED BY <2>1, <2>2, <2>3 DEF TypeOK
<1>5. \A v \in Worker : /\ task[v].state = "Completed" => task'[v].state = "Completed"
                        /\ task'[v].state # "none" => task'[v].step # None
                        /\ task'[v].step = task[v].step
  BY <1>2, <1>3 DEF IInv, Recorded
<1>6. UNCHANGED <<plan, stage, mailbox, accepted, given>>
  BY DEF WorkerEnds, planVars, histVars
<1>7. /\ pc' = [pc EXCEPT ![w] = "notify"] /\ UNCHANGED <<at, aim>>
      /\ "notify" \in Free \cup {"recordB"} /\ "notify" # "recordB"
  BY <1>1, <1>3 DEF Go
<1> HIDE DEF WorkerEnds
<1> QED BY ONLY <1>1, <1>4, <1>5, <1>6, <1>7, Give, IInv

LEMMA WorkerFansInStep ==
  ASSUME IInv, NEW w \in Worker, WorkerFansIn(w) PROVE IInv'
<1>1. w \in Thread /\ "idle" \in Free
  BY Threads DEF Free, Label
<1>2. task \in [Worker -> [state : {"none", "live", "Completed", "Failed"},
                          step : Step \cup {None}, fanin : BOOLEAN]]
  BY DEF IInv, TypeOK, TaskTypeOK
<1>3. task' = [task EXCEPT ![w].fanin = TRUE]
  BY DEF WorkerFansIn
<1>4. TypeOK'
  <2>1. PlanTypeOK' /\ ThreadTypeOK'
    BY DEF WorkerFansIn, IInv, TypeOK, PlanTypeOK, ThreadTypeOK, planVars, histVars,
           threadVars
  <2>2. TaskTypeOK'
    BY <1>2, <1>3, QueueType DEF WorkerFansIn, IInv, TypeOK, TaskTypeOK
  <2> QED BY <2>1, <2>2 DEF TypeOK
<1>5. \A v \in Worker : /\ task'[v].state = task[v].state
                        /\ task[v].state # "none" => task[v].step # None
                        /\ task'[v].step = task[v].step
  BY <1>2, <1>3 DEF IInv, Recorded
<1> QED BY <1>1, <1>4, <1>5, Give DEF WorkerFansIn, planVars, histVars, threadVars

-----------------------------------------------------------------------------
\* Threads that only go on, at the end of an event or in the driver's loop.

LEMMA AutoAdvanceStep ==
  ASSUME IInv, NEW t \in Thread, AutoAdvance(t) PROVE IInv'
<1>1. PICK l \in Free : Go(t, l)
  <2>1. "advance" \in Free
    BY DEF Free, Label
  <2> QED BY <2>1, OverIsFree DEF AutoAdvance
<1> QED BY <1>1, GoFree, StageType DEF AutoAdvance, planVars, taskVars, histVars

\* A thread goes to a label without claims and stays at its step and worker.
LEMMA Onward ==
  ASSUME IInv, NEW t \in Thread, NEW l \in Free, pc' = [pc EXCEPT ![t] = l],
         job' \in [Thread -> {"start", "loop", "final", "event", "sync", "notify",
                             "review"}],
         next' \in [Thread -> Step \cup {None}], synced' \in BOOLEAN,
         UNCHANGED <<at, aim, plan, stage, btask, task, queue, inbox, mailbox, accepted,
                     given>>,
         current' \in Step \cup {None}
  PROVE  IInv'
<1>1. ThreadTypeOK'
  BY DEF IInv, TypeOK, ThreadTypeOK, Free
<1>2. l \in Label \ {"ask"} /\ l \notin {"dispatch", "launch", "recordB", "recordStep",
                                        "synth", "complete", "finish"}
  BY DEF Free
<1>3. /\ stage' \in {"WaitingForApproval", "Execution", "Documentation", "Completed"}
      /\ stage' = "Completed" => accepted = Step
      /\ btask' \in Worker \cup {None}
  BY StageType
<1> QED BY <1>1, <1>2, <1>3, Move

LEMMA SetCurrentStep ==
  ASSUME IInv, NEW t \in Thread, SetCurrent(t) PROVE IInv'
<1>1. /\ current' \in Step \cup {None} /\ next' \in [Thread -> Step \cup {None}]
      /\ EventOver(t) \in Free
      /\ job' \in [Thread -> {"start", "loop", "final", "event", "sync", "notify", "review"}]
      /\ synced' \in BOOLEAN
  BY OverIsFree DEF SetCurrent, IInv, TypeOK, ThreadTypeOK
<1> QED BY <1>1, Onward DEF SetCurrent, taskVars, histVars

-----------------------------------------------------------------------------
\* The mailbox of A.

\* A step that changes the mailbox, and moves threads to labels without claims.
LEMMA Mail ==
  ASSUME IInv, ThreadTypeOK',
         \A u \in Thread : \/ pc'[u] \in Free
                           \/ pc'[u] = pc[u] /\ at'[u] = at[u] /\ aim'[u] = aim[u],
         UNCHANGED <<plan, stage, btask, task, queue, inbox, accepted, given>>,
         current' \in Step \cup {None},
         mailbox' \in Seq([by : Thread \ {A}, step : Step \cup {None}]),
         \A i \in DOMAIN mailbox' : mailbox'[i].step # None => Done(mailbox'[i].step)
  PROVE  IInv'
<1> USE DEF IInv
<1>1. TypeOK'
  BY DEF TypeOK, PlanTypeOK, TaskTypeOK
<1>2. OneStepRuns' /\ Recorded' /\ AcceptedWasDone'
  BY DEF OneStepRuns, Recorded, AcceptedWasDone, Is
<1>3. AtStep'
  BY DEF AtStep, Free
<1>4. Asked'
  <2>1. given' = given /\ task' = task
    OBVIOUS
  <2>2. \A u \in Thread : pc'[u] = "ask" => u # A /\ at'[u] \in Step /\ Done(at'[u])
    BY DEF Asked, Free
  <2> QED BY <2>1, <2>2 DEF Asked, Done
<1>5. Finished'
  BY DEF Finished, Completed, Free
<1> QED BY <1>1, <1>2, <1>3, <1>4, <1>5

LEMMA AskStep ==
  ASSUME IInv, NEW t \in Thread, Ask(t) PROVE IInv'
<1>1. t # A /\ at[t] \in Step /\ Done(at[t])
  BY DEF IInv, Asked, Ask
<1>2. /\ mailbox \in Seq([by : Thread \ {A}, step : Step \cup {None}])
      /\ pc \in [Thread -> Label]
  BY DEF IInv, TypeOK, TaskTypeOK, ThreadTypeOK
<1> DEFINE e == [by |-> t, step |-> at[t]]
<1>3. e \in [by : Thread \ {A}, step : Step \cup {None}] /\ mailbox' = Append(mailbox, e)
  BY <1>1 DEF Ask
<1>4. e.step = at[t]
  OBVIOUS
<1> HIDE DEF e
<1>5. /\ mailbox' \in Seq([by : Thread \ {A}, step : Step \cup {None}])
      /\ DOMAIN mailbox = 1 .. Len(mailbox) /\ Len(mailbox) \in Nat
      /\ DOMAIN mailbox' = 1 .. Len(mailbox) + 1
      /\ mailbox'[Len(mailbox) + 1] = e
      /\ \A i \in DOMAIN mailbox : mailbox'[i] = mailbox[i]
  BY <1>2, <1>3, AppendProperties, LenProperties
<1>6. \A i \in DOMAIN mailbox' : mailbox'[i].step # None => Done(mailbox'[i].step)
  <2> SUFFICES ASSUME NEW i \in DOMAIN mailbox', mailbox'[i].step # None
               PROVE  Done(mailbox'[i].step)
    OBVIOUS
  <2>1. CASE i = Len(mailbox) + 1
    BY <2>1, <1>1, <1>4, <1>5
  <2>2. CASE i # Len(mailbox) + 1
    <3>1. i \in DOMAIN mailbox
      BY <2>2, <1>5
    <3> QED BY <3>1, <1>5 DEF IInv, Asked
  <2> QED BY <2>1, <2>2
<1>7. pc' = [pc EXCEPT ![t] = "review"] /\ UNCHANGED <<job, at, aim, next, synced>>
      /\ "review" \in Free
  BY DEF Ask, Go, Free, Label
<1>8. ThreadTypeOK' /\ \A u \in Thread : pc'[u] \in Free \/ pc'[u] = pc[u]
  BY <1>2, <1>7 DEF IInv, TypeOK, ThreadTypeOK, Free
<1>9. current' \in Step \cup {None} /\ UNCHANGED <<plan, stage, btask, task, queue, inbox,
                                                   accepted, given>>
  BY <1>1 DEF Ask, taskVars, histVars
<1> QED BY <1>5, <1>6, <1>7, <1>8, <1>9, Mail

LEMMA ApproveStep ==
  ASSUME IInv, Approve PROVE IInv'
<1>1. Driver \in Thread \ {A} /\ None \notin Step
  BY Threads
<1>2. /\ mailbox \in Seq([by : Thread \ {A}, step : Step \cup {None}])
      /\ pc \in [Thread -> Label]
  BY DEF IInv, TypeOK, TaskTypeOK, ThreadTypeOK
<1> DEFINE e == [by |-> Driver, step |-> None]
<1>3. e \in [by : Thread \ {A}, step : Step \cup {None}] /\ mailbox' = Append(mailbox, e)
  BY <1>1 DEF Approve
<1>4. e.step = None
  OBVIOUS
<1> HIDE DEF e
<1>5. /\ mailbox' \in Seq([by : Thread \ {A}, step : Step \cup {None}])
      /\ DOMAIN mailbox = 1 .. Len(mailbox) /\ Len(mailbox) \in Nat
      /\ DOMAIN mailbox' = 1 .. Len(mailbox) + 1
      /\ mailbox'[Len(mailbox) + 1] = e
      /\ \A i \in DOMAIN mailbox : mailbox'[i] = mailbox[i]
  BY <1>2, <1>3, AppendProperties, LenProperties
<1>6. \A i \in DOMAIN mailbox' : mailbox'[i].step # None => Done(mailbox'[i].step)
  <2> SUFFICES ASSUME NEW i \in DOMAIN mailbox', mailbox'[i].step # None
               PROVE  Done(mailbox'[i].step)
    OBVIOUS
  <2>1. i # Len(mailbox) + 1
    BY <1>4, <1>5
  <2>2. i \in DOMAIN mailbox
    BY <2>1, <1>5
  <2> QED BY <2>2, <1>5 DEF IInv, Asked
<1>7. pc' = [pc EXCEPT ![Driver] = "approval"] /\ UNCHANGED <<job, at, aim, next, synced>>
      /\ "approval" \in Free
  BY DEF Approve, Go, Free, Label
<1>8. ThreadTypeOK' /\ \A u \in Thread : pc'[u] \in Free \/ pc'[u] = pc[u]
  BY <1>2, <1>7 DEF IInv, TypeOK, ThreadTypeOK, Free
<1>9. current' \in Step \cup {None} /\ UNCHANGED <<plan, stage, btask, task, queue, inbox,
                                                   accepted, given>>
  BY StageType DEF Approve, planVars, taskVars, histVars
<1> QED BY <1>5, <1>6, <1>7, <1>8, <1>9, Mail

\* What is at the head of the mailbox, and what is left without it.
LEMMA HeadTail ==
  ASSUME IInv, mailbox # << >>
  PROVE  /\ Head(mailbox) \in [by : Thread \ {A}, step : Step \cup {None}]
         /\ Head(mailbox).step # None => Head(mailbox).step \in Step
                                         /\ Done(Head(mailbox).step)
         /\ Tail(mailbox) \in Seq([by : Thread \ {A}, step : Step \cup {None}])
         /\ \A i \in DOMAIN Tail(mailbox) :
              Tail(mailbox)[i].step # None => Done(Tail(mailbox)[i].step)
<1>1. /\ mailbox \in Seq([by : Thread \ {A}, step : Step \cup {None}])
      /\ Len(mailbox) \in Nat \ {0} /\ DOMAIN mailbox = 1 .. Len(mailbox)
  BY LenProperties, EmptySeq DEF IInv, TypeOK, TaskTypeOK
<1> DEFINE M == [by : Thread \ {A}, step : Step \cup {None}]
<1>0. mailbox \in Seq(M)
  BY <1>1
<1> HIDE DEF M
<1>2. /\ Head(mailbox) = mailbox[1] /\ Head(mailbox) \in M
      /\ Tail(mailbox) \in Seq(M)
      /\ Len(Tail(mailbox)) = Len(mailbox) - 1
      /\ \A i \in 1 .. Len(Tail(mailbox)) : Tail(mailbox)[i] = mailbox[i + 1]
  BY <1>0, <1>1, HeadTailProperties
<1>3. DOMAIN Tail(mailbox) = 1 .. Len(mailbox) - 1
  BY <1>2, LenProperties
<1>4. 1 \in DOMAIN mailbox /\ \A i \in DOMAIN Tail(mailbox) : i + 1 \in DOMAIN mailbox
  BY <1>1, <1>3
<1>5. \A i \in DOMAIN mailbox : mailbox[i].step # None => Done(mailbox[i].step)
  BY DEF IInv, Asked
<1>6. \A i \in DOMAIN Tail(mailbox) :
        Tail(mailbox)[i].step # None => Done(Tail(mailbox)[i].step)
  BY <1>2, <1>3, <1>4, <1>5
<1>7. Head(mailbox).step # None => Done(Head(mailbox).step)
  BY <1>2, <1>4, <1>5
<1>8. Head(mailbox) \in M => Head(mailbox).step \in Step \cup {None}
  BY DEF M
<1> QED BY <1>2, <1>6, <1>7, <1>8 DEF M

\* While A is at work, what it works at is in its mailbox.
Busy == pc[A] # "idle" => mailbox # << >>

LEMMA AnswerStep ==
  ASSUME IInv, Busy, Answer PROVE IInv'
<1>1. mailbox # << >>
  BY DEF Busy, Answer
<1> DEFINE t == Head(mailbox).by
<1>2. t \in Thread \ {A} /\ A \in Thread
  BY <1>1, HeadTail, Threads
<1>3. /\ pc' \in {[pc EXCEPT ![A] = "idle", ![t] = l] : l \in Free}
      /\ at' = [at EXCEPT ![t] = None] \/ at' = at
      /\ UNCHANGED <<job, aim, next, synced>>
  <2>1. "blocked" \in Free /\ EventOver(t) \in Free
    BY OverIsFree DEF Free, Label
  <2>2. at' = [at EXCEPT ![t] = at[t]] => at' = at
    BY DEF IInv, TypeOK, ThreadTypeOK
  <2> QED BY <2>1, <2>2 DEF Answer
<1> HIDE DEF t
<1>4. PICK l \in Free : pc' = [pc EXCEPT ![A] = "idle", ![t] = l]
  BY <1>3
<1>5. "idle" \in Free /\ Free \subseteq Label
  BY DEF Free, Label
<1>6. ThreadTypeOK'
  BY <1>2, <1>3, <1>4, <1>5 DEF IInv, TypeOK, ThreadTypeOK
<1>7. \A u \in Thread : \/ pc'[u] \in Free
                        \/ pc'[u] = pc[u] /\ at'[u] = at[u] /\ aim'[u] = aim[u]
  BY <1>2, <1>3, <1>4, <1>5 DEF IInv, TypeOK, ThreadTypeOK
<1>8. /\ UNCHANGED <<plan, stage, btask, task, queue, inbox, accepted, given>>
      /\ current' \in Step \cup {None}
  BY StageType DEF Answer, planVars, taskVars, histVars
<1>9. /\ mailbox' \in Seq([by : Thread \ {A}, step : Step \cup {None}])
      /\ \A i \in DOMAIN mailbox' : mailbox'[i].step # None => Done(mailbox'[i].step)
  BY <1>1, HeadTail DEF Answer
<1> QED BY <1>6, <1>7, <1>8, <1>9, Mail

LEMMA ApprovedStep ==
  ASSUME IInv, Approved PROVE IInv'
<1>1. mailbox # << >> /\ mailbox' = Tail(mailbox)
  BY DEF Approved
<1>2. pc' = [pc EXCEPT ![Driver] = "advance"] /\ UNCHANGED <<job, at, aim, next, synced>>
      /\ "advance" \in Free
  BY DEF Approved, Go, Free, Label
<1>3. ThreadTypeOK' /\ \A u \in Thread : pc'[u] \in Free \/ pc'[u] = pc[u]
  BY <1>2, Threads DEF IInv, TypeOK, ThreadTypeOK, Free
<1>4. UNCHANGED <<plan, stage, btask, task, queue, inbox, accepted, given>>
      /\ current' \in Step \cup {None}
  BY StageType DEF Approved, planVars, taskVars, histVars
<1> QED BY <1>1, <1>2, <1>3, <1>4, HeadTail, Mail

-----------------------------------------------------------------------------
\* The end of a worker, as an event or as a notification.

\* It is handled to the end, and the plan lost no completed step's acceptance.
LEMMA HandledStep ==
  ASSUME IInv, NEW t \in Thread, NEW l \in Free, NEW p \in [Step -> StepRecord],
         HandleOver(t, l, p),
         UNCHANGED <<stage, current, btask, task, queue, mailbox, accepted, given>>,
         inbox' \in Seq([kind : {"task", "group"}, task : Worker]),
         \A s \in Step : /\ p[s].status = "Running" => plan[s].status = "Running"
                         /\ p[s].completed => plan[s].completed
                         /\ p[s].tracked = plan[s].tracked \/ p[s].tracked \in given[s]
  PROVE  IInv'
<1>1. /\ plan' = p /\ pc' = [pc EXCEPT ![t] = l]
      /\ next' = [next EXCEPT ![t] = NextUnfinished(p)]
      /\ at' = [at EXCEPT ![t] = None] /\ aim' = [aim EXCEPT ![t] = None]
      /\ UNCHANGED <<job, synced>>
  BY DEF HandleOver
<1>2. NextUnfinished(p) \in Step \cup {None}
  BY NextUnfinishedType
<1>3. ThreadTypeOK' /\ \A u \in Thread \ {t} : at'[u] = at[u] /\ aim'[u] = aim[u]
  BY <1>1, <1>2 DEF IInv, TypeOK, ThreadTypeOK, Free
<1>4. OneStepRuns'
  BY <1>1, StillOne DEF IInv
<1>5. accepted \subseteq Step
  BY DEF IInv, TypeOK, PlanTypeOK
<1>6. l # "ask" /\ l # "dispatch" /\ l \in Free \cup {"ask", "dispatch"}
  BY DEF Free
<1>7. /\ plan' \in [Step -> StepRecord] /\ accepted' = accepted
      /\ \A s \in Step : plan'[s].completed => plan[s].completed
      /\ \A s \in Step : plan'[s].tracked = plan[s].tracked \/ plan'[s].tracked \in given[s]
  BY <1>1
<1> QED BY <1>1, <1>3, <1>4, <1>5, <1>6, <1>7, Change

\* A step that is not finished, and what becomes of the others.
LEMMA UnfinishedIs ==
  ASSUME plan \in [Step -> StepRecord], NEW s, NEW w \in Worker \cup {None},
         NEW st \in {"Reviewing", "Rejected", "Failed"}
  PROVE  /\ Unfinished(s, w, st) \in [Step -> StepRecord]
         /\ \A r \in Step \ {s} : Unfinished(s, w, st)[r] = plan[r]
         /\ s \in Step => /\ Unfinished(s, w, st)[s].status = st
                          /\ ~Unfinished(s, w, st)[s].completed
                          /\ Unfinished(s, w, st)[s].tracked = w
<1> DEFINE p1 == [plan EXCEPT ![s].status = st]
           p2 == [p1 EXCEPT ![s].completed = FALSE]
           p3 == [p2 EXCEPT ![s].verify = FALSE]
           p4 == [p3 EXCEPT ![s].tracked = w]
<1>0. plan \in [Step -> StepRecord] /\ FALSE \in BOOLEAN
      /\ st \in {"Running", "WaitingForApproval", "Reviewing", "Rejected",
                 "ReplanRequired", "Completed", "Failed"}
  OBVIOUS
<1>1. /\ p1 \in [Step -> StepRecord]
      /\ \A r \in Step \ {s} : p1[r] = plan[r]
      /\ s \in Step => p1[s] = [plan[s] EXCEPT !.status = st]
  <2>1. p1 \in [Step -> StepRecord]
    BY <1>0, FieldType
  <2>2. \A r \in Step \ {s} : p1[r] = plan[r]
    BY <1>0
  <2>3. s \in Step => p1[s] = [plan[s] EXCEPT !.status = st]
    BY <1>0
  <2> QED BY <2>1, <2>2, <2>3
<1> HIDE DEF p1
<1>2. /\ p2 \in [Step -> StepRecord]
      /\ \A r \in Step \ {s} : p2[r] = p1[r]
      /\ s \in Step => p2[s] = [p1[s] EXCEPT !.completed = FALSE]
  <2>1. p2 \in [Step -> StepRecord]
    BY <1>0, <1>1, FieldType
  <2>2. \A r \in Step \ {s} : p2[r] = p1[r]
    BY <1>0, <1>1
  <2>3. s \in Step => p2[s] = [p1[s] EXCEPT !.completed = FALSE]
    BY <1>0, <1>1
  <2> QED BY <2>1, <2>2, <2>3
<1> HIDE DEF p2
<1>3. /\ p3 \in [Step -> StepRecord]
      /\ \A r \in Step \ {s} : p3[r] = p2[r]
      /\ s \in Step => p3[s] = [p2[s] EXCEPT !.verify = FALSE]
  <2>1. p3 \in [Step -> StepRecord]
    BY <1>0, <1>2, FieldType
  <2>2. \A r \in Step \ {s} : p3[r] = p2[r]
    BY <1>0, <1>2
  <2>3. s \in Step => p3[s] = [p2[s] EXCEPT !.verify = FALSE]
    BY <1>0, <1>2
  <2> QED BY <2>1, <2>2, <2>3
<1> HIDE DEF p3
<1>4. /\ p4 \in [Step -> StepRecord]
      /\ \A r \in Step \ {s} : p4[r] = p3[r]
      /\ s \in Step => p4[s] = [p3[s] EXCEPT !.tracked = w]
  <2>1. p4 \in [Step -> StepRecord]
    BY <1>0, <1>3, FieldType
  <2>2. \A r \in Step \ {s} : p4[r] = p3[r]
    BY <1>0, <1>3
  <2>3. s \in Step => p4[s] = [p3[s] EXCEPT !.tracked = w]
    BY <1>0, <1>3
  <2> QED BY <2>1, <2>2, <2>3
<1> HIDE DEF p4
<1>5. Unfinished(s, w, st) = p4
  BY DEF Unfinished, p1, p2, p3, p4
<1>6. \A r \in Step \ {s} : p4[r] = plan[r]
  BY <1>1, <1>2, <1>3, <1>4
<1>7. s \in Step => p4[s].status = st /\ ~p4[s].completed /\ p4[s].tracked = w
  <2> SUFFICES ASSUME s \in Step
               PROVE  p4[s].status = st /\ ~p4[s].completed /\ p4[s].tracked = w
    OBVIOUS
  <2>1. /\ p1[s] \in StepRecord /\ p2[s] \in StepRecord /\ p3[s] \in StepRecord
        /\ plan[s] \in StepRecord
    BY <1>0, <1>1, <1>2, <1>3
  <2> QED BY <1>1, <1>2, <1>3, <1>4, <2>1 DEF StepRecord
<1> QED BY <1>4, <1>5, <1>6, <1>7

\* The worker has failed.
LEMMA FailureStep ==
  ASSUME IInv, NEW t \in Thread, NEW s \in Step \cup {None}, NEW w \in Worker,
         s # None => w \in given[s],
         HandleFailedNotification(t, s, w) \/ HandleFailedEvent(t, s, w),
         UNCHANGED <<stage, current, btask, task, queue, mailbox, accepted, given>>,
         inbox' \in Seq([kind : {"task", "group"}, task : Worker])
  PROVE  IInv'
<1>1. plan \in [Step -> StepRecord] /\ None \notin Step
  BY Threads DEF IInv, TypeOK, PlanTypeOK
<1>2. {"auto", "current"} \subseteq Free
  BY DEF Free, Label
<1>3. ASSUME NEW l \in Free, NEW st \in {"Rejected", "Failed"}, NEW p,
             HandleOver(t, l, p), p \in [Step -> StepRecord],
             \A r \in Step : p[r].status = Unfinished(s, w, st)[r].status,
             \A r \in Step : p[r].completed = Unfinished(s, w, st)[r].completed,
             \A r \in Step : p[r].tracked = Unfinished(s, w, st)[r].tracked
      PROVE  IInv'
  <2>1. st \in {"Reviewing", "Rejected", "Failed"} /\ w \in Worker \cup {None}
    OBVIOUS
  <2>2. /\ \A r \in Step \ {s} : Unfinished(s, w, st)[r] = plan[r]
        /\ s \in Step => /\ Unfinished(s, w, st)[s].status = st
                         /\ ~Unfinished(s, w, st)[s].completed
                         /\ Unfinished(s, w, st)[s].tracked = w
    BY ONLY <1>1, <2>1, UnfinishedIs
  <2>3. \A r \in Step : p[r].status = "Running" => plan[r].status = "Running"
    BY ONLY <1>3, <2>1, <2>2
  <2>4. \A r \in Step : p[r].completed => plan[r].completed
    BY ONLY <1>3, <2>2
  <2>5. \A r \in Step : p[r].tracked = plan[r].tracked \/ p[r].tracked \in given[r]
    <3> SUFFICES ASSUME NEW r \in Step
                 PROVE  p[r].tracked = plan[r].tracked \/ p[r].tracked \in given[r]
      OBVIOUS
    <3>1. CASE r = s
      BY <3>1, <1>1, <1>3, <2>2
    <3>2. CASE r # s
      BY <3>2, <1>3, <2>2
    <3> QED BY <3>1, <3>2
  <2> QED BY <1>3, <2>3, <2>4, <2>5, HandledStep
<1>4. CASE HandleFailedNotification(t, s, w)
  <2>1. HandleOver(t, "current", Unfinished(s, w, "Failed"))
    BY <1>4 DEF HandleFailedNotification
  <2>2. Unfinished(s, w, "Failed") \in [Step -> StepRecord]
    BY <1>1, UnfinishedIs
  <2> QED BY <1>2, <1>3, <2>1, <2>2
<1>5. CASE HandleFailedEvent(t, s, w)
  <2>1. s # None => Attempted(s) \in 0 .. Budget
    BY <1>1, PlanAssumption DEF Attempted, StepRecord
  <2>2. PICK st \in {"Rejected", "Failed"}, l \in {"auto", "current"} :
          HandleOver(t, l, [Unfinished(s, w, st) EXCEPT ![s].attempts = Attempted(s)])
    BY <1>5 DEF HandleFailedEvent
  <2> DEFINE p == [Unfinished(s, w, st) EXCEPT ![s].attempts = Attempted(s)]
  <2>3. Unfinished(s, w, st) \in [Step -> StepRecord]
    BY <1>1, UnfinishedIs
  <2>4. p \in [Step -> StepRecord]
    <3>1. CASE s # None
      BY <3>1, <2>1, <2>3, FieldType
    <3>2. CASE s = None
      BY <3>2, <1>1, <2>3
    <3> QED BY <3>1, <3>2
  <2>5. \A r \in Step : /\ p[r].status = Unfinished(s, w, st)[r].status
                        /\ p[r].completed = Unfinished(s, w, st)[r].completed
                        /\ p[r].tracked = Unfinished(s, w, st)[r].tracked
    BY <2>3 DEF StepRecord
  <2>6. HandleOver(t, l, p)
    BY <2>2
  <2> HIDE DEF p
  <2> QED BY <1>2, <1>3, <2>4, <2>5, <2>6
<1> QED BY <1>4, <1>5

\* The worker has completed: its step takes note of it or is reviewed.
LEMMA CompletedStep ==
  ASSUME IInv, NEW t \in Thread \ {A}, NEW s \in Step, NEW w \in given[s],
         task[w].state = "Completed", HandleCompleted(t, s, w),
         UNCHANGED <<stage, current, btask, task, queue, mailbox, accepted, given>>,
         inbox' \in Seq([kind : {"task", "group"}, task : Worker])
  PROVE  IInv'
<1>1. /\ plan \in [Step -> StepRecord] /\ accepted \subseteq Step
      /\ w \in Worker /\ w \in Worker \cup {None}
  BY DEF IInv, TypeOK, PlanTypeOK
<1>2. CASE Is(s, "Completed")
  <2> DEFINE p == [plan EXCEPT ![s].tracked = w]
  <2>1. HandleOver(t, "current", p) /\ "current" \in Free
    BY <1>2 DEF HandleCompleted, Free, Label
  <2>2. p \in [Step -> StepRecord]
    BY <1>1, FieldType
  <2>3. \A r \in Step : /\ p[r].status = plan[r].status
                        /\ p[r].completed = plan[r].completed
                        /\ p[r].tracked = plan[r].tracked \/ p[r].tracked \in given[r]
    BY <1>1 DEF StepRecord
  <2> HIDE DEF p
  <2>4. \A r \in Step : p[r].status = "Running" => plan[r].status = "Running"
    BY <2>3
  <2>5. \A r \in Step : p[r].completed => plan[r].completed
    BY <2>3
  <2>6. \A r \in Step : p[r].tracked = plan[r].tracked \/ p[r].tracked \in given[r]
    BY <2>3
  <2> QED BY <2>1, <2>2, <2>4, <2>5, <2>6, HandledStep
<1>3. CASE ~Is(s, "Completed")
  <2>1. /\ plan' = Unfinished(s, w, "Reviewing")
        /\ pc' = [pc EXCEPT ![t] = "ask"]
        /\ at' = [at EXCEPT ![t] = s] /\ aim' = [aim EXCEPT ![t] = None]
        /\ UNCHANGED <<job, next, synced>>
    BY <1>3 DEF HandleCompleted, Unfinished
  <2>2. /\ plan' \in [Step -> StepRecord]
        /\ \A r \in Step \ {s} : plan'[r] = plan[r]
        /\ plan'[s].status = "Reviewing" /\ ~plan'[s].completed /\ plan'[s].tracked = w
    BY <1>1, <2>1, UnfinishedIs
  <2>3. OneStepRuns'
    <3>1. \A r \in Step : plan'[r].status = "Running" => plan[r].status = "Running"
      BY <2>2
    <3> QED BY <3>1, StillOne DEF IInv
  <2>4. \A r \in Step : plan'[r].completed => plan[r].completed
    BY <2>2
  <2>5. \A r \in Step : \/ plan'[r].tracked \in {None, plan[r].tracked}
                        \/ plan'[r].tracked \in given[r]
    BY <2>2
  <2>6. /\ ThreadTypeOK' /\ at'[t] = s
        /\ \A u \in Thread \ {t} : at'[u] = at[u] /\ aim'[u] = aim[u]
    BY <2>1 DEF IInv, TypeOK, ThreadTypeOK, Label
  <2>7. Done(at'[t])
    BY <2>6 DEF Done
  <2>8. t # A /\ accepted' = accepted
    OBVIOUS
  <2> QED BY <1>1, <2>1, <2>2, <2>3, <2>4, <2>5, <2>6, <2>7, <2>8, Change
<1> QED BY <1>2, <1>3

\* A worker's record names a step it was given to.
LEMMA RecordType ==
  ASSUME IInv, NEW w \in Worker
  PROVE  /\ task[w].step \in Step \cup {None}
         /\ task[w].step # None => w \in given[task[w].step]
         /\ task[w].state # "none" => task[w].step \in Step
  BY DEF IInv, TypeOK, TaskTypeOK, Recorded

LEMMA NotifiedStep ==
  ASSUME IInv, NEW w \in Worker, Notified(w) PROVE IInv'
<1>1. w \in Thread \ {A}
  BY Threads
<1>2. /\ UNCHANGED <<stage, current, btask, task, queue, mailbox, accepted, given>>
      /\ inbox' \in Seq([kind : {"task", "group"}, task : Worker])
  BY DEF Notified, taskVars, histVars, IInv, TypeOK, TaskTypeOK
<1>3. CASE task[w].state = "Completed"
  <2>1. HandleCompleted(w, task[w].step, w)
    BY <1>3 DEF Notified
  <2>2. task[w].step \in Step /\ w \in given[task[w].step]
    <3>1. task[w].step \in Step
      BY <1>3, RecordType
    <3> QED BY <3>1, Threads, RecordType
  <2> QED BY <1>1, <1>2, <1>3, <2>1, <2>2, CompletedStep
<1>4. CASE task[w].state # "Completed"
  <2>1. HandleFailedNotification(w, task[w].step, w)
    BY <1>4 DEF Notified
  <2> QED BY <1>1, <1>2, <2>1, RecordType, FailureStep
<1> QED BY <1>3, <1>4

\* The driver handles an event of worker w of step s.
LEMMA EventStep ==
  ASSUME IInv, NEW s \in Step \cup {None}, NEW w \in Worker, s # None => w \in given[s],
         task[w].state = "Completed" => s \in Step, HandleEvent(s, w),
         UNCHANGED <<stage, current, btask, task, queue, mailbox, accepted, given>>,
         inbox' \in Seq([kind : {"task", "group"}, task : Worker])
  PROVE  IInv'
<1>1. Driver \in Thread \ {A}
  BY Threads
<1>2. CASE task[w].state = "Completed"
  <2>1. HandleCompleted(Driver, s, w) /\ s \in Step /\ s # None
    BY <1>2, Threads DEF HandleEvent
  <2> QED BY <1>1, <1>2, <2>1, CompletedStep
<1>3. CASE task[w].state # "Completed"
  <2>1. HandleFailedEvent(Driver, s, w)
    BY <1>3 DEF HandleEvent
  <2> QED BY <1>1, <2>1, FailureStep
<1> QED BY <1>2, <1>3

LEMMA TakeEventStep ==
  ASSUME IInv, TakeEvent PROVE IInv'
<1> DEFINE e == Head(inbox)
           s == First({r \in Step : plan[r].tracked = e.task})
<1>1. inbox # << >> /\ pc[Driver] = "event" /\ Driver \in Thread
  BY Threads DEF TakeEvent
<1>2. e \in [kind : {"task", "group"}, task : Worker]
      /\ inbox' \in Seq([kind : {"task", "group"}, task : Worker])
  <2> DEFINE E == [kind : {"task", "group"}, task : Worker]
  <2>1. inbox \in Seq(E) /\ inbox' = Tail(inbox)
    BY DEF TakeEvent, IInv, TypeOK, TaskTypeOK
  <2> HIDE DEF E
  <2>2. Head(inbox) \in E /\ inbox' \in Seq(E)
    BY <1>1, <2>1, HeadTailProperties
  <2> QED BY <2>2 DEF E
<1>3. e.task \in Worker
  BY <1>2
<1>4. UNCHANGED <<stage, current, btask, task, queue, mailbox, accepted, given>>
  BY DEF TakeEvent, taskVars, histVars
<1>5. CASE e.kind = "task"
  <2>1. HandleEvent(task[e.task].step, e.task)
    BY <1>5 DEF TakeEvent
  <2>2. /\ task[e.task].step \in Step \cup {None}
        /\ task[e.task].step # None => e.task \in given[task[e.task].step]
        /\ task[e.task].state = "Completed" => task[e.task].step \in Step
    BY <1>3, RecordType
  <2> HIDE DEF e
  <2> QED BY <1>2, <1>3, <1>4, <2>1, <2>2, EventStep
<1>6. CASE e.kind # "task"
  <2>1. /\ plan' = IF s = None THEN plan ELSE [plan EXCEPT ![s].status = "Reviewing"]
        /\ UNCHANGED threadVars
    BY <1>6 DEF TakeEvent
  <2> HIDE DEF s, e
  <2>2. plan \in [Step -> StepRecord] /\ accepted \subseteq Step
    BY DEF IInv, TypeOK, PlanTypeOK
  <2>3. plan' \in [Step -> StepRecord]
    BY <2>1, <2>2, FieldType
  <2>4. \A r \in Step : /\ plan'[r].status = "Running" => plan[r].status = "Running"
                        /\ plan'[r].completed = plan[r].completed
                        /\ plan'[r].tracked = plan[r].tracked
    BY <2>1, <2>2 DEF StepRecord
  <2>5. OneStepRuns'
    BY <2>4, StillOne DEF IInv
  <2>6. /\ pc' = [pc EXCEPT ![Driver] = "event"] /\ at' = at /\ aim' = aim
        /\ ThreadTypeOK' /\ "event" \in Free
    BY <1>1, <2>1 DEF IInv, TypeOK, ThreadTypeOK, threadVars, Free, Label
  <2>7. "event" # "ask" /\ "event" # "dispatch" /\ accepted' = accepted
    BY <1>4
  <2> QED BY <1>1, <1>2, <1>4, <2>2, <2>3, <2>4, <2>5, <2>6, <2>7, Change
<1> QED BY <1>5, <1>6

LEMMA SyncEventStep ==
  ASSUME IInv, SyncEvent PROVE IInv'
<1>1. /\ at[Driver] \in Step /\ at[Driver] \in Step \cup {None}
      /\ aim[Driver] \in given[at[Driver]] /\ aim[Driver] \in Worker
  BY Threads DEF SyncEvent, IInv, AtStep, TypeOK, PlanTypeOK
<1>2. /\ UNCHANGED <<stage, current, btask, task, queue, mailbox, accepted, given>>
      /\ inbox' \in Seq([kind : {"task", "group"}, task : Worker])
      /\ HandleEvent(at[Driver], aim[Driver])
  BY DEF SyncEvent, taskVars, histVars, IInv, TypeOK, TaskTypeOK
<1> QED BY <1>1, <1>2, EventStep

-----------------------------------------------------------------------------
\* What A answers.

\* A step it judges, which changes but for its worker and does not run.
LEMMA JudgedStep ==
  ASSUME IInv, NEW l \in Free, Go(A, l), mailbox # << >>, Judged # None,
         plan' \in [Step -> StepRecord],
         \A r \in Step \ {Judged} : plan'[r] = plan[r],
         plan'[Judged].status # "Running",
         plan'[Judged].tracked = plan[Judged].tracked,
         plan'[Judged].completed => plan[Judged].completed \/ accepted' = accepted \cup {Judged},
         accepted' \in {accepted, accepted \cup {Judged}},
         UNCHANGED <<stage, current, btask, task, queue, inbox, mailbox, given>>
  PROVE  IInv'
<1>1. Judged \in Step /\ Done(Judged)
  BY HeadTail DEF Judged
<1>2. /\ plan \in [Step -> StepRecord] /\ accepted \subseteq Step
      /\ inbox' \in Seq([kind : {"task", "group"}, task : Worker])
  BY DEF IInv, TypeOK, PlanTypeOK, TaskTypeOK
<1> HIDE DEF Judged
<1>3. OneStepRuns'
  <2>1. \A r \in Step : plan'[r].status = "Running" => plan[r].status = "Running"
    OBVIOUS
  <2> QED BY <2>1, StillOne DEF IInv
<1>4. \A r \in Step : plan'[r].completed => plan[r].completed \/ r \in accepted'
  OBVIOUS
<1>5. \A r \in Step : plan'[r].tracked = plan[r].tracked
  OBVIOUS
<1>6. /\ accepted \subseteq accepted' /\ accepted' \subseteq Step
      /\ \A r \in accepted' : r \in accepted \/ Done(r)
  BY <1>1, <1>2
<1>7. /\ ThreadTypeOK' /\ A \in Thread /\ pc' = [pc EXCEPT ![A] = l]
      /\ at' = at /\ aim' = aim
  BY Threads DEF Go, IInv, TypeOK, ThreadTypeOK, Free
<1>8. l # "ask" /\ l # "dispatch" /\ l \in Free \cup {"ask", "dispatch"}
  BY DEF Free
<1> QED BY <1>2, <1>3, <1>4, <1>5, <1>6, <1>7, <1>8, Change

LEMMA JudgeAcceptStep ==
  ASSUME IInv, JudgeAccept PROVE IInv'
<1>1. plan \in [Step -> StepRecord] /\ mailbox # << >> /\ Judged # None
  BY DEF JudgeAccept, Judging, Judged, IInv, TypeOK, PlanTypeOK
<1>2. Judged \in Step
  BY <1>1, HeadTail DEF Judged
<1>3. /\ Go(A, "accepted") /\ "accepted" \in Free /\ accepted' = accepted \cup {Judged}
      /\ UNCHANGED <<stage, current, btask, task, queue, inbox, mailbox, given>>
  BY DEF JudgeAccept, taskVars, Free, Label
<1>4. plan' = [plan EXCEPT ![Judged].status = "Completed", ![Judged].completed = TRUE,
                           ![Judged].verify = FALSE]
  BY DEF JudgeAccept
<1> HIDE DEF Judged
<1> DEFINE r == [plan[Judged] EXCEPT !.status = "Completed", !.completed = TRUE,
                                     !.verify = FALSE]
<1>5. plan' = [plan EXCEPT ![Judged] = r]
  BY <1>4
<1>6. r \in StepRecord /\ r.status = "Completed" /\ r.tracked = plan[Judged].tracked
  BY <1>1, <1>2 DEF StepRecord
<1> HIDE DEF r
<1>7. /\ plan' \in [Step -> StepRecord] /\ plan'[Judged] = r
      /\ \A q \in Step \ {Judged} : plan'[q] = plan[q]
  BY <1>1, <1>2, <1>5, <1>6
<1>8. plan'[Judged].status # "Running" /\ plan'[Judged].tracked = plan[Judged].tracked
  BY <1>6, <1>7
<1> QED BY <1>1, <1>3, <1>7, <1>8, JudgedStep

LEMMA JudgeReplanStep ==
  ASSUME IInv, JudgeReplan PROVE IInv'
<1>1. plan \in [Step -> StepRecord] /\ mailbox # << >> /\ Judged # None
  BY DEF JudgeReplan, Judging, Judged, IInv, TypeOK, PlanTypeOK
<1>2. Judged \in Step
  BY <1>1, HeadTail DEF Judged
<1>3. /\ Go(A, "answer") /\ "answer" \in Free /\ accepted' = accepted
      /\ UNCHANGED <<stage, current, btask, task, queue, inbox, mailbox, given>>
  BY DEF JudgeReplan, taskVars, histVars, Free, Label
<1>4. plan' = [plan EXCEPT ![Judged].status = "ReplanRequired", ![Judged].verify = FALSE]
  BY DEF JudgeReplan
<1> HIDE DEF Judged
<1> DEFINE r == [plan[Judged] EXCEPT !.status = "ReplanRequired", !.verify = FALSE]
<1>5. plan' = [plan EXCEPT ![Judged] = r]
  BY <1>4
<1>6. /\ r \in StepRecord /\ r.status = "ReplanRequired"
      /\ r.tracked = plan[Judged].tracked /\ r.completed = plan[Judged].completed
  BY <1>1, <1>2 DEF StepRecord
<1> HIDE DEF r
<1>7. /\ plan' \in [Step -> StepRecord] /\ plan'[Judged] = r
      /\ \A q \in Step \ {Judged} : plan'[q] = plan[q]
  BY <1>1, <1>2, <1>5, <1>6
<1>8. /\ plan'[Judged].status # "Running" /\ plan'[Judged].tracked = plan[Judged].tracked
      /\ plan'[Judged].completed => plan[Judged].completed
  BY <1>6, <1>7
<1> QED BY <1>1, <1>3, <1>7, <1>8, JudgedStep

\* The loop guard leaves a step that does not run.
LEMMA GuardedIs ==
  ASSUME NEW r \in StepRecord, NEW evidence \in BOOLEAN, NEW same \in BOOLEAN
  PROVE  /\ Guarded(r, evidence, same) \in StepRecord
         /\ Guarded(r, evidence, same).status # "Running"
         /\ Guarded(r, evidence, same).tracked = r.tracked
         /\ Guarded(r, evidence, same).completed = r.completed
<1> DEFINE n == IF same /\ ~evidence /\ r.count > 0 THEN r.count + 1 ELSE 1
           g == IF n >= LoopLimit THEN TRUE ELSE ~evidence /\ r.guarded
           c == IF n > LoopLimit THEN LoopLimit ELSE n
           st == IF n >= LoopLimit THEN "Failed" ELSE "Rejected"
<1>1. LoopLimit \in Nat /\ LoopLimit >= 1
  BY PlanAssumption
<1>2. r.count \in 0 .. LoopLimit
  BY DEF StepRecord
<1>3. c \in 0 .. LoopLimit
  BY <1>1, <1>2
<1>4. g \in BOOLEAN /\ st \in {"Failed", "Rejected"}
  BY DEF StepRecord
<1>5. Guarded(r, evidence, same) = [r EXCEPT !.count = c, !.guarded = g, !.status = st]
  BY DEF Guarded
<1> HIDE DEF c, g, st
<1> QED BY <1>3, <1>4, <1>5 DEF StepRecord

LEMMA JudgeCorrectStep ==
  ASSUME IInv, JudgeCorrect PROVE IInv'
<1>1. plan \in [Step -> StepRecord] /\ mailbox # << >> /\ Judged # None
  BY DEF JudgeCorrect, Judging, Judged, IInv, TypeOK, PlanTypeOK
<1>2. Judged \in Step
  BY <1>1, HeadTail DEF Judged
<1>3. /\ Go(A, "answer") /\ "answer" \in Free /\ accepted' = accepted
      /\ UNCHANGED <<stage, current, btask, task, queue, inbox, mailbox, given>>
  BY DEF JudgeCorrect, taskVars, histVars, Free, Label
<1>4. Attempted(Judged) \in 0 .. Budget
  BY <1>1, <1>2, PlanAssumption DEF Attempted, StepRecord
<1> DEFINE r == [plan[Judged] EXCEPT !.attempts = Attempted(Judged)]
<1>5. \/ plan' = [plan EXCEPT ![Judged] = [r EXCEPT !.status = "Failed"]]
      \/ \E verify, evidence, same \in BOOLEAN :
           plan' = [plan EXCEPT ![Judged] = Guarded([r EXCEPT !.verify = verify], evidence, same)]
  BY DEF JudgeCorrect
<1> HIDE DEF Judged
<1>6. r \in StepRecord /\ r.tracked = plan[Judged].tracked
      /\ r.completed = plan[Judged].completed
  BY <1>1, <1>2, <1>4 DEF StepRecord
<1> HIDE DEF r
<1>7. PICK q \in StepRecord : /\ plan' = [plan EXCEPT ![Judged] = q]
                              /\ q.status # "Running" /\ q.tracked = r.tracked
                              /\ q.completed = r.completed
  <2>1. CASE plan' = [plan EXCEPT ![Judged] = [r EXCEPT !.status = "Failed"]]
    <3> DEFINE q == [r EXCEPT !.status = "Failed"]
    <3>1. /\ q \in StepRecord /\ q.status # "Running" /\ q.tracked = r.tracked
          /\ q.completed = r.completed
      BY <1>6 DEF StepRecord
    <3>2. plan' = [plan EXCEPT ![Judged] = q]
      BY <2>1
    <3> HIDE DEF q
    <3> QED BY <3>1, <3>2
  <2>2. CASE \E verify, evidence, same \in BOOLEAN :
               plan' = [plan EXCEPT ![Judged] =
                          Guarded([r EXCEPT !.verify = verify], evidence, same)]
    <3>1. PICK verify \in BOOLEAN, evidence \in BOOLEAN, same \in BOOLEAN :
            plan' = [plan EXCEPT ![Judged] =
                       Guarded([r EXCEPT !.verify = verify], evidence, same)]
      BY <2>2
    <3> DEFINE v == [r EXCEPT !.verify = verify]
    <3>2. v \in StepRecord /\ v.tracked = r.tracked /\ v.completed = r.completed
      BY <1>6 DEF StepRecord
    <3>3. plan' = [plan EXCEPT ![Judged] = Guarded(v, evidence, same)]
      BY <3>1
    <3> HIDE DEF v
    <3> DEFINE q == Guarded(v, evidence, same)
    <3>4. q \in StepRecord /\ q.status # "Running"
      BY <3>2, GuardedIs
    <3>5. q.tracked = v.tracked /\ q.completed = v.completed
      BY <3>2, GuardedIs
    <3>6. plan' = [plan EXCEPT ![Judged] = q]
      BY <3>3
    <3> HIDE DEF q
    <3> QED BY <3>2, <3>4, <3>5, <3>6
  <2> QED BY <1>5, <2>1, <2>2
<1>8. /\ plan' \in [Step -> StepRecord] /\ plan'[Judged] = q
      /\ \A s \in Step \ {Judged} : plan'[s] = plan[s]
  BY <1>1, <1>2, <1>7
<1>9. plan'[Judged].status # "Running"
  BY <1>7, <1>8
<1>10. plan'[Judged].tracked = plan[Judged].tracked
  BY <1>6, <1>7, <1>8
<1>11. plan'[Judged].completed => plan[Judged].completed
  BY <1>6, <1>7, <1>8
<1> QED BY <1>1, <1>3, <1>8, <1>9, <1>10, <1>11, JudgedStep

LEMMA AcceptedStep ==
  ASSUME IInv, Accepted PROVE IInv'
<1>1. A \in Thread /\ current' \in Step \cup {None}
  BY Threads, NextUnfinishedType DEF Accepted
<1>2. PICK l \in Free : Go(A, l)
  BY DEF Accepted, Free, Label
<1> QED BY <1>1, <1>2, GoFree, StageType DEF Accepted, taskVars, histVars

-----------------------------------------------------------------------------
\* The loop of a headless run.

LEMMA DriverGoes ==
  ASSUME IInv,
         PollStage \/ PollWorkers \/ Looped \/ LoopTail \/ Deadline
  PROVE  IInv'
<1> USE StageType DEF planVars, taskVars, histVars
<1>1. Driver \in Thread
  BY Threads
<1>2. PICK l \in Free : Go(Driver, l)
  BY DEF PollStage, PollWorkers, Looped, LoopTail, Deadline, Free, Label
<1>3. UNCHANGED <<planVars, taskVars, inbox, mailbox, histVars>>
  BY DEF PollStage, PollWorkers, Looped, LoopTail, Deadline
<1> QED BY <1>1, <1>2, <1>3, GoFree

LEMMA DriverMoves ==
  ASSUME IInv, PollFailure \/ Synced PROVE IInv'
<1>1. Driver \in Thread /\ {"advance", "pollWorkers"} \subseteq Free
  BY Threads DEF Free, Label
<1>2. PICK l \in Free : pc' = [pc EXCEPT ![Driver] = l]
  BY <1>1 DEF PollFailure, Synced
<1>3. /\ job' \in [Thread -> {"start", "loop", "final", "event", "sync", "notify", "review"}]
      /\ next' \in [Thread -> Step \cup {None}] /\ synced' \in BOOLEAN
      /\ UNCHANGED <<at, aim>>
  <2>1. /\ job \in [Thread -> {"start", "loop", "final", "event", "sync", "notify", "review"}]
        /\ next \in [Thread -> Step \cup {None}] /\ synced \in BOOLEAN
    BY DEF IInv, TypeOK, ThreadTypeOK
  <2>2. CASE PollFailure
    BY <1>1, <2>1, <2>2 DEF PollFailure
  <2>3. CASE Synced
    BY <1>1, <2>1, <2>3 DEF Synced
  <2> QED BY <2>2, <2>3
<1>4. /\ UNCHANGED <<plan, stage, btask, task, queue, inbox, mailbox, accepted, given>>
      /\ current' \in Step \cup {None}
  BY StageType DEF PollFailure, Synced, planVars, taskVars, histVars
<1> QED BY <1>1, <1>2, <1>3, <1>4, Onward

LEMMA DrainStep ==
  ASSUME IInv, Drain PROVE IInv'
<1>1. Driver \in Thread /\ "event" \in Free \cup {"recordB"} /\ "event" # "recordB"
  BY Threads DEF Free, Label
<1>2. TypeOK'
  <2>1. PlanTypeOK'
    BY DEF Drain, IInv, TypeOK, PlanTypeOK, planVars, histVars
  <2>2. TaskTypeOK'
    BY EmptySeq DEF Drain, IInv, TypeOK, TaskTypeOK
  <2>3. ThreadTypeOK'
    BY DEF Drain, IInv, TypeOK, ThreadTypeOK, Label
  <2> QED BY <2>1, <2>2, <2>3 DEF TypeOK
<1>3. /\ pc' = [pc EXCEPT ![Driver] = "event"] /\ UNCHANGED <<at, aim>>
      /\ UNCHANGED <<plan, stage, mailbox, accepted, given, task>>
  BY DEF Drain, planVars, histVars
<1>4. \A w \in Worker : task[w].state # "none" => task[w].step # None
  BY DEF IInv, Recorded
<1> QED BY <1>1, <1>2, <1>3, <1>4, Give

\* The driver goes to handle the end of a worker that was given the step.
LEMMA SyncStep ==
  ASSUME IInv, Sync PROVE IInv'
<1> DEFINE s == IF current \in Overdue THEN current ELSE First(Overdue)
<1>1. Overdue \in SUBSET Step
  BY DEF Overdue
<1>2. s # None => s \in Overdue
  BY <1>1, FirstStep
<1> HIDE DEF s
<1>3. /\ pc' = [pc EXCEPT ![Driver] = IF s = None THEN "synced" ELSE "synth"]
      /\ at' = [at EXCEPT ![Driver] = s]
      /\ aim' = [aim EXCEPT ![Driver] = IF s = None THEN None ELSE plan[s].tracked]
      /\ synced' = (s # None) /\ job' = [job EXCEPT ![Driver] = "sync"]
      /\ next' = next
      /\ UNCHANGED <<planVars, taskVars, inbox, mailbox, histVars>>
  BY DEF Sync, s
<1>4. s # None => /\ s \in Step /\ plan[s].tracked \in Worker
                  /\ plan[s].tracked \in given[s]
  BY <1>1, <1>2 DEF Overdue, Over, IInv, Recorded, TypeOK, PlanTypeOK, StepRecord
<1>5. Driver \in Thread
  BY Threads
<1>6. PICK l \in {"synced", "synth"} : /\ pc' = [pc EXCEPT ![Driver] = l]
                                       /\ l = "synth" => s # None
  BY <1>3
<1>7. /\ ThreadTypeOK' /\ at'[Driver] = s
      /\ s # None => aim'[Driver] = plan[s].tracked
      /\ \A u \in Thread \ {Driver} : at'[u] = at[u] /\ aim'[u] = aim[u]
  BY <1>3, <1>4, <1>5, <1>6 DEF IInv, TypeOK, ThreadTypeOK, Label
<1>8. UNCHANGED <<plan, stage, current, btask, task, queue, inbox, mailbox, accepted, given>>
  BY <1>3 DEF planVars, taskVars, histVars
<1>9. l \in Label \ {"ask"} /\ l \notin {"dispatch", "launch", "recordB", "recordStep",
                                        "complete", "finish"}
  BY DEF Label
<1> QED BY <1>4, <1>5, <1>6, <1>7, <1>8, <1>9, StageType, Move

-----------------------------------------------------------------------------
\* The invariant.

LEMMA InitInvariant == Init => IInv /\ Busy
<1> SUFFICES ASSUME Init PROVE IInv /\ Busy
  OBVIOUS
<1>1. PlanTypeOK
  <2>1. PICK required \in SUBSET Approval :
          plan = [s \in Step |-> [status |-> "Pending", completed |-> FALSE, attempts |-> 0,
                                  verify |-> FALSE, count |-> 0, guarded |-> FALSE,
                                  tracked |-> None, approval |-> s \in required]]
    BY DEF Init
  <2>2. 0 \in 0 .. Budget /\ 0 \in 0 .. LoopLimit
    BY PlanAssumption
  <2>3. plan \in [Step -> StepRecord]
    BY <2>1, <2>2 DEF StepRecord
  <2>4. Headless => 1 \in Step
    BY PlanAssumption DEF Step
  <2>5. /\ stage \in {"WaitingForApproval", "Execution"}
        /\ current \in Step \cup {None} /\ btask = None
        /\ accepted = {} /\ given = [s \in Step |-> {}]
    BY <2>4 DEF Init
  <2> QED BY <2>3, <2>5 DEF PlanTypeOK
<1>2. TaskTypeOK
  <2>1. /\ task = [w \in Worker |-> [state |-> "none", step |-> None, fanin |-> FALSE]]
        /\ queue = << >> /\ inbox = << >> /\ mailbox = << >>
    BY DEF Init
  <2> QED BY <2>1, EmptySeq DEF TaskTypeOK
<1>3. ThreadTypeOK
  <2>1. /\ pc = [t \in Thread |-> IF t # Driver THEN "idle"
                                 ELSE IF Headless THEN "advance" ELSE "prompt"]
        /\ job = [t \in Thread |-> CASE t = Driver -> "start" [] t = A -> "review"
                                     [] OTHER -> "notify"]
        /\ at = [t \in Thread |-> None] /\ aim = [t \in Thread |-> None]
        /\ next = [t \in Thread |-> None] /\ synced = FALSE
    BY DEF Init
  <2>2. \A t \in Thread : pc[t] \in {"idle", "advance", "prompt"}
                          /\ job[t] \in {"start", "review", "notify"}
    BY <2>1
  <2> QED BY <2>1, <2>2 DEF ThreadTypeOK, Label
<1>4. /\ \A t \in Thread : pc[t] \in {"idle", "advance", "prompt"}
      /\ \A s \in Step : plan[s].status = "Pending" /\ ~plan[s].completed
                         /\ plan[s].tracked = None
      /\ \A w \in Worker : task[w].state = "none" /\ task[w].step = None
      /\ accepted = {} /\ mailbox = << >> /\ stage # "Completed"
  BY DEF Init
<1>5. OneStepRuns /\ AtStep /\ Recorded /\ AcceptedWasDone
  BY <1>4 DEF OneStepRuns, Is, AtStep, Recorded, AcceptedWasDone
<1>6. Asked
  <2>1. DOMAIN mailbox = {}
    BY <1>4
  <2> QED BY <1>4, <2>1 DEF Asked
<1>7. Finished
  BY <1>4 DEF Finished, Completed
<1>8. Busy
  <2>1. A \in Thread /\ A # Driver
    BY Threads
  <2>2. pc = [t \in Thread |-> IF t # Driver THEN "idle"
                              ELSE IF Headless THEN "advance" ELSE "prompt"]
    BY DEF Init
  <2>3. pc[A] = "idle"
    BY <2>1, <2>2
  <2> QED BY <2>3 DEF Busy
<1> QED BY <1>1, <1>2, <1>3, <1>5, <1>6, <1>7, <1>8 DEF IInv, TypeOK

LEMMA AdvanceInvariant ==
  ASSUME IInv, NEW t \in Thread, Advance(t) \/ Handle(t) PROVE IInv'
<1>1. CASE Advance(t)
  BY <1>1, AdvanceGoes, AdvanceDoneStep, AdvanceStepStep, AdvanceReplanStep, BarrierStep,
     PointStep, DispatchStep, ContinueStep, SpawnStep, RecordBStep, RecordStepStep,
     BlockedStep DEF Advance
<1>2. CASE Handle(t)
  BY <1>2, AutoAdvanceStep, SetCurrentStep, AskStep DEF Handle
<1> QED BY <1>1, <1>2

LEMMA NextInvariant == IInv /\ Busy /\ [Next]_vars => IInv'
<1> SUFFICES ASSUME IInv, Busy, [Next]_vars PROVE IInv'
  OBVIOUS
<1>1. ASSUME NEW t \in Thread, Advance(t) \/ Handle(t) PROVE IInv'
  BY <1>1, AdvanceInvariant
<1>2. ASSUME NEW w \in Worker, Notified(w) PROVE IInv'
  BY <1>2, NotifiedStep
<1>3. ASSUME NEW w \in Worker, WorkerFansIn(w) PROVE IInv'
  BY <1>3, WorkerFansInStep
<1>4. ASSUME NEW w \in Worker, NEW o \in {"Completed", "Failed"}, WorkerEnds(w, o)
      PROVE  IInv'
  BY <1>4, WorkerEndsStep
<1>5. CASE Review
  BY <1>5, JudgeAcceptStep, JudgeCorrectStep, JudgeReplanStep, AcceptedStep, AnswerStep,
     ApprovedStep DEF Review
<1>6. CASE Approve
  BY <1>6, ApproveStep
<1>7. CASE Drive
  BY <1>7, DrainStep, TakeEventStep, DriverGoes, DriverMoves, SyncStep, SyncEventStep
     DEF Drive
<1>8. CASE Deadline
  BY <1>8, DriverGoes
<1>9. CASE UNCHANGED vars
  <2>1. UNCHANGED <<plan, stage, current, btask, task, queue, inbox, mailbox, pc, job, at,
                    aim, next, synced, accepted, given>>
    BY <1>9 DEF vars, planVars, taskVars, threadVars, histVars
  <2> QED BY <2>1 DEF IInv, TypeOK, PlanTypeOK, TaskTypeOK, ThreadTypeOK, OneStepRuns, Is,
                      AtStep, Asked, Done, Recorded, Finished, Completed, AcceptedWasDone
<1> QED BY <1>1, <1>2, <1>3, <1>4, <1>5, <1>6, <1>7, <1>8, <1>9 DEF Next

\* A turns to a request only when there is one, and is done with it when it answers.
LEMMA StaysBusy ==
  ASSUME Busy, mailbox # << >> => mailbox' # << >>,
         pc[A] # "idle" \/ pc'[A] = pc[A] \/ mailbox # << >>
  PROVE  Busy'
  BY DEF Busy

LEMMA BusyInvariant == IInv /\ Busy /\ [Next]_vars => Busy'
<1> SUFFICES ASSUME IInv, Busy, [Next]_vars PROVE Busy'
  OBVIOUS
<1> USE Threads
<1>0. /\ pc \in [Thread -> Label]
      /\ mailbox \in Seq([by : Thread \ {A}, step : Step \cup {None}])
  BY DEF IInv, TypeOK, TaskTypeOK, ThreadTypeOK
<1>1. ASSUME NEW t \in Thread, Advance(t) PROVE Busy'
  <2>1. pc[t] # "idle" /\ mailbox' = mailbox
    BY <1>1 DEF Advance, AdvanceDone, AdvanceHalt, AdvanceBusy, Selecting, AdvanceStep,
         AdvanceReplan, Barrier, Point, Complete, Finish, Halt, Again, Dispatch, Continue,
         Spawn, Denied, RecordB, RecordStep, Blocked, GiveUp
  <2>2. \E l : pc' = [pc EXCEPT ![t] = l]
    BY <1>1 DEF Advance, AdvanceDone, AdvanceHalt, AdvanceBusy, AdvanceStep,
         AdvanceReplan, Barrier, Point, Complete, Finish, Halt, Again, Dispatch, Continue,
         Spawn, Denied, RecordB, RecordStep, Blocked, GiveUp, Go, Leave, GoAt
  <2>3. t # A => pc'[A] = pc[A]
    BY <1>0, <2>2
  <2> QED BY <2>1, <2>3, StaysBusy
<1>2. ASSUME NEW t \in Thread, Handle(t) PROVE Busy'
  <2>1. pc[t] # "idle" /\ \E l : pc' = [pc EXCEPT ![t] = l]
    BY <1>2 DEF Handle, AutoAdvance, SetCurrent, Ask, Go
  <2>2. t # A => pc'[A] = pc[A]
    BY <1>0, <2>1
  <2>3. mailbox # << >> => mailbox' # << >>
    <3>1. CASE Ask(t)
      <4>1. t # A /\ at[t] \in Step
        BY <3>1 DEF Ask, IInv, Asked
      <4>2. [by |-> t, step |-> at[t]] \in [by : Thread \ {A}, step : Step \cup {None}]
        BY <4>1
      <4>3. Len(mailbox') = Len(mailbox) + 1 /\ Len(mailbox) \in Nat
        BY <1>0, <3>1, <4>2, AppendProperties, LenProperties DEF Ask
      <4> QED BY <4>3, EmptySeq
    <3>2. CASE ~Ask(t)
      BY <1>2, <3>2 DEF Handle, AutoAdvance, SetCurrent
    <3> QED BY <3>1, <3>2
  <2> QED BY <2>1, <2>2, <2>3, StaysBusy
<1>3. ASSUME NEW w \in Worker, Notified(w) PROVE Busy'
  <2>1. mailbox' = mailbox
    BY <1>3 DEF Notified
  <2>2. \E l : pc' = [pc EXCEPT ![w] = l]
    BY <1>3 DEF Notified, HandleCompleted, HandleFailedNotification, HandleOver
  <2>3. pc'[A] = pc[A]
    BY <1>0, <2>2
  <2> QED BY <2>1, <2>3, StaysBusy
<1>4. ASSUME NEW w \in Worker,
             WorkerFansIn(w) \/ \E o \in {"Completed", "Failed"} : WorkerEnds(w, o)
      PROVE  Busy'
  <2>1. mailbox' = mailbox /\ pc'[A] = pc[A]
    BY <1>0, <1>4 DEF WorkerFansIn, WorkerEnds, Go, threadVars
  <2> QED BY <2>1, StaysBusy
<1>5. CASE JudgeAccept \/ JudgeCorrect \/ JudgeReplan
  <2>1. mailbox # << >> /\ mailbox' = mailbox
    BY <1>5 DEF JudgeAccept, JudgeCorrect, JudgeReplan, Judging
  <2> QED BY <2>1, StaysBusy
<1>6. CASE Accepted
  BY <1>6, StaysBusy DEF Accepted
<1>7. CASE Answer
  <2>1. Head(mailbox).by # A
    BY <1>7, HeadTail DEF Answer, Busy
  <2>2. pc'[A] = "idle"
    BY <1>0, <1>7, <2>1 DEF Answer
  <2> QED BY <2>2 DEF Busy
<1>8. CASE Approved
  <2>1. pc[A] = "idle" /\ pc'[A] = pc[A]
    BY <1>0, <1>8 DEF Approved, Go
  <2> QED BY <2>1 DEF Busy
<1>9. CASE Approve
  <2>1. [by |-> Driver, step |-> None] \in [by : Thread \ {A}, step : Step \cup {None}]
    OBVIOUS
  <2>2. Len(mailbox') = Len(mailbox) + 1 /\ Len(mailbox) \in Nat
    BY <1>0, <1>9, <2>1, AppendProperties, LenProperties DEF Approve
  <2>3. mailbox' # << >>
    BY <2>2, EmptySeq
  <2> QED BY <2>3 DEF Busy
<1>10. CASE Drive \/ Deadline
  <2>1. mailbox' = mailbox
    BY <1>10, SMTT(30) DEF Drive, Deadline, Drain, TakeEvent, PollStage, PollFailure, PollWorkers,
         Sync, SyncEvent, Synced, Looped, LoopTail
  <2>2. pc' = pc \/ \E l : pc' = [pc EXCEPT ![Driver] = l]
    BY <1>10 DEF Drive, Deadline, Drain, TakeEvent, PollStage, PollFailure, PollWorkers,
         Sync, SyncEvent, Synced, Looped, LoopTail, Go, HandleEvent, HandleCompleted,
         HandleFailedEvent, HandleOver, threadVars
  <2>3. pc'[A] = pc[A]
    BY <1>0, <2>2
  <2> QED BY <2>1, <2>3, StaysBusy
<1>11. CASE UNCHANGED vars
  BY <1>11 DEF vars, threadVars, Busy
<1> QED BY <1>1, <1>2, <1>3, <1>4, <1>5, <1>6, <1>7, <1>8, <1>9, <1>10, <1>11
        DEF Next, Review

LEMMA Invariance == Spec => []IInv
<1>1. Init => IInv /\ Busy
  BY InitInvariant
<1>2. (IInv /\ Busy) /\ [Next]_vars => (IInv /\ Busy)'
  BY NextInvariant, BusyInvariant
<1> QED BY <1>1, <1>2, PTL DEF Spec

\* Every variable keeps its type, whatever the threads, the workers and A do.
THEOREM PlanTypeCorrect == Spec => []TypeOK
  BY Invariance, PTL DEF IInv

\* However many threads advance the plan, at most one step is being carried out
\* (advance_once looks for one that runs before it marks another).
THEOREM OneStepIsRun == Spec => []OneStepRuns
  BY Invariance, PTL DEF IInv

\* The plan is completed only when A has accepted every step, although the stage is set
\* long after the steps were looked at (PlanComplete, transition_to).
THEOREM CompletionIsSound == Spec => []CompletedWasAccepted
<1>1. IInv => CompletedWasAccepted
  BY DEF IInv, Finished, CompletedWasAccepted
<1> QED BY <1>1, Invariance, PTL

\* A accepts a step only if a worker it was given to has completed: no failure and no
\* stale report reaches a review (on_task_event, on_notification).
THEOREM AcceptanceIsSound == Spec => []AcceptedWasDone
  BY Invariance, PTL DEF IInv

-----------------------------------------------------------------------------
\* A second invariant, for what the workers of a step cost.
\*
\* A thread that is about to launch a worker has as good as launched it, so what a
\* step has spent are its workers and such threads.  It may owe at most one attempt,
\* and none when it waits to be done (again).  A step under review may owe one, and
\* must not be dispatched again: only a step to be verified could be, which is one
\* of a headless run, whose driver is then not where it advances the plan but on its
\* way to find that the step's worker has ended, and to lift the verification.

\* Threads about to launch a worker for the step.
Paying(s) == {t \in Thread : at[t] = s /\ \/ pc[t] = "dispatch"
                                          \/ pc[t] = "launch" /\ aim[t] = None}

Spent(s) == Cardinality(Launched(s)) + Cardinality(Paying(s))

\* The attempts that pay for a worker more: the last one of the budget does not.
Due(s)   == IF plan[s].attempts < Budget THEN plan[s].attempts ELSE Budget - 1
Owing(s) == Spent(s) > Due(s)

Dispatching == {"dispatch", "launch", "recordB", "recordStep"}
Advancing   == Dispatching \cup {"advance", "auto", "complete", "finish", "halt", "barrier",
                                 "point", "again", "blocked", "giveup"}
Notifying   == {"idle", "notify", "ask", "review", "current", "done", "blocked", "giveup"}
Prompting   == (Advancing \ {"auto"}) \cup {"prompt", "approval", "done"}
Polling     == {"drain", "event", "pollFailure", "pollWorkers", "sync", "synth", "done"}

\* A notification never advances the plan, and the user's commands do nothing else.
Roles ==
  /\ \A w \in Worker : pc[w] \in Notifying /\ job[w] = "notify"
  /\ ~Headless => pc[Driver] \in Prompting /\ job[Driver] = "start"

\* The driver waits for what it has in A's mailbox, which is one thing at most.
Posted ==
  /\ \A i \in DOMAIN mailbox :
       /\ mailbox[i].step = None => mailbox[i].by = Driver
       /\ mailbox[i].by = Driver => pc[Driver] \in {"review", "approval"}
  /\ \A i, j \in DOMAIN mailbox :
       mailbox[i].by = Driver /\ mailbox[j].by = Driver => i = j

\* An event is about a worker that a step was given.
Reported ==
  /\ \A i \in DOMAIN queue : task[queue[i].task].step # None
  /\ \A i \in DOMAIN inbox : task[inbox[i].task].step # None

Paid(s) ==
  /\ Spent(s) <= Due(s) + 1
  /\ plan[s].status \in {"Pending", "Rejected"} => ~Owing(s)
  /\ Is(s, "Rejected") => plan[s].attempts < Budget
  /\ ~Headless /\ Is(s, "Reviewing") => ~plan[s].verify

\* A step to be verified that owes an attempt.
Overdrawn(s) ==
  /\ ~Completed(s)
  /\ pc[Driver] = "launch" => aim[Driver] = None
  /\ pc[Driver] = "recordStep" => btask = aim[Driver]
  /\ pc[Driver] \notin Dispatching => btask # None /\ plan[s].tracked = btask
  /\ Is(s, "Reviewing") => /\ pc[Driver] \in Polling
                           /\ pc[Driver] = "sync" => Over(plan[s].tracked)

Verified(s) ==
  Headless /\ plan[s].verify => /\ pc[A] \notin Advancing \cup {"accepted"}
                                /\ ~Is(s, "Completed")
                                /\ Owing(s) => Overdrawn(s)

BInv == /\ Roles /\ Posted /\ Reported
        /\ \A s \in Step : Paid(s) /\ Verified(s)

\* What is counted.
LEMMA SpentType ==
  ASSUME NEW s
  PROVE  /\ Spent(s) \in Nat
         /\ IsFiniteSet(Launched(s)) /\ Cardinality(Launched(s)) \in Nat
         /\ IsFiniteSet(Paying(s)) /\ Cardinality(Paying(s)) \in Nat
<1>1. IsFiniteSet(Worker) /\ IsFiniteSet(Thread)
  BY PlanAssumption, FS_Interval DEF Worker, Thread
<1>2. Launched(s) \in SUBSET Worker /\ Paying(s) \in SUBSET Thread
  BY DEF Launched, Paying
<1>3. IsFiniteSet(Launched(s)) /\ IsFiniteSet(Paying(s))
  BY <1>1, <1>2, FS_Subset
<1> QED BY <1>3, FS_CardinalityType DEF Spent

LEMMA SpentTypeNext ==
  ASSUME NEW s
  PROVE  /\ Spent(s)' \in Nat
         /\ IsFiniteSet(Launched(s)') /\ Cardinality(Launched(s)') \in Nat
         /\ IsFiniteSet(Paying(s)') /\ Cardinality(Paying(s)') \in Nat
<1>1. IsFiniteSet(Worker) /\ IsFiniteSet(Thread)
  BY PlanAssumption, FS_Interval DEF Worker, Thread
<1>2. Launched(s)' \in SUBSET Worker /\ Paying(s)' \in SUBSET Thread
  BY DEF Launched, Paying
<1>3. IsFiniteSet(Launched(s)') /\ IsFiniteSet(Paying(s)')
  BY <1>1, <1>2, FS_Subset
<1>4. Cardinality(Launched(s)') \in Nat /\ Cardinality(Paying(s)') \in Nat
  BY <1>3, FS_CardinalityType
<1>5. Spent(s)' = Cardinality(Launched(s)') + Cardinality(Paying(s)')
  BY DEF Spent
<1> QED BY <1>3, <1>4, <1>5

\* No worker and no paying thread more: nothing more is spent.
LEMMA SpentFalls ==
  ASSUME NEW s, Launched(s)' \subseteq Launched(s), Paying(s)' \subseteq Paying(s)
  PROVE  /\ Spent(s)' <= Spent(s)
         /\ \A t \in Paying(s) \ Paying(s)' : Spent(s)' < Spent(s)
<1>1. Spent(s)' = Cardinality(Launched(s)') + Cardinality(Paying(s)')
  BY DEF Spent
<1>2. /\ Cardinality(Launched(s)') <= Cardinality(Launched(s))
      /\ Cardinality(Paying(s)') <= Cardinality(Paying(s))
      /\ Cardinality(Paying(s)') = Cardinality(Paying(s)) => Paying(s)' = Paying(s)
  BY SpentType, FS_Subset
<1>3. /\ Cardinality(Launched(s)) \in Nat /\ Cardinality(Launched(s)') \in Nat
      /\ Cardinality(Paying(s)) \in Nat /\ Cardinality(Paying(s)') \in Nat
  BY SpentType, SpentTypeNext
<1>4. Spent(s)' <= Spent(s)
  BY <1>1, <1>2, <1>3 DEF Spent
<1>5. ASSUME NEW t \in Paying(s) \ Paying(s)' PROVE Spent(s)' < Spent(s)
  <2>1. Cardinality(Paying(s)') < Cardinality(Paying(s))
    BY <1>2, <1>3, <1>5
  <2> QED BY <1>1, <1>2, <1>3, <2>1 DEF Spent
<1> QED BY <1>4, <1>5

\* One more thread is about to launch a worker.
LEMMA SpentGrows ==
  ASSUME NEW s, NEW t, Launched(s)' = Launched(s), Paying(s)' \subseteq Paying(s) \cup {t}
  PROVE  Spent(s)' <= Spent(s) + 1
<1>1. /\ Cardinality(Launched(s)') = Cardinality(Launched(s))
      /\ Spent(s)' = Cardinality(Launched(s)') + Cardinality(Paying(s)')
  BY DEF Spent
<1>2. /\ Cardinality(Launched(s)) \in Nat /\ Cardinality(Paying(s)) \in Nat
      /\ Cardinality(Paying(s)') \in Nat
  BY SpentType, SpentTypeNext
<1>3. /\ IsFiniteSet(Paying(s) \cup {t})
      /\ Cardinality(Paying(s) \cup {t}) <= Cardinality(Paying(s)) + 1
  BY ONLY <1>2, SpentType, FS_AddElement
<1>4. Cardinality(Paying(s)') <= Cardinality(Paying(s) \cup {t})
      /\ Cardinality(Paying(s) \cup {t}) \in Nat
  BY <1>3, FS_Subset, FS_CardinalityType
<1> QED BY <1>1, <1>2, <1>3, <1>4 DEF Spent

\* A thread that launches the worker spends nothing more.
LEMMA SpentMoves ==
  ASSUME NEW s, NEW t \in Paying(s), NEW w, Launched(s)' \subseteq Launched(s) \cup {w},
         Paying(s)' \subseteq Paying(s) \ {t}
  PROVE  Spent(s)' <= Spent(s)
<1>1. Spent(s)' = Cardinality(Launched(s)') + Cardinality(Paying(s)')
  BY DEF Spent
<1>2. /\ Cardinality(Launched(s)) \in Nat /\ Cardinality(Paying(s)) \in Nat
      /\ Cardinality(Launched(s)') \in Nat /\ Cardinality(Paying(s)') \in Nat
  BY SpentType, SpentTypeNext
<1>3. /\ IsFiniteSet(Launched(s) \cup {w})
      /\ Cardinality(Launched(s) \cup {w}) <= Cardinality(Launched(s)) + 1
  <2>1. IsFiniteSet(Launched(s)) /\ Cardinality(Launched(s)) \in Nat
    BY SpentType
  <2>2. /\ IsFiniteSet(Launched(s) \cup {w})
        /\ Cardinality(Launched(s) \cup {w}) = IF w \in Launched(s)
             THEN Cardinality(Launched(s)) ELSE Cardinality(Launched(s)) + 1
    BY ONLY <2>1, FS_AddElement
  <2> QED BY ONLY <2>1, <2>2
<1>4. /\ Cardinality(Launched(s)') <= Cardinality(Launched(s) \cup {w})
      /\ Cardinality(Launched(s) \cup {w}) \in Nat
  BY <1>3, FS_Subset, FS_CardinalityType
<1>5. /\ IsFiniteSet(Paying(s) \ {t})
      /\ Cardinality(Paying(s) \ {t}) = Cardinality(Paying(s)) - 1
  BY SpentType, FS_RemoveElement
<1>6. Cardinality(Paying(s)') <= Cardinality(Paying(s) \ {t})
  BY <1>5, FS_Subset
<1> QED BY <1>1, <1>2, <1>3, <1>4, <1>5, <1>6 DEF Spent

\* What an attempt more or less pays for.
LEMMA DueIs ==
  ASSUME PlanTypeOK, NEW s \in Step
  PROVE  /\ Due(s) \in Nat /\ Due(s) < Budget
         /\ plan[s].attempts \in Nat /\ Due(s) <= plan[s].attempts
<1>1. plan[s].attempts \in 0 .. Budget
  BY DEF PlanTypeOK, StepRecord
<1> QED BY <1>1, PlanAssumption DEF Due

LEMMA DueMoves ==
  ASSUME PlanTypeOK, PlanTypeOK', NEW s \in Step, plan'[s].attempts >= plan[s].attempts
  PROVE  /\ Due(s)' \in Nat /\ Due(s)' >= Due(s)
         /\ plan'[s].attempts = plan[s].attempts => Due(s)' = Due(s)
         /\ plan'[s].attempts = plan[s].attempts + 1 /\ plan'[s].attempts < Budget =>
              Due(s)' = Due(s) + 1
<1>1. plan[s].attempts \in 0 .. Budget /\ plan'[s].attempts \in 0 .. Budget
  BY DEF PlanTypeOK, StepRecord
<1>2. Due(s)' = IF plan'[s].attempts < Budget THEN plan'[s].attempts ELSE Budget - 1
  BY DEF Due
<1> QED BY <1>1, <1>2, PlanAssumption DEF Due

-----------------------------------------------------------------------------
\* A step of one thread that is not, and does not get, about to hand a step over.

LEMMA PayingStays ==
  ASSUME NEW t \in Thread, pc'[t] \notin {"dispatch", "launch"},
         \A u \in Thread \ {t} : /\ at'[u] = at[u] /\ aim'[u] = aim[u]
                                /\ pc'[u] \in {pc[u], "idle"}
  PROVE  \A s : Paying(s)' \subseteq Paying(s) \ {t}
  BY DEF Paying

LEMMA LaunchedStays ==
  ASSUME \A w \in Worker : task'[w].step = task[w].step
  PROVE  \A s : Launched(s)' = Launched(s)
  BY DEF Launched

LEMMA RolesStay ==
  ASSUME TypeOK, Roles, NEW t \in Thread, NEW l, pc' = [pc EXCEPT ![t] = l],
         \A w \in Worker : job'[w] = job[w], ~Headless => job'[Driver] = job[Driver],
         t \in Worker => l \in Notifying, t = Driver /\ ~Headless => l \in Prompting
  PROVE  Roles'
<1>1. pc'[t] = l /\ \A u \in Thread \ {t} : pc'[u] = pc[u]
  BY DEF TypeOK, ThreadTypeOK
<1> QED BY <1>1, Threads DEF Roles

LEMMA PostedStays ==
  ASSUME TypeOK, Posted, NEW t \in Thread, NEW l, pc' = [pc EXCEPT ![t] = l],
         t = Driver => pc[t] \notin {"review", "approval"}, mailbox' = mailbox
  PROVE  Posted'
<1>1. \A u \in Thread \ {t} : pc'[u] = pc[u]
  BY DEF TypeOK, ThreadTypeOK
<1> QED BY <1>1, Threads DEF Posted

LEMMA ReportedStays ==
  ASSUME TypeOK, Reported, UNCHANGED <<queue, inbox>>,
         \A w \in Worker : task[w].step # None => task'[w].step # None
  PROVE  Reported'
<1> DEFINE E == [kind : {"task", "group"}, task : Worker]
<1>1. queue \in Seq(E) /\ inbox \in Seq(E) /\ \A e \in E : e.task \in Worker
  BY DEF TypeOK, TaskTypeOK
<1> HIDE DEF E
<1>2. /\ \A i \in DOMAIN queue : queue[i].task \in Worker
      /\ \A i \in DOMAIN inbox : inbox[i].task \in Worker
  BY <1>1, ElementOfSeq, LenProperties
<1> QED BY <1>2 DEF Reported

\* What thread t may make of a step when it goes to l without a dispatch: it takes an
\* attempt, or gives no reason to try the step, to verify it, or to look for its worker
\* elsewhere.
Counted(s) == plan'[s].attempts = plan[s].attempts + 1 /\ plan'[s].attempts < Budget

Passes(s, t, l) ==
  /\ plan'[s].attempts >= plan[s].attempts
  /\ plan'[s].status \in {"Pending", "Rejected"} => plan'[s].status = plan[s].status \/ Counted(s)
  /\ plan'[s].status = "Rejected" => plan'[s].attempts < Budget
  /\ ~Headless /\ plan'[s].status = "Reviewing" => ~plan'[s].verify
  /\ Headless /\ plan'[s].verify =>
       /\ plan'[s].status # "Completed"
       /\ \/ /\ Counted(s)
             /\ pc'[A] \notin Advancing \cup {"accepted"}
          \/ /\ plan[s].verify /\ plan'[s].tracked = plan[s].tracked
             /\ plan'[s].completed => plan[s].completed
             /\ plan'[s].status = "Reviewing" /\ Owing(s) =>
                  \/ t = Driver /\ l \in Polling \ {"sync"}
                  \/ /\ plan[s].status = "Reviewing"
                     /\ t = Driver => \/ pc[Driver] \notin Polling
                                      \/ /\ l \in Polling
                                         /\ l = "sync" => Over(plan[s].tracked)

\* Such a step keeps what is said of the steps.
LEMMA TurnSteps ==
  ASSUME IInv, PlanTypeOK', BInv, NEW t \in Thread, NEW l \in Label \ Dispatching,
         pc[t] \notin Dispatching, pc'[t] = l,
         \A u \in Thread \ {t} : /\ at'[u] = at[u] /\ aim'[u] = aim[u]
                                /\ \/ pc'[u] = pc[u]
                                   \/ u = A /\ pc'[u] = "idle",
         btask' = btask,
         \A w \in Worker : /\ task'[w].step = task[w].step
                           /\ task[w].state \notin {"none", "live"}
                                => task'[w].state \notin {"none", "live"},
         t = A /\ Headless => \/ pc[A] \in Advancing \cup {"accepted"}
                              \/ l \notin Advancing \cup {"accepted"}
                              \/ \A s \in Step : ~plan'[s].verify,
         \A s \in Step : Passes(s, t, l)
  PROVE  \A s \in Step : Paid(s)' /\ Verified(s)'
<1>0. TypeOK
  BY DEF IInv
<1>2. /\ pc'[t] = l /\ "idle" \notin Advancing \cup {"accepted"}
      /\ \A u \in Thread \ {t} : /\ at'[u] = at[u] /\ aim'[u] = aim[u]
                             /\ pc'[u] \in {pc[u], "idle"}
                             /\ u # A => pc'[u] = pc[u]
  BY DEF Advancing, Dispatching
<1> SUFFICES ASSUME NEW s \in Step PROVE Paid(s)' /\ Verified(s)'
  OBVIOUS
<1>3. /\ Spent(s)' <= Spent(s) /\ Spent(s) \in Nat /\ Spent(s)' \in Nat
      /\ Due(s) \in Nat /\ Due(s)' \in Nat /\ Due(s)' >= Due(s)
      /\ Counted(s) => Due(s)' = Due(s) + 1
  <2>1. Spent(s)' <= Spent(s)
    <3>1. Launched(s)' = Launched(s)
      BY LaunchedStays
    <3>2. Paying(s)' \subseteq Paying(s)
      BY <1>2, PayingStays DEF Dispatching
    <3> QED BY <3>1, <3>2, SpentFalls
  <2>2. Spent(s) \in Nat /\ Spent(s)' \in Nat
    BY SpentType, SpentTypeNext
  <2>3. plan'[s].attempts >= plan[s].attempts
    BY DEF Passes
  <2>4. Due(s) \in Nat
    BY <1>0, DueIs DEF TypeOK
  <2>5. /\ Due(s)' \in Nat /\ Due(s)' >= Due(s)
        /\ Counted(s) => Due(s)' = Due(s) + 1
    BY <1>0, <2>3, DueMoves DEF TypeOK, Counted
  <2> QED BY <2>1, <2>2, <2>4, <2>5
<1>4. Paid(s) /\ Verified(s) /\ Passes(s, t, l)
  BY DEF BInv
<1>5. Owing(s)' <=> Spent(s)' > Due(s)'
  BY DEF Owing
<1>6. Paid(s)'
  <2>1. Spent(s)' <= Due(s)' + 1
    BY <1>3, <1>4 DEF Paid, Passes
  <2>2. plan'[s].status \in {"Pending", "Rejected"} => ~(Spent(s)' > Due(s)')
    BY <1>3, <1>4 DEF Paid, Owing, Passes
  <2> QED BY <2>1, <2>2, <1>4, <1>5 DEF Paid, Is, Passes
<1>7. Verified(s)'
  <2> SUFFICES ASSUME Headless, plan'[s].verify
               PROVE  /\ pc'[A] \notin Advancing \cup {"accepted"}
                      /\ plan'[s].status # "Completed"
                      /\ Owing(s)' => Overdrawn(s)'
    BY DEF Verified, Is
  <2>1. CASE /\ Counted(s)
             /\ pc'[A] \notin Advancing \cup {"accepted"}
    <3>1. ~(Spent(s)' > Due(s)')
      BY <1>3, <1>4, <2>1 DEF Paid
    <3> QED BY <1>4, <1>5, <2>1, <3>1 DEF Passes
  <2>2. CASE /\ plan[s].verify /\ plan'[s].tracked = plan[s].tracked
             /\ plan'[s].completed => plan[s].completed
             /\ plan'[s].status = "Reviewing" /\ Owing(s) =>
                  \/ t = Driver /\ l \in Polling \ {"sync"}
                  \/ /\ plan[s].status = "Reviewing"
                     /\ t = Driver => \/ pc[Driver] \notin Polling
                                      \/ /\ l \in Polling
                                         /\ l = "sync" => Over(plan[s].tracked)
    <3>1. /\ pc[A] \notin Advancing \cup {"accepted"}
          /\ Owing(s) => Overdrawn(s)
      BY <1>4, <2>2 DEF Verified
    <3>2. pc'[A] \notin Advancing \cup {"accepted"}
      BY <1>2, <3>1, Threads
    <3>3. ASSUME Owing(s)' PROVE Overdrawn(s)'
      <4>1. Owing(s)
        BY <1>3, <1>4, <1>5, <3>3 DEF Owing, Passes
      <4>2. Overdrawn(s)
        BY <3>1, <4>1
      <4>3. /\ pc'[Driver] = "launch" => aim'[Driver] = None
            /\ pc'[Driver] = "recordStep" => btask = aim'[Driver]
            /\ pc'[Driver] \notin Dispatching => btask # None /\ plan[s].tracked = btask
        BY <1>2, <4>2, Threads DEF Overdrawn, Dispatching
      <4>4. Over(plan[s].tracked) => Over(plan[s].tracked)'
        <5>1. plan[s].tracked \in Worker \cup {None}
          BY <1>0 DEF TypeOK, PlanTypeOK, StepRecord
        <5> QED BY <2>2, <5>1 DEF Over
      <4>5. ASSUME plan'[s].status = "Reviewing"
            PROVE  /\ pc'[Driver] \in Polling
                   /\ pc'[Driver] = "sync" => Over(plan[s].tracked)'
        BY <1>2, <2>2, <4>1, <4>2, <4>4, <4>5, Threads DEF Overdrawn, Is
      <4>6. ~plan'[s].completed
        BY <2>2, <4>2 DEF Overdrawn, Completed
      <4>7. /\ Completed(s)' <=> plan'[s].completed
            /\ Is(s, "Reviewing")' <=> plan'[s].status = "Reviewing"
        BY DEF Completed, Is
      <4> QED BY <2>2, <4>3, <4>5, <4>6, <4>7 DEF Overdrawn
    <3>4. plan'[s].status # "Completed"
      BY <1>4 DEF Passes
    <3> QED BY <3>2, <3>3, <3>4
  <2> QED BY <1>4, <2>1, <2>2 DEF Passes
<1> QED BY <1>6, <1>7

\* ... and one of a single thread that keeps its part keeps the invariant.
LEMMA Turn ==
  ASSUME IInv, PlanTypeOK', BInv, NEW t \in Thread, NEW l \in Label \ Dispatching,
         pc[t] \notin Dispatching, t = Driver => pc[t] \notin {"review", "approval"},
         pc' = [pc EXCEPT ![t] = l],
         \A u \in Thread \ {t} : at'[u] = at[u] /\ aim'[u] = aim[u],
         UNCHANGED <<btask, mailbox>>, Reported',
         \A w \in Worker : /\ task'[w].step = task[w].step
                           /\ task[w].state \notin {"none", "live"}
                                => task'[w].state \notin {"none", "live"},
         \A w \in Worker : job'[w] = job[w], ~Headless => job'[Driver] = job[Driver],
         t \in Worker => l \in Notifying, t = Driver /\ ~Headless => l \in Prompting,
         t = A /\ Headless => \/ pc[A] \in Advancing \cup {"accepted"}
                              \/ l \notin Advancing \cup {"accepted"}
                              \/ \A s \in Step : ~plan'[s].verify,
         \A s \in Step : Passes(s, t, l)
  PROVE  BInv'
<1>1. TypeOK /\ Roles /\ Posted
  BY DEF IInv, BInv
<1>2. Roles' /\ Posted'
  BY <1>1, RolesStay, PostedStays
<1>3. /\ pc'[t] = l
      /\ \A u \in Thread \ {t} : pc'[u] = pc[u]
  BY <1>1 DEF TypeOK, ThreadTypeOK
<1>4. \A s \in Step : Paid(s)' /\ Verified(s)'
  BY <1>3, TurnSteps
<1> QED BY <1>2, <1>4 DEF BInv

\* A plan that stays as it is passes, if the driver does not lose sight of a step to be
\* verified that it has under review.
LEMMA QuietPasses ==
  ASSUME IInv, BInv, NEW t \in Thread, NEW l, plan' = plan,
         t = Driver /\ Headless =>
           \A s \in Step : Is(s, "Reviewing") /\ plan[s].verify /\ Owing(s) =>
             \/ pc[Driver] \notin Polling
             \/ l \in Polling /\ (l = "sync" => Over(plan[s].tracked))
  PROVE  \A s \in Step : Passes(s, t, l)
<1>1. ASSUME NEW s \in Step
      PROVE  /\ plan'[s].attempts >= plan[s].attempts
             /\ plan'[s].status = plan[s].status
             /\ plan'[s].status = "Rejected" => plan'[s].attempts < Budget
             /\ ~Headless /\ plan'[s].status = "Reviewing" => ~plan'[s].verify
             /\ Headless /\ plan'[s].verify =>
                  /\ plan'[s].status # "Completed"
                  /\ plan[s].verify /\ plan'[s].tracked = plan[s].tracked
                  /\ plan'[s].completed => plan[s].completed
                  /\ plan'[s].status = "Reviewing" /\ Owing(s) =>
                       /\ plan[s].status = "Reviewing"
                       /\ t = Driver => \/ pc[Driver] \notin Polling
                                        \/ /\ l \in Polling
                                           /\ l = "sync" => Over(plan[s].tracked)
  <2>1. plan[s] \in StepRecord
    BY DEF IInv, TypeOK, PlanTypeOK
  <2>2. plan[s].attempts \in Nat
    BY <2>1, PlanAssumption DEF StepRecord
  <2>3. Paid(s) /\ Verified(s)
    BY DEF BInv
  <2> QED BY <2>2, <2>3 DEF Paid, Verified, Is
<1> QED BY <1>1 DEF Passes

\* The same step when the plan stays as it is.
LEMMA Quiet ==
  ASSUME IInv, BInv, NEW t \in Thread, NEW l \in Label \ Dispatching,
         pc[t] \notin Dispatching, t = Driver => pc[t] \notin {"review", "approval"},
         pc' = [pc EXCEPT ![t] = l],
         \A u \in Thread \ {t} : at'[u] = at[u] /\ aim'[u] = aim[u],
         UNCHANGED <<plan, btask, mailbox>>, Reported', PlanTypeOK',
         \A w \in Worker : /\ task'[w].step = task[w].step
                           /\ task[w].state \notin {"none", "live"}
                                => task'[w].state \notin {"none", "live"},
         \A w \in Worker : job'[w] = job[w], ~Headless => job'[Driver] = job[Driver],
         t \in Worker => l \in Notifying, t = Driver /\ ~Headless => l \in Prompting,
         t = A /\ Headless => \/ pc[A] \in Advancing \cup {"accepted"}
                              \/ l \notin Advancing \cup {"accepted"},
         t = Driver /\ Headless =>
           \A s \in Step : Is(s, "Reviewing") /\ plan[s].verify /\ Owing(s) =>
             \/ pc[Driver] \notin Polling
             \/ l \in Polling /\ (l = "sync" => Over(plan[s].tracked))
  PROVE  BInv'
<1>1. \A s \in Step : Passes(s, t, l)
  BY QuietPasses
<1> QED BY <1>1, Turn

-----------------------------------------------------------------------------
\* Threads that advance the plan, or give up.

LEMMA OverLabels ==
  ASSUME BInv, NEW t \in Thread, NEW ok, pc[t] \in Advancing
  PROVE  /\ AdvanceOver(t, ok) \in Label \ Dispatching
         /\ t \in Worker => pc[t] \in {"blocked", "giveup"} /\ (~ok => AdvanceOver(t, ok) = "done")
         /\ t = Driver /\ ~Headless => AdvanceOver(t, ok) = "prompt"
<1>1. t \in Worker => pc[t] \in Notifying /\ job[t] = "notify" /\ t # A
  BY Threads DEF BInv, Roles
<1>2. EventOver(t) \in {"event", "synced", "done"}
  BY DEF EventOver
<1>3. AdvanceOver(t, ok) \in {"answer", "refuse", "drain", "prompt", "looped", "done",
                             "current", "unsynced"} \cup {EventOver(t)}
  BY DEF AdvanceOver
<1>4. AdvanceOver(t, ok) \in Label \ Dispatching
  BY <1>2, <1>3 DEF Label, Dispatching
<1>5. t \in Worker => pc[t] \in {"blocked", "giveup"}
  BY <1>1 DEF Notifying, Advancing, Dispatching
<1>6. t \in Worker /\ ~ok => AdvanceOver(t, ok) = "done"
  BY <1>1 DEF AdvanceOver, EventOver
<1>7. t = Driver /\ ~Headless => AdvanceOver(t, ok) = "prompt"
  BY Threads DEF BInv, Roles, AdvanceOver
<1> QED BY <1>4, <1>5, <1>6, <1>7

\* A thread that is done with one round of advance_plan, and dispatches nothing.
LEMMA Round ==
  ASSUME IInv, PlanTypeOK', BInv, NEW t \in Thread, NEW l,
         pc[t] \in Advancing \ (Dispatching \cup {"blocked"}),
         \/ l \in Advancing \ (Dispatching \cup {"auto"}) /\ pc[t] # "giveup"
         \/ \E ok \in BOOLEAN : l = AdvanceOver(t, ok) /\ (pc[t] = "giveup" => ~ok),
         pc' = [pc EXCEPT ![t] = l],
         \A u \in Thread \ {t} : at'[u] = at[u] /\ aim'[u] = aim[u],
         UNCHANGED <<plan, btask, mailbox, task, queue, inbox, job>>
  PROVE  BInv'
<1>1. /\ l \in Label \ Dispatching
      /\ t \in Worker => l \in Notifying
      /\ t = Driver /\ ~Headless => l \in Prompting
  <2>1. ASSUME l \in Advancing \ (Dispatching \cup {"auto"}), pc[t] # "giveup"
        PROVE  /\ l \in Label \ Dispatching
               /\ t \in Worker => l \in Notifying
               /\ t = Driver /\ ~Headless => l \in Prompting
    <3>1. t \notin Worker
      BY <2>1, OverLabels
    <3> QED BY <2>1, <3>1 DEF Advancing, Dispatching, Label, Prompting
  <2>2. ASSUME NEW ok \in BOOLEAN, l = AdvanceOver(t, ok), pc[t] = "giveup" => ~ok
        PROVE  /\ l \in Label \ Dispatching
               /\ t \in Worker => l \in Notifying
               /\ t = Driver /\ ~Headless => l \in Prompting
    BY <2>2, OverLabels DEF Notifying, Prompting
  <2> QED BY <2>1, <2>2
<1>2. pc[t] \notin Dispatching \cup {"review", "approval"} /\ pc[t] \notin Polling
  BY DEF Advancing, Dispatching, Polling
<1>3. Reported'
  BY ReportedStays DEF BInv, IInv
<1> QED BY <1>1, <1>2, <1>3, Quiet

LEMMA RoundPays ==
  ASSUME IInv, IInv', BInv, NEW t \in Thread,
         \/ AdvanceDone(t) \/ AdvanceHalt(t) \/ AdvanceBusy(t) \/ AdvanceReplan(t)
         \/ Point(t) \/ Complete(t) \/ Finish(t) \/ Halt(t) \/ Again(t) \/ GiveUp(t)
         \/ AutoAdvance(t)
  PROVE  BInv'
<1>1. /\ PlanTypeOK'
      /\ UNCHANGED <<plan, btask, mailbox, task, queue, inbox, job>>
  BY DEF IInv, TypeOK, AdvanceDone, AdvanceHalt, AdvanceBusy, AdvanceReplan, Point, Complete,
         Finish, Halt, Again, GiveUp, AutoAdvance, planVars, taskVars, Go, GoAt, Leave
<1>2. \A u \in Thread \ {t} : at'[u] = at[u] /\ aim'[u] = aim[u]
  BY DEF IInv, TypeOK, ThreadTypeOK, AdvanceDone, AdvanceHalt, AdvanceBusy, AdvanceReplan,
         Point, Complete, Finish, Halt, Again, GiveUp, AutoAdvance, Go, GoAt, Leave
<1>3. pc[t] \in Advancing \ (Dispatching \cup {"blocked"})
  BY DEF AdvanceDone, AdvanceHalt, AdvanceBusy, AdvanceReplan, Selecting, Point, Complete,
         Finish, Halt, Again, GiveUp, AutoAdvance, Advancing, Dispatching
<1>4. PICK l : /\ pc' = [pc EXCEPT ![t] = l]
               /\ \/ l \in {"complete", "halt", "again", "point", "finish", "advance"}
                     /\ pc[t] # "giveup"
                  \/ l = AdvanceOver(t, TRUE) /\ pc[t] # "giveup"
                  \/ l = AdvanceOver(t, FALSE)
  BY DEF AdvanceDone, AdvanceHalt, AdvanceBusy, AdvanceReplan, Selecting, Point, Complete,
         Finish, Halt, Again, GiveUp, AutoAdvance, Go, GoAt, Leave
<1>5. {"complete", "halt", "again", "point", "finish", "advance"}
        \subseteq Advancing \ (Dispatching \cup {"auto"})
  BY DEF Advancing, Dispatching
<1>6. \/ l \in Advancing \ (Dispatching \cup {"auto"}) /\ pc[t] # "giveup"
      \/ \E ok \in BOOLEAN : l = AdvanceOver(t, ok) /\ (pc[t] = "giveup" => ~ok)
  BY <1>4, <1>5
<1> QED BY <1>1, <1>2, <1>3, <1>4, <1>6, Round

\* A step is marked as failed, or as waiting for approval.
LEMMA MarkPays ==
  ASSUME IInv, IInv', BInv, NEW t \in Thread, Barrier(t) \/ Blocked(t) PROVE BInv'
<1>1. plan \in [Step -> StepRecord] /\ plan' \in [Step -> StepRecord]
  BY DEF IInv, TypeOK, PlanTypeOK
<1>2. \A s \in Step : /\ plan'[s].status \in {plan[s].status, "Failed", "WaitingForApproval"}
                      /\ plan'[s].attempts = plan[s].attempts
                      /\ plan'[s].verify = plan[s].verify
                      /\ plan'[s].tracked = plan[s].tracked
                      /\ plan'[s].completed => plan[s].completed
  BY <1>1 DEF Barrier, Blocked, StepRecord
<1>3. PICK l \in {"point", "giveup"} :
        /\ pc' = [pc EXCEPT ![t] = l]
        /\ l = "point" => pc[t] = "barrier"
        /\ \A u \in Thread \ {t} : at'[u] = at[u] /\ aim'[u] = aim[u]
  BY DEF Barrier, Blocked, Go, Leave, IInv, TypeOK, ThreadTypeOK
<1>4. /\ UNCHANGED <<btask, mailbox, task, queue, inbox, job>>
      /\ pc[t] \in {"barrier", "blocked"}
  BY DEF Barrier, Blocked, Go, Leave, taskVars
<1>5. /\ l \in Label \ Dispatching /\ l \in Prompting
      /\ t \in Worker => l \in Notifying
      /\ pc[t] \in Advancing
      /\ pc[t] \notin Dispatching \cup {"review", "approval"} \cup Polling
  BY <1>3, <1>4 DEF Label, Dispatching, Prompting, Notifying, Advancing, Polling, BInv, Roles
<1>6. \A s \in Step : Passes(s, t, l)
  <2> TAKE s \in Step
  <2>1. plan[s] \in StepRecord /\ Paid(s) /\ Verified(s)
    BY <1>1 DEF BInv
  <2>2. plan[s].attempts \in Nat
    BY <2>1, PlanAssumption DEF StepRecord
  <2> QED BY <1>2, <1>5, <2>1, <2>2 DEF Passes, Paid, Verified, Is
<1>7. Reported' /\ PlanTypeOK'
  BY <1>4, ReportedStays DEF BInv, IInv, TypeOK
<1> QED BY <1>3, <1>4, <1>5, <1>6, <1>7, Turn

LEMMA AcceptedPays ==
  ASSUME IInv, IInv', BInv, Accepted PROVE BInv'
<1>1. A \in Thread /\ A \notin Worker /\ A # Driver
  BY Threads
<1>2. PICK l \in {"answer", "auto"} : Go(A, l)
  BY DEF Accepted
<1>3. /\ UNCHANGED <<plan, btask, mailbox, task, queue, inbox>> /\ pc[A] = "accepted"
  BY DEF Accepted, taskVars
<1>4. Reported' /\ PlanTypeOK'
  BY <1>3, ReportedStays DEF BInv, IInv, TypeOK
<1>5. l \in Label \ Dispatching
      /\ pc[A] \notin Dispatching \cup {"review", "approval"}
      /\ pc[A] \in Advancing \cup {"accepted"}
  BY <1>3 DEF Label, Dispatching
<1>6. /\ pc' = [pc EXCEPT ![A] = l] /\ UNCHANGED <<job, at, aim>>
  BY <1>2 DEF Go
<1> QED BY <1>1, <1>3, <1>4, <1>5, <1>6, Quiet

LEMMA SetCurrentPays ==
  ASSUME IInv, IInv', BInv, NEW t \in Thread, SetCurrent(t) PROVE BInv'
<1>1. /\ UNCHANGED <<plan, btask, mailbox, task, queue, inbox, job, at, aim>>
      /\ pc[t] = "current" /\ pc' = [pc EXCEPT ![t] = EventOver(t)]
  BY DEF SetCurrent, taskVars
<1>2. Reported' /\ PlanTypeOK'
  BY <1>1, ReportedStays DEF BInv, IInv, TypeOK
<1>3. EventOver(t) \in {"event", "synced", "done"}
  BY DEF EventOver
<1>4. /\ t \in Worker => EventOver(t) = "done"
      /\ ~(t = Driver /\ ~Headless)
  BY <1>1 DEF BInv, Roles, EventOver, Prompting, Advancing, Dispatching
<1>5. /\ EventOver(t) \in Label \ Dispatching
      /\ EventOver(t) \notin Advancing \cup {"accepted"}
      /\ t \in Worker => EventOver(t) \in Notifying
      /\ pc[t] \notin Dispatching \cup {"review", "approval"} \cup Polling
  BY <1>1, <1>3, <1>4 DEF Label, Dispatching, Advancing, Notifying, Polling
<1> QED BY <1>1, <1>2, <1>4, <1>5, Quiet

-----------------------------------------------------------------------------
\* A worker of B.

\* An event is added to the queue.
LEMMA ReportedGrows ==
  ASSUME TypeOK, Reported, NEW w \in Worker, NEW k \in {"task", "group"},
         queue' = Append(queue, [kind |-> k, task |-> w]), inbox' = inbox,
         \A v \in Worker : task'[v].step = task[v].step,
         task[w].step # None
  PROVE  Reported'
<1> DEFINE E == [kind : {"task", "group"}, task : Worker]
           e == [kind |-> k, task |-> w]
<1>1. /\ queue \in Seq(E) /\ inbox \in Seq(E) /\ e \in E
      /\ \A d \in E : d.task \in Worker
      /\ queue' = Append(queue, e) /\ e.task = w
  BY DEF TypeOK, TaskTypeOK
<1> HIDE DEF E, e
<1>2. /\ \A i \in DOMAIN queue : queue[i].task \in Worker
      /\ \A i \in DOMAIN inbox : inbox[i].task \in Worker
  BY <1>1, ElementOfSeq, LenProperties
<1>3. \A i \in DOMAIN queue' : queue'[i] = e \/ (i \in DOMAIN queue /\ queue'[i] = queue[i])
  <2>1. /\ DOMAIN queue = 1 .. Len(queue) /\ Len(queue) \in Nat
        /\ DOMAIN queue' = 1 .. Len(queue) + 1
        /\ queue'[Len(queue) + 1] = e
        /\ \A i \in DOMAIN queue : queue'[i] = queue[i]
    BY <1>1, AppendProperties, LenProperties
  <2>2. ASSUME NEW i \in DOMAIN queue', i # Len(queue) + 1 PROVE i \in DOMAIN queue
    BY ONLY <2>1, <2>2
  <2> TAKE i \in DOMAIN queue'
  <2>3. CASE i = Len(queue) + 1
    BY ONLY <2>1, <2>3
  <2>4. CASE i # Len(queue) + 1
    BY ONLY <2>1, <2>2, <2>4
  <2> QED BY <2>3, <2>4
<1> QED BY <1>1, <1>2, <1>3 DEF Reported

LEMMA WorkerEndsPays ==
  ASSUME IInv, IInv', BInv, NEW w \in Worker, NEW o \in {"Completed", "Failed"},
         WorkerEnds(w, o)
  PROVE  BInv'
<1>1. /\ task[w].state = "live" /\ task' = [task EXCEPT ![w].state = o]
      /\ queue' = Append(queue, [kind |-> "task", task |-> w])
      /\ pc' = [pc EXCEPT ![w] = "notify"]
      /\ UNCHANGED <<plan, btask, inbox, mailbox, job, at, aim>>
  BY DEF WorkerEnds, Live, Go, planVars
<1>2. \A v \in Worker : /\ task'[v].step = task[v].step
                        /\ task[v].state \notin {"none", "live"}
                             => task'[v].state \notin {"none", "live"}
  BY <1>1 DEF IInv, TypeOK, TaskTypeOK
<1>3. task[w].step # None
  BY <1>1 DEF IInv, Recorded
<1>4. Reported' /\ PlanTypeOK'
  BY <1>1, <1>2, <1>3, ReportedGrows DEF BInv, IInv, TypeOK
<1>5. w \in Thread /\ w # A /\ w # Driver
  BY Threads
<1>6. "notify" \in Label \ Dispatching /\ "notify" \in Notifying /\ pc[w] \notin Dispatching
  BY DEF Label, Dispatching, Notifying, BInv, Roles
<1> QED BY <1>1, <1>2, <1>4, <1>5, <1>6, Quiet

LEMMA WorkerFansInPays ==
  ASSUME IInv, IInv', BInv, NEW w \in Worker, WorkerFansIn(w) PROVE BInv'
<1>1. /\ task[w].state # "none" /\ task' = [task EXCEPT ![w].fanin = TRUE]
      /\ queue' = Append(queue, [kind |-> "group", task |-> w])
      /\ UNCHANGED <<plan, btask, inbox, mailbox, pc, job, at, aim>>
  BY DEF WorkerFansIn, planVars, threadVars
<1>2. \A v \in Worker : /\ task'[v].step = task[v].step
                        /\ task'[v].state = task[v].state
  BY <1>1 DEF IInv, TypeOK, TaskTypeOK
<1>3. task[w].step # None
  BY <1>1 DEF IInv, Recorded
<1>4. Reported'
  BY <1>1, <1>2, <1>3, ReportedGrows DEF BInv, IInv
<1>5. Roles' /\ Posted'
  BY <1>1 DEF BInv, Roles, Posted
<1>6. ASSUME NEW s \in Step PROVE Paid(s)' /\ Verified(s)'
  <2>1. Launched(s)' = Launched(s) /\ Paying(s)' = Paying(s)
    BY <1>1, <1>2 DEF Launched, Paying
  <2>2. Spent(s)' = Spent(s)
    BY <2>1 DEF Spent
  <2>3. Due(s)' = Due(s) /\ (Owing(s)' <=> Owing(s))
    BY <1>1, <2>2 DEF Owing, Due
  <2>4. Paid(s)'
    BY <1>1, <2>2, <2>3 DEF BInv, Paid, Is
  <2>5. Over(plan[s].tracked)' <=> Over(plan[s].tracked)
    <3>1. plan[s].tracked \in Worker \cup {None}
      BY DEF IInv, TypeOK, PlanTypeOK, StepRecord
    <3> QED BY <1>1, <1>2, <3>1 DEF Over
  <2>6. Overdrawn(s)' <=> Overdrawn(s)
    BY <1>1, <2>5 DEF Overdrawn, Completed, Is
  <2>7. Verified(s)'
    BY <1>1, <2>3, <2>6 DEF BInv, Verified, Is
  <2> QED BY <2>4, <2>7
<1> QED BY <1>4, <1>5, <1>6 DEF BInv

-----------------------------------------------------------------------------
\* The end of a worker, as an event or as a notification.

\* Whoever handles it forgets where it was.
LEMMA HandledPays ==
  ASSUME IInv, IInv', BInv, NEW t \in {Driver} \cup Worker,
         NEW l \in {"current", "auto", "ask"},
         pc[t] \in {"notify", "event", "synth"}, l = "auto" => t = Driver,
         pc' = [pc EXCEPT ![t] = l], job' = job,
         \A u \in Thread \ {t} : at'[u] = at[u] /\ aim'[u] = aim[u],
         UNCHANGED <<btask, mailbox, task>>, Reported',
         \A s \in Step : Passes(s, t, l)
  PROVE  BInv'
<1>1. t \in Thread /\ t # A
  BY Threads
<1>2. /\ pc[t] \notin Dispatching \cup {"review", "approval"}
      /\ l \in Label \ Dispatching
      /\ t \in Worker => l \in Notifying
      /\ ~(t = Driver /\ ~Headless)
  <2>1. t = Driver /\ ~Headless => pc[t] \in Prompting
    BY DEF BInv, Roles
  <2> QED BY <2>1, Threads DEF Label, Dispatching, Notifying, Prompting, Advancing
<1>3. PlanTypeOK'
  BY DEF IInv, TypeOK
<1> QED BY <1>1, <1>2, <1>3, Turn

\* A step that takes no attempt, is not to be tried, and is not verified.
LEMMA PassesBy ==
  ASSUME IInv, BInv, NEW t, NEW l, NEW s \in Step,
         \/ plan'[s] = plan[s] /\ ~(Headless /\ plan[s].verify)
         \/ /\ plan'[s].status \notin {"Pending", "Rejected"}
            /\ plan'[s].attempts >= plan[s].attempts /\ ~plan'[s].verify
         \/ /\ plan'[s].status = "Rejected" /\ plan'[s].attempts < Budget
            /\ plan'[s].attempts = plan[s].attempts + 1 /\ ~plan'[s].verify
  PROVE  Passes(s, t, l)
<1>1. plan[s].attempts \in Nat /\ Paid(s)
  BY PlanAssumption DEF IInv, TypeOK, PlanTypeOK, StepRecord, BInv
<1> QED BY <1>1 DEF Passes, Counted, Paid, Is

\* The steps of a headless run are one.
LEMMA OneStep == Headless => Step = {1}
  BY PlanAssumption DEF Step

\* An attempt more, within the budget.
LEMMA AttemptedIs ==
  ASSUME IInv, NEW s \in Step
  PROVE  /\ Attempted(s) >= plan[s].attempts /\ Attempted(s) \in 0 .. Budget
         /\ Attempted(s) < Budget => Attempted(s) = plan[s].attempts + 1
         /\ \/ Attempted(s) = plan[s].attempts
            \/ plan[s].attempts < Budget /\ Attempted(s) = plan[s].attempts + 1
<1>1. plan[s].attempts \in 0 .. Budget
  BY DEF IInv, TypeOK, PlanTypeOK, StepRecord
<1> QED BY <1>1, PlanAssumption DEF Attempted

LEMMA FailurePays ==
  ASSUME IInv, IInv', BInv, NEW t \in {Driver} \cup Worker, NEW s \in Step, NEW w \in Worker,
         pc[t] \in {"notify", "event", "synth"},
         \/ HandleFailedNotification(t, s, w)
         \/ HandleFailedEvent(t, s, w) /\ t = Driver,
         UNCHANGED <<btask, mailbox, task>>, Reported'
  PROVE  BInv'
<1>1. plan \in [Step -> StepRecord] /\ t \in Thread
  BY Threads DEF IInv, TypeOK, PlanTypeOK
<1>2. /\ Attempted(s) >= plan[s].attempts /\ Attempted(s) \in 0 .. Budget
      /\ Attempted(s) < Budget => Attempted(s) = plan[s].attempts + 1
      /\ plan[s].attempts \in Nat
  BY <1>1, AttemptedIs, PlanAssumption DEF StepRecord
<1>3. PICK l \in {"current", "auto"}, st \in {"Rejected", "Failed"}, n \in 0 .. Budget :
        /\ HandleOver(t, l, [Unfinished(s, w, st) EXCEPT ![s].attempts = n])
        /\ l = "auto" => t = Driver
        /\ n >= plan[s].attempts
        /\ st = "Rejected" => n < Budget /\ n = plan[s].attempts + 1
  <2>1. CASE HandleFailedNotification(t, s, w)
    <3> DEFINE p == Unfinished(s, w, "Failed")
    <3>1. p \in [Step -> StepRecord] /\ p[s].attempts = plan[s].attempts
      <4>1. p \in [Step -> StepRecord]
        BY <1>1, UnfinishedIs
      <4>2. p[s].attempts = plan[s].attempts
        BY <1>1 DEF Unfinished, StepRecord
      <4> QED BY <4>1, <4>2
    <3>2. HandleOver(t, "current", p)
      BY <2>1 DEF HandleFailedNotification
    <3> HIDE DEF p
    <3>3. [p EXCEPT ![s].attempts = plan[s].attempts] = p
      BY <3>1 DEF StepRecord
    <3>4. HandleOver(t, "current", [p EXCEPT ![s].attempts = plan[s].attempts])
      BY <3>2, <3>3
    <3>5. plan[s].attempts \in 0 .. Budget
      BY <1>1 DEF StepRecord
    <3>6. HandleOver(t, "current", [Unfinished(s, w, "Failed") EXCEPT ![s].attempts = plan[s].attempts])
      BY <3>4 DEF p
    <3>7. plan[s].attempts >= plan[s].attempts
      BY <1>2
    <3> QED BY <3>5, <3>6, <3>7, ZenonT(30)
  <2>2. CASE HandleFailedEvent(t, s, w) /\ t = Driver
    <3>1. CASE Attempted(s) < Budget
      <4>1. HandleOver(t, "auto", [Unfinished(s, w, "Rejected") EXCEPT ![s].attempts = Attempted(s)])
        BY <2>2, <3>1 DEF HandleFailedEvent
      <4> QED BY <1>2, <2>2, <3>1, <4>1
    <3>2. CASE ~(Attempted(s) < Budget)
      <4>1. HandleOver(t, "current", [Unfinished(s, w, "Failed") EXCEPT ![s].attempts = Attempted(s)])
        BY <2>2, <3>2 DEF HandleFailedEvent
      <4> QED BY <1>2, <4>1
    <3> QED BY <3>1, <3>2
  <2> QED BY <2>1, <2>2
<1> DEFINE p == Unfinished(s, w, st)
<1>4. /\ p \in [Step -> StepRecord] /\ p[s].status = st
      /\ \A r \in Step \ {s} : p[r] = plan[r]
  BY <1>1, UnfinishedIs
<1>5. ~p[s].verify
  BY <1>1 DEF Unfinished, StepRecord
<1>6. /\ plan' = [p EXCEPT ![s].attempts = n] /\ pc' = [pc EXCEPT ![t] = l] /\ job' = job
      /\ at' = [at EXCEPT ![t] = None] /\ aim' = [aim EXCEPT ![t] = None]
  BY <1>3 DEF HandleOver
<1> HIDE DEF p
<1>7. /\ plan'[s].status = st /\ plan'[s].attempts = n /\ ~plan'[s].verify
      /\ \A r \in Step \ {s} : plan'[r] = plan[r]
  BY <1>4, <1>5, <1>6 DEF StepRecord
<1>8. \A u \in Thread \ {t} : at'[u] = at[u] /\ aim'[u] = aim[u]
  BY <1>1, <1>6 DEF IInv, TypeOK, ThreadTypeOK
<1>9. \A r \in Step : Passes(r, t, l)
  <2> TAKE r \in Step
  <2>1. CASE r = s
    BY <1>3, <1>7, <2>1, PassesBy
  <2>2. CASE r # s
    BY <1>7, <2>2, OneStep, PassesBy
  <2> QED BY <2>1, <2>2
<1> QED BY <1>3, <1>6, <1>8, <1>9, HandledPays

LEMMA CompletionPays ==
  ASSUME IInv, IInv', BInv, NEW t \in {Driver} \cup Worker, NEW s \in Step, NEW w \in Worker,
         pc[t] \in {"notify", "event", "synth"}, HandleCompleted(t, s, w),
         UNCHANGED <<btask, mailbox, task>>, Reported'
  PROVE  BInv'
<1>1. plan \in [Step -> StepRecord] /\ t \in Thread
  BY Threads DEF IInv, TypeOK, PlanTypeOK
<1>2. plan[s].attempts \in Nat /\ Paid(s) /\ Verified(s)
  BY <1>1, PlanAssumption DEF StepRecord, BInv
<1>3. PICK l \in {"current", "ask"} :
        /\ pc' = [pc EXCEPT ![t] = l] /\ job' = job
        /\ \A u \in Thread \ {t} : at'[u] = at[u] /\ aim'[u] = aim[u]
  BY <1>1 DEF HandleCompleted, HandleOver, IInv, TypeOK, ThreadTypeOK
<1>4. /\ plan'[s].attempts = plan[s].attempts
      /\ \/ plan'[s].status = "Reviewing" /\ ~plan'[s].verify
         \/ /\ plan[s].status = "Completed" /\ plan'[s].status = "Completed"
            /\ plan'[s].verify = plan[s].verify
      /\ \A r \in Step \ {s} : plan'[r] = plan[r]
  <2>1. CASE Is(s, "Completed")
    <3>1. plan' = [plan EXCEPT ![s].tracked = w]
      BY <2>1 DEF HandleCompleted, HandleOver
    <3> QED BY <1>1, <2>1, <3>1 DEF Is, StepRecord
  <2>2. CASE ~Is(s, "Completed")
    <3> DEFINE p == Unfinished(s, w, "Reviewing")
    <3>1. plan' = p
      BY <2>2 DEF HandleCompleted, Unfinished
    <3>2. p[s].status = "Reviewing" /\ \A r \in Step \ {s} : p[r] = plan[r]
      BY <1>1, UnfinishedIs
    <3>3. p[s].attempts = plan[s].attempts /\ ~p[s].verify
      BY <1>1 DEF Unfinished, StepRecord
    <3> QED BY <3>1, <3>2, <3>3
  <2> QED BY <2>1, <2>2
<1>5. \A r \in Step : Passes(r, t, l)
  <2> TAKE r \in Step
  <2>1. CASE r = s
    <3>1. CASE plan'[s].status = "Reviewing" /\ ~plan'[s].verify
      BY <1>2, <1>4, <2>1, <3>1, PassesBy
    <3>2. CASE /\ plan[s].status = "Completed" /\ plan'[s].status = "Completed"
               /\ plan'[s].verify = plan[s].verify
      BY <1>2, <1>4, <2>1, <3>2 DEF Passes, Verified, Is
    <3> QED BY <1>4, <3>1, <3>2
  <2>2. CASE r # s
    BY <1>4, <2>2, OneStep, PassesBy
  <2> QED BY <2>1, <2>2
<1> QED BY <1>3, <1>5, HandledPays

LEMMA NotifiedPays ==
  ASSUME IInv, IInv', BInv, NEW w \in Worker, Notified(w) PROVE BInv'
<1>1. /\ pc[w] = "notify" /\ UNCHANGED <<btask, mailbox, task, queue, inbox>>
      /\ \/ task[w].state = "Completed" /\ HandleCompleted(w, task[w].step, w)
         \/ HandleFailedNotification(w, task[w].step, w)
  BY DEF Notified, taskVars
<1>2. Reported'
  BY <1>1, ReportedStays DEF IInv, BInv
<1>3. CASE task[w].step \in Step
  BY <1>1, <1>2, <1>3, CompletionPays, FailurePays
<1>4. CASE task[w].step \notin Step
  <2>1. task[w].state # "Completed" /\ HandleFailedNotification(w, task[w].step, w)
    BY <1>1, <1>4, RecordType
  <2>2. w \in Thread /\ plan \in [Step -> StepRecord]
    BY Threads DEF IInv, TypeOK, PlanTypeOK
  <2>3. /\ plan' = Unfinished(task[w].step, w, "Failed")
        /\ pc' = [pc EXCEPT ![w] = "current"] /\ job' = job
        /\ at' = [at EXCEPT ![w] = None] /\ aim' = [aim EXCEPT ![w] = None]
    BY <2>1 DEF HandleFailedNotification, HandleOver
  <2>4. \A r \in Step : plan'[r] = plan[r]
    BY <1>4, <2>2, <2>3, UnfinishedIs
  <2>5. \A u \in Thread \ {w} : at'[u] = at[u] /\ aim'[u] = aim[u]
    BY <2>2, <2>3 DEF IInv, TypeOK, ThreadTypeOK
  <2>6. plan' = plan
    BY <2>2, <2>4 DEF IInv, TypeOK, PlanTypeOK
  <2>7. "current" \in Label \ Dispatching /\ "current" \in Notifying /\ w # Driver /\ w # A
    BY Threads DEF Label, Dispatching, Notifying
  <2> QED BY <1>1, <1>2, <2>2, <2>3, <2>5, <2>6, <2>7, Quiet DEF Dispatching, IInv, TypeOK
<1> QED BY <1>3, <1>4

LEMMA EventPays ==
  ASSUME IInv, IInv', BInv, NEW s \in Step, NEW w \in Worker, pc[Driver] \in {"event", "synth"},
         HandleEvent(s, w), UNCHANGED <<btask, mailbox, task>>, Reported'
  PROVE  BInv'
  BY CompletionPays, FailurePays DEF HandleEvent

LEMMA SyncEventPays ==
  ASSUME IInv, IInv', BInv, SyncEvent PROVE BInv'
<1>1. /\ pc[Driver] = "synth" /\ HandleEvent(at[Driver], aim[Driver])
      /\ UNCHANGED <<btask, mailbox, task, queue, inbox>>
  BY DEF SyncEvent, taskVars
<1>2. Reported'
  BY <1>1, ReportedStays DEF IInv, BInv
<1>3. at[Driver] \in Step /\ aim[Driver] \in Worker
  BY <1>1, Threads DEF IInv, AtStep, TypeOK, PlanTypeOK
<1> QED BY <1>1, <1>2, <1>3, EventPays

\* The event at the head of the inbox, and those that are left.
LEMMA InboxType ==
  ASSUME IInv, BInv, inbox # << >>
  PROVE  /\ Head(inbox).task \in Worker /\ task[Head(inbox).task].step \in Step
         /\ \A i \in DOMAIN Tail(inbox) : task[Tail(inbox)[i].task].step # None
<1> DEFINE E == [kind : {"task", "group"}, task : Worker]
<1>1. inbox \in Seq(E) /\ \A e \in E : e.task \in Worker
  BY DEF IInv, TypeOK, TaskTypeOK
<1> HIDE DEF E
<1>2. /\ Head(inbox) = inbox[1] /\ Head(inbox) \in E
      /\ DOMAIN inbox = 1 .. Len(inbox) /\ Len(inbox) \in Nat \ {0}
      /\ DOMAIN Tail(inbox) = 1 .. Len(inbox) - 1
      /\ \A i \in 1 .. Len(inbox) - 1 : Tail(inbox)[i] = inbox[i + 1]
  BY <1>1, HeadTailProperties, LenProperties, EmptySeq
<1>3. 1 \in DOMAIN inbox /\ \A i \in DOMAIN Tail(inbox) : i + 1 \in DOMAIN inbox
  BY <1>2
<1>4. \A i \in DOMAIN inbox : task[inbox[i].task].step # None
  BY DEF BInv, Reported
<1>5. Head(inbox).task \in Worker /\ task[Head(inbox).task].step # None
  BY <1>1, <1>2, <1>3, <1>4
<1>6. \A i \in DOMAIN Tail(inbox) : task[Tail(inbox)[i].task].step # None
  BY <1>2, <1>3, <1>4
<1> QED BY <1>5, <1>6, RecordType

LEMMA TakeEventPays ==
  ASSUME IInv, IInv', BInv, TakeEvent PROVE BInv'
<1> DEFINE w == Head(inbox).task
           s == First({r \in Step : plan[r].tracked = w})
<1>1. /\ pc[Driver] = "event" /\ inbox # << >> /\ inbox' = Tail(inbox)
      /\ UNCHANGED <<btask, mailbox, task, queue>>
      /\ \/ HandleEvent(task[w].step, w)
         \/ /\ plan' = IF s = None THEN plan ELSE [plan EXCEPT ![s].status = "Reviewing"]
            /\ UNCHANGED <<pc, job, at, aim>>
  BY DEF TakeEvent, taskVars, threadVars
<1>2. w \in Worker /\ task[w].step \in Step
  BY <1>1, InboxType
<1>3. Reported'
  BY <1>1, InboxType DEF BInv, Reported
<1>4. Headless
  BY <1>1 DEF BInv, Roles, Prompting, Advancing, Dispatching
<1> HIDE DEF w
<1>5. CASE HandleEvent(task[w].step, w)
  BY <1>1, <1>2, <1>3, <1>5, EventPays
<1>6. CASE /\ plan' = IF s = None THEN plan ELSE [plan EXCEPT ![s].status = "Reviewing"]
           /\ UNCHANGED <<pc, job, at, aim>>
  <2> HIDE DEF s
  <2>1. plan \in [Step -> StepRecord] /\ Driver \in Thread /\ Driver # A /\ Driver \notin Worker
    BY Threads DEF IInv, TypeOK, PlanTypeOK
  <2>2. \A r \in Step : /\ plan'[r].status \in {plan[r].status, "Reviewing"}
                        /\ plan'[r].attempts = plan[r].attempts
                        /\ plan'[r].verify = plan[r].verify
                        /\ plan'[r].tracked = plan[r].tracked
                        /\ plan'[r].completed = plan[r].completed
    BY <1>6, <2>1 DEF StepRecord
  <2>3. "event" \in Label \ Dispatching /\ "event" \in Polling \ {"sync"}
    BY DEF Label, Dispatching, Polling
  <2>4. \A r \in Step : Passes(r, Driver, "event")
    <3> TAKE r \in Step
    <3>1. plan[r].attempts \in Nat /\ Paid(r) /\ Verified(r)
      BY <2>1, PlanAssumption DEF StepRecord, BInv
    <3> QED BY <1>4, <2>2, <2>3, <3>1 DEF Passes, Paid, Verified, Is
  <2>5. pc' = [pc EXCEPT ![Driver] = "event"]
    BY <1>1, <1>6 DEF IInv, TypeOK, ThreadTypeOK
  <2>6. PlanTypeOK' /\ pc[Driver] \notin Dispatching
    BY <1>1 DEF IInv, TypeOK, Dispatching
  <2> QED BY <1>1, <1>3, <1>4, <1>6, <2>1, <2>3, <2>4, <2>5, <2>6, Turn
<1> QED BY <1>1, <1>5, <1>6

-----------------------------------------------------------------------------
\* What A answers.

\* The loop guard takes no attempt.
LEMMA GuardedCosts ==
  ASSUME NEW r \in StepRecord, NEW evidence \in BOOLEAN, NEW same \in BOOLEAN
  PROVE  /\ Guarded(r, evidence, same).attempts = r.attempts
         /\ Guarded(r, evidence, same).status \in {"Failed", "Rejected"}
<1> DEFINE n == IF same /\ ~evidence /\ r.count > 0 THEN r.count + 1 ELSE 1
           g == IF n >= LoopLimit THEN TRUE ELSE ~evidence /\ r.guarded
           c == IF n > LoopLimit THEN LoopLimit ELSE n
           st == IF n >= LoopLimit THEN "Failed" ELSE "Rejected"
<1>1. Guarded(r, evidence, same) = [r EXCEPT !.count = c, !.guarded = g, !.status = st]
  BY DEF Guarded
<1>2. st \in {"Failed", "Rejected"}
  OBVIOUS
<1> HIDE DEF c, g, st
<1> QED BY <1>1, <1>2 DEF StepRecord

\* What becomes of the step that is judged.
LEMMA JudgedIs ==
  ASSUME IInv, JudgeAccept \/ JudgeReplan \/ JudgeCorrect
  PROVE  /\ Judged \in Step /\ Done(Judged)
         /\ \A r \in Step \ {Judged} : plan'[r] = plan[r]
         /\ \/ /\ plan'[Judged].status \in {"Completed", "ReplanRequired"}
               /\ ~plan'[Judged].verify
               /\ plan'[Judged].attempts = plan[Judged].attempts
            \/ /\ plan'[Judged].status = "Failed"
               /\ plan'[Judged].attempts = Attempted(Judged)
               /\ plan'[Judged].verify = plan[Judged].verify
               /\ plan'[Judged].tracked = plan[Judged].tracked
               /\ plan'[Judged].completed = plan[Judged].completed /\ pc'[A] = "answer"
            \/ /\ plan'[Judged].status \in {"Failed", "Rejected"}
               /\ plan'[Judged].attempts = Attempted(Judged)
               /\ Attempted(Judged) < Budget /\ pc'[A] = "answer"
<1>1. /\ mailbox # << >> /\ Judged # None /\ A \in Thread
      /\ plan \in [Step -> StepRecord]
  BY Threads DEF JudgeAccept, JudgeReplan, JudgeCorrect, Judging, Judged, IInv, TypeOK, PlanTypeOK
<1>2. Judged \in Step /\ Done(Judged)
  BY <1>1, HeadTail DEF Judged
<1>3. Attempted(Judged) \in 0 .. Budget /\ plan[Judged] \in StepRecord
  BY <1>1, <1>2, AttemptedIs
<1> DEFINE s == Judged
<1>4. /\ \A r \in Step \ {s} : plan'[r] = plan[r]
      /\ \/ /\ plan'[s].status \in {"Completed", "ReplanRequired"} /\ ~plan'[s].verify
            /\ plan'[s].attempts = plan[s].attempts
         \/ /\ plan'[s].status = "Failed" /\ plan'[s].attempts = Attempted(s)
            /\ plan'[s].verify = plan[s].verify /\ plan'[s].tracked = plan[s].tracked
            /\ plan'[s].completed = plan[s].completed /\ pc'[A] = "answer"
         \/ /\ plan'[s].status \in {"Failed", "Rejected"} /\ plan'[s].attempts = Attempted(s)
            /\ Attempted(s) < Budget /\ pc'[A] = "answer"
  <2>1. CASE JudgeAccept
    <3>1. plan' = [plan EXCEPT ![s].status = "Completed", ![s].completed = TRUE,
                               ![s].verify = FALSE]
      BY <2>1 DEF JudgeAccept
    <3> HIDE DEF s
    <3> QED BY <1>1, <1>2, <1>3, <3>1 DEF StepRecord, s
  <2>2. CASE JudgeReplan
    <3>1. plan' = [plan EXCEPT ![s].status = "ReplanRequired", ![s].verify = FALSE]
      BY <2>2 DEF JudgeReplan
    <3> QED BY <1>1, <1>2, <1>3, <3>1 DEF StepRecord
  <2>3. CASE JudgeCorrect
    <3> DEFINE r == [plan[s] EXCEPT !.attempts = Attempted(s)]
    <3>0. pc'[A] = "answer"
      BY <1>1, <2>3 DEF JudgeCorrect, Go, IInv, TypeOK, ThreadTypeOK
    <3>1. /\ r \in StepRecord /\ r.attempts = Attempted(s) /\ r.verify = plan[s].verify
          /\ r.tracked = plan[s].tracked /\ r.completed = plan[s].completed
      BY <1>3 DEF StepRecord
    <3>2. \/ plan' = [plan EXCEPT ![s] = [r EXCEPT !.status = "Failed"]]
          \/ /\ r.attempts < Budget
             /\ \E verify, evidence, same \in BOOLEAN :
                  plan' = [plan EXCEPT ![s] = Guarded([r EXCEPT !.verify = verify], evidence, same)]
      <4>1. IF r.attempts >= Budget
            THEN plan' = [plan EXCEPT ![s] = [r EXCEPT !.status = "Failed"]]
            ELSE \E verify, evidence, same \in BOOLEAN :
                   plan' = [plan EXCEPT ![s] = Guarded([r EXCEPT !.verify = verify], evidence, same)]
        BY <2>3 DEF JudgeCorrect
      <4> HIDE DEF r, s
      <4>2. ~(r.attempts >= Budget) => r.attempts < Budget
        BY <1>3, <3>1, PlanAssumption DEF s
      <4> QED BY <4>1, <4>2
    <3> HIDE DEF r, s
    <3>3. CASE plan' = [plan EXCEPT ![s] = [r EXCEPT !.status = "Failed"]]
      <4> DEFINE q == [r EXCEPT !.status = "Failed"]
      <4>1. /\ q.status = "Failed" /\ q.attempts = r.attempts /\ q.verify = r.verify
            /\ q.tracked = r.tracked /\ q.completed = r.completed
        BY <3>1 DEF StepRecord
      <4>2. plan' = [plan EXCEPT ![s] = q]
        BY <3>3
      <4> HIDE DEF q
      <4>3. plan'[s] = q /\ \A u \in Step \ {s} : plan'[u] = plan[u]
        BY <1>1, <1>2, <4>2 DEF s
      <4> QED BY <1>3, <3>0, <3>1, <4>1, <4>3 DEF s
    <3>4. CASE /\ r.attempts < Budget
               /\ \E verify, evidence, same \in BOOLEAN :
                    plan' = [plan EXCEPT ![s] = Guarded([r EXCEPT !.verify = verify], evidence, same)]
      <4>1. PICK verify \in BOOLEAN, evidence \in BOOLEAN, same \in BOOLEAN :
              plan' = [plan EXCEPT ![s] = Guarded([r EXCEPT !.verify = verify], evidence, same)]
        BY <3>4
      <4> DEFINE v == [r EXCEPT !.verify = verify]
                 q == Guarded(v, evidence, same)
      <4>2. v \in StepRecord /\ v.attempts = r.attempts
        BY <3>1 DEF StepRecord
      <4>3. plan' = [plan EXCEPT ![s] = q]
        BY <4>1
      <4> HIDE DEF v
      <4>4. q.attempts = v.attempts /\ q.status \in {"Failed", "Rejected"}
        BY <4>2, GuardedCosts
      <4> HIDE DEF q
      <4>5. plan'[s] = q /\ \A u \in Step \ {s} : plan'[u] = plan[u]
        BY <1>1, <1>2, <4>3 DEF s
      <4> QED BY <1>3, <3>0, <3>1, <3>4, <4>2, <4>4, <4>5 DEF s
    <3> QED BY <3>2, <3>3, <3>4
  <2> QED BY <2>1, <2>2, <2>3
<1> QED
  <2> HIDE DEF Judged
  <2> QED BY <1>2, <1>4, ZenonT(30) DEF s

LEMMA JudgedPays ==
  ASSUME IInv, IInv', BInv, JudgeAccept \/ JudgeReplan \/ JudgeCorrect PROVE BInv'
<1>1. /\ mailbox # << >> /\ Judged # None /\ pc[A] = "idle" /\ A \in Thread
      /\ plan \in [Step -> StepRecord]
  BY Threads DEF JudgeAccept, JudgeReplan, JudgeCorrect, Judging, Judged, IInv, TypeOK, PlanTypeOK
<1>2. Judged \in Step
  BY <1>1, HeadTail DEF Judged
<1>3. PICK l \in {"accepted", "answer"} :
        /\ pc' = [pc EXCEPT ![A] = l] /\ UNCHANGED <<job, at, aim, btask, mailbox, task, queue, inbox>>
        /\ l = "accepted" => JudgeAccept
  BY DEF JudgeAccept, JudgeReplan, JudgeCorrect, Go, taskVars
<1>4. Reported' /\ PlanTypeOK'
  BY <1>3, ReportedStays DEF BInv, IInv, TypeOK
<1>5. /\ l \in Label \ Dispatching /\ pc[A] \notin Dispatching /\ A # Driver /\ A \notin Worker
      /\ "answer" \notin Advancing \cup {"accepted"}
  BY <1>1, Threads DEF Label, Dispatching, Advancing
<1>6. /\ Attempted(Judged) >= plan[Judged].attempts /\ Attempted(Judged) \in 0 .. Budget
      /\ Attempted(Judged) < Budget => Attempted(Judged) = plan[Judged].attempts + 1
      /\ plan[Judged].attempts \in Nat /\ plan[Judged] \in StepRecord
  BY <1>1, <1>2, AttemptedIs, PlanAssumption DEF StepRecord
<1> DEFINE s == Judged
<1>7. /\ \A r \in Step \ {s} : plan'[r] = plan[r]
      /\ \/ /\ plan'[s].status \in {"Completed", "ReplanRequired"} /\ ~plan'[s].verify
            /\ plan'[s].attempts = plan[s].attempts
         \/ /\ plan'[s].status = "Failed" /\ plan'[s].attempts >= plan[s].attempts
            /\ plan'[s].verify = plan[s].verify /\ plan'[s].tracked = plan[s].tracked
            /\ plan'[s].completed = plan[s].completed /\ l = "answer"
         \/ /\ plan'[s].status \in {"Failed", "Rejected"} /\ plan'[s].attempts < Budget
            /\ plan'[s].attempts = plan[s].attempts + 1 /\ l = "answer"
  <2>1. pc'[A] = l
    BY <1>1, <1>3 DEF IInv, TypeOK, ThreadTypeOK
  <2> HIDE DEF s
  <2> QED BY <1>6, <2>1, JudgedIs DEF s
<1>8. pc'[A] = l
  BY <1>1, <1>3 DEF IInv, TypeOK, ThreadTypeOK
<1>9. \A r \in Step : Passes(r, A, l)
  <2> TAKE r \in Step
  <2>1. CASE r # s
    BY <1>2, <1>7, <2>1, OneStep, PassesBy
  <2>2. CASE r = s
    <3>1. Paid(s) /\ Verified(s)
      BY <1>2 DEF BInv
    <3>2. CASE /\ plan'[s].status \in {"Completed", "ReplanRequired"} /\ ~plan'[s].verify
               /\ plan'[s].attempts = plan[s].attempts
      BY <1>2, <1>6, <2>2, <3>2, PassesBy
    <3>3. CASE /\ plan'[s].status = "Failed" /\ plan'[s].attempts >= plan[s].attempts
               /\ plan'[s].verify = plan[s].verify /\ plan'[s].tracked = plan[s].tracked
               /\ plan'[s].completed = plan[s].completed
      BY <2>2, <3>3 DEF Passes
    <3>4. CASE /\ plan'[s].status \in {"Failed", "Rejected"} /\ plan'[s].attempts < Budget
               /\ plan'[s].attempts = plan[s].attempts + 1 /\ l = "answer"
      BY <1>5, <1>6, <1>8, <2>2, <3>4 DEF Passes, Counted
    <3> QED BY <1>7, <3>2, <3>3, <3>4
  <2> QED BY <2>1, <2>2
<1>10. l = "accepted" /\ Headless => \A r \in Step : ~plan'[r].verify
  <2> SUFFICES ASSUME l = "accepted", Headless PROVE ~plan'[s].verify
    BY <1>2, OneStep
  <2> QED BY <1>7
<1> QED BY <1>1, <1>3, <1>4, <1>5, <1>9, <1>10, Turn

-----------------------------------------------------------------------------
\* The mailbox of A.

\* A thread that asks, for a review or as the driver, waits.
LEMMA PostedGrows ==
  ASSUME TypeOK, Posted, NEW t \in Thread \ {A}, NEW s \in Step \cup {None},
         pc[t] \notin {"review", "approval"}, pc'[t] \in {"review", "approval"},
         \A u \in Thread \ {t} : pc'[u] = pc[u], s = None => t = Driver,
         mailbox' = Append(mailbox, [by |-> t, step |-> s])
  PROVE  Posted'
<1> DEFINE M == [by : Thread \ {A}, step : Step \cup {None}]
           e == [by |-> t, step |-> s]
<1>1. mailbox \in Seq(M) /\ e \in M /\ mailbox' = Append(mailbox, e) /\ e.by = t /\ e.step = s
  BY DEF TypeOK, TaskTypeOK
<1> HIDE DEF M, e
<1>2. /\ DOMAIN mailbox = 1 .. Len(mailbox) /\ Len(mailbox) \in Nat
      /\ DOMAIN mailbox' = 1 .. Len(mailbox) + 1
      /\ mailbox'[Len(mailbox) + 1] = e
      /\ \A i \in DOMAIN mailbox : mailbox'[i] = mailbox[i]
  BY <1>1, AppendProperties, LenProperties
<1>3. ASSUME NEW i \in DOMAIN mailbox'
      PROVE  \/ i = Len(mailbox) + 1 /\ mailbox'[i] = e
             \/ i \in DOMAIN mailbox /\ mailbox'[i] = mailbox[i]
  <2>1. CASE i = Len(mailbox) + 1
    BY <1>2, <2>1
  <2>2. CASE i # Len(mailbox) + 1
    <3>1. i \in DOMAIN mailbox
      BY ONLY <1>2, <1>3, <2>2
    <3> QED BY <1>2, <3>1
  <2> QED BY <2>1, <2>2
<1>4. \A i \in DOMAIN mailbox :
        /\ mailbox[i].step = None => mailbox[i].by = Driver
        /\ mailbox[i].by = Driver => pc[Driver] \in {"review", "approval"}
  BY DEF Posted
<1>5. pc[Driver] \in {"review", "approval"} => t # Driver /\ pc'[Driver] = pc[Driver]
  BY Threads
<1>6. \A i \in DOMAIN mailbox' :
        /\ mailbox'[i].step = None => mailbox'[i].by = Driver
        /\ mailbox'[i].by = Driver => pc'[Driver] \in {"review", "approval"}
  BY <1>1, <1>3, <1>4, <1>5
<1>7. ASSUME NEW i \in DOMAIN mailbox', NEW j \in DOMAIN mailbox',
             mailbox'[i].by = Driver, mailbox'[j].by = Driver
      PROVE  i = j
  <2>1. CASE t = Driver
    <3>1. \A k \in DOMAIN mailbox : mailbox[k].by # Driver
      BY <1>4, <2>1
    <3> QED BY <1>3, <1>7, <3>1
  <2>2. CASE t # Driver
    <3>1. i \in DOMAIN mailbox /\ mailbox[i].by = Driver
      BY <1>1, <1>3, <1>7, <2>2
    <3>2. j \in DOMAIN mailbox /\ mailbox[j].by = Driver
      BY <1>1, <1>3, <1>7, <2>2
    <3> QED BY <3>1, <3>2 DEF Posted
  <2> QED BY <2>1, <2>2
<1> QED BY <1>6, <1>7 DEF Posted

\* Only who has asked is let go.
LEMMA PostedShrinks ==
  ASSUME TypeOK, Posted, mailbox # << >>, mailbox' = Tail(mailbox),
         pc'[Driver] = pc[Driver] \/ Head(mailbox).by = Driver
  PROVE  Posted'
<1> DEFINE M == [by : Thread \ {A}, step : Step \cup {None}]
<1>1. mailbox \in Seq(M)
  BY DEF TypeOK, TaskTypeOK
<1> HIDE DEF M
<1>2. /\ Head(mailbox) = mailbox[1]
      /\ DOMAIN mailbox = 1 .. Len(mailbox) /\ Len(mailbox) \in Nat \ {0}
      /\ DOMAIN mailbox' = 1 .. Len(mailbox) - 1
      /\ \A i \in 1 .. Len(mailbox) - 1 : mailbox'[i] = mailbox[i + 1]
  BY <1>1, HeadTailProperties, LenProperties, EmptySeq
<1>3. \A i \in DOMAIN mailbox' : i \in Nat /\ i + 1 \in DOMAIN mailbox /\ i + 1 # 1
                                 /\ mailbox'[i] = mailbox[i + 1]
  BY ONLY <1>2
<1>4. 1 \in DOMAIN mailbox
  BY ONLY <1>2
<1>5. \A i \in DOMAIN mailbox' : mailbox'[i].step = None => mailbox'[i].by = Driver
  BY <1>3 DEF Posted
<1>6. \A i \in DOMAIN mailbox' : mailbox'[i].by = Driver => pc'[Driver] \in {"review", "approval"}
  BY <1>2, <1>3, <1>4 DEF Posted
<1>7. ASSUME NEW i \in DOMAIN mailbox', NEW j \in DOMAIN mailbox',
             mailbox'[i].by = Driver, mailbox'[j].by = Driver
      PROVE  i = j
  <2>1. i + 1 = j + 1 /\ i \in Nat /\ j \in Nat
    BY <1>3, <1>7 DEF Posted
  <2> QED BY <2>1
<1> QED BY <1>5, <1>6, <1>7 DEF Posted

LEMMA AskPays ==
  ASSUME IInv, IInv', BInv, NEW t \in Thread, Ask(t) PROVE BInv'
<1>1. /\ pc[t] = "ask" /\ pc' = [pc EXCEPT ![t] = "review"]
      /\ UNCHANGED <<plan, btask, task, queue, inbox, job, at, aim>>
      /\ mailbox' = Append(mailbox, [by |-> t, step |-> at[t]])
      /\ t \in Thread \ {A} /\ at[t] \in Step
  BY DEF Ask, Go, taskVars, IInv, Asked
<1>2. pc'[t] = "review" /\ \A u \in Thread \ {t} : pc'[u] = pc[u]
  BY <1>1 DEF IInv, TypeOK, ThreadTypeOK
<1>3. Reported' /\ PlanTypeOK'
  BY <1>1, ReportedStays DEF BInv, IInv, TypeOK
<1>4. "review" \in Label \ Dispatching /\ "review" \in Notifying
      /\ pc[t] \notin Dispatching \cup Prompting \cup Polling
  BY <1>1 DEF Label, Dispatching, Notifying, Prompting, Advancing, Polling
<1>5. Roles'
  <2>1. ~(t = Driver /\ ~Headless)
    BY <1>4 DEF BInv, Roles
  <2> QED BY <1>1, <1>4, <2>1, RolesStay DEF BInv, IInv
<1>6. Posted'
  BY <1>1, <1>2, Threads, PostedGrows DEF BInv, IInv
<1>7. \A s \in Step : Passes(s, t, "review")
  BY <1>1, <1>4, QuietPasses
<1>8. \A s \in Step : Paid(s)' /\ Verified(s)'
  BY <1>1, <1>2, <1>3, <1>4, <1>7, TurnSteps
<1> QED BY <1>3, <1>5, <1>6, <1>8 DEF BInv

LEMMA ApprovePays ==
  ASSUME IInv, IInv', BInv, Approve PROVE BInv'
<1>1. /\ pc[Driver] = "prompt" /\ pc' = [pc EXCEPT ![Driver] = "approval"]
      /\ UNCHANGED <<plan, btask, task, queue, inbox, job, at, aim>>
      /\ mailbox' = Append(mailbox, [by |-> Driver, step |-> None])
      /\ Driver \in Thread \ {A} /\ Driver \notin Worker
  BY Threads DEF Approve, Go, planVars, taskVars
<1>2. pc'[Driver] = "approval" /\ \A u \in Thread \ {Driver} : pc'[u] = pc[u]
  BY <1>1 DEF IInv, TypeOK, ThreadTypeOK
<1>3. Reported' /\ PlanTypeOK'
  BY <1>1, ReportedStays DEF BInv, IInv, TypeOK
<1>4. /\ "approval" \in Label \ Dispatching /\ "approval" \in Prompting
      /\ pc[Driver] \notin Dispatching \cup Polling
  BY <1>1 DEF Label, Dispatching, Prompting, Polling
<1>5. Roles'
  BY <1>1, <1>4, RolesStay DEF BInv, IInv
<1>6. Posted'
  BY <1>1, <1>2, PostedGrows DEF BInv, IInv
<1>7. \A s \in Step : Passes(s, Driver, "approval")
  BY <1>1, <1>4, QuietPasses
<1>8. \A s \in Step : Paid(s)' /\ Verified(s)'
  BY <1>1, <1>2, <1>3, <1>4, <1>7, TurnSteps
<1> QED BY <1>3, <1>5, <1>6, <1>8 DEF BInv

\* Who has asked for approval is the driver.
LEMMA HeadPosted ==
  ASSUME IInv, BInv, mailbox # << >>
  PROVE  /\ Head(mailbox).step = None => Head(mailbox).by = Driver
         /\ Head(mailbox).by = Driver => pc[Driver] \in {"review", "approval"}
<1> DEFINE M == [by : Thread \ {A}, step : Step \cup {None}]
<1>1. mailbox \in Seq(M)
  BY DEF IInv, TypeOK, TaskTypeOK
<1> HIDE DEF M
<1>2. Head(mailbox) = mailbox[1] /\ 1 \in DOMAIN mailbox
  <2>1. DOMAIN mailbox = 1 .. Len(mailbox) /\ Len(mailbox) \in Nat \ {0}
    BY <1>1, LenProperties, EmptySeq
  <2> QED BY <1>1, <2>1, HeadTailProperties
<1> QED BY <1>2 DEF BInv, Posted

LEMMA ApprovedPays ==
  ASSUME IInv, IInv', BInv, Approved PROVE BInv'
<1>1. /\ mailbox # << >> /\ Head(mailbox).step = None /\ mailbox' = Tail(mailbox)
      /\ pc' = [pc EXCEPT ![Driver] = "advance"]
      /\ UNCHANGED <<plan, btask, task, queue, inbox, job, at, aim>>
      /\ Driver \in Thread \ {A} /\ Driver \notin Worker
  BY Threads DEF Approved, Go, planVars, taskVars
<1>2. Head(mailbox).by = Driver /\ pc[Driver] \in {"review", "approval"}
  BY <1>1, HeadPosted
<1>3. pc'[Driver] = "advance" /\ \A u \in Thread \ {Driver} : pc'[u] = pc[u]
  BY <1>1 DEF IInv, TypeOK, ThreadTypeOK
<1>4. Reported' /\ PlanTypeOK'
  BY <1>1, ReportedStays DEF BInv, IInv, TypeOK
<1>5. /\ "advance" \in Label \ Dispatching /\ "advance" \in Prompting
      /\ pc[Driver] \notin Dispatching \cup Polling
  BY <1>2 DEF Label, Dispatching, Prompting, Advancing, Polling
<1>6. Roles'
  BY <1>1, <1>5, RolesStay DEF BInv, IInv
<1>7. Posted'
  BY <1>1, <1>2, PostedShrinks DEF BInv, IInv
<1>8. \A s \in Step : Passes(s, Driver, "advance")
  BY <1>1, <1>5, QuietPasses
<1>9. \A s \in Step : Paid(s)' /\ Verified(s)'
  BY <1>1, <1>3, <1>4, <1>5, <1>8, TurnSteps
<1> QED BY <1>4, <1>6, <1>7, <1>9 DEF BInv

LEMMA AnswerPays ==
  ASSUME IInv, IInv', BInv, Busy, Answer PROVE BInv'
<1> DEFINE t == Head(mailbox).by
<1>1. mailbox # << >> /\ mailbox' = Tail(mailbox)
      /\ UNCHANGED <<plan, btask, task, queue, inbox, job, aim>>
  BY DEF Busy, Answer, planVars, taskVars
<1>2. t \in Thread \ {A} /\ A \in Thread
  BY <1>1, HeadTail, Threads
<1>3. PICK l : /\ pc' = [pc EXCEPT ![A] = "idle", ![t] = l]
               /\ l \in {"blocked", EventOver(t)}
               /\ \A u \in Thread \ {t} : at'[u] = at[u]
  BY <1>2 DEF Answer, IInv, TypeOK, ThreadTypeOK
<1>4. t = Driver => pc[Driver] \in {"review", "approval"}
  BY <1>1, HeadPosted
<1> HIDE DEF t
<1>5. /\ pc'[t] = l /\ pc'[A] = "idle"
      /\ \A u \in Thread \ {t, A} : pc'[u] = pc[u]
  BY <1>2, <1>3 DEF IInv, TypeOK, ThreadTypeOK
<1>6. EventOver(t) \in {"event", "synced", "done"}
  BY DEF EventOver
<1>7. /\ t \in Worker => EventOver(t) = "done" /\ pc[t] \notin Dispatching
      /\ t = Driver /\ ~Headless => EventOver(t) = "done"
  BY <1>2 DEF BInv, Roles, EventOver, Notifying, Dispatching
<1>8. t \in Worker \/ t = Driver
  BY <1>2, PlanAssumption DEF Thread, Worker, Driver, A
<1>9. /\ l \in Label \ Dispatching /\ pc[t] \notin Dispatching
      /\ t = Driver => pc[Driver] \notin Polling
      /\ t \in Worker => l \in Notifying
      /\ t = Driver /\ ~Headless => l \in Prompting
  BY <1>3, <1>4, <1>6, <1>7, <1>8 DEF Label, Dispatching, Polling, Notifying, Prompting, Advancing
<1>10. Reported' /\ PlanTypeOK'
  BY <1>1, ReportedStays DEF BInv, IInv, TypeOK
<1>11. Roles'
  BY <1>1, <1>2, <1>5, <1>9, Threads DEF BInv, Roles
<1>12. Posted'
  <2>1. pc'[Driver] = pc[Driver] \/ t = Driver
    BY <1>5, Threads
  <2> QED BY <1>1, <2>1, PostedShrinks DEF BInv, IInv, t
<1>13. \A s \in Step : Passes(s, t, l)
  BY <1>1, <1>2, <1>9, QuietPasses
<1>14. \A s \in Step : Paid(s)' /\ Verified(s)'
  BY <1>1, <1>2, <1>3, <1>5, <1>9, <1>10, <1>13, TurnSteps
<1> QED BY <1>10, <1>11, <1>12, <1>14 DEF BInv

-----------------------------------------------------------------------------
\* Dispatch of a step, which in a headless run only the driver may have to verify.

LEMMA Hands ==
  ASSUME IInv, BInv, NEW t \in Thread, pc[t] \in Dispatching \cup {"advance"}
  PROVE  /\ t \in {Driver, A}
         /\ \A s \in Step : Headless /\ plan[s].verify => t = Driver /\ Step = {s}
         /\ \A s \in Step : /\ Spent(s) \in Nat /\ Spent(s)' \in Nat
                            /\ Due(s) \in Nat /\ Paid(s) /\ Verified(s)
<1>1. pc[t] \notin Notifying /\ pc[t] \in Advancing
  BY DEF Dispatching, Notifying, Advancing
<1>2. t \in {Driver, A}
  BY <1>1, PlanAssumption DEF BInv, Roles, Thread, Worker, Driver, A
<1>3. \A s \in Step : Paid(s) /\ Verified(s)
  BY DEF BInv
<1>4. \A s \in Step : Due(s) \in Nat
  BY DueIs DEF IInv, TypeOK
<1>5. \A s \in Step : Spent(s) \in Nat /\ Spent(s)' \in Nat
  BY SpentType, SpentTypeNext
<1>6. \A s \in Step : Headless /\ plan[s].verify => t = Driver
  BY <1>1, <1>2, <1>3 DEF Verified
<1>7. \A s \in Step : Headless => Step = {s}
  BY OneStep
<1> QED BY <1>2, <1>3, <1>4, <1>5, <1>6, <1>7

LEMMA HandsOver ==
  ASSUME IInv, BInv, NEW t \in Thread, pc[t] \in Dispatching \cup {"advance"},
         NEW l \in Dispatching \cup {"again", "blocked"}, pc' = [pc EXCEPT ![t] = l],
         UNCHANGED <<mailbox, queue, inbox, job>>,
         \A w \in Worker : task[w].step # None => task'[w].step # None,
         \A s \in Step : Paid(s)' /\ Verified(s)'
  PROVE  BInv'
<1>1. t \in {Driver, A} /\ l \in Prompting /\ pc[t] \notin {"review", "approval"}
  BY Hands DEF Prompting, Advancing, Dispatching
<1>2. Roles'
  BY <1>1, Threads, RolesStay DEF IInv, BInv
<1>3. Posted'
  BY <1>1, PostedStays DEF IInv, BInv
<1>4. Reported'
  BY ReportedStays DEF IInv, BInv
<1> QED BY <1>2, <1>3, <1>4 DEF BInv

\* A step that is not changed and spends no more stays paid.
LEMMA PaidStays ==
  ASSUME IInv, IInv', BInv, NEW s \in Step, Spent(s)' <= Spent(s),
         plan'[s].status = plan[s].status, plan'[s].attempts = plan[s].attempts,
         plan'[s].verify = plan[s].verify
  PROVE  /\ Paid(s)' /\ (Owing(s)' => Owing(s))
         /\ Owing(s)' <=> Spent(s)' > Due(s)
<1>1. Spent(s) \in Nat /\ Spent(s)' \in Nat /\ Due(s) \in Nat /\ Paid(s)
  BY SpentType, SpentTypeNext, DueIs DEF BInv, IInv, TypeOK
<1>0. Due(s)' = Due(s)
  BY DEF Due
<1>2. Owing(s)' <=> Spent(s)' > Due(s)
  BY <1>0 DEF Owing
<1>3. Owing(s)' => Owing(s)
  BY <1>1, <1>2 DEF Owing
<1>4. Spent(s)' <= Due(s)' + 1
  BY <1>0, <1>1 DEF Paid
<1>5. Paid(s)'
  BY <1>1, <1>3, <1>4 DEF Paid, Is
<1> QED BY <1>2, <1>3, <1>5

\* What the driver still keeps of a step it hands over.
LEMMA VerifiedStays ==
  ASSUME IInv, BInv, NEW t \in Thread, pc[t] \in Dispatching \cup {"advance"},
         NEW s \in Step, \A u \in Thread \ {t} : pc'[u] = pc[u],
         plan'[s].verify = plan[s].verify, plan'[s].status \in {plan[s].status, "Running"},
         Headless /\ plan[s].verify /\ t = Driver /\ Owing(s)' => Overdrawn(s)'
  PROVE  Verified(s)'
<1>1. Verified(s) /\ (Headless /\ plan[s].verify => t = Driver)
  BY Hands
<1>2. Driver # A /\ A \in Thread
  BY Threads
<1> QED BY <1>1, <1>2 DEF Verified, Is

LEMMA DispatchPays ==
  ASSUME IInv, IInv', BInv, NEW t \in Thread, Dispatch(t) PROVE BInv'
<1>1. /\ pc[t] = "dispatch" /\ pc' = [pc EXCEPT ![t] = "launch"]
      /\ aim' = [aim EXCEPT ![t] = IF Live(btask) THEN btask ELSE None]
      /\ UNCHANGED <<plan, btask, task, queue, inbox, mailbox, job, at>>
  BY DEF Dispatch, taskVars
<1>2. /\ pc[t] \in Dispatching \cup {"advance"} /\ "launch" \in Dispatching \cup {"again", "blocked"}
      /\ pc[t] \notin Polling /\ at[t] \in Step
  BY <1>1 DEF Dispatching, Polling, IInv, AtStep
<1>3. /\ pc'[t] = "launch" /\ aim'[t] = IF Live(btask) THEN btask ELSE None
      /\ \A u \in Thread \ {t} : pc'[u] = pc[u] /\ aim'[u] = aim[u]
  BY <1>1 DEF IInv, TypeOK, ThreadTypeOK
<1>4. ASSUME NEW s \in Step PROVE Paid(s)' /\ Verified(s)'
  <2>1. Launched(s)' = Launched(s)
    BY <1>1 DEF Launched
  <2>2. Paying(s)' \subseteq Paying(s)
    BY <1>1, <1>3 DEF Paying
  <2>3. /\ Paid(s)' /\ (Owing(s)' => Owing(s))
        /\ Owing(s)' <=> Spent(s)' > Due(s)
    BY <1>1, <2>1, <2>2, SpentFalls, PaidStays
  <2>4. ASSUME Headless, plan[s].verify, t = Driver, Owing(s)' PROVE Overdrawn(s)'
    <3>1. Overdrawn(s) /\ Paid(s) /\ s = at[t]
      BY <1>2, <2>3, <2>4, Hands DEF Verified
    <3>2. aim'[t] = None
      <4> SUFFICES ASSUME aim'[t] # None PROVE FALSE
        OBVIOUS
      <4>1. t \in Paying(s) \ Paying(s)'
        BY <1>1, <1>3, <3>1 DEF Paying
      <4>2. Spent(s)' < Spent(s)
        BY <2>1, <2>2, <4>1, SpentFalls
      <4>3. Spent(s) <= Due(s) + 1 /\ Spent(s)' > Due(s)
        BY <1>1, <2>3, <2>4, <3>1 DEF Paid
      <4>4. Spent(s) \in Nat /\ Spent(s)' \in Nat /\ Due(s) \in Nat
        BY <1>2, Hands
      <4> QED BY ONLY <4>2, <4>3, <4>4
    <3> QED BY <1>1, <1>2, <1>3, <2>4, <3>1, <3>2 DEF Overdrawn, Completed, Is, Dispatching
  <2>5. Verified(s)'
    BY <1>1, <1>2, <1>3, <2>4, VerifiedStays
  <2> QED BY <2>3, <2>5
<1> QED BY <1>1, <1>2, <1>4, HandsOver

LEMMA ContinuePays ==
  ASSUME IInv, IInv', BInv, NEW t \in Thread, Continue(t) PROVE BInv'
<1>1. /\ pc[t] = "launch" /\ aim[t] # None
      /\ UNCHANGED <<plan, task, queue, inbox, mailbox, job, at, aim>>
  BY DEF Continue, Go, taskVars
<1>2. PICK l \in {"recordB", "blocked"} : pc' = [pc EXCEPT ![t] = l]
  BY DEF Continue, Go
<1>3. /\ pc[t] \in Dispatching \cup {"advance"} /\ l \in Dispatching \cup {"again", "blocked"}
  BY <1>1 DEF Dispatching
<1>4. pc'[t] = l /\ \A u \in Thread \ {t} : pc'[u] = pc[u]
  BY <1>2 DEF IInv, TypeOK, ThreadTypeOK
<1>5. ASSUME NEW s \in Step PROVE Paid(s)' /\ Verified(s)'
  <2>1. Launched(s)' = Launched(s)
    BY <1>1 DEF Launched
  <2>2. Paying(s)' \subseteq Paying(s)
    BY <1>1, <1>4 DEF Paying
  <2>3. Paid(s)' /\ (Owing(s)' => Owing(s))
    BY <1>1, <2>1, <2>2, SpentFalls, PaidStays
  <2>4. ASSUME Headless, plan[s].verify, t = Driver, Owing(s)' PROVE Overdrawn(s)'
    BY <1>1, <1>3, <2>3, <2>4, Hands DEF Verified, Overdrawn
  <2>5. Verified(s)'
    BY <1>1, <1>3, <1>4, <2>4, VerifiedStays
  <2> QED BY <2>3, <2>5
<1> QED BY <1>1, <1>2, <1>3, <1>5, HandsOver

LEMMA SpawnPays ==
  ASSUME IInv, IInv', BInv, NEW t \in Thread, Spawn(t) PROVE BInv'
<1> DEFINE w == First({v \in Worker : task[v].state = "none"})
<1>1. w \in Worker
  BY FirstWorker DEF Spawn
<1>2. /\ pc[t] = "launch" /\ aim[t] = None /\ pc' = [pc EXCEPT ![t] = "recordB"]
      /\ task' = [task EXCEPT ![w].state = "live", ![w].step = at[t]]
      /\ aim' = [aim EXCEPT ![t] = w]
      /\ UNCHANGED <<plan, queue, inbox, mailbox, job, at>>
  BY DEF Spawn
<1> HIDE DEF w
<1>3. /\ pc[t] \in Dispatching \cup {"advance"} /\ "recordB" \in Dispatching \cup {"again", "blocked"}
      /\ pc[t] \notin Polling /\ at[t] \in Step
  BY <1>2 DEF Dispatching, Polling, IInv, AtStep
<1>4. /\ pc'[t] = "recordB"
      /\ \A u \in Thread \ {t} : pc'[u] = pc[u] /\ aim'[u] = aim[u]
  BY <1>2 DEF IInv, TypeOK, ThreadTypeOK
<1>5. task'[w].step = at[t] /\ \A v \in Worker \ {w} : task'[v].step = task[v].step
  BY <1>1, <1>2 DEF IInv, TypeOK, TaskTypeOK
<1>6. ASSUME NEW s \in Step PROVE Paid(s)' /\ Verified(s)'
  <2>1. Paying(s)' \subseteq Paying(s) \ {t}
    BY <1>2, <1>4 DEF Paying
  <2>2. Spent(s)' <= Spent(s)
    <3>1. CASE s = at[t]
      <4>1. t \in Paying(s)
        BY <1>2, <3>1 DEF Paying
      <4>2. Launched(s)' \subseteq Launched(s) \cup {w}
        BY <1>5 DEF Launched
      <4> QED BY <2>1, <4>1, <4>2, SpentMoves
    <3>2. CASE s # at[t]
      <4>1. Launched(s)' \subseteq Launched(s)
        BY <1>5, <3>2 DEF Launched
      <4> QED BY <2>1, <4>1, SpentFalls
    <3> QED BY <3>1, <3>2
  <2>3. Paid(s)' /\ (Owing(s)' => Owing(s))
    BY <1>2, <2>2, PaidStays
  <2>4. ASSUME Headless, plan[s].verify, t = Driver, Owing(s)' PROVE Overdrawn(s)'
    <3>1. Overdrawn(s)
      BY <1>3, <2>3, <2>4, Hands DEF Verified
    <3> QED BY <1>2, <1>3, <1>4, <2>4, <3>1 DEF Overdrawn, Completed, Is, Dispatching
  <2>5. Verified(s)'
    BY <1>2, <1>3, <1>4, <2>4, VerifiedStays
  <2> QED BY <2>3, <2>5
<1>7. \A v \in Worker : task[v].step # None => task'[v].step # None
  BY <1>3, <1>5, Threads
<1> QED BY <1>2, <1>3, <1>6, <1>7, HandsOver

LEMMA DeniedPays ==
  ASSUME IInv, IInv', BInv, NEW t \in Thread, Denied(t) PROVE BInv'
<1>1. /\ pc[t] = "launch" /\ aim[t] = None /\ pc' = [pc EXCEPT ![t] = "blocked"]
      /\ UNCHANGED <<plan, btask, task, queue, inbox, mailbox, job, at, aim>>
  BY DEF Denied, Go, planVars, taskVars
<1>2. /\ pc[t] \in Dispatching \cup {"advance"} /\ "blocked" \in Dispatching \cup {"again", "blocked"}
  BY <1>1 DEF Dispatching
<1>3. pc'[t] = "blocked" /\ \A u \in Thread \ {t} : pc'[u] = pc[u]
  BY <1>1 DEF IInv, TypeOK, ThreadTypeOK
<1>4. at[t] \in Step
  BY <1>1 DEF IInv, AtStep
<1>5. ASSUME NEW s \in Step PROVE Paid(s)' /\ Verified(s)'
  <2>1. Launched(s)' = Launched(s)
    BY <1>1 DEF Launched
  <2>2. Paying(s)' \subseteq Paying(s)
    BY <1>1, <1>3 DEF Paying
  <2>3. Paid(s)' /\ (Owing(s)' <=> Spent(s)' > Due(s))
    BY <1>1, <2>1, <2>2, SpentFalls, PaidStays
  <2>4. ASSUME Headless, plan[s].verify, t = Driver, Owing(s)' PROVE FALSE
    <3>1. Paid(s) /\ s = at[t]
      BY <1>2, <1>4, <2>4, Hands
    <3>2. t \in Paying(s) \ Paying(s)'
      BY <1>1, <1>3, <3>1 DEF Paying
    <3>3. Spent(s)' < Spent(s)
      BY <2>1, <2>2, <3>2, SpentFalls
    <3>4. Spent(s) <= Due(s) + 1 /\ Spent(s)' > Due(s)
      BY <1>1, <2>3, <2>4, <3>1 DEF Paid
    <3>5. Spent(s) \in Nat /\ Spent(s)' \in Nat /\ Due(s) \in Nat
      BY <1>2, Hands
    <3> QED BY ONLY <3>3, <3>4, <3>5
  <2>5. Verified(s)'
    BY <1>1, <1>2, <1>3, <2>4, VerifiedStays
  <2> QED BY <2>3, <2>5
<1> QED BY <1>1, <1>2, <1>5, HandsOver

LEMMA RecordBPays ==
  ASSUME IInv, IInv', BInv, NEW t \in Thread, RecordB(t) PROVE BInv'
<1>1. /\ pc[t] = "recordB" /\ pc' = [pc EXCEPT ![t] = "recordStep"] /\ btask' = aim[t]
      /\ UNCHANGED <<plan, task, queue, inbox, mailbox, job, at, aim>>
  BY DEF RecordB, Go, taskVars
<1>2. /\ pc[t] \in Dispatching \cup {"advance"} /\ pc[t] \notin Polling
      /\ "recordStep" \in Dispatching \cup {"again", "blocked"} /\ "recordStep" \in Dispatching
  BY <1>1 DEF Dispatching, Polling
<1>3. pc'[t] = "recordStep" /\ \A u \in Thread \ {t} : pc'[u] = pc[u]
  BY <1>1 DEF IInv, TypeOK, ThreadTypeOK
<1>4. ASSUME NEW s \in Step PROVE Paid(s)' /\ Verified(s)'
  <2>1. Launched(s)' = Launched(s)
    BY <1>1 DEF Launched
  <2>2. Paying(s)' \subseteq Paying(s)
    BY <1>1, <1>3 DEF Paying
  <2>3. Paid(s)' /\ (Owing(s)' => Owing(s))
    BY <1>1, <2>1, <2>2, SpentFalls, PaidStays
  <2>4. ASSUME Headless, plan[s].verify, t = Driver, Owing(s)' PROVE Overdrawn(s)'
    <3>1. Overdrawn(s)
      BY <1>2, <2>3, <2>4, Hands DEF Verified
    <3> QED BY <1>1, <1>2, <1>3, <2>4, <3>1 DEF Overdrawn, Completed, Is
  <2>5. Verified(s)'
    BY <1>1, <1>2, <1>3, <2>4, VerifiedStays
  <2> QED BY <2>3, <2>5
<1> QED BY <1>1, <1>2, <1>4, HandsOver

\* The step's task is the session's.
LEMMA RecordStepPays ==
  ASSUME IInv, IInv', BInv, NEW t \in Thread, RecordStep(t) PROVE BInv'
<1>1. /\ pc[t] = "recordStep" /\ pc' = [pc EXCEPT ![t] = "again"]
      /\ plan' = [plan EXCEPT ![at[t]].tracked = aim[t]]
      /\ at' = [at EXCEPT ![t] = None] /\ aim' = [aim EXCEPT ![t] = None]
      /\ UNCHANGED <<btask, task, queue, inbox, mailbox, job>>
  BY DEF RecordStep, Leave, taskVars
<1>2. /\ pc[t] \in Dispatching \cup {"advance"} /\ pc[t] \notin Polling
      /\ "again" \in Dispatching \cup {"again", "blocked"} /\ "again" \notin Dispatching
  BY <1>1 DEF Dispatching, Polling
<1>3. /\ pc'[t] = "again"
      /\ \A u \in Thread \ {t} : pc'[u] = pc[u] /\ at'[u] = at[u] /\ aim'[u] = aim[u]
  BY <1>1 DEF IInv, TypeOK, ThreadTypeOK
<1>4. at[t] \in Step /\ aim[t] \in Worker /\ aim[t] # None
  BY <1>1, Threads DEF IInv, AtStep, TypeOK, PlanTypeOK
<1>5. /\ plan \in [Step -> StepRecord]
      /\ plan' = [plan EXCEPT ![at[t]].tracked = aim[t]]
  BY <1>1 DEF IInv, TypeOK, PlanTypeOK
<1>6. /\ plan'[at[t]].tracked = aim[t]
      /\ \A s \in Step : /\ plan'[s].status = plan[s].status
                         /\ plan'[s].attempts = plan[s].attempts
                         /\ plan'[s].verify = plan[s].verify
                         /\ plan'[s].completed = plan[s].completed
  BY <1>4, <1>5 DEF StepRecord
<1>7. ASSUME NEW s \in Step PROVE Paid(s)' /\ Verified(s)'
  <2>1. Launched(s)' = Launched(s)
    BY <1>1 DEF Launched
  <2>2. Paying(s)' \subseteq Paying(s)
    BY <1>3 DEF Paying
  <2>3. Paid(s)' /\ (Owing(s)' => Owing(s))
    BY <1>6, <2>1, <2>2, SpentFalls, PaidStays
  <2>4. ASSUME Headless, plan[s].verify, t = Driver, Owing(s)' PROVE Overdrawn(s)'
    <3>1. Overdrawn(s) /\ s = at[t]
      BY <1>2, <1>4, <2>3, <2>4, Hands DEF Verified
    <3>2. btask' = aim[t]
      BY <1>1, <2>4, <3>1 DEF Overdrawn
    <3> QED BY <1>2, <1>3, <1>4, <1>6, <2>4, <3>1, <3>2 DEF Overdrawn, Completed, Is
  <2>5. Verified(s)'
    BY <1>2, <1>3, <1>6, <2>4, VerifiedStays, SMTT(30)
  <2> QED BY <2>3, <2>5
<1> QED BY <1>1, <1>2, <1>7, HandsOver

LEMMA RunnableIs ==
  ASSUME Runnable # None
  PROVE  /\ Runnable \in Step /\ ~Completed(Runnable)
         /\ \/ plan[Runnable].status \in {"Pending", "Rejected"}
            \/ Is(Runnable, "Reviewing") /\ plan[Runnable].verify
<1> DEFINE V == {s \in Step : ~Completed(s) /\ plan[s].verify
                               /\ plan[s].status \in {"Rejected", "Reviewing"}}
           D == {s \in Step : ~Completed(s) /\ plan[s].status \in {"Pending", "Rejected"}}
<1>1. Runnable = IF V # {} THEN First(V) ELSE First(D)
  BY DEF Runnable
<1>2. /\ First(V) \in V \cup {None} /\ First(D) \in D \cup {None}
  BY FirstStep
<1> QED BY <1>1, <1>2 DEF Is

\* What is dispatched owes nothing: a step under review that owes is one the driver of a
\* headless run has not come back from.
LEMMA RunnableOwesNothing ==
  ASSUME IInv, BInv, NEW t \in Thread, pc[t] = "advance", Runnable # None
  PROVE  ~Owing(Runnable)
<1>1. /\ pc[t] \in Dispatching \cup {"advance"} /\ pc[t] \notin Polling
  BY DEF Dispatching, Polling
<1>2. Paid(Runnable) /\ Verified(Runnable) /\ (Headless /\ plan[Runnable].verify => t = Driver)
  BY <1>1, RunnableIs, Hands
<1>3. CASE plan[Runnable].status \in {"Pending", "Rejected"}
  BY <1>2, <1>3 DEF Paid
<1>4. CASE Is(Runnable, "Reviewing") /\ plan[Runnable].verify
  <2>1. Headless /\ t = Driver
    BY <1>2, <1>4, PlanAssumption DEF Paid
  <2> QED BY <1>1, <1>2, <1>4, <2>1 DEF Verified, Overdrawn
<1> QED BY <1>3, <1>4, RunnableIs

LEMMA AdvanceStepPays ==
  ASSUME IInv, IInv', BInv, NEW t \in Thread, AdvanceStep(t) PROVE BInv'
<1>0. PICK r \in Step : r = Runnable
  BY RunnableIs DEF AdvanceStep
<1>1. /\ pc[t] = "advance" /\ r # None /\ r \in Step /\ ~Completed(r) /\ ~Owing(r)
      /\ UNCHANGED <<btask, task, queue, inbox, mailbox, job, aim>>
  BY <1>0, RunnableIs, RunnableOwesNothing DEF AdvanceStep, Selecting, GoAt, taskVars
<1>2. CASE plan[r].approval
  <2>1. /\ pc' = [pc EXCEPT ![t] = "barrier"] /\ at' = [at EXCEPT ![t] = r]
        /\ plan' = plan
    BY <1>0, <1>2 DEF AdvanceStep, GoAt
  <2>2. \A u \in Thread \ {t} : at'[u] = at[u] /\ aim'[u] = aim[u]
    BY <1>1, <2>1 DEF IInv, TypeOK, ThreadTypeOK
  <2>3. /\ pc[t] \in Advancing \ (Dispatching \cup {"blocked"}) /\ pc[t] # "giveup"
        /\ "barrier" \in Advancing \ (Dispatching \cup {"auto"})
    BY <1>1 DEF Advancing, Dispatching
  <2>4. PlanTypeOK'
    BY DEF IInv, TypeOK
  <2> QED BY <1>1, <2>1, <2>2, <2>3, <2>4, Round
<1>3. CASE ~plan[r].approval
  <2>1. /\ pc' = [pc EXCEPT ![t] = "dispatch"] /\ at' = [at EXCEPT ![t] = r]
        /\ plan' = [plan EXCEPT ![r].status = "Running"]
    BY <1>0, <1>3 DEF AdvanceStep, GoAt
  <2>2. /\ pc'[t] = "dispatch" /\ at'[t] = r
        /\ \A u \in Thread \ {t} : pc'[u] = pc[u] /\ at'[u] = at[u]
    BY <2>1 DEF IInv, TypeOK, ThreadTypeOK
  <2>3. plan \in [Step -> StepRecord]
    BY DEF IInv, TypeOK, PlanTypeOK
  <2>4. /\ plan'[r].status = "Running" /\ plan'[r].attempts = plan[r].attempts
        /\ plan'[r].verify = plan[r].verify /\ plan'[r].completed = plan[r].completed
        /\ \A s \in Step \ {r} : plan'[s] = plan[s]
    BY <1>1, <2>1, <2>3 DEF StepRecord
  <2>5. /\ pc[t] \in Dispatching \cup {"advance"} /\ "dispatch" \in Dispatching
        /\ "dispatch" \in Dispatching \cup {"again", "blocked"}
    BY <1>1 DEF Dispatching
  <2>6. Paid(r)' /\ Verified(r)'
    <3>1. Launched(r)' = Launched(r)
      BY <1>1 DEF Launched
    <3>2. Paying(r)' \subseteq Paying(r) \cup {t}
      BY <1>1, <2>2 DEF Paying
    <3>3. Spent(r)' <= Spent(r) + 1
      BY <3>1, <3>2, SpentGrows
    <3>4. Spent(r) <= Due(r)
      BY <1>1, <2>5, Hands DEF Owing
    <3>5. Spent(r) \in Nat /\ Spent(r)' \in Nat /\ Due(r) \in Nat
      BY <1>1, <2>5, Hands
    <3>6. Due(r)' = Due(r)
      BY <2>4 DEF Due
    <3>7. Paid(r)'
      BY <2>4, <3>3, <3>4, <3>5, <3>6 DEF Paid, Is
    <3>8. ASSUME Headless, t = Driver PROVE Overdrawn(r)'
      BY <1>1, <2>2, <2>4, <2>5, <3>8 DEF Overdrawn, Completed, Is
    <3>9. Verified(r)'
      BY <1>1, <2>2, <2>4, <2>5, <3>8, VerifiedStays
    <3> QED BY <3>7, <3>9
  <2>7. ASSUME NEW s \in Step \ {r} PROVE Paid(s)' /\ Verified(s)'
    <3>1. Launched(s)' = Launched(s)
      BY <1>1 DEF Launched
    <3>2. Paying(s)' \subseteq Paying(s)
      BY <1>1, <2>2 DEF Paying
    <3>3. Paid(s)'
      BY <2>4, <3>1, <3>2, SpentFalls, PaidStays
    <3>4. ~Headless
      BY <1>1, OneStep
    <3> QED BY <3>3, <3>4 DEF Verified
  <2>8. \A s \in Step : Paid(s)' /\ Verified(s)'
    BY <2>6, <2>7
  <2> QED BY <1>1, <2>1, <2>5, <2>8, HandsOver
<1> QED BY <1>2, <1>3

-----------------------------------------------------------------------------
\* The loop of a headless run: a step to be verified that owes an attempt is under review
\* until the driver has seen that its worker has ended.

LEMMA LoopPays ==
  ASSUME IInv, IInv', BInv, NEW l \in Label \ Dispatching,
         pc[Driver] \in {"drain", "event", "pollFailure", "pollWorkers", "sync", "synced",
                         "unsynced", "looped", "tail"},
         pc' = [pc EXCEPT ![Driver] = l],
         \A u \in Thread \ {Driver} : at'[u] = at[u] /\ aim'[u] = aim[u] /\ job'[u] = job[u],
         UNCHANGED <<plan, btask, mailbox, task>>, Reported',
         \A s \in Step : Is(s, "Reviewing") /\ plan[s].verify /\ Owing(s) /\ Overdrawn(s) =>
           \/ pc[Driver] \notin Polling
           \/ l \in Polling /\ (l = "sync" => Over(plan[s].tracked))
  PROVE  BInv'
<1>1. /\ pc[Driver] \notin Prompting /\ pc[Driver] \notin Dispatching \cup {"review", "approval"}
      /\ Driver \in Thread /\ Driver # A /\ \A w \in Worker : w \in Thread \ {Driver}
      /\ Driver \notin Worker
  BY Threads DEF Prompting, Advancing, Dispatching
<1>2. Headless
  BY <1>1, PlanAssumption DEF BInv, Roles
<1>3. \A s \in Step : Is(s, "Reviewing") /\ plan[s].verify /\ Owing(s) =>
           \/ pc[Driver] \notin Polling
           \/ l \in Polling /\ (l = "sync" => Over(plan[s].tracked))
  BY <1>2 DEF BInv, Verified
<1>4. PlanTypeOK'
  BY DEF IInv, TypeOK
<1> QED BY <1>1, <1>2, <1>3, <1>4, Quiet

LEMMA DrainPays ==
  ASSUME IInv, IInv', BInv, Drain PROVE BInv'
<1>1. /\ pc[Driver] = "drain" /\ pc' = [pc EXCEPT ![Driver] = "event"]
      /\ inbox' = queue /\ queue' = << >> /\ job' = [job EXCEPT ![Driver] = "event"]
      /\ UNCHANGED <<plan, btask, mailbox, task, at, aim>>
  BY DEF Drain, planVars
<1>2. Reported'
  <2>1. DOMAIN queue' = {}
    BY <1>1
  <2> QED BY <1>1, <2>1 DEF BInv, Reported
<1>3. \A u \in Thread \ {Driver} : at'[u] = at[u] /\ aim'[u] = aim[u] /\ job'[u] = job[u]
  BY <1>1 DEF IInv, TypeOK, ThreadTypeOK
<1>4. "event" \in Label \ Dispatching /\ "event" \in Polling /\ "event" # "sync"
  BY DEF Label, Dispatching, Polling
<1> QED BY <1>1, <1>2, <1>3, <1>4, LoopPays

LEMMA DriverPays ==
  ASSUME IInv, IInv', BInv,
         PollStage \/ PollFailure \/ PollWorkers \/ Synced \/ Looped \/ LoopTail \/ Deadline
  PROVE  BInv'
<1>1. /\ UNCHANGED <<plan, btask, mailbox, task, queue, inbox, at, aim>>
      /\ \A u \in Thread \ {Driver} : job'[u] = job[u]
  BY DEF PollStage, PollFailure, PollWorkers, Synced, Looped, LoopTail, Deadline, Go,
     planVars, taskVars, IInv, TypeOK, ThreadTypeOK
<1>2. Reported'
  BY <1>1, ReportedStays DEF IInv, BInv
<1>3. \A u \in Thread \ {Driver} : at'[u] = at[u] /\ aim'[u] = aim[u] /\ job'[u] = job[u]
  BY <1>1
<1>4. CASE PollStage \/ Deadline
  <2>1. PICK l \in {"done", "pollFailure"} : pc' = [pc EXCEPT ![Driver] = l]
    BY <1>4 DEF PollStage, Deadline, Go
  <2>2. pc[Driver] \in {"event", "drain"}
    BY <1>4 DEF PollStage, Deadline
  <2>3. l \in Label \ Dispatching /\ l \in Polling /\ l # "sync"
    BY DEF Label, Dispatching, Polling
  <2> QED BY <1>1, <1>2, <1>3, <2>1, <2>2, <2>3, LoopPays
<1>5. CASE PollFailure
  <2>1. PICK l \in {"advance", "pollWorkers"} : /\ pc' = [pc EXCEPT ![Driver] = l]
                                                /\ l = "advance" => SomeFailed
    BY <1>5 DEF PollFailure
  <2>2. pc[Driver] = "pollFailure"
    BY <1>5 DEF PollFailure
  <2>3. l \in Label \ Dispatching /\ "pollWorkers" \in Polling /\ l # "sync"
    BY DEF Label, Dispatching, Polling
  <2>4. ~Headless => pc[Driver] \in Prompting
    BY DEF BInv, Roles
  <2>5. Headless
    BY <2>2, <2>4, PlanAssumption DEF Prompting, Advancing, Dispatching
  <2>6. ASSUME NEW s \in Step, Is(s, "Reviewing") PROVE l \in Polling
    <3>1. ~SomeFailed
      BY <2>5, <2>6, OneStep DEF SomeFailed, Is
    <3> QED BY <2>1, <2>3, <3>1
  <2> QED BY <1>1, <1>2, <1>3, <2>1, <2>2, <2>3, <2>6, LoopPays
<1>6. CASE PollWorkers
  <2>1. PICK l \in {"sync", "drain"} :
          /\ pc' = [pc EXCEPT ![Driver] = l]
          /\ l = "sync" => Over(btask) \/ Over(CurrentWorker)
    BY <1>6 DEF PollWorkers, Go
  <2>2. pc[Driver] = "pollWorkers"
    BY <1>6 DEF PollWorkers
  <2>3. l \in Label \ Dispatching /\ l \in Polling /\ pc[Driver] \notin Dispatching
    BY <2>2 DEF Label, Dispatching, Polling
  <2>4. ~Headless => pc[Driver] \in Prompting
    BY DEF BInv, Roles
  <2>5. Headless
    BY <2>2, <2>4, PlanAssumption DEF Prompting, Advancing, Dispatching
  <2>6. ASSUME NEW s \in Step, Overdrawn(s), l = "sync" PROVE Over(plan[s].tracked)
    <3>1. plan[s].tracked = btask
      BY <2>3, <2>6 DEF Overdrawn
    <3>2. current \in Step => current = s
      BY <2>5, OneStep
    <3>3. current \in Step \cup {None} /\ ~Over(None)
      BY DEF IInv, TypeOK, PlanTypeOK, Over
    <3>4. Over(CurrentWorker) => Over(plan[s].tracked)
      BY <3>2, <3>3 DEF CurrentWorker
    <3> QED BY <2>1, <2>6, <3>1, <3>4
  <2> QED BY <1>1, <1>2, <1>3, <2>1, <2>2, <2>3, <2>6, LoopPays
<1>7. CASE Synced \/ Looped \/ LoopTail
  <2>1. PICK l \in {"advance", "done", "tail", "drain"} : pc' = [pc EXCEPT ![Driver] = l]
    BY <1>7 DEF Synced, Looped, LoopTail, Go
  <2>2. pc[Driver] \in {"synced", "unsynced", "looped", "tail"}
    BY <1>7 DEF Synced, Looped, LoopTail
  <2>3. l \in Label \ Dispatching /\ pc[Driver] \notin Polling
    BY <2>2 DEF Label, Dispatching, Polling
  <2> QED BY <1>1, <1>2, <1>3, <2>1, <2>2, <2>3, LoopPays
<1> QED BY <1>4, <1>5, <1>6, <1>7

\* What is under review and owes has a worker that has ended, which the driver finds.
LEMMA SyncPays ==
  ASSUME IInv, IInv', BInv, Sync PROVE BInv'
<1> DEFINE o == IF current \in Overdue THEN current ELSE First(Overdue)
           l == IF o = None THEN "synced" ELSE "synth"
<1>1. /\ pc[Driver] = "sync" /\ pc' = [pc EXCEPT ![Driver] = l]
      /\ at' = [at EXCEPT ![Driver] = o]
      /\ aim' = [aim EXCEPT ![Driver] = IF o = None THEN None ELSE plan[o].tracked]
      /\ job' = [job EXCEPT ![Driver] = "sync"]
      /\ UNCHANGED <<plan, btask, mailbox, task, queue, inbox>>
  BY DEF Sync, planVars, taskVars
<1>2. ASSUME NEW s \in Step, Is(s, "Reviewing"), Overdrawn(s) PROVE l \in Polling
  <2>1. s \in Overdue
    BY <1>1, <1>2 DEF Overdrawn, Overdue, Is
  <2>2. Overdue \in SUBSET Step /\ Step \in SUBSET Nat
    BY PlanAssumption DEF Overdue, Step
  <2>3. First(Overdue) \in Overdue
    BY <2>1, <2>2, FirstOf
  <2>4. o # None
    BY <2>2, <2>3, Threads
  <2> QED BY <2>4 DEF Polling
<1>3. l \in Label \ Dispatching /\ l # "sync"
  BY DEF Label, Dispatching
<1> HIDE DEF o, l
<1>4. \A u \in Thread \ {Driver} : at'[u] = at[u] /\ aim'[u] = aim[u] /\ job'[u] = job[u]
  BY <1>1 DEF IInv, TypeOK, ThreadTypeOK
<1>5. Reported'
  BY <1>1, ReportedStays DEF IInv, BInv
<1> QED BY <1>1, <1>2, <1>3, <1>4, <1>5, LoopPays

-----------------------------------------------------------------------------
LEMMA InitPays == Init => BInv
<1> SUFFICES ASSUME Init PROVE BInv
  OBVIOUS
<1>1. /\ pc = [t \in Thread |-> IF t # Driver THEN "idle"
                               ELSE IF Headless THEN "advance" ELSE "prompt"]
      /\ job = [t \in Thread |-> CASE t = Driver -> "start" [] t = A -> "review"
                                   [] OTHER -> "notify"]
  BY DEF Init
<1>2. Roles
  BY <1>1, Threads, PlanAssumption DEF Roles, Notifying, Prompting, Advancing
<1>3. DOMAIN mailbox = {} /\ DOMAIN queue = {} /\ DOMAIN inbox = {}
  BY DEF Init
<1>4. Posted /\ Reported
  BY <1>3 DEF Posted, Reported
<1>5. ASSUME NEW s \in Step PROVE Paid(s) /\ Verified(s)
  <2>1. /\ plan[s].status = "Pending" /\ plan[s].attempts = 0 /\ ~plan[s].verify
    BY DEF Init
  <2>2. Launched(s) = {}
    BY Threads DEF Init, Launched
  <2>3. Paying(s) = {}
    BY <1>1 DEF Paying
  <2>4. Spent(s) = 0
    BY <2>2, <2>3, FS_EmptySet DEF Spent
  <2>5. Due(s) = 0
    BY <2>1, PlanAssumption DEF Due
  <2> QED BY <2>1, <2>4, <2>5 DEF Paid, Verified, Owing, Is
<1> QED BY <1>2, <1>4, <1>5 DEF BInv

LEMMA AdvancePays ==
  ASSUME IInv, IInv', BInv, NEW t \in Thread, Advance(t) \/ Handle(t) PROVE BInv'
<1>1. CASE Advance(t)
  BY <1>1, RoundPays, AdvanceStepPays, MarkPays, DispatchPays, ContinuePays, SpawnPays,
     DeniedPays, RecordBPays, RecordStepPays DEF Advance
<1>2. CASE Handle(t)
  BY <1>2, RoundPays, SetCurrentPays, AskPays DEF Handle
<1> QED BY <1>1, <1>2

LEMMA NextPays == IInv /\ IInv' /\ Busy /\ BInv /\ [Next]_vars => BInv'
<1> SUFFICES ASSUME IInv, IInv', Busy, BInv, [Next]_vars PROVE BInv'
  OBVIOUS
<1>1. ASSUME NEW t \in Thread, Advance(t) \/ Handle(t) PROVE BInv'
  BY <1>1, AdvancePays
<1>2. ASSUME NEW w \in Worker, Notified(w) PROVE BInv'
  BY <1>2, NotifiedPays
<1>3. ASSUME NEW w \in Worker, WorkerFansIn(w) PROVE BInv'
  BY <1>3, WorkerFansInPays
<1>4. ASSUME NEW w \in Worker, NEW o \in {"Completed", "Failed"}, WorkerEnds(w, o)
      PROVE  BInv'
  BY <1>4, WorkerEndsPays
<1>5. CASE Review
  BY <1>5, JudgedPays, AcceptedPays, AnswerPays, ApprovedPays DEF Review
<1>6. CASE Approve
  BY <1>6, ApprovePays
<1>7. CASE Drive
  BY <1>7, DrainPays, TakeEventPays, DriverPays, SyncPays, SyncEventPays DEF Drive
<1>8. CASE Deadline
  BY <1>8, DriverPays
<1>9. CASE UNCHANGED vars
  <2>1. UNCHANGED <<plan, btask, task, queue, inbox, mailbox, pc, job, at, aim>>
    BY <1>9 DEF vars, planVars, taskVars, threadVars
  <2>2. Roles' /\ Posted' /\ Reported'
    BY <2>1 DEF BInv, Roles, Posted, Reported
  <2>3. ASSUME NEW s \in Step PROVE Paid(s)' /\ Verified(s)'
    <3>1. Launched(s)' = Launched(s) /\ Paying(s)' = Paying(s)
      BY <2>1 DEF Launched, Paying
    <3>2. Spent(s)' = Spent(s)
      BY <3>1 DEF Spent
    <3>3. Due(s)' = Due(s) /\ Owing(s)' = Owing(s)
      BY <2>1, <3>2 DEF Owing, Due
    <3>4. Paid(s) /\ Verified(s)
      BY DEF BInv
    <3>5. Paid(s)'
      BY <2>1, <3>2, <3>3, <3>4 DEF Paid, Is
    <3>6. Verified(s)'
      BY <2>1, <3>3, <3>4 DEF Verified, Overdrawn, Completed, Is, Over
    <3> QED BY <3>5, <3>6
  <2> QED BY <2>2, <2>3 DEF BInv
<1> QED BY <1>1, <1>2, <1>3, <1>4, <1>5, <1>6, <1>7, <1>8, <1>9 DEF Next

\* No step gets more workers than its budget: each after the first is paid for with an
\* attempt, however many threads dispatch, and whoever counts the end of a worker that is
\* reported twice (on_task_event, on_notification, apply_review_verdict).
THEOREM BudgetIsKept == Spec => []WithinBudget
<1>1. Init => IInv /\ Busy /\ BInv
  BY InitInvariant, InitPays
<1>2. (IInv /\ Busy /\ BInv) /\ [Next]_vars => (IInv /\ Busy /\ BInv)'
  BY NextInvariant, BusyInvariant, NextPays
<1>3. IInv /\ BInv => WithinBudget
  <2> SUFFICES ASSUME IInv, BInv, NEW s \in Step
               PROVE  /\ Cardinality(Launched(s)) <= plan[s].attempts + 1
                      /\ Cardinality(Launched(s)) <= Budget
                      /\ Is(s, "Rejected") => plan[s].attempts < Budget
    BY DEF WithinBudget
  <2>1. /\ Paid(s) /\ plan[s].attempts \in Nat
        /\ Due(s) \in Nat /\ Due(s) < Budget /\ Due(s) <= plan[s].attempts
    BY DueIs DEF BInv, IInv, TypeOK
  <2>2. Cardinality(Launched(s)) <= Spent(s) /\ Cardinality(Launched(s)) \in Nat /\ Spent(s) \in Nat
    BY SpentType DEF Spent
  <2> QED BY <2>1, <2>2, PlanAssumption DEF Paid
<1> QED BY <1>1, <1>2, <1>3, PTL DEF Spec

-----------------------------------------------------------------------------
\* The plan keeps the promises of its ledger, step by step.

\* What the ledger says of the state.
Tried     == {s \in Step : given[s] # {}}
Workers   == [s \in Step |-> Cardinality(Launched(s))]
Attempts  == [s \in Step |-> plan[s].attempts]
DoneSteps == {s \in Step : Done(s)}
Kept      == <<Tried, Workers, Attempts, DoneSteps, accepted, stage = "Completed">>

\* A worker that was not launched has no step.
Blank == \A w \in Worker : task[w].state = "none" => task[w].step = None

\* One entry more on the ledger, or none.
Entry == \/ \E s \in Step : \/ Ledger!Launch(s) \/ Ledger!PassOn(s) \/ Ledger!Count(s)
                            \/ Ledger!Accept(s)
         \/ \E S \in SUBSET Step : Ledger!Do(S)
         \/ Ledger!Finish
         \/ UNCHANGED Kept

LEMMA AttemptsStay ==
  ASSUME \A s \in Step : plan'[s].attempts = plan[s].attempts
  PROVE  Attempts' = Attempts
  BY DEF Attempts

LEMMA WorkersStay ==
  ASSUME \A w \in Worker : task'[w].step = task[w].step
  PROVE  Workers' = Workers
<1>1. \A s \in Step : Launched(s)' = Launched(s)
  BY LaunchedStays
<1>2. \A s \in Step : Cardinality(Launched(s))' = Cardinality(Launched(s))
  BY <1>1
<1> QED BY <1>2 DEF Workers

\* Most steps are not on the ledger.
LEMMA Unnoticed ==
  ASSUME UNCHANGED <<given, accepted, task>>,
         (stage' = "Completed") = (stage = "Completed"),
         \A s \in Step : plan'[s].attempts = plan[s].attempts
  PROVE  Entry
<1>1. Attempts' = Attempts /\ Workers' = Workers
  BY AttemptsStay, WorkersStay
<1>2. Tried' = Tried /\ DoneSteps' = DoneSteps
  BY DEF Tried, DoneSteps, Done
<1> QED BY <1>1, <1>2 DEF Entry, Kept

\* An attempt more, of a step that was given a worker.
LEMMA Counts ==
  ASSUME IInv, NEW s \in Step, given[s] # {}, UNCHANGED <<given, accepted, task, stage>>,
         plan'[s].attempts = Attempted(s),
         \A r \in Step \ {s} : plan'[r] = plan[r]
  PROVE  Entry
<1>1. Workers' = Workers /\ Tried' = Tried /\ DoneSteps' = DoneSteps
  BY WorkersStay DEF Tried, DoneSteps, Done
<1>2. CASE plan'[s].attempts = plan[s].attempts
  BY <1>2, Unnoticed
<1>3. CASE plan[s].attempts < Budget /\ plan'[s].attempts = plan[s].attempts + 1
  <2>1. Attempts' = [Attempts EXCEPT ![s] = @ + 1]
    BY <1>3 DEF Attempts
  <2>2. s \in Tried /\ Attempts[s] < Budget
    BY <1>3 DEF Tried, Attempts
  <2>3. Ledger!Count(s)
    BY <1>1, <2>1, <2>2 DEF Ledger!Count, Tried, Attempts, Workers, DoneSteps, Done
  <2> QED BY <2>3 DEF Entry
<1> QED BY <1>2, <1>3, AttemptedIs

LEMMA HandledCounts ==
  ASSUME IInv, NEW t \in Thread, NEW s \in Step, NEW w \in Worker, given[s] # {},
         \/ HandleCompleted(t, s, w)
         \/ HandleFailedEvent(t, s, w)
         \/ HandleFailedNotification(t, s, w),
         UNCHANGED <<given, accepted, task, stage>>
  PROVE  Entry
<1>1. plan \in [Step -> StepRecord] /\ Attempted(s) \in 0 .. Budget
  BY AttemptedIs DEF IInv, TypeOK, PlanTypeOK
<1>2. ASSUME NEW st \in {"Reviewing", "Rejected", "Failed"}
      PROVE  /\ Unfinished(s, w, st) \in [Step -> StepRecord]
             /\ Unfinished(s, w, st)[s].attempts = plan[s].attempts
             /\ \A r \in Step \ {s} : Unfinished(s, w, st)[r] = plan[r]
  <2>1. /\ Unfinished(s, w, st) \in [Step -> StepRecord]
        /\ \A r \in Step \ {s} : Unfinished(s, w, st)[r] = plan[r]
    BY <1>1, UnfinishedIs
  <2>2. Unfinished(s, w, st)[s].attempts = plan[s].attempts
    BY <1>1 DEF Unfinished, StepRecord
  <2> QED BY <2>1, <2>2
<1>3. CASE HandleCompleted(t, s, w)
  <2>1. CASE Is(s, "Completed")
    <3>1. plan' = [plan EXCEPT ![s].tracked = w]
      BY <1>3, <2>1 DEF HandleCompleted, HandleOver
    <3>2. \A r \in Step : plan'[r].attempts = plan[r].attempts
      BY <1>1, <3>1 DEF StepRecord
    <3> QED BY <3>2, Unnoticed
  <2>2. CASE ~Is(s, "Completed")
    <3>1. plan' = Unfinished(s, w, "Reviewing")
      BY <1>3, <2>2 DEF HandleCompleted, Unfinished
    <3>2. \A r \in Step : plan'[r].attempts = plan[r].attempts
      BY <1>2, <3>1
    <3> QED BY <3>2, Unnoticed
  <2> QED BY <2>1, <2>2
<1>4. CASE HandleFailedNotification(t, s, w)
  <2>1. plan' = Unfinished(s, w, "Failed")
    BY <1>4 DEF HandleFailedNotification, HandleOver
  <2>2. \A r \in Step : plan'[r].attempts = plan[r].attempts
    BY <1>2, <2>1
  <2> QED BY <2>2, Unnoticed
<1>5. CASE HandleFailedEvent(t, s, w)
  <2>1. PICK st \in {"Rejected", "Failed"} :
          plan' = [Unfinished(s, w, st) EXCEPT ![s].attempts = Attempted(s)]
    BY <1>5 DEF HandleFailedEvent, HandleOver
  <2> DEFINE p == Unfinished(s, w, st)
  <2>2. p \in [Step -> StepRecord] /\ \A r \in Step \ {s} : p[r] = plan[r]
    BY <1>2
  <2>3. plan' = [p EXCEPT ![s].attempts = Attempted(s)]
    BY <2>1
  <2> HIDE DEF p
  <2>4. plan'[s].attempts = Attempted(s) /\ \A r \in Step \ {s} : plan'[r] = plan[r]
    BY <2>2, <2>3 DEF StepRecord
  <2> QED BY <2>4, Counts
<1> QED BY <1>3, <1>4, <1>5

\* A thread that advances the plan: a launch is paid for, and the plan is completed when
\* every step was accepted.
LEMMA SpawnEntry ==
  ASSUME IInv, BInv, Blank, NEW t \in Thread, Spawn(t) PROVE Entry
<1> DEFINE w == First({v \in Worker : task[v].state = "none"})
<1>1. w \in Worker /\ task[w].state = "none"
  <2>1. w \in {v \in Worker : task[v].state = "none"}
    BY FirstWorker DEF Spawn
  <2> QED BY <2>1
<1>2. /\ pc[t] = "launch" /\ aim[t] = None
      /\ task' = [task EXCEPT ![w].state = "live", ![w].step = at[t]]
      /\ given' = [given EXCEPT ![at[t]] = @ \cup {w}]
      /\ UNCHANGED <<plan, stage, accepted>>
  BY DEF Spawn
<1> HIDE DEF w
<1>3. PICK s \in Step : s = at[t]
  BY <1>2 DEF IInv, AtStep
<1>4. /\ given' = [given EXCEPT ![s] = @ \cup {w}]
      /\ task'[w].step = s /\ task'[w].state = "live"
      /\ \A v \in Worker \ {w} : task'[v] = task[v]
  BY <1>1, <1>2, <1>3 DEF IInv, TypeOK, TaskTypeOK
<1>5. /\ given'[s] = given[s] \cup {w}
      /\ \A r \in Step \ {s} : given'[r] = given[r]
      /\ \A r \in Step : given[r] \subseteq Worker
  BY <1>4 DEF IInv, TypeOK, PlanTypeOK
<1>6. Tried' = Tried \cup {s}
  BY <1>5 DEF Tried
<1>7. \A r \in Step : Done(r)' <=> Done(r)
  <2>1. \A v \in Worker : task'[v].state = "Completed" <=> task[v].state = "Completed"
    BY <1>1, <1>4
  <2>2. \A r \in Step : \A v \in given'[r] : v \in Worker /\ (v \in given[r] \/ v = w)
    BY <1>1, <1>5
  <2>3. \A r \in Step : given[r] \subseteq given'[r]
    BY <1>5
  <2> QED BY <1>4, <1>5, <2>1, <2>2, <2>3 DEF Done
<1>8. DoneSteps' = DoneSteps
  BY <1>7 DEF DoneSteps
<1>9. Attempts' = Attempts
  BY <1>2, AttemptsStay
<1>10. task[w].step = None
  BY <1>1 DEF Blank
<1>11. /\ Launched(s)' = Launched(s) \cup {w} /\ w \notin Launched(s)
       /\ \A r \in Step \ {s} : Launched(r)' = Launched(r)
  <2>1. \A r \in Step : w \notin Launched(r)
    BY <1>10, Threads DEF Launched
  <2>2. \A r \in Step \ {s} : Launched(r)' = Launched(r)
    BY <1>4, <2>1 DEF Launched
  <2>3. Launched(s)' = Launched(s) \cup {w}
    BY <1>1, <1>4 DEF Launched
  <2> QED BY <2>1, <2>2, <2>3
<1>12. /\ Cardinality(Launched(s))' = Cardinality(Launched(s)) + 1
       /\ \A r \in Step \ {s} : Cardinality(Launched(r))' = Cardinality(Launched(r))
  <2>1. IsFiniteSet(Launched(s))
    BY SpentType
  <2>2. Cardinality(Launched(s) \cup {w}) = Cardinality(Launched(s)) + 1
    BY <1>11, <2>1, FS_AddElement
  <2> QED BY <1>11, <2>2
<1>13. Workers' = [Workers EXCEPT ![s] = @ + 1]
  BY <1>12 DEF Workers
<1>14. Workers[s] <= Attempts[s] /\ Workers[s] < Budget
  <2>1. t \in Paying(s)
    BY <1>2, <1>3 DEF Paying
  <2>2. Cardinality(Paying(s)) >= 1 /\ Cardinality(Paying(s)) \in Nat
    BY <2>1, SpentType, FS_EmptySet
  <2>3. Paid(s) /\ Due(s) \in Nat /\ Due(s) < Budget /\ Due(s) <= plan[s].attempts
        /\ plan[s].attempts \in Nat
    BY DueIs DEF BInv, IInv, TypeOK
  <2>4. Cardinality(Launched(s)) \in Nat
    BY SpentType
  <2>5. Cardinality(Launched(s)) <= Due(s)
    BY <2>2, <2>3, <2>4 DEF Paid, Spent
  <2> QED BY <2>3, <2>4, <2>5, PlanAssumption DEF Workers, Attempts
<1>15. Ledger!Launch(s)
  BY <1>2, <1>6, <1>8, <1>9, <1>13, <1>14
     DEF Ledger!Launch, Tried, Attempts, Workers, DoneSteps, Done
<1> QED BY <1>15 DEF Entry

LEMMA ContinueEntry ==
  ASSUME IInv, NEW t \in Thread, Continue(t) PROVE Entry
<1>1. /\ pc[t] = "launch" /\ UNCHANGED <<plan, stage, task, accepted>>
  BY DEF Continue, taskVars
<1>2. PICK s \in Step : s = at[t]
  BY <1>1 DEF IInv, AtStep
<1>3. CASE Live(aim[t])
  <2>1. given' = [given EXCEPT ![s] = @ \cup {aim[t]}] /\ task[aim[t]].state = "live"
    BY <1>2, <1>3 DEF Continue, Live
  <2>2. /\ given'[s] = given[s] \cup {aim[t]}
        /\ \A r \in Step \ {s} : given'[r] = given[r]
    BY <2>1 DEF IInv, TypeOK, PlanTypeOK
  <2>3. Tried' = Tried \cup {s}
    BY <2>2 DEF Tried
  <2>4. \A r \in Step : Done(r)' <=> Done(r)
    BY <1>1, <2>1, <2>2 DEF Done
  <2>5. DoneSteps' = DoneSteps
    BY <2>4 DEF DoneSteps
  <2>6. Attempts' = Attempts /\ Workers' = Workers
    BY <1>1, AttemptsStay, WorkersStay
  <2>7. Ledger!PassOn(s)
    BY <1>1, <2>3, <2>5, <2>6 DEF Ledger!PassOn, Tried, Attempts, Workers, DoneSteps, Done
  <2> QED BY <2>7 DEF Entry
<1>4. CASE ~Live(aim[t])
  BY <1>1, <1>4, Unnoticed DEF Continue
<1> QED BY <1>3, <1>4

LEMMA FinishEntry ==
  ASSUME IInv, NEW t \in Thread, Finish(t) PROVE Entry
<1>1. /\ pc[t] = "finish" /\ stage' = "Completed"
      /\ UNCHANGED <<plan, given, accepted, task>>
  BY DEF Finish, taskVars, histVars
<1>2. Attempts' = Attempts /\ Workers' = Workers
  BY <1>1, AttemptsStay, WorkersStay
<1>3. Tried' = Tried /\ DoneSteps' = DoneSteps
  BY <1>1 DEF Tried, DoneSteps, Done
<1>4. accepted = Step
  BY <1>1 DEF IInv, Finished
<1>5. Ledger!Finish
  BY <1>1, <1>2, <1>3, <1>4 DEF Ledger!Finish, Tried, Attempts, Workers, DoneSteps, Done
<1> QED BY <1>5 DEF Entry

LEMMA AdvanceEntry ==
  ASSUME IInv, BInv, Blank, NEW t \in Thread, Advance(t) PROVE Entry
<1>1. CASE Spawn(t)
  BY <1>1, SpawnEntry
<1>2. CASE Continue(t)
  BY <1>2, ContinueEntry
<1>3. CASE Finish(t)
  BY <1>3, FinishEntry
<1>4. plan \in [Step -> StepRecord]
  BY DEF IInv, TypeOK, PlanTypeOK
<1>5. CASE Halt(t) \/ GiveUp(t)
  BY <1>5, Unnoticed DEF Halt, GiveUp, taskVars, histVars
<1>6. CASE AdvanceStep(t)
  <2>1. plan' = plan \/ plan' = [plan EXCEPT ![Runnable].status = "Running"]
    BY <1>6 DEF AdvanceStep
  <2>2. \A s \in Step : plan'[s].attempts = plan[s].attempts
    BY <1>4, <2>1 DEF StepRecord
  <2> QED BY <1>6, <2>2, Unnoticed DEF AdvanceStep, taskVars, histVars
<1>7. CASE Barrier(t)
  <2>1. plan' = [plan EXCEPT ![at[t]].status = "WaitingForApproval"]
    BY <1>7 DEF Barrier
  <2>2. \A s \in Step : plan'[s].attempts = plan[s].attempts
    BY <1>4, <2>1 DEF StepRecord
  <2> QED BY <1>7, <2>2, Unnoticed DEF Barrier, taskVars, histVars
<1>8. CASE RecordStep(t)
  <2>1. plan' = [plan EXCEPT ![at[t]].tracked = aim[t]]
    BY <1>8 DEF RecordStep
  <2>2. \A s \in Step : plan'[s].attempts = plan[s].attempts
    BY <1>4, <2>1 DEF StepRecord
  <2> QED BY <1>8, <2>2, Unnoticed DEF RecordStep, taskVars, histVars
<1>9. CASE Blocked(t)
  <2> DEFINE p == [plan EXCEPT ![at[t]].status = "Failed"]
  <2>1. plan' = [p EXCEPT ![at[t]].completed = FALSE]
    BY <1>9 DEF Blocked
  <2>2. p \in [Step -> StepRecord] /\ \A s \in Step : p[s].attempts = plan[s].attempts
    <3>1. p \in [Step -> StepRecord]
      BY <1>4, FieldType
    <3>2. \A s \in Step : p[s].attempts = plan[s].attempts
      BY <1>4, SMTT(30) DEF StepRecord
    <3> QED BY <3>1, <3>2
  <2> HIDE DEF p
  <2>3. \A s \in Step : plan'[s].attempts = plan[s].attempts
    BY <2>1, <2>2 DEF StepRecord
  <2> QED BY <1>9, <2>3, Unnoticed DEF Blocked, taskVars, histVars
<1>10. CASE AdvanceDone(t) \/ AdvanceHalt(t) \/ AdvanceBusy(t) \/ AdvanceReplan(t)
            \/ Point(t) \/ Complete(t) \/ Again(t) \/ Dispatch(t) \/ Denied(t) \/ RecordB(t)
  BY <1>10, Unnoticed DEF AdvanceDone, AdvanceHalt, AdvanceBusy, AdvanceReplan, Point,
     Complete, Again, Dispatch, Denied, RecordB, planVars, taskVars, histVars
<1> QED BY <1>1, <1>2, <1>3, <1>5, <1>6, <1>7, <1>8, <1>9, <1>10 DEF Advance

\* A worker that completes has done what it was given, which may be several steps.
LEMMA WorkerEndsEntry ==
  ASSUME IInv, NEW w \in Worker, NEW o \in {"Completed", "Failed"}, WorkerEnds(w, o)
  PROVE  Entry
<1>1. /\ task[w].state = "live" /\ task' = [task EXCEPT ![w].state = o]
      /\ UNCHANGED <<plan, stage, accepted, given>>
  BY DEF WorkerEnds, Live, planVars, histVars
<1>2. /\ task'[w].state = o /\ \A v \in Worker \ {w} : task'[v].state = task[v].state
      /\ \A v \in Worker : task'[v].step = task[v].step
  BY <1>1 DEF IInv, TypeOK, TaskTypeOK
<1>3. Attempts' = Attempts /\ Workers' = Workers /\ Tried' = Tried
  BY <1>1, <1>2, AttemptsStay, WorkersStay DEF Tried
<1>4. \A s \in Step : given[s] \subseteq Worker
  BY DEF IInv, TypeOK, PlanTypeOK
<1>5. CASE o = "Completed"
  <2>0. PICK S \in SUBSET Step : S = {s \in Step : w \in given[s]}
    OBVIOUS
  <2>1. \A s \in Step : Done(s)' <=> Done(s) \/ s \in S
    BY <1>1, <1>2, <1>4, <1>5, <2>0 DEF Done
  <2>2. DoneSteps' = DoneSteps \cup S
    BY <2>1 DEF DoneSteps
  <2>3. S \subseteq Tried
    BY <2>0 DEF Tried
  <2>4. Ledger!Do(S)
    BY <1>1, <1>3, <2>2, <2>3 DEF Ledger!Do, Tried, Attempts, Workers, DoneSteps, Done
  <2> QED BY <2>4 DEF Entry
<1>6. CASE o = "Failed"
  <2>1. \A s \in Step : Done(s)' <=> Done(s)
    BY <1>1, <1>2, <1>4, <1>6 DEF Done
  <2>2. DoneSteps' = DoneSteps
    BY <2>1 DEF DoneSteps
  <2> QED BY <1>1, <1>3, <2>2 DEF Entry, Kept
<1> QED BY <1>5, <1>6

LEMMA WorkerFansInEntry ==
  ASSUME IInv, NEW w \in Worker, WorkerFansIn(w) PROVE Entry
<1>1. /\ task' = [task EXCEPT ![w].fanin = TRUE]
      /\ UNCHANGED <<plan, stage, accepted, given>>
  BY DEF WorkerFansIn, planVars, histVars
<1>2. \A v \in Worker : task'[v].step = task[v].step /\ task'[v].state = task[v].state
  BY <1>1 DEF IInv, TypeOK, TaskTypeOK
<1>3. Attempts' = Attempts /\ Workers' = Workers /\ Tried' = Tried
  BY <1>1, <1>2, AttemptsStay, WorkersStay DEF Tried
<1>4. \A s \in Step : given[s] \subseteq Worker
  BY DEF IInv, TypeOK, PlanTypeOK
<1>5. \A s \in Step : Done(s)' <=> Done(s)
  BY <1>1, <1>2, <1>4 DEF Done
<1>6. DoneSteps' = DoneSteps
  BY <1>5 DEF DoneSteps
<1> QED BY <1>1, <1>3, <1>6 DEF Entry, Kept

LEMMA NotifiedEntry ==
  ASSUME IInv, NEW w \in Worker, Notified(w) PROVE Entry
<1>1. /\ UNCHANGED <<given, accepted, task, stage>> /\ w \in Thread
      /\ \/ task[w].state = "Completed" /\ HandleCompleted(w, task[w].step, w)
         \/ HandleFailedNotification(w, task[w].step, w)
  BY Threads DEF Notified, taskVars, histVars
<1>2. CASE task[w].step \in Step
  <2>1. given[task[w].step] # {}
    BY <1>2, Threads, RecordType
  <2> QED BY <1>1, <1>2, <2>1, HandledCounts
<1>3. CASE task[w].step \notin Step
  <2>1. plan' = Unfinished(task[w].step, w, "Failed")
    BY <1>1, <1>3, RecordType DEF HandleFailedNotification, HandleOver
  <2>2. \A r \in Step : plan'[r] = plan[r]
    BY <1>3, <2>1, UnfinishedIs DEF IInv, TypeOK, PlanTypeOK
  <2> QED BY <1>1, <2>2, Unnoticed
<1> QED BY <1>2, <1>3

LEMMA TakeEventEntry ==
  ASSUME IInv, BInv, TakeEvent PROVE Entry
<1> DEFINE w == Head(inbox).task
           o == First({r \in Step : plan[r].tracked = w})
<1>1. /\ inbox # << >> /\ Driver \in Thread
      /\ UNCHANGED <<given, accepted, task, stage>>
      /\ \/ HandleEvent(task[w].step, w)
         \/ plan' = IF o = None THEN plan ELSE [plan EXCEPT ![o].status = "Reviewing"]
  BY Threads DEF TakeEvent, taskVars, histVars
<1>2. w \in Worker /\ task[w].step \in Step
  BY <1>1, InboxType
<1>3. given[task[w].step] # {}
  BY <1>2, Threads, RecordType
<1> HIDE DEF w, o
<1>4. CASE HandleEvent(task[w].step, w)
  BY <1>1, <1>2, <1>3, <1>4, HandledCounts DEF HandleEvent
<1>5. CASE plan' = IF o = None THEN plan ELSE [plan EXCEPT ![o].status = "Reviewing"]
  <2>1. \A s \in Step : plan'[s].attempts = plan[s].attempts
    BY <1>5 DEF IInv, TypeOK, PlanTypeOK, StepRecord
  <2> QED BY <1>1, <2>1, Unnoticed
<1> QED BY <1>1, <1>4, <1>5

LEMMA SyncEventEntry ==
  ASSUME IInv, SyncEvent PROVE Entry
<1>1. /\ pc[Driver] = "synth" /\ HandleEvent(at[Driver], aim[Driver])
      /\ UNCHANGED <<given, accepted, task, stage>> /\ Driver \in Thread
  BY Threads DEF SyncEvent, taskVars, histVars
<1>2. /\ at[Driver] \in Step /\ aim[Driver] \in Worker /\ given[at[Driver]] # {}
  BY <1>1, Threads DEF IInv, AtStep, TypeOK, PlanTypeOK
<1> QED BY <1>1, <1>2, HandledCounts DEF HandleEvent

\* A accepts what was done, and counts attempts of what was given a worker.
LEMMA ReviewEntry ==
  ASSUME IInv, Review PROVE Entry
<1>0. plan \in [Step -> StepRecord]
  BY DEF IInv, TypeOK, PlanTypeOK
<1>1. CASE JudgeAccept
  <2>1. Judged \in Step /\ Done(Judged)
    BY <1>1, JudgedIs
  <2> DEFINE q == [plan EXCEPT ![Judged].status = "Completed"]
             p == [q EXCEPT ![Judged].completed = TRUE]
  <2>2. plan' = [p EXCEPT ![Judged].verify = FALSE]
    BY <1>1 DEF JudgeAccept
  <2>3. p \in [Step -> StepRecord] /\ \A s \in Step : p[s].attempts = plan[s].attempts
    <3>1. q \in [Step -> StepRecord] /\ \A s \in Step : q[s].attempts = plan[s].attempts
      <4>1. q \in [Step -> StepRecord]
        BY <1>0, FieldType
      <4>2. \A s \in Step : q[s].attempts = plan[s].attempts
        BY <1>0, SMTT(30) DEF StepRecord
      <4> QED BY <4>1, <4>2
    <3> HIDE DEF q
    <3>2. p \in [Step -> StepRecord]
      BY <3>1, FieldType
    <3>3. \A s \in Step : p[s].attempts = q[s].attempts
      BY <3>1, SMTT(30) DEF StepRecord
    <3> QED BY <3>1, <3>2, <3>3
  <2> HIDE DEF p
  <2>4. \A s \in Step : plan'[s].attempts = plan[s].attempts
    BY <2>2, <2>3 DEF StepRecord
  <2>5. /\ accepted' = accepted \cup {Judged} /\ UNCHANGED <<stage, given, task>>
    BY <1>1 DEF JudgeAccept, taskVars
  <2>6. Attempts' = Attempts /\ Workers' = Workers /\ Tried' = Tried /\ DoneSteps' = DoneSteps
    BY <2>4, <2>5, AttemptsStay, WorkersStay DEF Tried, DoneSteps, Done
  <2>7. Ledger!Accept(Judged)
    BY <2>1, <2>5, <2>6 DEF Ledger!Accept, Tried, Attempts, Workers, DoneSteps, Done
  <2> QED BY <2>1, <2>7 DEF Entry
<1>2. CASE JudgeReplan
  <2> DEFINE p == [plan EXCEPT ![Judged].status = "ReplanRequired"]
  <2>1. plan' = [p EXCEPT ![Judged].verify = FALSE]
    BY <1>2 DEF JudgeReplan
  <2>2. p \in [Step -> StepRecord] /\ \A s \in Step : p[s].attempts = plan[s].attempts
    <3>1. p \in [Step -> StepRecord]
      BY <1>0, FieldType
    <3>2. \A s \in Step : p[s].attempts = plan[s].attempts
      BY <1>0, SMTT(30) DEF StepRecord
    <3> QED BY <3>1, <3>2
  <2> HIDE DEF p
  <2>3. \A s \in Step : plan'[s].attempts = plan[s].attempts
    BY <2>1, <2>2 DEF StepRecord
  <2> QED BY <1>2, <2>3, Unnoticed DEF JudgeReplan, taskVars, histVars
<1>3. CASE JudgeCorrect
  <2>1. /\ Judged \in Step /\ given[Judged] # {}
        /\ \A r \in Step \ {Judged} : plan'[r] = plan[r]
        /\ plan'[Judged].attempts \in {plan[Judged].attempts, Attempted(Judged)}
    BY <1>3, JudgedIs DEF Done
  <2>2. UNCHANGED <<given, accepted, task, stage>>
    BY <1>3 DEF JudgeCorrect, taskVars, histVars
  <2>3. CASE plan'[Judged].attempts = plan[Judged].attempts
    <3>1. \A r \in Step : plan'[r].attempts = plan[r].attempts
      BY <2>1, <2>3
    <3> QED BY <2>2, <3>1, Unnoticed
  <2>4. CASE plan'[Judged].attempts = Attempted(Judged)
    <3>1. PICK s \in Step : s = Judged
      BY <2>1
    <3> QED BY <2>1, <2>2, <2>4, <3>1, Counts
  <2> QED BY <2>1, <2>3, <2>4
<1>4. CASE Accepted \/ Answer \/ Approved
  BY <1>4, Unnoticed DEF Accepted, Answer, Approved, planVars, taskVars, histVars
<1> QED BY <1>1, <1>2, <1>3, <1>4 DEF Review

LEMMA NextEntry ==
  ASSUME IInv, BInv, Blank, [Next]_vars PROVE Entry
<1>1. ASSUME NEW t \in Thread, Advance(t) PROVE Entry
  BY <1>1, AdvanceEntry
<1>2. ASSUME NEW t \in Thread, Handle(t) PROVE Entry
  BY <1>2, Unnoticed DEF Handle, AutoAdvance, SetCurrent, Ask, planVars, taskVars, histVars
<1>3. ASSUME NEW w \in Worker,
             Notified(w) \/ WorkerFansIn(w) \/ \E o \in {"Completed", "Failed"} : WorkerEnds(w, o)
      PROVE  Entry
  BY <1>3, NotifiedEntry, WorkerFansInEntry, WorkerEndsEntry
<1>4. CASE Review
  BY <1>4, ReviewEntry
<1>5. CASE TakeEvent \/ SyncEvent
  BY <1>5, TakeEventEntry, SyncEventEntry
<1>6. CASE \/ Approve \/ Deadline \/ Drain \/ PollStage \/ PollFailure \/ PollWorkers \/ Sync
           \/ Synced \/ Looped \/ LoopTail
  BY <1>6, Unnoticed DEF Approve, Deadline, Drain, PollStage, PollFailure, PollWorkers, Sync,
     Synced, Looped, LoopTail, planVars, taskVars, histVars
<1>7. CASE UNCHANGED vars
  BY <1>7, Unnoticed DEF vars, planVars, taskVars, histVars
<1> QED BY <1>1, <1>2, <1>3, <1>4, <1>5, <1>6, <1>7 DEF Next, Drive

LEMMA BlankStays == IInv /\ Blank /\ [Next]_vars => Blank'
<1> SUFFICES ASSUME IInv, Blank, [Next]_vars PROVE Blank'
  OBVIOUS
<1>0. DOMAIN task = Worker
  BY DEF IInv, TypeOK, TaskTypeOK
<1>1. ASSUME NEW w \in Worker,
             \A v \in Worker \ {w} : task'[v] = task[v], task'[w].state # "none"
      PROVE  Blank'
  BY <1>1 DEF Blank
<1>2. ASSUME NEW t \in Thread, Spawn(t) PROVE Blank'
  <2> DEFINE w == First({v \in Worker : task[v].state = "none"})
  <2>1. w \in Worker
    BY <1>2, FirstWorker DEF Spawn
  <2>2. task' = [task EXCEPT ![w].state = "live", ![w].step = at[t]]
    BY <1>2 DEF Spawn
  <2> HIDE DEF w
  <2>3. task'[w].state = "live" /\ \A v \in Worker \ {w} : task'[v] = task[v]
    BY <2>1, <2>2 DEF IInv, TypeOK, TaskTypeOK
  <2> QED BY <1>1, <2>1, <2>3
<1>3. ASSUME NEW w \in Worker, NEW o \in {"Completed", "Failed"}, WorkerEnds(w, o)
      PROVE  Blank'
  <2>1. task'[w].state = o /\ \A v \in Worker \ {w} : task'[v] = task[v]
    BY <1>3 DEF WorkerEnds, IInv, TypeOK, TaskTypeOK
  <2> QED BY <1>1, <1>3, <2>1
<1>4. ASSUME NEW w \in Worker, WorkerFansIn(w) PROVE Blank'
  <2>1. task'[w].state # "none" /\ \A v \in Worker \ {w} : task'[v] = task[v]
    BY <1>4 DEF WorkerFansIn, IInv, TypeOK, TaskTypeOK
  <2> QED BY <1>1, <2>1
<1>5. CASE UNCHANGED task
  BY <1>5 DEF Blank
<1>6. ASSUME NEW t \in Thread, Advance(t), ~Spawn(t) PROVE UNCHANGED task
  BY <1>6 DEF Advance, AdvanceDone, AdvanceHalt, AdvanceBusy, AdvanceStep, AdvanceReplan,
     Barrier, Point, Complete, Finish, Halt, Again, Dispatch, Continue, Denied, RecordB,
     RecordStep, Blocked, GiveUp, taskVars
<1>7. ASSUME NEW t \in Thread, Handle(t) PROVE UNCHANGED task
  BY <1>7 DEF Handle, AutoAdvance, SetCurrent, Ask, taskVars
<1>8. ASSUME NEW w \in Worker, Notified(w) PROVE UNCHANGED task
  BY <1>8 DEF Notified, taskVars
<1>9. Review \/ Approve \/ Drive \/ Deadline \/ UNCHANGED vars => UNCHANGED task
  BY DEF Review, JudgeAccept, JudgeCorrect, JudgeReplan, Accepted, Answer, Approved, Approve,
     Drive, Drain, TakeEvent, PollStage, PollFailure, PollWorkers, Sync, SyncEvent, Synced,
     Looped, LoopTail, Deadline, vars, taskVars
<1> QED BY <1>2, <1>3, <1>4, <1>5, <1>6, <1>7, <1>8, <1>9 DEF Next

\* The execution of a plan keeps the promises of its ledger: it launches a worker only when
\* the step's other workers are paid for and the budget is not used up, counts attempts
\* only of steps that were given a worker, accepts only what was done, and completes the
\* plan, for good, when every step was accepted (advance_once, on_task_event,
\* on_notification, apply_review_verdict, transition_to).
THEOREM PlanKeepsLedger == Spec => LedgerSpec
<1>1. Init => IInv /\ Busy /\ BInv /\ Blank
  <2>1. Init => Blank
    BY DEF Init, Blank
  <2> QED BY <2>1, InitInvariant, InitPays
<1>2. (IInv /\ Busy /\ BInv /\ Blank) /\ [Next]_vars => (IInv /\ Busy /\ BInv /\ Blank)'
  BY NextInvariant, BusyInvariant, NextPays, BlankStays
<1>3. Init => Ledger!Init
  <2> SUFFICES ASSUME Init PROVE Ledger!Init
    OBVIOUS
  <2>1. /\ given = [s \in Step |-> {}] /\ accepted = {} /\ stage # "Completed"
        /\ \A s \in Step : plan[s].attempts = 0
        /\ \A w \in Worker : task[w].step = None
    BY DEF Init
  <2>2. \A s \in Step : Cardinality(Launched(s)) = 0
    <3>1. \A s \in Step : Launched(s) = {}
      BY <2>1, Threads DEF Launched
    <3> QED BY <3>1, FS_EmptySet
  <2> QED BY <2>1, <2>2 DEF Ledger!Init
<1>4. IInv /\ BInv /\ Blank /\ [Next]_vars => [Ledger!Next]_Kept
  <2> SUFFICES ASSUME IInv, BInv, Blank, [Next]_vars PROVE Ledger!Next \/ UNCHANGED Kept
    OBVIOUS
  <2>1. Entry
    BY NextEntry
  <2> QED BY <2>1 DEF Entry, Ledger!Next
<1>5. Kept = <<{s \in Step : given[s] # {}}, [s \in Step |-> Cardinality(Launched(s))],
               [s \in Step |-> plan[s].attempts],
               {s \in Step : \E w \in given[s] : task[w].state = "Completed"},
               accepted, stage = "Completed">>
  BY DEF Kept, Tried, Workers, Attempts, DoneSteps, Done
<1> QED BY <1>1, <1>2, <1>3, <1>4, PTL DEF Spec, LedgerSpec, Ledger!Spec, Kept, Tried, Workers,
           Attempts, DoneSteps, Done
=============================================================================
