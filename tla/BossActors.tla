------------------------------- MODULE BossActors -------------------------------
(* The two actors of the boss and how it is stopped: core/boss_actor_runtime.rs  *)
(* and BossCoordinator::stop (core/boss.rs).                                     *)
(*                                                                               *)
(* Designer A reviews, executor B launches workers.  Each is a loop that takes   *)
(* one command at a time from its mailbox; whoever asks waits for the answer.    *)
(* A's review callback advances the plan and so asks B from within A's handler.  *)
(* stop kills the worker it knows of, asks A and then B to stop, and kills what  *)
(* B has launched in the meantime.                                               *)
(*                                                                               *)
(* The plan is reduced to whether one of its steps is being carried out (busy):  *)
(* module BossPlan shows that its guards let one step run at a time.             *)
EXTENDS Naturals, Sequences

CONSTANTS
    Driver,         \* threads that advance the plan or ask for documents
    Stopper,        \* the control loop, which carries out /boss stop
    Designer,       \* A's own handler, as one who asks
    Nobody,
    Inline,         \* LisM: a step is run by whoever advances the plan
    MaxWorker       \* bound: the workers B may launch

Worker == 1 .. MaxWorker
Caller == Driver \cup Worker \cup {Stopper, Designer}   \* w: worker w's notifier

ASSUME ActorsAssumption ==
    /\ MaxWorker \in Nat /\ Inline \in BOOLEAN
    /\ Stopper # Designer /\ Nobody \notin Caller
    /\ Driver \cap (Worker \cup {Stopper, Designer}) = {}
    /\ Worker \cap {Stopper, Designer} = {}

VARIABLES
    actor,      \* A and B: mailbox, the caller served, how far, and its state
    caller,     \* what each caller asks and how far it is
    worker,     \* B's workers
    last,       \* session.executor_b.task_id, and who will write it again
    busy,       \* a step is dispatched, running or under review
    stop        \* how far stop is and the workers it has listed

vars == <<actor, caller, worker, last, busy, stop>>

Actor == {"A", "B"}
Command == {"none", "Dispatch", "Review", "Document", "Spec", "StopA", "StopB"}
To(cmd) == IF cmd \in {"Dispatch", "Spec", "StopB"} THEN "B" ELSE "A"
\* What advancing the plan asks for; a step run inline is done and asks for a review.
StepCommand == IF Inline THEN "Review" ELSE "Dispatch"

Idle == [pc |-> "idle", cmd |-> "none"]
Asking(cmd) == [pc |-> "asking", cmd |-> cmd]
\* task: the worker named; told: the worker a caller has launched and is about to
\* write down; late: ghost, one has been written over another.
Written == [task : Worker \cup {0}, told : [Caller -> Worker \cup {0}], late : BOOLEAN]
IsNext(w) == worker[w] = "none" /\ \A v \in 1 .. (w - 1) : worker[v] # "none"
IsNewest(w) == worker[w] # "none" /\ \A v \in (w + 1) .. MaxWorker : worker[v] = "none"
Live == {w \in Worker : worker[w] = "live"}

Init ==
    /\ actor = [a \in Actor |-> [box |-> << >>, serves |-> Nobody,
                                 inside |-> FALSE, state |-> "open"]]
    /\ caller = [c \in Caller |-> Idle]
    /\ worker = [w \in Worker |-> "none"]
    /\ last = [task |-> 0, told |-> [c \in Caller |-> 0], late |-> FALSE]
    /\ busy = FALSE
    /\ stop = [at |-> "no", listed |-> {}]

--------------------------------------------------------------------------------
(* Requests.  Everyone who asks waits, so that the sixteen places of a mailbox   *)
(* and those who wait for a place make one queue.                                *)

Boxed(a) == {actor[a].box[i] : i \in DOMAIN actor[a].box}
Serves(a, cmd) ==
    /\ actor[a].serves # Nobody
    /\ caller[actor[a].serves].cmd = cmd

\* A notifier asks once; stop turns to B when A has answered or cannot.
\* Mutant: stop does not turn to B.
AfterReplyNotB(c) ==
    IF c \in Worker THEN [Idle EXCEPT !.pc = "over"] ELSE Idle
AfterReply(c) ==
    IF c \in Worker THEN [Idle EXCEPT !.pc = "over"]
    ELSE IF caller[c].cmd = "StopA" THEN Asking("StopB") ELSE Idle

\* The callers in C have their answer.
Reply(C) == caller' = [c \in Caller |-> IF c \in C THEN AfterReply(c) ELSE caller[c]]

\* ... or an error, which marks the step they asked about as failed.
Fail(C) ==
    /\ Reply(C)
    /\ busy' = (busy /\ \A c \in C : caller[c].cmd \notin {"Dispatch", "Review"})

Enqueue(c) ==
    LET a == To(caller[c].cmd) IN
    /\ caller[c].pc = "asking" /\ actor[a].state # "closed"
    /\ actor' = [actor EXCEPT ![a].box = Append(@, c)]
    /\ caller' = [caller EXCEPT ![c].pc = "queued"]
    /\ UNCHANGED <<worker, last, busy, stop>>

Refused(c) ==
    /\ caller[c].pc = "asking" /\ actor[To(caller[c].cmd)].state = "closed"
    /\ Fail({c})
    /\ UNCHANGED <<actor, worker, last, stop>>

\* Whoever asked for the dispatch writes the worker down once more when it gets to
\* run again (record_step_dispatch_task_id).
WriteAgain(c) ==
    /\ last.told[c] # 0
    /\ last' = [task |-> last.told[c], told |-> [last.told EXCEPT ![c] = 0],
                late |-> last.late \/ last.told[c] # last.task]
    /\ UNCHANGED <<actor, caller, worker, busy, stop>>

Take(a) ==
    /\ actor[a].state = "open" /\ actor[a].serves = Nobody /\ actor[a].box # << >>
    /\ actor' = [actor EXCEPT ![a].serves = Head(actor[a].box), ![a].box = Tail(@)]
    /\ UNCHANGED <<caller, worker, last, busy, stop>>

Served(a) == [actor EXCEPT ![a].serves = Nobody, ![a].inside = FALSE]

--------------------------------------------------------------------------------
(* B's handler.                                                                  *)

\* The execution callback launches a worker ...
Launch ==
    /\ Serves("B", "Dispatch") /\ ~actor["B"].inside
    /\ \E w \in Worker : IsNext(w) /\ worker' = [worker EXCEPT ![w] = "live"]
    /\ actor' = [actor EXCEPT !["B"].inside = TRUE]
    /\ UNCHANGED <<caller, last, busy, stop>>

\* ... and then records it (record_b_session_id).
\* Mutant: the session keeps the first worker.
RecordFirst ==
    /\ Serves("B", "Dispatch") /\ actor["B"].inside
    /\ \E w \in Worker : IsNewest(w) /\ last' =
           [last EXCEPT !.task = IF @ = 0 THEN w ELSE @, !.told[actor["B"].serves] = w]
    /\ Reply({actor["B"].serves}) /\ actor' = Served("B")
    /\ UNCHANGED <<worker, busy, stop>>
Record ==
    /\ Serves("B", "Dispatch") /\ actor["B"].inside
    /\ \E w \in Worker : IsNewest(w) /\ last' =
           [last EXCEPT !.task = w, !.told[actor["B"].serves] = w]
    /\ Reply({actor["B"].serves}) /\ actor' = Served("B")
    /\ UNCHANGED <<worker, busy, stop>>

DispatchFails ==
    /\ Serves("B", "Dispatch") /\ ~actor["B"].inside
    /\ Fail({actor["B"].serves}) /\ actor' = Served("B")
    /\ UNCHANGED <<worker, last, stop>>

\* ReviewSpec of B; UserApproval and FinalizeDocumentation of A.
Consulted(a) ==
    /\ Serves(a, "Document") \/ Serves(a, "Spec")
    /\ Reply({actor[a].serves}) /\ actor' = Served(a)
    /\ UNCHANGED <<worker, last, busy, stop>>

--------------------------------------------------------------------------------
(* A's handler of a review.                                                      *)

\* Rejected, failed, or accepted with nothing left to do.
ReviewEnds ==
    /\ Serves("A", "Review") /\ ~actor["A"].inside
    /\ Reply({actor["A"].serves}) /\ actor' = Served("A") /\ busy' = FALSE
    /\ UNCHANGED <<worker, last, stop>>

\* Accepted: the callback advances the plan and asks for the next step.
ReviewAdvances ==
    /\ Serves("A", "Review") /\ ~actor["A"].inside
    /\ actor' = [actor EXCEPT !["A"].inside = TRUE]
    /\ caller' = [caller EXCEPT ![Designer] = Asking(StepCommand)]
    /\ UNCHANGED <<worker, last, busy, stop>>

ReviewReturns ==
    /\ Serves("A", "Review") /\ actor["A"].inside
    /\ caller[Designer].pc = "idle" /\ last.told[Designer] = 0
    /\ Reply({actor["A"].serves}) /\ actor' = Served("A")
    /\ UNCHANGED <<worker, last, busy, stop>>

--------------------------------------------------------------------------------
(* Stop of an actor: it answers, and its loop then ends.                         *)

StopAnswered(a) ==
    /\ Serves(a, "StopA") \/ Serves(a, "StopB")
    /\ Reply({actor[a].serves})
    /\ actor' = [actor EXCEPT ![a].serves = Nobody, ![a].state = "stopping"]
    /\ UNCHANGED <<worker, last, busy, stop>>

\* The receiver is dropped, and with it the commands in the mailbox.
\* Mutant: the flag is set, and the mailbox stays.
CloseKeeping(a) ==
    /\ actor[a].state = "stopping"
    /\ actor' = [actor EXCEPT ![a].state = "closed"]
    /\ UNCHANGED <<caller, worker, last, busy, stop>>
Close(a) ==
    /\ actor[a].state = "stopping"
    /\ Fail(Boxed(a))
    /\ actor' = [actor EXCEPT ![a].state = "closed", ![a].box = << >>]
    /\ UNCHANGED <<worker, last, stop>>

--------------------------------------------------------------------------------
(* stop.                                                                         *)

StopLists ==
    /\ stop.at \in {"no", "done"}
    /\ stop' = [at |-> "listed", listed |-> Live \cap {last.task}]
    /\ UNCHANGED <<actor, caller, worker, last, busy>>

Killed(W) == worker' = [w \in Worker |->
                            IF w \in W /\ worker[w] = "live" THEN "killed" ELSE worker[w]]

StopKills ==
    /\ stop.at = "listed"
    /\ Killed(stop.listed)
    /\ caller' = [caller EXCEPT ![Stopper] = Asking("StopA")]
    /\ stop' = [at |-> "asking", listed |-> {}]
    /\ UNCHANGED <<actor, last, busy>>

\* abort_a_b_sessions, once both actors have answered.
StopAborts ==
    /\ stop.at = "asking" /\ caller[Stopper].pc = "idle"
    /\ Killed({last.task})
    /\ stop' = [stop EXCEPT !.at = "done"]
    /\ UNCHANGED <<actor, caller, last, busy>>

--------------------------------------------------------------------------------
(* The threads around the actors.                                                *)

\* advance_plan takes the next step and asks for it.
Advance(d) ==
    /\ caller[d].pc = "idle" /\ last.told[d] = 0 /\ ~busy
    /\ busy' = TRUE
    /\ caller' = [caller EXCEPT ![d] = Asking(StepCommand)]
    /\ UNCHANGED <<actor, worker, last, stop>>

Consult(d) ==
    /\ caller[d].pc = "idle" /\ last.told[d] = 0
    /\ \E cmd \in {"Document", "Spec"} :
          caller' = [caller EXCEPT ![d] = Asking(cmd)]
    /\ UNCHANGED <<actor, worker, last, busy, stop>>

WorkerEnds(w) ==
    /\ worker[w] = "live"
    /\ worker' = [worker EXCEPT ![w] = "ended"]
    /\ UNCHANGED <<actor, caller, last, busy, stop>>

\* The notification of a worker's end asks for a review of its step ...
Notify(w) ==
    /\ worker[w] = "ended" /\ caller[w].pc = "idle"
    /\ caller' = [caller EXCEPT ![w] = Asking("Review")]
    /\ UNCHANGED <<actor, worker, last, busy, stop>>

\* ... and that of a killed worker fails the step, if its task names one.
NotifyKilled(w) ==
    /\ worker[w] = "killed" /\ caller[w].pc = "idle"
    /\ caller' = [caller EXCEPT ![w].pc = "over"]
    /\ busy' \in {busy, FALSE}
    /\ UNCHANGED <<actor, worker, last, stop>>

--------------------------------------------------------------------------------
HandleA == ReviewEnds \/ ReviewAdvances \/ ReviewReturns
HandleB == Launch \/ Record \/ DispatchFails
Loop(a) == Take(a) \/ Consulted(a) \/ StopAnswered(a) \/ Close(a)
Request(c) == Enqueue(c) \/ Refused(c) \/ WriteAgain(c)
Stopping == StopKills \/ StopAborts

Next ==
    \/ \E c \in Caller : Request(c)
    \/ \E a \in Actor : Loop(a)
    \/ HandleA \/ HandleB
    \/ StopLists \/ Stopping
    \/ \E d \in Driver : Advance(d) \/ Consult(d)
    \/ \E w \in Worker : WorkerEnds(w) \/ Notify(w) \/ NotifyKilled(w)

Spec == Init /\ [][Next]_vars

\* Tasks are scheduled and callbacks return; nobody need advance, consult or stop.
FairSpec ==
    /\ Spec
    /\ \A c \in Caller : WF_vars(Request(c))
    /\ \A a \in Actor : WF_vars(Loop(a))
    /\ WF_vars(HandleA) /\ WF_vars(HandleB) /\ WF_vars(Stopping)

--------------------------------------------------------------------------------
\* The records hold what their fields may hold, and a mailbox holds commands for
\* its actor whose callers wait for the answer.
TypeOK ==
    /\ actor \in [Actor -> [box : Seq(Caller), serves : Caller \cup {Nobody},
                            inside : BOOLEAN, state : {"open", "stopping", "closed"}]]
    /\ caller \in [Caller -> [pc : {"idle", "asking", "queued", "over"}, cmd : Command]]
    /\ worker \in [Worker -> {"none", "live", "ended", "killed"}]
    /\ last \in Written /\ busy \in BOOLEAN
    /\ stop \in [at : {"no", "listed", "asking", "done"}, listed : SUBSET Worker]
    /\ \A a \in Actor : \A c \in Boxed(a) : caller[c].pc = "queued" /\ To(caller[c].cmd) = a

\* A worker that runs is the one the session names, so that stop can kill it, or
\* is just being launched by B (build_exec_fn records it before B answers), as long
\* as nobody who asked for an earlier worker has written that one down since.
LiveIsRecorded ==
    \A w \in Live :
        last.late \/ w = last.task \/ (actor["B"].inside /\ IsNewest(w))

\* Once stop has returned, no worker of the boss runs and neither actor is at
\* work, although reviews and dispatches were under way when it was called - again
\* as long as no worker's name has been written over a later one's.
NothingAfterStop ==
    stop.at = "done" =>
        (Live = {} \/ last.late) /\ \A a \in Actor : actor[a].serves = Nobody /\ actor[a].state # "open"

\* Everyone who asks an actor is answered or told that it has gone.
RequestsReturn ==
    \A c \in Caller :
        (caller[c].pc \in {"asking", "queued"}) ~> (caller[c].pc \in {"idle", "over"})
================================================================================
