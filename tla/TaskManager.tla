---------------------------- MODULE TaskManager ----------------------------
(***************************************************************************)
(* The runtime task manager (src/src/task/manager.rs): worker tasks are    *)
(* created, configured and launched by the Agent and Bash tools, run as    *)
(* spawned futures, and are finished by whoever gets there first: the      *)
(* future itself (complete, fail) or a killer thread (TaskStop, the boss's *)
(* stop, housekeeping's hibernation).                                      *)
(*                                                                         *)
(* The manager has two locks, the task store and the runtime store, and    *)
(* every operation takes them several times.  One action of this module is *)
(* one such critical section, so that everything between two of them can   *)
(* be interleaved with the other threads.  Outputs, usage figures, texts   *)
(* and the activity timestamp are left out.                                *)
(***************************************************************************)
EXTENDS Integers, Sequences, FiniteSets

CONSTANTS
  MaxTask,    \* how many tasks may be created (bound; next_id is a usize)
  Killer,     \* threads that kill tasks
  Session,    \* owning sessions
  Group,      \* orchestration group ids
  NoTask,     \* Option::<TaskId>::None
  NoGroup,    \* no orchestration group
  Requests,   \* the launch requests the tools are called with
  MaxEvents   \* MAX_QUEUED_EVENTS

Task     == 0 .. MaxTask - 1
Proc     == Task \cup Killer       \* threads that run finish_with_activity
Types    == {"Generic", "LocalBash", "LocalAgent"}
Roles    == {"None", "Research", "Implement", "Verify"}
Terminal == {"Completed", "Failed", "Killed"}
Active   == {"Pending", "Running"}
Validation == {"None", "PendingVerification", "Verified",
               "VerificationFailed", "Unverified"}

\* What a tool call asks for: child says whether a parent task is named, verify is
\* requires_verification, and limited whether the run is bounded: a command has a
\* timeout, but a worker a turn limit only if one was asked for or it verifies or
\* implements a step (effective_max_turns).
Request == [type : Types, role : Roles, group : Group \cup {NoGroup},
            session : Session, child : BOOLEAN, verify : BOOLEAN, limited : BOOLEAN]

ASSUME ConstantsAssumption ==
  /\ MaxTask \in Nat \ {0}
  /\ MaxEvents \in Nat \ {0}
  /\ Killer \cap Task = {}
  /\ NoTask \notin Task
  /\ NoGroup \notin Group
  /\ Requests \subseteq Request
  /\ Requests # {}
  /\ \A r \in Requests : r.role # "None" => r.type = "LocalAgent" \* agent.rs:237-250

VARIABLES
  next,        \* TaskStore::next_id
  status,      \* TaskRecord::status, "Absent" before creation
  asked,       \* the request a task was created for
  parent,      \* TaskRecord::parent_task_id
  validation,  \* TaskRecord::validation_state
  launch,      \* how far the tool call that creates and launches the task is
  worker,      \* the spawned future
  owners,      \* domain of running_owners (and mailboxes)
  handles,     \* domain of abort_handles
  events,      \* TaskRuntimeStore::events
  pc, target, verdict, \* finish_with_activity as run by each thread
  outcomes,    \* history: the terminal statuses committed for each task
  seen,        \* history: the members of a group at its barrier check
  fanins       \* history: the group events sent, with those members

launchVars  == <<next, asked, parent, launch>>
recordVars  == <<status, validation>>
runtimeVars == <<owners, handles, worker>>
finishVars  == <<pc, target, verdict>>
histVars    == <<outcomes, seen, fanins>>
vars == <<launchVars, recordVars, runtimeVars, events, finishVars, histVars>>

-----------------------------------------------------------------------------
\* Attributes set after creation are visible once the tool call has set them.
Configured(t) == launch[t] \notin {"none", "created", "dropped"}
TypeOf(t)     == asked[t].type
RoleOf(t)     == IF Configured(t) THEN asked[t].role ELSE "None"
GroupOf(t)    == IF Configured(t) THEN asked[t].group ELSE NoGroup
ParentOf(t)   == IF Configured(t) THEN parent[t] ELSE NoTask
Members(g)    == {t \in Task : status[t] # "Absent" /\ GroupOf(t) = g}

\* derive_group_task_type: a group counts as workers only if all members do.
AllAgents(g) == \A t \in Members(g) : TypeOf(t) = "LocalAgent"

\* Mutant: members still to be verified do not hold the group back.
GroupReadyUnverified(g) ==
  Members(g) # {} /\ \A t \in Members(g) : status[t] \notin Active

\* group_ready_for_fan_in
GroupReady(g) ==
  /\ Members(g) # {}
  /\ \A t \in Members(g) : status[t] \notin Active
  /\ AllAgents(g) =>
       \A t \in Members(g) : validation[t] # "PendingVerification"

\* has_pending_orchestration
PendingOrchestration(s) ==
  \E t \in Task :
    /\ status[t] # "Absent"
    /\ asked[t].session = s
    /\ \/ validation[t] = "PendingVerification"
       \/ GroupOf(t) # NoGroup /\ ~GroupReady(GroupOf(t))

\* transition_validation_state
TransitionValidation(type, role, st, current) ==
  CASE type # "LocalAgent" ->
         IF current = "PendingVerification" THEN "None" ELSE current
    [] type = "LocalAgent" /\ role = "Verify" ->
         CASE st = "Completed" -> "Verified"
           [] st = "Failed"    -> "VerificationFailed"
           [] OTHER            -> "Unverified"
    [] OTHER -> current

\* Mutant: nothing is dropped from a full queue.
EnqueueAll(e) == Append(events, e)

\* enqueue_task_event: the oldest event makes room when the queue is full.
Enqueue(e) ==
  Append(IF Len(events) >= MaxEvents THEN Tail(events) ELSE events, e)

TaskEvent(t, st) == [kind |-> "task", task |-> t, group |-> GroupOf(t),
                     session |-> asked[t].session, status |-> st]
GroupEvent(t)    == [kind |-> "group", task |-> t, group |-> GroupOf(t),
                     session |-> asked[t].session, status |-> "Completed"]
-----------------------------------------------------------------------------
\* The tool call: create_with_type, the setters, launch.

Init ==
  /\ next = 0
  /\ status = [t \in Task |-> "Absent"]
  /\ asked = [t \in Task |-> CHOOSE r \in Requests : TRUE] \* unused as yet
  /\ parent = [t \in Task |-> NoTask]
  /\ validation = [t \in Task |-> "None"]
  /\ launch = [t \in Task |-> "none"]
  /\ worker = [t \in Task |-> "none"]
  /\ owners = {} /\ handles = {}
  /\ events = << >>
  /\ pc = [p \in Proc |-> "idle"]
  /\ target = [p \in Proc |-> NoTask]
  /\ verdict = [p \in Proc |-> "None"]
  /\ outcomes = [t \in Task |-> << >>]
  /\ seen = [p \in Proc |-> {}]
  /\ fanins = {}

\* create_with_type: the record is Pending and has no attributes yet.  A parent
\* is named by the id its own launch returned.
Create(r, p) ==
  /\ next < MaxTask
  /\ p \in IF r.child THEN {q \in Task : launch[q] = "registered"} ELSE {NoTask}
  /\ next' = next + 1
  /\ status' = [status EXCEPT ![next] = "Pending"]
  /\ asked' = [asked EXCEPT ![next] = r]
  /\ parent' = [parent EXCEPT ![next] = p]
  /\ launch' = [launch EXCEPT ![next] = "created"]
  /\ UNCHANGED <<validation, runtimeVars, events, finishVars, histVars>>

\* The setters that follow once a subagent permit was granted (set_worker_role
\* ... set_validation_state); the Bash tool sets nothing.
Configure(t) ==
  /\ launch[t] = "created"
  /\ launch' = [launch EXCEPT ![t] = "configured"]
  /\ validation' = [validation EXCEPT ![t] =
                      IF asked[t].verify THEN "PendingVerification" ELSE @]
  /\ UNCHANGED <<next, asked, parent, status, runtimeVars, events, finishVars,
                 histVars>>

\* Until then the call waits for its permit, and may be dropped with its turn; the
\* record is left behind, Pending for ever.  Only an Agent call waits.
DropCall(t) ==
  /\ launch[t] = "created" /\ TypeOf(t) = "LocalAgent"
  /\ launch' = [launch EXCEPT ![t] = "dropped"]
  /\ UNCHANGED <<next, asked, parent, recordVars, runtimeVars, events, finishVars,
                 histVars>>

\* launch calls start, which overwrites whatever status the record has.
Start(t) ==
  /\ launch[t] = "configured"
  /\ launch' = [launch EXCEPT ![t] = "started"]
  /\ status' = [status EXCEPT ![t] = "Running"]
  /\ UNCHANGED <<next, asked, parent, validation, runtimeVars, events,
                 finishVars, histVars>>

\* launch spawns the future; it runs from here on.
Spawn(t) ==
  /\ launch[t] = "started"
  /\ launch' = [launch EXCEPT ![t] = "spawned"]
  /\ worker' = [worker EXCEPT ![t] = "live"]
  /\ UNCHANGED <<next, asked, parent, recordVars, owners, handles, events,
                 finishVars, histVars>>

\* ... and only then registers its abort handle and owner.
Register(t) ==
  /\ launch[t] = "spawned"
  /\ launch' = [launch EXCEPT ![t] = "registered"]
  /\ owners' = owners \cup {t}
  /\ handles' = handles \cup {t}
  /\ UNCHANGED <<next, asked, parent, recordVars, worker, events, finishVars,
                 histVars>>

-----------------------------------------------------------------------------
\* The spawned future.

\* The future's last act is complete or fail.  An aborted future still does it
\* when it was past its last await when the abort came.
WorkerFinish(t, v) ==
  /\ worker[t] \in {"live", "aborted"}
  /\ worker' = [worker EXCEPT ![t] = "finishing"]
  /\ pc' = [pc EXCEPT ![t] = "clear"]
  /\ target' = [target EXCEPT ![t] = t]
  /\ verdict' = [verdict EXCEPT ![t] = v]
  /\ UNCHANGED <<launchVars, recordVars, owners, handles, events, histVars>>

\* An aborted future is dropped at its next await.
WorkerDrop(t) ==
  /\ worker[t] = "aborted"
  /\ worker' = [worker EXCEPT ![t] = "gone"]
  /\ UNCHANGED <<launchVars, recordVars, owners, handles, events, finishVars,
                 histVars>>

\* launch's wrapper clears the runtime entries once the future has returned.
WorkerReturn(t) ==
  /\ worker[t] = "finishing" /\ pc[t] = "idle"
  /\ worker' = [worker EXCEPT ![t] = "gone"]
  /\ owners' = owners \ {t}
  /\ handles' = handles \ {t}
  /\ UNCHANGED <<launchVars, recordVars, events, finishVars, histVars>>

-----------------------------------------------------------------------------
\* Killers: the check, then the abort, then finish_with_activity(Killed).

BeginKill(k, t) ==
  /\ pc[k] = "idle"
  /\ pc' = [pc EXCEPT ![k] = "abort"]
  /\ target' = [target EXCEPT ![k] = t]
  /\ verdict' = [verdict EXCEPT ![k] = "Killed"]
  /\ UNCHANGED <<launchVars, recordVars, runtimeVars, events, histVars>>

\* kill: only the owning session, only a task registered as running.
Kill(k, t, s) ==
  /\ t \in owners
  /\ asked[t].session = s
  /\ BeginKill(k, t)

\* force_kill, as the boss calls it: on tasks whose boss_actor_id is set.
ForceKill(k, t) ==
  /\ status[t] \in Active
  /\ Configured(t)
  /\ BeginKill(k, t)

\* hibernate_owned_running_tasks: each task that was Running in the snapshot.
Hibernate(k, t) ==
  /\ status[t] = "Running"
  /\ BeginKill(k, t)

\* Mutant: the abort is taken for the end of the task, finish is not called.
AbortOnly(k) ==
  /\ pc[k] = "abort"
  /\ handles' = handles \ {target[k]}
  /\ worker' = [worker EXCEPT ![target[k]] = IF @ = "live" THEN "aborted" ELSE @]
  /\ pc' = [pc EXCEPT ![k] = "idle"]
  /\ UNCHANGED <<launchVars, recordVars, owners, target, verdict, events,
                 histVars>>

\* The abort handle is taken out and used, if it is there.
Abort(k) ==
  /\ pc[k] = "abort"
  /\ LET t == target[k] IN
       /\ handles' = handles \ {t}
       /\ worker' = [worker EXCEPT ![t] =
                       IF t \in handles /\ @ = "live" THEN "aborted" ELSE @]
  /\ pc' = [pc EXCEPT ![k] = "clear"]
  /\ UNCHANGED <<launchVars, recordVars, owners, target, verdict, events,
                 histVars>>

-----------------------------------------------------------------------------
\* finish_with_activity, run by thread p on target[p].

GoTo(p, l) ==
  pc' = [pc EXCEPT ![p] = l] /\ UNCHANGED <<target, verdict>>

Return(p) ==
  /\ pc' = [pc EXCEPT ![p] = "idle"]
  /\ target' = [target EXCEPT ![p] = NoTask]
  /\ verdict' = [verdict EXCEPT ![p] = "None"]

\* clear_running_handle
FinishClear(p) ==
  /\ pc[p] = "clear"
  /\ owners' = owners \ {target[p]}
  /\ handles' = handles \ {target[p]}
  /\ GoTo(p, "commit")
  /\ UNCHANGED <<launchVars, recordVars, worker, events, histVars>>

\* Mutant: the status is set before the record is found terminal.
FinishTooLateOverwrites(p) ==
  /\ pc[p] = "commit"
  /\ status[target[p]] \in Terminal
  /\ status' = [status EXCEPT ![target[p]] = verdict[p]]
  /\ Return(p)
  /\ UNCHANGED <<launchVars, validation, runtimeVars, events, histVars>>

\* Under the store lock: a terminal record makes the call return.
FinishTooLate(p) ==
  /\ pc[p] = "commit"
  /\ status[target[p]] \in Terminal
  /\ Return(p)
  /\ UNCHANGED <<launchVars, recordVars, runtimeVars, events, histVars>>

\* The terminal status and the validation state are set, and the task's event is
\* queued and dispatched.
Settle(p) ==
  LET t == target[p] IN
  /\ status' = [status EXCEPT ![t] = verdict[p]]
  /\ validation' = [validation EXCEPT ![t] =
                      TransitionValidation(TypeOf(t), RoleOf(t), verdict[p], @)]
  /\ events' = Enqueue(TaskEvent(t, verdict[p]))
  /\ outcomes' = [outcomes EXCEPT ![t] = Append(@, verdict[p])]
  /\ GoTo(p, IF GroupOf(t) = NoGroup THEN "propagate" ELSE "barrier")
  /\ UNCHANGED <<launchVars, runtimeVars, seen, fanins>>

\* Mutant: whether somebody else was first is not looked at.
FinishCommitAgain(p) == pc[p] = "commit" /\ Settle(p)

\* Under the store lock: only the first finisher settles the task.
FinishCommit(p) ==
  /\ pc[p] = "commit"
  /\ status[target[p]] \notin Terminal
  /\ Settle(p)

\* Mutant: only a completed member asks whether its group is ready.
FinishBarrierOfCompleted(p) ==
  /\ pc[p] = "barrier"
  /\ LET g == GroupOf(target[p])
         r == verdict[p] = "Completed" /\ GroupReady(g)
     IN  /\ GoTo(p, IF r THEN "fanin" ELSE "propagate")
         /\ seen' = [seen EXCEPT ![p] = IF r THEN Members(g) ELSE {}]
  /\ UNCHANGED <<launchVars, recordVars, runtimeVars, events, outcomes, fanins>>

\* The group's records are read under the lock, the verdict used after it.
FinishBarrier(p) ==
  /\ pc[p] = "barrier"
  /\ LET g == GroupOf(target[p]) IN
       /\ GoTo(p, IF GroupReady(g) THEN "fanin" ELSE "propagate")
       /\ seen' = [seen EXCEPT ![p] = IF GroupReady(g) THEN Members(g) ELSE {}]
  /\ UNCHANGED <<launchVars, recordVars, runtimeVars, events, outcomes, fanins>>

FinishFanIn(p) ==
  LET t == target[p] IN
  /\ pc[p] = "fanin"
  /\ events' = Enqueue(GroupEvent(t))
  /\ fanins' = fanins \cup {[group |-> GroupOf(t), of |-> seen[p]]}
  /\ seen' = [seen EXCEPT ![p] = {}]
  /\ GoTo(p, "propagate")
  /\ UNCHANGED <<launchVars, recordVars, runtimeVars, outcomes>>

\* Mutant: the Verify worker's own validation state is passed on as it is, but
\* for a killed one there is nothing to say.
PropagatedUnlessKilled(t) ==
  IF RoleOf(t) = "Verify" /\ status[t] # "Killed" THEN validation[t] ELSE "None"

\* Mutant: any Verify worker that has ended vouches for its parent.
PropagatedAlways(t) == IF RoleOf(t) = "Verify" THEN "Verified" ELSE "None"

\* What a finished Verify worker says of its parent (propagated_state).
Propagated(t) ==
  IF RoleOf(t) # "Verify" THEN "None"
  ELSE CASE status[t] = "Completed" /\ validation[t] = "Verified" -> "Verified"
         [] status[t] = "Failed" /\ validation[t] = "VerificationFailed" ->
              "VerificationFailed"
         [] status[t] = "Killed" -> "Unverified"
         [] OTHER -> "None"

FinishPropagate(p) ==
  LET t == target[p] IN
  /\ pc[p] = "propagate"
  /\ validation' =
       IF ParentOf(t) = NoTask \/ Propagated(t) = "None" THEN validation
       ELSE [validation EXCEPT ![ParentOf(t)] = Propagated(t)]
  /\ Return(p)
  /\ UNCHANGED <<launchVars, status, runtimeVars, events, histVars>>

Finish(p) ==
  \/ FinishClear(p) \/ FinishTooLate(p) \/ FinishCommit(p)
  \/ FinishBarrier(p) \/ FinishFanIn(p) \/ FinishPropagate(p)

\* drain_events_for_target(session, None): take the session's events ...
InboxOf(s) == SelectSeq(events, LAMBDA e : e.session = s)

\* ... and keep the rest (SelectSeq, as a function over prefixes).
Rest(es, s) ==
  LET rest[n \in 0 .. Len(es)] ==
        IF n = 0 THEN << >>
        ELSE IF es[n].session = s THEN rest[n - 1] ELSE Append(rest[n - 1], es[n])
  IN  rest[Len(es)]

Drain(s) ==
  /\ InboxOf(s) # << >>
  /\ events' = Rest(events, s)
  /\ UNCHANGED <<launchVars, recordVars, runtimeVars, finishVars, histVars>>

-----------------------------------------------------------------------------
Launch(t) == Start(t) \/ Spawn(t) \/ Register(t)

Call(t) == Configure(t) \/ DropCall(t) \/ Launch(t)

Work(t) == WorkerDrop(t) \/ WorkerReturn(t) \/
           \E v \in {"Completed", "Failed"} : WorkerFinish(t, v)

KillAny(k, t) == ForceKill(k, t) \/ Hibernate(k, t) \/
                 \E s \in Session : Kill(k, t, s)

Next ==
  \/ \E r \in Requests, p \in Task \cup {NoTask} : Create(r, p)
  \/ \E t \in Task : Call(t) \/ Work(t)
  \/ \E k \in Killer, t \in Task : KillAny(k, t)
  \/ \E k \in Killer : Abort(k)
  \/ \E p \in Proc : Finish(p)
  \/ \E s \in Session : Drain(s)

\* The runtime keeps polling what was spawned: launch does not wait, a bounded run
\* ends, an aborted one is dropped at its next await, and a thread inside
\* finish_with_activity has nothing to wait for.  Nobody is obliged to create or to
\* kill a task, an Agent call may wait for its permit as long as it likes, and a
\* worker without a turn limit need not end.
Fairness ==
  /\ \A t \in Task :
       /\ WF_vars(TypeOf(t) # "LocalAgent" /\ Configure(t))
       /\ WF_vars(Launch(t))
       /\ WF_vars(\E v \in {"Completed", "Failed"} : asked[t].limited /\ WorkerFinish(t, v))
       /\ WF_vars(WorkerDrop(t)) /\ WF_vars(WorkerReturn(t))
  /\ \A k \in Killer : WF_vars(Abort(k))
  /\ \A p \in Proc : WF_vars(Finish(p))

Spec     == Init /\ [][Next]_vars
FairSpec == Spec /\ Fairness

-----------------------------------------------------------------------------
\* Properties.

Event == [kind : {"task", "group"}, task : Task, group : Group \cup {NoGroup},
          session : Session, status : Terminal]

StateTypeOK ==
  /\ next \in 0 .. MaxTask
  /\ status \in [Task -> {"Absent"} \cup Active \cup Terminal]
  /\ asked \in [Task -> Request]
  /\ parent \in [Task -> Task \cup {NoTask}]
  /\ validation \in [Task -> Validation]
  /\ launch \in [Task -> {"none", "created", "dropped", "configured", "started",
                          "spawned", "registered"}]
  /\ worker \in [Task -> {"none", "live", "aborted", "finishing", "gone"}]
  /\ owners \subseteq Task /\ handles \subseteq Task
  /\ pc \in [Proc -> {"idle", "abort", "clear", "commit", "barrier", "fanin",
                      "propagate"}]
  /\ target \in [Proc -> Task \cup {NoTask}]
  /\ verdict \in [Proc -> Terminal \cup {"None"}]
  /\ outcomes \in [Task -> Seq(Terminal)]
  /\ seen \in [Proc -> SUBSET Task]
  /\ fanins \subseteq [group : Group, of : SUBSET Task]

QueueTypeOK == events \in Seq(Event) /\ Len(events) <= MaxEvents

\* Every variable has its type; the event queue never exceeds MAX_QUEUED_EVENTS.
TypeOK == StateTypeOK /\ QueueTypeOK

\* However many threads race to finish a task, one outcome is committed - and a
\* second only for a task that was force-killed while still Pending, whose launch
\* then made it Running again (start does not look at the status it overwrites).
OneOutcomePerLaunch ==
  \A t \in Task :
    \/ Len(outcomes[t]) <= 1
    \/ /\ Len(outcomes[t]) = 2
       /\ outcomes[t][1] = "Killed"
       /\ launch[t] \notin {"none", "created", "dropped", "configured"}

\* The status a record shows is the last committed outcome, or the task is active.
\* A terminal task is therefore never shown with another thread's verdict.
StatusIsLastOutcome ==
  \A t \in Task :
    status[t] \in Terminal =>
      outcomes[t] # << >> /\ status[t] = outcomes[t][Len(outcomes[t])]

\* Whoever races to finish, kill, hibernate or launch a task, its record has the
\* life TaskLife allows: it is started once, an end after that is final, is shown by
\* the record and is reported once, and nothing but a kill ends a task before.
Started == {t \in Task : launch[t] \in {"started", "spawned", "registered"}}
Life == INSTANCE TaskLife WITH started <- Started
LifeSpec == Life!Spec

\* A group event stands for members that had all finished and of which none still
\* waited for verification (group_ready_for_fan_in), although the members are
\* read before the event is queued.
FanInSound ==
  \A f \in fanins : \A t \in f.of :
    /\ outcomes[t] # << >>
    /\ (\A m \in f.of : TypeOf(m) = "LocalAgent") =>
         validation[t] # "PendingVerification"

\* A parent is Verified only on the word of a Verify worker of its own that
\* completed (propagate_verification_to_parent), or of itself being one.
VerifiedHasWitness ==
  \A t \in Task : validation[t] = "Verified" =>
    \E v \in Task : /\ RoleOf(v) = "Verify"
                    /\ v = t \/ ParentOf(v) = t
                    /\ \E i \in DOMAIN outcomes[v] : outcomes[v][i] = "Completed"

Quiet == /\ \A p \in Proc : pc[p] = "idle"
         /\ \A t \in Task : launch[t] \in {"none", "dropped", "registered"}

\* When nothing is in progress and a group's members are all done, its fan-in was
\* announced for exactly these members, whichever of them finished last and
\* however their finishes interleaved - for groups without requested verification.
FanInNotLost ==
  \A g \in Group :
    Quiet /\ GroupReady(g) /\ (\A t \in Members(g) : ~asked[t].verify)
      => [group |-> g, of |-> Members(g)] \in fanins

\* A task whose call got its permit, or never needed one, and that is bounded or
\* being killed ends: no race of its worker with killers leaves it active.  A call
\* dropped at the permit leaves its record Pending, and a worker without a turn limit
\* may run until somebody kills it.
EveryLaunchEnds ==
  \A t \in Task :
    (/\ status[t] \in Active
     /\ Configured(t) \/ TypeOf(t) # "LocalAgent"
     /\ asked[t].limited
        \/ \E k \in Killer : target[k] = t /\ pc[k] \in {"abort", "clear", "commit"})
      ~> status[t] \in Terminal

\* Some Verify worker was asked to verify t.
HasVerifier(t) == \E v \in Task : RoleOf(v) = "Verify" /\ ParentOf(v) = t

\* The outcome of a Verify worker is never lost on its way to the parent: once no
\* thread is inside finish_with_activity for it, the parent's verification is no
\* longer pending - also when the worker was killed, or killed and failed at once.
\* Unless the Verify worker was verified in its turn: that verdict overwrites its
\* own, and if it does so before the worker's own is passed on, nothing is.
VerdictNotLost ==
  \A t \in Task :
    /\ RoleOf(t) = "Verify" /\ ParentOf(t) # NoTask /\ status[t] \in Terminal
    /\ \A p \in Proc : target[p] # t
    /\ ~HasVerifier(t)
    => validation[ParentOf(t)] # "PendingVerification"
=============================================================================
