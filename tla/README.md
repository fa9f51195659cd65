# Morgo: a TLA+ verification project

Morgo is a terminal agent written in Rust. A session's model calls tools; some
tools launch *workers*, which are model sessions of their own running as
spawned futures; a *boss* carries out a plan of several steps with such
workers, has a second agent review what they hand in, and retries. Around it are
the loop that calls the model, the engine that runs one turn at a time, the
orchestration of tool calls and the files a session is kept in. What is
hard about this program is not in any one function: it is that workers, killers,
event consumers, notification threads and two actors read and write the same
few records, each holding a lock only for a moment; that a turn has a dozen ways to
end and to go on; and that a process may stop between any two writes.

This directory models that part. Paths below are relative to the repository;
`boss.rs:9039` is short for `src/src/core/boss.rs`, line 9039, and likewise
for the other files of `src/src`.

    tlc -workers 2 -config TaskEnds.cfg MCTaskManager.tla      # one run
    tlapm TaskManagerProofs.tla                                  # one proof

`PROJECT.json` lists the runs, the lines each definition models, the mutants
that show that a property can fail, the findings, hazards and theorems.

## 1. Inventory

### Task manager (`task/manager.rs`, `task/types.rs`)
State: task records (status, worker role, parent, group, session, validation
state), and the runtime store: running owners, abort handles, mailboxes,
notifiers, and a queue of at most 256 events. Operations: create and the
setters, `launch`, `complete`, `fail`, `kill`, `force_kill`,
`hibernate_owned_running_tasks`, `drain_events_for_target`, mailbox input and
waiting. Two locks, taken several times by each operation. Hard: everybody who
may end a task can do so at once; the launch itself takes several critical
sections; a group's last member must announce the group (*fan-in*), and a
Verify worker's verdict travels to its parent. Correct if: one outcome per
launch, no status other than the committed one, a fan-in exactly for settled
groups and never lost, verdicts never lost, a launch whose worker is bounded or
being killed ends.

### Agent tool and concurrency limiter (`tool/builtin/agent.rs`, `core/concurrency.rs`)
A tool call creates a record, waits for a permit (and may be dropped there),
configures the record and launches it; its future holds the permit. The limiter is a FIFO semaphore of
`MAX_SUBAGENTS` permits which a refresh loop narrows by taking permits itself.
Hard: the limit moves while permits are held, agents hold one permit while
they wait for another, waits are cancelled. Correct if: permits are conserved,
every call that waits returns.

### Query loop (`core/query_loop.rs`)
State of a run: transcript, turn count, why it goes on (`transition`), whether
output was escalated, recovered, compacted, whether a final report has been
demanded. Each round checks the limits, prepares the prompt, runs a hook, calls
the model and acts on what it says: end, tools, cut-off output, an error; a
worker then waits for its mailbox. Hard: a dozen exits and ten reasons to go on
that combine; the inbox of task notices is drained at different places; the run
is cancelled at any await. Correct if: the model is called within the budget, a
demanded report is given by the exits that owe one, notices are read before a run
completes, every run with a turn limit ends.

A coordinator's turn drains the events of its session and then asks whether
orchestration is still pending before it writes its synthesis. Hard: both read
the task manager's state at different times, and others, workers that may spawn
(agent.rs:152-162) and the boss (boss.rs:6425), make tasks of the same session
whenever they like. Correct if: what the gate found settled stays so.

### Query engine (`core/engine.rs`)
State: the slot of the active turn (id, token, `finished`), shared by all clones
of the engine, and per turn two tasks and two channels: an unbounded one from
the loop to a bridge, one of 64 places from the bridge to the client. Operations:
start, interrupt, drop of the stream, reap, release. Hard: the slot is freed by
whoever comes first; clients read slowly, stop or go away. Correct if: one turn
at a time, the conversation is stored in order, the slot is always freed.

### Tools (`tool/orchestrator.rs`, `tool/registry.rs`, approvals in `state/app_state.rs`)
A batch of calls is cut into groups; calls safe to run beside others are
spawned together, the others run alone. A call may need approval: it is kept in
a single place (`pending_approval`), the turn ends, and the answer runs it.
Hard: panics, cancellation with spawned calls alive, an approval in the middle
of a batch. Correct if: unsafe calls run alone, results come in order, an
approved call runs once and is the one asked about.

### Session store (`history/session.rs`, `history/resume.rs`, `state/app_state.rs`, `task/list_manager.rs`)
A record per session (history, task list, settings) in a file replaced
atomically under a lock, and a file naming the latest session. Writers: the
turn, the task list, the shutdown guard, session switches. Hard: records are
read before the lock is taken, a read that fails counts as no record, writes fail
and are tried again, also after the file was replaced, power is lost between any
two steps. Correct if: what was acknowledged stays, the latest session can be
read, no full record drops the task list.

### Boss (`core/boss.rs`, `core/boss_state.rs`)
State: the plan (steps with status, completion, attempts, loop guard and
worker), the stage, the current step, the session's records of actors A
(designer and reviewer) and B (executor). Operations: `advance_plan`,
`on_task_event`, `on_notification`, `on_review_event`,
`handle_user_approval`, documentation loop, `stop`, restore. Interactions: B's
workers are tasks of the task manager; each end reaches the boss as an event
(headless run only) *and* as a notification; reviews are requests to A's
mailbox, and A advances the plan inside the handler. Hard: all these run
concurrently, with the plan's lock released at every await. Correct if: one
step runs at a time, nothing is accepted that no worker has done, the plan is
complete only when all was accepted, the retry budget bounds the launches,
every review is answered, a headless run ends.

### Boss actors (`core/boss_actor_runtime.rs`)
A loop per actor over a channel of 16 requests, one at a time, each awaiting
its callback into the boss: A's reviews advance the plan and so ask B, B's
dispatches launch workers. `/boss stop` kills the worker the session names, asks
A and then B to stop, and kills what B has launched in the meantime. Hard: the
stop races with a review that advances the plan; whoever is queued behind it
must be told; an actor that asks itself waits for ever.

### Boss runtime registry (`core/boss_runtime.rs`)
Coordinators keyed by session, with ensure, rebind, shutdown and restart.
The product calls only ensure.

### Notification dispatcher (`interaction/dispatcher.rs`, `interaction/notification.rs`)
Bounded lists of delivered and pending notifications per surface; a hook may
deny delivery, but the boss has been told by then, in a spawned task.

### Headless run (`bootstrap/runtime.rs`)
Drains events, polls the plan's stage, failures and workers, makes up the
event of a dead worker, advances, and ends at a deadline.

### The rest
Task output store (`task/`), security decisions (`security/`), plan mode
(`plan/`, `state/plan_mode.rs`), LisM state frames (`core/state_frame_*`), front
ends (`interaction/`), commands, the tools themselves, model services and MCP
(`service/`), hooks, plugins, skills, prompts, cost and bootstrap. They are
mostly sequential, I/O, or assembly of text; they are also most of the code.
`PROJECT.json` says of each why it is not modelled (section 7).

## 2. Modules

| Module | Models | State and actions |
| --- | --- | --- |
| `TaskManager` | task manager and Agent tool | one action per critical section of `launch`, of the kills and of `finish_with_activity`; `pc[p]` says where thread `p` is inside the latter |
| `CoordinatorTurn` | coordinator turn, extends `TaskManager` | `TurnDrain` and `TurnGate` are the two reads at the end of a turn; `OwnCall` is its tool call, made while it is open; `Manager` has the calls of others, at any time; `own` is who made a task |
| `PermitPool` | what a caller sees of the limiter | an abstract pool |
| `SubagentLimiter` | limiter | `Acquire`, `Cancel`, `Release`, and `apply_limit` permit by permit; `PoolSpec` is the refinement |
| `QueryLoop` | query loop | one action per exit of a phase; operators from `LoopState` to `LoopState` say what a message does to the transcript |
| `QueryEngine` | engine, bridge and clients | per turn: `pc` of its tasks, the two channels, the bridge and the client's end |
| `ToolPhase` | orchestrator, registry, approvals, the tool phases of the loop | a slot per request of the batch; `surface` is who answers an approval, `detached` the calls that outlive their turn |
| `SessionStore` | session files, appends, task list, switches, restart | a `pc` per writing thread: read, load, lock, temporary file, rename, directory, latest; `undo` and `former` are what a loss of power may give back |
| `BossActors` | both actors, `stop`, who asks them | mailboxes and handlers of A and B, one request per caller, `stop` in its three parts |
| `BossPlan` | boss, A, B, headless run, `/boss approve` | a `pc` for the driver, A and one notification thread per worker; an action is what a thread does between two lock sections whose order another thread can see |
| `PlanLedger` | what a plan promises to who wrote it and pays for its workers | abstract; `Ledger` in `BossPlan` is the refinement mapping |
| `Conversation` | what an engine's clients and the reader of its store see | abstract; `Talk` in `QueryEngine` is the mapping: the floor is with the turn in the slot that is not marked finished |
| `TaskLife` | what the manager promises to who looks at a task or waits for it | abstract; `Life` in `TaskManager` is the mapping |
| `MC*` | | requests and agents of the small instances |
| `TaskManagerProofs`, `SubagentLimiterProofs`, `BossPlanProofs`, `QueryLoopProofs`, `QueryEngineProofs`, `ToolPhaseProofs`, `BossActorsProofs`, `SessionStoreProofs` | | proofs |

The modules meet in these places. `CoordinatorTurn` extends `TaskManager`, and
`TurnIsManager` shows that it does nothing there that the manager does not do alone.
`BossPlan` shows that one step runs at a time, which is all `BossActors` keeps of
the plan (`busy`). `QueryLoop` shows that a run ends, which `QueryEngine` assumes
of its turns (`WF(End)`). `ToolPhase` is a closer look at the phase that is
`ToolsDone`, `ToolsStopped` and `SingleToolGated` in `QueryLoop`.

### Correspondence and abstraction: TaskManager
A record is spread over functions of the task (`status`, `validation`, and
`asked` for what the tool call set). `launch` is the tool call: created,
configured, started (status Running), spawned, registered; or dropped, where it
waited for its permit. `worker` is the future. `limited` says whether its run is
bounded: a command has a timeout, a worker a turn limit - or none, for research and
for workers outside a plan's step (agent.rs:407-413). Names, outputs, usage and transcripts are left out; task ids are
numbers given out in order, as in the code. All setters of the Agent tool are
one action, `Configure`: nobody reads the attributes in between but
group queries, for which the group is set last. A verification role is only given
to a LocalAgent (agent.rs:237-250), which `ConstantsAssumption` says of the
requests. Mailboxes are not modelled, nor a panic in a worker's future, which ends
without `complete` or `fail`.

### Correspondence and abstraction: SubagentLimiter
The semaphore is tokio's, modelled from its documented behaviour: FIFO, a
permit given back goes to the first waiter, `try_acquire` never overtakes.
`Cancel` is a waiting call that is dropped. `LimiterAssumption` asks that fewer subagents spawn children than the lowest
limit; `calculate_limit` never goes below 3, and the boss has one executor.

### Correspondence and abstraction: BossPlan
* Two ways to drive a plan. The headless run seeds one step in stage
  Execution (`seed_plan_for_task`); plans of several steps come from a planning
  file, in an interactive session, in stage WaitingForApproval. `Headless`
  chooses. A combination of both cannot occur in the program.
* Consecutive lock sections that only set status texts or the saved session
  are merged; spawning B's worker and recording its session are one action
  (B's handler runs between request and answer).
* The numbers a review compares are kept only as far as they are compared:
  attempts saturate at the budget, the loop guard's count at its limit, and
  whether a worker brought new evidence is a choice.
* `Killed` is treated like `Failed`, as both handlers do. A's verdicts to
  gather evidence or to escalate become a correction or a replan before they
  are applied (boss.rs:5763), so three verdicts remain.
* `MaxWorker` stands for the resource limits of `evaluate_boss_budget`: when the
  workers are used up a launch is denied.
* Left out: LisM steps run inline and `stop` (both in `BossActors`), the artifact
  and report gates, the documentation loop (only its result, as `Init`), restore,
  and a second front end that approves at the same time.
* Only the threads a plan really has are modelled: the driver awaits
  every call it makes, so there is one, and a worker that has ended has one
  notification thread.

### Correspondence and abstraction: QueryLoop
* The transcript is kept as what the code asks of it: who spoke last where the
  user can see it, whether the last message is a tool's result, whether anything
  answers the last request, and the notices no model call has read (`held`).
* A notice of a verification begins with "verification_result:" and so counts as
  a tool's result (`Verdict`); the others count as the user's.
* A worker asks for the events of its own task, and events are addressed to the
  task that started theirs, so its inbox is always empty (manager.rs:735).
* What the model, a hook, a tool and the token counts do is a choice. Which tool
  results are visible, and the gate on repeated searches, are abstracted. A run
  without `max_turns` is not modelled: nothing bounds it.

### Correspondence and abstraction: QueryEngine
Everything sits between two awaits or under one mutex, so an action is a lock
section or a channel operation. The unbounded channel is a number, and so is the
client's; the loop itself is its commits and its end. A panic of the turn's
task is the same end (engine.rs:461). Remote front ends build an engine per
request and so go round the slot; they are not modelled. Nor are the application
state that is copied back when a turn ends, the history that is read before the
slot is claimed, and the append a caller makes outside the slot
(`persist_messages`, engine.rs:324-352): `StoredInOrder` is about what turns store.

### Correspondence and abstraction: ToolPhase
A call is a model value with a tool, a rule derived from its input, a policy
(allow, ask, deny) and whether it is safe. The hooks of a single call and the
batch without hooks are both there (query_loop.rs:1049, 1854). Every call of a safe
group is spawned, the last one, too, and may panic; a call that is not safe is
awaited by the turn itself. A call that outlives a cancelled batch (`detached`)
may run beside the next batch: `UnsafeAlone` speaks of the calls of one batch. Outcomes of the
prompt-only gate and the plan mode's own tools are left out. No tool overrides
`interrupt_behavior`, so that a serial batch never stops early.

### Correspondence and abstraction: SessionStore
A record is its history and the number of changes its task list has seen. A
write is the lock, the synced temporary file, the rename, the sync of the
directory, the pointer. `undo[s]` holds what the file of `s` held before each
rename since the directory was last synced, by whoever and for whatever file; a
power loss may give back any of it, and a file that was not synced may be empty:
what POSIX allows. A write may fail before its rename or, when the directory
cannot be synced (session.rs:748-756), after it: then the rename stays undurable
(`WriteFails` leaves `undo` as it is), and so do those of further tries, until
some write syncs the directory. A read of a whole file may fail (`Outcome`), which the
code takes for no record (session.rs:640-643): an update then starts from an empty
record, a full record loses its task list, a resumed session its history.
`clone` is the state the shutdown guard was given. Four ghosts say on which
sessions one thread at a time has worked (`alone`), of which a read has failed
(`misread`), on which an append was tried again after its file had been replaced
(`redone`), and where the last save of the task list failed (`unsaved`). A switch
rebinds the task list's manager (runtime.rs:7357), the start binds it
(runtime.rs:6884). Files of the old format are left out.

### Correspondence and abstraction: BossActors
A caller asks one thing at a time and waits, so that the 16 places of a mailbox
and those who wait for a place are one queue. The callers are the threads that
advance the plan, a notifier per worker, the control loop that stops, and A's
own handler. `last` is the worker the session names: B writes it before it
answers (boss.rs:6446), and whoever asked writes it again later (boss.rs:6546);
the ghost `late` says that such a write has replaced a later worker's name.
`Inline` is LisM. Left out: ContinueStep, shutdown by abort, rebinding, the
sessions A drafts documents in, and workers' children.

## 3. Properties and runs

| Run | Instance | Shows |
| --- | --- | --- |
| `TaskEnds` | 1 task, bounded or not, 2 killers, queue of 1, fair | `TypeOK` (with the bound of the queue), `OneOutcomePerLaunch`, `LifeSpec`, `EveryLaunchEnds` |
| `TurnSettled` | an implementer to be verified and its verifier, or two researchers, the later of whom others may have made, 1 killer, a coordinator | `SynthesisStaysSettled`, `FanInSound`, `FanInNotLost`, `VerifiedHasWitness`, `VerdictNotLost` |
| `Limiter` | 6 subagents, 4 permits, limit 3 or 4, fair | `PermitsConserved`, `PoolSpec`, `EveryAcquireReturns` |
| `BossEnds` | headless: 1 step, 2 workers, 3 attempts, a group of children, fair | `WithinBudget`, `AcceptedWasDone`, `EveryRunEnds` |
| `BossInteractive` | 3 steps, one of which may require approval, 3 workers, fair | `OneStepRuns`, `CompletedWasAccepted`, `LedgerSpec`, `EveryReviewAnswered` |
| `BossActors` | 2 threads that advance, 2 workers, stop again and again, fair | `LiveIsRecorded`, `NothingAfterStop`, `RequestsReturn` |
| `QueryLoop` | 4 turns, 1 recovery, a notice and a verdict, fair | `CallsBounded`, `ReportGiven`, `NoticesAnswered`, `EveryRunEnds` |
| `QueryEngine` | 2 clients, 2 turns of 2 messages, a channel of 1, a failed append, fair | `OneActiveTurn`, `StoredInOrder`, `AnsweredIsFreed`, `ConversationSpec`, `SlotIsFreed`, `StreamsEnd` |
| `ToolPhase` | 2 batches of up to 3 calls, a cancelled turn, 1 surface, fair | `UnsafeAlone`, `InRequestOrder`, `AskRunsOnce`, `BatchEnds` |
| `SessionStore` | 2 messages, a change of the task list, a failed read, a failed write or sync, 2 tries, a power loss, a shutdown, a switch | `LatestReadable`, `AckedKept`, `ListStored`, `UpdatesWhole` |

Each module has one type invariant. Where the run above does not list it the
proof stands for it (`SubagentLimiter`, `BossPlan`, `QueryLoop`, `QueryEngine`,
`ToolPhase`, `BossActors`, `SessionStore`), as it does for `StatusIsLastOutcome`;
`CoordinatorTurn` has the type invariant of `TaskManager`.

Four of these properties are whole specifications, and one is an action property:
`LifeSpec`, `ConversationSpec`, `LedgerSpec` and `PoolSpec` say that the component
implements `TaskLife`, `Conversation`, `PlanLedger` and `PermitPool`; `UpdatesWhole`
says by which steps a session's record may change.

Runs that find a property violated. Each states what a comment, message or
test of the repository says, quoted under "findings":

| Run | The code |
| --- | --- |
| `ApprovalMixup` | keeps for an approval the input of the first call of that tool in the batch, not of the one that asked |
| `ReviewWaitsForItself` | with LisM on, A's handler asks A and waits for itself, and everyone after it |

### Divergences seen and not given a run
Task manager and limiter:
* `finish_with_activity` asks whether a group is ready (manager.rs:764) before a
  Verify worker's verdict reaches its parent (manager.rs:794). If the Verify
  worker finishes last the group is never announced, although "Complete both
  children — group fan-in fires" (tests/integration/boss_flow.rs:2660). This is
  why `FanInNotLost` speaks of groups without requested verification.
* `launch` spawns the worker (manager.rs:323) before it registers handle, owner
  and mailbox (331-342). A worker that ends at once leaves them behind, and the
  task accepts messages as if it ran ("task {task_id} is not running or not
  owned by this session", agent.rs:297).
* The initial limit is never enforced, for `apply_limit` returns early when it is
  unchanged (concurrency.rs:124-126), and a decrease that finds no free permit is
  not made up for, although acquire "will wait until a slot is available
  according to the current dynamic limit" (concurrency.rs:89).
* Which tasks a worker verifies and which group it is in are texts of the request
  (agent.rs:49, 95, 251, 472). A Verify worker can therefore be verified itself:
  if that verdict comes between its own commit (manager.rs:715) and
  `propagate_verification_to_parent` (816-850), it overwrites the state the latter
  reads, nothing is passed on, and the parent stays PendingVerification. And
  `group_tasks` (manager.rs:234) does not ask for the session: another session can
  add to a group and reopen a gate that was passed. `VerdictNotLost` and
  `SynthesisStaysSettled` except these cases (`HasVerifier`, `SharedGroup`); the
  attempt to prove them without showed both.
* Workers that may spawn (agent.rs:152-162) and the boss's dispatches
  (boss.rs:6425-6451) make tasks of the coordinator's session when its gate has
  been passed: `has_pending_orchestration` turns true again while the synthesis is
  written, and nobody looks. `SynthesisStaysSettled` is about the turn's own tasks.
* The record of an Agent call is made before its permit is awaited
  (agent.rs:235-248). A call dropped there, with its turn, leaves it Pending for
  ever. `EveryLaunchEnds` begins where the permit is granted.
* A Research worker and one outside a plan's step have no turn limit
  (agent.rs:407-413): they may run, and hold their permit, until somebody kills
  them. `EveryLaunchEnds` excepts them; `EveryAcquireReturns` assumes that they end.
* The last verdict of several verification children stands: a pass that comes
  later hides a failure (manager.rs:850).
* A group's event may still be in the queue when the coordinator's gate lets
  the final synthesis pass (query_loop.rs:2243-2257).

Boss plan:
* A second review that corrects an accepted step leaves it Rejected and completed
  (boss.rs:9512-9583), so that it is never taken up again, although "the step is
  reset to Pending so the next `advance_plan` re-dispatches B" (boss.rs:9244).
* `should_continue` (boss.rs:11241-11264) does not look for a step that waits for
  approval: the next one is dispatched although the "Boss plan paused before
  step {} because it requires approval." (boss.rs:10411)
* `advance_once` looks for a step to be replanned only when no other is
  runnable (boss.rs:10351), so the next step is dispatched although "A
  determined the step needs replanning before any further dispatch"
  (boss_state.rs:129).
* With A's callbacks wired nobody sets the stage after the user's approval
  (boss.rs:7422, boss_actor_runtime.rs:477): steps are carried out in stage
  WaitingForApproval.
* After a plain correction A's handler returns without advancing the plan
  (boss.rs:9727-9743). In a session nobody else dispatches the rejected step
  before the user approves again, although "B will retry with a correction"
  (boss_state.rs:127).
* In a headless run the second report of one end puts a rejected step under
  review again (boss.rs:9039), and a second attempt is counted.

Stop:
* Whoever asked for a dispatch writes the worker's id again after B has answered
  (boss.rs:6546, called at 11094 and 11171). By then the worker may have ended
  and the next may run; its id is overwritten and `stop` does not find it
  (boss.rs:8774, 8877). `LiveIsRecorded` and `NothingAfterStop` hold until then.
* After `/boss stop` both actors stay closed for good: the registry counts as
  full (boss.rs:6393-6402), so that `/boss resume` or a new objective finds
  nobody. Plan and stage stay as well, and `has_active_run` (boss.rs:7936) with
  them.
* An actor answers Stop before `closed` is set (boss_actor_runtime.rs:306-313), so
  that one who asks in between is queued and dropped, not refused (compare
  tests/integration/boss_flow.rs:4126).
* Children a worker starts between stop's list (boss.rs:8775) and the kill
  survive; workers killed by `abort_a_b_sessions` are not in `killed_task_ids`.
* The read guard of the actors' registry is held across requests (boss.rs:7383,
  8855, 11078, 11156): whoever wants to write it waits for the answer.

Query loop, tools and session store:
* An empty stream ends a run as Completed (query_loop.rs:323-334), also the round
  that was to bring the demanded report, as a cancellation, a stop hook's veto or a
  gate do. `OwesReport` names the exits `ReportGiven` is about.
* Two surfaces that answer one approval at once both read it before either clears
  it (app_state.rs:472), and the call runs twice. `AskRunsOnce` is about one.
* A call that outlives a cancelled batch runs on beside an unsafe call of the next
  (orchestrator.rs:94-101).
* A notice drained after the report was written makes `is_result_successful`
  false a second time, and the run ends with "the model did not produce a valid
  final response" (query_loop.rs:2374-2391), though it did.
* Every save of the full record writes `parent_session_id: None` and no title
  (app_state.rs:297, 305; resume.rs:140), so the parent a session was given is
  forgotten (compare session.rs:1183 and tests/unit/bootstrap_tests.rs:4321).
* Two threads that write one session each read it before they take the lock
  (session.rs:678), and a task list is saved after its own lock was released
  (list_manager.rs:381): the one that writes last drops what the other has stored.
* A read that fails, for whatever reason, counts as no record (session.rs:640-643):
  the next append stores a record with one message, where the history was, and the
  next full record leaves out the task list. For both reasons `AckedKept`,
  `ListStored` and `UpdatesWhole` speak of `Steady` sessions: worked on by one
  thread at a time, and read without error.
* A write whose directory cannot be synced reports an error and leaves the new
  file in place (session.rs:748-756): the update that was given up is seen by
  everybody who reads, and a loss of power may take it back, and others with it.

All of them but the titles, the children and the registry's guard are behaviours
of the models.

### Bounds, and why they are enough
* Races in `finish_with_activity` are between threads at one task (worker and
  killers, `TaskEnds`) or at two members of a group (`TurnSettled`); a second
  killer or a third member adds nobody with another role. A queue of one already
  drops events (`MAX_QUEUED_EVENTS` is 256). What is proved holds without these
  bounds. `TurnSettled` has a constraint, `OneKind`: research and implementation
  are not mixed in the group, only the first of two researchers is killed, and
  others make at most one task, the later one.
* The limiter: two executors with a child each and two workers on three or
  four permits make it possible that all permits are with agents which wait.
* The boss: with three steps there is one before, one at and one after the step
  in question. Attempts: a budget of 2 allows a retry (seeded plans have 6). With 3
  (`BossEnds`) a step can be rejected for the end of one worker while the next is
  running, which is then told to go on; two workers do for that. That no step gets more
  workers than its budget needs more workers than budget to be in danger: `LedgerSpec`
  in `BossInteractive` has them, and it is proved.
  `LoopLimit = 2` is the code's default.
* The actors: two threads that advance are enough for one to wait while the other
  is served and for the late write of one to meet the dispatch of the other, which
  takes a second worker. `Inline` is TRUE only in `ReviewWaitsForItself`.
* The loop: four turns let a recovery, an escalation, a stop hook's round and the
  report's round follow each other; one recovery (the code allows 3) is enough to
  exhaust them. Two notices differ in whether they carry a verdict.
* The engine: two turns are the one before and the one after; a channel of one is
  full at once (the code's has 64); two messages have an order.
* The tools: three calls give a safe group, an unsafe call and a safe one after
  it; the second batch meets the calls that outlived the first.
* The store: one write that fails, at any step, and is tried again or given up
  (`MaxAttempts` is 3 in the code); one read that fails; one power loss at any
  step, after which the process starts in either session; a switch to a new
  session. `Background = {}`: who writes beside the turn is the shutdown guard. One
  more of any of these makes the run longer than it may be; the proofs have any number.
* Deadlock is not checked (`CHECK_DEADLOCK FALSE`): a session in
  which nobody calls a tool and every task has ended may stand still, and a
  finished run stops. That nobody waits for ever is the subject of
  `EveryAcquireReturns`, `EveryReviewAnswered`, `EveryRunEnds`, `EveryLaunchEnds`,
  `RequestsReturn`, `SlotIsFreed`, `StreamsEnd` and `BatchEnds`.

## 4. Fairness
* Every thread that is at a step takes it: tokio schedules a task that can run.
* A worker's future ends if it is `limited`: its turns are bounded by the query
  loop's limit (agent.rs:350), or it is a command with a timeout. Nothing is assumed
  of the others. An aborted future is dropped at its next await.
* A tool call goes on once it has its permit; that it gets one is not assumed in
  `TaskManager`, where it may also be dropped. In `SubagentLimiter` a subagent that
  holds a permit ends unless it waits for one itself (`WF(Release)`). For workers
  with a turn limit this is the same reason; for Research workers and those outside
  a step, which have none, it is an assumption `EveryAcquireReturns` needs and the
  code does not give.
* A answers: a review is one bounded model call, whose error is an answer, too.
* The query loop's task is polled, and what it awaits returns: the model's
  client, the tools and the mailbox have timeouts.
* The engine's three tasks per turn are polled. Nothing is assumed of the client
  in `SlotIsFreed`; `StreamsEnd` is about a client that keeps reading.
* Tool calls return or panic. Nobody needs to answer an approval.
* The actors' loops and callbacks run, and `stop` goes on. Nobody need advance
  the plan, ask for documents or stop.
* Nothing obliges a user to come back, a tool call to be made or cancelled, a
  kill, the memory to change, a group to form, or a deadline to pass.

`EveryRunEnds` is checked without replanning verdicts: a step to be replanned
waits for a person, and only the deadline ends such a run.

## 5. What is proved
`TaskManagerProofs` (any number of tasks, killers, sessions, groups, any queue
size), `SubagentLimiterProofs` (any finite set of agents, any limits) and
`BossPlanProofs` (any number of steps and workers, any budget and loop guard,
headless or not), `QueryLoopProofs` (any turn budget, recoveries, notices, hooks),
`QueryEngineProofs` (any clients, turns, buffer), `ToolPhaseProofs` (any calls,
tools, policies, size of a batch), `BossActorsProofs` (any threads and number
of workers) and `SessionStoreProofs` (any sessions, finitely many background
writers, any number of messages, tries, faults, power losses and switches), from
the assumptions named in the modules only:

* `TypeCorrect`, `OneOutcome`, `StatusIsOutcome`, `FanInIsSound`. None of the
  four is inductive. The inductive invariant adds who may be where: ids are
  given out in order (`Numbering`), a future exists only after launch spawned
  it and finishes only its own task (`Workers`), a killer never says anything
  but Killed (`Finishers`), so that a record made active by launch has at most
  one earlier outcome, a forced kill (`Records`), and the set of members a
  barrier has seen stays settled (`Barriers`): a terminal status is never left
  again once the launch is past its start, and a validation never becomes
  pending again.
* `TasksLiveOnce`: `TaskManager` implements `TaskLife`. From the same invariant:
  `Numbering` makes a created task one nobody has started, `Records` tells the
  launch that it finds the task pending, or killed by force before it was started,
  and the commit that the record is active and its launch has one outcome to come.
  Whatever happens between two critical sections is a stutter.
* `VerifiedIsWitnessed`, `VerdictArrives`, `FanInArrives`. A second invariant,
  `Owed`, on top of the first, says what is owed from the moment an end is
  committed. The verdict of a Verify worker that has ended is passed on already, or
  the thread that committed the end is on its way (`Heard`) and will read from the
  worker's record what that end left there (`OwnVerdict`). A parent is a task that was
  launched (`Asking`), only what was to be verified waits for a verdict (`Waiting`),
  and nobody finishes a task whose attributes are not set yet (`Fresh`).
  For groups, `Announced`: if all members are done, then they were announced, or
  some thread has yet to look at the barrier, or has, and found them done. Any number of
  threads may be in between; the argument is about the last of them.
* `TurnIsManager`, `SettledForSynthesis`. The coordinator's own steps are steps of
  the manager or stutter, and so the invariants above hold beside a turn. While
  the synthesis is written every task the session's turns made is registered, or was
  dropped at its permit (`CallsOver`), so that none of them is launched or asks for
  verification again; and an end, a barrier or a verdict never makes a settled task
  or group pending. What others launch reaches a group of the turn's only by being a
  member of it (`SharedGroup`).
* `LimiterTypeCorrect`, `PermitsAreConserved`, `ImplementsPool`. The inductive
  invariant says that the queue holds the waiting agents, each once, so that
  the permit handed to its head goes to somebody who does not run. The
  refinement maps the permits the limiter withholds to free ones: taking
  and giving them up are stuttering steps or hand-overs.
* `PlanTypeCorrect`, `OneStepIsRun`, `CompletionIsSound`, `AcceptanceIsSound`.
  One running step is inductive but for types: `advance_once` looks for a running
  step and marks another under one lock, and nothing else marks one. That
  completion is sound needs `Finished`: every step marked completed was accepted
  (an acceptance is never taken back, though a late report may clear the mark),
  and a thread that has seen them all completed and is on its way to set the
  stage still knows so. That an acceptance is sound is a chain: a thread about to
  record a worker has given it to the step it is at (`AtStep`), so the step and
  the worker's record name only workers the step was given to (`Recorded`), a
  review is asked for, and stays in the mailbox, only if such a worker has
  completed (`Asked`), and no worker is taken from a step or runs twice. `Busy`
  says that A answers only who is in its mailbox.
* `BudgetIsKept`. `BInv` keeps the accounts of each step: what it has spent are its
  workers and the threads that are about to launch one (`Spent`), and it owes at most
  one attempt (`Owing`), and none when it waits to be done or done again (`Paid`). The
  attempt that uses up the budget pays for nothing, for then the step is blocked
  (`Due`). A step under review that owes one must not be dispatched again: only a step
  to be verified could be, and while such a step owes, the headless run is not where
  it advances the plan but on its way to find that the worker has ended and to lift the
  verification (`Overdrawn`). `Roles` and `Posted` say that a notification never
  advances the plan and that the driver waits for one review at most. That each
  number is that of a finite set, and grows by one when a worker is added, is from `FiniteSetTheorems`.
* `PlanKeepsLedger`: `BossPlan` implements `PlanLedger`. Every action maps to one
  step of the ledger or to a stutter. It needs both invariants: a thread that is
  about to launch decided to several lock sections before, and must still find the
  step's earlier workers paid for and the budget not used up (`BInv`), and one about
  to complete the plan must still find every step accepted (`Finished`).
* Query loop: `TypeCorrect`, `CallsAreBounded`, `ReportIsGiven`,
  `NoticesAreAnswered`. The invariant relates calls to the turn count by the place
  in the loop (a call is made at the top, a turn counted when the loop goes on,
  and only the report's round passes the budget), and says that while a report is
  demanded nothing but the last request is unanswered unless the runtime has
  written in the model's stead. `ReportIsGiven` is about the exits of `OwesReport`.
* Query engine: `TypeCorrect`, `OneAtATime`, `ConversationInOrder`,
  `AnswerFreesSlot`. A turn that has not finished is the one in the slot and the
  latest claimed; hence only the latest turn stores messages, and behind its own.
* `EngineKeepsConversation`: `QueryEngine` implements `Conversation`. The floor is
  with the turn in the slot until that turn is marked finished (`FloorIs`): the late
  release of the slot, a reap, the bridge and an interrupt are stutters. What needs the
  invariant is that the turn which stores is the one that has the floor, that a stream
  which ends is of a turn that is over, and that nobody reads it twice.
* Tools: `TypeCorrect`, `UnsafeRunsAlone`, `OutcomesInOrder`, `OneRunPerAsk`. The
  calls started and not yet taken are one group, which holds an unsafe call only
  by itself; the outcomes are those of the first requests. `OneRunPerAsk` assumes
  one surface (`Single`): with two, both can read the approval and run the call.
* Boss actors: `TypeCorrect`, `WorkersAreRecorded`, `StopIsFinal`. The invariant
  says where each caller is (`Queues`, `Commands`), that a handler is half-way only
  in a review or a dispatch (`Insides`), that the step is with one thread or one
  worker (`OneStep`), so that B launches only when no worker runs (`Recorded`),
  and how far stop is (`Stops`): once both actors have answered it, B launches
  nothing more, and what it had launched is the worker it recorded. Both
  properties are reserved for states without a late write, which the code
  cannot exclude.

* Session store: `TypeCorrect`, `LatestAlwaysReadable`, `AckedAlwaysKept`,
  `ListAlwaysStored`. Two arguments. One is about power losses and holds whatever
  the threads do and whatever fails: a session that is named, whose history is in
  memory or whose thread is about to name it (`Relied`) has a file that is whole, as is
  every content a loss of power may give back (`Durable`); a temporary file is synced
  before it is renamed (`Synced`), so no rename, durable or not, adds a torn content.
  The other (`Histories`) is about a session one thread at a time works on and none
  of whose reads failed: what that thread is about to write is the record as it is now
  with its own change and nothing else, from the read before the lock to the rename,
  also when it tries again after its file was replaced (`Alone`). `Lists` says which
  version of the task list is stored meanwhile. `Roles` says which thread can be in
  which operation.
* `RecordsChangeWhole`: on such a session each step leaves the record or applies one
  call's update to it, or is a loss of power. The steps that can change a record are a
  rename and the loss of power. For the first, `Alone` says that what was read before
  the lock is still what the file holds. For the second, `Undoing`: what may be given
  back, after any number of writes whose directory could not be synced, is a beginning
  of the stored history that lacks nothing that was acknowledged, for an append is
  acknowledged only after a sync of the directory, which leaves nothing to give back.

The proofs of steps are one lemma per action, or per kind of action: what moves
one thread (`Move`), changes the plan (`Change`), gives workers to steps (`Give`)
or changes the mailbox (`Mail`) is proved once. That a non-empty set of naturals
has a least element (`LeastNat`), which a barrier's or a plan's choice of the first
needs, is from the well-foundedness of the numbers.

## 6. What is only model-checked, and what is not modelled
Every invariant and every refinement a run checks is also a theorem. Liveness
(`EveryLaunchEnds`, `EveryAcquireReturns`, `EveryRunEnds`, `EveryReviewAnswered`,
`RequestsReturn`, `SlotIsFreed`, `StreamsEnd`, `BatchEnds`) is beyond the prover and
checked on the instances above only.

Not modelled are the components listed as such in `PROJECT.json`; of the modelled
ones, what section 2 names as left out.

## 7. Plan
In this order, most of what can go wrong first:

1. Mailboxes in `TaskManager`: input, notifier and waiting beside launch and
   finish (manager.rs:634; lost wake-ups).
2. Restore of a plan after a crash (boss.rs:6221), with `BossPlan` started from
   what the store holds.
3. `BossApproval`: documentation loop and approval by two front ends; abstract
   specification: the stage's transitions as `transition_to` allows them.
4. Two threads at one session in `SessionStore`, beyond what is said above: which
   writers the program really lets meet.
5. `NotificationInbox`: bounded lists and their deduplication; abstract: each
   notification delivered at most once, in order, the newest ones kept.
6. `BossBudget`: the check of the counters composed with concurrent launches.
7. To be stated and proved as the four abstract specifications are: what a turn sees of
   a batch of tools (each request answered once, in order), and what a caller
   sees of an actor (asked, then answered or refused).

Out of reach stay the parts that are text: LisM frames and their projections,
artifact gates, renderers, provider clients. A model of them would say what the
model's author made of a string.
