-------------------------------- MODULE ToolPhase --------------------------------
(* The tool calls of a turn and their approval (core/query_loop.rs,              *)
(* tool/orchestrator.rs, tool/registry.rs, state/app_state.rs).                  *)
(*                                                                               *)
(* The calls of one model answer form a batch.  The orchestrator cuts it into    *)
(* groups of neighbours that are equally safe to run concurrently: a safe group  *)
(* of several calls is spawned as one, any other is run call by call.  Each call *)
(* is allowed, denied or held back by a request for approval; the first request  *)
(* ends the turn and waits in a slot of the session, which a surface reads,      *)
(* clears and answers - on its own, whether or not another turn has begun.       *)
(* A batch of one call goes through the hooks first; larger ones meet none.      *)
EXTENDS Naturals, Sequences, FiniteSets

CONSTANTS
    Call,           \* a call is a tool and an input
    ToolOf,         \* the tool of a call
    RuleOf,         \* the allow rule an approval for good derives from it, or NoRule
    Safe,           \* the calls that are concurrency safe
    Policy,         \* what the permissions say of a call: allow, ask or deny
    Surface,        \* the surfaces that answer requests
    NoCall, NoRule, \* no request pending, no rule
    MaxSize, MaxBatches, MaxCancels     \* bounds

ASSUME ToolAssumption ==
    /\ Safe \subseteq Call /\ NoCall \notin Call
    /\ Policy \in [Call -> {"allow", "ask", "deny"}] /\ DOMAIN ToolOf = Call /\ DOMAIN RuleOf = Call
    /\ MaxSize \in Nat \ {0} /\ MaxBatches \in Nat /\ MaxCancels \in Nat

VARIABLES
    batch,      \* the requests being executed; empty between turns
    slot,       \* how far each request is
    outcomes,   \* the outcomes gathered: <<request, kind>>
    pending,    \* the call a pending approval would run
    always,     \* the allow rules added by approvals
    surface,    \* what each surface is doing, and the call it read
    detached,   \* spawned calls whose turn was cancelled
    batches, cancels,   \* counters under the bounds
    asked, asks, approved   \* ghosts: who asked last; requests made, runs approved

vars == <<batch, slot, outcomes, pending, always, surface, detached, batches, cancels,
          asked, asks, approved>>
execution == <<batch, slot, outcomes, detached, batches, cancels>>
approval == <<pending, always, surface, asked, asks, approved>>

Request == 1 .. MaxSize
NoSlots == [i \in Request |-> "todo"]
Kind == {"text", "ask", "denied"}

Init ==
    /\ batch = << >> /\ slot = NoSlots /\ outcomes = << >>
    /\ pending = NoCall /\ always = {}
    /\ surface = [s \in Surface |-> [pc |-> "idle", call |-> NoCall]]
    /\ detached = {} /\ batches = 0 /\ cancels = 0
    /\ asked = NoCall /\ asks = 0 /\ approved = 0

--------------------------------------------------------------------------------
(* The plan.                                                                    *)

IsSafe(i) == batch[i] \in Safe

\* Mutant: a group is as safe as its first call.
GroupLoose(i) ==
    {j \in DOMAIN batch : i <= j /\ IsSafe(i) /\ \A k \in i .. j : IsSafe(k) \/ k = j} \cup {i}

\* The run of neighbours around i that are as safe as i.
Group(i) == {j \in DOMAIN batch : \A k \in (i .. j) \cup (j .. i) : IsSafe(k) = IsSafe(i)}

\* The next request to start: the first that is still to do.
Todo == {i \in DOMAIN batch : slot[i] = "todo"}
First == CHOOSE i \in Todo : \A j \in Todo : i <= j
Spawned(i) == IsSafe(i) /\ Cardinality(Group(i)) > 1
\* Everything started so far is done and its outcome taken.
Quiet == \A i \in DOMAIN batch : slot[i] \in {"todo", "taken"}

--------------------------------------------------------------------------------
(* The turn.                                                                    *)

Ask(c, a) == pending' = c /\ asked' = a /\ asks' = asks + 1

\* Several tool uses in one answer.
StartBatch(b) ==
    /\ batch = << >> /\ batches < MaxBatches /\ Len(b) > 1
    /\ batch' = b /\ batches' = batches + 1
    /\ UNCHANGED <<slot, outcomes, detached, cancels>> /\ UNCHANGED approval

\* A single tool use, which the PreToolUse hook may rewrite (d for c).
StartSingle(c, d) ==
    /\ batch = << >> /\ batches < MaxBatches /\ ToolOf[c] = ToolOf[d]
    /\ batch' = <<d>> /\ batches' = batches + 1
    /\ UNCHANGED <<slot, outcomes, detached, cancels>> /\ UNCHANGED approval

\* A hook denies the single call: the turn ends with nothing run.
HookDenies(c) ==
    /\ batch = << >> /\ batches < MaxBatches /\ batches' = batches + 1
    /\ UNCHANGED <<batch, slot, outcomes, detached, cancels>> /\ UNCHANGED approval

\* The PermissionRequest hook asks: the call pends as rewritten.
HookAsks(c, d) ==
    /\ batch = << >> /\ batches < MaxBatches /\ batches' = batches + 1
    /\ ToolOf[c] = ToolOf[d] /\ Ask(d, d)
    /\ UNCHANGED <<batch, slot, outcomes, detached, cancels, always, surface, approved>>

\* The next group begins: spawned as a whole, or call by call.
StartGroup ==
    /\ Quiet /\ Todo # {}
    /\ LET new == IF Spawned(First) THEN Group(First) \cap Todo ELSE {First}
       IN  slot' = [i \in Request |-> IF i \in new THEN "started" ELSE slot[i]]
    /\ UNCHANGED <<batch, outcomes, detached, batches, cancels>> /\ UNCHANGED approval

\* evaluate_tool_permission and check_permissions, when the call gets to run.
Decision(c) == IF Policy[c] = "ask" /\ RuleOf[c] \in always THEN "allow" ELSE Policy[c]

Invoke(i) ==
    /\ i \in DOMAIN batch /\ slot[i] = "started"
    /\ slot' = [slot EXCEPT ![i] = CASE Decision(batch[i]) = "allow" -> "running"
                                     [] Decision(batch[i]) = "ask" -> "ask"
                                     [] Decision(batch[i]) = "deny" -> "denied"]
    /\ UNCHANGED <<batch, outcomes, detached, batches, cancels>> /\ UNCHANGED approval

\* The tool returns or fails; either way there is a text to report.
Returned(i) ==
    /\ i \in DOMAIN batch /\ slot[i] = "running"
    /\ slot' = [slot EXCEPT ![i] = "text"]
    /\ UNCHANGED <<batch, outcomes, detached, batches, cancels>> /\ UNCHANGED approval

\* A spawned call panics: the join fails.
Panicked(i) ==
    /\ i \in DOMAIN batch /\ slot[i] = "running" /\ Spawned(i)
    /\ slot' = [slot EXCEPT ![i] = "panicked"]
    /\ UNCHANGED <<batch, outcomes, detached, batches, cancels>> /\ UNCHANGED approval

\* Mutant: outcomes are taken as the calls come back.
TakeAny(i) ==
    /\ i \in DOMAIN batch /\ slot[i] \in Kind \cup {"panicked"}
    /\ outcomes' = Append(outcomes, <<i, IF slot[i] = "panicked" THEN "text" ELSE slot[i]>>)
    /\ slot' = [slot EXCEPT ![i] = "taken"]
    /\ UNCHANGED <<batch, detached, batches, cancels>> /\ UNCHANGED approval

\* Mutant: a failed join is not taken for an outcome.
TakeReturned(i) ==
    /\ i \in DOMAIN batch /\ slot[i] \in Kind
    /\ \A j \in 1 .. i - 1 : slot[j] = "taken"
    /\ outcomes' = Append(outcomes, <<i, slot[i]>>)
    /\ slot' = [slot EXCEPT ![i] = "taken"]
    /\ UNCHANGED <<batch, detached, batches, cancels>> /\ UNCHANGED approval

\* The handles of a group are awaited in request order; a failed join reports too.
Take(i) ==
    /\ i \in DOMAIN batch /\ slot[i] \in Kind \cup {"panicked"}
    /\ \A j \in 1 .. i - 1 : slot[j] = "taken"
    /\ outcomes' = Append(outcomes, <<i, IF slot[i] = "panicked" THEN "text" ELSE slot[i]>>)
    /\ slot' = [slot EXCEPT ![i] = "taken"]
    /\ UNCHANGED <<batch, detached, batches, cancels>> /\ UNCHANGED approval

Asking == {i \in DOMAIN outcomes : outcomes[i][2] = "ask"}
\* The input that pends is that of the first request of the same tool.
Found(c) == batch[CHOOSE i \in DOMAIN batch :
    /\ ToolOf[batch[i]] = ToolOf[c]
    /\ \A j \in 1 .. i - 1 : ToolOf[batch[j]] # ToolOf[c]]

\* The turn's requests and outcomes are its own.
Reset == batch' = << >> /\ slot' = NoSlots /\ outcomes' = << >>

\* The outcomes are reported up to the first request for approval, which ends the
\* turn and drops the rest; without one the turn goes on with the report.
Report ==
    /\ batch # << >> /\ Todo = {} /\ Quiet
    /\ IF Asking = {} THEN UNCHANGED <<pending, asked, asks>>
       ELSE LET i == CHOOSE i \in Asking : \A j \in Asking : i <= j
                c == batch[outcomes[i][1]]
            IN  Ask(Found(c), c)
    /\ Reset
    /\ UNCHANGED <<detached, batches, cancels, always, surface, approved>>

\* The turn is cancelled: a serial call is dropped, spawned calls run on.
Cancel ==
    /\ batch # << >> /\ cancels < MaxCancels /\ cancels' = cancels + 1
    /\ detached' = detached \cup
           {<<batches, i, batch[i]>> : i \in {j \in DOMAIN batch :
                                                slot[j] \in {"started", "running"} /\ Spawned(j)}}
    /\ Reset
    /\ UNCHANGED batches /\ UNCHANGED approval

\* A call that outlived its turn returns (or was held back): nobody is told.
DetachedReturns(d) ==
    /\ detached' = detached \ {d}
    /\ UNCHANGED <<batch, slot, outcomes, batches, cancels>> /\ UNCHANGED approval

--------------------------------------------------------------------------------
(* resolve_pending_approval_response.                                           *)

Read(s) ==
    /\ surface[s].pc = "idle" /\ pending # NoCall
    /\ surface' = [surface EXCEPT ![s] = [pc |-> "read", call |-> pending]]
    /\ UNCHANGED execution /\ UNCHANGED <<pending, always, asked, asks, approved>>

Deny(s) ==
    /\ surface[s].pc = "read"
    /\ pending' = NoCall
    /\ surface' = [surface EXCEPT ![s] = [pc |-> "idle", call |-> NoCall]]
    /\ UNCHANGED execution /\ UNCHANGED <<always, asked, asks, approved>>

\* Mutant: an approved request stays pending.
ApproveKept(s, forever) ==
    /\ surface[s].pc = "read"
    /\ always' = always \cup (IF forever THEN {RuleOf[surface[s].call]} \ {NoRule} ELSE {})
    /\ surface' = [surface EXCEPT ![s].pc = "running"]
    /\ approved' = approved + 1
    /\ UNCHANGED execution /\ UNCHANGED <<pending, asked, asks>>

\* What was read is run, without asking again; the slot is cleared, whatever it
\* holds by now.
Approve(s, forever) ==
    /\ surface[s].pc = "read"
    /\ always' = always \cup (IF forever THEN {RuleOf[surface[s].call]} \ {NoRule} ELSE {})
    /\ pending' = NoCall
    /\ surface' = [surface EXCEPT ![s].pc = "running"]
    /\ approved' = approved + 1
    /\ UNCHANGED execution /\ UNCHANGED <<asked, asks>>

ApprovedReturns(s) ==
    /\ surface[s].pc = "running"
    /\ surface' = [surface EXCEPT ![s] = [pc |-> "idle", call |-> NoCall]]
    /\ UNCHANGED execution /\ UNCHANGED <<pending, always, asked, asks, approved>>

--------------------------------------------------------------------------------
Turn ==
    \/ \E n \in 2 .. MaxSize : \E b \in [1 .. n -> Call] : StartBatch(b)
    \/ \E c, d \in Call : StartSingle(c, d) \/ HookAsks(c, d)
    \/ \E c \in Call : HookDenies(c)

Execute == StartGroup \/ Report
           \/ \E i \in Request : Invoke(i) \/ Returned(i) \/ Panicked(i) \/ Take(i)

Answer(s) == Deny(s) \/ \E forever \in BOOLEAN : Approve(s, forever)

Next == Turn \/ Execute \/ Cancel \/ (\E d \in detached : DetachedReturns(d))
        \/ \E s \in Surface : Read(s) \/ Answer(s) \/ ApprovedReturns(s)

Spec == Init /\ [][Next]_vars

\* The tasks are scheduled and every tool returns (its timeout sees to that).
\* Nothing is assumed of the user.
FairSpec == Spec /\ WF_vars(Execute)

--------------------------------------------------------------------------------
\* A batch, its slots and the approval keep their types; a rule kept for good is one
\* that could be derived from the call (resolve_pending_approval_response).
TypeOK ==
    /\ batch \in Seq(Call) /\ Len(batch) <= MaxSize
    /\ slot \in [Request -> {"todo", "started", "running", "panicked", "taken"} \cup Kind]
    /\ outcomes \in Seq(Request \X Kind) /\ Len(outcomes) <= MaxSize
    /\ pending \in Call \cup {NoCall}
    /\ always \subseteq {RuleOf[c] : c \in Call} \ {NoRule}
    /\ surface \in [Surface -> [pc : {"idle", "read", "running"}, call : Call \cup {NoCall}]]
    /\ detached \subseteq (1 .. MaxBatches) \X Request \X Call
    /\ batches \in 0 .. MaxBatches /\ cancels \in 0 .. MaxCancels
    /\ asked \in Call \cup {NoCall} /\ asks \in Nat /\ approved \in Nat

\* A call that is not concurrency safe runs alone among the calls of its batch,
\* wherever it stands between safe ones (plan, execute).  Nothing is said of the
\* calls that run on from a cancelled batch (detached): a later one may meet them.
UnsafeAlone == \A i, j \in DOMAIN batch :
    (slot[i] = "running" /\ slot[j] = "running" /\ ~IsSafe(i)) => i = j

\* The outcomes stand in the order of the requests whatever order the calls came
\* back in: the model is told which result is whose by their order only.
InRequestOrder == \A i \in DOMAIN outcomes : outcomes[i][1] = i

\* One request for approval lets at most one call run, however answers, new
\* requests and turns interleave (one surface).
AskRunsOnce == approved <= asks

\* A batch is done with: no panic or refusal in the middle leaves the turn waiting.
BatchEnds == (batch # << >>) ~> (batch = << >>)

\* What the approval test says (tests/integration/cli_smoke.rs:971): approving runs
\* the original command, the one that was held back.  Checked to be violated.
AskedIsRun == pending # NoCall => pending = asked
================================================================================
