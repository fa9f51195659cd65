----------------------------- MODULE QueryLoop -----------------------------
(***************************************************************************)
(* One run of the query loop (run_query_loop_with_params_and_sink in       *)
(* src/src/core/query_loop.rs): calls of the model, tool phases, recoveries *)
(* from stream errors, the continuations asked for by stop hooks, mailbox   *)
(* messages and the turn budget, and the ways the run ends.  Messages are   *)
(* kept as what the code asks of them: who spoke last where the user can    *)
(* see it, and whether the last message is a tool's result.                 *)
(***************************************************************************)
EXTENDS Naturals, Sequences, FiniteSets

CONSTANTS MaxTurns,        \* QueryParams::max_turns, when it is Some
          RecoveryLimit,   \* max_output_tokens_recovery_limit
          Notice,          \* task notices that may arrive during the run
          Verdict,         \* those that carry a "verification_result:" line
          Setup            \* the callers and hook settings considered

ASSUME LoopAssumption ==
  /\ MaxTurns \in Nat
  /\ RecoveryLimit \in Nat
  /\ Verdict \subseteq Notice
  /\ Setup \subseteq [role    : {"main", "coordinator", "worker"},
                      history : BOOLEAN,                   \* params.messages
                      raised  : BOOLEAN,                   \* initial_max_output_tokens
                      prompt  : {"allow", "says", "deny"}, \* UserPromptSubmit
                      tool    : {"allow", "deny", "ask", "prevent"},
                      stop    : {"allow", "says", "prevent", "block"}]

VARIABLES setup,    \* what this run was started with
          pc,       \* where the loop is
          st,       \* LoopState
          queue,    \* notices in the task manager's queue for this session
          calls,    \* model calls made so far, counted up to MaxTurns + 2
          cancel,   \* the cancellation token
          terminal  \* how the run ended

vars == <<setup, pc, st, queue, calls, cancel, terminal>>

\* Terminal, with a name for each of the ways to end as Terminal::Completed (a
\* normal end, one gated on orchestration, an empty answer, a budget to be renewed,
\* a compaction) and for the ModelError of a report that did not come.
Terminals == {"Completed", "Gated", "Empty", "Budgeted", "Compacting", "MaxTurns",
              "MaxBudget", "ModelError", "Invalid", "StopHookPrevented",
              "AbortedStreaming", "AbortedTools"}

Continues == {"None", "FinalUserReport", "TokenBudgetContinuation", "ReactiveCompactRetry",
              "CollapseDrainRetry", "ModelFallbackRetry", "ToolUseFollowUp", "NextTurn",
              "MaxOutputTokensEscalate", "MaxOutputTokensRecovery", "StopHookBlocking"}

\* The fields of LoopState the control reads, and its messages as: the last one the
\* user can see, whether the last one is a tool's result, whether something answers
\* the last request, whether the model's last answer had text, the notices taken and
\* not yet sent to the model.
LoopState ==
  [turns : Nat, transition : Continues, escalated : BOOLEAN,
   recoveries : 0 .. RecoveryLimit, compacted : BOOLEAN,
   reportAsked : BOOLEAN, maxReport : BOOLEAN,
   visible : {"none", "report", "status", "user"}, result : BOOLEAN,
   answered : BOOLEAN, held : SUBSET Notice]

TypeOK ==
  /\ setup \in Setup
  /\ pc \in {"start", "top", "model", "tool", "mailbox", "next", "done"}
  /\ st \in LoopState
  /\ queue \in Seq(Notice)
  /\ calls \in Nat
  /\ cancel \in BOOLEAN
  /\ terminal \in Terminals \cup {"Running"}

IsSubagent == setup.role = "worker"

-----------------------------------------------------------------------------
\* What is in the transcript: operators from LoopState to LoopState.

\* An assistant message the user sees: a report, or a runtime status line.
Say(s, kind) == [s EXCEPT !.visible = kind, !.result = FALSE,
                          !.answered = @ \/ kind = "report"]

\* A message the user does not see.
Scaffold(s) == [s EXCEPT !.result = FALSE]

\* A request pushed as the user's; and a tool's result, pushed as a hidden one.
Told(s)      == [s EXCEPT !.visible = "user", !.result = FALSE, !.answered = FALSE]
ToolTold(s)  == [s EXCEPT !.result = TRUE, !.answered = TRUE]

\* inbox_messages: a worker asks for the events addressed to its own task, and
\* the events of its session are addressed to the tasks that it started.
Taken   == IF IsSubagent THEN << >> ELSE queue
Kept    == IF IsSubagent THEN queue ELSE << >>

\* Mutant: notices are pushed as hidden messages.
WithHiddenNotices(s, ns) ==
  IF ns = << >> THEN s
  ELSE [s EXCEPT !.result = ns[Len(ns)] \in Verdict,
                 !.held = @ \cup {ns[i] : i \in DOMAIN ns}]

WithNotices(s, ns) ==
  IF ns = << >> THEN s
  ELSE [s EXCEPT !.visible = "user", !.result = ns[Len(ns)] \in Verdict,
                 !.held = @ \cup {ns[i] : i \in DOMAIN ns}]

\* is_result_successful
Successful(s) == s.visible = "report" \/ s.result

\* commit_synthetic_final_report, commit_max_turn_synthetic_report
Synthesized(s) == IF s.visible = "report" THEN s ELSE Say(s, "report")

-----------------------------------------------------------------------------
\* The ways a run ends.

End(s, how) ==
  /\ pc' = "done" /\ st' = s /\ terminal' = how
  /\ UNCHANGED <<setup, calls, cancel>>

\* A result returned as it stands, and one that takes the inbox first.
Return(s, how)       == End(s, how) /\ UNCHANGED queue
FinalizeTurn(s, how) == End(WithNotices(s, Taken), how) /\ queue' = Kept

\* decide_next_turn on TurnDecision::Return
DecideReturn(s, how) ==
  IF s.reportAsked /\ ~Successful(s) /\ how \notin {"StopHookPrevented", "AbortedTools"}
  THEN Return(Synthesized(s), "ModelError")
  ELSE FinalizeTurn(s, how)

\* Mutant: the retries after a stream error are not counted as turns.
ContinueUncounted(s, why) ==
  /\ pc' = "next"
  /\ st' = [s EXCEPT !.turns = IF why \in {"ModelFallbackRetry", "CollapseDrainRetry"}
                               THEN @ ELSE @ + 1,
                     !.transition = why]
  /\ UNCHANGED <<setup, calls, cancel, terminal>>

\* Another round: the next input is pushed here, the inbox taken in Resume.
Continue(s, why) ==
  /\ pc' = "next"
  /\ st' = [s EXCEPT !.turns = @ + 1, !.transition = why]
  /\ UNCHANGED <<setup, calls, cancel, terminal>>

\* finalize_normal_turn, after the gate and the stop hook.
Conclude(s) ==
  CASE IsSubagent -> End(s, "Completed")
    [] ~IsSubagent /\ s.maxReport ->
         End(IF Successful(s) THEN s ELSE Synthesized(s), "MaxTurns")
    [] ~IsSubagent /\ ~s.maxReport /\ Successful(s) -> End(s, "Completed")
    [] ~IsSubagent /\ ~s.maxReport /\ ~Successful(s) /\ s.reportAsked ->
         End(Say(s, "report"), "Invalid")
    [] OTHER -> Continue(Told([s EXCEPT !.reportAsked = TRUE]), "FinalUserReport")

\* finalize_normal_turn: the inbox, the gate on pending orchestration, the stop hook.
FinalizeNormalTurn(s0) ==
  LET s == WithNotices(s0, Taken)
      h == IF setup.stop = "says" THEN Say(s, "report") ELSE s
  IN /\ queue' = Kept
     /\ \/ setup.role = "coordinator" /\ End(Say(s, "status"), "Gated")
        \/ setup.stop = "prevent" /\ End(h, "StopHookPrevented")
        \/ setup.stop = "block" /\ Continue(Told(h), "StopHookBlocking")
        \/ setup.stop \in {"allow", "says"} /\ Conclude(h)

-----------------------------------------------------------------------------
\* The head of the loop.

Start ==
  /\ pc = "start"
  /\ pc' = "top"
  /\ st' = Told(WithNotices(st, queue))
  /\ queue' = << >>
  /\ UNCHANGED <<setup, calls, cancel, terminal>>

Resume ==
  /\ pc = "next"
  /\ pc' = "top"
  /\ st' = WithNotices(st, Taken)
  /\ queue' = Kept
  /\ UNCHANGED <<setup, calls, cancel, terminal>>

CancelledAtTop == pc = "top" /\ cancel /\ FinalizeTurn(st, "AbortedStreaming")

\* check_turn_limits: past the budget the model is asked once for a report ...
AtLimit == st.turns >= MaxTurns
\* Mutant: a retry that a stop hook asked for is let through as well.
OutOfTurnsLoose ==
  AtLimit /\ st.maxReport /\ st.transition \notin {"FinalUserReport", "StopHookBlocking"}

OutOfTurns == AtLimit /\ st.maxReport /\ st.transition # "FinalUserReport"

Limited ==
  IF AtLimit /\ ~st.maxReport
  THEN Told([st EXCEPT !.maxReport = TRUE, !.reportAsked = TRUE,
                       !.transition = "FinalUserReport"])
  ELSE st

\* ... and the runtime writes it when the model went on to something else.
StopAtLimit ==
  /\ pc = "top" /\ ~cancel /\ OutOfTurns
  /\ Return(Synthesized(st), "MaxTurns")

Prepare == pc = "top" /\ ~cancel /\ ~OutOfTurns

\* prepare_turn, the prompt reaching the caller's token budget.
OverBudget ==
  /\ Prepare
  /\ IF Limited.reportAsked /\ ~Successful(Limited)
     THEN Return(Synthesized(Limited), "ModelError")
     ELSE IF setup.history
          THEN FinalizeTurn(Limited, "MaxBudget")
          ELSE FinalizeTurn([Limited EXCEPT !.transition = "TokenBudgetContinuation"],
                            "Budgeted")

\* process_user_input
Prompted == IF setup.prompt = "says" THEN Say(Limited, "report") ELSE Limited

PromptDenied ==
  /\ Prepare /\ setup.prompt = "deny"
  /\ Return(Say(Limited, "report"), "ModelError")

\* prepare_turn, the prompt too long for the model: compact and end the run.
AutoCompact ==
  /\ Prepare /\ setup.prompt # "deny"
  /\ IF Prompted.reportAsked /\ ~Successful(Prompted)
     THEN Return(Synthesized(Prompted), "ModelError")
     ELSE FinalizeTurn(Say([Prompted EXCEPT !.transition = "ReactiveCompactRetry",
                                            !.compacted = TRUE], "report"), "Compacting")

\* The first prompt of a run without history holds the input alone, the later
\* ones the whole transcript, with the notices taken so far.
CallModel ==
  /\ Prepare /\ setup.prompt # "deny"
  /\ pc' = "model"
  /\ calls' = IF calls > MaxTurns + 1 THEN calls ELSE calls + 1
  /\ st' = IF st.turns = 0 /\ ~setup.history THEN Prompted
           ELSE [Prompted EXCEPT !.held = {}]
  /\ UNCHANGED <<setup, queue, cancel, terminal>>

-----------------------------------------------------------------------------
\* The model's answer.

CancelledInCall ==
  /\ pc = "model" /\ cancel
  /\ \/ FinalizeTurn(st, "AbortedStreaming")     \* the token wins the select
     \/ DecideReturn(st, "AbortedStreaming")     \* the stream wins, and is dropped

EmptyStream == pc = "model" /\ FinalizeTurn(st, "Empty")

Reading == pc = "model" /\ ~cancel

\* What the answer's text leaves in the transcript.
Heard(text) == IF text THEN Say(st, "report") ELSE st

\* Mutant: the runtime writes no report in the model's stead.
CloseReportBare(s) == FinalizeTurn(s, "ModelError")

\* turn_outcome_with_final_report
CloseReport(s) == FinalizeTurn(Synthesized(s), "ModelError")

AwaitMailbox(s) ==
  /\ pc' = "mailbox" /\ st' = s
  /\ UNCHANGED <<setup, queue, calls, cancel, terminal>>

EndTurn(text) ==
  /\ Reading
  /\ IF IsSubagent THEN AwaitMailbox(Heard(text)) ELSE FinalizeNormalTurn(Heard(text))

NoStopReason(text) == Reading /\ AwaitMailbox(Heard(text))

ToolUse(text) ==
  /\ Reading
  /\ IF st.reportAsked THEN CloseReport(Heard(text))
     ELSE \/ /\ pc' = "tool" /\ st' = Heard(text)
             /\ UNCHANGED <<setup, queue, calls, cancel, terminal>>
          \/ FinalizeTurn(Say(Heard(text), "status"), "ModelError")  \* no payload

MaxTokens(text) ==
  LET s == Heard(text) IN
  /\ Reading
  /\ IF s.reportAsked THEN CloseReport(s)
     ELSE IF ~s.escalated
     THEN Continue(Told([s EXCEPT !.escalated = TRUE]), "MaxOutputTokensEscalate")
          /\ UNCHANGED queue
     ELSE IF s.recoveries < RecoveryLimit
     THEN Continue(Told([s EXCEPT !.recoveries = @ + 1]), "MaxOutputTokensRecovery")
          /\ UNCHANGED queue
     ELSE FinalizeTurn(s, "AbortedStreaming")

\* The five kinds should_return_terminal_after_recovery_exhausted names are
\* "network"; retryable interrupted errors and kind model_fallback fall back.
Errors == [network : BOOLEAN, fallback : BOOLEAN]

\* continue_after_stream_error with plan_stream_error_recovery.
Recover(s, e) ==
  IF s.transition = "CollapseDrainRetry" /\ e.network
  THEN FinalizeTurn(s, "ModelError")
  ELSE IF s.transition # "ModelFallbackRetry" /\ e.fallback
  THEN Continue(Told(s), "ModelFallbackRetry") /\ UNCHANGED queue
  ELSE IF ~s.compacted
  THEN Continue(Told([s EXCEPT !.compacted = TRUE]), "ReactiveCompactRetry")
       /\ UNCHANGED queue
  ELSE IF s.transition # "CollapseDrainRetry"
  THEN Continue(Told(s), "CollapseDrainRetry") /\ UNCHANGED queue
  ELSE FinalizeTurn(s, "ModelError")

\* The error stream_model_turn puts for a failed fallback is interrupted and final.
Seen(e) == IF st.transition = "ModelFallbackRetry"
           THEN [network |-> FALSE, fallback |-> FALSE] ELSE e

InterruptedError(text, e) ==
  /\ Reading
  /\ IF st.reportAsked THEN CloseReport(Heard(text))
     ELSE Recover(Say(Heard(text), "status"), Seen(e))

TerminalError(text) ==
  /\ Reading
  /\ IF st.reportAsked THEN CloseReport(Heard(text))
     ELSE FinalizeTurn(Say(Heard(text), "status"), "ModelError")

\* StopReason::Error, unless a fallback made it a stream error.
StopError(text) ==
  /\ Reading /\ st.transition # "ModelFallbackRetry"
  /\ IF st.reportAsked THEN CloseReport(Heard(text))
     ELSE FinalizeTurn(Heard(text), "ModelError")

Answer ==
  \E text \in BOOLEAN :
    \/ EndTurn(text) \/ NoStopReason(text) \/ ToolUse(text) \/ MaxTokens(text)
    \/ TerminalError(text) \/ StopError(text)
    \/ \E e \in Errors : InterruptedError(text, e)

-----------------------------------------------------------------------------
\* Tools and the mailbox.

CancelledInTools == pc = "tool" /\ cancel /\ DecideReturn(st, "AbortedStreaming")

\* execute_tool_phase, and execute_tool_batch_phase, which runs no tool hooks.
ToolsDone ==
  /\ pc = "tool"
  /\ Continue(ToolTold(st), "ToolUseFollowUp")
  /\ UNCHANGED queue

ToolsStopped ==
  /\ pc = "tool"
  /\ \/ FinalizeTurn(Scaffold(st), "AbortedTools")           \* an approval is needed
     \/ /\ setup.tool = "prevent"                            \* PostToolUse
        /\ FinalizeTurn(Scaffold([st EXCEPT !.transition = "StopHookBlocking"]),
                        "StopHookPrevented")

\* The hooks that run before a single tool leave the approval as it is.
SingleToolGated ==
  /\ pc = "tool" /\ setup.tool \in {"deny", "ask"}
  /\ FinalizeTurn(IF setup.tool = "deny" THEN Scaffold(st) ELSE st, "AbortedTools")

\* Only a worker has a mailbox; it waits WORKER_MAILBOX_IDLE_TIMEOUT_MS for it.
MailboxMessage ==
  /\ pc = "mailbox" /\ IsSubagent
  /\ Continue(Told(st), "NextTurn")
  /\ UNCHANGED queue

MailboxIdle == pc = "mailbox" /\ FinalizeNormalTurn(st)

CancelledAtMailbox ==
  /\ pc = "mailbox" /\ cancel
  /\ FinalizeTurn(st, "AbortedStreaming")

-----------------------------------------------------------------------------
Loop ==
  \/ Start \/ Resume
  \/ CancelledAtTop \/ StopAtLimit \/ OverBudget \/ PromptDenied \/ AutoCompact \/ CallModel
  \/ CancelledInCall \/ EmptyStream \/ Answer
  \/ CancelledInTools \/ ToolsDone \/ ToolsStopped \/ SingleToolGated
  \/ MailboxMessage \/ MailboxIdle \/ CancelledAtMailbox

Arrived == {queue[i] : i \in DOMAIN queue}

\* A task of the session ends while the loop runs (each notice once).
Notify(n) ==
  /\ pc # "done" /\ n \notin Arrived \cup st.held
  /\ queue' = Append(queue, n)
  /\ UNCHANGED <<setup, pc, st, calls, cancel, terminal>>

Cancel ==
  /\ pc # "done" /\ ~cancel
  /\ cancel' = TRUE
  /\ UNCHANGED <<setup, pc, st, queue, calls, terminal>>

Init ==
  /\ setup \in Setup
  /\ pc = "start"
  /\ st = [turns |-> 0, transition |-> "None", escalated |-> setup.raised,
           recoveries |-> 0, compacted |-> FALSE, reportAsked |-> FALSE,
           maxReport |-> FALSE, visible |-> "none", result |-> FALSE,
           answered |-> FALSE, held |-> {}]
  /\ queue = << >>
  /\ calls = 0
  /\ cancel = FALSE
  /\ terminal = "Running"

Next == Loop \/ Cancel \/ \E n \in Notice : Notify(n)

Spec == Init /\ [][Next]_vars

\* The runtime polls the loop's task, and the model client, the tools and the
\* mailbox wait return (all three have timeouts).
FairSpec == Spec /\ WF_vars(Loop)

-----------------------------------------------------------------------------
\* Whatever the model, the stop hooks, the mailbox and the recoveries ask for, a run
\* makes at most one model call more than its turn budget, the one for the report
\* (check_turn_limits).
CallsBounded == calls <= MaxTurns + 1

\* The ends that owe a demanded report.  The others end without one: a cancelled run,
\* a stop hook's veto, a gated turn, a worker's normal end, an empty stream (the model
\* answers nothing, lines 323-334); and a token budget takes the inbox after it judged.
OwesReport ==
  \/ terminal \in {"MaxTurns", "ModelError", "Invalid", "Compacting"}
  \/ terminal = "Completed" /\ ~IsSubagent

\* A run whose model was asked for a final report and that ends at its turn budget, as
\* a model error, by a compaction or, but for a worker, normally leaves an answer after
\* the last request, written by the model or by the runtime, or ends on a task's verdict.
ReportGiven == OwesReport /\ st.reportAsked => st.answered \/ st.result

\* A run does not complete over a notice that no model call has read, unless the last
\* one carries the verdict (finalize_normal_turn takes the inbox before it judges the
\* answer).  A stop hook's own message is taken for an answer and hides the notice;
\* and a run without history sends its first input alone.
NoticesAnswered ==
  terminal = "Completed" /\ ~IsSubagent /\ setup.history /\ setup.stop # "says"
    => st.held = {} \/ st.result

\* Every run ends.
EveryRunEnds == <>(pc = "done")
=============================================================================
