-------------------------- MODULE QueryLoopProofs --------------------------
(***************************************************************************)
(* Proofs about QueryLoop, for every turn budget, recovery limit, set of   *)
(* notices and set of callers.                                             *)
(*                                                                         *)
(* Model calls are tied to turns: until the budget's report is asked for   *)
(* there have been as many calls as turns, with one more in flight; the    *)
(* request itself keeps the turn count, so the call it makes is number     *)
(* MaxTurns + 1; and whatever continues from that call is never another    *)
(* FinalUserReport, which is what check_turn_limits would let through.     *)
(***************************************************************************)
EXTENDS QueryLoop, SequenceTheorems, TLAPS

InCall == pc \in {"model", "tool", "mailbox"}

\* Calls and turns, before and after the report of the turn budget is asked for.
Counted ==
  /\ pc = "start" => st.turns = 0 /\ calls = 0 /\ ~st.maxReport
  /\ pc \in {"top", "next"} /\ ~st.maxReport => calls = st.turns /\ st.turns <= MaxTurns
  /\ pc \in {"top", "next"} /\ st.maxReport =>
       calls = MaxTurns + 1 /\ st.turns = MaxTurns + 1 /\ st.transition # "FinalUserReport"
  /\ InCall /\ ~st.maxReport => calls = st.turns + 1 /\ st.turns < MaxTurns
  /\ InCall /\ st.maxReport => calls = MaxTurns + 1 /\ st.turns = MaxTurns
  /\ pc = "done" => calls <= MaxTurns + 1

\* Flags and messages: a visible report answers, tools run only before the report is
\* asked for, and a run with history has sent every notice once it called the model.
Spoken ==
  /\ st.maxReport => st.reportAsked
  /\ st.visible = "report" => st.answered
  /\ pc = "tool" => ~st.reportAsked
  /\ InCall /\ setup.history => st.held = {}
  /\ terminal = "Running" <=> pc # "done"

IInv == TypeOK /\ Counted /\ Spoken /\ ReportGiven /\ NoticesAnswered

\* What the steps may do to the counters and flags of LoopState.
Kin(s) ==
  /\ s \in LoopState
  /\ s.turns = st.turns
  /\ s.maxReport = st.maxReport
  /\ s.maxReport => s.reportAsked
  /\ s.visible = "report" => s.answered

-----------------------------------------------------------------------------
\* What the operators on LoopState keep.

LEMMA SayKeeps ==
  ASSUME NEW s \in LoopState, NEW kind \in {"report", "status"}
  PROVE  /\ Say(s, kind) \in LoopState
         /\ Say(s, kind).turns = s.turns
         /\ Say(s, kind).transition = s.transition
         /\ Say(s, kind).escalated = s.escalated
         /\ Say(s, kind).recoveries = s.recoveries
         /\ Say(s, kind).maxReport = s.maxReport
         /\ Say(s, kind).reportAsked = s.reportAsked
         /\ Say(s, kind).compacted = s.compacted
         /\ Say(s, kind).visible = kind
         /\ Say(s, kind).held = s.held
         /\ s.answered => Say(s, kind).answered
         /\ kind = "report" => Say(s, kind).answered
  BY DEF Say, LoopState

LEMMA ToldKeeps ==
  ASSUME NEW s \in LoopState
  PROVE  /\ Told(s) \in LoopState
         /\ Told(s).turns = s.turns
         /\ Told(s).transition = s.transition
         /\ Told(s).maxReport = s.maxReport
         /\ Told(s).reportAsked = s.reportAsked
         /\ Told(s).visible = "user"
         /\ Told(s).held = s.held
  BY DEF Told, LoopState

LEMMA NoticesKeep ==
  ASSUME NEW s \in LoopState, NEW ns \in Seq(Notice)
  PROVE  /\ WithNotices(s, ns) \in LoopState
         /\ WithNotices(s, ns).turns = s.turns
         /\ WithNotices(s, ns).transition = s.transition
         /\ WithNotices(s, ns).maxReport = s.maxReport
         /\ WithNotices(s, ns).reportAsked = s.reportAsked
         /\ WithNotices(s, ns).answered = s.answered
         /\ WithNotices(s, ns).visible = "report" => s.visible = "report"
         /\ s.held = {} => \/ WithNotices(s, ns).held = {}
                           \/ WithNotices(s, ns).visible = "user"
<1>1. CASE ns = << >>
  BY <1>1 DEF WithNotices
<1>2. CASE ns # << >>
  <2>1. {ns[i] : i \in DOMAIN ns} \subseteq Notice
    OBVIOUS
  <2>2. (ns[Len(ns)] \in Verdict) \in BOOLEAN
    OBVIOUS
  <2>3. WithNotices(s, ns)
          = [s EXCEPT !.visible = "user", !.result = ns[Len(ns)] \in Verdict,
                      !.held = s.held \cup {ns[i] : i \in DOMAIN ns}]
    BY <1>2 DEF WithNotices, LoopState
  <2> DEFINE N == {ns[i] : i \in DOMAIN ns}
             v == ns[Len(ns)] \in Verdict
  <2> HIDE DEF N, v
  <2>4. s.held \cup N \in SUBSET Notice
    BY <2>1 DEF LoopState, N
  <2>5. [s EXCEPT !.visible = "user", !.result = v, !.held = s.held \cup N] \in LoopState
    BY <2>4, <2>2 DEF LoopState, v
  <2> QED
    BY <2>3, <2>5 DEF LoopState, N, v
<1> QED
  BY <1>1, <1>2

LEMMA SynthesizedKeeps ==
  ASSUME NEW s \in LoopState, s.visible = "report" => s.answered
  PROVE  /\ Synthesized(s) \in LoopState
         /\ Synthesized(s).turns = s.turns
         /\ Synthesized(s).maxReport = s.maxReport
         /\ Synthesized(s).reportAsked = s.reportAsked
         /\ Synthesized(s).held = s.held
         /\ Synthesized(s).visible = "report"
         /\ Synthesized(s).answered
  BY SayKeeps DEF Synthesized

LEMMA QueueType ==
  ASSUME TypeOK
  PROVE  Taken \in Seq(Notice) /\ Kept \in Seq(Notice)
  BY DEF TypeOK, Taken, Kept

LEMMA CallsLow ==
  ASSUME IInv
  PROVE  calls <= MaxTurns + 1 /\ calls \in Nat
<1>1. MaxTurns \in Nat /\ st.turns \in Nat /\ calls \in Nat
  BY LoopAssumption DEF IInv, TypeOK, LoopState
<1>2. st.maxReport \in BOOLEAN
  BY DEF IInv, TypeOK, LoopState
<1> QED
  BY <1>1, <1>2 DEF IInv, TypeOK, Counted, InCall

-----------------------------------------------------------------------------
\* The ways to leave a state.

\* A result is well founded when its transcript is, and bears out its terminal.
LEMMA EndKeeps ==
  ASSUME IInv, NEW s \in LoopState, NEW how \in Terminals, End(s, how),
         queue' \in Seq(Notice),
         s.maxReport => s.reportAsked,
         s.visible = "report" => s.answered,
         how \in {"MaxTurns", "ModelError", "Invalid", "Compacting"} /\ s.reportAsked
           => s.answered \/ s.result,
         how = "Completed" /\ ~IsSubagent /\ s.reportAsked => s.answered \/ s.result,
         how = "Completed" /\ ~IsSubagent /\ setup.history /\ setup.stop # "says"
           => s.held = {} \/ s.result
  PROVE  IInv'
<1>1. calls <= MaxTurns + 1
  BY CallsLow
<1>2. TypeOK'
  BY DEF IInv, TypeOK, End
<1>3. Counted'
  BY <1>1 DEF Counted, InCall, End
<1>4. Spoken'
  BY DEF Spoken, InCall, End, Terminals
<1>5. ReportGiven'
  BY DEF ReportGiven, OwesReport, IsSubagent, End
<1>6. NoticesAnswered'
  BY DEF NoticesAnswered, IsSubagent, End
<1> QED
  BY <1>2, <1>3, <1>4, <1>5, <1>6 DEF IInv

LEMMA ReturnKeeps ==
  ASSUME IInv, NEW s \in LoopState, NEW how \in Terminals, Return(s, how),
         s.maxReport => s.reportAsked, s.visible = "report" => s.answered,
         how \in {"MaxTurns", "ModelError", "Invalid", "Compacting"} /\ s.reportAsked
           => s.answered,
         how # "Completed"
  PROVE  IInv'
<1>1. queue' \in Seq(Notice)
  BY DEF Return, IInv, TypeOK
<1> QED
  BY <1>1, EndKeeps DEF Return

LEMMA FinalizeKeeps ==
  ASSUME IInv, NEW s \in LoopState, NEW how \in Terminals, FinalizeTurn(s, how),
         s.maxReport => s.reportAsked, s.visible = "report" => s.answered,
         how \in {"MaxTurns", "ModelError", "Invalid", "Compacting"} /\ s.reportAsked
           => s.answered,
         how # "Completed"
  PROVE  IInv'
<1>1. Taken \in Seq(Notice) /\ queue' \in Seq(Notice)
  BY QueueType DEF FinalizeTurn, IInv
<1> DEFINE t == WithNotices(s, Taken)
<1>2. /\ t \in LoopState
      /\ t.maxReport = s.maxReport /\ t.reportAsked = s.reportAsked
      /\ t.answered = s.answered /\ (t.visible = "report" => s.visible = "report")
  BY <1>1, NoticesKeep
<1>3. End(t, how)
  BY DEF FinalizeTurn
<1> HIDE DEF t
<1> QED
  BY <1>1, <1>2, <1>3, EndKeeps

LEMMA DecideKeeps ==
  ASSUME IInv, NEW s \in LoopState, DecideReturn(s, "AbortedStreaming"),
         s.maxReport => s.reportAsked, s.visible = "report" => s.answered
  PROVE  IInv'
<1>1. CASE s.reportAsked /\ ~Successful(s)
  <2>1. Return(Synthesized(s), "ModelError")
    BY <1>1 DEF DecideReturn
  <2> QED
    BY <2>1, SynthesizedKeeps, ReturnKeeps DEF Terminals
<1>2. CASE ~(s.reportAsked /\ ~Successful(s))
  <2>1. FinalizeTurn(s, "AbortedStreaming")
    BY <1>2 DEF DecideReturn
  <2> QED
    BY <2>1, FinalizeKeeps DEF Terminals
<1> QED
  BY <1>1, <1>2

\* A continuation counts a turn, and after the budget's report it is not a report.
LEMMA ContinueKeeps ==
  ASSUME IInv, InCall, NEW s, Kin(s), NEW why \in Continues, Continue(s, why),
         queue' \in Seq(Notice), s.maxReport => why # "FinalUserReport"
  PROVE  IInv'
<1> DEFINE t == [s EXCEPT !.turns = @ + 1, !.transition = why]
<1>1. /\ t \in LoopState
      /\ t.turns = s.turns + 1 /\ t.transition = why /\ t.maxReport = s.maxReport
      /\ t.reportAsked = s.reportAsked /\ t.visible = s.visible /\ t.answered = s.answered
  <2>1. s \in LoopState /\ s.turns + 1 \in Nat
    BY DEF Kin, LoopState
  <2>2. t = [s EXCEPT !.turns = s.turns + 1, !.transition = why]
    BY <2>1 DEF LoopState
  <2> DEFINE n == s.turns + 1
  <2> HIDE DEF n
  <2>3. [s EXCEPT !.turns = n, !.transition = why] \in LoopState
    BY <2>1 DEF LoopState, n
  <2> QED
    BY <2>1, <2>2, <2>3 DEF LoopState, n
<1>2. st' = t /\ pc' = "next" /\ calls' = calls /\ terminal' = terminal
      /\ setup' = setup /\ cancel' = cancel
  BY DEF Continue
<1> HIDE DEF t
<1>3. TypeOK'
  BY <1>1, <1>2 DEF IInv, TypeOK
<1>4. MaxTurns \in Nat /\ st.turns \in Nat /\ st.maxReport \in BOOLEAN
  BY LoopAssumption DEF IInv, TypeOK, LoopState
<1>5. Counted'
  BY <1>1, <1>2, <1>4 DEF IInv, Counted, InCall, Kin
<1>6. terminal = "Running"
  BY DEF IInv, Spoken, InCall
<1>7. Spoken' /\ ReportGiven' /\ NoticesAnswered'
  BY <1>1, <1>2, <1>6 DEF Spoken, InCall, Kin, ReportGiven, OwesReport, NoticesAnswered
<1> QED
  BY <1>3, <1>5, <1>7 DEF IInv

-----------------------------------------------------------------------------
\* finalize_normal_turn, from a transcript that holds no notice when it can.
LEMMA ConcludeKeeps ==
  ASSUME IInv, InCall, NEW s, Kin(s), Conclude(s), queue' \in Seq(Notice),
         setup.history /\ setup.stop # "says" => s.held = {} \/ s.visible = "user"
  PROVE  IInv'
<1>1. s \in LoopState /\ (s.visible = "report" => s.answered)
      /\ (s.maxReport => s.reportAsked) /\ s.maxReport \in BOOLEAN
  BY DEF Kin, LoopState
<1>2. CASE IsSubagent
  <2>1. End(s, "Completed")
    BY <1>2 DEF Conclude
  <2> QED
    BY <1>1, <1>2, <2>1, EndKeeps DEF Terminals
<1>3. CASE ~IsSubagent /\ s.maxReport
  <2>1. CASE Successful(s)
    <3>1. End(s, "MaxTurns")
      BY <1>3, <2>1 DEF Conclude
    <3>2. s.answered \/ s.result
      BY <1>1, <2>1 DEF Successful
    <3> QED
      BY <1>1, <3>1, <3>2, EndKeeps DEF Terminals
  <2>2. CASE ~Successful(s)
    <3>1. End(Synthesized(s), "MaxTurns")
      BY <1>3, <2>2 DEF Conclude
    <3> QED
      BY <1>1, <3>1, SynthesizedKeeps, EndKeeps DEF Terminals
  <2> QED
    BY <2>1, <2>2
<1>4. CASE ~IsSubagent /\ ~s.maxReport /\ Successful(s)
  <2>1. End(s, "Completed")
    BY <1>4 DEF Conclude
  <2>2. setup.history /\ setup.stop # "says" => s.held = {} \/ s.result
    BY <1>4 DEF Successful
  <2>3. s.answered \/ s.result
    BY <1>1, <1>4 DEF Successful
  <2> QED
    BY <1>1, <2>1, <2>2, <2>3, EndKeeps DEF Terminals
<1>5. CASE ~IsSubagent /\ ~s.maxReport /\ ~Successful(s) /\ s.reportAsked
  <2>1. End(Say(s, "report"), "Invalid")
    BY <1>5 DEF Conclude
  <2> QED
    BY <1>1, <2>1, SayKeeps, EndKeeps DEF Terminals
<1>6. CASE ~IsSubagent /\ ~s.maxReport /\ ~Successful(s) /\ ~s.reportAsked
  <2> DEFINE a == [s EXCEPT !.reportAsked = TRUE]
  <2>1. Continue(Told(a), "FinalUserReport")
    BY <1>6 DEF Conclude
  <2>2. a \in LoopState /\ a.turns = s.turns /\ a.maxReport = s.maxReport /\ a.reportAsked
    BY <1>1 DEF LoopState
  <2> HIDE DEF a
  <2>3. Kin(Told(a))
    BY <2>2, ToldKeeps DEF Kin
  <2>4. ~Told(a).maxReport
    BY <2>2, <1>6, ToldKeeps
  <2> QED
    BY <2>1, <2>3, <2>4, ContinueKeeps DEF Continues
<1> QED
  BY <1>2, <1>3, <1>4, <1>5, <1>6

LEMMA NormalKeeps ==
  ASSUME IInv, InCall, NEW s0, Kin(s0), FinalizeNormalTurn(s0),
         setup.history => s0.held = {}
  PROVE  IInv'
<1> DEFINE s == WithNotices(s0, Taken)
           h == IF setup.stop = "says" THEN Say(s, "report") ELSE s
<1>1. Taken \in Seq(Notice) /\ queue' \in Seq(Notice)
  BY QueueType DEF FinalizeNormalTurn, IInv
<1>2. /\ Kin(s)
      /\ setup.history => s.held = {} \/ s.visible = "user"
  BY <1>1, NoticesKeep DEF Kin
<1>3. \/ End(Say(s, "status"), "Gated")
      \/ End(h, "StopHookPrevented")
      \/ Continue(Told(h), "StopHookBlocking")
      \/ Conclude(h)
  BY DEF FinalizeNormalTurn
<1> HIDE DEF s
<1>4. /\ Kin(h) /\ h \in LoopState
      /\ setup.stop # "says" => h = s
  BY <1>2, SayKeeps DEF Kin
<1> HIDE DEF h
<1>5. CASE End(Say(s, "status"), "Gated")
  BY <1>1, <1>2, <1>5, SayKeeps, EndKeeps DEF Kin, Terminals
<1>6. CASE End(h, "StopHookPrevented")
  BY <1>1, <1>4, <1>6, EndKeeps DEF Kin, Terminals
<1>7. CASE Continue(Told(h), "StopHookBlocking")
  <2>1. Kin(Told(h))
    BY <1>4, ToldKeeps DEF Kin
  <2> QED
    BY <1>1, <1>7, <2>1, ContinueKeeps DEF Continues
<1>8. CASE Conclude(h)
  BY <1>1, <1>2, <1>4, <1>8, ConcludeKeeps
<1> QED
  BY <1>3, <1>5, <1>6, <1>7, <1>8

-----------------------------------------------------------------------------
\* What the model's answer leaves.
LEMMA HeardKeeps ==
  ASSUME IInv, NEW text \in BOOLEAN
  PROVE  /\ Kin(Heard(text))
         /\ Heard(text) \in LoopState
         /\ Heard(text).held = st.held
         /\ Heard(text).reportAsked = st.reportAsked
         /\ Heard(text).transition = st.transition
<1>1. st \in LoopState /\ Say(st, "report") \in LoopState
  BY SayKeeps DEF IInv, TypeOK
<1> QED
  BY <1>1, SayKeeps DEF Kin, Heard, LoopState, IInv, Spoken

\* The answer closes the report, or a message the user sees ends the run.
LEMMA CloseKeeps ==
  ASSUME IInv, NEW s, Kin(s), CloseReport(s)
  PROVE  IInv'
  BY SynthesizedKeeps, FinalizeKeeps DEF Kin, CloseReport, Terminals

LEMMA RecoverKeeps ==
  ASSUME IInv, pc = "model", NEW s, Kin(s), ~s.reportAsked, NEW e \in Errors, Recover(s, e)
  PROVE  IInv'
<1>1. InCall /\ s \in LoopState /\ (s.visible = "report" => s.answered) /\ ~s.maxReport
  BY DEF InCall, Kin
<1> DEFINE c == [s EXCEPT !.compacted = TRUE]
<1>2. Kin(c) /\ Kin(Told(s)) /\ Kin(Told(c))
  <2>1. c \in LoopState /\ c.turns = s.turns /\ c.maxReport = s.maxReport
        /\ c.reportAsked = s.reportAsked /\ c.visible = s.visible /\ c.answered = s.answered
    BY <1>1 DEF LoopState
  <2> HIDE DEF c
  <2> QED
    BY <1>1, <2>1, ToldKeeps DEF Kin
<1>3. ~Told(s).maxReport /\ ~Told(c).maxReport
  BY <1>1, <1>2, ToldKeeps DEF Kin
<1> HIDE DEF c
<1>4. CASE FinalizeTurn(s, "ModelError")
  BY <1>1, <1>4, FinalizeKeeps DEF Terminals
<1>5. ASSUME NEW why \in {"ModelFallbackRetry", "CollapseDrainRetry"},
             Continue(Told(s), why), UNCHANGED queue
      PROVE  IInv'
  <2>1. queue' \in Seq(Notice) /\ why \in Continues
    BY <1>5 DEF IInv, TypeOK, Continues
  <2> QED
    BY <1>1, <1>2, <1>3, <1>5, <2>1, ContinueKeeps
<1>6. ASSUME Continue(Told(c), "ReactiveCompactRetry"), UNCHANGED queue
      PROVE  IInv'
  <2>1. queue' \in Seq(Notice) /\ "ReactiveCompactRetry" \in Continues
    BY <1>6 DEF IInv, TypeOK, Continues
  <2> QED
    BY <1>1, <1>2, <1>3, <1>6, <2>1, ContinueKeeps
<1> QED
  BY <1>4, <1>5, <1>6 DEF Recover, c

-----------------------------------------------------------------------------
\* The head of the loop.

LEMMA StartKeeps ==
  ASSUME IInv, Start \/ Resume
  PROVE  IInv'
<1>1. CASE Start
  <2> DEFINE t == WithNotices(st, queue)
  <2>1. st \in LoopState /\ queue \in Seq(Notice) /\ << >> \in Seq(Notice)
    BY DEF IInv, TypeOK
  <2>2. t \in LoopState /\ t.turns = st.turns /\ t.maxReport = st.maxReport
        /\ t.reportAsked = st.reportAsked
    BY <2>1, NoticesKeep
  <2> HIDE DEF t
  <2>3. /\ Told(t) \in LoopState /\ Told(t).turns = 0 /\ ~Told(t).maxReport
        /\ Told(t).visible = "user"
    BY <1>1, <2>2, ToldKeeps DEF Start, IInv, Counted
  <2>4. st' = Told(t) /\ pc' = "top" /\ calls' = 0 /\ queue' = << >>
        /\ UNCHANGED <<setup, cancel, terminal>>
    BY <1>1 DEF Start, t, IInv, Counted
  <2>5. TypeOK' /\ terminal = "Running"
    BY <1>1, <2>1, <2>3, <2>4 DEF IInv, TypeOK, Start, Spoken
  <2>6. Counted' /\ Spoken' /\ ReportGiven' /\ NoticesAnswered'
    BY <2>3, <2>4, <2>5, LoopAssumption
    DEF Counted, InCall, Spoken, ReportGiven, OwesReport, NoticesAnswered
  <2> QED
    BY <2>5, <2>6 DEF IInv
<1>2. CASE Resume
  <2> DEFINE t == WithNotices(st, Taken)
  <2>1. st \in LoopState /\ Taken \in Seq(Notice) /\ Kept \in Seq(Notice)
    BY QueueType DEF IInv, TypeOK
  <2>2. /\ t \in LoopState /\ t.turns = st.turns /\ t.maxReport = st.maxReport
        /\ t.reportAsked = st.reportAsked /\ t.transition = st.transition
        /\ t.answered = st.answered /\ (t.visible = "report" => st.visible = "report")
    BY <2>1, NoticesKeep
  <2>3. st' = t /\ pc' = "top" /\ pc = "next" /\ queue' = Kept
        /\ UNCHANGED <<setup, calls, cancel, terminal>>
    BY <1>2 DEF Resume, t
  <2> HIDE DEF t
  <2>4. TypeOK' /\ terminal = "Running"
    BY <2>1, <2>2, <2>3 DEF IInv, TypeOK, Spoken
  <2>5. Counted' /\ Spoken' /\ ReportGiven' /\ NoticesAnswered'
    BY <2>2, <2>3, <2>4
    DEF IInv, Counted, InCall, Spoken, ReportGiven, OwesReport, NoticesAnswered
  <2> QED
    BY <2>4, <2>5 DEF IInv
<1> QED
  BY <1>1, <1>2

LEMMA StateFacts ==
  ASSUME IInv
  PROVE  /\ Kin(st) /\ st \in LoopState
         /\ st.visible = "report" => st.answered
         /\ st.maxReport => st.reportAsked
  BY DEF IInv, TypeOK, Spoken, Kin

\* check_turn_limits leaves a run that may call the model once more.
LEMMA LimitedKeeps ==
  ASSUME IInv, Prepare
  PROVE  /\ Limited \in LoopState
         /\ Limited.maxReport => Limited.reportAsked
         /\ Limited.visible = "report" => Limited.answered
         /\ calls = Limited.turns
         /\ IF Limited.maxReport THEN Limited.turns = MaxTurns ELSE Limited.turns < MaxTurns
<1> DEFINE r == [st EXCEPT !.maxReport = TRUE, !.reportAsked = TRUE,
                           !.transition = "FinalUserReport"]
<1>1. /\ st \in LoopState /\ st.turns \in Nat /\ st.maxReport \in BOOLEAN
      /\ MaxTurns \in Nat
  BY LoopAssumption DEF IInv, TypeOK, LoopState
<1>2. /\ r \in LoopState /\ r.turns = st.turns /\ r.maxReport /\ r.reportAsked
  BY <1>1 DEF LoopState, Continues
<1> HIDE DEF r
<1>3. /\ Told(r) \in LoopState /\ Told(r).turns = st.turns /\ Told(r).maxReport
      /\ Told(r).reportAsked /\ Told(r).visible = "user"
  BY <1>2, ToldKeeps
<1>4. ~st.maxReport /\ calls = st.turns /\ st.turns <= MaxTurns
  BY <1>1 DEF Prepare, OutOfTurns, AtLimit, IInv, Counted
<1>5. CASE AtLimit
  <2>1. Limited = Told(r) /\ st.turns = MaxTurns
    BY <1>1, <1>4, <1>5 DEF Limited, AtLimit, r
  <2> QED
    BY <2>1, <1>3, <1>4
<1>6. CASE ~AtLimit
  <2>1. Limited = st /\ st.turns < MaxTurns
    BY <1>1, <1>4, <1>6 DEF Limited, AtLimit
  <2> QED
    BY <2>1, <1>1, <1>4, StateFacts
<1> QED
  BY <1>5, <1>6

LEMMA PromptedKeeps ==
  ASSUME IInv, Prepare
  PROVE  /\ Prompted \in LoopState
         /\ Prompted.turns = Limited.turns
         /\ Prompted.maxReport = Limited.maxReport
         /\ Prompted.maxReport => Prompted.reportAsked
         /\ Prompted.visible = "report" => Prompted.answered
  BY LimitedKeeps, SayKeeps DEF Prompted

LEMMA CallKeeps ==
  ASSUME IInv, CallModel
  PROVE  IInv'
<1> DEFINE t == IF st.turns = 0 /\ ~setup.history THEN Prompted
                ELSE [Prompted EXCEPT !.held = {}]
<1>1. Prepare /\ pc = "top"
  BY DEF CallModel, Prepare
<1>2. /\ Prompted \in LoopState
      /\ Prompted.turns = Limited.turns /\ Prompted.maxReport = Limited.maxReport
      /\ Prompted.maxReport => Prompted.reportAsked
      /\ Prompted.visible = "report" => Prompted.answered
  BY <1>1, PromptedKeeps
<1>3. /\ t \in LoopState
      /\ t.turns = Prompted.turns /\ t.maxReport = Prompted.maxReport
      /\ t.reportAsked = Prompted.reportAsked
      /\ t.visible = Prompted.visible /\ t.answered = Prompted.answered
      /\ setup.history => t.held = {}
  <2>1. [Prompted EXCEPT !.held = {}] \in LoopState
    BY <1>2 DEF LoopState
  <2> QED
    BY <1>2, <2>1 DEF LoopState
<1>4. st' = t /\ pc' = "model" /\ UNCHANGED <<setup, queue, cancel, terminal>>
  BY DEF CallModel
<1> HIDE DEF t
<1>5. MaxTurns \in Nat /\ calls \in Nat /\ calls <= MaxTurns + 1
  BY LoopAssumption, CallsLow
<1>6. calls' = calls + 1
  BY <1>5 DEF CallModel
<1>7. TypeOK' /\ terminal = "Running"
  BY <1>1, <1>3, <1>4, <1>5, <1>6 DEF IInv, TypeOK, Spoken
<1>8. calls = t.turns /\ IF t.maxReport THEN t.turns = MaxTurns ELSE t.turns < MaxTurns
  BY <1>1, <1>2, <1>3, LimitedKeeps
<1>9. Counted'
  BY <1>4, <1>5, <1>6, <1>8 DEF Counted, InCall
<1>10. Spoken' /\ ReportGiven' /\ NoticesAnswered'
  BY <1>2, <1>3, <1>4, <1>7 DEF Spoken, InCall, ReportGiven, OwesReport, NoticesAnswered
<1> QED
  BY <1>7, <1>9, <1>10 DEF IInv

LEMMA TopKeeps ==
  ASSUME IInv,
         CancelledAtTop \/ StopAtLimit \/ OverBudget \/ PromptDenied \/ AutoCompact
  PROVE  IInv'
<1>1. CASE CancelledAtTop
  BY <1>1, StateFacts, FinalizeKeeps DEF CancelledAtTop, Terminals
<1>2. CASE StopAtLimit
  BY <1>2, StateFacts, SynthesizedKeeps, ReturnKeeps DEF StopAtLimit, Terminals
<1>3. CASE OverBudget
  <2> DEFINE l == Limited
             b == [l EXCEPT !.transition = "TokenBudgetContinuation"]
  <2>1. /\ l \in LoopState /\ (l.maxReport => l.reportAsked)
        /\ (l.visible = "report" => l.answered)
    BY <1>3, LimitedKeeps DEF OverBudget
  <2>2. \/ Return(Synthesized(l), "ModelError")
        \/ FinalizeTurn(l, "MaxBudget")
        \/ FinalizeTurn(b, "Budgeted")
    BY <1>3 DEF OverBudget
  <2> HIDE DEF l
  <2>3. /\ b \in LoopState /\ b.maxReport = l.maxReport /\ b.reportAsked = l.reportAsked
        /\ b.visible = l.visible /\ b.answered = l.answered
    BY <2>1 DEF LoopState, Continues
  <2> HIDE DEF b
  <2>4. CASE Return(Synthesized(l), "ModelError")
    BY <2>1, <2>4, SynthesizedKeeps, ReturnKeeps DEF Terminals
  <2>5. CASE FinalizeTurn(l, "MaxBudget")
    BY <2>1, <2>5, FinalizeKeeps DEF Terminals
  <2>6. CASE FinalizeTurn(b, "Budgeted")
    BY <2>1, <2>3, <2>6, FinalizeKeeps DEF Terminals
  <2> QED
    BY <2>2, <2>4, <2>5, <2>6
<1>4. CASE PromptDenied
  BY <1>4, LimitedKeeps, SayKeeps, ReturnKeeps DEF PromptDenied, Terminals
<1>5. CASE AutoCompact
  <2> DEFINE q == Prompted
             c == [q EXCEPT !.transition = "ReactiveCompactRetry", !.compacted = TRUE]
  <2>1. /\ q \in LoopState /\ (q.maxReport => q.reportAsked)
        /\ (q.visible = "report" => q.answered)
    BY <1>5, PromptedKeeps DEF AutoCompact
  <2>2. \/ Return(Synthesized(q), "ModelError")
        \/ FinalizeTurn(Say(c, "report"), "Compacting")
    BY <1>5 DEF AutoCompact
  <2> HIDE DEF q
  <2>3. c \in LoopState /\ c.maxReport = q.maxReport /\ c.reportAsked = q.reportAsked
    BY <2>1 DEF LoopState, Continues
  <2> HIDE DEF c
  <2>4. CASE Return(Synthesized(q), "ModelError")
    BY <2>1, <2>4, SynthesizedKeeps, ReturnKeeps DEF Terminals
  <2>5. CASE FinalizeTurn(Say(c, "report"), "Compacting")
    BY <2>1, <2>3, <2>5, SayKeeps, FinalizeKeeps DEF Terminals
  <2> QED
    BY <2>2, <2>4, <2>5
<1> QED
  BY <1>1, <1>2, <1>3, <1>4, <1>5

-----------------------------------------------------------------------------
\* The model's answer, the tools and the mailbox.

LEMMA AwaitKeeps ==
  ASSUME IInv, pc = "model", NEW text \in BOOLEAN, AwaitMailbox(Heard(text))
  PROVE  IInv'
<1> DEFINE s == Heard(text)
<1>1. /\ Kin(s) /\ s \in LoopState /\ s.held = st.held /\ s.reportAsked = st.reportAsked
  BY HeardKeeps
<1>2. /\ st' = s /\ pc' = "mailbox"
      /\ UNCHANGED <<setup, queue, calls, cancel, terminal>>
  BY DEF AwaitMailbox
<1> HIDE DEF s
<1>3. TypeOK'
  BY <1>1, <1>2 DEF IInv, TypeOK
<1>4. Counted' /\ Spoken' /\ ReportGiven' /\ NoticesAnswered'
  BY <1>1, <1>2 DEF IInv, Counted, InCall, Spoken, Kin, ReportGiven, OwesReport, NoticesAnswered
<1> QED
  BY <1>3, <1>4 DEF IInv

LEMMA ToolUseKeeps ==
  ASSUME IInv, NEW text \in BOOLEAN, ToolUse(text)
  PROVE  IInv'
<1> DEFINE s == Heard(text)
<1>1. /\ Kin(s) /\ s \in LoopState /\ s.held = st.held /\ s.reportAsked = st.reportAsked
  BY HeardKeeps
<1>2. \/ CloseReport(s)
      \/ /\ ~st.reportAsked /\ pc' = "tool" /\ st' = s
         /\ UNCHANGED <<setup, queue, calls, cancel, terminal>>
      \/ ~st.reportAsked /\ FinalizeTurn(Say(s, "status"), "ModelError")
  BY DEF ToolUse
<1>3. pc = "model"
  BY DEF ToolUse, Reading
<1> HIDE DEF s
<1>4. CASE CloseReport(s)
  BY <1>1, <1>4, CloseKeeps
<1>5. CASE /\ ~st.reportAsked /\ pc' = "tool" /\ st' = s
           /\ UNCHANGED <<setup, queue, calls, cancel, terminal>>
  <2>1. TypeOK'
    BY <1>1, <1>5 DEF IInv, TypeOK
  <2>2. Counted' /\ Spoken' /\ ReportGiven' /\ NoticesAnswered'
    BY <1>1, <1>3, <1>5
    DEF IInv, Counted, InCall, Spoken, Kin, ReportGiven, OwesReport, NoticesAnswered
  <2> QED
    BY <2>1, <2>2 DEF IInv
<1>6. CASE ~st.reportAsked /\ FinalizeTurn(Say(s, "status"), "ModelError")
  BY <1>1, <1>6, SayKeeps, FinalizeKeeps DEF Kin, Terminals
<1> QED
  BY <1>2, <1>4, <1>5, <1>6

LEMMA MaxTokensKeeps ==
  ASSUME IInv, NEW text \in BOOLEAN, MaxTokens(text)
  PROVE  IInv'
<1> DEFINE s == Heard(text)
           x == [s EXCEPT !.escalated = TRUE]
           y == [s EXCEPT !.recoveries = @ + 1]
<1>1. /\ Kin(s) /\ s \in LoopState /\ s.held = st.held /\ s.reportAsked = st.reportAsked
  BY HeardKeeps
<1>2. pc = "model" /\ InCall
  BY DEF MaxTokens, Reading, InCall
<1>3. \/ CloseReport(s)
      \/ ~s.reportAsked /\ UNCHANGED queue /\ Continue(Told(x), "MaxOutputTokensEscalate")
      \/ /\ ~s.reportAsked /\ UNCHANGED queue /\ s.recoveries < RecoveryLimit
         /\ Continue(Told(y), "MaxOutputTokensRecovery")
      \/ FinalizeTurn(s, "AbortedStreaming")
  BY DEF MaxTokens
<1>4. queue \in Seq(Notice)
  BY DEF IInv, TypeOK
<1> HIDE DEF s
<1>5. /\ x \in LoopState /\ x.turns = s.turns /\ x.maxReport = s.maxReport
      /\ x.reportAsked = s.reportAsked
  BY <1>1 DEF LoopState
<1>6. s.recoveries < RecoveryLimit =>
        /\ y \in LoopState /\ y.turns = s.turns /\ y.maxReport = s.maxReport
        /\ y.reportAsked = s.reportAsked
  <2>1. SUFFICES ASSUME s.recoveries < RecoveryLimit
                 PROVE  /\ y \in LoopState /\ y.turns = s.turns
                        /\ y.maxReport = s.maxReport /\ y.reportAsked = s.reportAsked
    OBVIOUS
  <2> DEFINE n == s.recoveries + 1
  <2>2. n \in 0 .. RecoveryLimit /\ y = [s EXCEPT !.recoveries = n]
    BY <1>1, <2>1, LoopAssumption DEF LoopState
  <2> HIDE DEF n
  <2>3. [s EXCEPT !.recoveries = n] \in LoopState
    BY <1>1, <2>2 DEF LoopState
  <2> QED
    BY <1>1, <2>2, <2>3 DEF LoopState
<1> HIDE DEF x, y
<1>7. CASE CloseReport(s)
  BY <1>1, <1>7, CloseKeeps
<1>8. CASE ~s.reportAsked /\ UNCHANGED queue /\ Continue(Told(x), "MaxOutputTokensEscalate")
  <2>1. Kin(Told(x)) /\ ~Told(x).maxReport
    BY <1>1, <1>5, <1>8, ToldKeeps DEF Kin
  <2> QED
    BY <1>2, <1>4, <1>8, <2>1, ContinueKeeps DEF Continues
<1>9. CASE /\ ~s.reportAsked /\ UNCHANGED queue /\ s.recoveries < RecoveryLimit
           /\ Continue(Told(y), "MaxOutputTokensRecovery")
  <2>1. Kin(Told(y)) /\ ~Told(y).maxReport
    BY <1>1, <1>6, <1>9, ToldKeeps DEF Kin
  <2> QED
    BY <1>2, <1>4, <1>9, <2>1, ContinueKeeps DEF Continues
<1>10. CASE FinalizeTurn(s, "AbortedStreaming")
  BY <1>1, <1>10, FinalizeKeeps DEF Kin, Terminals
<1> QED
  BY <1>3, <1>7, <1>8, <1>9, <1>10

LEMMA ErrorKeeps ==
  ASSUME IInv, NEW text \in BOOLEAN,
         \/ TerminalError(text) \/ StopError(text)
         \/ \E e \in Errors : InterruptedError(text, e)
  PROVE  IInv'
<1> DEFINE s == Heard(text)
<1>1. /\ Kin(s) /\ s \in LoopState /\ s.reportAsked = st.reportAsked
  BY HeardKeeps
<1>2. \/ CloseReport(s)
      \/ ~s.reportAsked /\ FinalizeTurn(Say(s, "status"), "ModelError")
      \/ ~s.reportAsked /\ FinalizeTurn(s, "ModelError")
      \/ /\ pc = "model" /\ ~s.reportAsked
         /\ \E e \in Errors : Recover(Say(s, "status"), Seen(e))
  BY <1>1 DEF TerminalError, StopError, InterruptedError, Reading
<1> HIDE DEF s
<1>3. Kin(Say(s, "status")) /\ Say(s, "status").reportAsked = s.reportAsked
  BY <1>1, SayKeeps DEF Kin
<1>4. CASE CloseReport(s)
  BY <1>1, <1>4, CloseKeeps
<1>5. CASE ~s.reportAsked /\ FinalizeTurn(Say(s, "status"), "ModelError")
  BY <1>3, <1>5, FinalizeKeeps DEF Kin, Terminals
<1>6. CASE ~s.reportAsked /\ FinalizeTurn(s, "ModelError")
  BY <1>1, <1>6, FinalizeKeeps DEF Kin, Terminals
<1>7. CASE /\ pc = "model" /\ ~s.reportAsked
           /\ \E e \in Errors : Recover(Say(s, "status"), Seen(e))
  <2>1. PICK e \in Errors : Recover(Say(s, "status"), Seen(e))
    BY <1>7
  <2>2. Seen(e) \in Errors
    BY DEF Seen, Errors
  <2> QED
    BY <1>3, <1>7, <2>1, <2>2, RecoverKeeps
<1> QED
  BY <1>2, <1>4, <1>5, <1>6, <1>7

LEMMA AnswerKeeps ==
  ASSUME IInv, Answer
  PROVE  IInv'
<1>1. PICK text \in BOOLEAN :
        \/ EndTurn(text) \/ NoStopReason(text) \/ ToolUse(text) \/ MaxTokens(text)
        \/ TerminalError(text) \/ StopError(text)
        \/ \E e \in Errors : InterruptedError(text, e)
  BY DEF Answer
<1>2. Kin(Heard(text)) /\ Heard(text).held = st.held
  BY HeardKeeps
<1>3. CASE EndTurn(text)
  <2>1. pc = "model" /\ InCall /\ (AwaitMailbox(Heard(text)) \/ FinalizeNormalTurn(Heard(text)))
    BY <1>3 DEF EndTurn, Reading, InCall
  <2>2. setup.history => Heard(text).held = {}
    BY <1>2, <2>1 DEF IInv, Spoken
  <2> QED
    BY <1>2, <2>1, <2>2, AwaitKeeps, NormalKeeps
<1>4. CASE NoStopReason(text)
  BY <1>4, AwaitKeeps DEF NoStopReason, Reading
<1> QED
  BY <1>1, <1>3, <1>4, ToolUseKeeps, MaxTokensKeeps, ErrorKeeps

LEMMA ToolsKeep ==
  ASSUME IInv, CancelledInTools \/ ToolsDone \/ ToolsStopped \/ SingleToolGated
  PROVE  IInv'
<1> DEFINE f == Scaffold(st)
           g == Scaffold([st EXCEPT !.transition = "StopHookBlocking"])
<1>1. st \in LoopState /\ pc = "tool" /\ ~st.reportAsked /\ ~st.maxReport
  BY DEF CancelledInTools, ToolsDone, ToolsStopped, SingleToolGated, IInv, TypeOK, Spoken
<1>2. /\ f \in LoopState /\ f.reportAsked = st.reportAsked /\ f.maxReport = st.maxReport
      /\ f.visible = st.visible /\ f.answered = st.answered
      /\ g \in LoopState /\ g.reportAsked = st.reportAsked /\ g.maxReport = st.maxReport
      /\ g.visible = st.visible /\ g.answered = st.answered
  BY <1>1 DEF Scaffold, LoopState, Continues
<1>3. CASE CancelledInTools
  BY <1>3, StateFacts, DecideKeeps DEF CancelledInTools
<1>4. CASE ToolsDone
  <2>1. Kin(ToolTold(st)) /\ ~ToolTold(st).maxReport
    BY <1>1 DEF Kin, ToolTold, LoopState
  <2> QED
    BY <1>1, <1>4, <2>1, ContinueKeeps DEF ToolsDone, InCall, Continues, IInv, TypeOK
<1>5. CASE ToolsStopped
  <2>1. FinalizeTurn(f, "AbortedTools") \/ FinalizeTurn(g, "StopHookPrevented")
    BY <1>5 DEF ToolsStopped
  <2> HIDE DEF f, g
  <2> QED
    BY <1>1, <1>2, <2>1, StateFacts, FinalizeKeeps DEF Terminals
<1>6. CASE SingleToolGated
  <2>1. FinalizeTurn(f, "AbortedTools") \/ FinalizeTurn(st, "AbortedTools")
    BY <1>6 DEF SingleToolGated
  <2> HIDE DEF f, g
  <2> QED
    BY <1>1, <1>2, <2>1, StateFacts, FinalizeKeeps DEF Terminals
<1> QED
  BY <1>3, <1>4, <1>5, <1>6

LEMMA MailboxKeeps ==
  ASSUME IInv, MailboxMessage \/ MailboxIdle \/ CancelledAtMailbox
  PROVE  IInv'
<1>1. pc = "mailbox" /\ InCall /\ Kin(st) /\ st \in LoopState
  BY StateFacts DEF MailboxMessage, MailboxIdle, CancelledAtMailbox, InCall
<1>2. CASE MailboxMessage
  <2>1. Kin(Told(st))
    BY <1>1, ToldKeeps DEF Kin
  <2> QED
    BY <1>1, <1>2, <2>1, ContinueKeeps DEF MailboxMessage, Continues, IInv, TypeOK
<1>3. CASE MailboxIdle
  <2>1. setup.history => st.held = {}
    BY <1>1 DEF IInv, Spoken
  <2> QED
    BY <1>1, <1>3, <2>1, NormalKeeps DEF MailboxIdle
<1>4. CASE CancelledAtMailbox
  BY <1>4, StateFacts, FinalizeKeeps DEF CancelledAtMailbox, Terminals
<1> QED
  BY <1>2, <1>3, <1>4

LEMMA StepKeeps ==
  ASSUME IInv, [Next]_vars
  PROVE  IInv'
<1>1. CASE Loop
  <2>1. CASE CancelledInCall
    BY <2>1, StateFacts, FinalizeKeeps, DecideKeeps DEF CancelledInCall, Terminals
  <2>2. CASE EmptyStream
    BY <2>2, StateFacts, FinalizeKeeps DEF EmptyStream, Terminals
  <2> QED
    BY <1>1, <2>1, <2>2, StartKeeps, TopKeeps, CallKeeps, AnswerKeeps, ToolsKeep, MailboxKeeps
    DEF Loop
<1>2. CASE Cancel
  BY <1>2 DEF Cancel, IInv, TypeOK, Counted, InCall, Spoken, ReportGiven, OwesReport, NoticesAnswered,
              IsSubagent
<1>3. CASE \E n \in Notice : Notify(n)
  <2>1. PICK n \in Notice : Notify(n)
    BY <1>3
  <2>2. Append(queue, n) \in Seq(Notice)
    BY DEF IInv, TypeOK
  <2> QED
    BY <2>1, <2>2 DEF Notify, IInv, TypeOK, Counted, InCall, Spoken, ReportGiven, OwesReport,
                      NoticesAnswered, IsSubagent
<1>4. CASE UNCHANGED vars
  BY <1>4 DEF vars, IInv, TypeOK, Counted, InCall, Spoken, ReportGiven, OwesReport, NoticesAnswered,
              IsSubagent
<1> QED
  BY <1>1, <1>2, <1>3, <1>4 DEF Next

LEMMA InitHolds ==
  ASSUME Init
  PROVE  IInv
<1>1. setup.raised \in BOOLEAN /\ 0 \in 0 .. RecoveryLimit /\ MaxTurns \in Nat
  BY LoopAssumption DEF Init
<1>2. st \in LoopState
  BY <1>1 DEF Init, LoopState, Continues
<1>3. TypeOK
  <2>1. queue \in Seq(Notice) /\ calls \in Nat /\ cancel \in BOOLEAN
    <3>1. queue = << >> /\ calls = 0 /\ cancel = FALSE
      BY DEF Init
    <3>2. << >> \in Seq(Notice)
      OBVIOUS
    <3> QED
      BY <3>1, <3>2, Zenon
  <2>2. setup \in Setup /\ pc = "start" /\ terminal = "Running"
    BY DEF Init
  <2> QED
    BY <1>2, <2>1, <2>2 DEF TypeOK
<1>4. /\ st.turns = 0 /\ ~st.maxReport /\ st.visible = "none" /\ ~st.reportAsked
  BY DEF Init
<1>5. Counted /\ Spoken /\ ReportGiven /\ NoticesAnswered
  BY <1>4 DEF Init, Counted, InCall, Spoken, ReportGiven, OwesReport, NoticesAnswered
<1> QED
  BY <1>3, <1>5 DEF IInv

\* The invariant holds of every run of the loop.
THEOREM Invariance == Spec => []IInv
  BY InitHolds, StepKeeps, PTL DEF Spec

\* Every state the loop reaches is well typed.
THEOREM TypeCorrect == Spec => []TypeOK
  BY Invariance, PTL DEF IInv

\* A run makes at most one model call more than its turn budget.
THEOREM CallsAreBounded == Spec => []CallsBounded
<1>1. IInv => CallsBounded
  BY CallsLow DEF CallsBounded
<1> QED
  BY <1>1, Invariance, PTL

\* A run that was asked for a report does not fail or run out without one.
THEOREM ReportIsGiven == Spec => []ReportGiven
  BY Invariance, PTL DEF IInv

\* A run with history completes over no notice that the model has not read.
THEOREM NoticesAreAnswered == Spec => []NoticesAnswered
  BY Invariance, PTL DEF IInv
=============================================================================
