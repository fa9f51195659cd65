------------------------- MODULE TaskManagerProofs -------------------------
(***************************************************************************)
(* Proofs about TaskManager, for any number of tasks, killers, sessions,   *)
(* groups and requests and any size of the event queue.                    *)
(*                                                                         *)
(* Who may finish a task is what the invariants turn on: a killer only     *)
(* ever says Killed, a worker finishes its own task only, and only once it *)
(* was spawned.  So a task whose launch has not passed start has no other  *)
(* outcome than Killed, and a commit that finds the record active is the   *)
(* first one since the record was last made active, and each task lives    *)
(* the life its observers expect (TaskLife).                               *)
(***************************************************************************)
EXTENDS CoordinatorTurn, WellFoundedInduction, SequenceTheorems, TLAPS

\* Ids are given out in order, and nothing is known of a task before its creation.
Numbering ==
  \A t \in Task :
    /\ launch[t] = "none" <=> t >= next
    /\ status[t] = "Absent" <=> t >= next
    /\ t \in owners => launch[t] = "registered"

\* A future exists once launch has spawned it, and finishes its own task.
Workers ==
  \A t \in Task :
    /\ worker[t] # "none" => launch[t] \in {"spawned", "registered"}
    /\ pc[t] # "idle" => worker[t] = "finishing" /\ target[t] = t

\* Whoever is inside finish_with_activity has a task and a verdict, a killer no
\* other than Killed; the steps after the commit that concern a group have one.
Finishers ==
  \A p \in Proc :
    /\ pc[p] # "idle" => /\ target[p] \in Task /\ verdict[p] \in Terminal
                         /\ status[target[p]] # "Absent"
    /\ p \in Killer /\ pc[p] # "idle" => verdict[p] = "Killed"
    /\ pc[p] \in {"barrier", "fanin"} => GroupOf(target[p]) # NoGroup
    /\ pc[p] # "fanin" => seen[p] = {}

\* What status and committed outcomes say of each other, by how far the launch is.
Settled(t) ==
  \/ status[t] \in {"Absent", "Pending"} /\ outcomes[t] = << >>
  \/ status[t] = "Killed" /\ outcomes[t] = <<"Killed">>
  \/ /\ launch[t] \in {"started", "spawned", "registered"}
     /\ \/ status[t] = "Running" /\ outcomes[t] \in {<< >>, <<"Killed">>}
        \/ status[t] \in Terminal /\ outcomes[t] \in {<<status[t]>>, <<"Killed", status[t]>>}

Records ==
  \A t \in Task :
    /\ Settled(t)
    /\ launch[t] \in {"started", "spawned", "registered"} => status[t] # "Pending"
    /\ launch[t] \in {"created", "dropped", "configured"} => status[t] \in {"Pending", "Killed"}

\* Members of a group that was found ready have an outcome, and if they are all
\* workers none of them waits for verification.
Ready(T) ==
  \A t \in T :
    /\ outcomes[t] # << >>
    /\ launch[t] \notin {"none", "created"}
    /\ (\A m \in T : TypeOf(m) = "LocalAgent") => validation[t] # "PendingVerification"

Barriers == /\ \A p \in Proc : Ready(seen[p])
            /\ \A f \in fanins : Ready(f.of)

IInv == StateTypeOK /\ QueueTypeOK /\ Numbering /\ Workers /\ Finishers /\
        Records /\ Barriers

-----------------------------------------------------------------------------
\* Every set of natural numbers that is not empty has a least element.
LEMMA LeastNat ==
  ASSUME NEW T \in SUBSET Nat, T # {}
  PROVE  \E m \in T : \A k \in T : m <= k
<1> DEFINE R == OpToRel(<, Nat)
<1>1. IsWellFoundedOn(R, Nat)
  BY NatLessThanWellFounded
<1>2. \A x, y \in Nat : <<y, x>> \in R <=> y < x
  BY DEF OpToRel
<1> HIDE DEF R
<1>3. PICK m \in T : \A k \in T : ~ (<<k, m>> \in R)
  BY <1>1, WFMin
<1>4. \A k \in T : k \in Nat /\ m \in Nat /\ ~ (k < m)
  BY <1>2, <1>3
<1> QED BY <1>4

\* What holds of n whenever it holds of all smaller numbers holds of every number
\* up to N: the set of those up to N for which it fails is empty.
LEMMA NoLeastFailure ==
  ASSUME NEW N \in Nat, NEW T \in SUBSET (0 .. N),
         \A n \in 0 .. N : (\A k \in 0 .. N : k < n => k \notin T) => n \notin T
  PROVE  T = {}
<1>1. SUFFICES ASSUME T # {} PROVE FALSE
  OBVIOUS
<1>2. PICK n \in T : \A k \in T : n <= k
  BY <1>1, LeastNat
<1> QED BY <1>2

\* What a drain leaves in the queue is a queue of the same events, no longer than
\* before.
LEMMA RestType ==
  ASSUME NEW S, NEW es \in Seq(S), NEW s
  PROVE  Rest(es, s) \in Seq(S) /\ Len(Rest(es, s)) <= Len(es)
<1> DEFINE N == Len(es)
           Step(f, n) ==
             IF n = 0 THEN << >>
             ELSE IF es[n].session = s THEN f[n - 1] ELSE Append(f[n - 1], es[n])
           Upto(m) == \E f : f = [n \in 0 .. m |-> Step(f, n)]
           f == CHOOSE f : f = [n \in 0 .. N |-> Step(f, n)]
<1>1. N \in Nat
  BY LenProperties
<1> DEFINE Bad == {m \in 0 .. N : ~Upto(m)}
<1>2. Bad = {}
  <2>1. ASSUME NEW m \in 0 .. N, \A k \in 0 .. N : k < m => k \notin Bad
        PROVE  m \notin Bad
    <3>1. CASE m = 0
      <4>1. [n \in 0 .. 0 |-> << >>] =
              [n \in 0 .. 0 |-> Step([k \in 0 .. 0 |-> << >>], n)]
        OBVIOUS
      <4> QED BY <3>1, <4>1
    <3>2. CASE m # 0
      <4>1. m - 1 \in 0 .. N /\ m - 1 < m
        BY <1>1, <3>2
      <4>2. Upto(m - 1)
        BY <2>1, <4>1
      <4>3. PICK g : g = [n \in 0 .. m - 1 |-> Step(g, n)]
        BY <4>2
      <4> DEFINE h == [n \in 0 .. m |-> Step(g, n)]
      <4>4. \A k \in 0 .. m - 1 : h[k] = g[k]
        <5>1. \A k \in 0 .. m - 1 : k \in 0 .. m
          BY <1>1
        <5>2. \A k \in 0 .. m - 1 : g[k] = Step(g, k)
          BY <4>3
        <5> HIDE DEF Step
        <5> QED BY <5>1, <5>2
      <4>5. \A n \in 0 .. m : n # 0 => n - 1 \in 0 .. m - 1
        BY <1>1
      <4> HIDE DEF h
      <4>6. \A n \in 0 .. m : Step(h, n) = Step(g, n)
        BY <4>4, <4>5
      <4>7. h = [n \in 0 .. m |-> Step(h, n)]
        <5> HIDE DEF Step
        <5> QED BY <4>6 DEF h
      <4> QED BY <4>7
    <3> QED BY <3>1, <3>2
  <2> HIDE DEF Bad
  <2>2. Bad \in SUBSET (0 .. N)
    BY DEF Bad
  <2> QED BY <1>1, <2>1, <2>2, NoLeastFailure
<1>3. f = [n \in 0 .. N |-> Step(f, n)]
  <2>1. Upto(N)
    <3>1. N \in 0 .. N
      BY <1>1
    <3> HIDE DEF N, Upto
    <3> QED BY <1>2, <3>1
  <2> HIDE DEF Step
  <2> QED BY <2>1
<1>4. Rest(es, s) = f[N]
  BY DEF Rest
<1> HIDE DEF f, N
<1>5. f[0] = << >>
  BY <1>1, <1>3
<1>6. \A n \in 1 .. N : f[n] = IF es[n].session = s THEN f[n - 1]
                               ELSE Append(f[n - 1], es[n])
  <2> TAKE n \in 1 .. N
  <2>1. n \in 0 .. N /\ n # 0
    BY <1>1
  <2>2. f[n] = Step(f, n)
    <3> HIDE DEF Step
    <3> QED BY <1>3, <2>1
  <2> QED BY <2>1, <2>2
<1> DEFINE Wrong == {n \in 0 .. N : ~(f[n] \in Seq(S) /\ Len(f[n]) <= n)}
<1>7. Wrong = {}
  <2>1. ASSUME NEW n \in 0 .. N, \A k \in 0 .. N : k < n => k \notin Wrong
        PROVE  n \notin Wrong
    <3>1. CASE n = 0
      <4>1. << >> \in Seq(S) /\ Len(<< >>) <= 0
        BY EmptySeq
      <4> QED BY <1>5, <3>1, <4>1
    <3>2. CASE n # 0
      <4>1. n \in 1 .. N /\ n - 1 \in 0 .. N /\ n - 1 < n
        BY <1>1, <3>2
      <4>2. es[n] \in S
        BY <4>1, ElementOfSeq DEF N
      <4>3. f[n - 1] \in Seq(S) /\ Len(f[n - 1]) <= n - 1
        BY <2>1, <4>1
      <4>4. CASE es[n].session = s
        <5>1. f[n] = f[n - 1]
          BY <1>6, <4>1, <4>4
        <5>2. Len(f[n - 1]) <= n
          BY <4>1, <4>3, LenProperties
        <5> QED BY <4>3, <5>1, <5>2
      <4>5. CASE es[n].session # s
        <5>1. f[n] = Append(f[n - 1], es[n])
          BY <1>6, <4>1, <4>5
        <5>2. f[n] \in Seq(S) /\ Len(f[n]) = Len(f[n - 1]) + 1
          BY <4>2, <4>3, <5>1, AppendProperties
        <5>3. Len(f[n]) <= n
          BY <4>1, <4>3, <5>2, LenProperties
        <5> QED BY <5>2, <5>3
      <4> QED BY <4>4, <4>5
    <3> QED BY <3>1, <3>2
  <2> HIDE DEF Wrong
  <2>2. Wrong \in SUBSET (0 .. N)
    BY DEF Wrong
  <2> QED BY <1>1, <2>1, <2>2, NoLeastFailure
<1> QED BY <1>1, <1>4, <1>7 DEF N

-----------------------------------------------------------------------------
\* transition_validation_state returns a validation state, and never starts a wait
\* for verification of its own.
LEMMA TransitionType ==
  ASSUME NEW ty, NEW ro, NEW st, NEW c \in Validation
  PROVE  /\ TransitionValidation(ty, ro, st, c) \in Validation
         /\ c # "PendingVerification" =>
              TransitionValidation(ty, ro, st, c) # "PendingVerification"
BY DEF TransitionValidation, Validation

LEMMA AppendToOne == ASSUME NEW a, NEW b PROVE Append(<<a>>, b) = <<a, b>>
<1>1. <<a>> \in Seq({a, b}) /\ <<a, b>> \in Seq({a, b}) /\ Len(<<a>>) = 1
  OBVIOUS
<1>2. /\ Append(<<a>>, b) \in Seq({a, b}) /\ Len(Append(<<a>>, b)) = 2
      /\ Append(<<a>>, b)[1] = a /\ Append(<<a>>, b)[2] = b
  BY <1>1, AppendProperties
<1> DEFINE s == Append(<<a>>, b)
           r == <<a, b>>
<1>3. Len(r) = 2 /\ r[1] = a /\ r[2] = b
  OBVIOUS
<1>4. \A i \in 1 .. Len(s) : s[i] = r[i]
  BY <1>2, <1>3
<1> HIDE DEF s, r
<1>5. s \in Seq({a, b}) /\ r \in Seq({a, b}) /\ Len(s) = Len(r)
  BY <1>1, <1>2, <1>3 DEF s, r
<1>6. s = r
  BY <1>4, <1>5, SeqEqual
<1> QED BY <1>6 DEF s, r

\* An event added to the queue leaves it a queue of events within its limit.
LEMMA EnqueueType ==
  ASSUME QueueTypeOK, NEW e \in Event
  PROVE  Enqueue(e) \in Seq(Event) /\ Len(Enqueue(e)) <= MaxEvents
<1>1. MaxEvents \in Nat \ {0} /\ Len(events) \in Nat
  BY ConstantsAssumption, LenProperties DEF QueueTypeOK
<1>2. CASE Len(events) >= MaxEvents
  <2>1. events # << >>
    BY <1>1, <1>2, EmptySeq
  <2>2. Tail(events) \in Seq(Event) /\ Len(Tail(events)) = Len(events) - 1
    BY <2>1, HeadTailProperties DEF QueueTypeOK
  <2> QED BY <1>1, <1>2, <2>2, AppendProperties DEF Enqueue, QueueTypeOK
<1>3. CASE ~ (Len(events) >= MaxEvents)
  BY <1>1, <1>3, AppendProperties DEF Enqueue, QueueTypeOK
<1> QED BY <1>2, <1>3

\* The events of a task are events.
LEMMA EventType ==
  ASSUME StateTypeOK, NEW t \in Task, NEW v \in Terminal
  PROVE  TaskEvent(t, v) \in Event /\ GroupEvent(t) \in Event
BY DEF StateTypeOK, TaskEvent, GroupEvent, Event, GroupOf, Request, Terminal

-----------------------------------------------------------------------------
\* One lemma per action: it preserves the invariant.

LEMMA CreateStep ==
  ASSUME IInv, NEW r \in Requests, NEW q \in Task \cup {NoTask}, Create(r, q)
  PROVE  IInv'
<1>1. StateTypeOK'
  <2>1. r \in Request /\ MaxTask \in Nat
    BY ConstantsAssumption
  <2> QED BY <2>1 DEF IInv, StateTypeOK, Task, Active, Create, launchVars, recordVars,
                runtimeVars, finishVars, histVars
<1>2. Numbering'
  BY DEF IInv, StateTypeOK, Numbering, Task, Create, runtimeVars
<1>3. Workers'
  BY DEF IInv, StateTypeOK, Numbering, Workers, Create, runtimeVars, finishVars
<1>4. Finishers'
  BY DEF IInv, StateTypeOK, Numbering, Finishers, GroupOf, Configured, Create,
     finishVars, histVars
<1>5. Records'
  BY DEF IInv, StateTypeOK, Numbering, Records, Settled, Create, histVars
<1>6. Barriers'
  BY DEF IInv, StateTypeOK, Numbering, Barriers, Ready, TypeOf, Create, histVars
<1>7. QueueTypeOK'
  BY DEF IInv, QueueTypeOK, Create, launchVars, recordVars, runtimeVars, finishVars,
     histVars
<1> QED BY <1>1, <1>2, <1>3, <1>4, <1>5, <1>6, <1>7 DEF IInv

LEMMA ConfigureStep ==
  ASSUME IInv, NEW t \in Task, Configure(t)
  PROVE  IInv'
<1>1. StateTypeOK'
  BY DEF IInv, StateTypeOK, Validation, Configure, launchVars, recordVars,
     runtimeVars, finishVars, histVars
<1>2. Numbering'
  BY DEF IInv, Numbering, Configure, runtimeVars
<1>3. Workers'
  BY DEF IInv, Workers, Configure, runtimeVars, finishVars
<1>4. Finishers'
  BY DEF IInv, Finishers, GroupOf, Configured, Configure, finishVars, histVars
<1>5. Records'
  BY DEF IInv, Records, Settled, Configure, histVars
<1>6. Barriers'
  BY DEF IInv, Barriers, Ready, TypeOf, Configure, histVars
<1>7. QueueTypeOK'
  BY DEF IInv, QueueTypeOK, Configure, launchVars, recordVars, runtimeVars,
     finishVars, histVars
<1> QED BY <1>1, <1>2, <1>3, <1>4, <1>5, <1>6, <1>7 DEF IInv

LEMMA DropCallStep ==
  ASSUME IInv, NEW t \in Task, DropCall(t)
  PROVE  IInv'
<1>1. StateTypeOK'
  BY DEF IInv, StateTypeOK, DropCall, launchVars, recordVars,
     runtimeVars, finishVars, histVars
<1>2. Numbering'
  BY DEF IInv, Numbering, DropCall, recordVars, runtimeVars
<1>3. Workers'
  BY DEF IInv, Workers, DropCall, runtimeVars, finishVars
<1>4. Finishers'
  BY DEF IInv, Finishers, GroupOf, Configured, DropCall, recordVars, finishVars, histVars
<1>5. Records'
  BY DEF IInv, Records, Settled, DropCall, recordVars, histVars
<1>6. Barriers'
  BY DEF IInv, Barriers, Ready, TypeOf, DropCall, recordVars, histVars
<1>7. QueueTypeOK'
  BY DEF IInv, QueueTypeOK, DropCall
<1> QED BY <1>1, <1>2, <1>3, <1>4, <1>5, <1>6, <1>7 DEF IInv

LEMMA StartStep ==
  ASSUME IInv, NEW t \in Task, Start(t)
  PROVE  IInv'
<1>1. StateTypeOK'
  BY DEF IInv, StateTypeOK, Active, Start, launchVars, recordVars, runtimeVars,
     finishVars, histVars
<1>2. Numbering'
  BY DEF IInv, Numbering, Start, runtimeVars
<1>3. Workers'
  BY DEF IInv, Workers, Start, runtimeVars, finishVars
<1>4. Finishers'
  BY DEF IInv, Finishers, GroupOf, Configured, Start, finishVars, histVars
<1>5. Records'
  <2>1. ASSUME NEW u \in Task, u # t
        PROVE  status'[u] = status[u] /\ launch'[u] = launch[u] /\ outcomes'[u] = outcomes[u]
    BY <2>1 DEF IInv, StateTypeOK, Start, histVars
  <2>2. /\ status'[t] = "Running" /\ launch'[t] = "started" /\ outcomes' = outcomes
        /\ launch[t] = "configured"
    BY DEF IInv, StateTypeOK, Start, histVars
  <2>3. outcomes[t] \in {<< >>, <<"Killed">>}
    BY <2>2 DEF IInv, Records, Settled
  <2>4. Settled(t)'
    BY <2>2, <2>3 DEF Settled
  <2> QED BY <2>1, <2>2, <2>4 DEF IInv, Records, Settled
<1>6. Barriers'
  BY DEF IInv, Barriers, Ready, TypeOf, Start, histVars
<1>7. QueueTypeOK'
  BY DEF IInv, QueueTypeOK, Start, launchVars, recordVars, runtimeVars, finishVars,
     histVars
<1> QED BY <1>1, <1>2, <1>3, <1>4, <1>5, <1>6, <1>7 DEF IInv

LEMMA SpawnStep ==
  ASSUME IInv, NEW t \in Task, Spawn(t)
  PROVE  IInv'
<1>1. StateTypeOK'
  BY DEF IInv, StateTypeOK, Spawn, launchVars, recordVars, runtimeVars, finishVars,
     histVars
<1>2. Numbering'
  BY DEF IInv, Numbering, Spawn, recordVars
<1>3. Workers'
  BY DEF IInv, StateTypeOK, Workers, Spawn, finishVars
<1>4. Finishers'
  BY DEF IInv, Finishers, GroupOf, Configured, Spawn, launchVars, recordVars,
     runtimeVars, finishVars, histVars
<1>5. Records'
  BY DEF IInv, Records, Settled, Spawn, recordVars, histVars
<1>6. Barriers'
  BY DEF IInv, Barriers, Ready, TypeOf, Spawn, recordVars, histVars
<1>7. QueueTypeOK'
  BY DEF IInv, QueueTypeOK, Spawn, launchVars, recordVars, runtimeVars, finishVars,
     histVars
<1> QED BY <1>1, <1>2, <1>3, <1>4, <1>5, <1>6, <1>7 DEF IInv

LEMMA RegisterStep ==
  ASSUME IInv, NEW t \in Task, Register(t)
  PROVE  IInv'
<1>1. StateTypeOK'
  BY DEF IInv, StateTypeOK, Register, launchVars, recordVars, runtimeVars, finishVars,
     histVars
<1>2. Numbering'
  BY DEF IInv, StateTypeOK, Numbering, Register, recordVars
<1>3. Workers'
  BY DEF IInv, Workers, Register, finishVars
<1>4. Finishers'
  BY DEF IInv, Finishers, GroupOf, Configured, Register, launchVars, recordVars,
     runtimeVars, finishVars, histVars
<1>5. Records'
  BY DEF IInv, Records, Settled, Register, recordVars, histVars
<1>6. Barriers'
  BY DEF IInv, Barriers, Ready, TypeOf, Register, recordVars, histVars
<1>7. QueueTypeOK'
  BY DEF IInv, QueueTypeOK, Register, launchVars, recordVars, runtimeVars, finishVars,
     histVars
<1> QED BY <1>1, <1>2, <1>3, <1>4, <1>5, <1>6, <1>7 DEF IInv

LEMMA WorkerFinishStep ==
  ASSUME IInv, NEW t \in Task, NEW v \in {"Completed", "Failed"}, WorkerFinish(t, v)
  PROVE  IInv'
<1>1. StateTypeOK'
  BY DEF IInv, StateTypeOK, Terminal, WorkerFinish, launchVars, recordVars,
     runtimeVars, finishVars, histVars
<1>2. Numbering'
  BY DEF IInv, Numbering, WorkerFinish, launchVars, recordVars
<1>3. Workers'
  BY DEF IInv, StateTypeOK, Workers, WorkerFinish, launchVars
<1>4. Finishers'
  <2>1. t \in Proc /\ t \notin Killer /\ pc[t] = "idle"
    BY ConstantsAssumption DEF IInv, Workers, WorkerFinish, Proc
  <2>2. status[t] # "Absent"
    BY DEF IInv, StateTypeOK, Numbering, Workers, WorkerFinish
  <2> QED BY <2>1, <2>2 DEF IInv, StateTypeOK, Finishers, Terminal, GroupOf,
     Configured,
                WorkerFinish, launchVars, recordVars, histVars
<1>5. Records'
  BY DEF IInv, Records, Settled, WorkerFinish, launchVars, recordVars, runtimeVars,
     finishVars, histVars
<1>6. Barriers'
  BY DEF IInv, Barriers, Ready, TypeOf, WorkerFinish, launchVars, recordVars,
     runtimeVars, finishVars, histVars
<1>7. QueueTypeOK'
  BY DEF IInv, QueueTypeOK, WorkerFinish, launchVars, recordVars, runtimeVars,
     finishVars, histVars
<1> QED BY <1>1, <1>2, <1>3, <1>4, <1>5, <1>6, <1>7 DEF IInv

LEMMA WorkerDropStep ==
  ASSUME IInv, NEW t \in Task, WorkerDrop(t)
  PROVE  IInv'
<1>1. StateTypeOK'
  BY DEF IInv, StateTypeOK, WorkerDrop, launchVars, recordVars, runtimeVars,
     finishVars, histVars
<1>2. Numbering'
  BY DEF IInv, Numbering, WorkerDrop, launchVars, recordVars
<1>3. Workers'
  BY DEF IInv, Workers, WorkerDrop, launchVars, finishVars
<1>4. Finishers'
  BY DEF IInv, Finishers, GroupOf, Configured, WorkerDrop, launchVars, recordVars,
     runtimeVars, finishVars, histVars
<1>5. Records'
  BY DEF IInv, Records, Settled, WorkerDrop, launchVars, recordVars, histVars
<1>6. Barriers'
  BY DEF IInv, Barriers, Ready, TypeOf, WorkerDrop, launchVars, recordVars, histVars
<1>7. QueueTypeOK'
  BY DEF IInv, QueueTypeOK, WorkerDrop, launchVars, recordVars, runtimeVars,
     finishVars, histVars
<1> QED BY <1>1, <1>2, <1>3, <1>4, <1>5, <1>6, <1>7 DEF IInv

LEMMA WorkerReturnStep ==
  ASSUME IInv, NEW t \in Task, WorkerReturn(t)
  PROVE  IInv'
<1>1. StateTypeOK'
  BY DEF IInv, StateTypeOK, WorkerReturn, launchVars, recordVars, runtimeVars,
     finishVars, histVars
<1>2. Numbering'
  BY DEF IInv, Numbering, WorkerReturn, launchVars, recordVars
<1>3. Workers'
  BY DEF IInv, Workers, WorkerReturn, launchVars, finishVars
<1>4. Finishers'
  BY DEF IInv, Finishers, GroupOf, Configured, WorkerReturn, launchVars, recordVars,
     runtimeVars, finishVars, histVars
<1>5. Records'
  BY DEF IInv, Records, Settled, WorkerReturn, launchVars, recordVars, histVars
<1>6. Barriers'
  BY DEF IInv, Barriers, Ready, TypeOf, WorkerReturn, launchVars, recordVars, histVars
<1>7. QueueTypeOK'
  BY DEF IInv, QueueTypeOK, WorkerReturn, launchVars, recordVars, runtimeVars,
     finishVars, histVars
<1> QED BY <1>1, <1>2, <1>3, <1>4, <1>5, <1>6, <1>7 DEF IInv

LEMMA KillAnyStep ==
  ASSUME IInv, NEW k \in Killer, NEW t \in Task, KillAny(k, t)
  PROVE  IInv'
<1>0. /\ pc[k] = "idle" /\ status[t] # "Absent"
      /\ pc' = [pc EXCEPT ![k] = "abort"]
      /\ target' = [target EXCEPT ![k] = t]
      /\ verdict' = [verdict EXCEPT ![k] = "Killed"]
      /\ UNCHANGED <<launchVars, recordVars, runtimeVars, events, histVars>>
  <2>1. BeginKill(k, t)
    BY DEF KillAny, Kill, ForceKill, Hibernate
  <2>2. status[t] # "Absent"
    BY DEF IInv, Numbering, KillAny, Kill, ForceKill, Hibernate, Active
  <2> QED BY <2>1, <2>2 DEF BeginKill
<1>1. StateTypeOK'
  BY <1>0 DEF IInv, StateTypeOK, Terminal, launchVars, recordVars, runtimeVars,
     histVars
<1>2. Numbering'
  BY <1>0 DEF IInv, Numbering, launchVars, recordVars, runtimeVars, histVars
<1>3. Workers'
  BY <1>0, ConstantsAssumption DEF IInv, Workers, launchVars, runtimeVars
<1>4. Finishers'
  BY <1>0 DEF IInv, StateTypeOK, Finishers, Terminal, GroupOf, Configured, launchVars,
     recordVars, histVars
<1>5. Records'
  BY <1>0 DEF IInv, Records, Settled, launchVars, recordVars, runtimeVars, histVars
<1>6. Barriers'
  BY <1>0 DEF IInv, Barriers, Ready, TypeOf, launchVars, recordVars, histVars
<1>7. QueueTypeOK'
  BY <1>0 DEF IInv, QueueTypeOK
<1> QED BY <1>1, <1>2, <1>3, <1>4, <1>5, <1>6, <1>7 DEF IInv

LEMMA AbortStep ==
  ASSUME IInv, NEW k \in Killer, Abort(k)
  PROVE  IInv'
<1>1. StateTypeOK'
  BY DEF IInv, StateTypeOK, Abort, launchVars, recordVars, runtimeVars, finishVars,
     histVars
<1>2. Numbering'
  BY DEF IInv, Numbering, Abort, launchVars, recordVars
<1>3. Workers'
  BY DEF IInv, Workers, Abort, launchVars
<1>4. Finishers'
  BY DEF IInv, Finishers, GroupOf, Configured, Abort, launchVars, recordVars,
     runtimeVars, finishVars, histVars
<1>5. Records'
  BY DEF IInv, Records, Settled, Abort, launchVars, recordVars, runtimeVars,
     finishVars, histVars
<1>6. Barriers'
  BY DEF IInv, Barriers, Ready, TypeOf, Abort, launchVars, recordVars, runtimeVars,
     finishVars, histVars
<1>7. QueueTypeOK'
  BY DEF IInv, QueueTypeOK, Abort, launchVars, recordVars, runtimeVars, finishVars,
     histVars
<1> QED BY <1>1, <1>2, <1>3, <1>4, <1>5, <1>6, <1>7 DEF IInv

LEMMA FinishClearStep ==
  ASSUME IInv, NEW p \in Proc, FinishClear(p)
  PROVE  IInv'
<1>1. StateTypeOK'
  BY DEF IInv, StateTypeOK, FinishClear, GoTo, launchVars, recordVars, runtimeVars,
     finishVars, histVars
<1>2. Numbering'
  BY DEF IInv, Numbering, FinishClear, launchVars, recordVars
<1>3. Workers'
  BY DEF IInv, Workers, FinishClear, GoTo, launchVars
<1>4. Finishers'
  BY DEF IInv, Finishers, GroupOf, Configured, FinishClear, GoTo, launchVars,
     recordVars, runtimeVars, finishVars, histVars
<1>5. Records'
  BY DEF IInv, Records, Settled, FinishClear, launchVars, recordVars, runtimeVars,
     finishVars, histVars
<1>6. Barriers'
  BY DEF IInv, Barriers, Ready, TypeOf, FinishClear, launchVars, recordVars,
     runtimeVars, finishVars, histVars
<1>7. QueueTypeOK'
  BY DEF IInv, QueueTypeOK, FinishClear, GoTo, launchVars, recordVars, runtimeVars,
     finishVars, histVars
<1> QED BY <1>1, <1>2, <1>3, <1>4, <1>5, <1>6, <1>7 DEF IInv

LEMMA FinishTooLateStep ==
  ASSUME IInv, NEW p \in Proc, FinishTooLate(p)
  PROVE  IInv'
<1>1. StateTypeOK'
  BY DEF IInv, StateTypeOK, FinishTooLate, Return, launchVars, recordVars,
     runtimeVars, finishVars, histVars
<1>2. Numbering'
  BY DEF IInv, Numbering, FinishTooLate, launchVars, recordVars, runtimeVars
<1>3. Workers'
  BY DEF IInv, StateTypeOK, Workers, FinishTooLate, Return, launchVars, runtimeVars
<1>4. Finishers'
  BY DEF IInv, StateTypeOK, Finishers, GroupOf, Configured, FinishTooLate, Return,
     launchVars, recordVars, finishVars, histVars
<1>5. Records'
  BY DEF IInv, Records, Settled, FinishTooLate, launchVars, recordVars, finishVars,
     histVars
<1>6. Barriers'
  BY DEF IInv, Barriers, Ready, TypeOf, FinishTooLate, launchVars, recordVars,
     finishVars, histVars
<1>7. QueueTypeOK'
  BY DEF IInv, QueueTypeOK, FinishTooLate, Return, launchVars, recordVars,
     runtimeVars, finishVars, histVars
<1> QED BY <1>1, <1>2, <1>3, <1>4, <1>5, <1>6, <1>7 DEF IInv

LEMMA FinishCommitStep ==
  ASSUME IInv, NEW p \in Proc, FinishCommit(p)
  PROVE  IInv'
<1>0. PICK t \in Task :
        /\ t = target[p] /\ verdict[p] \in Terminal /\ status[t] \in Active
        /\ p \in Killer => verdict[p] = "Killed"
        /\ p \in Task => launch[t] \in {"spawned", "registered"}
  BY DEF IInv, StateTypeOK, Finishers, Workers, FinishCommit, Terminal, Active
<1>1. StateTypeOK'
  <2>1. validation' \in [Task -> Validation]
    BY <1>0, TransitionType DEF IInv, StateTypeOK, FinishCommit, Settle
  <2>2. outcomes' \in [Task -> Seq(Terminal)]
    BY <1>0, AppendProperties DEF IInv, StateTypeOK, FinishCommit, Settle
  <2> QED BY <1>0, <2>1, <2>2 DEF IInv, StateTypeOK, FinishCommit, Settle, GoTo,
                launchVars, runtimeVars
<1>2. Numbering'
  BY <1>0 DEF IInv, StateTypeOK, Numbering, Active, Terminal, FinishCommit, Settle,
              launchVars, runtimeVars
<1>3. Workers'
  BY DEF IInv, Workers, FinishCommit, Settle, GoTo, launchVars, recordVars,
     runtimeVars, finishVars, histVars
<1>4. Finishers'
  <2>1. \A q \in Proc : pc'[q] # "idle" => pc[q] # "idle" /\ target'[q] = target[q] /\ verdict'[q] = verdict[q]
    BY DEF IInv, StateTypeOK, FinishCommit, Settle, GoTo
  <2>2. \A u \in Task : GroupOf(u)' = GroupOf(u)
    BY DEF GroupOf, Configured, FinishCommit, Settle, launchVars
  <2>3. \A u \in Task : status[u] # "Absent" => status'[u] # "Absent"
    BY <1>0 DEF IInv, StateTypeOK, FinishCommit, Settle, Terminal
  <2>4. \A q \in Proc : pc'[q] \in {"barrier", "fanin"} => GroupOf(target[q]) # NoGroup
    BY DEF IInv, StateTypeOK, Finishers, FinishCommit, Settle, GoTo
  <2>5. \A q \in Proc : pc'[q] # "fanin" => seen'[q] = {}
    BY DEF IInv, StateTypeOK, Finishers, FinishCommit, Settle, GoTo
  <2> QED BY <2>1, <2>2, <2>3, <2>4, <2>5 DEF IInv, Finishers
<1>5. Records'
  <2>1. \A u \in Task : u # t => status'[u] = status[u] /\ outcomes'[u] = outcomes[u]
    BY <1>0 DEF IInv, StateTypeOK, FinishCommit, Settle
  <2>2. launch' = launch /\ status'[t] = verdict[p] /\ outcomes'[t] = Append(outcomes[t], verdict[p])
    BY <1>0 DEF IInv, StateTypeOK, FinishCommit, Settle, launchVars
  <2>3. CASE launch[t] \in {"created", "dropped", "configured"}
    <3>1. verdict[p] = "Killed" /\ status[t] = "Pending" /\ outcomes[t] = << >>
      BY <1>0, <2>3 DEF IInv, Records, Settled, Proc, Active, Terminal
    <3>2. outcomes'[t] = <<"Killed">>
      BY <2>2, <3>1
    <3> QED BY <1>0, <2>1, <2>2, <3>1, <3>2 DEF IInv, Records, Settled, Terminal
  <2>4. CASE launch[t] \in {"started", "spawned", "registered"}
    <3>1. status[t] = "Running" /\ outcomes[t] \in {<< >>, <<"Killed">>}
      BY <1>0, <2>4 DEF IInv, Records, Settled, Active, Terminal
    <3>2. outcomes'[t] \in {<<verdict[p]>>, <<"Killed", verdict[p]>>}
      <4>1. CASE outcomes[t] = << >>
        BY <2>2, <4>1
      <4>2. CASE outcomes[t] = <<"Killed">>
        BY <2>2, <4>2, AppendToOne
      <4> QED BY <3>1, <4>1, <4>2
    <3>3. Settled(t)'
      BY <1>0, <2>2, <2>4, <3>2 DEF Settled
    <3>4. \A u \in Task : u # t => Settled(u)'
      BY <2>1, <2>2 DEF IInv, Records, Settled
    <3>5. status'[t] \in Terminal
      BY <1>0, <2>2
    <3> QED BY <2>1, <2>2, <2>4, <3>3, <3>4, <3>5 DEF IInv, Records, Terminal
  <2>5. launch[t] # "none"
    BY <1>0 DEF IInv, Numbering, Active
  <2> QED BY <1>0, <2>3, <2>4, <2>5 DEF IInv, StateTypeOK
<1>6. Barriers'
  <2>1. \A u \in Task : outcomes[u] # << >> => outcomes'[u] # << >>
    <3>1. Append(outcomes[t], verdict[p]) # << >>
      <4>1. outcomes[t] \in Seq(Terminal)
        BY DEF IInv, StateTypeOK
      <4>2. Len(Append(outcomes[t], verdict[p])) # 0
        BY <1>0, <4>1, AppendProperties, LenProperties
      <4> QED BY <4>2, EmptySeq
    <3> QED BY <1>0, <3>1 DEF IInv, StateTypeOK, FinishCommit, Settle
  <2>2. \A u \in Task : validation[u] # "PendingVerification" =>
                        validation'[u] # "PendingVerification"
    BY <1>0, TransitionType DEF IInv, StateTypeOK, FinishCommit, Settle
  <2>3. ASSUME NEW T \in SUBSET Task, Ready(T) PROVE Ready(T)'
    BY <2>1, <2>2, <2>3 DEF Ready, TypeOf, FinishCommit, Settle, launchVars
  <2>4. \A q \in Proc : seen[q] \in SUBSET Task
    BY DEF IInv, StateTypeOK
  <2>5. \A f \in fanins : f.of \in SUBSET Task
    BY DEF IInv, StateTypeOK
  <2> QED BY <2>3, <2>4, <2>5 DEF IInv, Barriers, FinishCommit, Settle
<1>7. QueueTypeOK'
  BY <1>0, EventType, EnqueueType DEF IInv, QueueTypeOK, FinishCommit, Settle
<1> QED BY <1>1, <1>2, <1>3, <1>4, <1>5, <1>6, <1>7 DEF IInv

LEMMA FinishBarrierStep ==
  ASSUME IInv, NEW p \in Proc, FinishBarrier(p)
  PROVE  IInv'
<1> DEFINE g == GroupOf(target[p])
           M == {u \in Task : status[u] # "Absent" /\ GroupOf(u) = g}
<1>0. g # NoGroup /\ M \in SUBSET Task /\ Members(g) = M
  BY DEF IInv, Finishers, FinishBarrier, Members
<1>1. StateTypeOK'
  <2> HIDE DEF M
  <2> QED BY <1>0 DEF IInv, StateTypeOK, FinishBarrier, GoTo, launchVars, recordVars,
     runtimeVars
<1>2. Numbering'
  BY DEF IInv, Numbering, FinishBarrier, launchVars, recordVars, runtimeVars,
     finishVars, histVars
<1>3. Workers'
  BY DEF IInv, Workers, FinishBarrier, GoTo, launchVars, runtimeVars, finishVars,
     histVars
<1>4. Finishers'
  BY DEF IInv, StateTypeOK, Finishers, GroupOf, Configured, FinishBarrier, GoTo,
     launchVars, recordVars, finishVars, histVars
<1>5. Records'
  BY DEF IInv, Records, Settled, FinishBarrier, launchVars, recordVars, finishVars,
     histVars
<1>6. Barriers'
  <2>1. GroupReady(g) => Ready(M)
    <3>1. SUFFICES ASSUME GroupReady(g) PROVE Ready(M)
      OBVIOUS
    <3>2. \A u \in M : status[u] \notin Active
      BY <1>0, <3>1 DEF GroupReady
    <3>3. \A u \in M : outcomes[u] # << >>
      <4> TAKE u \in M
      <4>1. u \in Task /\ status[u] \notin {"Absent", "Pending", "Running"}
        BY <3>2 DEF Active
      <4>2. Settled(u)
        BY <4>1 DEF IInv, Records
      <4>3. outcomes[u] \in {<<"Killed">>, <<status[u]>>, <<"Killed", status[u]>>}
        BY <4>1, <4>2 DEF Settled
      <4> QED BY <4>3
    <3>4. \A u \in M : launch[u] \notin {"none", "created"}
      BY <1>0 DEF GroupOf, Configured
    <3>5. (\A u \in M : TypeOf(u) = "LocalAgent") =>
             \A u \in M : validation[u] # "PendingVerification"
      BY <1>0, <3>1 DEF GroupReady, AllAgents
    <3> QED BY <3>3, <3>4, <3>5 DEF Ready
  <2>2. Ready({})
    BY DEF Ready
  <2>3. \A q \in Proc : \/ seen'[q] = seen[q] \/ seen'[q] = {}
                        \/ GroupReady(g) /\ seen'[q] = M
    <3> HIDE DEF M
    <3>1. seen' = [seen EXCEPT ![p] = IF GroupReady(g) THEN M ELSE {}]
      BY <1>0 DEF FinishBarrier
    <3>2. CASE GroupReady(g)
      <4>1. seen' = [seen EXCEPT ![p] = M]
        BY <3>1, <3>2
      <4> QED BY <3>2, <4>1 DEF IInv, StateTypeOK
    <3>3. CASE ~GroupReady(g)
      <4>1. seen' = [seen EXCEPT ![p] = {}]
        BY <3>1, <3>3
      <4> QED BY <4>1 DEF IInv, StateTypeOK
    <3> QED BY <3>2, <3>3
  <2>4. \A q \in Proc : Ready(seen'[q])
    <3> HIDE DEF M
    <3> QED BY <2>1, <2>2, <2>3 DEF IInv, Barriers
  <2>5. \A T : Ready(T) => Ready(T)'
    BY DEF Ready, TypeOf, FinishBarrier, launchVars, recordVars
  <2> QED BY <2>4, <2>5 DEF IInv, Barriers, FinishBarrier
<1>7. QueueTypeOK'
  BY DEF IInv, QueueTypeOK, FinishBarrier, GoTo, launchVars, recordVars, runtimeVars,
     finishVars, histVars
<1> QED BY <1>1, <1>2, <1>3, <1>4, <1>5, <1>6, <1>7 DEF IInv

LEMMA FinishFanInStep ==
  ASSUME IInv, NEW p \in Proc, FinishFanIn(p)
  PROVE  IInv'
<1>0. /\ target[p] \in Task /\ GroupOf(target[p]) \in Group /\ seen[p] \in SUBSET Task
      /\ verdict[p] \in Terminal
  BY DEF IInv, StateTypeOK, Finishers, FinishFanIn, GroupOf, Request
<1>1. StateTypeOK'
  BY <1>0 DEF IInv, StateTypeOK, FinishFanIn, GoTo, launchVars, recordVars,
     runtimeVars
<1>2. Numbering'
  BY DEF IInv, Numbering, FinishFanIn, launchVars, recordVars, runtimeVars,
     finishVars, histVars
<1>3. Workers'
  BY DEF IInv, Workers, FinishFanIn, GoTo, launchVars, runtimeVars, finishVars,
     histVars
<1>4. Finishers'
  BY DEF IInv, StateTypeOK, Finishers, GroupOf, Configured, FinishFanIn, GoTo,
     launchVars, recordVars, finishVars, histVars
<1>5. Records'
  BY DEF IInv, Records, Settled, FinishFanIn, launchVars, recordVars, finishVars,
     histVars
<1>6. Barriers'
  BY DEF IInv, Barriers, Ready, TypeOf, FinishFanIn, launchVars, recordVars,
     finishVars, histVars
<1>7. QueueTypeOK'
  BY <1>0, EventType, EnqueueType DEF IInv, QueueTypeOK, FinishFanIn
<1> QED BY <1>1, <1>2, <1>3, <1>4, <1>5, <1>6, <1>7 DEF IInv

LEMMA FinishPropagateStep ==
  ASSUME IInv, NEW p \in Proc, FinishPropagate(p)
  PROVE  IInv'
<1>0. /\ Propagated(target[p]) \in Validation \ {"PendingVerification"}
      /\ ParentOf(target[p]) \in Task \cup {NoTask}
  BY DEF IInv, StateTypeOK, Finishers, FinishPropagate, Propagated, ParentOf,
     Validation
<1>1. StateTypeOK'
  <2>1. validation' \in [Task -> Validation]
    BY <1>0 DEF IInv, StateTypeOK, FinishPropagate
  <2> QED BY <2>1 DEF IInv, StateTypeOK, FinishPropagate, Return, launchVars,
     runtimeVars, histVars
<1>2. Numbering'
  BY DEF IInv, Numbering, FinishPropagate, launchVars, runtimeVars
<1>3. Workers'
  BY DEF IInv, StateTypeOK, Workers, FinishPropagate, Return, launchVars, runtimeVars
<1>4. Finishers'
  BY DEF IInv, StateTypeOK, Finishers, GroupOf, Configured, FinishPropagate, Return,
     launchVars, finishVars, histVars
<1>5. Records'
  BY DEF IInv, Records, Settled, FinishPropagate, launchVars, finishVars, histVars
<1>6. Barriers'
  <2>1. \A u \in Task : validation[u] # "PendingVerification" =>
                        validation'[u] # "PendingVerification"
    BY <1>0 DEF IInv, StateTypeOK, FinishPropagate
  <2>2. ASSUME NEW T \in SUBSET Task, Ready(T) PROVE Ready(T)'
    BY <2>1, <2>2 DEF Ready, TypeOf, FinishPropagate, launchVars, histVars
  <2> QED BY <2>2 DEF IInv, StateTypeOK, Barriers, FinishPropagate, histVars
<1>7. QueueTypeOK'
  BY DEF IInv, QueueTypeOK, FinishPropagate, Return, launchVars, recordVars,
     runtimeVars, finishVars, histVars
<1> QED BY <1>1, <1>2, <1>3, <1>4, <1>5, <1>6, <1>7 DEF IInv

LEMMA DrainStep ==
  ASSUME IInv, NEW s \in Session, Drain(s)
  PROVE  IInv'
<1>1. StateTypeOK'
  BY DEF IInv, StateTypeOK, Drain, launchVars, recordVars, runtimeVars, finishVars,
     histVars
<1>2. Numbering'
  BY DEF IInv, Numbering, Drain, launchVars, recordVars, runtimeVars
<1>3. Workers'
  BY DEF IInv, Workers, Drain, launchVars, runtimeVars, finishVars
<1>4. Finishers'
  BY DEF IInv, Finishers, GroupOf, Configured, Drain, launchVars, recordVars,
     finishVars, histVars
<1>5. Records'
  BY DEF IInv, Records, Settled, Drain, launchVars, recordVars, histVars
<1>6. Barriers'
  BY DEF IInv, Barriers, Ready, TypeOf, Drain, launchVars, recordVars, histVars
<1>7. QueueTypeOK'
  <2>1. events \in Seq(Event) /\ Len(events) <= MaxEvents
    BY DEF IInv, QueueTypeOK
  <2>2. Rest(events, s) \in Seq(Event) /\ Len(Rest(events, s)) <= Len(events)
    BY <2>1, RestType
  <2>3. Len(Rest(events, s)) <= MaxEvents
    BY <2>1, <2>2, LenProperties, ConstantsAssumption
  <2> QED BY <2>2, <2>3 DEF QueueTypeOK, Drain
<1> QED BY <1>1, <1>2, <1>3, <1>4, <1>5, <1>6, <1>7 DEF IInv
LEMMA StutterStep ==
  ASSUME IInv, UNCHANGED vars
  PROVE  IInv'
BY DEF IInv, StateTypeOK, QueueTypeOK, Numbering, Workers, Finishers, Records,
   Settled,
       Barriers, Ready, TypeOf, GroupOf, Configured, vars, launchVars, recordVars,
       runtimeVars, finishVars, histVars

-----------------------------------------------------------------------------
LEMMA InitInvariant == Init => IInv
<1> SUFFICES ASSUME Init PROVE IInv
  OBVIOUS
<1>1. StateTypeOK
  <2>1. (CHOOSE r \in Requests : TRUE) \in Request
    BY ConstantsAssumption
  <2> QED BY <2>1, ConstantsAssumption, EmptySeq
        DEF Init, StateTypeOK, Proc, Validation, Terminal, Active
<1>2. QueueTypeOK
  BY ConstantsAssumption, EmptySeq DEF Init, QueueTypeOK
<1>3. Numbering /\ Workers
  BY ConstantsAssumption DEF Init, Numbering, Workers, Task, Proc
<1>4. Finishers /\ Records /\ Barriers
  BY DEF Init, Finishers, Records, Settled, Barriers, Ready
<1> QED BY <1>1, <1>2, <1>3, <1>4 DEF IInv

\* The invariant is inductive.
LEMMA NextInvariant == IInv /\ [Next]_vars => IInv'
<1> SUFFICES ASSUME IInv, [Next]_vars PROVE IInv'
  OBVIOUS
<1>1. ASSUME NEW r \in Requests, NEW q \in Task \cup {NoTask}, Create(r, q)
      PROVE  IInv'
  BY <1>1, CreateStep
<1>2. ASSUME NEW t \in Task, Call(t) PROVE IInv'
  BY <1>2, ConfigureStep, DropCallStep, StartStep, SpawnStep, RegisterStep DEF Call, Launch
<1>3. ASSUME NEW t \in Task, Work(t) PROVE IInv'
  BY <1>3, WorkerDropStep, WorkerReturnStep, WorkerFinishStep DEF Work
<1>4. ASSUME NEW k \in Killer, NEW t \in Task, KillAny(k, t) PROVE IInv'
  BY <1>4, KillAnyStep
<1>5. ASSUME NEW k \in Killer, Abort(k) PROVE IInv'
  BY <1>5, AbortStep
<1>6. ASSUME NEW p \in Proc, Finish(p) PROVE IInv'
  BY <1>6, FinishClearStep, FinishTooLateStep, FinishCommitStep, FinishBarrierStep,
     FinishFanInStep, FinishPropagateStep DEF Finish
<1>7. ASSUME NEW s \in Session, Drain(s) PROVE IInv'
  BY <1>7, DrainStep
<1>8. CASE UNCHANGED vars
  BY <1>8, StutterStep
<1> QED BY <1>1, <1>2, <1>3, <1>4, <1>5, <1>6, <1>7, <1>8 DEF Next

LEMMA Invariance == Spec => []IInv
<1>1. Init => IInv
  BY InitInvariant
<1>2. IInv /\ [Next]_vars => IInv'
  BY NextInvariant
<1> QED BY <1>1, <1>2, PTL DEF Spec

-----------------------------------------------------------------------------
\* The type invariant, the bound of the event queue (MAX_QUEUED_EVENTS) included.
THEOREM TypeCorrect == Spec => []TypeOK
<1>1. IInv => TypeOK
  BY DEF IInv, StateTypeOK, QueueTypeOK, TypeOK
<1> QED BY <1>1, Invariance, PTL

\* Any number of threads may race to finish a task (finish_with_activity): one
\* outcome is committed, or two when the task was killed before start.
THEOREM OneOutcome == Spec => []OneOutcomePerLaunch
<1>1. ASSUME IInv PROVE OneOutcomePerLaunch
  <2> SUFFICES ASSUME NEW t \in Task
               PROVE  \/ Len(outcomes[t]) <= 1
                      \/ /\ Len(outcomes[t]) = 2
                         /\ outcomes[t][1] = "Killed"
                         /\ launch[t] \notin {"none", "created", "dropped", "configured"}
    BY DEF OneOutcomePerLaunch
  <2>1. Settled(t)
    BY <1>1 DEF IInv, Records
  <2>2. \/ outcomes[t] \in {<< >>, <<"Killed">>, <<status[t]>>}
        \/ /\ outcomes[t] = <<"Killed", status[t]>>
           /\ launch[t] \in {"started", "spawned", "registered"}
    BY <2>1 DEF Settled
  <2>3. CASE outcomes[t] = <<"Killed", status[t]>>
    BY <2>2, <2>3
  <2>4. CASE outcomes[t] = << >>
    BY <2>4
  <2>5. ASSUME NEW v, outcomes[t] = <<v>> PROVE Len(outcomes[t]) <= 1
    BY <2>5
  <2> QED BY <2>2, <2>3, <2>4, <2>5
<1> QED BY <1>1, Invariance, PTL

\* The status shown is the last outcome committed: a late finisher changes nothing.
THEOREM StatusIsOutcome == Spec => []StatusIsLastOutcome
<1>1. ASSUME IInv PROVE StatusIsLastOutcome
  <2> SUFFICES ASSUME NEW t \in Task, status[t] \in Terminal
               PROVE  outcomes[t] # << >> /\ status[t] = outcomes[t][Len(outcomes[t])]
    BY DEF StatusIsLastOutcome
  <2>1. Settled(t)
    BY <1>1 DEF IInv, Records
  <2>2. outcomes[t] \in {<<status[t]>>, <<"Killed", status[t]>>}
    BY <2>1 DEF Settled, Terminal
  <2>3. CASE outcomes[t] = <<status[t]>>
    BY <2>3
  <2>4. CASE outcomes[t] = <<"Killed", status[t]>>
    BY <2>4
  <2> QED BY <2>2, <2>3, <2>4
<1> QED BY <1>1, Invariance, PTL

-----------------------------------------------------------------------------
(* The life of a task: create, start and the first commit are its steps, and all *)
(* the other critical sections leave it alone.                                   *)

\* Only start makes a task started.
LEMMA StartedSame ==
  ASSUME IInv, NEW t \in Task, NEW l, launch' = [launch EXCEPT ![t] = l],
         t \in Started <=> l \in {"started", "spawned", "registered"}
  PROVE  Started' = Started
<1>1. launch'[t] = l /\ \A u \in Task \ {t} : launch'[u] = launch[u]
  BY DEF IInv, StateTypeOK
<1> QED BY <1>1 DEF Started

LEMMA CreateLives ==
  ASSUME IInv, NEW r \in Requests, NEW q \in Task \cup {NoTask}, Create(r, q)
  PROVE  \E t \in Task : Life!Create(t)
<1>1. next \in Task /\ status[next] = "Absent" /\ launch[next] = "none"
  BY ConstantsAssumption DEF Create, IInv, StateTypeOK, Numbering, Task
<1>2. status' = [status EXCEPT ![next] = "Pending"] /\ outcomes' = outcomes
  BY DEF Create, histVars
<1>3. Started' = Started
  BY <1>1, StartedSame DEF Create, Started
<1> QED BY <1>1, <1>2, <1>3 DEF Life!Create

LEMMA StartLives == ASSUME IInv, NEW t \in Task, Start(t) PROVE Life!Start(t)
<1>1. launch[t] = "configured" /\ launch' = [launch EXCEPT ![t] = "started"]
      /\ status' = [status EXCEPT ![t] = "Running"] /\ outcomes' = outcomes
  BY DEF Start, histVars
<1>2. launch'[t] = "started" /\ \A u \in Task \ {t} : launch'[u] = launch[u]
  BY <1>1 DEF IInv, StateTypeOK
<1>3. t \notin Started /\ Started' = Started \cup {t}
  BY <1>1, <1>2 DEF Started
<1>4. \/ status[t] = "Pending" /\ outcomes[t] = << >>
      \/ status[t] = "Killed" /\ outcomes[t] = <<"Killed">>
  BY <1>1 DEF IInv, Records, Settled
<1> QED BY <1>1, <1>3, <1>4 DEF Life!Start

\* The call goes on, before start or after it, or is dropped.
LEMMA LaunchLives ==
  ASSUME IInv, NEW t \in Task, Configure(t) \/ DropCall(t) \/ Spawn(t) \/ Register(t)
  PROVE  UNCHANGED Life!vars
<1>1. status' = status /\ outcomes' = outcomes
  BY DEF Configure, DropCall, Spawn, Register, recordVars, histVars
<1>2. Started' = Started
  BY StartedSame DEF Configure, DropCall, Spawn, Register, Started
<1> QED BY <1>1, <1>2 DEF Life!vars

\* The first commit: of the task's own worker, which was spawned after start, or of
\* a killer.
LEMMA CommitLives ==
  ASSUME IInv, NEW p \in Proc, FinishCommit(p)
  PROVE  \E t \in Task : \E v \in Terminal : Life!End(t, v)
<1> DEFINE t == target[p]
           v == verdict[p]
<1>1. t \in Task /\ v \in Terminal /\ status[t] \in Active /\ pc[p] = "commit"
  <2>1. pc[p] = "commit" /\ status[t] \notin Terminal
    BY DEF FinishCommit
  <2> QED BY <2>1 DEF IInv, Finishers, StateTypeOK
<1>2. /\ status' = [status EXCEPT ![t] = v] /\ launch' = launch
      /\ outcomes' = [outcomes EXCEPT ![t] = Append(@, v)]
  BY DEF FinishCommit, Settle, launchVars
<1>3. p \in Killer => v = "Killed"
  BY <1>1 DEF IInv, Finishers
<1>4. p \in Task => t = p /\ launch[t] \in {"spawned", "registered"}
  BY <1>1 DEF IInv, Workers
<1>5. v = "Killed" \/ t \in Started
  BY <1>1, <1>3, <1>4 DEF Started, Proc
<1>6. (status[t] = "Running" /\ t \in Started)
      \/ (status[t] = "Pending" /\ t \notin Started /\ v = "Killed")
  BY <1>1, <1>5 DEF IInv, Records, Settled, Started, Active, Terminal
<1>7. Started' = Started
  BY <1>2 DEF Started
<1> HIDE DEF t, v
<1> QED BY <1>1, <1>2, <1>6, <1>7 DEF Life!End

\* Everything else: workers and killers on their way, the steps of
\* finish_with_activity before and after the commit, a drain.
LEMMA AsideLives ==
  ASSUME UNCHANGED <<launch, status, outcomes>> PROVE UNCHANGED Life!vars
BY DEF Life!vars, Started

\* Whoever races to finish, kill, hibernate or launch a task, it has one life.
THEOREM TasksLiveOnce == Spec => LifeSpec
<1>1. Init => Life!Init
  BY DEF Init, Life!Init, Started
<1>2. IInv /\ [Next]_vars => [Life!Next]_Life!vars
  <2> DEFINE Lives == Life!Next \/ UNCHANGED Life!vars
  <2> SUFFICES ASSUME IInv, [Next]_vars PROVE Lives
    OBVIOUS
  <2>1. ASSUME NEW r \in Requests, NEW q \in Task \cup {NoTask}, Create(r, q)
        PROVE  Lives
    BY <2>1, CreateLives DEF Life!Next
  <2>2. ASSUME NEW t \in Task, Call(t) PROVE Lives
    BY <2>2, StartLives, LaunchLives DEF Call, Launch, Life!Next
  <2>3. ASSUME NEW t \in Task, Work(t) PROVE Lives
    BY <2>3, AsideLives
       DEF Work, WorkerDrop, WorkerReturn, WorkerFinish, launchVars, recordVars, histVars
  <2>4. ASSUME NEW k \in Killer, (\E t \in Task : KillAny(k, t)) \/ Abort(k) PROVE Lives
    BY <2>4, AsideLives
       DEF KillAny, ForceKill, Hibernate, Kill, BeginKill, Abort, launchVars, recordVars, histVars
  <2>5. ASSUME NEW p \in Proc, Finish(p) PROVE Lives
    <3>1. CASE FinishCommit(p)
      BY <3>1, CommitLives DEF Life!Next, Terminal
    <3>2. CASE FinishClear(p) \/ FinishTooLate(p) \/ FinishBarrier(p) \/ FinishFanIn(p)
               \/ FinishPropagate(p)
      BY <3>2, AsideLives
         DEF FinishClear, FinishTooLate, FinishBarrier, FinishFanIn, FinishPropagate,
             launchVars, recordVars, histVars
    <3> QED BY <2>5, <3>1, <3>2 DEF Finish
  <2>6. ASSUME NEW s \in Session, Drain(s) PROVE Lives
    BY <2>6, AsideLives DEF Drain, launchVars, recordVars, histVars
  <2>7. CASE UNCHANGED vars
    BY <2>7, AsideLives DEF vars, launchVars, recordVars, histVars
  <2> QED BY <2>1, <2>2, <2>3, <2>4, <2>5, <2>6, <2>7 DEF Next
<1>3. LifeSpec <=> Life!Init /\ [][Life!Next]_Life!vars
  BY DEF LifeSpec, Life!Spec
<1> QED BY <1>1, <1>2, <1>3, Invariance, PTL DEF Spec

-----------------------------------------------------------------------------
\* However the finishes of a group's members interleave with its barrier
\* (group_ready_for_fan_in), its event stands for members that are done.
THEOREM FanInIsSound == Spec => []FanInSound
<1>1. IInv => FanInSound
  BY DEF IInv, Barriers, Ready, FanInSound
<1> QED BY <1>1, Invariance, PTL

-----------------------------------------------------------------------------
(***************************************************************************)
(* What the finishers of a group and the Verify workers owe: an            *)
(* announcement, a verdict.  It is due from the commit of the status on,   *)
(* and whoever committed last still has it to do, or it is done.           *)
(***************************************************************************)

\* A thread that has committed a status is in one of these steps.
Late == {"barrier", "fanin", "propagate"}

\* A request is one the tools are called with, a parent one that was launched.
Asking ==
  \A t \in Task :
    /\ asked[t] \in Requests
    /\ launch[t] # "none" /\ parent[t] # NoTask => launch[parent[t]] = "registered"

\* Before its attributes are set a task is pending and nobody has it to finish.
Fresh ==
  /\ \A p \in Proc : pc[p] = "idle" => target[p] = NoTask
  /\ \A t \in Task : launch[t] = "created" =>
       status[t] = "Pending" /\ \A p \in Proc : target[p] # t

\* Only what was to be verified waits for it.
Waiting ==
  \A t \in Task : validation[t] = "PendingVerification" => Configured(t) /\ asked[t].verify

\* The state a Verify worker that nobody verifies is left in by its own end.
OwnVerdict ==
  \A t \in Task : RoleOf(t) = "Verify" /\ ~HasVerifier(t) =>
    /\ status[t] = "Completed" => validation[t] = "Verified"
    /\ status[t] = "Failed" => validation[t] = "VerificationFailed"

\* Its parent has been told, or the thread that ended it is on its way.
Heard ==
  \A t \in Task :
    /\ RoleOf(t) = "Verify" /\ ParentOf(t) # NoTask /\ status[t] \in Terminal
    /\ ~HasVerifier(t)
    => \/ validation[ParentOf(t)] # "PendingVerification"
       \/ \E p \in Proc : target[p] = t /\ pc[p] \in Late

\* Every member of the group was started and has ended, none was to be verified.
Done(g) ==
  /\ Members(g) # {}
  /\ \A m \in Members(g) : /\ status[m] \in Terminal /\ ~asked[m].verify
                           /\ launch[m] \in {"started", "spawned", "registered"}

\* Thread p is about to announce that group g is done.
Announces(p, g) ==
  /\ target[p] \in Members(g)
  /\ pc[p] = "barrier" \/ (pc[p] = "fanin" /\ seen[p] = Members(g))

Announced ==
  \A g \in Group : Done(g) =>
    \/ [group |-> g, of |-> Members(g)] \in fanins
    \/ \E p \in Proc : Announces(p, g)

Owed == /\ VerifiedHasWitness /\ Asking /\ Fresh /\ Waiting
        /\ OwnVerdict /\ Heard /\ Announced

\* What most actions leave alone: records, outcomes, announcements, and every
\* thread that has committed; a launch goes on only past start, or ends at the permit.
Aside ==
  /\ UNCHANGED <<asked, parent, status, validation, outcomes, fanins, seen>>
  /\ \A t \in Task : \/ launch'[t] = launch[t]
                     \/ /\ launch[t] \in {"started", "spawned"}
                        /\ launch'[t] \in {"spawned", "registered"}
                     \/ launch[t] = "created" /\ launch'[t] = "dropped"
  /\ \A p \in Proc : pc[p] \in Late => pc'[p] = pc[p] /\ target'[p] = target[p]
  /\ \A p \in Proc : pc'[p] = "idle" => target'[p] = NoTask
  /\ \A p \in Proc, t \in Task : target'[p] = t => launch[t] # "created"

LEMMA AsideStep ==
  ASSUME IInv, Owed, Aside
  PROVE  Owed'
<1>1. \A t \in Task : /\ Configured(t)' = Configured(t) /\ TypeOf(t)' = TypeOf(t)
                      /\ RoleOf(t)' = RoleOf(t) /\ ParentOf(t)' = ParentOf(t)
                      /\ GroupOf(t)' = GroupOf(t)
  BY DEF Aside, Configured, TypeOf, RoleOf, ParentOf, GroupOf
<1>2. \A g : Members(g)' = Members(g)
  BY <1>1 DEF Aside, Members
<1>3. \A t \in Task : HasVerifier(t)' = HasVerifier(t)
  BY <1>1 DEF HasVerifier
<1>4. VerifiedHasWitness'
  BY <1>1 DEF Owed, VerifiedHasWitness, Aside
<1>5. Asking'
  <2> SUFFICES ASSUME NEW t \in Task
               PROVE  /\ asked[t] \in Requests
                      /\ launch'[t] # "none" /\ parent[t] # NoTask =>
                           launch'[parent[t]] = "registered"
    BY DEF Asking, Aside
  <2>1. launch'[t] # "none" => launch[t] # "none"
    BY DEF Aside
  <2>2. parent[t] # NoTask => parent[t] \in Task
    BY DEF IInv, StateTypeOK
  <2>3. \A q \in Task : launch[q] = "registered" => launch'[q] = "registered"
    BY DEF Aside
  <2> QED BY <2>1, <2>2, <2>3 DEF Owed, Asking
<1>6. Fresh'
  BY DEF Owed, Fresh, Aside
<1>7. Waiting'
  BY <1>1 DEF Owed, Waiting, Aside
<1>8. OwnVerdict'
  BY <1>1, <1>3 DEF Owed, OwnVerdict, Aside
<1>9. Heard'
  BY <1>1, <1>3 DEF Owed, Heard, Aside
<1>10. Announced'
  <2> SUFFICES ASSUME NEW g \in Group, Done(g)'
               PROVE  \/ [group |-> g, of |-> Members(g)] \in fanins
                      \/ \E p \in Proc : Announces(p, g)'
    BY <1>2 DEF Announced, Aside
  <2>1. Members(g) \in SUBSET Task
    BY DEF Members
  <2>2. Done(g)
    BY <1>2, <2>1 DEF Done, Aside
  <2>3. \A p \in Proc : Announces(p, g) => Announces(p, g)'
    BY <1>2 DEF Announces, Aside, Late
  <2> QED BY <2>2, <2>3 DEF Owed, Announced
<1> QED BY <1>4, <1>5, <1>6, <1>7, <1>8, <1>9, <1>10 DEF Owed

-----------------------------------------------------------------------------
\* The actions that only go on with a launch, a worker or a kill.

LEMMA LaunchOwes ==
  ASSUME IInv, Owed, NEW t \in Task, DropCall(t) \/ Spawn(t) \/ Register(t)
  PROVE  Owed'
<1>1. Aside
  BY DEF IInv, StateTypeOK, Owed, Fresh, Aside, DropCall, Spawn, Register, recordVars,
     finishVars, histVars
<1> QED BY <1>1, AsideStep

LEMMA WorkOwes ==
  ASSUME IInv, Owed, NEW t \in Task, Work(t)
  PROVE  Owed'
<1>1. CASE WorkerDrop(t) \/ WorkerReturn(t)
  <2>1. Aside
    BY <1>1 DEF Owed, Fresh, Aside, WorkerDrop, WorkerReturn, launchVars, recordVars,
       finishVars, histVars
  <2> QED BY <2>1, AsideStep
<1>2. ASSUME NEW v \in {"Completed", "Failed"}, WorkerFinish(t, v) PROVE Owed'
  <2>1. t \in Proc /\ pc[t] = "idle" /\ launch[t] \in {"spawned", "registered"}
    BY <1>2 DEF IInv, StateTypeOK, Workers, WorkerFinish, Proc
  <2>2. Aside
    BY <1>2, <2>1 DEF IInv, StateTypeOK, Owed, Fresh, Aside, Late, WorkerFinish,
       launchVars, recordVars, histVars
  <2> QED BY <2>2, AsideStep
<1> QED BY <1>1, <1>2 DEF Work

LEMMA KillOwes ==
  ASSUME IInv, Owed, NEW k \in Killer, NEW t \in Task, KillAny(k, t)
  PROVE  Owed'
<1>1. BeginKill(k, t)
  BY DEF KillAny, Kill, ForceKill, Hibernate
<1>2. launch[t] # "created"
  BY DEF IInv, Numbering, Owed, Fresh, KillAny, Kill, ForceKill, Hibernate, Configured
<1>3. Aside
  BY <1>1, <1>2 DEF IInv, StateTypeOK, Owed, Fresh, Aside, Late, BeginKill, Proc,
     launchVars, recordVars, histVars
<1> QED BY <1>3, AsideStep

LEMMA AbortOwes ==
  ASSUME IInv, Owed, NEW k \in Killer, Abort(k)
  PROVE  Owed'
<1>1. Aside
  BY DEF IInv, StateTypeOK, Owed, Fresh, Aside, Late, Abort, Proc, launchVars,
     recordVars, histVars
<1> QED BY <1>1, AsideStep

LEMMA ClearOwes ==
  ASSUME IInv, Owed, NEW p \in Proc, FinishClear(p) \/ FinishTooLate(p)
  PROVE  Owed'
<1>1. CASE FinishClear(p)
  <2>1. Aside
    BY <1>1 DEF IInv, StateTypeOK, Owed, Fresh, Aside, Late, FinishClear, GoTo,
       launchVars, recordVars, histVars
  <2> QED BY <2>1, AsideStep
<1>2. CASE FinishTooLate(p)
  <2>1. NoTask \notin Task
    BY ConstantsAssumption
  <2>2. Aside
    BY <1>2, <2>1 DEF IInv, StateTypeOK, Owed, Fresh, Aside, Late, FinishTooLate, Return,
       launchVars, recordVars, histVars
  <2> QED BY <2>2, AsideStep
<1> QED BY <1>1, <1>2

LEMMA DrainOwes ==
  ASSUME IInv, Owed, NEW s \in Session, Drain(s)
  PROVE  Owed'
<1>1. Aside
  BY DEF Owed, Fresh, Aside, Drain, launchVars, recordVars, finishVars, histVars
<1> QED BY <1>1, AsideStep

-----------------------------------------------------------------------------
\* The actions that change what is owed.

LEMMA CreateOwes ==
  ASSUME IInv, Owed, NEW r \in Requests, NEW q \in Task \cup {NoTask}, Create(r, q)
  PROVE  Owed'
<1>0. /\ next \in Task /\ launch[next] = "none" /\ status[next] = "Absent"
      /\ launch' = [launch EXCEPT ![next] = "created"]
      /\ status' = [status EXCEPT ![next] = "Pending"]
      /\ asked' = [asked EXCEPT ![next] = r]
      /\ parent' = [parent EXCEPT ![next] = q]
      /\ q # NoTask => launch[q] = "registered"
      /\ UNCHANGED <<validation, pc, target, outcomes, seen, fanins>>
  BY ConstantsAssumption DEF IInv, StateTypeOK, Numbering, Task, Create, finishVars,
     histVars
<1>1. \A t \in Task : t # next =>
        /\ launch'[t] = launch[t] /\ status'[t] = status[t] /\ asked'[t] = asked[t]
        /\ parent'[t] = parent[t]
  BY <1>0 DEF IInv, StateTypeOK
<1>2. /\ launch'[next] = "created" /\ status'[next] = "Pending" /\ asked'[next] = r
      /\ parent'[next] = q
  BY <1>0 DEF IInv, StateTypeOK
<1>3. ~Configured(next) /\ \A t \in Task : Configured(t)' = Configured(t)
  BY <1>0, <1>1, <1>2 DEF Configured
<1>4. \A t \in Task : /\ RoleOf(t)' = RoleOf(t) /\ ParentOf(t)' = ParentOf(t)
                      /\ GroupOf(t)' = GroupOf(t)
  BY <1>1, <1>3 DEF RoleOf, ParentOf, GroupOf
<1>5. RoleOf(next) = "None" /\ GroupOf(next) = NoGroup
  BY <1>3 DEF RoleOf, GroupOf
<1>6. \A g \in Group : Members(g)' = Members(g)
  BY <1>0, <1>1, <1>4, <1>5, ConstantsAssumption DEF Members
<1>7. \A t \in Task : HasVerifier(t)' = HasVerifier(t)
  BY <1>4 DEF HasVerifier
<1>8. VerifiedHasWitness'
  BY <1>0, <1>4 DEF Owed, VerifiedHasWitness
<1>9. Asking'
  <2>1. \A t \in Task : t # next => asked'[t] \in Requests /\
          (launch'[t] # "none" /\ parent'[t] # NoTask => launch[parent[t]] = "registered")
    BY <1>1 DEF Owed, Asking
  <2>2. \A u \in Task : launch[u] = "registered" => launch'[u] = "registered"
    BY <1>0, <1>1
  <2>3. \A t \in Task : parent'[t] # NoTask => parent'[t] \in Task
    <3>1. parent \in [Task -> Task \cup {NoTask}]
      BY DEF IInv, StateTypeOK
    <3> QED BY <1>1, <1>2, <3>1
  <2> QED BY <1>0, <1>1, <1>2, <2>1, <2>2, <2>3 DEF Asking
<1>10. Fresh'
  <2>1. \A p \in Proc : target[p] # next
    BY <1>0, ConstantsAssumption DEF IInv, Finishers, Owed, Fresh
  <2> QED BY <1>0, <1>1, <1>2, <2>1 DEF Owed, Fresh
<1>11. Waiting'
  BY <1>0, <1>1, <1>3 DEF Owed, Waiting
<1>12. OwnVerdict'
  BY <1>0, <1>1, <1>4, <1>5, <1>7 DEF Owed, OwnVerdict
<1>13. Heard'
  BY <1>0, <1>1, <1>4, <1>5, <1>7 DEF Owed, Heard
<1>14. Announced'
  <2> SUFFICES ASSUME NEW g \in Group, Done(g)'
               PROVE  \/ [group |-> g, of |-> Members(g)] \in fanins
                      \/ \E p \in Proc : Announces(p, g)'
    BY <1>0, <1>6 DEF Announced
  <2>1. Members(g) \in SUBSET Task /\ next \notin Members(g)
    BY <1>0 DEF Members
  <2>2. Done(g)
    BY <1>1, <1>6, <2>1 DEF Done
  <2>3. \A p \in Proc : Announces(p, g) => Announces(p, g)'
    BY <1>0, <1>6 DEF Announces
  <2> QED BY <2>2, <2>3 DEF Owed, Announced
<1> QED BY <1>8, <1>9, <1>10, <1>11, <1>12, <1>13, <1>14 DEF Owed

LEMMA ConfigureOwes ==
  ASSUME IInv, Owed, NEW t \in Task, Configure(t)
  PROVE  Owed'
<1>0. /\ launch[t] = "created" /\ launch' = [launch EXCEPT ![t] = "configured"]
      /\ validation' = [validation EXCEPT ![t] =
                          IF asked[t].verify THEN "PendingVerification" ELSE validation[t]]
      /\ UNCHANGED <<asked, parent, status, pc, target, outcomes, seen, fanins>>
  BY DEF IInv, StateTypeOK, Configure, finishVars, histVars
<1>1. /\ \A u \in Task : u # t => launch'[u] = launch[u] /\ validation'[u] = validation[u]
      /\ launch'[t] = "configured"
      /\ validation'[t] = IF asked[t].verify THEN "PendingVerification" ELSE validation[t]
  BY <1>0 DEF IInv, StateTypeOK
<1>2. /\ ~Configured(t) /\ Configured(t)'
      /\ \A u \in Task : u # t => Configured(u)' = Configured(u)
  BY <1>0, <1>1 DEF Configured
<1>3. /\ \A u \in Task : u # t => /\ RoleOf(u)' = RoleOf(u) /\ ParentOf(u)' = ParentOf(u)
                                  /\ GroupOf(u)' = GroupOf(u)
      /\ RoleOf(t) = "None" /\ ParentOf(t) = NoTask /\ GroupOf(t) = NoGroup
  BY <1>0, <1>2 DEF RoleOf, ParentOf, GroupOf
<1>4. status[t] = "Pending" /\ \A p \in Proc : target[p] # t
  BY <1>0 DEF Owed, Fresh
<1>5. \A u \in Task : HasVerifier(u) => HasVerifier(u)'
  BY <1>3, ConstantsAssumption DEF HasVerifier
<1>6. validation[t] # "PendingVerification"
  BY <1>2 DEF Owed, Waiting
<1>7. VerifiedHasWitness'
  <2>1. \A u \in Task : validation'[u] = "Verified" => validation[u] = "Verified"
    BY <1>1
  <2>2. ASSUME NEW u \in Task, NEW v \in Task, RoleOf(v) = "Verify"
        PROVE  v # t
    BY <1>3, <2>2
  <2> QED BY <1>0, <1>3, <2>1, <2>2 DEF Owed, VerifiedHasWitness
<1>8. Asking'
  <2>1. \A u \in Task : launch'[u] # "none" => launch[u] # "none"
    BY <1>0, <1>1
  <2>2. \A u \in Task : launch[u] = "registered" => launch'[u] = "registered"
    BY <1>0, <1>1
  <2>3. \A u \in Task : parent[u] # NoTask => parent[u] \in Task
    BY DEF IInv, StateTypeOK
  <2> QED BY <1>0, <2>1, <2>2, <2>3 DEF Owed, Asking
<1>9. Fresh'
  BY <1>0, <1>1 DEF Owed, Fresh
<1>10. Waiting'
  BY <1>0, <1>1, <1>2, <1>6 DEF Owed, Waiting
<1>11. OwnVerdict'
  BY <1>0, <1>1, <1>3, <1>4, <1>5 DEF Owed, OwnVerdict
<1>12. Heard'
  <2> SUFFICES ASSUME NEW u \in Task, RoleOf(u)' = "Verify", ParentOf(u)' # NoTask,
                      status[u] \in Terminal, ~HasVerifier(u)'
               PROVE  \/ validation'[ParentOf(u)'] # "PendingVerification"
                      \/ \E p \in Proc : target[p] = u /\ pc[p] \in Late
    BY <1>0 DEF Heard
  <2>1. u # t
    BY <1>4 DEF Terminal
  <2>2. /\ RoleOf(u) = "Verify" /\ ParentOf(u) # NoTask /\ ~HasVerifier(u)
        /\ ParentOf(u)' = ParentOf(u)
    BY <1>3, <1>5, <2>1
  <2>3. ParentOf(u) \in Task /\ launch[ParentOf(u)] = "registered"
    BY <2>2 DEF ParentOf, Configured, Owed, Asking, IInv, StateTypeOK
  <2>4. validation'[ParentOf(u)] = validation[ParentOf(u)]
    BY <1>0, <1>1, <2>3
  <2> QED BY <2>2, <2>4 DEF Owed, Heard
<1>13. Announced'
  <2> SUFFICES ASSUME NEW g \in Group, Done(g)'
               PROVE  \/ [group |-> g, of |-> Members(g)'] \in fanins
                      \/ \E p \in Proc : Announces(p, g)'
    BY <1>0 DEF Announced
  <2>1. t \notin Members(g)' /\ t \notin Members(g)
    BY <1>1, <1>3, ConstantsAssumption DEF Done, Members
  <2>2. Members(g)' = Members(g) /\ Members(g) \in SUBSET Task
    BY <1>0, <1>3, <2>1 DEF Members
  <2>3. Done(g)
    BY <1>0, <1>1, <2>1, <2>2 DEF Done
  <2>4. \A p \in Proc : Announces(p, g) => Announces(p, g)'
    BY <1>0, <2>2 DEF Announces
  <2> QED BY <2>2, <2>3, <2>4 DEF Owed, Announced
<1> QED BY <1>7, <1>8, <1>9, <1>10, <1>11, <1>12, <1>13 DEF Owed

LEMMA StartOwes ==
  ASSUME IInv, Owed, NEW t \in Task, Start(t)
  PROVE  Owed'
<1>0. /\ launch[t] = "configured" /\ launch' = [launch EXCEPT ![t] = "started"]
      /\ status' = [status EXCEPT ![t] = "Running"]
      /\ UNCHANGED <<asked, parent, validation, pc, target, outcomes, seen, fanins>>
  BY DEF Start, finishVars, histVars
<1>1. /\ \A u \in Task : u # t => launch'[u] = launch[u] /\ status'[u] = status[u]
      /\ launch'[t] = "started" /\ status'[t] = "Running" /\ status[t] # "Absent"
  BY <1>0 DEF IInv, StateTypeOK, Numbering
<1>2. \A u \in Task : Configured(u)' = Configured(u)
  BY <1>0, <1>1 DEF Configured
<1>3. \A u \in Task : /\ RoleOf(u)' = RoleOf(u) /\ ParentOf(u)' = ParentOf(u)
                      /\ GroupOf(u)' = GroupOf(u)
  BY <1>0, <1>2 DEF RoleOf, ParentOf, GroupOf
<1>4. \A u \in Task : HasVerifier(u)' = HasVerifier(u)
  BY <1>3 DEF HasVerifier
<1>5. \A g : Members(g)' = Members(g)
  BY <1>1, <1>3 DEF Members
<1>6. VerifiedHasWitness'
  BY <1>0, <1>3 DEF Owed, VerifiedHasWitness
<1>7. Asking'
  <2>1. \A u \in Task : launch'[u] # "none" => launch[u] # "none"
    BY <1>0, <1>1
  <2>2. \A u \in Task : launch[u] = "registered" => launch'[u] = "registered"
    BY <1>0, <1>1
  <2>3. \A u \in Task : parent[u] # NoTask => parent[u] \in Task
    BY DEF IInv, StateTypeOK
  <2> QED BY <1>0, <2>1, <2>2, <2>3 DEF Owed, Asking
<1>8. Fresh'
  BY <1>0, <1>1 DEF Owed, Fresh
<1>9. Waiting'
  BY <1>0, <1>2 DEF Owed, Waiting
<1>10. OwnVerdict'
  BY <1>0, <1>1, <1>3, <1>4 DEF Owed, OwnVerdict
<1>11. Heard'
  BY <1>0, <1>1, <1>3, <1>4 DEF Owed, Heard, Terminal
<1>12. Announced'
  <2> SUFFICES ASSUME NEW g \in Group, Done(g)'
               PROVE  \/ [group |-> g, of |-> Members(g)] \in fanins
                      \/ \E p \in Proc : Announces(p, g)'
    BY <1>0, <1>5 DEF Announced
  <2>1. t \notin Members(g) /\ Members(g) \in SUBSET Task
    BY <1>1, <1>5 DEF Done, Members, Terminal
  <2>2. Done(g)
    BY <1>0, <1>1, <1>5, <2>1 DEF Done
  <2>3. \A p \in Proc : Announces(p, g) => Announces(p, g)'
    BY <1>0, <1>5 DEF Announces
  <2> QED BY <2>2, <2>3 DEF Owed, Announced
<1> QED BY <1>6, <1>7, <1>8, <1>9, <1>10, <1>11, <1>12 DEF Owed

LEMMA CommitOwes ==
  ASSUME IInv, Owed, NEW p \in Proc, FinishCommit(p)
  PROVE  Owed'
<1>0. PICK t \in Task :
        /\ t = target[p] /\ verdict[p] \in Terminal /\ status[t] \notin Terminal
        /\ pc[p] = "commit" /\ outcomes[t] \in Seq(Terminal)
  BY DEF IInv, StateTypeOK, Finishers, FinishCommit
<1> DEFINE v == verdict[p]
           next_pc == IF GroupOf(t) = NoGroup THEN "propagate" ELSE "barrier"
           tv == TransitionValidation(TypeOf(t), RoleOf(t), v, validation[t])
<1>1. /\ status' = [status EXCEPT ![t] = v]
      /\ validation' = [validation EXCEPT ![t] = tv]
      /\ outcomes' = [outcomes EXCEPT ![t] = Append(outcomes[t], v)]
      /\ pc' = [pc EXCEPT ![p] = next_pc]
      /\ UNCHANGED <<launch, asked, parent, target, seen, fanins>>
  BY <1>0 DEF IInv, StateTypeOK, FinishCommit, Settle, GoTo, launchVars
<1>2. /\ \A u \in Task : u # t => /\ status'[u] = status[u]
                                  /\ validation'[u] = validation[u]
                                  /\ outcomes'[u] = outcomes[u]
      /\ status'[t] = v /\ validation'[t] = tv /\ outcomes'[t] = Append(outcomes[t], v)
  BY <1>1 DEF IInv, StateTypeOK
<1>3. pc'[p] = next_pc /\ \A q \in Proc : q # p => pc'[q] = pc[q]
  BY <1>1 DEF IInv, StateTypeOK
<1>4. \A u \in Task : /\ Configured(u)' = Configured(u) /\ TypeOf(u)' = TypeOf(u)
                      /\ RoleOf(u)' = RoleOf(u) /\ ParentOf(u)' = ParentOf(u)
                      /\ GroupOf(u)' = GroupOf(u) /\ HasVerifier(u)' = HasVerifier(u)
  BY <1>1 DEF Configured, TypeOf, RoleOf, ParentOf, GroupOf, HasVerifier
<1>5. status[t] # "Absent"
  BY <1>0 DEF IInv, Finishers
<1>6. \A g : Members(g)' = Members(g)
  BY <1>0, <1>2, <1>4, <1>5 DEF Members, Terminal
<1>7. \A u \in Task : validation[u] # "PendingVerification" =>
                      validation'[u] # "PendingVerification"
  BY <1>2, TransitionType DEF IInv, StateTypeOK
<1>8. RoleOf(t) = "Verify" => TypeOf(t) = "LocalAgent"
  <2>1. asked[t] \in Requests
    BY DEF Owed, Asking
  <2> QED BY <2>1, ConstantsAssumption DEF RoleOf, TypeOf
<1> HIDE DEF tv, next_pc
<1>9. VerifiedHasWitness'
  <2>1. ASSUME NEW u \in Task, NEW i \in DOMAIN outcomes[u], outcomes[u][i] = "Completed"
        PROVE  \E j \in DOMAIN outcomes'[u] : outcomes'[u][j] = "Completed"
    <3>1. CASE u # t
      BY <1>2, <2>1, <3>1
    <3>2. CASE u = t
      <4>1. /\ i \in 1 .. Len(outcomes[t])
            /\ i \in 1 .. Len(outcomes'[t]) /\ outcomes'[t][i] = outcomes[t][i]
        BY <1>0, <1>2, <2>1, <3>2, AppendProperties, LenProperties
      <4>2. DOMAIN outcomes'[t] = 1 .. Len(outcomes'[t])
        BY <1>0, <1>2, AppendProperties, LenProperties
      <4> QED BY <2>1, <3>2, <4>1, <4>2
    <3> QED BY <3>1, <3>2
  <2>2. ASSUME NEW u \in Task, validation'[u] = "Verified", validation[u] # "Verified"
        PROVE  u = t /\ RoleOf(t) = "Verify" /\ v = "Completed"
    BY <1>0, <1>2, <2>2 DEF tv, TransitionValidation, Terminal
  <2>3. v = "Completed" =>
          \E j \in DOMAIN outcomes'[t] : outcomes'[t][j] = "Completed"
    <3>1. /\ DOMAIN outcomes'[t] = 1 .. Len(outcomes[t]) + 1
          /\ outcomes'[t][Len(outcomes[t]) + 1] = v
      BY <1>0, <1>2, AppendProperties, LenProperties
    <3>2. Len(outcomes[t]) + 1 \in 1 .. Len(outcomes[t]) + 1
      BY <1>0, LenProperties
    <3> QED BY <3>1, <3>2
  <2> SUFFICES ASSUME NEW u \in Task, validation'[u] = "Verified"
               PROVE  \E w \in Task :
                        /\ RoleOf(w) = "Verify" /\ (w = u \/ ParentOf(w) = u)
                        /\ \E j \in DOMAIN outcomes'[w] : outcomes'[w][j] = "Completed"
    BY <1>4 DEF VerifiedHasWitness
  <2>4. CASE validation[u] = "Verified"
    BY <2>1, <2>4 DEF Owed, VerifiedHasWitness
  <2>5. CASE validation[u] # "Verified"
    BY <2>2, <2>3, <2>5
  <2> QED BY <2>4, <2>5
<1>10. Asking'
  BY <1>1 DEF Owed, Asking
<1>11. Fresh'
  <2>1. launch[t] # "created"
    BY <1>0 DEF Owed, Fresh
  <2>2. pc'[p] # "idle"
    BY <1>3 DEF next_pc
  <2> QED BY <1>1, <1>2, <1>3, <2>1, <2>2 DEF Owed, Fresh
<1>12. Waiting'
  BY <1>1, <1>4, <1>7 DEF Owed, Waiting
<1>13. OwnVerdict'
  <2>1. RoleOf(t) = "Verify" => /\ v = "Completed" => tv = "Verified"
                                /\ v = "Failed" => tv = "VerificationFailed"
    BY <1>8 DEF tv, TransitionValidation
  <2> QED BY <1>2, <1>4, <2>1 DEF Owed, OwnVerdict
<1>14. Heard'
  <2>1. target'[p] = t /\ pc'[p] \in Late
    BY <1>0, <1>1, <1>3 DEF next_pc, Late
  <2>2. \A q \in Proc : pc[q] \in Late => pc'[q] \in Late
    BY <1>0, <1>3 DEF Late
  <2>3. \A u \in Task : ParentOf(u) # NoTask => ParentOf(u) \in Task
    BY DEF ParentOf, IInv, StateTypeOK
  <2> SUFFICES ASSUME NEW u \in Task, RoleOf(u) = "Verify", ParentOf(u) # NoTask,
                      status'[u] \in Terminal, ~HasVerifier(u)
               PROVE  \/ validation'[ParentOf(u)] # "PendingVerification"
                      \/ \E q \in Proc : target'[q] = u /\ pc'[q] \in Late
    BY <1>4 DEF Heard
  <2>4. CASE u = t
    BY <2>1, <2>4
  <2>5. CASE u # t
    <3>1. status[u] \in Terminal
      BY <1>2, <2>5
    <3>2. \/ validation[ParentOf(u)] # "PendingVerification"
          \/ \E q \in Proc : target[q] = u /\ pc[q] \in Late
      BY <3>1 DEF Owed, Heard
    <3> QED BY <1>1, <1>7, <2>2, <2>3, <3>2
  <2> QED BY <2>4, <2>5
<1>15. Announced'
  <2> SUFFICES ASSUME NEW g \in Group, Done(g)'
               PROVE  \/ [group |-> g, of |-> Members(g)] \in fanins
                      \/ \E q \in Proc : Announces(q, g)'
    BY <1>1, <1>6 DEF Announced
  <2>1. Members(g) \in SUBSET Task
    BY DEF Members
  <2>2. CASE t \in Members(g)
    <3>1. GroupOf(t) = g /\ g # NoGroup
      BY <2>2, ConstantsAssumption DEF Members
    <3>2. pc'[p] = "barrier"
      BY <1>3, <3>1 DEF next_pc
    <3>3. target'[p] \in Members(g)'
      BY <1>0, <1>1, <1>6, <2>2
    <3>4. Announces(p, g)'
      BY <3>2, <3>3 DEF Announces
    <3> QED BY <3>4
  <2>3. CASE t \notin Members(g)
    <3>1. Done(g)
      BY <1>1, <1>2, <1>6, <2>1, <2>3 DEF Done
    <3>2. \A q \in Proc : Announces(q, g) => Announces(q, g)'
      BY <1>0, <1>1, <1>3, <1>6 DEF Announces
    <3> QED BY <3>1, <3>2 DEF Owed, Announced
  <2> QED BY <2>2, <2>3
<1> QED BY <1>9, <1>10, <1>11, <1>12, <1>13, <1>14, <1>15 DEF Owed

LEMMA BarrierOwes ==
  ASSUME IInv, Owed, NEW p \in Proc, FinishBarrier(p)
  PROVE  Owed'
<1> DEFINE h == GroupOf(target[p])
           M == Members(h)
<1>0. /\ pc[p] = "barrier"
      /\ pc' = [pc EXCEPT ![p] = IF GroupReady(h) THEN "fanin" ELSE "propagate"]
      /\ seen' = [seen EXCEPT ![p] = IF GroupReady(h) THEN M ELSE {}]
      /\ UNCHANGED <<launch, asked, parent, status, validation, target, outcomes, fanins>>
  BY DEF FinishBarrier, GoTo, launchVars, recordVars
<1>1. /\ \A q \in Proc : q # p => pc'[q] = pc[q] /\ seen'[q] = seen[q]
      /\ pc'[p] = IF GroupReady(h) THEN "fanin" ELSE "propagate"
      /\ seen'[p] = IF GroupReady(h) THEN M ELSE {}
  <2> HIDE DEF M
  <2> QED BY <1>0 DEF IInv, StateTypeOK
<1>2. \A u \in Task : /\ Configured(u)' = Configured(u) /\ RoleOf(u)' = RoleOf(u)
                      /\ ParentOf(u)' = ParentOf(u) /\ GroupOf(u)' = GroupOf(u)
                      /\ HasVerifier(u)' = HasVerifier(u)
  BY <1>0 DEF Configured, RoleOf, ParentOf, GroupOf, HasVerifier
<1>3. \A g : Members(g)' = Members(g)
  BY <1>0, <1>2 DEF Members
<1>4. pc'[p] \in Late /\ \A q \in Proc : pc'[q] \in Late <=> pc[q] \in Late
  BY <1>0, <1>1 DEF Late
<1> HIDE DEF M
<1>5. VerifiedHasWitness' /\ Asking'
  BY <1>0, <1>2 DEF Owed, VerifiedHasWitness, Asking
<1>6. Fresh'
  BY <1>0, <1>1 DEF Owed, Fresh
<1>7. Waiting' /\ OwnVerdict'
  BY <1>0, <1>2 DEF Owed, Waiting, OwnVerdict
<1>8. Heard'
  BY <1>0, <1>2, <1>4 DEF Owed, Heard
<1>9. Announced'
  <2> SUFFICES ASSUME NEW g \in Group, Done(g)'
               PROVE  \/ [group |-> g, of |-> Members(g)] \in fanins
                      \/ \E q \in Proc : Announces(q, g)'
    BY <1>0, <1>3 DEF Announced
  <2>1. Members(g) \in SUBSET Task
    BY DEF Members
  <2>2. Done(g)
    BY <1>0, <1>3, <2>1 DEF Done
  <2>3. CASE target[p] \in Members(g)
    <3>1. h = g
      BY <2>3 DEF Members
    <3>2. GroupReady(g)
      <4>1. Members(g) # {} /\ \A u \in Members(g) : status[u] \notin Active
        BY <2>2 DEF Done, Active, Terminal
      <4>2. \A u \in Members(g) : validation[u] # "PendingVerification"
        BY <2>1, <2>2 DEF Done, Owed, Waiting
      <4> QED BY <4>1, <4>2 DEF GroupReady
    <3>3. Announces(p, g)'
      BY <1>0, <1>1, <1>3, <2>3, <3>1, <3>2 DEF Announces, M
    <3> QED BY <3>3
  <2>4. CASE target[p] \notin Members(g)
    <3>1. \A q \in Proc : Announces(q, g) => Announces(q, g)'
      BY <1>0, <1>1, <1>3, <2>4 DEF Announces
    <3> QED BY <2>2, <3>1 DEF Owed, Announced
  <2> QED BY <2>3, <2>4
<1> QED BY <1>5, <1>6, <1>7, <1>8, <1>9 DEF Owed

LEMMA FanInOwes ==
  ASSUME IInv, Owed, NEW p \in Proc, FinishFanIn(p)
  PROVE  Owed'
<1>0. /\ pc[p] = "fanin" /\ pc' = [pc EXCEPT ![p] = "propagate"]
      /\ seen' = [seen EXCEPT ![p] = {}]
      /\ fanins' = fanins \cup {[group |-> GroupOf(target[p]), of |-> seen[p]]}
      /\ UNCHANGED <<launch, asked, parent, status, validation, target, outcomes>>
  BY DEF FinishFanIn, GoTo, launchVars, recordVars
<1>1. /\ \A q \in Proc : q # p => pc'[q] = pc[q] /\ seen'[q] = seen[q]
      /\ pc'[p] = "propagate"
  BY <1>0 DEF IInv, StateTypeOK
<1>2. \A u \in Task : /\ Configured(u)' = Configured(u) /\ RoleOf(u)' = RoleOf(u)
                      /\ ParentOf(u)' = ParentOf(u) /\ GroupOf(u)' = GroupOf(u)
                      /\ HasVerifier(u)' = HasVerifier(u)
  BY <1>0 DEF Configured, RoleOf, ParentOf, GroupOf, HasVerifier
<1>3. \A g : Members(g)' = Members(g)
  BY <1>0, <1>2 DEF Members
<1>4. \A q \in Proc : pc'[q] \in Late <=> pc[q] \in Late
  BY <1>0, <1>1 DEF Late
<1>5. VerifiedHasWitness' /\ Asking'
  BY <1>0, <1>2 DEF Owed, VerifiedHasWitness, Asking
<1>6. Fresh'
  BY <1>0, <1>1 DEF Owed, Fresh
<1>7. Waiting' /\ OwnVerdict'
  BY <1>0, <1>2 DEF Owed, Waiting, OwnVerdict
<1>8. Heard'
  BY <1>0, <1>2, <1>4 DEF Owed, Heard
<1>9. Announced'
  <2> SUFFICES ASSUME NEW g \in Group, Done(g)'
               PROVE  \/ [group |-> g, of |-> Members(g)] \in fanins'
                      \/ \E q \in Proc : Announces(q, g)'
    BY <1>3 DEF Announced
  <2>1. Members(g) \in SUBSET Task
    BY DEF Members
  <2>2. Done(g)
    BY <1>0, <1>3, <2>1 DEF Done
  <2>3. CASE Announces(p, g)
    <3>1. GroupOf(target[p]) = g /\ seen[p] = Members(g)
      <4>1. target[p] \in Members(g) /\ seen[p] = Members(g)
        BY <1>0, <2>3 DEF Announces
      <4> QED BY <4>1 DEF Members
    <3> QED BY <1>0, <3>1
  <2>4. CASE ~Announces(p, g)
    <3>1. \A q \in Proc : q # p => (Announces(q, g) => Announces(q, g)')
      BY <1>0, <1>1, <1>3 DEF Announces
    <3> QED BY <1>0, <2>2, <2>4, <3>1 DEF Owed, Announced
  <2> QED BY <2>3, <2>4
<1> QED BY <1>5, <1>6, <1>7, <1>8, <1>9 DEF Owed

LEMMA PropagateOwes ==
  ASSUME IInv, Owed, NEW p \in Proc, FinishPropagate(p)
  PROVE  Owed'
<1>0. PICK t \in Task : t = target[p]
  BY DEF IInv, Finishers, FinishPropagate
<1>1. /\ pc[p] = "propagate" /\ pc' = [pc EXCEPT ![p] = "idle"]
      /\ target' = [target EXCEPT ![p] = NoTask]
      /\ validation' = IF ParentOf(t) = NoTask \/ Propagated(t) = "None" THEN validation
                       ELSE [validation EXCEPT ![ParentOf(t)] = Propagated(t)]
      /\ UNCHANGED <<launch, asked, parent, status, outcomes, seen, fanins>>
  BY <1>0 DEF FinishPropagate, Return, launchVars, histVars
<1>2. /\ \A q \in Proc : q # p => pc'[q] = pc[q] /\ target'[q] = target[q]
      /\ pc'[p] = "idle" /\ target'[p] = NoTask
  BY <1>1 DEF IInv, StateTypeOK
<1>3. \A u \in Task : /\ Configured(u)' = Configured(u) /\ RoleOf(u)' = RoleOf(u)
                      /\ ParentOf(u)' = ParentOf(u) /\ GroupOf(u)' = GroupOf(u)
                      /\ HasVerifier(u)' = HasVerifier(u)
  BY <1>1 DEF Configured, RoleOf, ParentOf, GroupOf, HasVerifier
<1>4. \A g : Members(g)' = Members(g)
  BY <1>1, <1>3 DEF Members
<1>5. \A u \in Task : ParentOf(u) # NoTask => ParentOf(u) \in Task
  BY DEF ParentOf, IInv, StateTypeOK
<1>6. Propagated(t) # "PendingVerification"
  BY DEF Propagated
<1>7. \A u \in Task : \/ validation'[u] = validation[u]
                      \/ /\ ParentOf(t) = u /\ Propagated(t) # "None"
                         /\ validation'[u] = Propagated(t)
  BY <1>1 DEF IInv, StateTypeOK
<1>8. \A u \in Task : validation[u] # "PendingVerification" =>
                      validation'[u] # "PendingVerification"
  BY <1>6, <1>7
<1>9. Propagated(t) # "None" => RoleOf(t) = "Verify"
  BY DEF Propagated
<1>10. VerifiedHasWitness'
  <2>1. Propagated(t) = "Verified" => status[t] = "Completed"
    BY DEF Propagated
  <2>2. status[t] = "Completed" =>
          \E i \in DOMAIN outcomes[t] : outcomes[t][i] = "Completed"
    <3> SUFFICES ASSUME status[t] = "Completed"
                 PROVE  \E i \in DOMAIN outcomes[t] : outcomes[t][i] = "Completed"
      OBVIOUS
    <3>1. outcomes[t] \in {<<"Completed">>, <<"Killed", "Completed">>}
      BY DEF IInv, Records, Settled, Terminal
    <3> QED BY <3>1
  <2>3. \A u \in Task : validation'[u] = "Verified" =>
          \/ validation[u] = "Verified"
          \/ ParentOf(t) = u /\ Propagated(t) = "Verified"
    BY <1>7
  <2> QED BY <1>1, <1>3, <1>9, <2>1, <2>2, <2>3 DEF Owed, VerifiedHasWitness
<1>11. Asking'
  BY <1>1 DEF Owed, Asking
<1>12. Fresh'
  BY <1>1, <1>2, ConstantsAssumption DEF Owed, Fresh
<1>13. Waiting'
  BY <1>1, <1>3, <1>8 DEF Owed, Waiting
<1>14. OwnVerdict'
  <2>1. \A u \in Task : ~HasVerifier(u) => validation'[u] = validation[u]
    BY <1>7, <1>9 DEF HasVerifier
  <2> QED BY <1>1, <1>3, <2>1 DEF Owed, OwnVerdict
<1>15. Heard'
  <2> SUFFICES ASSUME NEW u \in Task, RoleOf(u) = "Verify", ParentOf(u) # NoTask,
                      status[u] \in Terminal, ~HasVerifier(u)
               PROVE  \/ validation'[ParentOf(u)] # "PendingVerification"
                      \/ \E q \in Proc : target'[q] = u /\ pc'[q] \in Late
    BY <1>1, <1>3 DEF Heard
  <2>1. CASE u = t
    <3>1. Propagated(t) # "None"
      BY <2>1 DEF Propagated, Terminal, Owed, OwnVerdict
    <3>2. validation'[ParentOf(t)] = Propagated(t)
      BY <1>1, <1>5, <2>1, <3>1 DEF IInv, StateTypeOK
    <3> QED BY <1>6, <2>1, <3>2
  <2>2. CASE u # t
    <3>1. \/ validation[ParentOf(u)] # "PendingVerification"
          \/ \E q \in Proc : target[q] = u /\ pc[q] \in Late
      BY DEF Owed, Heard
    <3>2. \A q \in Proc : target[q] = u => q # p
      BY <1>0, <2>2
    <3> QED BY <1>2, <1>5, <1>8, <3>1, <3>2
  <2> QED BY <2>1, <2>2
<1>16. Announced'
  <2> SUFFICES ASSUME NEW g \in Group, Done(g)'
               PROVE  \/ [group |-> g, of |-> Members(g)] \in fanins
                      \/ \E q \in Proc : Announces(q, g)'
    BY <1>1, <1>4 DEF Announced
  <2>1. Done(g)
    BY <1>1, <1>4 DEF Done
  <2>2. \A q \in Proc : Announces(q, g) => Announces(q, g)'
    BY <1>1, <1>2, <1>4 DEF Announces
  <2> QED BY <2>1, <2>2 DEF Owed, Announced
<1> QED BY <1>10, <1>11, <1>12, <1>13, <1>14, <1>15, <1>16 DEF Owed

-----------------------------------------------------------------------------
LEMMA InitOwes == Init => Owed
<1> SUFFICES ASSUME Init PROVE Owed
  OBVIOUS
<1>1. VerifiedHasWitness /\ Waiting
  BY DEF Init, VerifiedHasWitness, Waiting
<1>2. Asking
  BY ConstantsAssumption DEF Init, Asking
<1>3. Fresh
  BY DEF Init, Fresh
<1>4. OwnVerdict /\ Heard
  BY DEF Init, OwnVerdict, Heard, Terminal
<1>5. Announced
  <2>1. \A g : Members(g) = {}
    BY DEF Init, Members
  <2> QED BY <2>1 DEF Announced, Done
<1> QED BY <1>1, <1>2, <1>3, <1>4, <1>5 DEF Owed

\* What is owed is an invariant on top of the first one.
LEMMA NextOwes == IInv /\ Owed /\ [Next]_vars => Owed'
<1> SUFFICES ASSUME IInv, Owed, [Next]_vars PROVE Owed'
  OBVIOUS
<1>1. ASSUME NEW r \in Requests, NEW q \in Task \cup {NoTask}, Create(r, q)
      PROVE  Owed'
  BY <1>1, CreateOwes
<1>2. ASSUME NEW t \in Task, Call(t) PROVE Owed'
  BY <1>2, ConfigureOwes, StartOwes, LaunchOwes DEF Call, Launch
<1>3. ASSUME NEW t \in Task, Work(t) PROVE Owed'
  BY <1>3, WorkOwes
<1>4. ASSUME NEW k \in Killer, NEW t \in Task, KillAny(k, t) PROVE Owed'
  BY <1>4, KillOwes
<1>5. ASSUME NEW k \in Killer, Abort(k) PROVE Owed'
  BY <1>5, AbortOwes
<1>6. ASSUME NEW p \in Proc, Finish(p) PROVE Owed'
  BY <1>6, ClearOwes, CommitOwes, BarrierOwes, FanInOwes, PropagateOwes DEF Finish
<1>7. ASSUME NEW s \in Session, Drain(s) PROVE Owed'
  BY <1>7, DrainOwes
<1>8. CASE UNCHANGED vars
  <2>1. Aside
    BY <1>8 DEF Aside, Owed, Fresh, vars, launchVars, recordVars, finishVars, histVars
  <2> QED BY <2>1, AsideStep
<1> QED BY <1>1, <1>2, <1>3, <1>4, <1>5, <1>6, <1>7, <1>8 DEF Next

LEMMA OwedAlways == Spec => []Owed
<1>1. Init => Owed
  BY InitOwes
<1>2. IInv /\ Owed /\ [Next]_vars => Owed'
  BY NextOwes
<1> QED BY <1>1, <1>2, Invariance, PTL DEF Spec

-----------------------------------------------------------------------------
\* Nothing is Verified but on the word of a Verify worker that completed
\* (propagate_verification_to_parent).
THEOREM VerifiedIsWitnessed == Spec => []VerifiedHasWitness
<1>1. Owed => VerifiedHasWitness
  BY DEF Owed
<1> QED BY <1>1, OwedAlways, PTL

\* A Verify worker's end reaches its parent, whoever ended it and whatever else
\* runs between the commit and propagate_verification_to_parent.
THEOREM VerdictArrives == Spec => []VerdictNotLost
<1>1. ASSUME Owed PROVE VerdictNotLost
  <2> SUFFICES ASSUME NEW t \in Task, RoleOf(t) = "Verify", ParentOf(t) # NoTask,
                      status[t] \in Terminal, \A p \in Proc : target[p] # t,
                      ~HasVerifier(t)
               PROVE  validation[ParentOf(t)] # "PendingVerification"
    BY DEF VerdictNotLost
  <2> QED BY <1>1 DEF Owed, Heard
<1> QED BY <1>1, OwedAlways, PTL

\* A group that is done was announced for exactly its members, however their
\* finishes, kills and late launches interleave (finish_with_activity).
THEOREM FanInArrives == Spec => []FanInNotLost
<1>1. ASSUME IInv, Owed PROVE FanInNotLost
  <2> SUFFICES ASSUME NEW g \in Group, Quiet, GroupReady(g),
                      \A t \in Members(g) : ~asked[t].verify
               PROVE  [group |-> g, of |-> Members(g)] \in fanins
    BY DEF FanInNotLost
  <2>1. \A m \in Members(g) : status[m] \in Terminal
    BY <1>1 DEF GroupReady, Members, IInv, StateTypeOK, Active, Terminal
  <2>2. \A m \in Members(g) : launch[m] = "registered"
    <3> TAKE m \in Members(g)
    <3>1. m \in Task /\ GroupOf(m) = g /\ g # NoGroup
      BY ConstantsAssumption DEF Members
    <3>2. Configured(m)
      BY <3>1 DEF GroupOf
    <3> QED BY <3>1, <3>2 DEF Configured, Quiet
  <2>3. Done(g)
    BY <2>1, <2>2 DEF Done, GroupReady
  <2>4. \A p \in Proc : ~Announces(p, g)
    BY DEF Quiet, Announces
  <2> QED BY <1>1, <2>3, <2>4 DEF Owed, Announced
<1> QED BY <1>1, Invariance, OwedAlways, PTL

-----------------------------------------------------------------------------
(***************************************************************************)
(* The coordinator's turn.  Its own steps are steps of the manager or none,*)
(* and once its calls are over the tasks they made can only end.           *)
(***************************************************************************)

\* Beside a coordinator the manager does nothing that it does not do alone.
THEOREM TurnIsManager == TurnSpec => Spec
<1>1. TurnInit => Init
  BY DEF TurnInit
<1>2. [TurnNext]_turnVars => [Next]_vars
  BY DEF TurnNext, OwnCall, Manager, TurnDrain, TurnGate, NewTurn, Next, turnVars
<1> QED BY <1>1, <1>2, PTL DEF TurnSpec, Spec

\* A task keeps its request and its attributes; one whose call is over stays
\* ended, and never comes to wait for verification.
Kept(t) ==
  /\ launch[t] = "none" => launch'[t] \in {"none", "created"}
  /\ launch[t] # "none" => asked'[t] = asked[t] /\ launch'[t] # "none"
  /\ Configured(t) => Configured(t)'
  /\ launch[t] \in {"dropped", "registered"} =>
       /\ launch'[t] = launch[t]
       /\ status[t] \in Terminal => status'[t] \in Terminal
       /\ validation[t] # "PendingVerification" =>
            validation'[t] # "PendingVerification"

LEMMA TasksKeep ==
  ASSUME IInv, [Next]_vars
  PROVE  \A t \in Task : Kept(t)
<1>1. ASSUME NEW r \in Requests, NEW q \in Task \cup {NoTask}, Create(r, q)
      PROVE  \A t \in Task : Kept(t)
  <2>1. /\ launch[next] = "none"
        /\ launch' = [launch EXCEPT ![next] = "created"]
        /\ status' = [status EXCEPT ![next] = "Pending"]
        /\ asked' = [asked EXCEPT ![next] = r]
        /\ next \in Task /\ validation' = validation
    BY <1>1, ConstantsAssumption DEF IInv, StateTypeOK, Numbering, Task, Create
  <2> QED BY <2>1 DEF Kept, Configured, IInv, StateTypeOK
<1>2. ASSUME NEW u \in Task, Call(u) PROVE \A t \in Task : Kept(t)
  BY <1>2 DEF IInv, StateTypeOK, Call, Launch, Configure, DropCall, Start, Spawn,
     Register, Kept, Configured, recordVars
<1>3. ASSUME UNCHANGED <<launchVars, recordVars>> PROVE \A t \in Task : Kept(t)
  BY <1>3 DEF Kept, Configured, launchVars, recordVars
<1>4. ASSUME NEW p \in Proc, FinishCommit(p) PROVE \A t \in Task : Kept(t)
  <2>1. target[p] \in Task /\ verdict[p] \in Terminal
    BY <1>4 DEF IInv, Finishers, FinishCommit
  <2>2. \A t \in Task : status[t] \in Terminal => status'[t] \in Terminal
    BY <1>4, <2>1 DEF IInv, StateTypeOK, FinishCommit, Settle
  <2>3. \A t \in Task : validation[t] # "PendingVerification" =>
                        validation'[t] # "PendingVerification"
    BY <1>4, <2>1, TransitionType DEF IInv, StateTypeOK, FinishCommit, Settle
  <2> QED BY <1>4, <2>2, <2>3 DEF Kept, Configured, FinishCommit, Settle, launchVars
<1>5. ASSUME NEW p \in Proc, FinishPropagate(p) PROVE \A t \in Task : Kept(t)
  <2>1. Propagated(target[p]) # "PendingVerification"
    BY DEF Propagated
  <2>2. \A t \in Task : validation[t] # "PendingVerification" =>
                        validation'[t] # "PendingVerification"
    BY <1>5, <2>1 DEF IInv, StateTypeOK, FinishPropagate
  <2> QED BY <1>5, <2>2 DEF Kept, Configured, FinishPropagate, launchVars
<1>6. ASSUME NEW t \in Task, Work(t) PROVE UNCHANGED <<launchVars, recordVars>>
  BY <1>6 DEF Work, WorkerDrop, WorkerReturn, WorkerFinish
<1>7. ASSUME NEW k \in Killer, NEW t \in Task, KillAny(k, t) \/ Abort(k)
      PROVE  UNCHANGED <<launchVars, recordVars>>
  BY <1>7 DEF KillAny, Kill, ForceKill, Hibernate, BeginKill, Abort
<1>8. ASSUME NEW p \in Proc,
             FinishClear(p) \/ FinishTooLate(p) \/ FinishBarrier(p) \/ FinishFanIn(p)
      PROVE  UNCHANGED <<launchVars, recordVars>>
  BY <1>8 DEF FinishClear, FinishTooLate, FinishBarrier, FinishFanIn
<1>9. ASSUME NEW s \in Session, Drain(s) PROVE UNCHANGED <<launchVars, recordVars>>
  BY <1>9 DEF Drain
<1>10. CASE UNCHANGED vars
  BY <1>3, <1>10 DEF vars
<1>11. ASSUME NEW p \in Proc, Finish(p) PROVE \A t \in Task : Kept(t)
  BY <1>3, <1>4, <1>5, <1>8, <1>11 DEF Finish
<1> QED BY <1>1, <1>2, <1>3, <1>6, <1>7, <1>9, <1>10, <1>11, Zenon DEF Next

\* What the turn's synthesis rests on, for one of its own tasks.
Justified(s, t) ==
  /\ validation[t] # "PendingVerification"
  /\ GroupOf(t) # NoGroup => GroupReady(GroupOf(t)) \/ SharedGroup(s, GroupOf(t))

\* While the calls of a turn are over and it makes none, its own tasks stay settled.
LEMMA SettledStays ==
  ASSUME IInv, IInv', [Next]_vars, NEW s \in Session, CallsOver(s),
         \A u \in Task : Owns(s, u)' <=> Owns(s, u),
         NEW t \in Task, Owns(s, t), Justified(s, t)
  PROVE  Justified(s, t)'
<1>1. \A u \in Task : Kept(u)
  BY TasksKeep
<1>2. \A u \in Task : GroupOf(u) # NoGroup =>
        /\ GroupOf(u)' = GroupOf(u) /\ asked'[u] = asked[u]
        /\ launch[u] # "none" /\ launch'[u] # "none"
  BY <1>1 DEF Kept, GroupOf, Configured
<1>3. launch[t] \in {"dropped", "registered"} /\ launch'[t] = launch[t]
      /\ asked'[t] = asked[t]
  BY <1>1 DEF CallsOver, Kept
<1>4. GroupOf(t)' = GroupOf(t)
  BY <1>3 DEF GroupOf, Configured
<1>5. validation'[t] # "PendingVerification"
  BY <1>1, <1>3 DEF Kept, Justified
<1>6. ASSUME NEW g, g = GroupOf(t), g # NoGroup
      PROVE  GroupReady(g)' \/ SharedGroup(s, g)'
  <2>1. ASSUME NEW u \in Members(g) PROVE u \in Members(g)'
    <3>1. u \in Task /\ GroupOf(u)' = g /\ launch'[u] # "none"
      BY <1>2, <1>6, <2>1 DEF Members
    <3>2. status'[u] # "Absent"
      BY <3>1 DEF IInv, Numbering
    <3> QED BY <3>1, <3>2 DEF Members
  <2>2. SharedGroup(s, g) => SharedGroup(s, g)'
    BY <2>1 DEF SharedGroup, Members
  <2> SUFFICES ASSUME ~SharedGroup(s, g)' PROVE GroupReady(g)'
    OBVIOUS
  <2>3. GroupReady(g)
    BY <1>6, <2>2 DEF Justified
  <2>4. ASSUME NEW u \in Members(g)'
        PROVE  u \in Members(g) /\ launch[u] = "registered" /\ asked'[u] = asked[u]
    <3>1. u \in Task /\ GroupOf(u)' = g /\ Owns(s, u)
      BY <2>4 DEF Members, SharedGroup
    <3>2. launch[u] \in {"dropped", "registered"} /\ launch'[u] = launch[u]
          /\ asked'[u] = asked[u]
      BY <1>1, <3>1 DEF CallsOver, Kept
    <3>3. launch[u] = "registered"
      BY <1>6, <3>1, <3>2 DEF GroupOf, Configured
    <3>4. status[u] # "Absent" /\ GroupOf(u) = g
      BY <3>1, <3>2, <3>3 DEF IInv, Numbering, GroupOf, Configured
    <3> QED BY <3>1, <3>2, <3>3, <3>4 DEF Members
  <2>5. \A u \in Members(g)' : status'[u] \notin Active
    <3> TAKE u \in Members(g)'
    <3>1. u \in Members(g) /\ launch[u] = "registered"
      BY <2>4
    <3>2. u \in Task /\ status[u] \in Terminal
      BY <2>3, <3>1 DEF GroupReady, Members, IInv, StateTypeOK, Active, Terminal
    <3> QED BY <1>1, <3>1, <3>2 DEF Kept, Active, Terminal
  <2>6. AllAgents(g)' => AllAgents(g)
    BY <2>1, <2>4 DEF AllAgents, TypeOf
  <2>7. AllAgents(g)' => \A u \in Members(g)' : validation'[u] # "PendingVerification"
    <3> SUFFICES ASSUME AllAgents(g)', NEW u \in Members(g)'
                 PROVE  validation'[u] # "PendingVerification"
      OBVIOUS
    <3>1. u \in Members(g) /\ launch[u] = "registered" /\ u \in Task
      BY <2>4 DEF Members
    <3>2. validation[u] # "PendingVerification"
      BY <2>3, <2>6, <3>1 DEF GroupReady
    <3> QED BY <1>1, <3>1, <3>2 DEF Kept
  <2>8. Members(g)' # {}
    BY <2>1, <2>3 DEF GroupReady
  <2> QED BY <2>5, <2>7, <2>8 DEF GroupReady
<1> QED BY <1>4, <1>5, <1>6 DEF Justified

\* Once a turn's events are drained its calls are over, and what it went on to
\* write its synthesis on is settled.
TurnInv ==
  /\ turn \in [Session -> {"open", "drained", "final"}]
  /\ \A t \in own : t \in Task /\ launch[t] # "none"
  /\ \A s \in Session : turn[s] # "open" => CallsOver(s)
  /\ SynthesisStaysSettled

LEMMA TurnStep == IInv /\ IInv' /\ TurnInv /\ [TurnNext]_turnVars => TurnInv'
<1> SUFFICES ASSUME IInv, IInv', TurnInv, [TurnNext]_turnVars PROVE TurnInv'
  OBVIOUS
<1>0. [Next]_vars
  BY DEF TurnNext, OwnCall, Manager, TurnDrain, TurnGate, NewTurn, Next, turnVars
<1>a. \A t \in Task : Kept(t)
  BY <1>0, TasksKeep
<1>1. turn' \in [Session -> {"open", "drained", "final"}]
  BY DEF TurnInv, TurnNext, OwnCall, Manager, TurnDrain, TurnGate, NewTurn, turnVars
<1>2. ASSUME OwnCall
      PROVE  /\ own' = own \cup {next} /\ next \in Task /\ next \notin own
             /\ launch'[next] = "created" /\ turn' = turn
             /\ turn[asked'[next].session] = "open"
  <2>1. PICK r \in Requests, q \in Task \cup {NoTask} : turn[r.session] = "open" /\ Create(r, q)
    BY <1>2 DEF OwnCall
  <2>2. next \in Task /\ launch[next] = "none"
    BY <2>1, ConstantsAssumption DEF IInv, StateTypeOK, Numbering, Task, Create
  <2>3. launch'[next] = "created" /\ asked'[next] = r
    BY <2>1, <2>2 DEF IInv, StateTypeOK, Create
  <2> QED BY <1>2, <2>1, <2>2, <2>3 DEF OwnCall, TurnInv
<1>3. ~OwnCall => own' = own
  BY DEF TurnNext, Manager, TurnDrain, TurnGate, NewTurn, turnVars
<1>4. \A t \in own' : t \in Task /\ launch'[t] # "none"
  <2>1. \A t \in own : t \in Task /\ launch'[t] # "none"
    BY <1>a DEF Kept, TurnInv
  <2> QED BY <1>2, <1>3, <2>1
<1>5. ASSUME NEW s \in Session, turn'[s] # "open"
      PROVE  \A u \in Task : Owns(s, u)' <=> Owns(s, u)
  <2>1. \A u \in own : asked'[u] = asked[u]
    BY <1>a DEF Kept, TurnInv
  <2>2. CASE OwnCall
    BY <1>2, <1>5, <2>1, <2>2 DEF Owns
  <2>3. CASE ~OwnCall
    BY <1>3, <2>1, <2>3 DEF Owns
  <2> QED BY <2>2, <2>3
<1>6. ASSUME NEW s \in Session, turn'[s] # "open" PROVE CallsOver(s) /\ CallsOver(s)'
  <2>1. CallsOver(s)
    <3>1. turn[s] # "open" \/ TurnDrain(s)
      BY <1>6 DEF TurnNext, OwnCall, Manager, TurnDrain, TurnGate, NewTurn, turnVars, TurnInv
    <3> QED BY <3>1 DEF TurnInv, TurnDrain
  <2>2. CallsOver(s)'
    BY <1>a, <1>5, <1>6, <2>1 DEF CallsOver, Kept
  <2> QED BY <2>1, <2>2
<1>7. ASSUME NEW s \in Session, NEW t \in Task, turn'[s] = "final", Owns(s, t)'
      PROVE  Justified(s, t)'
  <2>1. Owns(s, t) /\ CallsOver(s) /\ \A u \in Task : Owns(s, u)' <=> Owns(s, u)
    BY <1>5, <1>6, <1>7
  <2>2. CASE turn[s] = "final"
    BY <1>0, <2>1, <2>2, SettledStays DEF TurnInv, SynthesisStaysSettled, Justified
  <2>3. CASE turn[s] # "final"
    <3>1. ~PendingOrchestration(s)
      BY <1>7, <2>3 DEF TurnNext, OwnCall, Manager, TurnDrain, TurnGate, NewTurn, turnVars,
         TurnInv
    <3>2. status[t] # "Absent" /\ asked[t].session = s
      BY <2>1 DEF Owns, TurnInv, IInv, Numbering
    <3>3. Justified(s, t)
      BY <3>1, <3>2 DEF PendingOrchestration, Justified
    <3> QED BY <1>0, <2>1, <3>3, SettledStays
  <2> QED BY <2>2, <2>3
<1> QED BY <1>1, <1>4, <1>6, <1>7 DEF TurnInv, SynthesisStaysSettled, Justified

\* The gate on has_pending_orchestration, passed once, holds for as long as the
\* synthesis takes (finalize_normal_turn), for the tasks that the turn's own calls
\* made, but for what others add to their groups.
THEOREM SettledForSynthesis == TurnSpec => []SynthesisStaysSettled
<1>1. TurnInit => TurnInv
  BY DEF TurnInit, TurnInv, SynthesisStaysSettled
<1>2. IInv /\ IInv' /\ TurnInv /\ [TurnNext]_turnVars => TurnInv'
  BY TurnStep
<1>3. TurnInv => SynthesisStaysSettled
  BY DEF TurnInv
<1> QED BY <1>1, <1>2, <1>3, TurnIsManager, Invariance, PTL DEF TurnSpec
=============================================================================
