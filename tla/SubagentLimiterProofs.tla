----------------------- MODULE SubagentLimiterProofs -----------------------
(***************************************************************************)
(* Proofs about SubagentLimiter for any subagents, any number of permits   *)
(* and any limits: no permit is lost or made up, and the limiter is a pool *)
(* of Max permits to its callers.                                          *)
(*                                                                         *)
(* What makes conservation inductive is the queue: a permit that comes     *)
(* back goes to the first waiter, which has none - the queue holds waiting *)
(* subagents only, and each of them once.                                  *)
(***************************************************************************)
EXTENDS SubagentLimiter, FiniteSetTheorems, SequenceTheorems, TLAPS

Queue == /\ \A i \in DOMAIN waiters : phase[waiters[i]] = "waiting"
         /\ \A i, j \in DOMAIN waiters : waiters[i] = waiters[j] => i = j

IInv == TypeOK /\ Queue /\ PermitsConserved

-----------------------------------------------------------------------------
\* How many subagents run once one more does, or one less.
LEMMA RunningType ==
  ASSUME TypeOK
  PROVE  IsFiniteSet(Running) /\ Cardinality(Running) \in Nat
<1>1. IsFiniteSet(Running)
  BY LimiterAssumption, FS_Subset DEF Running
<1> QED BY <1>1, FS_CardinalityType

LEMMA OneMore ==
  ASSUME TypeOK, NEW a \in Agent, phase[a] # "running",
         phase' = [phase EXCEPT ![a] = "running"]
  PROVE  /\ Running' = Running \cup {a} /\ a \notin Running
         /\ Cardinality(Running') = Cardinality(Running) + 1
<1>1. Running' = Running \cup {a} /\ a \notin Running
  BY DEF TypeOK, Running
<1> QED BY <1>1, RunningType, FS_AddElement

LEMMA OneLess ==
  ASSUME TypeOK, NEW a \in Agent, phase[a] = "running",
         phase' = [phase EXCEPT ![a] = "idle"]
  PROVE  /\ Running' = Running \ {a} /\ a \in Running
         /\ Cardinality(Running') = Cardinality(Running) - 1
<1>1. Running' = Running \ {a} /\ a \in Running
  BY DEF TypeOK, Running
<1> QED BY <1>1, RunningType, FS_RemoveElement

LEMMA SameRunning ==
  ASSUME TypeOK, NEW a \in Agent, phase[a] # "running", NEW v, v # "running",
         phase' = [phase EXCEPT ![a] = v]
  PROVE  Running' = Running
BY DEF TypeOK, Running

\* One leaves and another takes over.
LEMMA Exchange ==
  ASSUME TypeOK, NEW a \in Agent, phase[a] = "running",
         NEW h \in Agent, phase[h] = "waiting",
         phase' = [[phase EXCEPT ![a] = "idle"] EXCEPT ![h] = "running"]
  PROVE  /\ Running' = (Running \ {a}) \cup {h}
         /\ a \in Running /\ h \notin Running
         /\ Cardinality(Running') = Cardinality(Running)
<1>1. /\ Running' = (Running \ {a}) \cup {h}
      /\ a \in Running /\ h \notin Running
  BY DEF TypeOK, Running
<1>2. IsFiniteSet(Running \ {a}) /\ Cardinality(Running \ {a}) = Cardinality(Running) - 1
  BY <1>1, RunningType, FS_RemoveElement
<1>3. h \notin Running \ {a}
  BY <1>1
<1>4. Cardinality((Running \ {a}) \cup {h}) = Cardinality(Running \ {a}) + 1
  BY <1>2, <1>3, FS_AddElement
<1> QED BY <1>1, <1>2, <1>4, RunningType

-----------------------------------------------------------------------------
\* The first waiter waits, and without it the queue is in order.
LEMMA FirstWaiter ==
  ASSUME TypeOK, Queue, waiters # << >>
  PROVE  /\ Head(waiters) \in Agent /\ phase[Head(waiters)] = "waiting"
         /\ Tail(waiters) \in Seq(Agent)
         /\ \A i \in DOMAIN Tail(waiters) :
              Tail(waiters)[i] # Head(waiters) /\ phase[Tail(waiters)[i]] = "waiting"
         /\ \A i, j \in DOMAIN Tail(waiters) :
              Tail(waiters)[i] = Tail(waiters)[j] => i = j
<1>1. /\ waiters \in Seq(Agent) /\ Len(waiters) \in Nat \ {0}
      /\ DOMAIN waiters = 1 .. Len(waiters)
  BY LenProperties, EmptySeq DEF TypeOK
<1>2. /\ Head(waiters) = waiters[1] /\ Tail(waiters) \in Seq(Agent)
      /\ Len(Tail(waiters)) = Len(waiters) - 1
      /\ \A i \in 1 .. Len(Tail(waiters)) : Tail(waiters)[i] = waiters[i + 1]
  BY <1>1, HeadTailProperties
<1>3. DOMAIN Tail(waiters) = 1 .. Len(waiters) - 1
  BY <1>2, LenProperties
<1>4. 1 \in DOMAIN waiters /\ \A i \in DOMAIN Tail(waiters) : i + 1 \in DOMAIN waiters
  BY <1>1, <1>3
<1>5. waiters[1] \in Agent
  BY <1>1, ElementOfSeq
<1> QED BY <1>1, <1>2, <1>3, <1>4, <1>5 DEF Queue

\* The queue after somebody left it from the middle.
LEMMA WithoutOne ==
  ASSUME TypeOK, Queue, NEW i \in DOMAIN waiters
  PROVE  /\ Without(i) \in Seq(Agent)
         /\ \A j \in DOMAIN Without(i) :
              Without(i)[j] # waiters[i] /\ phase[Without(i)[j]] = "waiting"
         /\ \A j, k \in DOMAIN Without(i) : Without(i)[j] = Without(i)[k] => j = k
<1> DEFINE at(j) == IF j < i THEN j ELSE j + 1
<1>1. /\ waiters \in Seq(Agent) /\ Len(waiters) \in Nat
      /\ DOMAIN waiters = 1 .. Len(waiters) /\ i \in 1 .. Len(waiters)
  BY LenProperties DEF TypeOK
<1>2. \A j \in 1 .. Len(waiters) - 1 : at(j) \in DOMAIN waiters /\ at(j) # i
  BY <1>1
<1>3. \A j, k \in 1 .. Len(waiters) - 1 : at(j) = at(k) => j = k
  BY <1>1
<1>4. /\ DOMAIN Without(i) = 1 .. Len(waiters) - 1
      /\ \A j \in 1 .. Len(waiters) - 1 : Without(i)[j] = waiters[at(j)]
  BY DEF Without
<1>5. \A j \in DOMAIN waiters : waiters[j] \in Agent
  BY <1>1, ElementOfSeq
<1> HIDE DEF at
<1>6. Without(i) \in Seq(Agent)
  <2>1. Without(i) \in [1 .. Len(waiters) - 1 -> Agent]
    <3>1. Without(i) = [j \in 1 .. Len(waiters) - 1 |-> waiters[at(j)]]
      BY DEF Without, at
    <3> QED BY <3>1, <1>2, <1>5
  <2>2. Len(waiters) - 1 \in Nat
    BY <1>1
  <2> QED BY <2>1, <2>2, IsASeq
<1> QED BY <1>2, <1>3, <1>4, <1>6 DEF Queue

-----------------------------------------------------------------------------
LEMMA AcquireStep == ASSUME IInv, NEW a \in Agent, Acquire(a) PROVE IInv'
<1> USE DEF IInv
<1>1. available \in Nat /\ held \in Nat /\ Max \in Nat
  BY LimiterAssumption DEF TypeOK
<1>2. CASE available > 0
  <2>1. phase' = [phase EXCEPT ![a] = "running"] /\ phase[a] # "running"
    BY <1>2 DEF Acquire
  <2>2. Cardinality(Running') = Cardinality(Running) + 1
    BY <2>1, OneMore
  <2>3. PermitsConserved'
    BY <1>1, <1>2, <2>2, RunningType DEF Acquire, PermitsConserved
  <2>4. TypeOK'
    BY <1>1, <1>2, <2>1 DEF Acquire, TypeOK
  <2>5. Queue'
    BY <1>2, ElementOfSeq, LenProperties DEF Acquire, TypeOK, Queue
  <2> QED BY <2>3, <2>4, <2>5
<1>3. CASE ~ (available > 0)
  <2>1. phase' = [phase EXCEPT ![a] = "waiting"] /\ phase[a] = "idle"
    BY <1>3 DEF Acquire
  <2>2. PermitsConserved'
    BY <1>3, <2>1, SameRunning DEF Acquire, PermitsConserved
  <2>3. /\ waiters \in Seq(Agent) /\ waiters' \in Seq(Agent)
        /\ Len(waiters') = Len(waiters) + 1 /\ waiters'[Len(waiters) + 1] = a
        /\ \A i \in 1 .. Len(waiters) : waiters'[i] = waiters[i]
    BY <1>3, AppendProperties DEF Acquire, TypeOK
  <2>4. TypeOK'
    BY <1>3, <2>1, <2>3 DEF Acquire, TypeOK
  <2>5. /\ DOMAIN waiters = 1 .. Len(waiters) /\ Len(waiters) \in Nat
        /\ DOMAIN waiters' = 1 .. Len(waiters) + 1
    BY <2>3, LenProperties
  <2>6. \A i \in DOMAIN waiters : waiters[i] \in Agent /\ waiters[i] # a
    BY <2>1, <2>3, <2>5, ElementOfSeq DEF Queue
  <2>7. \A i \in DOMAIN waiters' : i \in DOMAIN waiters \/ i = Len(waiters) + 1
    BY <2>5
  <2>8. Queue'
    BY <2>1, <2>3, <2>5, <2>6, <2>7, SMTT(30) DEF Queue, TypeOK
  <2> QED BY <2>2, <2>4, <2>8
<1> QED BY <1>2, <1>3

LEMMA CancelStep == ASSUME IInv, NEW a \in Agent, Cancel(a) PROVE IInv'
<1> USE DEF IInv
<1>1. PICK i \in DOMAIN waiters : waiters[i] = a /\ waiters' = Without(i)
  BY DEF Cancel
<1>2. phase' = [phase EXCEPT ![a] = "idle"] /\ phase[a] = "waiting"
  BY DEF Cancel
<1>3. PermitsConserved'
  BY <1>2, SameRunning DEF Cancel, PermitsConserved
<1>4. TypeOK'
  BY <1>1, <1>2, WithoutOne DEF Cancel, TypeOK
<1>5. Queue'
  BY <1>1, <1>2, WithoutOne DEF Queue, TypeOK
<1> QED BY <1>3, <1>4, <1>5

LEMMA ReleaseStep == ASSUME IInv, NEW a \in Agent, Release(a) PROVE IInv'
<1> USE DEF IInv
<1>1. available \in Nat /\ held \in Nat /\ Max \in Nat
  BY LimiterAssumption DEF TypeOK
<1>2. CASE waiters = << >>
  <2>1. phase' = [phase EXCEPT ![a] = "idle"] /\ phase[a] = "running"
    BY <1>2 DEF Release, GiveBack
  <2> HIDE DEF IInv
  <2>6. /\ available' = available + 1 /\ held' = held
        /\ Cardinality(Running)' = Cardinality(Running) - 1
    BY <1>2, <2>1, OneLess DEF Release, GiveBack, IInv
  <2>2. PermitsConserved'
    BY <1>1, <2>6, RunningType DEF PermitsConserved, IInv
  <2> USE DEF IInv
  <2>3. Cardinality(Running)' \in Nat
    BY <2>1, OneLess, RunningType, FS_RemoveElement, FS_CardinalityType
  <2>4. TypeOK'
    BY <1>1, <1>2, <2>1, <2>2, <2>3 DEF Release, GiveBack, TypeOK, PermitsConserved
  <2>5. Queue'
    BY <1>2, EmptySeq DEF Release, GiveBack, Queue
  <2> QED BY <2>2, <2>4, <2>5
<1>3. CASE waiters # << >>
  <2> DEFINE h == Head(waiters)
  <2>1. /\ phase' = [[phase EXCEPT ![a] = "idle"] EXCEPT ![h] = "running"]
        /\ waiters' = Tail(waiters) /\ available' = available
        /\ phase[a] = "running"
    BY <1>3 DEF Release, GiveBack
  <2>2. h \in Agent /\ phase[h] = "waiting"
    BY <1>3, FirstWaiter
  <2> HIDE DEF h
  <2>3. PermitsConserved'
    BY <2>1, <2>2, Exchange DEF Release, PermitsConserved
  <2>4. TypeOK'
    BY <1>3, <2>1, <2>2, FirstWaiter DEF Release, TypeOK
  <2>5. Queue'
    BY <1>3, <2>1, <2>2, FirstWaiter DEF Queue, TypeOK, h
  <2> QED BY <2>3, <2>4, <2>5
<1> QED BY <1>2, <1>3

LEMMA RelaxStep == ASSUME IInv, Relax PROVE IInv'
<1> USE DEF IInv
<1>1. /\ available \in Nat /\ held \in Nat \ {0} /\ Max \in Nat
  BY LimiterAssumption DEF TypeOK, Relax, Target
<1>2. CASE waiters = << >>
  <2>1. UNCHANGED <<phase, waiters>> /\ available' = available + 1 /\ held' = held - 1
    BY <1>2 DEF Relax, GiveBack
  <2>2. PermitsConserved'
    BY <1>1, <2>1, RunningType DEF PermitsConserved, Running
  <2>3. TypeOK'
    BY <1>1, <2>1, <2>2, RunningType DEF Relax, TypeOK, PermitsConserved, Running
  <2> QED BY <2>1, <2>2, <2>3 DEF Queue
<1>3. CASE waiters # << >>
  <2> DEFINE h == Head(waiters)
  <2>1. /\ phase' = [phase EXCEPT ![h] = "running"] /\ waiters' = Tail(waiters)
        /\ available' = available /\ held' = held - 1
    BY <1>3 DEF Relax, GiveBack
  <2>2. h \in Agent /\ phase[h] = "waiting"
    BY <1>3, FirstWaiter
  <2> HIDE DEF h
  <2>3. PermitsConserved'
    <3>1. Cardinality(Running)' = Cardinality(Running) + 1
      BY <2>1, <2>2, OneMore
    <3> QED BY <1>1, <2>1, <3>1, RunningType DEF PermitsConserved
  <2>4. TypeOK'
    BY <1>1, <1>3, <2>1, <2>2, FirstWaiter DEF Relax, TypeOK
  <2>5. Queue'
    BY <1>3, <2>1, <2>2, FirstWaiter DEF Queue, TypeOK, h
  <2> QED BY <2>3, <2>4, <2>5
<1> QED BY <1>2, <1>3

\* The other steps of the refresh loop leave the subagents alone.
LEMMA LoopStep ==
  ASSUME IInv, Withhold \/ Delay \/ Adjusted \/ \E n \in Limits : Refresh(n)
  PROVE  IInv'
<1> USE DEF IInv
<1>1. /\ available \in Nat /\ held \in Nat /\ Max \in Nat /\ limit \in Nat
      /\ UNCHANGED <<phase, waiters>> /\ Running' = Running
  BY LimiterAssumption DEF TypeOK, Withhold, Delay, Adjusted, Refresh, Running
<1>2. PermitsConserved' /\ Queue'
  BY <1>1, RunningType DEF PermitsConserved, Queue, Withhold, Delay, Adjusted, Refresh
<1>3. TypeOK'
  BY <1>1, LimiterAssumption DEF TypeOK, Withhold, Delay, Adjusted, Refresh, Target
<1> QED BY <1>2, <1>3

LEMMA Invariance == Spec => []IInv
<1>1. Init => IInv
  <2> SUFFICES ASSUME Init PROVE IInv
    OBVIOUS
  <2>1. TypeOK /\ Queue
    BY LimiterAssumption, EmptySeq DEF Init, TypeOK, Queue
  <2>2. Running = {}
    BY DEF Init, Running
  <2>3. PermitsConserved
    BY <2>2, LimiterAssumption, FS_EmptySet DEF Init, PermitsConserved
  <2> QED BY <2>1, <2>3 DEF IInv
<1>2. IInv /\ [Next]_vars => IInv'
  <2> SUFFICES ASSUME IInv, [Next]_vars PROVE IInv'
    OBVIOUS
  <2>1. ASSUME NEW a \in Agent, Acquire(a) \/ Cancel(a) \/ Release(a) PROVE IInv'
    BY <2>1, AcquireStep, CancelStep, ReleaseStep
  <2>2. CASE Relax
    BY <2>2, RelaxStep
  <2>3. CASE Withhold \/ Delay \/ Adjusted \/ \E n \in Limits : Refresh(n)
    BY <2>3, LoopStep
  <2>4. CASE UNCHANGED vars
    BY <2>4 DEF IInv, TypeOK, Queue, PermitsConserved, Running, vars
  <2> QED BY <2>1, <2>2, <2>3, <2>4 DEF Next, Adjust
<1> QED BY <1>1, <1>2, PTL DEF Spec

-----------------------------------------------------------------------------
\* The type invariant.
THEOREM LimiterTypeCorrect == Spec => []TypeOK
<1>1. IInv => TypeOK
  BY DEF IInv
<1> QED BY <1>1, Invariance, PTL

\* No sequence of acquires, cancellations, releases and changes of the limit
\* (apply_limit) loses a permit of the semaphore or makes one up.
THEOREM PermitsAreConserved == Spec => []PermitsConserved
<1>1. IInv => PermitsConserved
  BY DEF IInv
<1> QED BY <1>1, Invariance, PTL

\* The limiter implements a pool of Max permits.
THEOREM ImplementsPool == Spec => PoolSpec
<1> DEFINE free == available + held
           Done == \/ \E a \in Agent : Pool!Grant(a) \/ Pool!Return(a)
                   \/ \E a, b \in Agent : Pool!HandOver(a, b)
                   \/ UNCHANGED <<Running, free>>
<1>1. Init => Pool!Init
  BY LimiterAssumption DEF Init, Pool!Init, Running
<1>2. IInv /\ [Next]_vars => [Pool!Next]_<<Running, free>>
  <2> SUFFICES ASSUME IInv, [Next]_vars PROVE Done
    BY DEF Pool!Next
  <2> USE DEF IInv
  <2>1. available \in Nat /\ held \in Nat /\ Max \in Nat /\ limit \in 1 .. Max
    BY LimiterAssumption DEF TypeOK
  <2>2. ASSUME NEW a \in Agent, Acquire(a) PROVE Done
    <3>1. CASE available > 0
      <4>1. phase' = [phase EXCEPT ![a] = "running"] /\ phase[a] # "running"
        BY <2>2, <3>1 DEF Acquire
      <4>2. Running' = Running \cup {a} /\ a \notin Running
        BY <4>1, OneMore
      <4>3. free > 0 /\ free' = free - 1
        BY <2>1, <2>2, <3>1 DEF Acquire
      <4> QED BY <4>2, <4>3 DEF Pool!Grant
    <3>2. CASE ~ (available > 0)
      <4>1. phase' = [phase EXCEPT ![a] = "waiting"] /\ phase[a] = "idle"
        BY <2>2, <3>2 DEF Acquire
      <4>2. Running' = Running /\ free' = free
        BY <2>2, <3>2, <4>1, SameRunning DEF Acquire
      <4> QED BY <4>2
    <3> QED BY <3>1, <3>2
  <2>3. ASSUME NEW a \in Agent, Cancel(a) PROVE Done
    <3>1. phase' = [phase EXCEPT ![a] = "idle"] /\ phase[a] = "waiting"
      BY <2>3 DEF Cancel
    <3>2. Running' = Running /\ free' = free
      BY <2>3, <3>1, SameRunning DEF Cancel
    <3> QED BY <3>2
  <2>4. ASSUME NEW a \in Agent, Release(a) PROVE Done
    <3>1. CASE waiters = << >>
      <4>1. phase' = [phase EXCEPT ![a] = "idle"] /\ phase[a] = "running"
        BY <2>4, <3>1 DEF Release, GiveBack
      <4>2. Running' = Running \ {a} /\ a \in Running
        BY <4>1, OneLess
      <4>3. free' = free + 1
        BY <2>1, <2>4, <3>1 DEF Release, GiveBack
      <4> QED BY <4>2, <4>3 DEF Pool!Return
    <3>2. CASE waiters # << >>
      <4>1. PICK h \in Agent : h = Head(waiters) /\ phase[h] = "waiting"
        BY <3>2, FirstWaiter
      <4>2. /\ phase' = [[phase EXCEPT ![a] = "idle"] EXCEPT ![h] = "running"]
            /\ phase[a] = "running" /\ free' = free
        BY <2>4, <3>2, <4>1 DEF Release, GiveBack
      <4>3. Running' = (Running \ {a}) \cup {h} /\ a \in Running /\ h \notin Running
        BY <4>1, <4>2, Exchange
      <4> QED BY <4>2, <4>3 DEF Pool!HandOver
    <3> QED BY <3>1, <3>2
  <2>5. ASSUME Relax PROVE Done
    <3>0. held > 0 /\ held' = held - 1
      BY <2>1, <2>5 DEF Relax, Target
    <3>1. CASE waiters = << >>
      <4>1. Running' = Running /\ free' = free
        BY <2>1, <2>5, <3>0, <3>1 DEF Relax, GiveBack, Running
      <4> QED BY <4>1
    <3>2. CASE waiters # << >>
      <4>1. PICK h \in Agent : h = Head(waiters) /\ phase[h] = "waiting"
        BY <3>2, FirstWaiter
      <4>2. phase' = [phase EXCEPT ![h] = "running"] /\ available' = available
        BY <2>5, <3>2, <4>1 DEF Relax, GiveBack
      <4>3. Running' = Running \cup {h} /\ h \notin Running
        BY <4>1, <4>2, OneMore
      <4>4. free > 0 /\ free' = free - 1
        BY <2>1, <3>0, <4>2
      <4> QED BY <4>3, <4>4 DEF Pool!Grant
    <3> QED BY <3>1, <3>2
  <2>6. CASE Withhold \/ Delay \/ Adjusted \/ (\E n \in Limits : Refresh(n))
    <3>1. Running' = Running /\ free' = free
      BY <2>1, <2>6 DEF Withhold, Delay, Adjusted, Refresh, Running
    <3> QED BY <3>1
  <2>7. CASE UNCHANGED vars
    BY <2>7 DEF Running, vars
  <2> QED BY <2>2, <2>3, <2>4, <2>5, <2>6, <2>7 DEF Next, Adjust
<1> QED BY <1>1, <1>2, Invariance, PTL DEF Spec, PoolSpec, Pool!Spec
=============================================================================
