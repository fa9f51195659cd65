-------------------------- MODULE SubagentLimiter --------------------------
(***************************************************************************)
(* The subagent limiter (src/src/core/concurrency.rs): a FIFO semaphore    *)
(* the Agent tool takes a permit from for every subagent it launches, and  *)
(* a refresh loop that narrows it to the limit the memory allows by taking *)
(* permits itself.                                                         *)
(*                                                                         *)
(* A subagent that is an ExecutorB may spawn children and holds its own    *)
(* permit while its call waits for the child's (Spawner).  The semaphore   *)
(* is tokio's: a permit that is given back goes to the first waiter, and   *)
(* try_acquire succeeds only while a permit is free.                       *)
(***************************************************************************)
EXTENDS Integers, Sequences, FiniteSets

CONSTANTS
  Agent,    \* subagents that may be launched
  Spawner,  \* who launches each: another subagent, or Nobody (a coordinator)
  Nobody,
  Max,      \* MAX_SUBAGENTS
  Default,  \* DEFAULT_SUBAGENTS
  Limits    \* the values of calculate_limit

Executors == {Spawner[a] : a \in Agent} \ {Nobody}

\* The limit leaves room for somebody besides the executors: calculate_limit never
\* goes below MIN_SUBAGENTS = 3, and a boss dispatches one step at a time.
ASSUME LimiterAssumption ==
  /\ IsFiniteSet(Agent) /\ Nobody \notin Agent
  /\ Spawner \in [Agent -> Agent \cup {Nobody}]
  /\ Max \in Nat \ {0} /\ Default \in 1 .. Max /\ Limits \subseteq 1 .. Max
  /\ \A n \in Limits : Cardinality(Executors) < n

VARIABLES
  available,  \* free permits of the semaphore
  waiters,    \* its queue
  phase,      \* of each subagent: "idle", "waiting", "running"
  held,       \* restriction_permits.len()
  limit,      \* current_limit
  loop        \* the refresh loop: "sleep", or "adjust" inside apply_limit

vars == <<available, waiters, phase, held, limit, loop>>

Running == {a \in Agent : phase[a] = "running"}
Waiting == {a \in Agent : phase[a] = "waiting"}
Target  == Max - limit   \* target_restriction

Init ==
  /\ available = Max
  /\ waiters = << >>
  /\ phase = [a \in Agent |-> "idle"]
  /\ held = 0
  /\ limit = Default
  /\ loop = "sleep"

-----------------------------------------------------------------------------
\* A permit comes back to the semaphore; the agents are in phase ph by then.
GiveBack(ph) ==
  IF waiters = << >>
  THEN available' = available + 1 /\ phase' = ph /\ UNCHANGED waiters
  ELSE /\ phase' = [ph EXCEPT ![Head(waiters)] = "running"]
       /\ waiters' = Tail(waiters)
       /\ UNCHANGED available

\* acquire: a free permit, or a place in the queue.
Acquire(a) ==
  /\ phase[a] = "idle"
  /\ Spawner[a] # Nobody => phase[Spawner[a]] = "running"
  /\ IF available > 0
     THEN /\ available' = available - 1
          /\ phase' = [phase EXCEPT ![a] = "running"]
          /\ UNCHANGED waiters
     ELSE /\ phase' = [phase EXCEPT ![a] = "waiting"]
          /\ waiters' = Append(waiters, a)
          /\ UNCHANGED available
  /\ UNCHANGED <<held, limit, loop>>

\* The queue without its i-th waiter.
Without(i) == [j \in 1 .. Len(waiters) - 1 |-> waiters[IF j < i THEN j ELSE j + 1]]

\* The tool call that waits is dropped with its turn.
Cancel(a) ==
  /\ phase[a] = "waiting"
  /\ phase' = [phase EXCEPT ![a] = "idle"]
  /\ \E i \in DOMAIN waiters : waiters[i] = a /\ waiters' = Without(i)
  /\ UNCHANGED <<available, held, limit, loop>>

\* A subagent whose own Agent call waits for a permit does not end.
Blocked(a) == \E c \in Waiting : Spawner[c] = a

\* The future ends, or is aborted, and drops its permit.
Release(a) ==
  /\ phase[a] = "running"
  /\ ~Blocked(a)
  /\ GiveBack([phase EXCEPT ![a] = "idle"])
  /\ UNCHANGED <<held, limit, loop>>

-----------------------------------------------------------------------------
\* apply_limit, up to the store: an unchanged limit makes it return.
Refresh(n) ==
  /\ loop = "sleep"
  /\ n # limit
  /\ limit' = n
  /\ loop' = "adjust"
  /\ UNCHANGED <<available, waiters, phase, held>>

\* Mutant: the permit is dropped at once instead of being kept.
WithholdForgetful ==
  /\ loop = "adjust" /\ held < Target /\ available > 0
  /\ held' = held + 1
  /\ UNCHANGED <<available, waiters, phase, limit, loop>>

\* The loop takes a free permit for itself ...
Withhold ==
  /\ loop = "adjust" /\ held < Target /\ available > 0
  /\ held' = held + 1 /\ available' = available - 1
  /\ UNCHANGED <<waiters, phase, limit, loop>>

\* ... or finds none and leaves it at that.
Delay ==
  /\ loop = "adjust" /\ held < Target /\ available = 0
  /\ loop' = "sleep"
  /\ UNCHANGED <<available, waiters, phase, held, limit>>

\* Mutant: the permit is returned by its drop and added once more.
RelaxTwice ==
  /\ loop = "adjust" /\ held > Target
  /\ held' = held - 1
  /\ available' = available + 2
  /\ UNCHANGED <<waiters, phase, limit, loop>>

\* Mutant: the permit it gives up is forgotten.
RelaxForgetful ==
  /\ loop = "adjust" /\ held > Target
  /\ held' = held - 1
  /\ UNCHANGED <<available, waiters, phase, limit, loop>>

\* It gives up a permit it has withheld.
Relax ==
  /\ loop = "adjust" /\ held > Target
  /\ held' = held - 1
  /\ GiveBack(phase)
  /\ UNCHANGED <<limit, loop>>

Adjusted ==
  /\ loop = "adjust" /\ held = Target
  /\ loop' = "sleep"
  /\ UNCHANGED <<available, waiters, phase, held, limit>>

Adjust == Withhold \/ Delay \/ Relax \/ Adjusted

Next ==
  \/ \E a \in Agent : Acquire(a) \/ Cancel(a) \/ Release(a)
  \/ \E n \in Limits : Refresh(n)
  \/ Adjust

\* A subagent ends or is aborted: an assumption, which the turn limits of step workers
\* bear out and nothing does for a worker without one (effective_max_turns), who may
\* keep its permit for as long as it runs.  The refresh loop does not stop inside
\* apply_limit.  Nobody has to ask for a permit or to cancel, the memory need not
\* change.
Fairness == WF_vars(Adjust) /\ \A a \in Agent : WF_vars(Release(a))

Spec     == Init /\ [][Next]_vars
FairSpec == Spec /\ Fairness

-----------------------------------------------------------------------------
\* The semaphore, the queue and the records keep their types and bounds.
TypeOK ==
  /\ available \in 0 .. Max
  /\ waiters \in Seq(Agent)
  /\ phase \in [Agent -> {"idle", "waiting", "running"}]
  /\ held \in 0 .. Max
  /\ limit \in Limits \cup {Default}
  /\ loop \in {"sleep", "adjust"}

\* Every permit is free, with a subagent, or with the limiter - through every
\* change of the limit and every hand-over in the queue.
PermitsConserved == available + held + Cardinality(Running) = Max

\* As long as subagents end, every call of acquire returns, unless it is cancelled: the
\* limiter withholds no permit for good that a waiter needs, and executors holding one
\* while they wait for another never have them all.
EveryAcquireReturns == \A a \in Agent : phase[a] = "waiting" ~> phase[a] # "waiting"

\* Seen from the callers, a permit the limiter withholds is one that is free.
Pool == INSTANCE PermitPool WITH holders <- Running, free <- available + held
PoolSpec == Pool!Spec
=============================================================================
