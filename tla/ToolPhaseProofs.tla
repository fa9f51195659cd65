----------------------------- MODULE ToolPhaseProofs -----------------------------
(* Proofs about ToolPhase for any calls, batches and permissions: an unsafe call  *)
(* runs alone in its batch, the outcomes stand in the order of the requests, and, *)
(* with one surface, a request for approval lets at most one call run.            *)
EXTENDS ToolPhase, WellFoundedInduction, TLAPS

Active(i) == slot[i] \notin {"todo", "taken"}

\* An unsafe request is under way alone.
Alone == \A i, j \in DOMAIN batch : Active(i) /\ Active(j) /\ ~IsSafe(i) => i = j

\* The outcomes are those of the first requests, and these are the ones taken.
Taken ==
    /\ \A i \in DOMAIN outcomes : outcomes[i][1] = i
    /\ Len(outcomes) <= Len(batch)
    /\ \A i \in DOMAIN batch : slot[i] = "taken" <=> i <= Len(outcomes)
    /\ \A i \in Request \ DOMAIN batch : slot[i] = "todo"

\* A batch was counted; a surface that is busy has read a call.
Busy ==
    /\ batch # << >> => batches > 0
    /\ \A s \in Surface : surface[s].pc # "idle" => surface[s].call \in Call

IInv == TypeOK /\ Alone /\ Taken /\ Busy

\* Each request is answered by one approval at most: one that pends or is being
\* read has not been.
Single == \A s, t \in Surface : s = t
Open == pending # NoCall \/ \E s \in Surface : surface[s].pc = "read"
Counted == approved + (IF Open THEN 1 ELSE 0) <= asks

-----------------------------------------------------------------------------
\* Every set of natural numbers that is not empty has a least element.
LEMMA LeastNat ==
  ASSUME NEW T \in SUBSET Nat, T # {}
  PROVE  \E m \in T : \A k \in T : m <= k
<1> DEFINE R == OpToRel(<, Nat)
<1>1. IsWellFoundedOn(R, Nat)
  BY NatLessThanWellFounded
<1>2. \A x, y \in Nat : <<y, x>> \in R <=> y < x
  BY DEF OpToRel
<1> HIDE DEF R
<1>3. PICK m \in T : \A k \in T : ~ (<<k, m>> \in R)
  BY <1>1, WFMin
<1>4. \A k \in T : k \in Nat /\ m \in Nat /\ ~ (k < m)
  BY <1>2, <1>3
<1> QED BY <1>4

LEMMA Initially == Init => IInv
<1> SUFFICES ASSUME Init PROVE IInv
  OBVIOUS
<1>1. batch = << >> /\ outcomes = << >> /\ Len(batch) = 0 /\ Len(outcomes) = 0
      /\ DOMAIN batch = {} /\ DOMAIN outcomes = {}
  BY DEF Init
<1>2. batch \in Seq(Call) /\ outcomes \in Seq(Request \X Kind)
  BY <1>1
<1>3. slot = [i \in Request |-> "todo"] /\ \A i \in Request : slot[i] = "todo"
  BY DEF Init, NoSlots
<1>4. TypeOK
  BY <1>1, <1>2, <1>3, ToolAssumption DEF Init, TypeOK
<1>5. Alone /\ Taken /\ Busy
  BY <1>1, <1>3 DEF Alone, Taken, Busy, Init
<1> QED BY <1>4, <1>5 DEF IInv

LEMMA BatchType ==
  ASSUME TypeOK
  PROVE  /\ Len(batch) \in Nat /\ DOMAIN batch = 1 .. Len(batch) /\ DOMAIN batch \subseteq Request
         /\ Len(outcomes) \in Nat /\ DOMAIN outcomes = 1 .. Len(outcomes)
<1>1. batch \in Seq(Call) /\ Len(batch) <= MaxSize /\ outcomes \in Seq(Request \X Kind)
  BY DEF TypeOK
<1>2. Len(batch) \in Nat /\ DOMAIN batch = 1 .. Len(batch)
  BY <1>1
<1>3. Len(outcomes) \in Nat /\ DOMAIN outcomes = 1 .. Len(outcomes)
  BY <1>1
<1> QED BY <1>1, <1>2, <1>3, ToolAssumption DEF Request

\* A turn begins: a new batch with nothing started.
LEMMA Begin ==
  ASSUME IInv, batch = << >>, NEW b \in Seq(Call), Len(b) <= MaxSize, batch' = b,
         batches < MaxBatches, batches' = batches + 1,
         UNCHANGED <<slot, outcomes, detached, cancels>>, UNCHANGED approval
  PROVE  IInv'
<1>1. TypeOK'
  BY ToolAssumption DEF IInv, TypeOK, approval
<1>2. DOMAIN batch = {} /\ Len(batch) = 0
  OBVIOUS
<1>3. Len(outcomes) = 0 /\ DOMAIN outcomes = {} /\ \A i \in Request : slot[i] = "todo"
  BY <1>2, BatchType DEF IInv, Taken
<1>4. DOMAIN batch' \subseteq Request /\ Len(b) \in Nat /\ DOMAIN b = 1 .. Len(b)
  BY <1>1, ToolAssumption DEF TypeOK, Request
<1>5. Alone' /\ Taken'
  BY <1>3, <1>4 DEF Alone, Active, Taken, Request
<1>6. Busy'
  BY DEF IInv, TypeOK, Busy, approval
<1> QED BY <1>1, <1>5, <1>6 DEF IInv

\* One request moves on while the rest stand.
LEMMA Move ==
  ASSUME IInv, NEW i \in DOMAIN batch, Active(i),
         NEW v \in {"started", "running", "panicked"} \cup Kind,
         slot' = [slot EXCEPT ![i] = v],
         UNCHANGED <<batch, outcomes, detached, batches, cancels>>, UNCHANGED approval
  PROVE  IInv'
<1>1. i \in Request
  BY BatchType DEF IInv
<1>2. TypeOK'
  BY DEF IInv, TypeOK, approval
<1>3. slot'[i] = v /\ \A j \in Request \ {i} : slot'[j] = slot[j]
  BY <1>1 DEF IInv, TypeOK
<1>4. \A j \in DOMAIN batch : j \in Request /\ (Active(j)' <=> Active(j))
                              /\ (slot'[j] = "taken" <=> slot[j] = "taken")
  BY <1>1, <1>3, BatchType DEF IInv, Active, Kind
<1>5. Alone'
  BY <1>4 DEF IInv, Alone, IsSafe
<1>6. Taken' /\ Busy'
  BY <1>3, <1>4 DEF IInv, Taken, Busy, approval
<1> QED BY <1>2, <1>5, <1>6 DEF IInv

LEMMA InvokeStep == ASSUME IInv, NEW i \in Request, Invoke(i) PROVE IInv'
<1> DEFINE v == CASE Decision(batch[i]) = "allow" -> "running"
                  [] Decision(batch[i]) = "ask" -> "ask"
                  [] Decision(batch[i]) = "deny" -> "denied"
<1>1. i \in DOMAIN batch /\ Active(i)
  BY DEF Invoke, Active
<1>2. batch[i] \in Call
  BY <1>1 DEF IInv, TypeOK
<1>3. Decision(batch[i]) \in {"allow", "ask", "deny"}
  BY <1>2, ToolAssumption DEF Decision
<1>4. v \in {"started", "running", "panicked"} \cup Kind
  BY <1>3 DEF Kind
<1>5. /\ slot' = [slot EXCEPT ![i] = v]
      /\ UNCHANGED <<batch, outcomes, detached, batches, cancels>> /\ UNCHANGED approval
  BY DEF Invoke
<1> HIDE DEF v
<1> QED BY <1>1, <1>4, <1>5, Move

LEMMA ReturnStep ==
  ASSUME IInv, NEW i \in Request, Returned(i) \/ Panicked(i) PROVE IInv'
<1>1. i \in DOMAIN batch /\ Active(i)
  BY DEF Returned, Panicked, Active
<1>2. CASE Returned(i)
  BY <1>1, <1>2, Move DEF Returned, Kind
<1>3. CASE Panicked(i)
  BY <1>1, <1>3, Move DEF Panicked
<1> QED BY <1>2, <1>3

LEMMA TakeStep == ASSUME IInv, NEW i \in Request, Take(i) PROVE IInv'
<1> DEFINE n == Len(outcomes)
           k == IF slot[i] = "panicked" THEN "text" ELSE slot[i]
           o == <<i, k>>
<1>1. /\ i \in DOMAIN batch /\ slot[i] # "taken" /\ slot[i] \in Kind \cup {"panicked"}
      /\ \A j \in 1 .. i - 1 : slot[j] = "taken"
      /\ outcomes' = Append(outcomes, o) /\ slot' = [slot EXCEPT ![i] = "taken"]
      /\ UNCHANGED <<batch, detached, batches, cancels>> /\ UNCHANGED approval
  BY DEF Take, Kind
<1>2. n \in Nat /\ i \in Nat /\ Len(batch) \in Nat /\ i <= Len(batch) /\ i >= 1 /\ n <= Len(batch)
  BY <1>1, BatchType DEF IInv, Taken
<1>3. i = n + 1
  <2>1. ~(i <= n)
    BY <1>1 DEF IInv, Taken
  <2>2. CASE i > n + 1
    <3>1. n + 1 \in 1 .. i - 1 /\ n + 1 \in DOMAIN batch
      BY <1>2, <2>2, BatchType DEF IInv
    <3>2. slot[n + 1] = "taken" /\ ~(n + 1 <= n)
      BY <1>1, <1>2, <3>1
    <3> QED BY <3>1, <3>2 DEF IInv, Taken
  <2> QED BY <1>2, <2>1, <2>2
<1>4. o \in Request \X Kind /\ o[1] = i
  BY <1>1 DEF Kind
<1>5. outcomes \in Seq(Request \X Kind)
  BY DEF IInv, TypeOK
<1> HIDE DEF o, k
<1>6. /\ outcomes' \in Seq(Request \X Kind) /\ Len(outcomes') = n + 1
      /\ DOMAIN outcomes' = 1 .. n + 1 /\ outcomes'[n + 1] = o
      /\ \A j \in 1 .. n : outcomes'[j] = outcomes[j] /\ j \in DOMAIN outcomes
  BY <1>1, <1>4, <1>5
<1>7. slot'[i] = "taken" /\ \A j \in Request \ {i} : slot'[j] = slot[j]
  BY <1>1 DEF IInv, TypeOK
<1> HIDE DEF n
<1>8. TypeOK'
  <2>1. Len(outcomes') <= MaxSize
    BY <1>2, <1>3, <1>6, ToolAssumption DEF IInv, TypeOK
  <2> QED BY <1>1, <1>6, <2>1 DEF IInv, TypeOK, approval
<1>9. Alone'
  BY <1>1, <1>7, BatchType DEF IInv, Alone, Active, IsSafe
<1>10. Taken'
  <2>1. \A j \in DOMAIN outcomes' : outcomes'[j][1] = j
    <3>1. \A j \in 1 .. n + 1 : j = n + 1 \/ j \in 1 .. n
      BY <1>2
    <3> QED BY <1>3, <1>4, <1>6, <3>1 DEF IInv, Taken
  <2>2. \A j \in DOMAIN batch : slot'[j] = "taken" <=> j <= n + 1
    <3>1. \A j \in DOMAIN batch : j \in Request /\ j \in Nat
      BY BatchType DEF IInv, Request
    <3>2. \A j \in DOMAIN batch : slot[j] = "taken" <=> j <= n
      BY DEF IInv, Taken, n
    <3>3. \A j \in DOMAIN batch \ {i} : j <= n <=> j <= n + 1
      BY <1>2, <1>3, <3>1
    <3> QED BY <1>2, <1>3, <1>7, <3>1, <3>2, <3>3
  <2>3. \A j \in Request \ DOMAIN batch : slot'[j] = "todo"
    BY <1>1, <1>7 DEF IInv, Taken
  <2> QED BY <1>1, <1>2, <1>3, <1>6, <2>1, <2>2, <2>3 DEF Taken
<1>11. Busy'
  BY <1>1 DEF IInv, Busy, approval
<1> QED BY <1>8, <1>9, <1>10, <1>11 DEF IInv

LEMMA GroupStep == ASSUME IInv, StartGroup PROVE IInv'
<1> DEFINE f == First
           new == IF Spawned(f) THEN Group(f) \cap Todo ELSE {f}
<1>1. /\ Quiet /\ Todo # {}
      /\ slot' = [i \in Request |-> IF i \in new THEN "started" ELSE slot[i]]
      /\ UNCHANGED <<batch, outcomes, detached, batches, cancels>> /\ UNCHANGED approval
  BY DEF StartGroup
<1> DEFINE n == Len(outcomes)
<1>2. /\ n \in Nat /\ Len(batch) \in Nat /\ n <= Len(batch) /\ DOMAIN batch = 1 .. Len(batch)
      /\ DOMAIN batch \subseteq Request
  BY BatchType DEF IInv, Taken
<1>3. \A i \in DOMAIN batch : (slot[i] = "taken" <=> i <= n) /\ (i \in Todo <=> ~(i <= n))
  BY <1>1 DEF IInv, Taken, Quiet, Todo
<1>4. n + 1 \in Todo /\ \A i \in Todo : i \in DOMAIN batch /\ i >= n + 1
  <2>1. PICK i \in Todo : TRUE
    BY <1>1
  <2>2. i \in DOMAIN batch /\ ~(i <= n)
    BY <1>3, <2>1 DEF Todo
  <2>3. n + 1 \in DOMAIN batch /\ ~(n + 1 <= n)
    BY <1>2, <2>2
  <2>4. \A j \in Todo : j \in DOMAIN batch /\ ~(j <= n)
    BY <1>3 DEF Todo
  <2> QED BY <1>2, <1>3, <2>3, <2>4
<1>5. f = n + 1
  <2>1. f \in Todo /\ \A j \in Todo : f <= j
    BY <1>2, <1>4 DEF First
  <2> QED BY <1>2, <1>4, <2>1
<1>6. new \subseteq Todo /\ \A j \in new : IsSafe(j) = IsSafe(f)
  <2>1. \A j \in Group(f) : IsSafe(j) = IsSafe(f)
    <3>1. \A j \in Group(f) : j \in (f .. j) \cup (j .. f)
      BY <1>2, <1>5 DEF Group
    <3> QED BY <3>1 DEF Group
  <2> QED BY <1>4, <1>5, <2>1
<1>7. \A i, j \in new : ~IsSafe(i) => i = j
  <2>1. CASE Spawned(f)
    BY <1>6, <2>1 DEF Spawned
  <2>2. CASE ~Spawned(f)
    BY <2>2
  <2> QED BY <2>1, <2>2
<1> HIDE DEF f, new, n
<1>8. \A i \in DOMAIN batch : /\ i \in new => slot'[i] = "started"
                              /\ i \notin new => slot'[i] = slot[i] /\ slot[i] \in {"todo", "taken"}
  BY <1>1, <1>2 DEF Quiet
<1>9. TypeOK'
  <2>1. slot' \in [Request -> {"todo", "started", "running", "panicked", "taken"} \cup Kind]
    BY <1>1 DEF IInv, TypeOK
  <2> QED BY <1>1, <2>1 DEF IInv, TypeOK, approval
<1>10. Alone'
  <2>1. \A i \in DOMAIN batch : Active(i)' => i \in new
    BY <1>8 DEF Active
  <2> QED BY <1>1, <1>7, <2>1 DEF Alone, IsSafe
<1>11. Taken'
  <2>1. \A i \in DOMAIN batch : slot'[i] = "taken" <=> slot[i] = "taken"
    BY <1>6, <1>8 DEF Todo
  <2>2. \A i \in Request \ DOMAIN batch : slot'[i] = "todo"
    BY <1>1, <1>6 DEF IInv, Taken, Todo
  <2> QED BY <1>1, <2>1, <2>2 DEF IInv, Taken
<1>12. Busy'
  BY <1>1 DEF IInv, Busy, approval
<1> QED BY <1>9, <1>10, <1>11, <1>12 DEF IInv

\* The turn is over: its requests and outcomes are gone.
LEMMA Over ==
  ASSUME Reset, pending' \in Call \cup {NoCall}, always' = always, surface' = surface,
         detached' \subseteq (1 .. MaxBatches) \X Request \X Call,
         batches' = batches, cancels' \in 0 .. MaxCancels,
         asked' \in Call \cup {NoCall}, asks' \in Nat, approved' = approved, IInv
  PROVE  IInv'
<1>1. batch' = << >> /\ outcomes' = << >> /\ slot' = [i \in Request |-> "todo"]
  BY DEF Reset, NoSlots
<1>2. /\ batch' \in Seq(Call) /\ outcomes' \in Seq(Request \X Kind)
      /\ Len(batch') = 0 /\ Len(outcomes') = 0 /\ DOMAIN batch' = {} /\ DOMAIN outcomes' = {}
  BY <1>1
<1>3. TypeOK'
  BY <1>1, <1>2, ToolAssumption DEF IInv, TypeOK
<1>4. Alone' /\ Taken' /\ Busy'
  BY <1>1, <1>2 DEF Alone, Taken, IInv, Busy
<1> QED BY <1>3, <1>4 DEF IInv

LEMMA ReportStep == ASSUME IInv, Report PROVE IInv'
<1>1. /\ Reset /\ UNCHANGED <<detached, batches, cancels, always, surface, approved>>
      /\ Todo = {} /\ Quiet
  BY DEF Report
<1>2. CASE Asking = {}
  <2>1. UNCHANGED <<pending, asked, asks>>
    BY <1>2 DEF Report
  <2>2. TypeOK
    BY DEF IInv
  <2> QED BY <1>1, <2>1, <2>2, Over DEF TypeOK
<1>3. CASE Asking # {}
  <2> DEFINE i == CHOOSE i \in Asking : \A j \in Asking : i <= j
             c == batch[outcomes[i][1]]
  <2>1. Ask(Found(c), c)
    BY <1>3 DEF Report
  <2>2. i \in DOMAIN outcomes
    <3>1. Asking \subseteq DOMAIN outcomes /\ DOMAIN outcomes \subseteq Nat
      BY BatchType DEF Asking, IInv
    <3>2. \E m \in Asking : \A k \in Asking : m <= k
      BY <1>3, <3>1, LeastNat
    <3> QED BY <3>1, <3>2
  <2>a. c = batch[outcomes[i][1]]
    OBVIOUS
  <2> HIDE DEF i
  <2>3. i \in DOMAIN batch /\ outcomes[i][1] = i
    BY <2>2, BatchType DEF IInv, Taken
  <2>4. c = batch[i] /\ c \in Call
    BY <2>3, <2>a DEF IInv, TypeOK
  <2> HIDE DEF c
  <2>5. Found(c) \in Call
    <3> DEFINE T == {j \in DOMAIN batch : ToolOf[batch[j]] = ToolOf[c]}
    <3>1. T \in SUBSET Nat /\ T # {} /\ DOMAIN batch \subseteq Nat
      BY <2>3, <2>4, BatchType DEF IInv
    <3>2. PICK m \in T : \A k \in T : m <= k
      BY <3>1, LeastNat
    <3>3. \A j \in 1 .. m - 1 : j \in DOMAIN batch /\ ~(m <= j)
      BY <3>2, BatchType DEF IInv
    <3>4. /\ m \in DOMAIN batch /\ ToolOf[batch[m]] = ToolOf[c]
          /\ \A j \in 1 .. m - 1 : ToolOf[batch[j]] # ToolOf[c]
      BY <3>2, <3>3
    <3>5. PICK p \in DOMAIN batch : Found(c) = batch[p]
      BY <3>4 DEF Found
    <3> QED BY <3>5 DEF IInv, TypeOK
  <2>6. pending' \in Call /\ asked' \in Call /\ asks' \in Nat
    BY <2>1, <2>4, <2>5 DEF Ask, IInv, TypeOK
  <2>7. TypeOK
    BY DEF IInv
  <2> QED BY <1>1, <2>6, <2>7, Over DEF TypeOK
<1> QED BY <1>2, <1>3

LEMMA CancelStep == ASSUME IInv, Cancel PROVE IInv'
<1> DEFINE Left == {<<batches, i, batch[i]>> : i \in {j \in DOMAIN batch :
                        slot[j] \in {"started", "running"} /\ Spawned(j)}}
<1>1. /\ batch # << >> /\ cancels < MaxCancels /\ cancels' = cancels + 1
      /\ detached' = detached \cup Left /\ Reset /\ batches' = batches /\ UNCHANGED approval
  BY DEF Cancel
<1>2. Left \subseteq (1 .. MaxBatches) \X Request \X Call
  <2>1. batches \in 1 .. MaxBatches
    BY <1>1, ToolAssumption DEF IInv, TypeOK, Busy
  <2>2. \A i \in DOMAIN batch : i \in Request /\ batch[i] \in Call
    BY BatchType DEF IInv, TypeOK
  <2> QED BY <2>1, <2>2
<1> HIDE DEF Left
<1>3. TypeOK
  BY DEF IInv
<1>4. detached' \subseteq (1 .. MaxBatches) \X Request \X Call
  BY <1>1, <1>2, <1>3 DEF TypeOK
<1>5. cancels' \in 0 .. MaxCancels
  BY <1>1, <1>3, ToolAssumption DEF TypeOK
<1> QED BY <1>1, <1>3, <1>4, <1>5, Over DEF TypeOK, approval

\* A step that leaves the batch alone.
LEMMA Aside ==
  ASSUME IInv, UNCHANGED <<batch, slot, outcomes, batches>>, TypeOK', Busy'
  PROVE  IInv'
BY DEF IInv, Alone, Active, IsSafe, Taken

LEMMA SurfaceStep ==
  ASSUME IInv, NEW s \in Surface, Read(s) \/ Answer(s) \/ ApprovedReturns(s)
  PROVE  IInv'
<1>1. TypeOK /\ UNCHANGED execution
  BY DEF IInv, Read, Answer, Deny, Approve, ApprovedReturns
<1>2. CASE Read(s) \/ Deny(s) \/ ApprovedReturns(s)
  <2>1. TypeOK'
    BY <1>1, <1>2, SMTT(30) DEF TypeOK, Read, Deny, ApprovedReturns, execution
  <2>2. CASE Read(s)
    <3>1. pending \in Call /\ surface' = [surface EXCEPT ![s] = [pc |-> "read", call |-> pending]]
      BY <1>1, <2>2 DEF TypeOK, Read
    <3>2. \A t \in Surface : surface'[t] = surface[t] \/ surface'[t].call \in Call
      BY <1>1, <3>1 DEF TypeOK
    <3>3. Busy'
      BY <1>1, <3>2 DEF IInv, Busy, execution
    <3> QED BY <1>1, <2>1, <3>3, Aside DEF execution
  <2>3. CASE Deny(s) \/ ApprovedReturns(s)
    <3>1. surface' = [surface EXCEPT ![s] = [pc |-> "idle", call |-> NoCall]]
      BY <2>3 DEF Deny, ApprovedReturns
    <3>2. \A t \in Surface : surface'[t] = surface[t] \/ surface'[t].pc = "idle"
      BY <1>1, <3>1 DEF TypeOK
    <3>3. Busy'
      BY <1>1, <3>2 DEF IInv, Busy, execution
    <3> QED BY <1>1, <2>1, <3>3, Aside DEF execution
  <2> QED BY <1>2, <2>2, <2>3
<1>3. ASSUME NEW forever \in BOOLEAN, Approve(s, forever) PROVE IInv'
  <2>1. surface[s].call \in Call
    BY <1>3 DEF IInv, Busy, Approve
  <2>2. always' \subseteq {RuleOf[c] : c \in Call} \ {NoRule}
    BY <1>1, <1>3, <2>1 DEF TypeOK, Approve
  <2>3. TypeOK'
    BY <1>1, <1>3, <2>2, SMTT(30) DEF TypeOK, Approve, execution
  <2>4. Busy'
    BY <1>1, <1>3, <2>1 DEF IInv, TypeOK, Busy, Approve, execution
  <2> QED BY <1>1, <2>3, <2>4, Aside DEF execution
<1> QED BY <1>2, <1>3 DEF Answer

LEMMA DetachedStep ==
  ASSUME IInv, NEW d \in detached, DetachedReturns(d) PROVE IInv'
<1>1. TypeOK' /\ Busy'
  BY DEF IInv, TypeOK, Busy, DetachedReturns, approval
<1> QED BY <1>1, Aside DEF DetachedReturns

LEMMA HookStep ==
  ASSUME IInv, NEW c \in Call, NEW d \in Call, HookDenies(c) \/ HookAsks(c, d)
  PROVE  IInv'
<1>1. TypeOK'
  BY ToolAssumption, SMTT(30) DEF IInv, TypeOK, HookDenies, HookAsks, Ask, approval
<1>2. Busy' /\ UNCHANGED <<batch, slot, outcomes>> /\ batches' = batches + 1
  BY ToolAssumption DEF IInv, TypeOK, Busy, HookDenies, HookAsks, approval
<1> QED BY <1>1, <1>2 DEF IInv, Alone, Active, IsSafe, Taken

LEMMA StartStep ==
  ASSUME IInv, Turn PROVE IInv'
<1>1. ASSUME NEW n \in 2 .. MaxSize, NEW b \in [1 .. n -> Call], StartBatch(b) PROVE IInv'
  <2>1. n \in Nat /\ n <= MaxSize
    BY ToolAssumption
  <2>2. b \in Seq(Call) /\ Len(b) = n
    BY <2>1
  <2> QED BY <1>1, <2>1, <2>2, Begin DEF StartBatch
<1>2. ASSUME NEW c \in Call, NEW d \in Call, StartSingle(c, d) PROVE IInv'
  <2>1. <<d>> \in Seq(Call) /\ Len(<<d>>) = 1
    OBVIOUS
  <2>2. MaxSize >= 1
    BY ToolAssumption
  <2> QED BY <1>2, <2>1, <2>2, Begin DEF StartSingle
<1> QED BY <1>1, <1>2, HookStep DEF Turn

LEMMA Step == IInv /\ [Next]_vars => IInv'
<1> SUFFICES ASSUME IInv, [Next]_vars PROVE IInv'
  OBVIOUS
<1>1. CASE Execute
  BY <1>1, GroupStep, ReportStep, InvokeStep, ReturnStep, TakeStep DEF Execute
<1>2. CASE UNCHANGED vars
  BY <1>2 DEF vars, IInv, TypeOK, Alone, Active, IsSafe, Taken, Busy
<1> QED BY <1>1, <1>2, StartStep, CancelStep, DetachedStep, SurfaceStep DEF Next

THEOREM Invariance == Spec => []IInv
BY Initially, Step, PTL DEF Spec

\* Every variable keeps its type.
THEOREM TypeCorrect == Spec => []TypeOK
<1>1. IInv => TypeOK
  BY DEF IInv
<1> QED BY <1>1, Invariance, PTL

\* A call that is not safe to run concurrently never runs beside another of its batch.
THEOREM UnsafeRunsAlone == Spec => []UnsafeAlone
<1>1. IInv => UnsafeAlone
  BY DEF IInv, Alone, Active, UnsafeAlone
<1> QED BY <1>1, Invariance, PTL

\* The outcomes are in the order of the requests.
THEOREM OutcomesInOrder == Spec => []InRequestOrder
<1>1. IInv => InRequestOrder
  BY DEF IInv, Taken, InRequestOrder
<1> QED BY <1>1, Invariance, PTL

-----------------------------------------------------------------------------
LEMMA CountedStep ==
  ASSUME Single, IInv, Counted, [Next]_vars
  PROVE  Counted'
<1> DEFINE Numbers == approved \in Nat /\ asks \in Nat
<1>1. Numbers
  BY DEF IInv, TypeOK
<1>2. CASE UNCHANGED approval
  BY <1>2 DEF approval, Counted, Open
<1>3. ASSUME NEW c, NEW a, Ask(c, a), UNCHANGED <<surface, approved>> PROVE Counted'
  BY <1>1, <1>3 DEF Ask, Counted, Open
<1>4. CASE Turn
  BY <1>2, <1>3, <1>4 DEF Turn, StartBatch, StartSingle, HookDenies, HookAsks
<1>5. CASE Execute
  <2>1. CASE Report
    BY <1>3, <2>1 DEF Report, Counted, Open
  <2> QED BY <1>2, <1>5, <2>1 DEF Execute, StartGroup, Invoke, Returned, Panicked, Take
<1>6. CASE Cancel \/ \E d \in detached : DetachedReturns(d)
  BY <1>2, <1>6 DEF Cancel, DetachedReturns
<1>7. ASSUME NEW s \in Surface, Read(s) PROVE Counted'
  BY <1>1, <1>7 DEF Read, Counted, Open
<1>8. ASSUME NEW s \in Surface, Deny(s) \/ ApprovedReturns(s) PROVE Counted'
  <2>1. Open' => Open
    BY <1>8 DEF Deny, ApprovedReturns, Open, IInv, TypeOK
  <2> QED BY <1>1, <1>8, <2>1 DEF Deny, ApprovedReturns, Counted
<1>9. ASSUME NEW s \in Surface, NEW forever \in BOOLEAN, Approve(s, forever) PROVE Counted'
  <2>1. Open
    BY <1>9 DEF Approve, Open
  <2>2. ~Open'
    BY <1>9 DEF Approve, Open, Single, IInv, TypeOK
  <2> QED BY <1>1, <1>9, <2>1, <2>2 DEF Approve, Counted
<1>10. CASE UNCHANGED vars
  BY <1>2, <1>10 DEF vars, approval
<1> QED BY <1>4, <1>5, <1>6, <1>7, <1>8, <1>9, <1>10 DEF Next, Answer

\* With one surface, one request for approval lets at most one call run.
THEOREM OneRunPerAsk ==
  ASSUME Single PROVE Spec => []AskRunsOnce
<1>1. Init => Counted
  BY DEF Init, Counted, Open
<1>2. IInv /\ Counted /\ [Next]_vars => Counted'
  BY CountedStep
<1>3. IInv /\ Counted => AskRunsOnce
  BY DEF IInv, TypeOK, Counted, AskRunsOnce
<1> QED BY <1>1, <1>2, <1>3, Invariance, PTL DEF Spec
================================================================================
