---------------------------- MODULE QueryEngineProofs ----------------------------
(* Proofs about QueryEngine for any clients, any channel and any number of turns: *)
(* one turn runs at a time, what it stores follows what was stored before it, and *)
(* a client that has its whole answer finds the slot free; what clients and store  *)
(* see is a conversation.                                                          *)
(*                                                                                *)
(* What makes them inductive: the slot holds nothing or the turn claimed last, and *)
(* every turn that may still store a message is the one in the slot; a turn has    *)
(* one reader, and a stream that was not dropped is closed only after its turn is. *)
EXTENDS QueryEngine, TLAPS

\* The slot holds nothing or the turn claimed last; a turn not claimed is new.
Slot ==
    /\ owner.active \in {NoTurn, owner.next}
    /\ \A t \in Turn : t > owner.next => turn[t] = NewTurn
    /\ \A t \in Turn : t <= owner.next => turn[t].pc # "none"
    /\ \A t \in Turn : turn[t].pc \in {"claimed", "running", "ended"} => owner.active = t
    /\ \A t \in Turn : turn[t].pc \in {"freed", "closed"} => owner.active # t

\* A turn has one reader; it is claimed while its input is on the way.
Readers ==
    /\ \A c \in Client : client[c].pc # "idle" =>
          /\ client[c].turn \in Turn /\ turn[client[c].turn].pc # "none"
          /\ turn[client[c].turn].surface = "open"
    /\ \A c \in Client : client[c].pc = "starting" => turn[client[c].turn].pc = "claimed"
    /\ \A c, d \in Client : client[c].pc # "idle" /\ client[d].pc # "idle"
                             /\ client[c].turn = client[d].turn => c = d

\* A stream that was not dropped is closed, and read to the end, after its turn.
Streams == \A t \in Turn :
    /\ turn[t].bridge = "closed" => turn[t].pc = "closed" \/ turn[t].surface = "dropped"
    /\ turn[t].surface = "ended" => turn[t].pc = "closed"

\* What is stored is of turns already claimed, and of the running turn no more than
\* it has committed.
Stored == \A i \in DOMAIN store :
    /\ store[i][1] <= owner.next
    /\ turn[store[i][1]].pc # "claimed"
    /\ turn[store[i][1]].pc = "running" => store[i][2] <= turn[store[i][1]].commits

IInv == TypeOK /\ Slot /\ Readers /\ Streams /\ Stored /\ StoredInOrder

LEMMA Initially == Init => IInv
BY EngineAssumption DEF Init, IInv, TypeOK, Slot, Readers, Streams, Stored, StoredInOrder, NewTurn,
   NewClient, Turn, NoTurn, TurnPc, Message

\* A step that appends m at the end of the store, m being later than all of it.
LEMMA InOrder ==
  ASSUME NEW m \in Message, store \in Seq(Message), StoredInOrder,
         \A i \in DOMAIN store : \/ store[i][1] < m[1]
                                 \/ store[i][1] = m[1] /\ store[i][2] < m[2],
         store' = Append(store, m)
  PROVE  StoredInOrder' /\ store' \in Seq(Message)
<1>1. store' \in Seq(Message) /\ Len(store') = Len(store) + 1 /\ DOMAIN store = 1 .. Len(store)
      /\ DOMAIN store' = 1 .. Len(store) + 1 /\ Len(store) \in Nat
  OBVIOUS
<1>2. store'[Len(store) + 1] = m /\ \A i \in DOMAIN store : store'[i] = store[i]
  OBVIOUS
<1>3. ASSUME NEW i \in DOMAIN store', NEW j \in DOMAIN store', i < j
      PROVE  \/ store'[i][1] < store'[j][1]
             \/ store'[i][1] = store'[j][1] /\ store'[i][2] < store'[j][2]
  <2>1. i \in DOMAIN store
    BY <1>1, <1>3
  <2>2. CASE j \in DOMAIN store
    BY <1>2, <1>3, <2>1, <2>2 DEF StoredInOrder
  <2>3. CASE j = Len(store) + 1
    BY <1>2, <2>1, <2>3
  <2> QED BY <1>1, <2>2, <2>3
<1> QED BY <1>1, <1>3 DEF StoredInOrder

-----------------------------------------------------------------------------
LEMMA ClaimStep == ASSUME IInv, NEW c \in Client, Claim(c) PROVE IInv'
<1> DEFINE n == owner.next + 1
<1>1. /\ n \in Turn /\ turn[n] = NewTurn /\ owner.next \in Nat /\ n = owner.next + 1
      /\ owner' = [next |-> n, active |-> n]
      /\ turn' = [turn EXCEPT ![n].pc = "claimed"]
      /\ client' = [client EXCEPT ![c] = [pc |-> "starting", turn |-> n]]
      /\ UNCHANGED <<store, faults>> /\ client[c].pc = "idle"
  BY EngineAssumption DEF Claim, IInv, TypeOK, Slot, Turn
<1> HIDE DEF n
<1>2. \A t \in Turn : turn[t].pc \notin {"claimed", "running", "ended"}
  BY EngineAssumption, SMTT(30) DEF Claim, Reaped, Finished, IInv, TypeOK, Slot, Turn, NoTurn
<1>3. turn'[n] = [NewTurn EXCEPT !.pc = "claimed"] /\ \A t \in Turn \ {n} : turn'[t] = turn[t]
  BY <1>1 DEF IInv, TypeOK
<1>t. turn'[n] = [pc |-> "claimed", cancelled |-> FALSE, commits |-> 0, queue |-> 0,
                  channel |-> 0, bridge |-> "open", surface |-> "open"]
  BY <1>3 DEF NewTurn
<1>4. TypeOK'
  <2>1. turn'[n] \in [pc : TurnPc, cancelled : BOOLEAN, commits : 0 .. MaxCommits,
                      queue : Nat, channel : 0 .. Buffer,
                      bridge : {"open", "closed"}, surface : {"open", "dropped", "ended"}]
    BY <1>t, EngineAssumption DEF TurnPc
  <2> QED BY <1>1, <2>1, SMTT(30) DEF IInv, TypeOK, Turn
<1>5. Slot'
  <2>1. owner'.active = n /\ owner'.next = n
    BY <1>1
  <2>2. \A t \in Turn : t > n => t # n /\ t > owner.next
    BY <1>1 DEF Turn
  <2>3. \A t \in Turn \ {n} : t <= n => t <= owner.next
    BY <1>1 DEF Turn
  <2> QED BY <1>1, <1>2, <1>3, <1>t, <2>1, <2>2, <2>3 DEF IInv, Slot
<1>6. Readers'
  <2>1. \A d \in Client : client[d].pc # "idle" => client[d].turn \in Turn \ {n}
    BY <1>1 DEF IInv, Readers, NewTurn
  <2>2. client'[c] = [pc |-> "starting", turn |-> n] /\ \A d \in Client \ {c} : client'[d] = client[d]
    BY <1>1 DEF IInv, TypeOK
  <2> QED BY <1>1, <1>3, <2>1, <2>2 DEF IInv, Readers, NewTurn
<1>7. Streams'
  BY <1>1, <1>3 DEF IInv, Streams, NewTurn
<1>8. Stored' /\ StoredInOrder'
  <2>1. \A i \in DOMAIN store : store[i][1] \in Turn /\ store[i][1] # n
    BY <1>1, SMTT(30) DEF IInv, TypeOK, Stored, Message
  <2> QED BY <1>1, <1>3, <2>1 DEF IInv, Stored, StoredInOrder, Turn
<1> QED BY <1>4, <1>5, <1>6, <1>7, <1>8 DEF IInv

-----------------------------------------------------------------------------
TurnRec == [pc : TurnPc, cancelled : BOOLEAN, commits : 0 .. MaxCommits,
            queue : Nat, channel : 0 .. Buffer,
            bridge : {"open", "closed"}, surface : {"open", "dropped", "ended"}]

\* A turn that is claimed, and its record.
LEMMA Claimed ==
  ASSUME IInv, NEW t \in Turn, turn[t] # NewTurn
  PROVE  turn[t] \in TurnRec /\ t <= owner.next /\ t \in Nat /\ owner.next \in Nat
<1>1. turn[t] \in TurnRec /\ t \in Nat /\ owner.next \in Nat
  BY EngineAssumption DEF IInv, TypeOK, TurnRec, Turn
<1> QED BY <1>1 DEF IInv, Slot

\* A step that touches only the queues of a turn, its cancellation or its bridge.
LEMMA Quiet ==
  ASSUME IInv, NEW t \in Turn, turn[t] # NewTurn, NEW r \in TurnRec,
         turn' = [turn EXCEPT ![t] = r], UNCHANGED <<owner, client, store, faults>>,
         r.pc = turn[t].pc, r.commits = turn[t].commits, r.surface = turn[t].surface,
         r.bridge = "closed" => r.pc = "closed" \/ r.surface = "dropped"
  PROVE  IInv'
<1>1. TypeOK'
  BY DEF IInv, TypeOK, TurnRec
<1>2. turn'[t] = r /\ \A u \in Turn \ {t} : turn'[u] = turn[u]
  BY DEF IInv, TypeOK
<1>3. \A u \in Turn : /\ turn'[u].pc = turn[u].pc /\ turn'[u].commits = turn[u].commits
                      /\ turn'[u].surface = turn[u].surface
  BY <1>2
<1>4. Slot'
  <2>1. \A u \in Turn : u > owner.next => turn'[u] = NewTurn
    BY <1>2, Claimed DEF IInv, Slot
  <2> QED BY <1>3, <2>1 DEF IInv, Slot
<1>5. Readers'
  BY <1>3 DEF IInv, Readers
<1>6. Streams'
  BY <1>2, <1>3 DEF IInv, Streams
<1>7. Stored' /\ StoredInOrder'
  <2>1. \A i \in DOMAIN store : store[i][1] \in Turn
    BY DEF IInv, TypeOK, Message
  <2> QED BY <1>3, <2>1 DEF IInv, Stored, StoredInOrder
<1> QED BY <1>1, <1>4, <1>5, <1>6, <1>7 DEF IInv

LEMMA BridgeStep == ASSUME IInv, NEW t \in Turn, Bridge(t) PROVE IInv'
<1>1. CASE Forward(t)
  <2> DEFINE r == [turn[t] EXCEPT !.queue = @ - 1, !.channel = @ + 1]
  <2>1. turn[t] # NewTurn
    BY <1>1 DEF Forward, NewTurn
  <2>2. turn[t] \in TurnRec
    BY <2>1, Claimed
  <2>3. r \in TurnRec /\ r.pc = turn[t].pc /\ r.commits = turn[t].commits
        /\ r.surface = turn[t].surface /\ r.bridge = "open"
    <3>1. turn[t].queue - 1 \in Nat /\ turn[t].channel + 1 \in 0 .. Buffer
      BY <1>1, <2>2, EngineAssumption DEF Forward, TurnRec
    <3> QED BY <1>1, <2>2, <3>1 DEF Forward, TurnRec
  <2>4. turn' = [turn EXCEPT ![t] = r] /\ UNCHANGED <<owner, client, store, faults>>
    BY <1>1 DEF Forward
  <2> HIDE DEF r
  <2> QED BY <2>1, <2>3, <2>4, Quiet
<1>2. CASE BridgeCancels(t)
  <2> DEFINE r == [turn[t] EXCEPT !.bridge = "closed", !.queue = 0, !.cancelled = ~Finished(t)]
  <2>1. turn[t] # NewTurn
    BY <1>2 DEF BridgeCancels, NewTurn
  <2>2. turn[t] \in TurnRec /\ Finished(t) \in BOOLEAN
    BY <2>1, Claimed DEF Finished
  <2>3. r \in TurnRec /\ r.pc = turn[t].pc /\ r.commits = turn[t].commits
        /\ r.surface = turn[t].surface /\ r.surface = "dropped"
    BY <1>2, <2>2, EngineAssumption DEF BridgeCancels, TurnRec
  <2>4. turn' = [turn EXCEPT ![t] = r] /\ UNCHANGED <<owner, client, store, faults>>
    BY <1>2 DEF BridgeCancels
  <2> HIDE DEF r
  <2> QED BY <2>1, <2>3, <2>4, Quiet
<1>3. CASE BridgeEnds(t)
  <2> DEFINE r == [turn[t] EXCEPT !.bridge = "closed"]
  <2>1. turn[t] # NewTurn
    BY <1>3 DEF BridgeEnds, NewTurn
  <2>2. turn[t] \in TurnRec
    BY <2>1, Claimed
  <2>3. r \in TurnRec /\ r.pc = turn[t].pc /\ r.commits = turn[t].commits
        /\ r.surface = turn[t].surface /\ r.pc = "closed"
    BY <1>3, <2>2 DEF BridgeEnds, TurnRec
  <2>4. turn' = [turn EXCEPT ![t] = r] /\ UNCHANGED <<owner, client, store, faults>>
    BY <1>3 DEF BridgeEnds
  <2> HIDE DEF r
  <2> QED BY <2>1, <2>3, <2>4, Quiet
<1> QED BY <1>1, <1>2, <1>3 DEF Bridge

LEMMA ReceiveStep == ASSUME IInv, NEW c \in Client, Receive(c) PROVE IInv'
<1> DEFINE t == client[c].turn
           r == [turn[t] EXCEPT !.channel = @ - 1]
<1>1. t \in Turn /\ turn[t] # NewTurn
  BY DEF Receive, IInv, Readers, NewTurn
<1>2. turn[t] \in TurnRec
  BY <1>1, Claimed
<1>3. r \in TurnRec /\ r.pc = turn[t].pc /\ r.commits = turn[t].commits
      /\ r.surface = turn[t].surface /\ r.bridge = turn[t].bridge
  BY <1>2, EngineAssumption DEF Receive, TurnRec
<1>4. r.bridge = "closed" => r.pc = "closed" \/ r.surface = "dropped"
  BY <1>1, <1>3 DEF IInv, Streams
<1>5. turn' = [turn EXCEPT ![t] = r] /\ UNCHANGED <<owner, client, store, faults>>
  BY DEF Receive
<1> HIDE DEF r, t
<1> QED BY <1>1, <1>3, <1>4, <1>5, Quiet

LEMMA InterruptStep == ASSUME IInv, Interrupt PROVE IInv'
<1> DEFINE t == Reaped
           r == [turn[t] EXCEPT !.cancelled = TRUE]
<1>1. t \in Turn /\ t = owner.active /\ ~Finished(t)
  BY DEF Interrupt, IInv, TypeOK, Reaped
<1>2. t <= owner.next /\ turn[t] # NewTurn
  BY <1>1, EngineAssumption, SMTT(30) DEF IInv, TypeOK, Slot, NewTurn, Turn, NoTurn
<1>3. turn[t] \in TurnRec
  BY <1>1, <1>2, Claimed
<1>4. r \in TurnRec /\ r.pc = turn[t].pc /\ r.commits = turn[t].commits
      /\ r.surface = turn[t].surface /\ r.bridge = turn[t].bridge
  BY <1>3 DEF TurnRec
<1>5. r.bridge = "closed" => r.pc = "closed" \/ r.surface = "dropped"
  BY <1>1, <1>4 DEF IInv, Streams
<1>6. turn' = [turn EXCEPT ![t] = r] /\ UNCHANGED <<owner, client, store, faults>>
  BY DEF Interrupt
<1> HIDE DEF r, t
<1> QED BY <1>1, <1>2, <1>4, <1>5, <1>6, Quiet

-----------------------------------------------------------------------------
\* The clients' ends of a stream.
LEMMA SurfaceStep ==
  ASSUME IInv, NEW c \in Client, StreamEnds(c) \/ Drop(c) PROVE IInv'
<1> DEFINE t == client[c].turn
<1>1. t \in Turn /\ turn[t] # NewTurn /\ turn[t].surface = "open" /\ client[c].pc = "reading"
  BY DEF StreamEnds, Drop, IInv, Readers, NewTurn
<1>2. PICK r \in TurnRec :
         /\ turn' = [turn EXCEPT ![t] = r] /\ client' = [client EXCEPT ![c] = NewClient]
         /\ UNCHANGED <<owner, store, faults>>
         /\ r.pc = turn[t].pc /\ r.commits = turn[t].commits /\ r.bridge = turn[t].bridge
         /\ r.surface = "dropped" \/ (r.surface = "ended" /\ r.bridge = "closed")
  <2>1. turn[t] \in TurnRec
    BY <1>1, Claimed
  <2>2. CASE StreamEnds(c)
    <3>1. [turn[t] EXCEPT !.surface = "ended"] \in TurnRec
      BY <2>1 DEF TurnRec
    <3> QED BY <2>1, <2>2, <3>1 DEF StreamEnds, TurnRec
  <2>3. CASE Drop(c)
    <3> DEFINE q == [turn[t] EXCEPT !.surface = "dropped", !.channel = 0]
    <3>1. q \in TurnRec
      <4>1. 0 \in 0 .. Buffer
        BY EngineAssumption
      <4> QED BY <2>1, <4>1 DEF TurnRec
    <3>2. /\ turn' = [turn EXCEPT ![t] = q] /\ client' = [client EXCEPT ![c] = NewClient]
          /\ UNCHANGED <<owner, store, faults>>
      BY <2>3 DEF Drop
    <3>3. /\ q.pc = turn[t].pc /\ q.commits = turn[t].commits /\ q.bridge = turn[t].bridge
          /\ q.surface = "dropped"
      BY <2>1 DEF TurnRec
    <3> HIDE DEF q, t
    <3> QED BY <3>1, <3>2, <3>3
  <2> QED BY <2>2, <2>3
<1> HIDE DEF t
<1>3. turn'[t] = r /\ \A u \in Turn \ {t} : turn'[u] = turn[u]
  BY <1>1, <1>2 DEF IInv, TypeOK
<1>4. client'[c] = NewClient /\ \A d \in Client \ {c} : client'[d] = client[d]
  BY <1>2 DEF IInv, TypeOK
<1>5. \A u \in Turn : turn'[u].pc = turn[u].pc /\ turn'[u].commits = turn[u].commits
  BY <1>2, <1>3
<1>6. TypeOK'
  BY <1>2 DEF IInv, TypeOK, TurnRec, NewClient, NoTurn
<1>7. Slot'
  <2>1. \A u \in Turn : u > owner.next => turn'[u] = NewTurn
    BY <1>1, <1>3, Claimed DEF IInv, Slot
  <2> QED BY <1>2, <1>5, <2>1 DEF IInv, Slot
<1>8. Readers'
  <2>1. \A d \in Client \ {c} : client[d].pc # "idle" => client[d].turn # t
    BY <1>1 DEF IInv, Readers, t
  <2> QED BY <1>3, <1>4, <1>5, <2>1 DEF IInv, Readers, NewClient
<1>9. Streams'
  BY <1>1, <1>2, <1>3 DEF IInv, Streams
<1>10. Stored' /\ StoredInOrder'
  <2>1. \A i \in DOMAIN store : store[i][1] \in Turn
    BY DEF IInv, TypeOK, Message
  <2> QED BY <1>2, <1>5, <2>1 DEF IInv, Stored, StoredInOrder
<1> QED BY <1>6, <1>7, <1>8, <1>9, <1>10 DEF IInv

-----------------------------------------------------------------------------
LEMMA StoredMessage ==
  ASSUME IInv, NEW i \in DOMAIN store
  PROVE  store[i][1] \in Turn /\ store[i][2] \in Nat
<1>1. store[i] \in Turn \X Nat
  BY DEF IInv, TypeOK, Message
<1> QED BY <1>1

\* A turn that stores a message or goes on: its record becomes r.
LEMMA Proceed ==
  ASSUME IInv, NEW t \in Turn, turn[t] # NewTurn, NEW r \in TurnRec,
         turn' = [turn EXCEPT ![t] = r], UNCHANGED <<owner, store>>, faults' \in 0 .. MaxFaults,
         UNCHANGED client,
         r.surface = turn[t].surface, r.bridge = turn[t].bridge,
         \/ r.pc = turn[t].pc /\ r.commits >= turn[t].commits
         \/ turn[t].pc = "running" /\ r.pc = "ended"
         \/ turn[t].pc = "ended" /\ r.pc = "finished"
         \/ turn[t].pc = "finished" /\ r.pc = "freed" /\ owner.active # t
         \/ turn[t].pc = "freed" /\ r.pc = "closed"
  PROVE  IInv'
<1>1. TypeOK'
  BY DEF IInv, TypeOK, TurnRec
<1>2. turn'[t] = r /\ \A u \in Turn \ {t} : turn'[u] = turn[u]
  BY DEF IInv, TypeOK
<1>3. turn[t].pc # "none" /\ turn[t] \in TurnRec /\ t <= owner.next
  BY Claimed DEF IInv, Slot
<1>4. Slot'
  <2>1. \A u \in Turn : u > owner.next => turn'[u] = NewTurn
    BY <1>2, Claimed DEF IInv, Slot
  <2> QED BY <1>2, <1>3, <2>1 DEF IInv, Slot
<1>5. Readers'
  BY <1>2, <1>3 DEF IInv, Readers
<1>6. Streams'
  BY <1>2, <1>3 DEF IInv, Streams
<1>7. Stored' /\ StoredInOrder'
  <2>1. \A i \in DOMAIN store : store[i][1] \in Turn /\ store[i][2] \in Nat
    BY StoredMessage
  <2> QED BY <1>2, <1>3, <2>1 DEF IInv, Stored, StoredInOrder, TurnRec
<1> QED BY <1>1, <1>4, <1>5, <1>6, <1>7 DEF IInv

\* A turn that may still store a message is the one claimed last.
LEMMA Storing ==
  ASSUME IInv, NEW t \in Turn, turn[t].pc \in {"claimed", "running"}
  PROVE  /\ owner.active = t /\ owner.next = t
         /\ \A i \in DOMAIN store : store[i][1] <= t
<1>1. owner.active = t /\ t # NoTurn
  BY DEF IInv, Slot, Turn, NoTurn
<1>2. owner.next = t
  BY <1>1 DEF IInv, Slot
<1> QED BY <1>1, <1>2 DEF IInv, Stored

\* The store with one more message, of the turn claimed last.
LEMMA Grow ==
  ASSUME IInv, NEW t \in Turn, NEW k \in Nat, NEW r \in TurnRec,
         turn[t].pc \in {"claimed", "running"},
         turn[t].pc = "running" => k > turn[t].commits,
         turn' = [turn EXCEPT ![t] = r], r.pc = "running", k <= r.commits,
         UNCHANGED owner, store' = Append(store, <<t, k>>)
  PROVE  store' \in Seq(Message) /\ Stored' /\ StoredInOrder'
<1>1. /\ turn'[t] = r /\ \A u \in Turn \ {t} : turn'[u] = turn[u]
      /\ store \in Seq(Message) /\ <<t, k>> \in Message
      /\ turn[t].commits \in Nat /\ t \in Nat
  BY DEF IInv, TypeOK, Message, Turn
<1>2. \A i \in DOMAIN store : \/ store[i][1] < t
                              \/ store[i][1] = t /\ store[i][2] < k
  <2> TAKE i \in DOMAIN store
  <2>1. store[i][1] \in Turn /\ store[i][2] \in Nat /\ store[i][1] <= t
    BY StoredMessage, Storing
  <2>2. CASE store[i][1] = t
    BY <1>1, <2>1, <2>2 DEF IInv, Stored
  <2>3. CASE store[i][1] # t
    BY <1>1, <2>1, <2>3 DEF Turn
  <2> QED BY <2>2, <2>3
<1>3. StoredInOrder' /\ store' \in Seq(Message)
  <2> DEFINE m == <<t, k>>
  <2>1. m \in Message /\ m[1] = t /\ m[2] = k
    BY <1>1
  <2> HIDE DEF m
  <2>2. store' = Append(store, m)
    BY DEF m
  <2> QED BY <1>1, <1>2, <2>1, <2>2, InOrder DEF IInv
<1>4. Stored'
  <2> SUFFICES ASSUME NEW i \in DOMAIN store'
               PROVE  /\ store'[i][1] <= owner'.next /\ turn'[store'[i][1]].pc # "claimed"
                      /\ turn'[store'[i][1]].pc = "running"
                           => store'[i][2] <= turn'[store'[i][1]].commits
    BY DEF Stored
  <2>1. CASE i \in DOMAIN store
    <3>1. store'[i] = store[i] /\ store[i][1] \in Turn /\ store[i][2] \in Nat
      BY <1>1, <2>1, StoredMessage
    <3>2. store[i][1] = t => store[i][2] <= r.commits
      BY <1>1, <1>2, <2>1, <3>1, SMTT(30) DEF TurnRec
    <3> QED BY <1>1, <2>1, <3>1, <3>2, SMTT(30) DEF IInv, Stored
  <2>2. CASE i \notin DOMAIN store
    <3>1. store'[i] = <<t, k>>
      BY <1>1, <2>2
    <3>2. owner.next = t
      BY Storing
    <3> QED BY <1>1, <3>1, <3>2
  <2> QED BY <2>1, <2>2
<1> QED BY <1>3, <1>4

\* Events sent to the bridge leave the rest of the record as it is.
LEMMA SendType ==
  ASSUME NEW q \in TurnRec
  PROVE  /\ Send(q, 1) \in TurnRec /\ Send(q, 1).pc = q.pc
         /\ Send(q, 1).surface = q.surface /\ Send(q, 1).bridge = q.bridge
         /\ Send(q, 1).commits = q.commits
BY DEF Send, TurnRec

LEMMA PersistStep == ASSUME IInv, NEW c \in Client, PersistInput(c) PROVE IInv'
<1> DEFINE t == client[c].turn
           q == [turn[t] EXCEPT !.pc = "running"]
<1>1. /\ t \in Turn /\ turn[t] # NewTurn /\ turn[t].pc = "claimed"
      /\ client[c].pc = "starting" /\ turn[t].surface = "open"
  BY DEF PersistInput, IInv, Readers, NewTurn
<1>2. turn[t] \in TurnRec /\ q \in TurnRec
  BY <1>1, Claimed DEF TurnRec, TurnPc
<1>3. PICK r \in TurnRec :
        /\ turn' = [turn EXCEPT ![t] = r] /\ client' = [client EXCEPT ![c].pc = "reading"]
        /\ owner' = owner /\ faults' \in 0 .. MaxFaults
        /\ r.pc = "running" /\ r.surface = "open" /\ r.bridge = turn[t].bridge
        /\ r.commits = turn[t].commits
        /\ store' = store \/ store' = Append(store, <<t, 0>>)
  <2>1. /\ q.pc = "running" /\ q.surface = "open" /\ q.bridge = turn[t].bridge
        /\ q.commits = turn[t].commits
    BY <1>1, <1>2 DEF TurnRec
  <2>2. \/ /\ store' = Append(store, <<t, 0>>) /\ turn' = [turn EXCEPT ![t] = q]
           /\ faults' = faults
        \/ /\ faults < MaxFaults /\ faults' = faults + 1
           /\ turn' = [turn EXCEPT ![t] = Send(q, 1)] /\ store' = store
    BY DEF PersistInput, Append1
  <2>3. faults' \in 0 .. MaxFaults
    BY <2>2, EngineAssumption, SMTT(30) DEF IInv, TypeOK
  <2>4. client' = [client EXCEPT ![c].pc = "reading"] /\ owner' = owner
    BY DEF PersistInput
  <2> HIDE DEF q, t
  <2> QED BY <1>2, <2>1, <2>2, <2>3, <2>4, SendType
<1> HIDE DEF t, q
<1>4. turn'[t] = r /\ \A u \in Turn \ {t} : turn'[u] = turn[u]
  BY <1>1, <1>3 DEF IInv, TypeOK
<1>5. client'[c] = [client[c] EXCEPT !.pc = "reading"] /\ \A d \in Client \ {c} : client'[d] = client[d]
  BY <1>3 DEF IInv, TypeOK
<1>6. store' \in Seq(Message) /\ Stored' /\ StoredInOrder'
  <2>1. CASE store' = store
    <3>1. \A i \in DOMAIN store : store[i][1] \in Turn /\ store[i][1] # t
      BY <1>1, StoredMessage DEF IInv, Stored
    <3> QED BY <1>3, <1>4, <2>1, <3>1, SMTT(30) DEF IInv, TypeOK, Stored, StoredInOrder
  <2>2. CASE store' = Append(store, <<t, 0>>)
    <3>1. 0 <= r.commits
      BY DEF TurnRec
    <3> QED BY <1>1, <1>3, <2>2, <3>1, Grow
  <2> QED BY <1>3, <2>1, <2>2
<1>7. TypeOK'
  <2>1. turn' \in [Turn -> TurnRec]
    BY <1>3 DEF IInv, TypeOK, TurnRec
  <2>2. client' \in [Client -> [pc : {"idle", "starting", "reading"}, turn : Turn \cup {NoTurn}]]
    BY <1>3 DEF IInv, TypeOK
  <2> QED BY <1>3, <1>6, <2>1, <2>2 DEF IInv, TypeOK, TurnRec
<1>8. Slot'
  <2>1. \A u \in Turn : u > owner.next => turn'[u] = NewTurn
    BY <1>1, <1>4, Claimed DEF IInv, Slot
  <2> QED BY <1>1, <1>3, <1>4, <2>1 DEF IInv, Slot
<1>9. Readers'
  <2>1. \A d \in Client \ {c} : client[d].pc # "idle" => client[d].turn # t
    BY <1>1 DEF IInv, Readers, t
  <2>2. client'[c].pc = "reading" /\ client'[c].turn = t
    BY <1>5 DEF IInv, TypeOK, t
  <2> QED BY <1>1, <1>3, <1>4, <1>5, <2>1, <2>2 DEF IInv, Readers
<1>10. Streams'
  BY <1>1, <1>3, <1>4 DEF IInv, Streams
<1> QED BY <1>6, <1>7, <1>8, <1>9, <1>10 DEF IInv

LEMMA CommitStep == ASSUME IInv, NEW t \in Turn, Commit(t) PROVE IInv'
<1> DEFINE k == turn[t].commits + 1
           q == [Send(turn[t], 1) EXCEPT !.commits = @ + 1]
<1>1. turn[t].pc = "running" /\ turn[t].commits < MaxCommits /\ turn[t] # NewTurn
  BY DEF Commit, NewTurn
<1>2. turn[t] \in TurnRec /\ k \in Nat /\ k \in 0 .. MaxCommits
  BY <1>1, Claimed, EngineAssumption DEF TurnRec
<1>3. /\ q \in TurnRec /\ q.pc = "running" /\ q.commits = k
      /\ q.surface = turn[t].surface /\ q.bridge = turn[t].bridge
  BY <1>1, <1>2, SendType DEF TurnRec
<1>4. \/ /\ store' = Append(store, <<t, k>>) /\ turn' = [turn EXCEPT ![t] = q]
         /\ faults' = faults
      \/ /\ faults < MaxFaults /\ faults' = faults + 1
         /\ turn' = [turn EXCEPT ![t] = Send(q, 1)] /\ store' = store
  BY DEF Commit, Append1
<1>5. UNCHANGED <<owner, client>>
  BY DEF Commit
<1> HIDE DEF q
<1>6. CASE store' = store /\ turn' = [turn EXCEPT ![t] = Send(q, 1)] /\ faults' \in 0 .. MaxFaults
  <2> DEFINE r == Send(q, 1)
  <2>1. /\ r \in TurnRec /\ r.pc = turn[t].pc /\ r.commits = k
        /\ r.surface = turn[t].surface /\ r.bridge = turn[t].bridge
    BY <1>1, <1>3, SendType
  <2>2. r.commits >= turn[t].commits
    BY <1>2, <2>1 DEF TurnRec
  <2>3. turn' = [turn EXCEPT ![t] = r]
    BY <1>6
  <2> HIDE DEF r
  <2> QED BY <1>1, <1>5, <1>6, <2>1, <2>2, <2>3, Proceed
<1>7. CASE store' = Append(store, <<t, k>>) /\ turn' = [turn EXCEPT ![t] = q] /\ faults' = faults
  <2>1. store' \in Seq(Message) /\ Stored' /\ StoredInOrder'
    <3>1. k > turn[t].commits /\ k <= q.commits
      BY <1>2, <1>3 DEF TurnRec
    <3> HIDE DEF k
    <3> QED BY <1>1, <1>2, <1>3, <1>5, <1>7, <3>1, Grow
  <2>2. TypeOK'
    BY <1>3, <1>5, <1>7, <2>1 DEF IInv, TypeOK, TurnRec
  <2>3. turn'[t] = q /\ \A u \in Turn \ {t} : turn'[u] = turn[u]
    BY <1>7 DEF IInv, TypeOK
  <2>4. Slot'
    <3>1. \A u \in Turn : u > owner.next => turn'[u] = NewTurn
      BY <1>1, <2>3, Claimed DEF IInv, Slot
    <3> QED BY <1>1, <1>3, <1>5, <2>3, <3>1 DEF IInv, Slot
  <2>5. Readers' /\ Streams'
    BY <1>1, <1>3, <1>5, <2>3 DEF IInv, Readers, Streams
  <2> QED BY <2>1, <2>2, <2>4, <2>5 DEF IInv
<1> QED
  <2>1. (faults < MaxFaults /\ faults' = faults + 1) => faults' \in 0 .. MaxFaults
    BY EngineAssumption DEF IInv, TypeOK
  <2> QED BY <1>4, <1>6, <1>7, <2>1

LEMMA EndStep == ASSUME IInv, NEW t \in Turn, End(t) PROVE IInv'
<1> DEFINE r == [Send(turn[t], 1) EXCEPT !.pc = "ended"]
<1>1. turn[t] # NewTurn /\ turn[t].pc = "running"
  BY DEF End, NewTurn
<1>2. turn[t] \in TurnRec
  BY <1>1, Claimed
<1>3. r \in TurnRec /\ r.pc = "ended" /\ r.surface = turn[t].surface /\ r.bridge = turn[t].bridge
  BY <1>2, SendType DEF TurnRec, TurnPc
<1>4. turn' = [turn EXCEPT ![t] = r] /\ UNCHANGED <<owner, client, store>>
      /\ faults' \in 0 .. MaxFaults
  BY DEF End, IInv, TypeOK
<1> HIDE DEF r
<1> QED BY <1>1, <1>3, <1>4, Proceed

LEMMA FinishStep == ASSUME IInv, NEW t \in Turn, Finish(t) PROVE IInv'
<1> DEFINE r == [turn[t] EXCEPT !.pc = "finished", !.cancelled = FALSE, !.commits = 0]
<1>1. turn[t] # NewTurn /\ turn[t].pc = "ended"
  BY DEF Finish, NewTurn
<1>2. turn[t] \in TurnRec /\ 0 \in 0 .. MaxCommits
  BY <1>1, Claimed, EngineAssumption
<1>3. r \in TurnRec /\ r.pc = "finished" /\ r.surface = turn[t].surface
      /\ r.bridge = turn[t].bridge
  BY <1>2 DEF TurnRec, TurnPc
<1>4. turn' = [turn EXCEPT ![t] = r] /\ UNCHANGED <<owner, client, store>>
      /\ faults' \in 0 .. MaxFaults
  BY DEF Finish, IInv, TypeOK
<1> HIDE DEF r
<1> QED BY <1>1, <1>3, <1>4, Proceed

LEMMA CloseStep == ASSUME IInv, NEW t \in Turn, Close(t) PROVE IInv'
<1> DEFINE r == [turn[t] EXCEPT !.pc = "closed"]
<1>1. turn[t] # NewTurn /\ turn[t].pc = "freed"
  BY DEF Close, NewTurn
<1>2. turn[t] \in TurnRec
  BY <1>1, Claimed
<1>3. r \in TurnRec /\ r.pc = "closed" /\ r.surface = turn[t].surface
      /\ r.bridge = turn[t].bridge
  BY <1>2 DEF TurnRec, TurnPc
<1>4. turn' = [turn EXCEPT ![t] = r] /\ UNCHANGED <<owner, client, store>>
      /\ faults' \in 0 .. MaxFaults
  BY DEF Close, IInv, TypeOK
<1> HIDE DEF r
<1> QED BY <1>1, <1>3, <1>4, Proceed

\* The slot is emptied of a turn that is finished.
LEMMA Emptied ==
  ASSUME IInv, NEW a, owner' = [owner EXCEPT !.active = a], UNCHANGED <<turn, client, store, faults>>,
         \/ a = owner.active
         \/ a = NoTurn /\ (owner.active \in Turn => Finished(owner.active))
  PROVE  IInv'
<1>1. owner' = [next |-> owner.next, active |-> a]
      /\ owner.next \in Nat /\ owner.active \in Turn \cup {NoTurn}
  BY EngineAssumption DEF IInv, TypeOK
<1>2. TypeOK'
  BY <1>1 DEF IInv, TypeOK
<1>2a. Readers' /\ Streams'
  BY DEF IInv, Readers, Streams
<1>2b. Stored' /\ StoredInOrder'
  BY <1>1 DEF IInv, Stored, StoredInOrder
<1>3. \A t \in Turn : t # NoTurn
  BY DEF Turn, NoTurn
<1>4. Slot'
  BY <1>1, <1>3 DEF IInv, Slot, Finished
<1> QED BY <1>2, <1>2a, <1>2b, <1>4 DEF IInv

LEMMA ReapStep == ASSUME IInv, Reap PROVE IInv'
BY Emptied DEF Reap, Reaped, IInv, TypeOK

LEMMA ReleaseStep == ASSUME IInv, NEW t \in Turn, Release(t) PROVE IInv'
<1> DEFINE r == [turn[t] EXCEPT !.pc = "freed"]
           a == IF owner.active = t THEN NoTurn ELSE owner.active
<1>1. turn[t] # NewTurn /\ turn[t].pc = "finished"
  BY DEF Release, NewTurn
<1>2. turn[t] \in TurnRec
  BY <1>1, Claimed
<1>3. r \in TurnRec /\ r.pc = "freed" /\ r.surface = turn[t].surface
      /\ r.bridge = turn[t].bridge
  BY <1>2 DEF TurnRec, TurnPc
<1>4. /\ owner' = [next |-> owner.next, active |-> a]
      /\ owner.next \in Nat /\ owner.active \in Turn \cup {NoTurn}
      /\ turn' = [turn EXCEPT ![t] = r] /\ UNCHANGED <<client, store, faults>>
  BY EngineAssumption, SMTT(30) DEF Release, IInv, TypeOK
<1>5. a \in {NoTurn, owner.active} /\ a # t /\ (a # owner.active => owner.active = t)
  BY DEF Turn, NoTurn
<1> HIDE DEF r, a
<1>6. turn'[t] = r /\ \A u \in Turn \ {t} : turn'[u] = turn[u]
  BY <1>4 DEF IInv, TypeOK
<1>7. TypeOK'
  BY <1>3, <1>4, <1>5 DEF IInv, TypeOK, TurnRec
<1>8. Slot'
  <2>1. \A u \in Turn : u > owner.next => turn'[u] = NewTurn
    BY <1>1, <1>6, Claimed DEF IInv, Slot
  <2>2. \A u \in Turn : u # NoTurn
    BY DEF Turn, NoTurn
  <2> QED BY <1>1, <1>3, <1>4, <1>5, <1>6, <2>1, <2>2 DEF IInv, Slot
<1>9. Readers' /\ Streams'
  BY <1>1, <1>3, <1>4, <1>6 DEF IInv, Readers, Streams
<1>10. Stored' /\ StoredInOrder'
  <2>1. \A i \in DOMAIN store : store[i][1] \in Turn
    BY StoredMessage
  <2> QED BY <1>3, <1>4, <1>6, <2>1 DEF IInv, Stored, StoredInOrder
<1> QED BY <1>7, <1>8, <1>9, <1>10 DEF IInv

LEMMA Stutter == ASSUME IInv, UNCHANGED vars PROVE IInv'
BY DEF vars, IInv, TypeOK, Slot, Readers, Streams, Stored, StoredInOrder

-----------------------------------------------------------------------------
LEMMA Step == IInv /\ [Next]_vars => IInv'
<1> SUFFICES ASSUME IInv, [Next]_vars PROVE IInv'
  OBVIOUS
<1>1. ASSUME NEW c \in Client, StartTurn(c) \/ Receive(c) \/ StreamEnds(c) \/ Drop(c) PROVE IInv'
  BY <1>1, ClaimStep, PersistStep, ReceiveStep, SurfaceStep DEF StartTurn
<1>2. ASSUME NEW t \in Turn, Commit(t) \/ End(t) \/ Finalize(t) \/ Bridge(t) PROVE IInv'
  BY <1>2, CommitStep, EndStep, FinishStep, ReleaseStep, CloseStep, BridgeStep DEF Finalize
<1> QED BY <1>1, <1>2, InterruptStep, ReapStep, Stutter DEF Next

THEOREM Invariance == Spec => []IInv
BY Initially, Step, PTL DEF Spec

\* Every variable keeps its type.
THEOREM TypeCorrect == Spec => []TypeOK
<1>1. IInv => TypeOK
  BY DEF IInv
<1> QED BY <1>1, Invariance, PTL

\* However many clients share the engine, one turn runs at a time.
THEOREM OneAtATime == Spec => []OneActiveTurn
<1>1. IInv => OneActiveTurn
  BY DEF IInv, Slot, OneActiveTurn, Live
<1> QED BY <1>1, Invariance, PTL

\* The stored conversation is in the order the turns were claimed and their
\* messages committed.
THEOREM ConversationInOrder == Spec => []StoredInOrder
<1>1. IInv => StoredInOrder
  BY DEF IInv
<1> QED BY <1>1, Invariance, PTL

\* Whoever has read a turn to its end finds the slot free of it.
THEOREM AnswerFreesSlot == Spec => []AnsweredIsFreed
<1>1. IInv => AnsweredIsFreed
  BY DEF IInv, Slot, Streams, AnsweredIsFreed
<1> QED BY <1>1, Invariance, PTL
-----------------------------------------------------------------------------
(* The engine keeps a conversation: the floor is the slot without the turn that  *)
(* is finished and not yet released.                                             *)

OnFloor == {"claimed", "running", "ended"}

\* Whoever claimed the slot and is not finished has the floor, and nobody else.
LEMMA FloorIs ==
  ASSUME IInv
  PROVE  /\ Reaped \in Turn \cup {NoTurn} /\ NoTurn \notin Turn
         /\ \A t \in Turn : (Reaped = t) <=> turn[t].pc \in OnFloor
<1>1. /\ owner.active \in Turn \cup {NoTurn} /\ NoTurn \notin Turn /\ owner.next \in Nat
      /\ \A t \in Turn : turn[t].pc \in TurnPc
  BY EngineAssumption DEF IInv, TypeOK, Turn, NoTurn
<1>2. \A t \in Turn : t = owner.active => t <= owner.next
  BY <1>1 DEF IInv, Slot, NoTurn
<1> QED BY <1>1, <1>2 DEF IInv, Slot, Reaped, Finished, OnFloor, TurnPc

LEMMA FloorWillBe ==
  ASSUME IInv'
  PROVE  /\ Reaped' \in Turn \cup {NoTurn}
         /\ \A t \in Turn : (Reaped' = t) <=> turn'[t].pc \in OnFloor
<1>1. /\ owner'.active \in Turn \cup {NoTurn} /\ NoTurn \notin Turn /\ owner'.next \in Nat
      /\ \A t \in Turn : turn'[t].pc \in TurnPc
  BY EngineAssumption DEF IInv, TypeOK, Turn, NoTurn
<1>2. \A t \in Turn : t = owner'.active => t <= owner'.next
  BY <1>1 DEF IInv, Slot, NoTurn
<1> QED BY <1>1, <1>2 DEF IInv, Slot, Reaped, Finished, OnFloor, TurnPc

\* A step in which nobody takes or leaves the floor.
LEMMA SameFloor ==
  ASSUME IInv, IInv', \A t \in Turn : turn'[t].pc \in OnFloor <=> turn[t].pc \in OnFloor
  PROVE  Reaped' = Reaped
BY FloorIs, FloorWillBe

\* The client's end of every stream is left as it is.
LEMMA SameAudience ==
  ASSUME \A t \in Turn : turn'[t].surface = turn[t].surface
  PROVE  HeardOut' = HeardOut /\ Dropped' = Dropped
BY DEF HeardOut, Dropped

\* A step on one turn that leaves the floor, the store and the client's end alone.
LEMMA Unheard ==
  ASSUME IInv, IInv', NEW t \in Turn, NEW r, turn' = [turn EXCEPT ![t] = r],
         r.surface = turn[t].surface, r.pc \in OnFloor <=> turn[t].pc \in OnFloor,
         owner'.next = owner.next
  PROVE  Reaped' = Reaped /\ HeardOut' = HeardOut /\ Dropped' = Dropped
<1>1. turn'[t] = r /\ \A u \in Turn \ {t} : turn'[u] = turn[u]
  BY DEF IInv, TypeOK
<1> QED BY <1>1, SameFloor, SameAudience
LEMMA ClaimTalks == ASSUME IInv, IInv', NEW c \in Client, Claim(c) PROVE Talk!Begin
<1> DEFINE n == owner.next + 1
<1>1. /\ Reaped = NoTurn /\ n \in Turn /\ turn[n] = NewTurn
      /\ owner' = [next |-> n, active |-> n] /\ turn' = [turn EXCEPT ![n].pc = "claimed"]
      /\ store' = store
  BY EngineAssumption DEF Claim, IInv, TypeOK, Slot, Turn
<1> HIDE DEF n
<1>2. turn'[n] = [turn[n] EXCEPT !.pc = "claimed"] /\ \A u \in Turn \ {n} : turn'[u] = turn[u]
  BY <1>1 DEF IInv, TypeOK
<1>3. turn'[n].pc = "claimed" /\ turn'[n].surface = turn[n].surface
  BY <1>1, <1>2 DEF NewTurn
<1>4. Reaped' = n
  BY <1>1, <1>3, FloorWillBe DEF OnFloor
<1>5. HeardOut' = HeardOut /\ Dropped' = Dropped
  BY <1>2, <1>3, SameAudience
<1>6. owner'.next = n /\ n = owner.next + 1
  BY <1>1 DEF n
<1> QED BY <1>1, <1>4, <1>5, <1>6 DEF Talk!Begin

\* A message of the turn on the floor is later than all that is stored.
LEMMA Says ==
  ASSUME IInv, NEW t \in Turn, Reaped = t, NEW k \in 0 .. MaxCommits,
         \/ turn[t].pc = "claimed" /\ k = 0
         \/ turn[t].pc = "running" /\ k > turn[t].commits,
         store' = Append(store, <<t, k>>),
         Reaped' = Reaped, HeardOut' = HeardOut, Dropped' = Dropped, owner'.next = owner.next
  PROVE  Talk!Say(k)
<1>1. t # NoTurn /\ turn[t] # NewTurn
  BY FloorIs DEF NewTurn
<1>2. owner.next = t /\ t \in Nat
  BY <1>1, Claimed, EngineAssumption DEF IInv, Slot
<1>3. turn[t].commits \in Nat /\ k \in Nat
  BY <1>1, Claimed, EngineAssumption DEF TurnRec
<1>4. ASSUME NEW i \in DOMAIN store
      PROVE  store[i][1] < t \/ (store[i][1] = t /\ store[i][2] < k)
  <2>1. store[i][1] \in Turn /\ store[i][2] \in Nat /\ store[i][1] <= t
    BY <1>2, StoredMessage DEF IInv, Stored
  <2>2. store[i][1] = t => turn[t].pc = "running" /\ store[i][2] <= turn[t].commits
    BY DEF IInv, Stored
  <2>3. store[i][1] \in Nat
    BY <2>1 DEF Turn
  <2> QED BY <1>2, <1>3, <2>1, <2>2, <2>3
<1> QED BY <1>1, <1>4 DEF Talk!Say

LEMMA PersistTalks ==
  ASSUME IInv, IInv', NEW c \in Client, PersistInput(c)
  PROVE  Talk!Say(0) \/ UNCHANGED Talk!vars
<1> DEFINE t == client[c].turn
           q == [turn[t] EXCEPT !.pc = "running"]
<1>1. t \in Turn /\ turn[t].pc = "claimed" /\ turn[t] # NewTurn /\ owner' = owner
  BY DEF PersistInput, IInv, Readers, NewTurn
<1>2. turn[t] \in TurnRec /\ q \in TurnRec /\ q.pc = "running" /\ q.surface = turn[t].surface
  BY <1>1, Claimed DEF TurnRec, TurnPc
<1>3. \/ store' = Append(store, <<t, 0>>) /\ turn' = [turn EXCEPT ![t] = q]
      \/ store' = store /\ turn' = [turn EXCEPT ![t] = Send(q, 1)]
  BY DEF PersistInput, Append1
<1> HIDE DEF t, q
<1>4. \E r \in TurnRec : /\ turn' = [turn EXCEPT ![t] = r]
                         /\ r.pc = "running" /\ r.surface = turn[t].surface
  BY <1>2, <1>3, SendType
<1>5. Reaped' = Reaped /\ HeardOut' = HeardOut /\ Dropped' = Dropped
  BY <1>1, <1>4, Unheard DEF OnFloor
<1>6. Reaped = t
  BY <1>1, FloorIs DEF OnFloor
<1>7. 0 \in 0 .. MaxCommits
  BY EngineAssumption
<1> QED BY <1>1, <1>3, <1>5, <1>6, <1>7, Says DEF Talk!vars

LEMMA CommitTalks ==
  ASSUME IInv, IInv', NEW t \in Turn, Commit(t)
  PROVE  (\E k \in 0 .. MaxCommits : Talk!Say(k)) \/ UNCHANGED Talk!vars
<1> DEFINE k == turn[t].commits + 1
           q == [Send(turn[t], 1) EXCEPT !.commits = @ + 1]
<1>1. /\ turn[t].pc = "running" /\ turn[t].commits < MaxCommits /\ turn[t] # NewTurn
      /\ owner' = owner
  BY DEF Commit, NewTurn
<1>2. turn[t] \in TurnRec /\ k \in 0 .. MaxCommits /\ k > turn[t].commits
  BY <1>1, Claimed, EngineAssumption DEF TurnRec
<1>3. q \in TurnRec /\ q.pc = "running" /\ q.surface = turn[t].surface
  <2>1. Send(turn[t], 1) \in TurnRec /\ Send(turn[t], 1).pc = "running"
        /\ Send(turn[t], 1).surface = turn[t].surface /\ Send(turn[t], 1).commits + 1 = k
    BY <1>1, <1>2, SendType
  <2> QED BY <1>2, <2>1 DEF TurnRec
<1>4. \/ store' = Append(store, <<t, k>>) /\ turn' = [turn EXCEPT ![t] = q]
      \/ store' = store /\ turn' = [turn EXCEPT ![t] = Send(q, 1)]
  BY DEF Commit, Append1
<1> HIDE DEF q
<1>5. \E r \in TurnRec : /\ turn' = [turn EXCEPT ![t] = r]
                         /\ r.pc = "running" /\ r.surface = turn[t].surface
  BY <1>3, <1>4, SendType
<1>6. Reaped' = Reaped /\ HeardOut' = HeardOut /\ Dropped' = Dropped
  BY <1>1, <1>5, Unheard DEF OnFloor
<1>7. Reaped = t
  BY <1>1, FloorIs DEF OnFloor
<1> HIDE DEF k
<1> QED BY <1>1, <1>2, <1>4, <1>6, <1>7, Says DEF Talk!vars

\* The floor is left when the turn is marked finished, and only then.
LEMMA FinishTalks == ASSUME IInv, IInv', NEW t \in Turn, Finish(t) PROVE Talk!End
<1> DEFINE r == [turn[t] EXCEPT !.pc = "finished", !.cancelled = FALSE, !.commits = 0]
<1>1. turn[t].pc = "ended" /\ turn[t] # NewTurn
  BY DEF Finish, NewTurn
<1>a. turn' = [turn EXCEPT ![t] = r] /\ owner' = owner /\ store' = store
  BY DEF Finish, IInv, TypeOK
<1>2. r.pc = "finished" /\ r.surface = turn[t].surface
  BY <1>1, Claimed DEF TurnRec
<1> HIDE DEF r
<1>3. turn'[t] = r /\ \A u \in Turn \ {t} : turn'[u] = turn[u]
  BY <1>a DEF IInv, TypeOK
<1>4. Reaped = t /\ t # NoTurn
  BY <1>1, FloorIs DEF OnFloor
<1>5. Reaped' = NoTurn
  BY <1>2, <1>3, <1>4, FloorIs, FloorWillBe DEF OnFloor
<1>6. HeardOut' = HeardOut /\ Dropped' = Dropped
  BY <1>2, <1>3, SameAudience
<1> QED BY <1>a, <1>4, <1>5, <1>6 DEF Talk!End

\* Steps of a turn, of its bridge and of its reader of which nobody hears.
LEMMA QuietTalks ==
  ASSUME IInv, IInv', NEW t \in Turn, End(t) \/ Release(t) \/ Close(t) \/ Bridge(t)
  PROVE  UNCHANGED Talk!vars
<1>1. turn[t] # NewTurn
  BY DEF End, Release, Close, Bridge, Forward, BridgeCancels, BridgeEnds, NewTurn
<1>2. turn[t] \in TurnRec
  BY <1>1, Claimed
<1>3. owner'.next = owner.next /\ store' = store
  BY DEF End, Release, Close, Bridge, Forward, BridgeCancels, BridgeEnds, IInv, TypeOK
<1>4. CASE End(t)
  <2> DEFINE q == Send(turn[t], 1)
             r == [q EXCEPT !.pc = "ended"]
  <2>1. q \in TurnRec /\ q.surface = turn[t].surface
    BY <1>2, SendType
  <2>2. turn' = [turn EXCEPT ![t] = r] /\ turn[t].pc \in OnFloor
    BY <1>4 DEF End, OnFloor
  <2> HIDE DEF q
  <2>3. r.pc \in OnFloor /\ r.surface = turn[t].surface
    BY <2>1 DEF TurnRec, OnFloor
  <2> HIDE DEF r
  <2> QED BY <1>1, <1>3, <2>2, <2>3, Unheard DEF Talk!vars
<1>5. CASE Release(t) \/ Close(t)
  <2> DEFINE r(pc) == [turn[t] EXCEPT !.pc = pc]
  <2>1. PICK pc \in {"freed", "closed"} :
          turn' = [turn EXCEPT ![t] = r(pc)] /\ turn[t].pc \notin OnFloor
    BY <1>5 DEF Release, Close, OnFloor
  <2>2. r(pc).pc \notin OnFloor /\ r(pc).surface = turn[t].surface
    BY <1>2, <2>1 DEF TurnRec, OnFloor
  <2> HIDE DEF r
  <2> QED BY <1>1, <1>3, <2>1, <2>2, Unheard DEF Talk!vars
<1>6. CASE Bridge(t)
  <2>1. turn'[t].pc = turn[t].pc /\ turn'[t].surface = turn[t].surface
        /\ turn' = [turn EXCEPT ![t] = turn'[t]]
    BY <1>6, SMTT(30) DEF Bridge, Forward, BridgeCancels, BridgeEnds, IInv, TypeOK
  <2> QED BY <1>1, <1>3, <2>1, Unheard DEF Talk!vars
<1> QED BY <1>4, <1>5, <1>6

\* What a client does with its stream: it reads on, to the end, or goes away.
LEMMA ClientTalks ==
  ASSUME IInv, IInv', NEW c \in Client, Receive(c) \/ StreamEnds(c) \/ Drop(c)
  PROVE  (\E t \in 1 .. owner.next : Talk!HearOut(t) \/ Talk!Leave(t)) \/ UNCHANGED Talk!vars
<1> DEFINE t == client[c].turn
<1>1. /\ t \in Turn /\ turn[t] # NewTurn /\ turn[t].surface = "open"
      /\ owner' = owner /\ store' = store
  BY DEF Receive, StreamEnds, Drop, IInv, Readers, NewTurn
<1>2. turn[t] \in TurnRec /\ t \in 1 .. owner.next
  BY <1>1, Claimed DEF Turn
<1>3. t \notin HeardOut \cup Dropped
  BY <1>1 DEF HeardOut, Dropped
<1>4. PICK r : /\ turn' = [turn EXCEPT ![t] = r] /\ r.pc = turn[t].pc
               /\ \/ Receive(c) /\ r.surface = "open"
                  \/ StreamEnds(c) /\ r.surface = "ended"
                  \/ Drop(c) /\ r.surface = "dropped"
  <2>1. CASE Receive(c)
    <3>1. turn'[t].pc = turn[t].pc /\ turn'[t].surface = "open"
          /\ turn' = [turn EXCEPT ![t] = turn'[t]]
      BY <1>1, <2>1, ZenonT(30) DEF Receive, IInv, TypeOK
    <3> QED BY <2>1, <3>1
  <2>2. CASE StreamEnds(c)
    <3>1. turn'[t].pc = turn[t].pc /\ turn'[t].surface = "ended"
          /\ turn' = [turn EXCEPT ![t] = turn'[t]]
      BY <1>1, <2>2, ZenonT(30) DEF StreamEnds, IInv, TypeOK
    <3> QED BY <2>2, <3>1
  <2>3. CASE Drop(c)
    <3>1. turn' = [turn EXCEPT ![t].surface = "dropped", ![t].channel = 0]
      BY <2>3 DEF Drop
    <3> HIDE DEF t
    <3>2. turn'[t].pc = turn[t].pc /\ turn'[t].surface = "dropped"
          /\ turn' = [turn EXCEPT ![t] = turn'[t]]
      BY <1>1, <3>1, ZenonT(30) DEF IInv, TypeOK
    <3> QED BY <2>3, <3>2
  <2> QED BY <2>1, <2>2, <2>3
<1>5. StreamEnds(c) => turn[t].pc = "closed"
  BY <1>1 DEF StreamEnds, IInv, Streams
<1> HIDE DEF t
<1>6. turn'[t] = r /\ \A u \in Turn \ {t} : turn'[u] = turn[u]
  BY <1>1, <1>4 DEF IInv, TypeOK
<1>7. Reaped' = Reaped
  BY <1>4, <1>6, SameFloor
<1>8. CASE Receive(c) /\ r.surface = "open"
  BY <1>1, <1>6, <1>7, <1>8, SameAudience DEF Talk!vars
<1>9. CASE StreamEnds(c) /\ r.surface = "ended"
  <2>1. HeardOut' = HeardOut \cup {t} /\ Dropped' = Dropped
    BY <1>1, <1>6, <1>9 DEF HeardOut, Dropped
  <2>2. t # Reaped
    BY <1>1, <1>5, <1>9, FloorIs DEF OnFloor
  <2> QED BY <1>1, <1>2, <1>3, <1>7, <2>1, <2>2 DEF Talk!HearOut, Talk!Attended
<1>10. CASE Drop(c) /\ r.surface = "dropped"
  <2>1. Dropped' = Dropped \cup {t} /\ HeardOut' = HeardOut
    BY <1>1, <1>6, <1>10 DEF HeardOut, Dropped
  <2> QED BY <1>1, <1>2, <1>3, <1>7, <2>1 DEF Talk!Leave, Talk!Attended
<1> QED BY <1>4, <1>8, <1>9, <1>10

LEMMA SlotTalks == ASSUME IInv, IInv', Interrupt \/ Reap \/ UNCHANGED vars PROVE UNCHANGED Talk!vars
<1>1. CASE Interrupt
  <2> DEFINE t == Reaped
             r == [turn[t] EXCEPT !.cancelled = TRUE]
  <2>1. t \in Turn /\ turn[t] # NewTurn
    BY <1>1, FloorIs DEF Interrupt, OnFloor, NewTurn
  <2>2. turn' = [turn EXCEPT ![t] = r] /\ owner' = owner /\ store' = store
    BY <1>1 DEF Interrupt
  <2>3. r.pc = turn[t].pc /\ r.surface = turn[t].surface
    BY <2>1, Claimed DEF TurnRec
  <2> HIDE DEF t, r
  <2> QED BY <2>1, <2>2, <2>3, Unheard DEF Talk!vars
<1>2. CASE Reap
  <2>1. owner'.next = owner.next /\ turn' = turn /\ store' = store
    BY <1>2 DEF Reap, IInv, TypeOK
  <2> QED BY <2>1, SameFloor, SameAudience DEF Talk!vars
<1>3. CASE UNCHANGED vars
  BY <1>3 DEF vars, Talk!vars, Reaped, Finished, HeardOut, Dropped
<1> QED BY <1>1, <1>2, <1>3

\* Interrupted, dropped, reaped or released late: the engine keeps a conversation, in
\* which one turn at a time has the floor, stores in order, and is heard out only
\* once it is over.
THEOREM EngineKeepsConversation == Spec => ConversationSpec
<1>1. Init => Talk!Init
  BY DEF Init, Talk!Init, Reaped, HeardOut, Dropped, NewTurn, Turn, NoTurn
<1>2. IInv /\ IInv' /\ [Next]_vars => [Talk!Next]_Talk!vars
  <2> SUFFICES ASSUME IInv, IInv', [Next]_vars PROVE Talk!Next \/ UNCHANGED Talk!vars
    OBVIOUS
  <2>1. ASSUME NEW c \in Client, StartTurn(c) \/ Receive(c) \/ StreamEnds(c) \/ Drop(c)
        PROVE  Talk!Next \/ UNCHANGED Talk!vars
    <3>1. 0 \in 0 .. MaxCommits
      BY EngineAssumption
    <3> QED BY <2>1, <3>1, ClaimTalks, PersistTalks, ClientTalks DEF StartTurn, Talk!Next
  <2>2. ASSUME NEW t \in Turn, Commit(t) \/ End(t) \/ Finalize(t) \/ Bridge(t)
        PROVE  Talk!Next \/ UNCHANGED Talk!vars
    BY <2>2, CommitTalks, FinishTalks, QuietTalks DEF Finalize, Talk!Next
  <2> QED BY <2>1, <2>2, SlotTalks DEF Next
<1>3. ConversationSpec <=> Talk!Init /\ [][Talk!Next]_Talk!vars
  BY DEF ConversationSpec, Talk!Spec
<1> QED BY <1>1, <1>2, <1>3, Invariance, PTL DEF Spec
================================================================================
