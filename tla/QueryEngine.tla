------------------------------- MODULE QueryEngine -------------------------------
(* The owner of the conversation: QueryEngine (core/engine.rs).                  *)
(*                                                                               *)
(* Clones of one engine share the slot of the active turn.  A client claims the  *)
(* slot; the turn then runs in a task of its own, stores every message as it is  *)
(* committed and passes every event to a bridge task, which feeds the bounded    *)
(* channel the client reads.  A last task marks the turn finished, frees the     *)
(* slot and closes the stream.  A client may stop reading, or drop the stream    *)
(* and submit again, at any time; any clone may interrupt the turn.              *)
(*                                                                               *)
(* A session store is present, so a turn's history is read from it: the copies   *)
(* of the application state kept in memory are left out.                         *)
EXTENDS Naturals, Sequences

CONSTANTS
    Client,         \* the clones of the engine in use
    Buffer,         \* STREAM_TURN_BUFFER
    MaxTurns, MaxCommits, MaxFaults     \* bounds

ASSUME EngineAssumption ==
    /\ Buffer \in Nat \ {0} /\ MaxTurns \in Nat
    /\ MaxCommits \in Nat /\ MaxFaults \in Nat

Turn == 1 .. MaxTurns
NoTurn == 0
\* A message: the turn that committed it and its number; number 0 is the input.
Message == Turn \X Nat

VARIABLES
    owner,      \* next_turn_id and the registered turn
    turn,       \* the tasks and channels of each turn
    client,     \* what each client is doing, and the turn it reads
    store,      \* the history the session store holds
    faults      \* failed appends under the bound

vars == <<owner, turn, client, store, faults>>

TurnPc == {"none", "claimed", "running", "ended", "finished", "freed", "closed"}
NewTurn == [pc |-> "none", cancelled |-> FALSE, commits |-> 0,
            queue |-> 0, channel |-> 0, bridge |-> "open", surface |-> "open"]
NewClient == [pc |-> "idle", turn |-> NoTurn]

Init ==
    /\ owner = [next |-> 0, active |-> NoTurn]
    /\ turn = [t \in Turn |-> NewTurn]
    /\ client = [c \in Client |-> NewClient]
    /\ store = << >> /\ faults = 0

\* finished is set before the slot is freed; whoever looks at the slot in between
\* frees it (reap_finished_turn).
Finished(t) == turn[t].pc \in {"finished", "freed", "closed"}
Reaped == IF owner.active # NoTurn /\ Finished(owner.active) THEN NoTurn ELSE owner.active

\* n events sent to the bridge, which drops them once its task has ended.
Send(q, n) == [q EXCEPT !.queue = IF q.bridge = "open" THEN @ + n ELSE @]

--------------------------------------------------------------------------------
(* start_turn, in the client's thread.                                          *)

\* Mutant: an interrupted turn gives up its slot to the next.
ClaimCancelled(c) ==
    /\ client[c].pc = "idle" /\ owner.next < MaxTurns
    /\ \A t \in Turn : t = Reaped => turn[t].cancelled
    /\ owner' = [next |-> owner.next + 1, active |-> owner.next + 1]
    /\ turn' = [turn EXCEPT ![owner.next + 1].pc = "claimed"]
    /\ client' = [client EXCEPT ![c] = [pc |-> "starting", turn |-> owner.next + 1]]
    /\ UNCHANGED <<store, faults>>

\* claim_active_turn; with another turn registered the answer is OwnerBusy.
Claim(c) ==
    /\ client[c].pc = "idle" /\ Reaped = NoTurn /\ owner.next < MaxTurns
    /\ owner' = [next |-> owner.next + 1, active |-> owner.next + 1]
    /\ turn' = [turn EXCEPT ![owner.next + 1].pc = "claimed"]
    /\ client' = [client EXCEPT ![c] = [pc |-> "starting", turn |-> owner.next + 1]]
    /\ UNCHANGED <<store, faults>>

\* append_current_session_history_entry: an append that fails for good leaves the
\* message out and sends a notice.
Append1(t, m, new) ==
    \/ /\ store' = Append(store, m)
       /\ turn' = [turn EXCEPT ![t] = new]
       /\ UNCHANGED faults
    \/ /\ faults < MaxFaults /\ faults' = faults + 1
       /\ turn' = [turn EXCEPT ![t] = Send(new, 1)]
       /\ UNCHANGED store

\* persist_user_input, after which the task of the turn is spawned.
PersistInput(c) ==
    LET t == client[c].turn IN
    /\ client[c].pc = "starting"
    /\ Append1(t, <<t, 0>>, [turn[t] EXCEPT !.pc = "running"])
    /\ client' = [client EXCEPT ![c].pc = "reading"]
    /\ UNCHANGED owner

--------------------------------------------------------------------------------
(* The task of the turn and the task that finishes it.                          *)

\* A message is committed: emitted to the unbounded bridge, then stored.
Commit(t) ==
    /\ turn[t].pc = "running" /\ turn[t].commits < MaxCommits
    /\ Append1(t, <<t, turn[t].commits + 1>>,
               [Send(turn[t], 1) EXCEPT !.commits = @ + 1])
    /\ UNCHANGED <<owner, client>>

\* Mutant: the turn waits for room in the bridge.
EndWhenRoom(t) ==
    /\ turn[t].pc = "running" /\ turn[t].queue < Buffer
    /\ turn' = [turn EXCEPT ![t] = [Send(turn[t], 1) EXCEPT !.pc = "ended"]]
    /\ UNCHANGED <<owner, client, store, faults>>

\* The query loop returns with its terminal event, or panics.
End(t) ==
    /\ turn[t].pc = "running"
    /\ turn' = [turn EXCEPT ![t] = [Send(turn[t], 1) EXCEPT !.pc = "ended"]]
    /\ UNCHANGED <<owner, client, store, faults>>

\* The finishing task publishes the turn's state and sets finished; what the turn
\* had counted went with its own task.
Finish(t) ==
    /\ turn[t].pc = "ended"
    /\ turn' = [turn EXCEPT ![t].pc = "finished", ![t].cancelled = FALSE, ![t].commits = 0]
    /\ UNCHANGED <<owner, client, store, faults>>

\* release_active_turn frees the slot only if it still holds this turn.
Release(t) ==
    /\ turn[t].pc = "finished"
    /\ owner' = [owner EXCEPT !.active = IF @ = t THEN NoTurn ELSE @]
    /\ turn' = [turn EXCEPT ![t].pc = "freed"]
    /\ UNCHANGED <<client, store, faults>>

\* The completion is sent and the last sender of the bridge is dropped.
Close(t) ==
    /\ turn[t].pc = "freed"
    /\ turn' = [turn EXCEPT ![t].pc = "closed"]
    /\ UNCHANGED <<owner, client, store, faults>>

--------------------------------------------------------------------------------
(* The bridge.                                                                  *)

\* A dropped stream cancels the turn; what the bridge still held is dropped.
BridgeCancels(t) ==
    /\ turn[t].bridge = "open" /\ turn[t].surface = "dropped"
    /\ turn' = [turn EXCEPT ![t].bridge = "closed", ![t].queue = 0,
                            ![t].cancelled = ~Finished(t)]
    /\ UNCHANGED <<owner, client, store, faults>>

\* Mutant: the stream ends with the query loop.
BridgeEndsEarly(t) ==
    /\ turn[t].bridge = "open"
    /\ turn[t].pc \notin {"none", "claimed", "running"} /\ turn[t].queue = 0
    /\ turn' = [turn EXCEPT ![t].bridge = "closed"]
    /\ UNCHANGED <<owner, client, store, faults>>

\* Mutant: the bridge is closed only by a receiver that is dropped.
BridgeEndsDropped(t) ==
    /\ turn[t].bridge = "open" /\ turn[t].surface = "dropped"
    /\ turn[t].pc = "closed" /\ turn[t].queue = 0
    /\ turn' = [turn EXCEPT ![t].bridge = "closed"]
    /\ UNCHANGED <<owner, client, store, faults>>

\* The bridge passes an event on when the client's channel has room.
Forward(t) ==
    /\ turn[t].bridge = "open" /\ turn[t].surface = "open"
    /\ turn[t].queue > 0 /\ turn[t].channel < Buffer
    /\ turn' = [turn EXCEPT ![t].queue = @ - 1, ![t].channel = @ + 1]
    /\ UNCHANGED <<owner, client, store, faults>>

\* Every sender is gone and every event forwarded.
BridgeEnds(t) ==
    /\ turn[t].bridge = "open"
    /\ turn[t].pc = "closed" /\ turn[t].queue = 0
    /\ turn' = [turn EXCEPT ![t].bridge = "closed"]
    /\ UNCHANGED <<owner, client, store, faults>>

--------------------------------------------------------------------------------
(* The clients.                                                                 *)

Receive(c) ==
    LET t == client[c].turn IN
    /\ client[c].pc = "reading" /\ turn[t].channel > 0
    /\ turn' = [turn EXCEPT ![t].channel = @ - 1]
    /\ UNCHANGED <<owner, client, store, faults>>

\* The stream has ended: submit_turn returns.
StreamEnds(c) ==
    LET t == client[c].turn IN
    /\ client[c].pc = "reading" /\ turn[t].channel = 0 /\ turn[t].bridge = "closed"
    /\ client' = [client EXCEPT ![c] = NewClient]
    /\ turn' = [turn EXCEPT ![t].surface = "ended"]
    /\ UNCHANGED <<owner, store, faults>>

\* Mutant: a client that stops reading gives the slot up with its stream.
DropFrees(c) ==
    /\ client[c].pc = "reading"
    /\ turn' = [turn EXCEPT ![client[c].turn].surface = "dropped",
                            ![client[c].turn].channel = 0]
    /\ client' = [client EXCEPT ![c] = NewClient]
    /\ owner' = [owner EXCEPT !.active = NoTurn]
    /\ UNCHANGED <<store, faults>>

\* The update callback says stop: the receiver is dropped, the turn runs on.
Drop(c) ==
    /\ client[c].pc = "reading"
    /\ turn' = [turn EXCEPT ![client[c].turn].surface = "dropped",
                            ![client[c].turn].channel = 0]
    /\ client' = [client EXCEPT ![c] = NewClient]
    /\ UNCHANGED <<owner, store, faults>>

\* Mutant: the interrupted turn is taken out of the slot.
InterruptFrees ==
    /\ Reaped # NoTurn /\ ~turn[Reaped].cancelled
    /\ turn' = [turn EXCEPT ![Reaped].cancelled = TRUE]
    /\ owner' = [owner EXCEPT !.active = NoTurn]
    /\ UNCHANGED <<client, store, faults>>

\* interrupt_active_turn, by any clone (Esc, Ctrl-C): the turn winds down by itself.
Interrupt ==
    /\ Reaped # NoTurn /\ ~turn[Reaped].cancelled
    /\ turn' = [turn EXCEPT ![Reaped].cancelled = TRUE]
    /\ UNCHANGED <<owner, client, store, faults>>

\* has_active_turn and interrupt_active_turn free the slot of a finished turn.
Reap ==
    /\ owner.active # Reaped
    /\ owner' = [owner EXCEPT !.active = NoTurn]
    /\ UNCHANGED <<turn, client, store, faults>>

--------------------------------------------------------------------------------
StartTurn(c) == Claim(c) \/ PersistInput(c)
Finalize(t) == Finish(t) \/ Release(t) \/ Close(t)
Bridge(t) == Forward(t) \/ BridgeCancels(t) \/ BridgeEnds(t)

Next ==
    \/ \E c \in Client : StartTurn(c) \/ Receive(c) \/ StreamEnds(c) \/ Drop(c)
    \/ \E t \in Turn : Commit(t) \/ End(t) \/ Finalize(t) \/ Bridge(t)
    \/ Interrupt \/ Reap

Spec == Init /\ [][Next]_vars

\* The spawned tasks are scheduled, the query loop returns (QueryLoop), and
\* start_turn has no await.  Nothing is assumed of a client that reads.
Fairness ==
    /\ \A t \in Turn : WF_vars(End(t)) /\ WF_vars(Finalize(t)) /\ WF_vars(Bridge(t))
    /\ \A c \in Client : WF_vars(PersistInput(c))
FairSpec == Spec /\ Fairness

--------------------------------------------------------------------------------
\* Slot, turns and clients keep their types, and the client's channel its capacity.
TypeOK ==
    /\ owner \in [next : 0 .. MaxTurns, active : Turn \cup {NoTurn}]
    /\ turn \in [Turn -> [pc : TurnPc, cancelled : BOOLEAN, commits : 0 .. MaxCommits,
                          queue : Nat, channel : 0 .. Buffer,
                          bridge : {"open", "closed"}, surface : {"open", "dropped", "ended"}]]
    /\ client \in [Client -> [pc : {"idle", "starting", "reading"},
                              turn : Turn \cup {NoTurn}]]
    /\ store \in Seq(Message) /\ faults \in 0 .. MaxFaults

Live == {t \in Turn : turn[t].pc \in {"claimed", "running", "ended"}}

\* Two turns never run at the same time, however the turns of several clients
\* are claimed, interrupted, dropped, reaped and released late (claim_active_turn,
\* release_active_turn).
OneActiveTurn == \A t, u \in Live : t = u

\* The stored conversation is in order: a turn's messages follow those of the
\* turns before it and stand in the order they were committed, even when a turn
\* is interrupted and the next is submitted while it is still winding down.
StoredInOrder == \A i, j \in DOMAIN store : i < j =>
    \/ store[i][1] < store[j][1]
    \/ store[i][1] = store[j][1] /\ store[i][2] < store[j][2]

\* A client that has read its turn to the end finds the slot free of it, so it is
\* never told OwnerBusy because of a turn it was given the whole answer of.
AnsweredIsFreed == \A t \in Turn : turn[t].surface = "ended" => owner.active # t

\* The turns whose stream was read to its end, and those whose stream was dropped.
HeardOut == {t \in Turn : turn[t].surface = "ended"}
Dropped  == {t \in Turn : turn[t].surface = "dropped"}

\* Through the slot, its late release and the bridge, what the clients and the
\* store see is a conversation: turns have the floor one at a time, from the claim
\* until they are marked finished, interrupted or not; only the one that has it
\* stores messages, in order; and a client reads to the end of a turn that is over.
Talk == INSTANCE Conversation WITH
    begun <- owner.next, floor <- Reaped, Number <- 0 .. MaxCommits,
    heard <- HeardOut, left <- Dropped
ConversationSpec == Talk!Spec

\* A claimed slot is freed even if the client never reads another event: the
\* bridge is unbounded, so a full channel holds back the bridge and not the turn.
SlotIsFreed == \A t \in Turn : (owner.active = t) ~> (owner.active # t)

\* A client that keeps reading gets to the end of its stream.
StreamsEnd == \A c \in Client :
    WF_vars(Receive(c) \/ StreamEnds(c)) =>
        ((client[c].pc = "reading") ~> (client[c].pc = "idle"))
================================================================================
