--------------------------- MODULE SessionStoreProofs ---------------------------
(***************************************************************************)
(* Proofs about SessionStore, for any sessions, any background agents, any *)
(* number of messages, attempts, faults, restarts and switches.            *)
(*                                                                         *)
(* Two arguments.  The first is about power losses and holds whatever the  *)
(* threads do: a session that is named, or whose history is held in memory,  *)
(* has a file that was whole before any rename that may still be undone, so *)
(* it stays whole whatever a loss of power leaves of it.  The second is     *)
(* about a steady session, on which a single thread works and of which no   *)
(* read has failed: what that thread is about to write is the record as it  *)
(* is now with its own change and nothing else.  So the record it replaces  *)
(* is the one it read, a record changes by whole updates, and each content  *)
(* a loss of power may give back is an earlier one.  Every acknowledgement  *)
(* follows a sync of the directory, after which nothing can be given back.  *)
(***************************************************************************)
EXTENDS SessionStore, SequenceTheorems, FiniteSetTheorems, TLAPS

\* Who does what: the turn appends and switches, the guard saves its clone's session.
Roles ==
  \A t \in Thread :
    /\ th[t].pc = "idle" => th[t] = Idle
    /\ th[t].pc # "idle" => th[t].s \in Session /\ Up
    /\ th[t].pc = "snapshot" => th[t].op = "tasks"
    /\ th[t].pc = "load" => th[t].op \in {"start", "current", "resolved"}
    /\ th[t].pc = "bind" => th[t].op = "start"
    /\ th[t].op = "start" => t = Main /\ th[t].s = app.session /\ th[t].goal = NoSession
    /\ th[t].pc = "resolve" => t = Main /\ th[t].op = "current" /\ th[t].s = th[t].goal
                                 /\ th[t].goal # NoSession
    /\ th[t].pc = "read" => th[t].op \notin {"resolved", "start"}
    /\ th[t].op \in {"append", "resolved"} => t = Main
    /\ th[t].op = "append" => th[t].s = app.session /\ th[t].msg \in Message /\ th[t].msg = sent
    /\ th[t].op = "none" => th[t].pc = "idle"
    /\ t = Main /\ th[t].op = "current" /\ th[t].pc # "resolve" => th[t].s = app.session
    /\ t = Guard => th[t].op \in {"none", "current"}
    /\ t = Guard /\ th[t].op = "current" => th[t].s = clone.session
    /\ th[t].op = "current" => t \in {Main, Guard}
    /\ th[t].goal # NoSession => t = Main /\ th[t].op \in {"current", "resolved"}
                                 /\ th[t].goal # app.session
    /\ th[t].op = "resolved" => th[t].s # app.session

\* A temporary file is synced before it is renamed.
Synced == \A t \in Thread : th[t].pc = "temp" => th[t].synced

\* The file of s can be read, now and after a loss of power.
Durable(s) == Readable(s) /\ \A c \in undo[s] : c.state = "whole"

\* The file of s is named, or its history is held in memory or about to be.
Relied(s) ==
  \/ s = latest \/ s \in former
  \/ s = app.session /\ app.mem # << >>
  \/ s = clone.session /\ clone.mem # << >>
  \/ \E t \in Thread : th[t].pc = "latest" /\ th[t].s = s

Durability ==
  /\ \A s \in Session : Relied(s) => Durable(s)
  /\ \A s \in Session, t \in Thread : th[t].pc = "renamed" /\ th[t].s = s => Readable(s)
  /\ ~Up => undo = NoUndo

\* A history h that holds what was reported done and is in order, with messages up
\* to top; and one that all comes before message m, but for m itself when again.
Ordered(h, again) == \A i, j \in DOMAIN h : i < j => h[i] < h[j] \/ (again /\ h[i] = h[j])
Sound(h, done, again, top) ==
  /\ ToSet(done) \subseteq ToSet(h)
  /\ Ordered(h, again)
  /\ \A i \in DOMAIN h : h[i] <= top
Before(h, m, again) == \A i \in DOMAIN h : h[i] < m \/ (again /\ h[i] = m)
SoundFor(s, h) == Sound(h, acked[s], redone[s], sent)
BeforeOwn(t, h) == th[t].op = "append" => Before(h, th[t].msg, redone[th[t].s])

\* What the one thread that works on a session is about to write.
Alone(t) ==
  LET now == Read(th[t].s) IN
  /\ th[t].pc \in {"read", "lock", "temp"} => BeforeOwn(t, now.history)
  /\ th[t].pc = "load" => th[t].rec.history = now.history
  /\ th[t].pc \in {"lock", "temp"} => th[t].rec = Written(t, now)
  /\ th[t].pc \in {"renamed", "latest"} =>
        /\ now = th[t].rec
        /\ th[t].op = "append" => th[t].msg \in ToSet(now.history)
        /\ th[t].op = "tasks" => now.tasks = th[t].msg

\* The list the manager holds and the stored one.
Lists(s) ==
  /\ (app.session = s /\ \A t \in Busy(s) : th[t].op \notin {"tasks", "start"})
        => Read(s).tasks = list[s] \/ unsaved[s]
  /\ \A t \in Busy(s) :
        /\ th[t].op = "resolved" => Read(s).tasks = list[s]
        /\ th[t].op = "tasks" /\ th[t].pc # "snapshot" => th[t].msg = list[s]

\* What a loss of power may give back is a beginning of the stored history that
\* lacks nothing that was reported done.
Undoing(s) ==
  \A c \in undo[s] : /\ SoundFor(s, Parsed(c).history)
                     /\ IsPrefix(Parsed(c).history, Read(s).history)

Kept(s) ==
  /\ \A t, u \in Busy(s) : t = u
  /\ SoundFor(s, Read(s).history)
  /\ Undoing(s)
  /\ \A t \in Busy(s) : Alone(t)
  /\ Lists(s)

Histories == \A s \in Session : Steady(s) => Kept(s)

IInv == TypeOK /\ Roles /\ Synced /\ Durability /\ Histories

\* A step that the ghosts follow, in which at most one session is misread.
Observed == Observe({}) \/ \E s \in Session : Observe({s})
Ghosts == {alone, redone, misread, unsaved} \subseteq [Session -> BOOLEAN] /\ misreads \in Nat

-----------------------------------------------------------------------------
\* The state of one thread.
ThreadState ==
  [pc : PcType, op : OpType, s : Session \cup {NoSession}, rec : Record, synced : BOOLEAN,
   msg : Nat, tries : 1 .. MaxAttempts, goal : Session \cup {NoSession}]

\* Sets of at most one element.
LEMMA AtMostOne ==
  ASSUME NEW S, IsFiniteSet(S), Cardinality(S) <= 1, NEW x \in S, NEW y \in S
  PROVE  x = y
<1> SUFFICES ASSUME x # y PROVE FALSE
  OBVIOUS
<1>1. IsFiniteSet({x}) /\ Cardinality({x}) = 1
  BY FS_Singleton
<1>a. y \notin {x}
  OBVIOUS
<1>2. IsFiniteSet({x} \cup {y}) /\ Cardinality({x} \cup {y}) = Cardinality({x}) + 1
  BY <1>1, <1>a, FS_AddElement
<1>3. {x} \cup {y} \in SUBSET S
  OBVIOUS
<1>4. Cardinality({x} \cup {y}) <= Cardinality(S) /\ Cardinality(S) \in Nat
  BY <1>3, FS_Subset, FS_CardinalityType
<1> QED BY <1>1, <1>2, <1>4

LEMMA FiniteThreads == IsFiniteSet(Thread)
<1>1. IsFiniteSet(Background)
  BY WriterAssumption
<1>2. IsFiniteSet(Background \cup {Main})
  BY <1>1, FS_AddElement
<1>3. IsFiniteSet((Background \cup {Main}) \cup {Guard})
  BY <1>2, FS_AddElement
<1>4. Thread = (Background \cup {Main}) \cup {Guard}
  BY DEF Thread
<1> QED BY <1>3, <1>4

LEMMA Threads ==
  /\ Main \in Thread /\ Guard \in Thread /\ Main # Guard
  /\ Nobody \notin Thread
  /\ NoSession \notin Session /\ First \in Session
  /\ MaxAttempts \in Nat \ {0} /\ MaxMessages \in Nat
  BY WriterAssumption DEF Thread, First

LEMMA RecordTypes ==
  /\ NoRecord \in Record /\ NoRecord.history = << >> /\ NoRecord.tasks = 0
  /\ Idle \in ThreadState /\ Idle.pc = "idle" /\ Idle.op = "none" /\ Idle.goal = NoSession
  /\ \A r \in Record : r = [history |-> r.history, tasks |-> r.tasks]
  BY Threads DEF NoRecord, Record, Idle, ThreadState, PcType, OpType

\* Histories that nothing is missing from and that are in order.
LEMMA SoundGrows ==
  ASSUME NEW h \in Seq(Message), NEW d, NEW r1 \in BOOLEAN, NEW r2 \in BOOLEAN,
         NEW n1 \in Nat, NEW n2 \in Nat,
         Sound(h, d, r1, n1), r1 => r2, n1 <= n2
  PROVE  Sound(h, d, r2, n2)
<1>1. \A i \in DOMAIN h : h[i] \in Nat
  BY Threads DEF Message
<1> QED BY <1>1 DEF Sound, Ordered

LEMMA SoundAppend ==
  ASSUME NEW h \in Seq(Message), NEW m \in Message, NEW d, NEW r \in BOOLEAN, NEW n \in Nat,
         Sound(h, d, r, n), Before(h, m, r), m <= n
  PROVE  /\ Sound(Append(h, m), d, r, n)
         /\ m \in ToSet(Append(h, m))
<1> DEFINE g == Append(h, m)
<1>1. /\ Len(h) \in Nat /\ DOMAIN h = 1 .. Len(h) /\ DOMAIN g = 1 .. Len(h) + 1
      /\ \A i \in DOMAIN h : i \in DOMAIN g /\ g[i] = h[i] /\ h[i] \in Nat
      /\ g[Len(h) + 1] = m /\ m \in Nat
  BY Threads DEF Message
<1> HIDE DEF g
<1>2. \A i \in DOMAIN g : i \in DOMAIN h \/ i = Len(h) + 1
  BY <1>1
<1>3. ToSet(h) \subseteq ToSet(g) /\ m \in ToSet(g)
  BY <1>1 DEF ToSet
<1>4. Ordered(g, r)
  <2> SUFFICES ASSUME NEW i \in DOMAIN g, NEW j \in DOMAIN g, i < j
               PROVE  g[i] < g[j] \/ (r /\ g[i] = g[j])
    BY DEF Ordered
  <2>1. i \in DOMAIN h
    BY <1>1, <1>2
  <2>2. CASE j \in DOMAIN h
    BY <1>1, <2>1, <2>2 DEF Sound, Ordered
  <2>3. CASE j = Len(h) + 1
    BY <1>1, <2>1, <2>3 DEF Before
  <2> QED BY <1>2, <2>2, <2>3
<1>5. \A i \in DOMAIN g : g[i] <= n
  BY <1>1, <1>2 DEF Sound
<1> QED BY <1>3, <1>4, <1>5 DEF Sound, g

LEMMA SoundAcked ==
  ASSUME NEW h, NEW d \in Seq(Message), NEW r, NEW n, NEW m \in Message,
         Sound(h, d, r, n), m \in ToSet(h)
  PROVE  Sound(h, Append(d, m), r, n)
<1>1. ToSet(Append(d, m)) \subseteq ToSet(d) \cup {m}
  BY DEF ToSet
<1> QED BY <1>1 DEF Sound

\* Everything up to n is before a message that is n or later, and, when the message
\* is the next one, all of it strictly.
LEMMA BeforeNext ==
  ASSUME NEW h \in Seq(Message), NEW d, NEW r, NEW n \in Nat, Sound(h, d, r, n)
  PROVE  Before(h, n, TRUE) /\ \A a : Before(h, n + 1, a)
<1>1. \A i \in DOMAIN h : h[i] \in Nat /\ h[i] <= n
  BY Threads DEF Message, Sound
<1> QED BY <1>1 DEF Before

\* Beginnings of a history.
LEMMA Beginnings ==
  ASSUME NEW h \in Seq(Message), NEW g \in Seq(Message)
  PROVE  /\ IsPrefix(h, h) /\ IsPrefix(<< >>, h)
         /\ IsPrefix(h, g) => \A m \in Message : IsPrefix(h, Append(g, m))
<1>1. IsPrefix(h, h) /\ IsPrefix(<< >>, h)
  BY SMTT(30) DEF IsPrefix
<1>2. ASSUME IsPrefix(h, g), NEW m \in Message PROVE IsPrefix(h, Append(g, m))
  <2>1. Len(h) <= Len(g) /\ SubSeq(h, 1, Len(h)) = SubSeq(g, 1, Len(h))
    BY <1>2 DEF IsPrefix
  <2>2. Len(Append(g, m)) = Len(g) + 1 /\ Len(g) \in Nat /\ Len(h) \in Nat
    OBVIOUS
  <2>3. SubSeq(Append(g, m), 1, Len(h)) = SubSeq(g, 1, Len(h))
    BY <2>1, <2>2, SMTT(30)
  <2> QED BY <2>1, <2>2, <2>3 DEF IsPrefix
<1> QED BY <1>1, <1>2

-----------------------------------------------------------------------------
\* Facts about one state and one step.

LEMMA Types ==
  ASSUME TypeOK
  PROVE  /\ th \in [Thread -> ThreadState]
         /\ \A t \in Thread : th[t] \in ThreadState
         /\ \A s \in Session : /\ file[s] \in Content
                               /\ Read(s) \in Record
                               /\ \A c \in undo[s] : c \in Content /\ Parsed(c) \in Record
                               /\ acked[s] \in Seq(Message) /\ redone[s] \in BOOLEAN
                               /\ list[s] \in Nat
         /\ app.session \in Session \cup {NoSession} /\ app.mem \in Seq(Message)
         /\ clone.session \in Session /\ clone.mem \in Seq(Message)
         /\ sent \in 0 .. MaxMessages /\ sent \in Nat /\ faults \in Nat
         /\ Ghosts
<1>1. th \in [Thread -> ThreadState]
  BY DEF TypeOK, ThreadState
<1>2. \A t \in Thread : th[t] \in ThreadState
  BY <1>1
<1>3. \A s \in Session : /\ file[s] \in Content
                         /\ acked[s] \in Seq(Message) /\ redone[s] \in BOOLEAN
                         /\ list[s] \in Nat
  BY DEF TypeOK
<1>a. \A c \in Content : Parsed(c) \in Record
  BY RecordTypes DEF Parsed, Content
<1>4. \A s \in Session : Read(s) \in Record
  BY <1>3, <1>a DEF Read
<1>5. \A s \in Session : \A c \in undo[s] : c \in Content /\ Parsed(c) \in Record
  BY <1>a DEF TypeOK
<1>6. /\ app.session \in Session \cup {NoSession} /\ app.mem \in Seq(Message)
      /\ clone.session \in Session /\ clone.mem \in Seq(Message)
  BY DEF TypeOK
<1>7. sent \in 0 .. MaxMessages /\ sent \in Nat /\ faults \in Nat /\ misreads \in Nat
  BY Threads DEF TypeOK
<1>8. Ghosts
  BY <1>7 DEF TypeOK, Ghosts
<1> QED BY <1>1, <1>2, <1>3, <1>4, <1>5, <1>6, <1>7, <1>8

\* A step of one thread.
LEMMA OneThread ==
  ASSUME TypeOK, NEW t \in Thread, NEW r \in ThreadState, th' = [th EXCEPT ![t] = r]
  PROVE  /\ th' \in [Thread -> ThreadState]
         /\ th'[t] = r
         /\ \A u \in Thread \ {t} : th'[u] = th[u]
  BY DEF TypeOK, ThreadState

\* What one thread makes of its session and of the list is seen by the ghosts: a
\* session is steady only if it was and at most one thread works on it now.
LEMMA Watched ==
  ASSUME TypeOK, Observed
  PROVE  /\ Ghosts'
         /\ \A s \in Session :
              /\ redone'[s] \in BOOLEAN /\ (redone[s] => redone'[s])
              /\ Steady(s)' => Steady(s) /\ \A t, u \in Busy(s)' : t = u
              /\ Read(s)'.tasks = list'[s] \/ (unsaved[s] => unsaved'[s])
              /\ \A t \in Thread : (th[t].s = s /\ th[t].op = "tasks" /\ faults' > faults /\ th'[t] # th[t])
                                  => Read(s)'.tasks = list'[s] \/ unsaved'[s]
<1> SUFFICES ASSUME NEW missed, missed = {} \/ (\E s \in Session : missed = {s}), Observe(missed)
             PROVE  /\ Ghosts'
                    /\ \A s \in Session :
                         /\ redone'[s] \in BOOLEAN /\ (redone[s] => redone'[s])
                         /\ Steady(s)' => Steady(s) /\ \A t, u \in Busy(s)' : t = u
                         /\ Read(s)'.tasks = list'[s] \/ (unsaved[s] => unsaved'[s])
                         /\ \A t \in Thread : (th[t].s = s /\ th[t].op = "tasks" /\ faults' > faults /\ th'[t] # th[t])
                                             => Read(s)'.tasks = list'[s] \/ unsaved'[s]
  BY DEF Observed
<1>0. Cardinality(missed) \in Nat
  <2>1. Cardinality({}) \in Nat
    BY FS_EmptySet
  <2>a. \A s \in Session : Cardinality({s}) = 1
    BY FS_Singleton
  <2>2. \A s \in Session : Cardinality({s}) \in Nat
    BY <2>a
  <2> QED BY <2>1, <2>2
<1>1. Ghosts'
  <2>1. /\ alone' \in [Session -> BOOLEAN] /\ redone' \in [Session -> BOOLEAN]
        /\ misread' \in [Session -> BOOLEAN] /\ unsaved' \in [Session -> BOOLEAN]
    BY DEF TypeOK, Observe
  <2>2. misreads' \in Nat
    <3>1. misreads \in Nat /\ misreads' = misreads + Cardinality(missed)
      BY DEF TypeOK, Observe
    <3> QED BY <1>0, <3>1
  <2> QED BY <2>1, <2>2 DEF Ghosts
<1>2. \A s \in Session : redone'[s] \in BOOLEAN /\ (redone[s] => redone'[s])
  BY DEF Observe
<1>3. ASSUME NEW s \in Session, Steady(s)'
      PROVE  Steady(s) /\ \A t, u \in Busy(s)' : t = u
  <2>1. Steady(s) /\ Cardinality(Busy(s)') <= 1
    BY <1>3 DEF Observe, Steady
  <2>2. Busy(s)' \in SUBSET Thread
    BY DEF Busy
  <2>3. IsFiniteSet(Busy(s)')
    BY <2>2, FiniteThreads, FS_Subset
  <2> QED BY <2>1, <2>3, AtMostOne
<1>4. \A s \in Session :
         /\ Read(s)'.tasks = list'[s] \/ (unsaved[s] => unsaved'[s])
         /\ \A t \in Thread : (th[t].s = s /\ th[t].op = "tasks" /\ faults' > faults /\ th'[t] # th[t])
                             => Read(s)'.tasks = list'[s] \/ unsaved'[s]
  BY DEF Observe
<1> QED BY <1>1, <1>2, <1>3, <1>4

\* Reads that succeed in a steady session, and what they find.
LEMMA Reading ==
  ASSUME TypeOK, NEW s \in Session, NEW ok \in Outcome(s)
  PROVE  /\ Observe(Missed(s, ok)) => Observed /\ (Steady(s)' => ok)
         /\ Got(s, ok) \in Record /\ (ok => Got(s, ok) = Read(s)) /\ ok \in BOOLEAN
         /\ Got(s, ok).history # << >> => Readable(s)
<1>1. ok \in BOOLEAN
  BY DEF Outcome
<1>2. ASSUME Observe(Missed(s, ok)) PROVE Observed /\ (Steady(s)' => ok)
  BY <1>1, <1>2 DEF Observed, Observe, Missed, Steady
<1>3. Got(s, ok) \in Record /\ (ok => Got(s, ok) = Read(s))
  BY <1>1, Types, RecordTypes DEF Got
<1>4. Got(s, ok).history # << >> => Readable(s)
  BY <1>1, RecordTypes DEF Got, Read, Parsed, Readable
<1> QED BY <1>1, <1>2, <1>3, <1>4

\* What may be given back stays earlier and sound while the file stays as it is.
LEMMA StaysUndoing ==
  ASSUME TypeOK, Observed, NEW s \in Session, Undoing(s), file'[s] = file[s],
         undo'[s] \in {undo[s], {}}, sent' \in Nat, sent <= sent', acked'[s] = acked[s]
  PROVE  Undoing(s)'
<1> SUFFICES ASSUME NEW c \in undo[s], undo'[s] = undo[s]
             PROVE  /\ Sound(Parsed(c).history, acked'[s], redone'[s], sent')
                    /\ IsPrefix(Parsed(c).history, Read(s)'.history)
  BY DEF Undoing, SoundFor
<1>1. Parsed(c).history \in Seq(Message) /\ sent \in Nat /\ redone[s] \in BOOLEAN
  BY Types DEF Record
<1>2. redone'[s] \in BOOLEAN /\ (redone[s] => redone'[s])
  BY Watched DEF Ghosts
<1>3. Read(s)' = Read(s)
  BY DEF Read
<1> QED BY <1>1, <1>2, <1>3, SoundGrows DEF Undoing, SoundFor

\* A session whose file and thread a step leaves alone is kept as it was.
LEMMA KeptFrame ==
  ASSUME IInv, Observed, NEW s \in Session, Steady(s)',
         sent' \in Nat, sent <= sent', file'[s] = file[s], undo'[s] \in {undo[s], {}},
         acked'[s] = acked[s], list'[s] = list[s], app'.session = s => app.session = s,
         \A u \in Busy(s)' : th'[u] = th[u],
         \A u \in Busy(s) : u \in Busy(s)'
  PROVE  Kept(s)'
<1>1. TypeOK /\ Kept(s) /\ (redone[s] => redone'[s]) /\ \A t, u \in Busy(s)' : t = u
  BY Watched DEF IInv, Histories
<1>2. Read(s)' = Read(s) /\ Read(s) \in Record
  BY Types DEF IInv, Read
<1>3. redone[s] \in BOOLEAN /\ redone'[s] \in BOOLEAN /\ sent \in Nat
  BY <1>1, Types, Watched
<1>4. SoundFor(s, Read(s).history)'
  <2>1. Sound(Read(s).history, acked[s], redone'[s], sent')
    BY <1>1, <1>2, <1>3, SoundGrows DEF SoundFor, Kept, Record
  <2> QED BY <1>2, <2>1 DEF SoundFor
<1>5. Undoing(s)'
  BY <1>1, StaysUndoing DEF Kept
<1>6. ASSUME NEW t \in Busy(s)' PROVE Alone(t)'
  <2>1. t \in Thread /\ t \in Busy(s) /\ th'[t] = th[t] /\ th[t].s = s /\ Alone(t)
    BY <1>1, <1>6 DEF Busy, Kept
  <2>4. ASSUME NEW h, BeforeOwn(t, h)
        PROVE  th'[t].op = "append" => Before(h, th'[t].msg, redone'[th'[t].s])
    BY <1>1, <2>1, <2>4 DEF BeforeOwn, Before
  <2>5. th'[t].pc \in {"read", "lock", "temp"} => BeforeOwn(t, Read(s).history)'
    BY <1>2, <2>1, <2>4 DEF Alone, BeforeOwn
  <2>6. Written(t, Read(s))' = Written(t, Read(s))
    BY <1>2, <2>1 DEF Written
  <2> QED BY <1>2, <2>1, <2>5, <2>6 DEF Alone
<1>7. Lists(s)'
  <2>1. Lists(s) /\ \A u \in Busy(s)' : u \in Busy(s)
    BY <1>1 DEF Kept, Busy
  <2>2. \A t, u \in Busy(s)' : th'[t].op = th[t].op /\ th'[t].pc = th[t].pc /\ th'[t].msg = th[t].msg
    OBVIOUS
  <2>3. Read(s)'.tasks = list'[s] \/ (unsaved[s] => unsaved'[s])
    BY <1>1, Watched
  <2> QED BY <1>2, <2>1, <2>2, <2>3 DEF Lists
<1> QED BY <1>1, <1>4, <1>5, <1>6, <1>7 DEF Kept

-----------------------------------------------------------------------------
\* Calls begin.

\* A thread that was idle starts to work on a session, and writes nothing yet.
LEMMA Begins ==
  ASSUME IInv, Observed, NEW t \in Thread, NEW r \in ThreadState,
         th[t].pc = "idle", th' = [th EXCEPT ![t] = r],
         r.pc \in {"read", "snapshot"}, r.s \in Session,
         UNCHANGED <<file, latest, undo, former, lock, app, clone, acked>>,
         sent' \in Nat, sent <= sent',
         \A s \in Session : s # r.s => list'[s] = list[s]
  PROVE  /\ Synced' /\ Durability' /\ Ghosts'
         /\ \A s \in Session : Steady(s)' /\ s # r.s => Kept(s)'
         /\ Steady(r.s)' => /\ Kept(r.s) /\ Busy(r.s) = {} /\ Busy(r.s)' = {t}
                           /\ SoundFor(r.s, Read(r.s).history)' /\ Undoing(r.s)'
                           /\ Read(r.s)' = Read(r.s)
<1>1. th'[t] = r /\ \A u \in Thread \ {t} : th'[u] = th[u]
  BY OneThread DEF IInv
<1>2. Synced'
  BY <1>1 DEF IInv, Synced
<1>3. Durability'
  BY <1>1 DEF IInv, Durability, Relied, Durable, Readable, Up
<1>a. Ghosts'
  BY Watched DEF IInv
<1>4. ASSUME NEW s \in Session, Steady(s)', s # r.s PROVE Kept(s)'
  <2>1. \A u \in Busy(s)' : th'[u] = th[u]
    BY <1>1, <1>4 DEF Busy
  <2>2. \A u \in Busy(s) : u \in Busy(s)'
    BY <1>1, <1>4 DEF Busy
  <2> QED BY <1>4, <2>1, <2>2, KeptFrame
<1>5. ASSUME Steady(r.s)'
      PROVE  /\ Kept(r.s) /\ Busy(r.s) = {} /\ Busy(r.s)' = {t}
             /\ SoundFor(r.s, Read(r.s).history)' /\ Undoing(r.s)' /\ Read(r.s)' = Read(r.s)
  <2>1. Kept(r.s) /\ (redone[r.s] => redone'[r.s]) /\ \A u, v \in Busy(r.s)' : u = v
    BY <1>5, Watched DEF IInv, Histories
  <2>2. t \in Busy(r.s)'
    BY <1>1 DEF Busy
  <2>3. \A u \in Busy(r.s) : u \in Busy(r.s)' /\ u # t
    BY <1>1 DEF Busy
  <2>4. Read(r.s)' = Read(r.s) /\ Read(r.s) \in Record
    BY Types DEF IInv, Read
  <2>5. SoundFor(r.s, Read(r.s).history)'
    <3>1. Sound(Read(r.s).history, acked[r.s], redone[r.s], sent)
      BY <2>1 DEF Kept, SoundFor
    <3>2. /\ redone[r.s] \in BOOLEAN /\ redone'[r.s] \in BOOLEAN /\ sent \in Nat
          /\ Read(r.s).history \in Seq(Message)
      BY <2>4, Types, Watched DEF IInv, Record
    <3> QED BY <2>1, <2>4, <3>1, <3>2, SoundGrows DEF SoundFor
  <2>6. Undoing(r.s)'
    BY <2>1, StaysUndoing DEF IInv, Kept
  <2> QED BY <2>1, <2>2, <2>3, <2>4, <2>5, <2>6
<1> QED BY <1>2, <1>3, <1>a, <1>4, <1>5

\* The state of a thread that begins a call.
Beginning(op, pc, s, msg, goal) ==
  [Idle EXCEPT !.pc = pc, !.op = op, !.s = s, !.msg = msg, !.goal = goal]

LEMMA StartedType ==
  ASSUME NEW op \in OpType, NEW pc \in PcType, NEW s \in Session, NEW msg \in Nat,
         NEW goal \in Session \cup {NoSession}
  PROVE  \E r \in ThreadState :
           /\ r = Beginning(op, pc, s, msg, goal)
           /\ r.pc = pc /\ r.op = op /\ r.s = s /\ r.msg = msg /\ r.goal = goal
<1>1. Beginning(op, pc, s, msg, goal) \in ThreadState
  BY Threads, RecordTypes DEF Beginning, Idle, ThreadState
<1>2. PICK r \in ThreadState : r = Beginning(op, pc, s, msg, goal)
  BY <1>1
<1>3. r.pc = pc /\ r.op = op /\ r.s = s /\ r.msg = msg /\ r.goal = goal
  BY <1>2 DEF Beginning, Idle
<1> QED BY <1>2, <1>3

\* The turn appends the next message.
LEMMA StartAppendStep == IInv /\ StartAppend => IInv'
<1> SUFFICES ASSUME IInv, StartAppend PROVE IInv'
  OBVIOUS
<1>1. app.session \in Session /\ sent + 1 \in Message /\ sent + 1 \in Nat /\ sent \in Nat
  BY Threads, Types DEF IInv, StartAppend, Up, Message
<1>2. PICK s \in Session : s = app.session
  BY <1>1
<1>3. PICK r \in ThreadState :
        /\ r = Beginning("append", "read", s, sent + 1, NoSession)
        /\ r.pc = "read" /\ r.op = "append" /\ r.s = s /\ r.msg = sent + 1 /\ r.goal = NoSession
  <2>1. "append" \in OpType /\ "read" \in PcType
    BY DEF PcType, OpType
  <2> QED BY <1>1, <1>2, <2>1, StartedType
<1>4. /\ Observed /\ th[Main].pc = "idle" /\ sent' = sent + 1
      /\ th' = [th EXCEPT ![Main] = r]
      /\ UNCHANGED <<file, latest, undo, former, lock, app, clone, list, used, faults, crashes, guards,
                     switches, acked>>
  BY <1>2, <1>3 DEF StartAppend, Begin, Beginning, stored, Observed
<1>5. /\ th' \in [Thread -> ThreadState] /\ th'[Main] = r
      /\ \A u \in Thread \ {Main} : th'[u] = th[u]
  BY <1>4, Threads, OneThread DEF IInv
<1>6. TypeOK'
  <2>1. TypeOK
    BY DEF IInv
  <2>2. Ghosts'
    BY <1>4, <2>1, Watched
  <2>3. sent' \in 0 .. MaxMessages
    BY <1>1, <1>4, Threads DEF Message
  <2>4. {faults, misreads, crashes, guards, switches}' \subseteq Nat
    BY <1>4, <2>1, <2>2 DEF TypeOK, Ghosts
  <2>5. {alone, redone, misread, unsaved}' \subseteq [Session -> BOOLEAN]
    BY <2>2 DEF Ghosts
  <2> QED BY <1>4, <1>5, <2>1, <2>3, <2>4, <2>5 DEF TypeOK, ThreadState
<1>7. Roles'
  BY Threads, <1>1, <1>2, <1>3, <1>4, <1>5 DEF IInv, Roles, Up
<1>8. /\ Synced' /\ Durability' /\ Ghosts'
      /\ \A z \in Session : Steady(z)' /\ z # s => Kept(z)'
      /\ Steady(s)' => /\ Kept(s) /\ Busy(s) = {} /\ Busy(s)' = {Main}
                      /\ SoundFor(s, Read(s).history)' /\ Undoing(s)'
                      /\ Read(s)' = Read(s)
  <2>1. \A z \in Session : z # r.s => list'[z] = list[z]
    BY <1>4
  <2>2. sent' \in Nat /\ sent <= sent'
    BY <1>1, <1>4
  <2> QED BY <1>3, <1>4, <2>1, <2>2, Threads, Begins
<1>9. ASSUME Steady(s)' PROVE Kept(s)'
  <2>1. Sound(Read(s).history, acked[s], redone[s], sent) /\ Read(s).history \in Seq(Message)
    BY <1>8, <1>9, Types DEF IInv, Kept, SoundFor, Record
  <2>2. Before(Read(s).history, sent + 1, redone'[s])
    BY <1>1, <2>1, BeforeNext
  <2>3. Alone(Main)'
    BY <1>3, <1>5, <1>8, <1>9, <2>2 DEF Alone, BeforeOwn
  <2>4. Lists(s)'
    <3>1. Lists(s) /\ (Read(s)'.tasks = list'[s] \/ (unsaved[s] => unsaved'[s]))
      BY <1>4, <1>8, <1>9, Watched DEF IInv, Kept
    <3> QED BY <1>3, <1>4, <1>5, <1>8, <1>9, <3>1 DEF Lists
  <2> QED BY <1>8, <1>9, <2>3, <2>4 DEF Kept
<1>10. Histories'
  BY <1>8, <1>9 DEF Histories
<1> QED BY <1>6, <1>7, <1>8, <1>10 DEF IInv

\* The task list is changed, to be saved.
LEMMA StartTasksStep ==
  ASSUME IInv, NEW t \in Thread, StartTasks(t)
  PROVE  IInv'
<1>1. app.session \in Session /\ sent \in Nat
  BY Threads, Types DEF IInv, StartTasks, Started, Up
<1>2. PICK s \in Session : s = app.session
  BY <1>1
<1>3. PICK r \in ThreadState :
        /\ r = Beginning("tasks", "snapshot", s, 0, NoSession)
        /\ r.pc = "snapshot" /\ r.op = "tasks" /\ r.s = s /\ r.msg = 0 /\ r.goal = NoSession
  <2>1. "tasks" \in OpType /\ "snapshot" \in PcType
    BY DEF PcType, OpType
  <2> QED BY <1>1, <1>2, <2>1, StartedType
<1>4. /\ Observed /\ th[t].pc = "idle" /\ t # Guard
      /\ th' = [th EXCEPT ![t] = r]
      /\ list' = [list EXCEPT ![s] = @ + 1]
      /\ UNCHANGED <<file, latest, undo, former, lock, app, clone, used, sent, faults, crashes, guards,
                     switches, acked>>
  BY <1>2, <1>3 DEF StartTasks, Begin, Beginning, stored, Observed
<1>5. /\ th' \in [Thread -> ThreadState] /\ th'[t] = r
      /\ \A u \in Thread \ {t} : th'[u] = th[u]
  BY <1>4, OneThread DEF IInv
<1>6. TypeOK'
  <2>1. TypeOK
    BY DEF IInv
  <2>2. Ghosts'
    BY <1>4, <2>1, Watched
  <2>3. list' \in [Session -> Nat]
    <3>1. list \in [Session -> Nat]
      BY <2>1 DEF TypeOK
    <3>2. list' = [list EXCEPT ![s] = @ + 1]
      BY <1>4
    <3> QED BY <3>1, <3>2
  <2>4. {faults, misreads, crashes, guards, switches}' \subseteq Nat
    BY <1>4, <2>1, <2>2 DEF TypeOK, Ghosts
  <2>5. {alone, redone, misread, unsaved}' \subseteq [Session -> BOOLEAN]
    BY <2>2 DEF Ghosts
  <2> QED BY <1>4, <1>5, <2>1, <2>3, <2>4, <2>5 DEF TypeOK, ThreadState
<1>7. Roles'
  BY Threads, <1>1, <1>2, <1>3, <1>4, <1>5 DEF IInv, Roles, Up
<1>8. /\ Synced' /\ Durability' /\ Ghosts'
      /\ \A z \in Session : Steady(z)' /\ z # s => Kept(z)'
      /\ Steady(s)' => /\ Kept(s) /\ Busy(s) = {} /\ Busy(s)' = {t}
                      /\ SoundFor(s, Read(s).history)' /\ Undoing(s)'
                      /\ Read(s)' = Read(s)
  <2>1. \A z \in Session : z # r.s => list'[z] = list[z]
    BY <1>3, <1>4, Types DEF IInv, TypeOK
  <2>2. sent' \in Nat /\ sent <= sent'
    BY <1>1, <1>4
  <2>3. /\ th[t].pc = "idle" /\ r.pc \in {"read", "snapshot"} /\ r.s = s
        /\ Observed /\ th' = [th EXCEPT ![t] = r]
        /\ UNCHANGED <<file, latest, undo, former, lock, app, clone, faults, acked>>
    BY <1>3, <1>4
  <2> QED BY <2>1, <2>2, <2>3, Begins
<1>9. ASSUME Steady(s)' PROVE Kept(s)'
  <2>1. Alone(t)'
    BY <1>3, <1>5, <1>8, <1>9 DEF Alone, BeforeOwn
  <2>2. Lists(s)'
    BY <1>3, <1>5, <1>8, <1>9 DEF Lists
  <2> QED BY <1>8, <1>9, <2>1, <2>2 DEF Kept
<1>10. Histories'
  BY <1>8, <1>9 DEF Histories
<1> QED BY <1>6, <1>7, <1>8, <1>10 DEF IInv

\* The guard saves the session of its clone.
LEMMA StartGuardStep == IInv /\ StartGuard => IInv'
<1> SUFFICES ASSUME IInv, StartGuard PROVE IInv'
  OBVIOUS
<1>1. clone.session \in Session /\ sent \in Nat
  BY Threads, Types DEF IInv
<1>2. PICK s \in Session : s = clone.session
  BY <1>1
<1>3. PICK r \in ThreadState :
        /\ r = Beginning("current", "read", s, 0, NoSession)
        /\ r.pc = "read" /\ r.op = "current" /\ r.s = s /\ r.msg = 0 /\ r.goal = NoSession
  <2>1. "current" \in OpType /\ "read" \in PcType
    BY DEF PcType, OpType
  <2> QED BY <1>1, <1>2, <2>1, StartedType
<1>4. /\ Observed /\ th[Guard].pc = "idle" /\ Up
      /\ th' = [th EXCEPT ![Guard] = r] /\ guards' = guards + 1
      /\ UNCHANGED <<file, latest, undo, former, lock, app, clone, list, used, sent, faults, crashes,
                     switches, acked>>
  BY <1>2, <1>3 DEF StartGuard, Started, Begin, Beginning, stored, Observed
<1>5. /\ th' \in [Thread -> ThreadState] /\ th'[Guard] = r
      /\ \A u \in Thread \ {Guard} : th'[u] = th[u]
  BY <1>4, Threads, OneThread DEF IInv
<1>6. TypeOK'
  <2>1. TypeOK
    BY DEF IInv
  <2>2. Ghosts'
    BY <1>4, <2>1, Watched
  <2>3. guards' \in Nat
    <3>1. guards \in Nat
      BY <2>1 DEF TypeOK
    <3>2. guards' = guards + 1
      BY <1>4
    <3> QED BY <3>1, <3>2
  <2>4. UNCHANGED <<file, latest, undo, former, lock, app, clone, list, used, sent, faults, crashes,
                    switches, acked>>
    BY <1>4
  <2>5. {faults, misreads, crashes, guards, switches}' \subseteq Nat
    BY <2>1, <2>2, <2>3, <2>4 DEF TypeOK, Ghosts
  <2>6. {alone, redone, misread, unsaved}' \subseteq [Session -> BOOLEAN]
    BY <2>2 DEF Ghosts
  <2> QED BY <1>5, <2>1, <2>3, <2>4, <2>5, <2>6 DEF TypeOK, ThreadState
<1>7. Roles'
  BY Threads, <1>1, <1>2, <1>3, <1>4, <1>5 DEF IInv, Roles, Up
<1>8. /\ Synced' /\ Durability' /\ Ghosts'
      /\ \A z \in Session : Steady(z)' /\ z # s => Kept(z)'
      /\ Steady(s)' => /\ Kept(s) /\ Busy(s) = {} /\ Busy(s)' = {Guard}
                      /\ SoundFor(s, Read(s).history)' /\ Undoing(s)'
                      /\ Read(s)' = Read(s)
  <2>1. \A z \in Session : z # r.s => list'[z] = list[z]
    BY <1>4
  <2>2. sent' \in Nat /\ sent <= sent'
    BY <1>1, <1>4
  <2> QED BY <1>3, <1>4, <2>1, <2>2, Threads, Begins
<1>9. ASSUME Steady(s)' PROVE Kept(s)'
  <2>1. Alone(Guard)'
    BY <1>3, <1>5, <1>8, <1>9 DEF Alone, BeforeOwn
  <2>2. Lists(s)'
    <3>1. Lists(s) /\ (Read(s)'.tasks = list'[s] \/ (unsaved[s] => unsaved'[s]))
      BY <1>4, <1>8, <1>9, Watched DEF IInv, Kept
    <3> QED BY <1>3, <1>4, <1>5, <1>8, <1>9, <3>1 DEF Lists
  <2> QED BY <1>8, <1>9, <2>1, <2>2 DEF Kept
<1>10. Histories'
  BY <1>8, <1>9 DEF Histories
<1> QED BY <1>6, <1>7, <1>8, <1>10 DEF IInv

\* The turn leaves its session for another one, and saves it first.
LEMMA SwitchStep ==
  ASSUME IInv, NEW z \in Session, Switch(z)
  PROVE  IInv'
<1>1. app.session \in Session /\ sent \in Nat
  BY Threads, Types DEF IInv, Switch, Up
<1>2. PICK s \in Session : s = app.session
  BY <1>1
<1>3. PICK r \in ThreadState :
        /\ r = Beginning("current", "read", s, 0, z)
        /\ r.pc = "read" /\ r.op = "current" /\ r.s = s /\ r.msg = 0 /\ r.goal = z
  <2>1. "current" \in OpType /\ "read" \in PcType
    BY DEF PcType, OpType
  <2> QED BY <1>1, <1>2, <2>1, StartedType
<1>4. /\ Observed /\ th[Main].pc = "idle" /\ z # app.session
      /\ th' = [th EXCEPT ![Main] = r] /\ switches' = switches + 1 /\ used' = used \cup {z}
      /\ UNCHANGED <<file, latest, undo, former, lock, app, clone, list, sent, faults, crashes, guards, acked>>
  BY <1>2, <1>3 DEF Switch, Begin, Beginning, stored, Observed
<1>5. /\ th' \in [Thread -> ThreadState] /\ th'[Main] = r
      /\ \A u \in Thread \ {Main} : th'[u] = th[u]
  BY <1>4, Threads, OneThread DEF IInv
<1>6. TypeOK'
  <2>1. TypeOK
    BY DEF IInv
  <2>2. Ghosts'
    BY <1>4, <2>1, Watched
  <2>3. switches' \in Nat /\ used' \subseteq Session
    <3>1. switches \in Nat /\ used \subseteq Session
      BY <2>1 DEF TypeOK
    <3>2. switches' = switches + 1 /\ used' = used \cup {z}
      BY <1>4
    <3> QED BY <3>1, <3>2
  <2>4. UNCHANGED <<file, latest, undo, former, lock, app, clone, list, sent, faults, crashes, guards, acked>>
    BY <1>4
  <2>5. {faults, misreads, crashes, guards, switches}' \subseteq Nat
    BY <2>1, <2>2, <2>3, <2>4 DEF TypeOK, Ghosts
  <2>6. {alone, redone, misread, unsaved}' \subseteq [Session -> BOOLEAN]
    BY <2>2 DEF Ghosts
  <2> QED BY <1>5, <2>1, <2>3, <2>4, <2>5, <2>6 DEF TypeOK, ThreadState
<1>7. Roles'
  BY Threads, <1>1, <1>2, <1>3, <1>4, <1>5 DEF IInv, Roles, Up
<1>8. /\ Synced' /\ Durability' /\ Ghosts'
      /\ \A y \in Session : Steady(y)' /\ y # s => Kept(y)'
      /\ Steady(s)' => /\ Kept(s) /\ Busy(s) = {} /\ Busy(s)' = {Main}
                      /\ SoundFor(s, Read(s).history)' /\ Undoing(s)'
                      /\ Read(s)' = Read(s)
  <2>1. \A y \in Session : y # r.s => list'[y] = list[y]
    BY <1>4
  <2>2. sent' \in Nat /\ sent <= sent'
    BY <1>1, <1>4
  <2> QED BY <1>3, <1>4, <2>1, <2>2, Threads, Begins
<1>9. ASSUME Steady(s)' PROVE Kept(s)'
  <2>1. Alone(Main)'
    BY <1>3, <1>5, <1>8, <1>9 DEF Alone, BeforeOwn
  <2>2. Lists(s)'
    <3>1. Lists(s) /\ (Read(s)'.tasks = list'[s] \/ (unsaved[s] => unsaved'[s]))
      BY <1>4, <1>8, <1>9, Watched DEF IInv, Kept
    <3> QED BY <1>3, <1>4, <1>5, <1>8, <1>9, <3>1 DEF Lists
  <2> QED BY <1>8, <1>9, <2>1, <2>2 DEF Kept
<1>10. Histories'
  BY <1>8, <1>9 DEF Histories
<1> QED BY <1>6, <1>7, <1>8, <1>10 DEF IInv

-----------------------------------------------------------------------------
\* A call goes on.

\* What a step of thread t, which works on session s and is left in state r, leaves:
\* the sessions it has no part in are kept, and s, while t is the only one there, is
\* as it was but for what the step itself changes.
WorksOn(t, r, s) ==
  /\ \A y \in Session :
       (/\ Steady(y)' /\ y # s /\ (r.pc # "idle" => y # r.s)
        /\ file'[y] = file[y] /\ undo'[y] \in {undo[y], {}}
        /\ acked'[y] = acked[y] /\ list'[y] = list[y]
        /\ app'.session = y => app.session = y) => Kept(y)'
  /\ Steady(s)' => /\ Kept(s) /\ Alone(t) /\ Busy(s) = {t}
                   /\ Busy(s)' = IF r.pc # "idle" /\ r.s = s THEN {t} ELSE {}
                   /\ SoundFor(s, Read(s).history)
                   /\ Read(s)'.tasks = list'[s] \/ (unsaved[s] => unsaved'[s])
  /\ (Steady(s)' /\ file'[s] = file[s] /\ undo'[s] \in {undo[s], {}} /\ acked'[s] = acked[s])
        => Undoing(s)'
  /\ th' \in [Thread -> ThreadState] /\ th'[t] = r
  /\ \A u \in Thread \ {t} : th'[u] = th[u]
  /\ Ghosts'

LEMMA Works ==
  ASSUME IInv, Observed, NEW t \in Thread, NEW r \in ThreadState, NEW s \in Session,
         th[t].pc # "idle", th[t].s = s, th' = [th EXCEPT ![t] = r], sent' = sent
  PROVE  WorksOn(t, r, s)
<1>1. th' \in [Thread -> ThreadState] /\ th'[t] = r /\ \A u \in Thread \ {t} : th'[u] = th[u]
  BY OneThread DEF IInv
<1>a. sent' \in Nat /\ sent <= sent'
  BY Types DEF IInv
<1>2. ASSUME NEW y \in Session, Steady(y)', y # s, r.pc # "idle" => y # r.s,
             file'[y] = file[y], undo'[y] \in {undo[y], {}}, acked'[y] = acked[y], list'[y] = list[y],
             app'.session = y => app.session = y
      PROVE  Kept(y)'
  <2>1. \A u \in Busy(y)' : th'[u] = th[u]
    BY <1>1, <1>2 DEF Busy
  <2>2. \A u \in Busy(y) : u \in Busy(y)'
    BY <1>1, <1>2 DEF Busy
  <2> QED BY <1>a, <1>2, <2>1, <2>2, KeptFrame
<1>3. ASSUME Steady(s)'
      PROVE  /\ Kept(s) /\ Alone(t) /\ Busy(s) = {t}
             /\ Busy(s)' = IF r.pc # "idle" /\ r.s = s THEN {t} ELSE {}
             /\ SoundFor(s, Read(s).history)
             /\ Read(s)'.tasks = list'[s] \/ (unsaved[s] => unsaved'[s])
  <2>1. Kept(s) /\ \A u, v \in Busy(s)' : u = v
    BY <1>3, Watched DEF IInv, Histories
  <2>2. t \in Busy(s) /\ Busy(s) = {t}
    BY <2>1 DEF Kept, Busy
  <2>3. \A u \in Busy(s)' : u = t
    BY <1>1, <2>2 DEF Busy
  <2>4. t \in Busy(s)' <=> r.pc # "idle" /\ r.s = s
    BY <1>1 DEF Busy
  <2>5. Read(s)'.tasks = list'[s] \/ (unsaved[s] => unsaved'[s])
    BY Watched DEF IInv
  <2> QED BY <2>1, <2>2, <2>3, <2>4, <2>5 DEF Kept
<1>4. ASSUME Steady(s)', file'[s] = file[s], undo'[s] \in {undo[s], {}}, acked'[s] = acked[s]
      PROVE  Undoing(s)'
  <2>1. Undoing(s)
    BY <1>3, <1>4 DEF Kept
  <2> QED BY <1>a, <1>4, <2>1, StaysUndoing DEF IInv
<1>5. Ghosts'
  BY Watched DEF IInv
<1> QED BY <1>1, <1>2, <1>3, <1>4, <1>5 DEF WorksOn

\* What a history keeps when only the ghosts of other sessions moved.
LEMMA StaysSound ==
  ASSUME TypeOK, Observed, NEW s \in Session, NEW h \in Seq(Message), SoundFor(s, h),
         sent' = sent, acked'[s] = acked[s]
  PROVE  /\ Sound(h, acked'[s], redone'[s], sent')
         /\ \A m : Before(h, m, redone[s]) => Before(h, m, redone'[s])
<1>1. redone[s] => redone'[s]
  BY Watched
<1>2. redone[s] \in BOOLEAN /\ redone'[s] \in BOOLEAN /\ sent \in Nat
  BY Types, Watched
<1>3. Sound(h, acked[s], redone'[s], sent)
  BY <1>1, <1>2, SoundGrows DEF SoundFor
<1> QED BY <1>1, <1>3 DEF Before

\* The list of the moment is copied.
LEMMA SnapshotStep ==
  ASSUME IInv, NEW t \in Thread, Snapshot(t)
  PROVE  IInv'
<1>1. PICK s \in Session : s = th[t].s
  BY DEF IInv, Roles, Snapshot
<1>2. PICK r \in ThreadState :
        /\ r = [th[t] EXCEPT !.pc = "read", !.msg = list[s]]
        /\ r.pc = "read" /\ r.op = "tasks" /\ r.s = s /\ r.msg = list[s] /\ r.goal = th[t].goal
  <2> DEFINE x == th[t]
             n == list[s]
             r == [x EXCEPT !.pc = "read", !.msg = n]
  <2>1. x \in ThreadState /\ n \in Nat /\ x.op = "tasks" /\ x.s = s
    BY <1>1, Types DEF IInv, Roles, Snapshot
  <2>2. r \in ThreadState /\ r.pc = "read" /\ r.op = x.op /\ r.s = x.s /\ r.msg = n /\ r.goal = x.goal
    BY <2>1 DEF ThreadState, PcType
  <2> QED BY <2>1, <2>2
<1>3. /\ Observed /\ th[t].pc = "snapshot" /\ th' = [th EXCEPT ![t] = r]
      /\ UNCHANGED <<file, latest, undo, former, lock, app, clone, list, used, sent, faults, crashes,
                     guards, switches, acked>>
  BY <1>1, <1>2 DEF Snapshot, stored, Observed
<1>5. /\ \A y \in Session : Steady(y)' /\ y # s => Kept(y)'
      /\ Steady(s)' => /\ Kept(s) /\ Alone(t) /\ Busy(s) = {t} /\ Busy(s)' = {t}
                       /\ SoundFor(s, Read(s).history) /\ Undoing(s)'
      /\ th' \in [Thread -> ThreadState] /\ th'[t] = r
      /\ \A u \in Thread \ {t} : th'[u] = th[u]
      /\ Ghosts'
  <2>1. /\ th[t].pc # "idle" /\ sent' = sent
        /\ file' = file /\ undo' = undo /\ acked' = acked /\ list' = list /\ app' = app
    BY <1>3
  <2>2. Observed /\ th[t].s = s /\ th' = [th EXCEPT ![t] = r] /\ r.pc = "read" /\ r.s = s
    BY <1>1, <1>2, <1>3
  <2>3. WorksOn(t, r, s)
    BY <2>1, <2>2, Works
  <2> QED BY <2>1, <2>2, <2>3 DEF WorksOn
<1>6. TypeOK'
  <2>1. {faults, misreads, crashes, guards, switches}' \subseteq Nat
    BY <1>3, <1>5 DEF IInv, TypeOK, Ghosts
  <2>2. {alone, redone, misread, unsaved}' \subseteq [Session -> BOOLEAN]
    BY <1>5 DEF Ghosts
  <2> QED BY <1>3, <1>5, <2>1, <2>2 DEF IInv, TypeOK, ThreadState
<1>7. Roles'
  BY Threads, <1>2, <1>3, <1>5 DEF IInv, Roles, Up
<1>8. Synced' /\ Durability'
  BY <1>2, <1>3, <1>5 DEF IInv, Synced, Durability, Relied, Durable, Readable, Up
<1>9. ASSUME Steady(s)' PROVE Kept(s)'
  <2>1. Read(s)' = Read(s) /\ Read(s) \in Record
    BY <1>3, Types DEF IInv, Read
  <2>2. SoundFor(s, Read(s).history)'
    BY <1>3, <1>5, <1>9, <2>1, StaysSound DEF IInv, SoundFor, Record
  <2>3. Alone(t)'
    BY <1>2, <1>5 DEF Alone, BeforeOwn
  <2>4. Lists(s)'
    BY <1>2, <1>3, <1>5, <1>9 DEF Lists
  <2> QED BY <1>5, <1>9, <2>2, <2>3, <2>4 DEF Kept
<1>10. Histories'
  BY <1>5, <1>9 DEF Histories
<1> QED BY <1>6, <1>7, <1>8, <1>10 DEF IInv

\* A call goes on and writes no file: what is left to show is what its thread is at.
LEMMA Continues ==
  ASSUME IInv, Observed, NEW t \in Thread, NEW r \in ThreadState, NEW s \in Session,
         th[t].pc \notin {"idle", "snapshot"}, th[t].s = s, th' = [th EXCEPT ![t] = r],
         r.pc # "idle", r.s = s, r.op = th[t].op, r.msg = th[t].msg,
         UNCHANGED <<file, latest, app, clone, list, used, sent, faults, crashes, guards,
                     switches, acked>>,
         undo' \in {undo, NoUndo}, former' \in {former, {}},
         lock' \in [Session -> Thread \cup {Nobody}]
  PROVE  /\ TypeOK'
         /\ th' \in [Thread -> ThreadState] /\ th'[t] = r
         /\ \A u \in Thread \ {t} : th'[u] = th[u]
         /\ Read(s)' = Read(s) /\ Read(s) \in Record
         /\ Steady(s)' => /\ Kept(s) /\ Alone(t) /\ SoundFor(s, Read(s).history)
                          /\ \A m : Before(Read(s).history, m, redone[s])
                                      => Before(Read(s).history, m, redone'[s])
         /\ (Steady(s)' => Alone(t)') => Histories'
<1>1. TypeOK
  BY DEF IInv
<1>a. \A y \in Session : undo'[y] \in {undo[y], {}}
  BY DEF NoUndo
<1>2. /\ \A y \in Session : Steady(y)' /\ y # s => Kept(y)'
      /\ Steady(s)' => /\ Kept(s) /\ Alone(t) /\ Busy(s) = {t} /\ Busy(s)' = {t}
                       /\ SoundFor(s, Read(s).history) /\ Undoing(s)'
                       /\ Read(s)'.tasks = list'[s] \/ (unsaved[s] => unsaved'[s])
      /\ th' \in [Thread -> ThreadState] /\ th'[t] = r
      /\ \A u \in Thread \ {t} : th'[u] = th[u]
      /\ Ghosts'
  <2>1. /\ th[t].pc # "idle" /\ sent' = sent
        /\ file' = file /\ acked' = acked /\ list' = list /\ app' = app
    OBVIOUS
  <2>2. WorksOn(t, r, s)
    BY <2>1, Works
  <2> QED BY <1>a, <2>1, <2>2 DEF WorksOn
<1>3. TypeOK'
  <2>1. undo' \in [Session -> SUBSET Content] /\ former' \subseteq Session \cup {NoSession}
    BY <1>1 DEF TypeOK, NoUndo
  <2>2. {faults, misreads, crashes, guards, switches}' \subseteq Nat
    BY <1>1, <1>2 DEF TypeOK, Ghosts
  <2>3. {alone, redone, misread, unsaved}' \subseteq [Session -> BOOLEAN]
    BY <1>2 DEF Ghosts
  <2> QED BY <1>1, <1>2, <2>1, <2>2, <2>3 DEF TypeOK, ThreadState
<1>4. Read(s)' = Read(s) /\ Read(s) \in Record
  BY <1>1, Types DEF Read
<1>5. ASSUME Steady(s)'
      PROVE  /\ SoundFor(s, Read(s).history)'
             /\ \A m : Before(Read(s).history, m, redone[s])
                         => Before(Read(s).history, m, redone'[s])
  <2>1. acked'[s] = acked[s] /\ Read(s).history \in Seq(Message)
    BY <1>4 DEF Record
  <2> QED BY <1>1, <1>2, <1>4, <1>5, <2>1, StaysSound DEF SoundFor
<1>6. ASSUME Steady(s)', Alone(t)' PROVE Kept(s)'
  <2>1. Lists(s)'
    BY <1>2, <1>4, <1>6 DEF Lists, Kept
  <2> QED BY <1>2, <1>5, <1>6, <2>1 DEF Kept
<1>7. (Steady(s)' => Alone(t)') => Histories'
  BY <1>2, <1>6 DEF Histories
<1> QED BY <1>2, <1>3, <1>4, <1>5, <1>7

\* A record whose history or task list is another one.
LEMMA RecordUpdates ==
  ASSUME NEW x \in Record
  PROVE  /\ \A h \in Seq(Message) : LET y == [x EXCEPT !.history = h] IN
              y \in Record /\ y.history = h /\ y.tasks = x.tasks
         /\ \A n \in Nat : LET y == [x EXCEPT !.tasks = n] IN
              y \in Record /\ y.history = x.history /\ y.tasks = n
         /\ x.history \in Seq(Message) /\ x.tasks \in Nat
  BY DEF Record

\* The record is read, without the lock.
LEMMA ReadRecordStep ==
  ASSUME IInv, NEW t \in Thread, ReadRecord(t)
  PROVE  IInv'
<1>1. PICK s \in Session : s = th[t].s
  BY DEF IInv, Roles, ReadRecord
<1>2. PICK now \in Record : now = Read(s)
  BY Types DEF IInv
<1>a. PICK ok \in Outcome(s) :
        /\ \/ th[t].op = "append"
              /\ Update(t, "lock", [Got(s, ok) EXCEPT !.history = Append(@, th[t].msg)])
           \/ th[t].op = "tasks"
              /\ Update(t, "lock", [Got(s, ok) EXCEPT !.tasks = th[t].msg])
           \/ th[t].op = "current"
              /\ Update(t, "load",
                    [NoRecord EXCEPT !.history =
                        IF ok /\ Readable(s) THEN Read(s).history
                        ELSE IF t = Guard THEN clone.mem ELSE app.mem])
        /\ UNCHANGED <<file, latest, undo, former, lock, app, clone, list, used, sent, faults,
                       crashes, guards, switches, acked>>
        /\ Observe(Missed(s, ok))
  BY <1>1 DEF ReadRecord, stored
<1>b. PICK got \in Record : got = Got(s, ok)
  BY Reading DEF IInv
<1>c. Observed /\ (Steady(s)' => ok /\ got = now)
  BY <1>2, <1>a, <1>b, Reading DEF IInv
<1>3. /\ th[t].pc = "read" /\ th[t] \in ThreadState
      /\ clone.mem \in Seq(Message) /\ app.mem \in Seq(Message)
  BY Types DEF ReadRecord, IInv
<1>4. PICK rec \in Record, pc \in PcType :
        /\ th' = [th EXCEPT ![t].pc = pc, ![t].rec = rec]
        /\ \/ /\ th[t].op \in {"append", "tasks"} /\ pc = "lock" /\ rec = Written(t, got)
           \/ /\ th[t].op = "current" /\ pc = "load" /\ (ok => rec.history = now.history)
  <2>1. CASE th[t].op = "append"
    <3>1. th[t].msg \in Message /\ got.history \in Seq(Message)
      BY <2>1 DEF IInv, Roles, Record
    <3>2. Written(t, got) \in Record
      <4>1. Append(got.history, th[t].msg) \in Seq(Message)
        BY <3>1
      <4> QED BY <2>1, <4>1 DEF Written, Record
    <3>3. th' = [th EXCEPT ![t].pc = "lock", ![t].rec = Written(t, got)]
      BY <1>a, <1>b, <2>1 DEF Update, Written
    <3> QED BY <2>1, <3>2, <3>3 DEF PcType
  <2>2. CASE th[t].op = "tasks"
    <3>1. th[t].msg \in Nat
      BY <1>3 DEF ThreadState
    <3>2. Written(t, got) \in Record
      BY <2>2, <3>1 DEF Written, Record
    <3>3. th' = [th EXCEPT ![t].pc = "lock", ![t].rec = Written(t, got)]
      BY <1>a, <1>b, <2>2 DEF Update, Written
    <3> QED BY <2>2, <3>2, <3>3 DEF PcType
  <2>3. CASE th[t].op = "current"
    <3> DEFINE h == IF ok /\ Readable(s) THEN now.history
                    ELSE IF t = Guard THEN clone.mem ELSE app.mem
               rec == [NoRecord EXCEPT !.history = h]
    <3>1. ok => h = now.history
      <4>1. CASE Readable(s)
        BY <4>1
      <4>2. CASE ~Readable(s)
        <5>1. now.history = << >>
          BY <1>2, <4>2, RecordTypes DEF Read, Parsed, Readable
        <5>2. t = Guard => s = clone.session
          BY <1>1, <2>3 DEF IInv, Roles
        <5>3. t # Guard => s = app.session
          BY <1>1, <1>3, <2>3 DEF IInv, Roles
        <5>4. t = Guard => clone.mem = << >>
          BY <4>2, <5>2 DEF IInv, Durability, Relied, Durable
        <5>5. t # Guard => app.mem = << >>
          BY <4>2, <5>3 DEF IInv, Durability, Relied, Durable
        <5> QED BY <4>2, <5>1, <5>4, <5>5
      <4> QED BY <4>1, <4>2
    <3>2. th' = [th EXCEPT ![t].pc = "load", ![t].rec = rec]
      BY <1>2, <1>a, <2>3 DEF Update
    <3>4. h \in Seq(Message)
      BY <1>3 DEF Record
    <3> HIDE DEF h
    <3>3. rec \in Record /\ (ok => rec.history = now.history)
      BY <3>1, <3>4, RecordTypes, RecordUpdates
    <3> QED BY <2>3, <3>2, <3>3 DEF PcType
  <2> QED BY <1>a, <2>1, <2>2, <2>3
<1>5. PICK r \in ThreadState :
        /\ th' = [th EXCEPT ![t] = r]
        /\ r.pc = pc /\ r.rec = rec
        /\ r.op = th[t].op /\ r.s = s /\ r.msg = th[t].msg /\ r.goal = th[t].goal
  <2> DEFINE x == th[t]
             r == [x EXCEPT !.pc = pc, !.rec = rec]
  <2>1. /\ r \in ThreadState /\ r.pc = pc /\ r.rec = rec
        /\ r.op = x.op /\ r.s = x.s /\ r.msg = x.msg /\ r.goal = x.goal
    <3>1. x \in ThreadState
      BY <1>3
    <3> HIDE DEF x
    <3> QED BY <3>1 DEF ThreadState
  <2>2. th' = [th EXCEPT ![t] = r]
    BY <1>4
  <2> QED BY <1>1, <2>1, <2>2
<1>6. pc \in {"lock", "load"}
  BY <1>4
<1>7. /\ TypeOK'
      /\ th' \in [Thread -> ThreadState] /\ th'[t] = r
      /\ \A u \in Thread \ {t} : th'[u] = th[u]
      /\ Read(s)' = Read(s) /\ Read(s) \in Record
      /\ Steady(s)' => /\ Kept(s) /\ Alone(t) /\ SoundFor(s, Read(s).history)
                       /\ \A m : Before(Read(s).history, m, redone[s])
                                   => Before(Read(s).history, m, redone'[s])
      /\ (Steady(s)' => Alone(t)') => Histories'
  <2>1. lock' \in [Session -> Thread \cup {Nobody}] /\ undo' \in {undo, NoUndo} /\ former' \in {former, {}}
    BY <1>a DEF IInv, TypeOK
  <2> QED BY <1>1, <1>3, <1>a, <1>c, <1>5, <1>6, <2>1, Continues
<1>8. Roles'
  BY <1>3, <1>a, <1>4, <1>5, <1>7 DEF IInv, Roles, Up
<1>9. Synced' /\ Durability'
  BY <1>3, <1>a, <1>5, <1>6, <1>7 DEF IInv, Synced, Durability, Relied, Durable, Readable, Up
<1>10. ASSUME Steady(s)' PROVE Alone(t)'
  <2>1. BeforeOwn(t, now.history)'
    BY <1>1, <1>2, <1>3, <1>5, <1>7, <1>10 DEF Alone, BeforeOwn
  <2>2. Written(t, now)' = Written(t, now)
    BY <1>5, <1>7 DEF Written
  <2> QED BY <1>2, <1>c, <1>4, <1>5, <1>7, <1>10, <2>1, <2>2 DEF Alone, BeforeOwn, Written
<1> QED BY <1>7, <1>8, <1>9, <1>10 DEF IInv

\* The full record is completed with the stored task list.
LEMMA LoadRestStep ==
  ASSUME IInv, NEW t \in Thread, LoadRest(t)
  PROVE  IInv'
<1>1. PICK s \in Session : s = th[t].s
  BY DEF IInv, Roles, LoadRest
<1>2. PICK now \in Record : now = Read(s)
  BY Types DEF IInv
<1>3. PICK x \in ThreadState : x = th[t]
  BY Types DEF IInv
<1>a. PICK ok \in Outcome(s) :
        /\ Update(t, "lock", [th[t].rec EXCEPT !.tasks = Got(s, ok).tasks])
        /\ UNCHANGED <<file, latest, undo, former, lock, app, clone, list, used, sent, faults,
                       crashes, guards, switches, acked>>
        /\ Observe(Missed(s, ok))
  BY <1>1 DEF LoadRest, stored
<1>b. PICK got \in Record : got = Got(s, ok)
  BY Reading DEF IInv
<1>c. Observed /\ (Steady(s)' => got = now)
  BY <1>2, <1>a, <1>b, Reading DEF IInv
<1>4. x.pc = "load" /\ x.op \in {"start", "current", "resolved"} /\ x.s = s
  BY <1>1, <1>3 DEF LoadRest, IInv, Roles
<1>5. PICK rec \in Record :
        /\ th' = [th EXCEPT ![t].pc = "lock", ![t].rec = rec]
        /\ rec.history = x.rec.history /\ rec.tasks = got.tasks
  <2> DEFINE old == x.rec
             rec == [old EXCEPT !.tasks = got.tasks]
  <2>1. old \in Record /\ got.tasks \in Nat
    BY DEF ThreadState, Record
  <2>3. rec \in Record /\ rec.history = old.history /\ rec.tasks = got.tasks
    BY <2>1 DEF Record
  <2>2. th' = [th EXCEPT ![t].pc = "lock", ![t].rec = [x.rec EXCEPT !.tasks = got.tasks]]
    BY <1>3, <1>a, <1>b DEF Update
  <2> QED BY <2>2, <2>3
<1>6. PICK r \in ThreadState :
        /\ th' = [th EXCEPT ![t] = r] /\ r.pc = "lock" /\ r.rec = rec
        /\ r.op = x.op /\ r.s = s /\ r.msg = x.msg /\ r.goal = x.goal
  <2> DEFINE r == [x EXCEPT !.pc = "lock", !.rec = rec]
  <2>1. /\ r \in ThreadState /\ r.pc = "lock" /\ r.rec = rec
        /\ r.op = x.op /\ r.s = x.s /\ r.msg = x.msg /\ r.goal = x.goal
    BY DEF ThreadState, PcType
  <2>2. th' = [th EXCEPT ![t] = r]
    BY <1>3, <1>5
  <2> QED BY <1>4, <2>1, <2>2
<1>7. /\ TypeOK'
      /\ th' \in [Thread -> ThreadState] /\ th'[t] = r
      /\ \A u \in Thread \ {t} : th'[u] = th[u]
      /\ Read(s)' = Read(s) /\ Read(s) \in Record
      /\ Steady(s)' => /\ Kept(s) /\ Alone(t) /\ SoundFor(s, Read(s).history)
                      /\ \A m : Before(Read(s).history, m, redone[s])
                                  => Before(Read(s).history, m, redone'[s])
      /\ (Steady(s)' => Alone(t)') => Histories'
  <2>1. lock' \in [Session -> Thread \cup {Nobody}] /\ undo' \in {undo, NoUndo} /\ former' \in {former, {}}
    BY <1>a DEF IInv, TypeOK
  <2>2. /\ th[t].pc \notin {"idle", "snapshot"} /\ th[t].s = s /\ r.pc # "idle"
        /\ r.op = th[t].op /\ r.msg = th[t].msg
    BY <1>3, <1>4, <1>6
  <2> QED BY <1>4, <1>a, <1>c, <1>6, <2>1, <2>2, Continues
<1>8. Roles'
  BY <1>3, <1>a, <1>4, <1>6, <1>7 DEF IInv, Roles, Up
<1>9. Synced' /\ Durability'
  BY <1>3, <1>a, <1>4, <1>6, <1>7 DEF IInv, Synced, Durability, Relied, Durable, Readable, Up
<1>10. ASSUME Steady(s)' PROVE Alone(t)'
  <2>1. rec.history = now.history
    BY <1>1, <1>2, <1>3, <1>4, <1>5, <1>7, <1>10 DEF Alone
  <2>2. rec = now
    BY <1>c, <1>5, <1>10, <2>1, RecordTypes
  <2> QED BY <1>2, <1>4, <1>6, <1>7, <2>2 DEF Alone, BeforeOwn, Written
<1> QED BY <1>7, <1>8, <1>9, <1>10 DEF IInv

\* The lock is taken and the temporary file written.
LEMMA LockFileStep ==
  ASSUME IInv, NEW t \in Thread, LockFile(t)
  PROVE  IInv'
<1>1. PICK s \in Session : s = th[t].s
  BY DEF IInv, Roles, LockFile
<1>2. PICK x \in ThreadState : x = th[t]
  BY Types DEF IInv
<1>3. /\ Observed /\ x.pc = "lock" /\ x.s = s /\ lock[s] = Nobody
      /\ lock' = [lock EXCEPT ![s] = t]
      /\ UNCHANGED <<file, latest, undo, former, app, clone, list, used, sent, faults, crashes, guards,
                     switches, acked>>
  BY <1>1, <1>2 DEF LockFile, Observed
<1>4. PICK r \in ThreadState :
        /\ th' = [th EXCEPT ![t] = r] /\ r.pc = "temp" /\ r.synced /\ r.rec = x.rec
        /\ r.op = x.op /\ r.s = s /\ r.msg = x.msg /\ r.goal = x.goal
  <2> DEFINE r == [x EXCEPT !.pc = "temp", !.synced = TRUE]
  <2>1. /\ r \in ThreadState /\ r.pc = "temp" /\ r.synced /\ r.rec = x.rec
        /\ r.op = x.op /\ r.s = x.s /\ r.msg = x.msg /\ r.goal = x.goal
    BY DEF ThreadState, PcType
  <2>2. th' = [th EXCEPT ![t] = r]
    BY <1>2 DEF LockFile
  <2> QED BY <1>3, <2>1, <2>2
<1>5. lock \in [Session -> Thread \cup {Nobody}] /\ lock' \in [Session -> Thread \cup {Nobody}]
  BY <1>3 DEF IInv, TypeOK
<1>6. /\ TypeOK'
      /\ th' \in [Thread -> ThreadState] /\ th'[t] = r
      /\ \A u \in Thread \ {t} : th'[u] = th[u]
      /\ Read(s)' = Read(s) /\ Read(s) \in Record
      /\ Steady(s)' => /\ Kept(s) /\ Alone(t) /\ SoundFor(s, Read(s).history)
                      /\ \A m : Before(Read(s).history, m, redone[s])
                                  => Before(Read(s).history, m, redone'[s])
      /\ (Steady(s)' => Alone(t)') => Histories'
  <2>1. /\ th[t].pc \notin {"idle", "snapshot"} /\ th[t].s = s /\ r.pc # "idle"
        /\ r.op = th[t].op /\ r.msg = th[t].msg
    BY <1>2, <1>3, <1>4
  <2> QED BY <1>3, <1>4, <1>5, <2>1, Continues
<1>7. Roles'
  BY <1>2, <1>3, <1>4, <1>6 DEF IInv, Roles, Up
<1>8. Synced'
  BY <1>4, <1>6 DEF IInv, Synced
<1>9. Durability'
  BY <1>2, <1>3, <1>4, <1>6 DEF IInv, Durability, Relied, Durable, Readable, Up
<1>10. ASSUME Steady(s)' PROVE Alone(t)'
  <2>1. /\ th'[t].pc = r.pc /\ th'[t].op = r.op /\ th'[t].s = s /\ th'[t].msg = r.msg
        /\ th'[t].rec = r.rec /\ Read(th[t].s)' = Read(s)
    BY <1>3, <1>4, <1>6
  <2>2. Alone(t) /\ th[t].s = s
    BY <1>1, <1>6, <1>10
  <2>3. th'[t].pc \in {"read", "lock", "temp"} => BeforeOwn(t, Read(th[t].s).history)'
    BY <1>2, <1>3, <1>4, <1>6, <1>10, <2>1, <2>2 DEF Alone, BeforeOwn
  <2> QED BY <1>1, <1>2, <1>3, <1>4, <1>6, <2>1, <2>2, <2>3, ZenonT(30) DEF Alone, Written
<1> QED BY <1>6, <1>7, <1>8, <1>9, <1>10 DEF IInv

\* The directory is synced and the lock released.
LEMMA SyncDirectoryStep ==
  ASSUME IInv, NEW t \in Thread, SyncDirectory(t)
  PROVE  IInv'
<1>1. PICK s \in Session : s = th[t].s
  BY DEF IInv, Roles, SyncDirectory
<1>2. PICK x \in ThreadState : x = th[t]
  BY Types DEF IInv
<1>3. /\ Observed /\ x.pc = "renamed" /\ x.s = s
      /\ lock' = [lock EXCEPT ![s] = Nobody]
      /\ undo' = NoUndo /\ former' = {}
      /\ UNCHANGED <<file, latest, app, clone, list, used, sent, faults, crashes, guards,
                     switches, acked>>
  BY <1>1, <1>2 DEF SyncDirectory, Observed
<1>4. PICK r \in ThreadState :
        /\ th' = [th EXCEPT ![t] = r] /\ r.pc = "latest" /\ r.rec = x.rec
        /\ r.op = x.op /\ r.s = s /\ r.msg = x.msg /\ r.goal = x.goal
  <2> DEFINE r == [x EXCEPT !.pc = "latest"]
  <2>1. /\ r \in ThreadState /\ r.pc = "latest" /\ r.rec = x.rec
        /\ r.op = x.op /\ r.s = x.s /\ r.msg = x.msg /\ r.goal = x.goal
    BY DEF ThreadState, PcType
  <2>2. th' = [th EXCEPT ![t] = r]
    BY <1>2 DEF SyncDirectory, Goto
  <2> QED BY <1>3, <2>1, <2>2
<1>5. lock \in [Session -> Thread \cup {Nobody}] /\ lock' \in [Session -> Thread \cup {Nobody}]
  BY <1>3 DEF IInv, TypeOK
<1>6. /\ TypeOK'
      /\ th' \in [Thread -> ThreadState] /\ th'[t] = r
      /\ \A u \in Thread \ {t} : th'[u] = th[u]
      /\ Read(s)' = Read(s) /\ Read(s) \in Record
      /\ Steady(s)' => /\ Kept(s) /\ Alone(t) /\ SoundFor(s, Read(s).history)
                      /\ \A m : Before(Read(s).history, m, redone[s])
                                  => Before(Read(s).history, m, redone'[s])
      /\ (Steady(s)' => Alone(t)') => Histories'
  <2>1. /\ th[t].pc \notin {"idle", "snapshot"} /\ th[t].s = s /\ r.pc # "idle"
        /\ r.op = th[t].op /\ r.msg = th[t].msg
    BY <1>2, <1>3, <1>4
  <2> QED BY <1>3, <1>4, <1>5, <2>1, Continues
<1>7. Roles'
  BY <1>2, <1>3, <1>4, <1>6 DEF IInv, Roles, Up
<1>9. Synced'
  BY <1>4, <1>6 DEF IInv, Synced
<1>10. Durability'
  <2>1. \A y \in Session : Readable(y) => Readable(y)' /\ Durable(y)'
    BY <1>3 DEF Durable, Readable, NoUndo
  <2>2. ASSUME NEW y \in Session PROVE Relied(y)' => Readable(y)
    <3>1. Relied(y)' => Relied(y) \/ y = s
      BY <1>3, <1>4, <1>6 DEF Relied
    <3>2. Readable(s)
      BY <1>1, <1>2, <1>3 DEF IInv, Durability
    <3> QED BY <3>1, <3>2 DEF IInv, Durability, Durable
  <2>3. ASSUME NEW u \in Thread, NEW y \in Session, th'[u].pc = "renamed", th'[u].s = y
        PROVE  Readable(y)
    <3>1. u # t /\ th'[u] = th[u]
      BY <1>4, <1>6, <2>3
    <3> QED BY <2>3, <3>1 DEF IInv, Durability
  <2> QED BY <1>3, <2>1, <2>2, <2>3 DEF Durability
<1>11. ASSUME Steady(s)' PROVE Alone(t)'
  BY <1>1, <1>2, <1>3, <1>4, <1>6, <1>11 DEF Alone, BeforeOwn, Written
<1> QED BY <1>6, <1>7, <1>9, <1>10, <1>11 DEF IInv

\* The temporary file takes the place of the session's file.
LEMMA RenameTempStep ==
  ASSUME IInv, NEW t \in Thread, RenameTemp(t)
  PROVE  IInv'
<1>1. PICK s \in Session : s = th[t].s
  BY DEF IInv, Roles, RenameTemp
<1>2. PICK x \in ThreadState : x = th[t]
  BY Types DEF IInv
<1>3. PICK now \in Record, rec \in Record : now = Read(s) /\ rec = x.rec
  BY Types DEF IInv, ThreadState
<1>4. /\ Observed /\ x.pc = "temp" /\ x.s = s /\ x.synced
      /\ file' = [file EXCEPT ![s] = [record |-> rec, state |-> "whole"]]
      /\ undo' = [undo EXCEPT ![s] = @ \cup {file[s]}]
      /\ UNCHANGED <<latest, former, lock, app, clone, list, used, sent, faults, crashes, guards,
                     switches, acked>>
  <2>1. x.synced /\ x.pc = "temp" /\ x.s = s
    BY <1>1, <1>2 DEF RenameTemp, IInv, Synced
  <2> QED BY <1>1, <1>2, <1>3, <2>1 DEF RenameTemp, Observed
<1>5. PICK r \in ThreadState :
        /\ th' = [th EXCEPT ![t] = r] /\ r.pc = "renamed" /\ r.rec = rec
        /\ r.op = x.op /\ r.s = s /\ r.msg = x.msg /\ r.goal = x.goal
  <2> DEFINE r == [x EXCEPT !.pc = "renamed"]
  <2>1. /\ r \in ThreadState /\ r.pc = "renamed" /\ r.rec = x.rec
        /\ r.op = x.op /\ r.s = x.s /\ r.msg = x.msg /\ r.goal = x.goal
    BY DEF ThreadState, PcType
  <2>2. th' = [th EXCEPT ![t] = r]
    BY <1>2 DEF RenameTemp, Goto
  <2> QED BY <1>3, <1>4, <2>1, <2>2
<1>6. TypeOK /\ sent \in Nat
  BY Types DEF IInv
<1>7. /\ file'[s] = [record |-> rec, state |-> "whole"] /\ undo'[s] = undo[s] \cup {file[s]}
      /\ \A y \in Session \ {s} : file'[y] = file[y] /\ undo'[y] = undo[y]
      /\ Readable(s)' /\ Read(s)' = rec
  BY <1>4, <1>6 DEF TypeOK, Read, Parsed, Readable
<1>8. /\ \A y \in Session : Steady(y)' /\ y # s => Kept(y)'
      /\ Steady(s)' => /\ Kept(s) /\ Alone(t) /\ Busy(s) = {t} /\ Busy(s)' = {t}
                       /\ SoundFor(s, now.history)
                       /\ Read(s)'.tasks = list'[s] \/ (unsaved[s] => unsaved'[s])
      /\ th' \in [Thread -> ThreadState] /\ th'[t] = r
      /\ \A u \in Thread \ {t} : th'[u] = th[u]
      /\ Ghosts'
  <2>1. /\ th[t].pc # "idle" /\ th[t].s = s /\ sent' = sent
        /\ acked' = acked /\ list' = list /\ app' = app
    BY <1>2, <1>4
  <2>2. WorksOn(t, r, s)
    <3>1. Observed /\ th' = [th EXCEPT ![t] = r] /\ r.s = s
      BY <1>4, <1>5
    <3> QED BY <2>1, <3>1, Works
  <2> QED BY <1>3, <1>5, <1>7, <2>1, <2>2 DEF WorksOn
<1>9. TypeOK'
  <2>1. file' \in [Session -> Content] /\ undo' \in [Session -> SUBSET Content]
    <3>1. [record |-> rec, state |-> "whole"] \in Content
      BY DEF Content
    <3>2. file[s] \in Content /\ undo[s] \in SUBSET Content
      BY <1>6 DEF TypeOK
    <3> QED BY <1>4, <1>6, <3>1, <3>2 DEF TypeOK
  <2>2. {faults, misreads, crashes, guards, switches}' \subseteq Nat
    BY <1>4, <1>6, <1>8 DEF TypeOK, Ghosts
  <2>3. {alone, redone, misread, unsaved}' \subseteq [Session -> BOOLEAN]
    BY <1>8 DEF Ghosts
  <2> QED BY <1>4, <1>6, <1>8, <2>1, <2>2, <2>3 DEF TypeOK, ThreadState
<1>10. Roles'
  BY <1>2, <1>4, <1>5, <1>8 DEF IInv, Roles, Up
<1>11. Synced'
  BY <1>5, <1>8 DEF IInv, Synced
<1>12. Durability'
  <2>1. ASSUME NEW y \in Session
        PROVE  (Readable(y) => Readable(y)') /\ (Durable(y) => Durable(y)')
    <3>1. CASE y = s
      BY <1>7, <3>1 DEF Durable, Readable
    <3>2. CASE y # s
      BY <1>7, <3>2 DEF Durable, Readable
    <3> QED BY <3>1, <3>2
  <2>2. ASSUME NEW y \in Session PROVE Relied(y)' => Relied(y)
    BY <1>4, <1>5, <1>8 DEF Relied
  <2>3. ASSUME NEW y \in Session, NEW u \in Thread, th'[u].pc = "renamed", th'[u].s = y
        PROVE  Readable(y)'
    <3>1. CASE u = t
      BY <1>5, <1>7, <1>8, <2>3, <3>1
    <3>2. CASE u # t
      <4>1. th[u].pc = "renamed" /\ th[u].s = y
        BY <1>8, <2>3, <3>2
      <4> QED BY <2>1, <4>1 DEF IInv, Durability
    <3> QED BY <3>1, <3>2
  <2>4. Up'
    BY <1>2, <1>4 DEF IInv, Roles, Up
  <2> QED BY <2>1, <2>2, <2>3, <2>4 DEF IInv, Durability
<1>13. ASSUME Steady(s)' PROVE Kept(s)'
  <2>1. SoundFor(s, now.history) /\ now.history \in Seq(Message) /\ rec = Written(t, now)
    BY <1>1, <1>2, <1>3, <1>4, <1>8, <1>13 DEF Alone, Record
  <2>2. /\ Sound(now.history, acked'[s], redone'[s], sent')
        /\ \A m : Before(now.history, m, redone[s]) => Before(now.history, m, redone'[s])
    BY <1>4, <1>6, <2>1, StaysSound
  <2>3. ASSUME x.op = "append"
        PROVE  /\ x.msg \in Message /\ x.msg <= sent' /\ Before(now.history, x.msg, redone'[s])
               /\ rec.history = Append(now.history, x.msg) /\ rec.tasks = now.tasks
    <3>1. x.msg \in Message /\ x.msg = sent' /\ sent \in Nat
      BY <1>2, <1>4, <1>6, <2>3 DEF IInv, Roles
    <3>2. Before(now.history, x.msg, redone'[s])
      BY <1>1, <1>2, <1>3, <1>4, <1>8, <1>13, <2>2, <2>3 DEF Alone, BeforeOwn
    <3>3. rec.history = Append(now.history, x.msg) /\ rec.tasks = now.tasks
      BY <1>2, <2>1, <2>3 DEF Written, Record
    <3> QED BY <1>4, <3>1, <3>2, <3>3
  <2>4. x.op = "tasks" => rec.history = now.history /\ rec.tasks = x.msg
    BY <1>2, <2>1 DEF Written, Record
  <2>5. x.op \notin {"append", "tasks"} => rec = now
    BY <1>2, <2>1 DEF Written
  <2>6. /\ Sound(rec.history, acked'[s], redone'[s], sent')
        /\ x.op = "append" => x.msg \in ToSet(rec.history)
    <3>1. CASE x.op = "append"
      <4>1. redone'[s] \in BOOLEAN /\ sent' \in Nat
        BY <1>4, <1>6, <1>8 DEF Ghosts
      <4> QED BY <2>1, <2>2, <2>3, <3>1, <4>1, SoundAppend
    <3> QED BY <2>2, <2>4, <2>5, <3>1
  <2>7. ASSUME NEW c \in undo'[s]
        PROVE  /\ Sound(Parsed(c).history, acked'[s], redone'[s], sent')
               /\ IsPrefix(Parsed(c).history, rec.history)
    <3>1. /\ Parsed(c).history \in Seq(Message) /\ SoundFor(s, Parsed(c).history)
          /\ IsPrefix(Parsed(c).history, now.history)
      <4>1. CASE c \in undo[s]
        BY <1>3, <1>6, <1>8, <1>13, <4>1, Types DEF Kept, Undoing, Record
      <4>2. CASE c = file[s]
        <5>1. Parsed(c) = now
          BY <1>3, <4>2 DEF Read
        <5> QED BY <2>1, <5>1, Beginnings
      <4> QED BY <1>7, <2>7, <4>1, <4>2
    <3>2. Sound(Parsed(c).history, acked'[s], redone'[s], sent')
      BY <1>4, <1>6, <3>1, StaysSound
    <3>3. CASE x.op = "append"
      BY <2>1, <2>3, <3>1, <3>2, <3>3, Beginnings
    <3>4. CASE x.op # "append"
      BY <2>4, <2>5, <3>1, <3>2, <3>4
    <3> QED BY <3>3, <3>4
  <2>8. Undoing(s)'
    BY <1>7, <2>7 DEF Undoing, SoundFor
  <2>9. Alone(t)'
    BY <1>5, <1>7, <1>8, <2>4, <2>6 DEF Alone
  <2>10. Lists(s)'
    <3>1. Lists(s) /\ (x.op = "tasks" \/ rec.tasks = now.tasks)
      BY <1>8, <1>13, <2>3, <2>5 DEF Kept
    <3> QED BY <1>2, <1>3, <1>4, <1>5, <1>7, <1>8, <1>13, <2>4, <3>1 DEF Lists
  <2>11. SoundFor(s, Read(s).history)'
    BY <1>7, <2>6 DEF SoundFor
  <2> QED BY <1>8, <1>13, <2>8, <2>9, <2>10, <2>11 DEF Kept
<1>14. Histories'
  BY <1>8, <1>13 DEF Histories
<1> QED BY <1>9, <1>10, <1>11, <1>12, <1>14 DEF IInv

\* A write fails, and the call is tried again or given up.
LEMMA WriteFailsStep ==
  ASSUME IInv, NEW t \in Thread, WriteFails(t)
  PROVE  IInv'
<1>1. PICK s \in Session : s = th[t].s
  BY DEF IInv, Roles, WriteFails
<1>2. PICK x \in ThreadState : x = th[t]
  BY Types DEF IInv
<1>3. PICK now \in Record : now = Read(s)
  BY Types DEF IInv
<1>4. /\ Observed /\ x.pc \in {"temp", "renamed", "latest"} /\ x.s = s
      /\ lock' = IF x.pc = "latest" THEN lock ELSE [lock EXCEPT ![s] = Nobody]
      /\ \/ UNCHANGED <<latest, former>>
         \/ x.pc = "latest" /\ latest' = s /\ former' = former \cup {latest}
      /\ faults' = faults + 1
      /\ UNCHANGED <<file, undo, app, clone, list, used, sent, crashes, guards, switches, acked>>
  BY <1>1, <1>2 DEF WriteFails, Observed
<1>5. PICK r \in ThreadState :
        /\ th' = [th EXCEPT ![t] = r]
        /\ \/ r = Idle /\ x.op # "start"
           \/ /\ x.op \notin {"tasks", "start"}
              /\ r.pc = (IF x.op = "append" THEN "read" ELSE "lock")
              /\ r.rec = x.rec /\ r.op = x.op /\ r.s = s /\ r.msg = x.msg /\ r.goal = x.goal
           \/ /\ x.op = "start" /\ r.pc = "bind"
              /\ r.op = x.op /\ r.s = s /\ r.msg = x.msg /\ r.goal = x.goal
  <2>1. ASSUME th[t].op \notin {"tasks", "start"}, th[t].tries < MaxAttempts,
               th' = [th EXCEPT ![t].pc = FirstPhase(t), ![t].tries = @ + 1]
        PROVE  \E r \in ThreadState :
                 /\ th' = [th EXCEPT ![t] = r]
                 /\ r.pc = (IF x.op = "append" THEN "read" ELSE "lock")
                 /\ r.rec = x.rec /\ r.op = x.op /\ r.s = s /\ r.msg = x.msg /\ r.goal = x.goal
    <3> DEFINE pc == FirstPhase(t)
               n == x.tries + 1
               r == [x EXCEPT !.pc = pc, !.tries = n]
    <3>1. pc \in PcType /\ n \in 1 .. MaxAttempts
      BY <1>2, <2>1, Threads DEF ThreadState, PcType, FirstPhase
    <3>2. pc = IF x.op = "append" THEN "read" ELSE "lock"
      BY <1>2 DEF FirstPhase
    <3>3. th' = [th EXCEPT ![t] = r]
      BY <1>2, <2>1
    <3> HIDE DEF pc, n
    <3>4. /\ r \in ThreadState /\ r.pc = pc /\ r.rec = x.rec
          /\ r.op = x.op /\ r.s = x.s /\ r.msg = x.msg /\ r.goal = x.goal
      BY <3>1 DEF ThreadState
    <3> QED BY <1>4, <3>2, <3>3, <3>4
  <2>2. ASSUME th[t].op = "start", Goto(t, "bind")
        PROVE  \E r \in ThreadState :
                 /\ th' = [th EXCEPT ![t] = r] /\ r.pc = "bind"
                 /\ r.op = x.op /\ r.s = s /\ r.msg = x.msg /\ r.goal = x.goal
    <3> DEFINE r == [x EXCEPT !.pc = "bind"]
    <3>1. /\ r \in ThreadState /\ r.pc = "bind"
          /\ r.op = x.op /\ r.s = x.s /\ r.msg = x.msg /\ r.goal = x.goal
      BY DEF ThreadState, PcType
    <3>2. th' = [th EXCEPT ![t] = r]
      BY <1>2, <2>2 DEF Goto
    <3> QED BY <1>4, <3>1, <3>2
  <2>3. ASSUME th[t].op # "start", th' = [th EXCEPT ![t] = Idle]
        PROVE  \E r \in ThreadState : th' = [th EXCEPT ![t] = r] /\ r = Idle
    BY <2>3, RecordTypes
  <2>4. \/ /\ th[t].op \notin {"tasks", "start"} /\ th[t].tries < MaxAttempts
           /\ th' = [th EXCEPT ![t].pc = FirstPhase(t), ![t].tries = @ + 1]
        \/ th[t].op # "start" /\ th' = [th EXCEPT ![t] = Idle]
        \/ th[t].op = "start" /\ Goto(t, "bind")
    BY DEF WriteFails
  <2> QED BY <1>2, <2>1, <2>2, <2>3, <2>4
<1>6. TypeOK /\ faults \in Nat /\ faults' \in Nat /\ faults' > faults /\ Read(s)' = now
      /\ now.history \in Seq(Message) /\ sent \in Nat
  BY <1>3, <1>4, Types DEF IInv, Read, Record
<1>7. r.pc \in {"idle", "read", "lock", "bind"} /\ (r.pc = "idle" <=> r = Idle)
      /\ (r.pc # "idle" => r.s = s /\ r.op = x.op /\ r.msg = x.msg /\ r.goal = x.goal)
  BY <1>5, RecordTypes
<1>8. /\ \A y \in Session : Steady(y)' /\ y # s => Kept(y)'
      /\ Steady(s)' => /\ Kept(s) /\ Alone(t) /\ Busy(s) = {t}
                       /\ Busy(s)' = IF r.pc # "idle" THEN {t} ELSE {}
                       /\ SoundFor(s, now.history) /\ Undoing(s)'
                       /\ now.tasks = list[s] \/ (unsaved[s] => unsaved'[s])
      /\ th' \in [Thread -> ThreadState] /\ th'[t] = r
      /\ \A u \in Thread \ {t} : th'[u] = th[u]
      /\ Ghosts'
  <2>1. /\ th[t].pc # "idle" /\ th[t].s = s /\ sent' = sent
        /\ acked' = acked /\ list' = list /\ app' = app /\ file' = file /\ undo' = undo
    BY <1>2, <1>4
  <2>2. WorksOn(t, r, s)
    BY <1>4, <1>5, <2>1, Works
  <2> QED BY <1>3, <1>6, <1>7, <2>1, <2>2 DEF WorksOn
<1>9. TypeOK'
  <2>1. lock' \in [Session -> Thread \cup {Nobody}]
    BY <1>4, <1>6 DEF TypeOK
  <2>2. latest' \in Session \cup {NoSession} /\ former' \subseteq Session \cup {NoSession}
    BY <1>4, <1>6 DEF TypeOK
  <2>3. UNCHANGED <<file, undo, app, clone, list, used, sent, acked>>
    BY <1>4
  <2>4. {faults, misreads, crashes, guards, switches}' \subseteq Nat
    BY <1>4, <1>6, <1>8 DEF TypeOK, Ghosts
  <2>5. {alone, redone, misread, unsaved}' \subseteq [Session -> BOOLEAN]
    BY <1>8 DEF Ghosts
  <2>6. th' \in [Thread -> ThreadState]
    BY <1>8
  <2> QED BY <1>6, <2>1, <2>2, <2>3, <2>4, <2>5, <2>6 DEF TypeOK, ThreadState
<1>10. Roles'
  <2>1. CASE r = Idle
    BY <1>4, <1>8, <2>1, RecordTypes, Threads DEF IInv, Roles, Up
  <2>2. CASE r # Idle
    BY <1>2, <1>4, <1>5, <1>8, <2>2 DEF IInv, Roles, Up
  <2> QED BY <2>1, <2>2
<1>11. Synced'
  BY <1>7, <1>8 DEF IInv, Synced
<1>12. Durability'
  <2>1. ASSUME NEW y \in Session PROVE Readable(y)' = Readable(y) /\ Durable(y)' = Durable(y)
    BY <1>4 DEF Durable, Readable
  <2>2. ASSUME NEW y \in Session PROVE Relied(y)' => Relied(y)
    <3>1. x.pc = "latest" => Relied(s)
      BY <1>2, <1>4 DEF Relied
    <3>2. y = latest' \/ y \in former' => Relied(y)
      BY <1>4, <3>1 DEF Relied
    <3>3. \A u \in Thread : th'[u].pc = "latest" /\ th'[u].s = y => Relied(y)
      BY <1>7, <1>8 DEF Relied
    <3> QED BY <1>4, <3>2, <3>3 DEF Relied
  <2>3. ASSUME NEW y \in Session, NEW u \in Thread, th'[u].pc = "renamed", th'[u].s = y
        PROVE  Readable(y)
    <3>1. th'[u] = th[u]
      BY <1>7, <1>8, <2>3
    <3> QED BY <2>3, <3>1 DEF IInv, Durability
  <2> QED BY <1>4, <2>1, <2>2, <2>3 DEF IInv, Durability, Up
<1>13. ASSUME Steady(s)' PROVE Kept(s)'
  <2>1. /\ Sound(now.history, acked'[s], redone'[s], sent')
        /\ \A m : Before(now.history, m, redone[s]) => Before(now.history, m, redone'[s])
    BY <1>4, <1>6, <1>8, <1>13, StaysSound
  <2>2. ASSUME r.pc # "idle" PROVE Alone(t)'
    <3>1. x.op = "append" => BeforeOwn(t, now.history)'
      <4> SUFFICES ASSUME x.op = "append" PROVE Before(now.history, x.msg, redone'[s])
        BY <1>7, <1>8, <2>2 DEF BeforeOwn
      <4>1. CASE x.pc = "temp"
        BY <1>1, <1>2, <1>3, <1>4, <1>8, <1>13, <2>1, <4>1 DEF Alone, BeforeOwn
      <4>2. CASE x.pc # "temp"
        <5>1. redone'[s]
          <6>1. th'[t] # th[t] /\ faults' > faults
            BY <1>2, <1>4, <1>6, <1>7, <1>8
          <6> QED BY <1>2, <1>4, <4>2, <6>1 DEF Observed, Observe
        <5>2. x.msg = sent
          BY <1>2 DEF IInv, Roles
        <5>3. redone'[s] = TRUE
          BY <1>8, <5>1 DEF Ghosts
        <5> QED BY <1>4, <1>6, <2>1, <5>2, <5>3, BeforeNext
      <4> QED BY <4>1, <4>2
    <3>2. r.pc = "lock" => r.rec = Written(t, now)'
      BY <1>1, <1>2, <1>3, <1>4, <1>5, <1>8, <1>13, <2>2, RecordTypes DEF Alone, Written
    <3>3. Read(th[t].s)' = now
      BY <1>6, <1>7, <1>8, <2>2
    <3>4. BeforeOwn(t, now.history)'
      BY <1>7, <1>8, <2>2, <3>1 DEF BeforeOwn
    <3> QED BY <1>7, <1>8, <3>2, <3>3, <3>4 DEF Alone, BeforeOwn, Written
  <2>3. Lists(s)'
    <3>1. Lists(s) /\ Busy(s) = {t} /\ (now.tasks = list[s] \/ (unsaved[s] => unsaved'[s]))
      BY <1>8, <1>13 DEF Kept
    <3>2. CASE r = Idle
      <4>1. Busy(s)' = {}
        BY <1>7, <1>8, <1>13, <3>2
      <4>2. x.op = "tasks" => now.tasks = list[s] \/ unsaved'[s]
        <5>1. th'[t] # th[t]
          BY <1>2, <1>4, <1>7, <1>8, <3>2
        <5> QED BY <1>2, <1>4, <1>6, <5>1, Watched
      <4>3. x.op # "tasks" /\ app.session = s => now.tasks = list[s] \/ unsaved[s]
        BY <1>2, <1>3, <1>5, <1>7, <3>1, <3>2, RecordTypes DEF Lists
      <4> QED BY <1>4, <1>6, <3>1, <4>1, <4>2, <4>3 DEF Lists
    <3>3. CASE r # Idle
      <4>1. Busy(s)' = {t} /\ th'[t].op = th[t].op /\ th'[t].msg = th[t].msg /\ th[t].pc # "snapshot"
        BY <1>2, <1>4, <1>7, <1>8, <1>13, <3>3
      <4> QED BY <1>3, <1>4, <1>6, <3>1, <4>1 DEF Lists
    <3> QED BY <3>2, <3>3
  <2>4. SoundFor(s, Read(s).history)'
    BY <1>6, <2>1 DEF SoundFor
  <2> QED BY <1>8, <1>13, <2>2, <2>3, <2>4 DEF Kept
<1>14. Histories'
  BY <1>8, <1>13 DEF Histories
<1> QED BY <1>9, <1>10, <1>11, <1>12, <1>14 DEF IInv

\* The session is named the latest; the call is done, goes on to the session it
\* switches to, or to the start of the managers.
LEMMA PointLatestStep ==
  ASSUME IInv, NEW t \in Thread, PointLatest(t)
  PROVE  IInv'
<1>1. PICK s \in Session : s = th[t].s
  BY DEF IInv, Roles, PointLatest
<1>2. PICK x \in ThreadState : x = th[t]
  BY Types DEF IInv
<1>3. PICK now \in Record : now = Read(s)
  BY Types DEF IInv
<1>4. /\ Observed /\ x.pc = "latest" /\ x.s = s /\ latest' = s
      /\ undo' = NoUndo /\ former' = {}
      /\ UNCHANGED <<file, lock, clone, list, used, sent, faults, crashes, guards, switches>>
  BY <1>1, <1>2, SMTT(30) DEF PointLatest, Observed
<1>5. PICK r \in ThreadState :
        /\ th' = [th EXCEPT ![t] = r]
        /\ \/ /\ r = Idle /\ x.op = "append"
              /\ app' = [app EXCEPT !.mem = Append(@, x.msg)]
              /\ acked' = [acked EXCEPT ![s] = Append(@, x.msg)]
           \/ /\ r = Idle /\ UNCHANGED <<app, acked>>
              /\ x.op = "tasks" \/ x.op = "current"
           \/ /\ r.pc = "resolve" /\ r.op = "current" /\ x.op = "current" /\ r.s = r.goal
              /\ r.goal = x.goal /\ r.goal # NoSession
              /\ UNCHANGED <<app, acked>>
           \/ /\ r = Idle /\ x.op = "resolved"
              /\ app' = [session |-> s, mem |-> x.rec.history] /\ UNCHANGED acked
           \/ /\ r.pc = "bind" /\ r.op = "start" /\ x.op = "start" /\ r.s = s /\ r.goal = x.goal
              /\ UNCHANGED <<app, acked>>
  <2>1. CASE x.op = "append"
    BY <1>1, <1>2, <2>1, RecordTypes DEF PointLatest
  <2>2. CASE x.op = "tasks" \/ (x.op = "current" /\ x.goal = NoSession)
    BY <1>1, <1>2, <2>2, RecordTypes DEF PointLatest
  <2>3. CASE x.op = "current" /\ x.goal # NoSession
    <3> DEFINE g == x.goal
               r == [x EXCEPT !.pc = "resolve", !.s = g]
    <3>1. g \in Session \cup {NoSession}
      BY DEF ThreadState
    <3>2. r \in ThreadState /\ r.pc = "resolve" /\ r.op = x.op /\ r.s = g /\ r.goal = g
      BY <3>1 DEF ThreadState, PcType
    <3>3. th' = [th EXCEPT ![t] = r] /\ UNCHANGED <<app, acked>>
      BY <1>2, <2>3 DEF PointLatest
    <3> QED BY <2>3, <3>2, <3>3
  <2>4. CASE x.op = "resolved"
    BY <1>1, <1>2, <2>4, RecordTypes DEF PointLatest
  <2>5. CASE x.op = "start"
    <3> DEFINE r == [x EXCEPT !.pc = "bind"]
    <3>1. r \in ThreadState /\ r.pc = "bind" /\ r.op = x.op /\ r.s = x.s /\ r.goal = x.goal
      BY DEF ThreadState, PcType
    <3>2. th' = [th EXCEPT ![t] = r] /\ UNCHANGED <<app, acked>>
      BY <1>2, <2>5 DEF PointLatest, Goto
    <3> QED BY <1>4, <2>5, <3>1, <3>2
  <2> QED BY <1>2, <2>1, <2>2, <2>3, <2>4, <2>5 DEF PointLatest
<1>6. TypeOK /\ Read(s)' = now /\ now.history \in Seq(Message) /\ sent \in Nat
  BY <1>3, <1>4, Types DEF IInv, Read, Record
<1>7. /\ r.pc \in {"idle", "resolve", "bind"} /\ (r.pc = "idle" <=> r = Idle)
      /\ r.pc = "resolve" => x.op = "current" /\ r.op = "current" /\ r.s = x.goal /\ r.s \in Session
                             /\ t = Main /\ r.s # app.session /\ s = app.session
                             /\ UNCHANGED <<app, acked>>
      /\ r.pc = "bind" => x.op = "start" /\ r.op = "start" /\ r.s = s /\ r.goal = x.goal
                          /\ UNCHANGED <<app, acked>>
  <2>1. x.op = "current" /\ x.goal # NoSession => t = Main /\ x.goal # app.session /\ s = app.session
    BY <1>2, <1>4 DEF IInv, Roles
  <2>2. x.goal \in Session \cup {NoSession}
    BY DEF ThreadState
  <2> QED BY <1>5, <2>1, <2>2, RecordTypes
<1>8. /\ \A y \in Session \ {s} : acked'[y] = acked[y] /\ (app'.session = y => app.session = y)
      /\ acked' \in [Session -> Seq(Message)]
      /\ app' \in [session : Session \cup {NoSession}, mem : Seq(Message)]
      /\ app'.session \in Session /\ (x.op # "resolved" => app'.session = app.session)
  <2>0. app.session \in Session
    BY <1>2, <1>4, <1>6, Types DEF IInv, Roles, Up
  <2>1. CASE x.op = "append"
    <3>1. x.msg \in Message
      BY <1>2, <2>1 DEF IInv, Roles
    <3>3. app' = [app EXCEPT !.mem = Append(@, x.msg)] /\ acked' = [acked EXCEPT ![s] = Append(@, x.msg)]
      BY <1>5, <2>1
    <3>4. Append(app.mem, x.msg) \in Seq(Message) /\ Append(acked[s], x.msg) \in Seq(Message)
      BY <1>6, <3>1, Types
    <3> QED BY <1>6, <2>0, <3>3, <3>4, <2>1 DEF TypeOK
  <2>2. CASE x.op = "resolved"
    <3>1. app' = [session |-> s, mem |-> x.rec.history] /\ UNCHANGED acked
      BY <1>5, <2>2
    <3>2. x.rec.history \in Seq(Message)
      BY DEF ThreadState, Record
    <3> QED BY <1>6, <2>2, <3>1, <3>2 DEF TypeOK
  <2>3. CASE x.op \notin {"append", "resolved"}
    <3>1. UNCHANGED <<app, acked>>
      BY <1>5, <2>3
    <3> QED BY <1>6, <2>0, <2>3, <3>1 DEF TypeOK
  <2> QED BY <2>1, <2>2, <2>3
<1>9. /\ \A y \in Session : Steady(y)' /\ y # s /\ (r.pc # "idle" => y # r.s) => Kept(y)'
      /\ Steady(s)' => /\ Kept(s) /\ Alone(t) /\ Busy(s) = {t}
                       /\ Busy(s)' = IF r.pc = "bind" THEN {t} ELSE {}
                       /\ SoundFor(s, now.history)
                       /\ now.tasks = list[s] \/ (unsaved[s] => unsaved'[s])
      /\ th' \in [Thread -> ThreadState] /\ th'[t] = r
      /\ \A u \in Thread \ {t} : th'[u] = th[u]
      /\ Ghosts'
  <2>1. /\ th[t].pc # "idle" /\ th[t].s = s /\ sent' = sent
        /\ list' = list /\ file' = file /\ \A y \in Session : undo'[y] = {}
    BY <1>2, <1>4 DEF NoUndo
  <2>2. WorksOn(t, r, s)
    BY <1>4, <1>5, <2>1, Works
  <2>3. r.pc # "idle" /\ r.s = s <=> r.pc = "bind"
    BY <1>7
  <2> QED BY <1>3, <1>6, <1>8, <2>1, <2>2, <2>3 DEF WorksOn
<1>10. TypeOK'
  <2>1. undo' \in [Session -> SUBSET Content]
    BY <1>4 DEF NoUndo
  <2>2. {faults, misreads, crashes, guards, switches}' \subseteq Nat
    BY <1>4, <1>6, <1>9 DEF TypeOK, Ghosts
  <2>3. {alone, redone, misread, unsaved}' \subseteq [Session -> BOOLEAN]
    BY <1>9 DEF Ghosts
  <2> QED BY <1>4, <1>6, <1>8, <1>9, <2>1, <2>2, <2>3 DEF TypeOK, ThreadState
<1>11. Roles'
  <2>1. ASSUME NEW u \in Thread, u # t
        PROVE  /\ th'[u].op \notin {"append", "resolved", "start"} \/ app' = app
               /\ th'[u].goal = NoSession \/ app' = app
               /\ (u = Main /\ th'[u].op = "current") => app' = app
    <3>1. t = Main => u # Main
      BY <2>1
    <3>2. app' # app => t = Main
      BY <1>2, <1>5 DEF IInv, Roles
    <3> QED BY <1>9, <2>1, <3>1, <3>2 DEF IInv, Roles
  <2>2. ASSUME NEW u \in Thread, u # t, th'[u].pc # "idle"
        PROVE  th'[u].s \in Session /\ Up'
    BY <1>8, <1>9, <2>2, Threads DEF IInv, Roles, Up
  <2>3. CASE r = Idle
    BY <1>4, <1>9, <2>1, <2>2, <2>3, RecordTypes, Threads DEF IInv, Roles
  <2>4. CASE r.pc = "resolve"
    BY <1>4, <1>5, <1>7, <1>8, <1>9, <2>1, <2>2, <2>4, RecordTypes, Threads DEF IInv, Roles, Up
  <2>5. CASE r.pc = "bind"
    <3>1. x.op = "start" /\ app' = app /\ t = Main /\ s = app.session /\ x.goal = NoSession
      BY <1>2, <1>4, <1>7, <2>5 DEF IInv, Roles
    <3> QED BY <1>4, <1>7, <1>8, <1>9, <2>2, <2>5, <3>1, Threads DEF IInv, Roles, Up
  <2> QED BY <1>7, <2>3, <2>4, <2>5
<1>12. Synced'
  BY <1>4, <1>7, <1>9 DEF IInv, Synced
<1>13. Durability'
  <2>1. \A y \in Session : Readable(y) => Readable(y)' /\ Durable(y)'
    BY <1>4 DEF Durable, Readable, NoUndo
  <2>2. ASSUME NEW y \in Session PROVE Relied(y)' => Readable(y)
    <3>1. Relied(s)
      BY <1>2, <1>4 DEF Relied
    <3>2. y = app'.session /\ app'.mem # << >> => y = s \/ Relied(y)
      <4>1. x.op = "append" => app.session = s
        BY <1>2, <1>4 DEF IInv, Roles
      <4>2. app' = app \/ app'.session = s
        BY <1>5, <1>8, <4>1
      <4> QED BY <4>2 DEF Relied
    <3>3. \A u \in Thread : th'[u].pc = "latest" => u # t /\ th'[u] = th[u]
      BY <1>7, <1>9
    <3>4. Relied(y)' => y = s \/ Relied(y)
      BY <1>4, <3>2, <3>3 DEF Relied
    <3> QED BY <3>1, <3>4 DEF IInv, Durability, Durable
  <2>3. ASSUME NEW y \in Session, NEW u \in Thread, th'[u].pc = "renamed", th'[u].s = y
        PROVE  Readable(y)
    <3>1. th'[u] = th[u]
      BY <1>7, <1>9, <2>3
    <3> QED BY <2>3, <3>1 DEF IInv, Durability
  <2> QED BY <1>4, <2>1, <2>2, <2>3 DEF Durability
<1>14. ASSUME Steady(s)' PROVE Kept(s)'
  <2>1. Sound(now.history, acked'[s], redone'[s], sent')
    <3>1. CASE x.op = "append"
      <4>1. x.msg \in ToSet(now.history) /\ x.msg \in Message
        BY <1>1, <1>2, <1>3, <1>4, <1>9, <1>14, <3>1 DEF Alone, IInv, Roles
      <4>2. acked'[s] = Append(acked[s], x.msg)
        BY <1>5, <1>6, <3>1, RecordTypes DEF TypeOK
      <4>3. /\ acked[s] \in Seq(Message) /\ redone[s] \in BOOLEAN /\ redone'[s] \in BOOLEAN
            /\ (redone[s] => redone'[s])
        BY <1>4, <1>6, <1>9, Types, Watched
      <4>4. Sound(now.history, acked[s], redone'[s], sent)
        BY <1>6, <1>9, <1>14, <4>3, SoundGrows DEF SoundFor
      <4> QED BY <1>4, <4>1, <4>2, <4>3, <4>4, SoundAcked
    <3>2. CASE x.op # "append"
      <4>1. acked'[s] = acked[s]
        BY <1>5, <3>2
      <4> QED BY <1>4, <1>6, <1>9, <1>14, <4>1, StaysSound
    <3> QED BY <3>1, <3>2
  <2>2. SoundFor(s, Read(s).history)' /\ Undoing(s)'
    BY <1>4, <1>6, <2>1 DEF SoundFor, Undoing, NoUndo
  <2>3. Lists(s) /\ (now.tasks = list[s] \/ (unsaved[s] => unsaved'[s]))
    BY <1>9, <1>14 DEF Kept
  <2>4. CASE r.pc = "bind"
    <3>1. Alone(t)'
      BY <1>9, <2>4 DEF Alone
    <3>2. Busy(s)' = {t} /\ th'[t].op = "start"
      BY <1>7, <1>9, <1>14, <2>4
    <3>3. Lists(s)'
      BY <3>2 DEF Lists
    <3> QED BY <2>2, <3>1, <3>2, <3>3 DEF Kept
  <2>5. CASE r.pc # "bind"
    <3>1. app'.session = s => now.tasks = list[s] \/ unsaved[s]
      <4>1. CASE x.op = "resolved"
        BY <1>2, <1>3, <1>9, <1>14, <2>3, <4>1 DEF Lists
      <4>2. CASE x.op = "tasks"
        BY <1>1, <1>2, <1>3, <1>4, <1>9, <1>14, <2>3, <4>2 DEF Lists, Alone
      <4>3. CASE x.op \notin {"resolved", "tasks"}
        <5>1. x.op # "start"
          BY <1>5, <2>5, RecordTypes
        <5> QED BY <1>2, <1>3, <1>8, <1>9, <1>14, <2>3, <4>3, <5>1 DEF Lists
      <4> QED BY <4>1, <4>2, <4>3
    <3>2. Busy(s)' = {}
      BY <1>9, <1>14, <2>5
    <3>3. Lists(s)'
      BY <1>4, <1>6, <2>3, <3>1, <3>2 DEF Lists
    <3> QED BY <2>2, <3>2, <3>3 DEF Kept
  <2> QED BY <2>4, <2>5
<1>15. ASSUME NEW g \in Session, r.pc = "resolve", g = r.s, Steady(g)' PROVE Kept(g)'
  <2>1. Kept(g) /\ \A u, v \in Busy(g)' : u = v
    BY <1>4, <1>15, Watched DEF IInv, Histories
  <2>2. t \in Busy(g)' /\ Busy(g)' = {t}
    BY <1>9, <1>15, <2>1 DEF Busy
  <2>3. Read(g)' = Read(g) /\ Read(g) \in Record /\ acked'[g] = acked[g]
    BY <1>4, <1>6, <1>7, <1>15, Types DEF Read
  <2>4. SoundFor(g, Read(g).history)'
    BY <1>4, <1>6, <1>15, <2>1, <2>3, StaysSound DEF Kept, SoundFor, Record
  <2>5. Alone(t)'
    BY <1>7, <1>9, <1>15 DEF Alone
  <2>6. Lists(g)'
    <3>1. app'.session # g /\ r.op = "current"
      BY <1>5, <1>7, <1>15, RecordTypes
    <3> QED BY <1>9, <2>2, <3>1 DEF Lists
  <2>7. Undoing(g)'
    BY <1>4 DEF Undoing, NoUndo
  <2> QED BY <2>1, <2>2, <2>4, <2>5, <2>6, <2>7 DEF Kept
<1>16. Histories'
  <2>1. ASSUME NEW y \in Session, Steady(y)', y # s, r.pc # "idle", y = r.s PROVE Kept(y)'
    BY <1>7, <1>15, <2>1
  <2> QED BY <1>9, <1>14, <2>1 DEF Histories
<1> QED BY <1>10, <1>11, <1>12, <1>13, <1>16 DEF IInv

\* The reads of one session that all succeed, or of which one fails.
LEMMA TwoReads ==
  ASSUME TypeOK, NEW s \in Session, NEW a \in Outcome(s), NEW b \in Outcome(s),
         Observe(Missed(s, a) \cup Missed(s, b))
  PROVE  Observed /\ (Steady(s)' => a /\ b)
<1>1. a \in BOOLEAN /\ b \in BOOLEAN
  BY DEF Outcome
<1>2. CASE a /\ b
  <2>1. Missed(s, a) \cup Missed(s, b) = {}
    BY <1>2 DEF Missed
  <2> QED BY <1>2, <2>1 DEF Observed
<1>3. CASE ~(a /\ b)
  <2>1. Missed(s, a) \cup Missed(s, b) = {s}
    BY <1>1, <1>3 DEF Missed
  <2>2. Observe({s})
    BY <2>1
  <2> QED BY <2>2 DEF Observed, Observe, Steady
<1> QED BY <1>2, <1>3

\* The turn takes over the record of the session it switches to.
LEMMA ResolveStep == IInv /\ Resolve => IInv'
<1> SUFFICES ASSUME IInv, Resolve PROVE IInv'
  OBVIOUS
<1>1. PICK s \in Session : s = th[Main].s
  BY Threads DEF IInv, Roles, Resolve
<1>2. PICK x \in ThreadState : x = th[Main]
  BY Types, Threads DEF IInv
<1>3. PICK now \in Record : now = Read(s)
  BY Types DEF IInv
<1>a. PICK loaded \in Outcome(s), rebound \in Outcome(s) :
        /\ th' = [th EXCEPT ![Main].pc = "load", ![Main].op = "resolved", ![Main].tries = 1,
                            ![Main].rec = [NoRecord EXCEPT !.history = Got(s, loaded).history]]
        /\ list' = [list EXCEPT ![s] = Got(s, rebound).tasks]
        /\ UNCHANGED <<file, latest, undo, former, lock, app, clone, used, sent, faults, crashes,
                       guards, switches, acked>>
        /\ Observe(Missed(s, loaded) \cup Missed(s, rebound))
  BY <1>1 DEF Resolve, stored
<1>b. PICK got \in Record, n \in Nat : got = Got(s, loaded) /\ n = Got(s, rebound).tasks
  <2>1. Got(s, loaded) \in Record /\ Got(s, rebound) \in Record
    BY Reading DEF IInv
  <2> QED BY <2>1 DEF Record
<1>c. Observed /\ (Steady(s)' => got = now /\ n = now.tasks)
  <2>1. Observed /\ (Steady(s)' => loaded /\ rebound)
    BY <1>a, TwoReads DEF IInv
  <2> QED BY <1>3, <1>b, <2>1, Reading DEF IInv
<1>4. /\ x.pc = "resolve" /\ x.s = s /\ x.goal = s /\ s # app.session
      /\ list' = [list EXCEPT ![s] = n]
      /\ UNCHANGED <<file, latest, undo, former, lock, app, clone, used, sent, faults, crashes, guards,
                     switches, acked>>
  BY <1>1, <1>2, <1>a, <1>b, Threads DEF Resolve, IInv, Roles
<1>5. PICK r \in ThreadState :
        /\ th' = [th EXCEPT ![Main] = r] /\ r.pc = "load" /\ r.op = "resolved" /\ r.s = s
        /\ r.goal = s /\ r.rec.history = got.history
  <2> DEFINE h == got.history
             rec == [NoRecord EXCEPT !.history = h]
             r == [x EXCEPT !.pc = "load", !.op = "resolved", !.tries = 1, !.rec = rec]
  <2>1. rec \in Record /\ rec.history = h
    <3>1. h \in Seq(Message)
      BY DEF Record
    <3> HIDE DEF h
    <3> QED BY <3>1, RecordTypes, RecordUpdates
  <2>2. th' = [th EXCEPT ![Main] = r]
    BY <1>2, <1>a, <1>b
  <2> HIDE DEF rec
  <2>3. /\ r \in ThreadState /\ r.pc = "load" /\ r.op = "resolved" /\ r.s = x.s /\ r.goal = x.goal
        /\ r.rec = rec
    <3>1. 1 \in 1 .. MaxAttempts
      BY Threads
    <3> QED BY <2>1, <3>1 DEF ThreadState, PcType, OpType
  <2> QED BY <1>4, <2>1, <2>2, <2>3
<1>6. TypeOK /\ Read(s)' = now /\ now.history \in Seq(Message) /\ now.tasks \in Nat /\ sent \in Nat
  BY <1>3, <1>4, Types DEF IInv, Read, Record
<1>7. list' \in [Session -> Nat] /\ list'[s] = n /\ \A y \in Session \ {s} : list'[y] = list[y]
  BY <1>4, <1>6 DEF TypeOK
<1>8. /\ \A y \in Session : Steady(y)' /\ y # s => Kept(y)'
      /\ Steady(s)' => /\ Kept(s) /\ Busy(s) = {Main} /\ Busy(s)' = {Main}
                       /\ SoundFor(s, now.history) /\ Undoing(s)'
      /\ th' \in [Thread -> ThreadState] /\ th'[Main] = r
      /\ \A u \in Thread \ {Main} : th'[u] = th[u]
      /\ Ghosts'
  <2>1. /\ th[Main].pc # "idle" /\ th[Main].s = s /\ sent' = sent
        /\ acked' = acked /\ app' = app /\ file' = file /\ undo' = undo
    BY <1>2, <1>4
  <2>2. WorksOn(Main, r, s)
    BY <1>c, <1>5, <2>1, Threads, Works
  <2> QED BY <1>3, <1>5, <1>7, <2>1, <2>2 DEF WorksOn
<1>9. TypeOK'
  <2>1. {faults, misreads, crashes, guards, switches}' \subseteq Nat
    BY <1>4, <1>6, <1>8 DEF TypeOK, Ghosts
  <2>2. {alone, redone, misread, unsaved}' \subseteq [Session -> BOOLEAN]
    BY <1>8 DEF Ghosts
  <2> QED BY <1>4, <1>6, <1>7, <1>8, <2>1, <2>2 DEF TypeOK, ThreadState
<1>10. Roles'
  BY <1>2, <1>4, <1>5, <1>8, Threads DEF IInv, Roles, Up
<1>11. Synced' /\ Durability'
  BY <1>4, <1>5, <1>8 DEF IInv, Synced, Durability, Relied, Durable, Readable, Up
<1>12. ASSUME Steady(s)' PROVE Kept(s)'
  <2>1. Sound(now.history, acked'[s], redone'[s], sent')
    BY <1>c, <1>4, <1>6, <1>8, <1>12, StaysSound
  <2>2. Alone(Main)'
    BY <1>c, <1>5, <1>6, <1>8, <1>12 DEF Alone, BeforeOwn
  <2>3. Lists(s)'
    BY <1>c, <1>4, <1>5, <1>6, <1>7, <1>8, <1>12 DEF Lists
  <2> QED BY <1>6, <1>8, <1>12, <2>1, <2>2, <2>3 DEF Kept, SoundFor
<1>13. Histories'
  BY <1>8, <1>12 DEF Histories
<1> QED BY <1>9, <1>10, <1>11, <1>13 DEF IInv

\* The list of the session the process starts with is loaded.
LEMMA BindStep == IInv /\ Bind => IInv'
<1> SUFFICES ASSUME IInv, Bind PROVE IInv'
  OBVIOUS
<1>1. PICK s \in Session : s = th[Main].s
  BY Threads DEF IInv, Roles, Bind
<1>2. PICK now \in Record : now = Read(s)
  BY Types DEF IInv
<1>3. PICK ok \in Outcome(s) :
        /\ th' = [th EXCEPT ![Main] = Idle]
        /\ list' = [list EXCEPT ![s] = Got(s, ok).tasks]
        /\ UNCHANGED <<file, latest, undo, former, lock, app, clone, used, sent, faults, crashes,
                       guards, switches, acked>>
        /\ Observe(Missed(s, ok))
  BY <1>1 DEF Bind, stored
<1>4. PICK n \in Nat : n = Got(s, ok).tasks
  <2>1. Got(s, ok) \in Record
    BY Reading DEF IInv
  <2> QED BY <2>1 DEF Record
<1>5. Observed /\ (Steady(s)' => n = now.tasks) /\ th[Main].pc = "bind"
  BY <1>2, <1>3, <1>4, Reading DEF IInv, Bind
<1>6. TypeOK /\ Read(s)' = now /\ now.history \in Seq(Message) /\ sent \in Nat
  BY <1>2, <1>3, Types DEF IInv, Read, Record
<1>7. list' \in [Session -> Nat] /\ list'[s] = n /\ \A y \in Session \ {s} : list'[y] = list[y]
  BY <1>3, <1>4, <1>6 DEF TypeOK
<1>e. PICK r \in ThreadState : r = Idle /\ r.pc = "idle" /\ th' = [th EXCEPT ![Main] = r]
  BY <1>3, RecordTypes
<1>8. /\ \A y \in Session : Steady(y)' /\ y # s => Kept(y)'
      /\ Steady(s)' => /\ Kept(s) /\ Busy(s)' = {} /\ SoundFor(s, now.history) /\ Undoing(s)'
      /\ th' \in [Thread -> ThreadState] /\ th'[Main] = Idle
      /\ \A u \in Thread \ {Main} : th'[u] = th[u]
      /\ Ghosts'
  <2>1. /\ th[Main].pc # "idle" /\ th[Main].s = s /\ sent' = sent
        /\ acked' = acked /\ app' = app /\ file' = file /\ undo' = undo
    BY <1>1, <1>3, <1>5
  <2>2. WorksOn(Main, r, s)
    BY <1>5, <1>e, <2>1, Threads, Works
  <2> QED BY <1>2, <1>7, <1>e, <2>1, <2>2 DEF WorksOn
<1>9. TypeOK'
  <2>1. {faults, misreads, crashes, guards, switches}' \subseteq Nat
    BY <1>3, <1>6, <1>8 DEF TypeOK, Ghosts
  <2>2. {alone, redone, misread, unsaved}' \subseteq [Session -> BOOLEAN]
    BY <1>8 DEF Ghosts
  <2> QED BY <1>3, <1>6, <1>7, <1>8, <2>1, <2>2 DEF TypeOK, ThreadState
<1>10. Roles'
  BY <1>3, <1>8, RecordTypes, Threads DEF IInv, Roles, Up
<1>11. Synced' /\ Durability'
  BY <1>3, <1>8, RecordTypes DEF IInv, Synced, Durability, Relied, Durable, Readable, Up
<1>12. ASSUME Steady(s)' PROVE Kept(s)'
  <2>1. Sound(now.history, acked'[s], redone'[s], sent')
    BY <1>3, <1>5, <1>6, <1>8, <1>12, StaysSound
  <2>2. Lists(s)'
    BY <1>5, <1>6, <1>7, <1>8, <1>12 DEF Lists
  <2> QED BY <1>6, <1>8, <1>12, <2>1, <2>2 DEF Kept, SoundFor
<1>13. Histories'
  BY <1>8, <1>12 DEF Histories
<1> QED BY <1>9, <1>10, <1>11, <1>13 DEF IInv

-----------------------------------------------------------------------------
\* Power is lost and the process starts again.

LEMMA PowerLossStep == IInv /\ PowerLoss => IInv'
<1> SUFFICES ASSUME IInv, PowerLoss PROVE IInv'
  OBVIOUS
<1>1. TypeOK /\ sent \in Nat /\ Observed
  BY Types DEF IInv, PowerLoss, Observed
<1>2. UNCHANGED <<clone, list, used, sent, faults, guards, switches, acked>>
  BY DEF PowerLoss
<1>3. /\ th' = [t \in Thread |-> Idle] /\ lock' = [s \in Session |-> Nobody]
      /\ undo' = NoUndo /\ former' = {}
      /\ app'.session = NoSession /\ app'.mem = << >>
      /\ app' \in [session : Session \cup {NoSession}, mem : Seq(Message)]
  BY DEF PowerLoss
<1>4. ASSUME NEW s \in Session
      PROVE  \E c \in Content : file'[s] = c /\ (c = file[s] \/ c \in undo[s])
  BY <1>1 DEF PowerLoss, TypeOK
<1>5. file' \in [Session -> Content]
  <2>1. \A s \in Session : file'[s] \in Content
    BY <1>4
  <2> DEFINE C == UNION {undo[s] \cup {file[s]} : s \in Session}
  <2>2. file' \in [Session -> C]
    BY DEF PowerLoss
  <2> HIDE DEF C
  <2> QED BY <2>1, <2>2
<1>6. \/ latest' = latest \/ latest' \in former
      \/ \E t \in Thread : th[t].pc = "latest" /\ latest' = th[t].s
  BY DEF PowerLoss
<1>7. TypeOK'
  <2>1. latest' \in Session \cup {NoSession}
    BY <1>1, <1>6, Types DEF TypeOK, ThreadState
  <2>2. th' \in [Thread -> ThreadState] /\ lock' \in [Session -> Thread \cup {Nobody}]
    BY <1>3, RecordTypes
  <2>3. undo' \in [Session -> SUBSET Content]
    BY <1>3 DEF NoUndo
  <2>4. {faults, misreads, crashes, guards, switches}' \subseteq Nat
    <3>1. misreads' \in Nat
      BY <1>1, Watched DEF Ghosts
    <3>2. {faults, crashes, guards, switches} \subseteq Nat /\ crashes' = crashes + 1
      BY <1>1 DEF TypeOK, PowerLoss
    <3> QED BY <1>2, <3>1, <3>2
  <2>5. {alone, redone, misread, unsaved}' \subseteq [Session -> BOOLEAN]
    BY <1>1, Watched DEF Ghosts
  <2> QED BY <1>1, <1>2, <1>3, <1>5, <2>1, <2>2, <2>3, <2>4, <2>5 DEF TypeOK, ThreadState
<1>8. \A t \in Thread : th'[t] = Idle /\ th'[t].pc = "idle"
  BY <1>3, RecordTypes
<1>9. Roles' /\ Synced'
  BY <1>8, RecordTypes, Threads DEF Roles, Synced
<1>10. Durability'
  <2>1. ASSUME NEW y \in Session, Durable(y) PROVE Durable(y)'
    <3>1. file'[y].state = "whole"
      BY <1>4, <2>1 DEF Durable, Readable
    <3> QED BY <1>3, <3>1 DEF Durable, Readable, NoUndo
  <2>2. ASSUME NEW y \in Session PROVE Relied(y)' => Relied(y)
    BY <1>2, <1>3, <1>6, <1>8 DEF Relied
  <2> QED BY <1>3, <1>8, <2>1, <2>2 DEF IInv, Durability
<1>11. ASSUME NEW s \in Session, Steady(s)' PROVE Kept(s)'
  <2>1. Kept(s)
    BY <1>1, <1>11, Watched DEF IInv, Histories
  <2>2. PICK h \in Seq(Message) : h = Read(s)'.history /\ SoundFor(s, h)
    <3>1. PICK c \in Content : file'[s] = c /\ (c = file[s] \/ c \in undo[s])
      BY <1>4
    <3>2. Read(s)' = Parsed(c) /\ Parsed(file[s]) = Read(s)
      BY <3>1 DEF Read
    <3>3. Parsed(c) \in Record /\ SoundFor(s, Parsed(c).history)
      BY <1>1, <2>1, <3>1, <3>2, Types DEF Kept, Undoing
    <3> QED BY <3>2, <3>3 DEF Record
  <2>3. SoundFor(s, Read(s).history)'
    BY <1>1, <1>2, <2>2, StaysSound DEF SoundFor
  <2>4. Busy(s)' = {} /\ undo'[s] = {}
    BY <1>3, <1>8 DEF Busy, NoUndo
  <2>5. Lists(s)'
    BY <1>3, <2>4, Threads DEF Lists
  <2> QED BY <2>3, <2>4, <2>5 DEF Kept, Undoing
<1> QED BY <1>7, <1>9, <1>10, <1>11 DEF IInv, Histories

\* What the turn does when the process starts.
LEMMA StartingType ==
  ASSUME NEW s \in Session, NEW h \in Seq(Message)
  PROVE  \E r \in ThreadState :
           /\ r = Starting(s, h) /\ r.pc = "load" /\ r.op = "start" /\ r.s = s
           /\ r.goal = NoSession /\ r.rec.history = h
<1> DEFINE rec == [NoRecord EXCEPT !.history = h]
           r == [Idle EXCEPT !.pc = "load", !.op = "start", !.s = s, !.rec = rec]
<1>1. rec \in Record /\ rec.history = h
  BY RecordTypes, RecordUpdates
<1> HIDE DEF rec
<1>2. /\ r \in ThreadState /\ r.pc = "load" /\ r.op = "start" /\ r.s = s
      /\ r.goal = Idle.goal /\ r.rec = rec
  BY <1>1, RecordTypes DEF ThreadState, PcType, OpType
<1>3. Starting(s, h) = r
  BY DEF Starting, rec
<1> QED BY <1>1, <1>2, <1>3, RecordTypes

LEMMA RestartStep == IInv /\ Restart => IInv'
<1> SUFFICES ASSUME IInv, Restart PROVE IInv'
  OBVIOUS
<1>1. TypeOK /\ sent \in Nat /\ ~Up
  BY Types DEF IInv, Restart
<1>a. PICK s \in Session : \E ok \in Outcome(s) :
        /\ app' = [session |-> s, mem |-> Got(s, ok).history] /\ clone' = app'
        /\ th' = [th EXCEPT ![Main] = Starting(s, Got(s, ok).history)]
        /\ used' = used \cup {s}
        /\ UNCHANGED <<file, latest, undo, former, lock, list, sent, faults, crashes, guards,
                       switches, acked>>
        /\ Observe(Missed(s, ok))
  BY DEF Restart, stored
<1>2. PICK ok \in Outcome(s) :
        /\ app' = [session |-> s, mem |-> Got(s, ok).history] /\ clone' = app'
        /\ th' = [th EXCEPT ![Main] = Starting(s, Got(s, ok).history)]
        /\ used' = used \cup {s}
        /\ UNCHANGED <<file, latest, undo, former, lock, list, sent, faults, crashes, guards,
                       switches, acked>>
        /\ Observe(Missed(s, ok))
  BY <1>a
<1>3. PICK h \in Seq(Message) : h = Got(s, ok).history
  <2>1. Got(s, ok) \in Record
    BY <1>1, Reading
  <2> QED BY <2>1 DEF Record
<1>4. Observed /\ (Steady(s)' => h = Read(s).history) /\ (h # << >> => Readable(s))
  BY <1>1, <1>2, <1>3, Reading
<1>5. PICK r \in ThreadState :
        /\ th' = [th EXCEPT ![Main] = r] /\ r.pc = "load" /\ r.op = "start" /\ r.s = s
        /\ r.goal = NoSession /\ r.rec.history = h
  <2>1. PICK r \in ThreadState :
          /\ r = Starting(s, h) /\ r.pc = "load" /\ r.op = "start" /\ r.s = s
          /\ r.goal = NoSession /\ r.rec.history = h
    BY StartingType
  <2>2. th' = [th EXCEPT ![Main] = r]
    BY <1>2, <1>3, <2>1
  <2> QED BY <2>1, <2>2
<1>6. /\ th' \in [Thread -> ThreadState] /\ th'[Main] = r
      /\ \A u \in Thread \ {Main} : th'[u] = Idle
      /\ \A u \in Thread : th[u] = Idle /\ th[u].pc = "idle"
      /\ app'.session = s /\ app'.mem = h /\ clone'.session = s /\ clone'.mem = h
  <2>1. \A u \in Thread : th[u] = Idle /\ th[u].pc = "idle"
    BY <1>1 DEF IInv, Roles
  <2>2. th' \in [Thread -> ThreadState] /\ th'[Main] = r /\ \A u \in Thread \ {Main} : th'[u] = th[u]
    BY <1>1, <1>5, Threads, OneThread
  <2> QED BY <1>2, <1>3, <2>1, <2>2
<1>7. TypeOK'
  <2>1. /\ app' \in [session : Session \cup {NoSession}, mem : Seq(Message)]
        /\ clone' \in [session : Session, mem : Seq(Message)]
        /\ used' \subseteq Session
    BY <1>1, <1>2, <1>3 DEF TypeOK
  <2>2. {faults, misreads, crashes, guards, switches}' \subseteq Nat
    <3>1. misreads' \in Nat
      BY <1>1, <1>4, Watched DEF Ghosts
    <3> QED BY <1>1, <1>2, <3>1 DEF TypeOK
  <2>3. {alone, redone, misread, unsaved}' \subseteq [Session -> BOOLEAN]
    BY <1>1, <1>4, Watched DEF Ghosts
  <2>4. th' \in [Thread -> ThreadState]
    BY <1>6
  <2>5. UNCHANGED <<file, latest, undo, former, lock, list, sent, acked>>
    BY <1>2
  <2> QED BY <1>1, <2>1, <2>2, <2>3, <2>4, <2>5 DEF TypeOK, ThreadState
<1>8. Roles' /\ Synced'
  BY <1>5, <1>6, RecordTypes, Threads DEF Roles, Synced, Up
<1>9. Durability'
  <2>1. \A y \in Session : Readable(y) => Durable(y)'
    BY <1>1, <1>2 DEF IInv, Durability, Durable, Readable, NoUndo
  <2>2. ASSUME NEW y \in Session PROVE Relied(y)' => Readable(y)
    <3>1. \A u \in Thread : th'[u].pc # "latest"
      BY <1>5, <1>6, RecordTypes
    <3>2. Relied(y)' => (y = s /\ h # << >>) \/ Relied(y)
      BY <1>2, <1>6, <3>1 DEF Relied
    <3> QED BY <1>4, <3>2 DEF IInv, Durability, Durable
  <2>3. \A u \in Thread : th'[u].pc # "renamed"
    BY <1>5, <1>6, RecordTypes
  <2>4. Up'
    BY <1>6, Threads DEF Up
  <2> QED BY <2>1, <2>2, <2>3, <2>4 DEF Durability
<1>10. ASSUME NEW y \in Session, Steady(y)', y # s PROVE Kept(y)'
  <2>1. Busy(y)' = {} /\ Busy(y) = {}
    BY <1>5, <1>6, <1>10, RecordTypes DEF Busy
  <2>2. /\ sent' \in Nat /\ sent <= sent' /\ file'[y] = file[y] /\ undo'[y] \in {undo[y], {}}
        /\ acked'[y] = acked[y] /\ list'[y] = list[y] /\ (app'.session = y => app.session = y)
    BY <1>1, <1>2, <1>6, <1>10
  <2> QED BY <1>4, <1>10, <2>1, <2>2, KeptFrame
<1>11. ASSUME Steady(s)' PROVE Kept(s)'
  <2>1. Kept(s) /\ h = Read(s).history
    BY <1>1, <1>4, <1>11, Watched DEF IInv, Histories
  <2>2. Read(s)' = Read(s)
    BY <1>2 DEF Read
  <2>3. SoundFor(s, Read(s).history)'
    BY <1>1, <1>2, <1>4, <2>1, <2>2, StaysSound DEF Kept, SoundFor
  <2>4. Busy(s)' = {Main} /\ undo'[s] = {}
    BY <1>1, <1>2, <1>5, <1>6, Threads, RecordTypes DEF Busy, IInv, Durability, NoUndo
  <2>5. Alone(Main)'
    BY <1>5, <1>6, <2>1, <2>2 DEF Alone
  <2>6. Lists(s)'
    BY <1>5, <1>6, <2>4 DEF Lists
  <2> QED BY <2>3, <2>4, <2>5, <2>6 DEF Kept, Undoing
<1> QED BY <1>7, <1>8, <1>9, <1>10, <1>11 DEF IInv, Histories

-----------------------------------------------------------------------------
\* Every behaviour.

LEMMA InitInvariant == Init => IInv
<1> SUFFICES ASSUME Init PROVE IInv
  OBVIOUS
<1>1. << >> \in Seq(Message) /\ First \in Session
  BY Threads
<1>2. PICK r \in ThreadState : /\ r = Starting(First, << >>) /\ r.pc = "load" /\ r.op = "start"
                               /\ r.s = First /\ r.goal = NoSession /\ r.rec.history = << >>
  <2>1. PICK s \in Session, h \in Seq(Message) : s = First /\ h = << >>
    BY <1>1
  <2>2. PICK r \in ThreadState : /\ r = Starting(s, h) /\ r.pc = "load" /\ r.op = "start"
                                 /\ r.s = s /\ r.goal = NoSession /\ r.rec.history = h
    BY StartingType
  <2> QED BY <2>1, <2>2
<1>3. /\ app.session = First /\ app.mem = << >> /\ clone = app /\ latest = NoSession
      /\ former = {} /\ undo = NoUndo
      /\ th[Main] = r /\ \A t \in Thread \ {Main} : th[t] = Idle
      /\ th \in [Thread -> ThreadState]
  BY <1>2, Threads, RecordTypes DEF Init
<1>4. TypeOK
  <2>1. file \in [Session -> Content] /\ undo \in [Session -> SUBSET Content]
    BY RecordTypes DEF Init, Content, NoUndo
  <2>2. /\ app \in [session : Session \cup {NoSession}, mem : Seq(Message)]
        /\ clone \in [session : Session, mem : Seq(Message)]
    BY <1>1, Threads DEF Init
  <2>3. acked \in [Session -> Seq(Message)]
    BY <1>1 DEF Init
  <2>4. /\ lock \in [Session -> Thread \cup {Nobody}] /\ list \in [Session -> Nat]
        /\ used \subseteq Session /\ sent \in 0 .. MaxMessages
        /\ latest \in Session \cup {NoSession} /\ former \subseteq Session \cup {NoSession}
    BY Threads DEF Init
  <2>5. {faults, misreads, crashes, guards, switches} \subseteq Nat
    BY DEF Init
  <2>6. {alone, redone, misread, unsaved} \subseteq [Session -> BOOLEAN]
    BY DEF Init
  <2> QED BY <1>3, <2>1, <2>2, <2>3, <2>4, <2>5, <2>6 DEF TypeOK, ThreadState
<1>5. Roles /\ Synced
  BY <1>2, <1>3, Threads, RecordTypes DEF Roles, Synced, Up
<1>6. Durability
  <2>1. \A s \in Session : ~Relied(s)
    BY <1>2, <1>3, Threads, RecordTypes DEF Relied
  <2>2. Up /\ \A t \in Thread : th[t].pc # "renamed"
    BY <1>2, <1>3, Threads, RecordTypes DEF Up
  <2> QED BY <2>1, <2>2 DEF Durability
<1>7. ASSUME NEW s \in Session PROVE Kept(s)
  <2>1. Read(s) = NoRecord /\ acked[s] = << >> /\ list[s] = 0 /\ undo[s] = {}
    BY DEF Init, Read, Parsed, NoUndo
  <2>2. Busy(s) \subseteq {Main}
    BY <1>3, RecordTypes DEF Busy
  <2>3. SoundFor(s, Read(s).history)
    <3>1. ToSet(<< >>) = {} /\ DOMAIN << >> = {}
      BY DEF ToSet
    <3> QED BY <2>1, <3>1, RecordTypes DEF SoundFor, Sound, Ordered
  <2>4. Lists(s)
    BY <1>2, <1>3, <2>1, <2>2, RecordTypes DEF Lists
  <2>5. \A t \in Busy(s) : Alone(t)
    <3>1. Read(First) = NoRecord
      BY <1>1 DEF Init, Read, Parsed
    <3>2. Alone(Main)
      BY <1>2, <1>3, <3>1, RecordTypes DEF Alone
    <3> QED BY <2>2, <3>2
  <2> QED BY <2>1, <2>2, <2>3, <2>4, <2>5 DEF Kept, Undoing
<1> QED BY <1>4, <1>5, <1>6, <1>7 DEF IInv, Histories

LEMMA NextInvariant == IInv /\ [Next]_vars => IInv'
<1> SUFFICES ASSUME IInv, [Next]_vars PROVE IInv'
  OBVIOUS
<1>1. CASE StartAppend
  BY <1>1, StartAppendStep
<1>2. CASE StartGuard
  BY <1>2, StartGuardStep
<1>3. CASE Resolve
  BY <1>3, ResolveStep
<1>a. CASE Bind
  BY <1>a, BindStep
<1>4. CASE PowerLoss
  BY <1>4, PowerLossStep
<1>5. CASE Restart
  BY <1>5, RestartStep
<1>6. ASSUME NEW s \in Session, Switch(s) PROVE IInv'
  BY <1>6, SwitchStep
<1>7. ASSUME NEW t \in Thread, StartTasks(t) PROVE IInv'
  BY <1>7, StartTasksStep
<1>8. ASSUME NEW t \in Thread, Work(t) PROVE IInv'
  BY <1>8, SnapshotStep, ReadRecordStep, LoadRestStep, LockFileStep, RenameTempStep,
     SyncDirectoryStep, PointLatestStep DEF Work
<1>9. ASSUME NEW t \in Thread, WriteFails(t) PROVE IInv'
  BY <1>9, WriteFailsStep
<1>10. CASE UNCHANGED vars
  <2>1. /\ UNCHANGED <<file, latest, undo, former, lock, th, app, clone, list, used>>
        /\ UNCHANGED <<sent, faults, misreads, crashes, guards, switches>>
        /\ UNCHANGED <<acked, alone, redone, misread, unsaved>>
    BY <1>10 DEF vars, stored, ghosts
  <2>2. TypeOK'
    BY <2>1 DEF IInv, TypeOK
  <2>3. Roles' /\ Synced'
    BY <2>1 DEF IInv, Roles, Synced, Up
  <2>4. Durability'
    <3>1. \A y \in Session : /\ Relied(y)' = Relied(y) /\ Durable(y)' = Durable(y)
                             /\ Readable(y)' = Readable(y)
      BY <2>1 DEF Relied, Durable, Readable
    <3> QED BY <2>1, <3>1 DEF IInv, Durability, Up
  <2>5. Histories'
    <3>1. ASSUME NEW s \in Session, Kept(s) PROVE Kept(s)'
      <4>1. Read(s)' = Read(s) /\ Busy(s)' = Busy(s)
        BY <2>1 DEF Read, Busy
      <4>2. ASSUME NEW t \in Busy(s), Alone(t) PROVE Alone(t)'
        <5>1. th'[t] = th[t] /\ Read(th[t].s)' = Read(th[t].s)
          BY <2>1 DEF Read
        <5>2. BeforeOwn(t, Read(th[t].s).history) = BeforeOwn(t, Read(th[t].s).history)'
          BY <2>1, <5>1 DEF BeforeOwn
        <5>3. Written(t, Read(th[t].s)) = Written(t, Read(th[t].s))'
          BY <5>1 DEF Written
        <5> QED BY <4>2, <5>1, <5>2, <5>3 DEF Alone
      <4>3. Lists(s) => Lists(s)'
        BY <2>1, <4>1 DEF Lists
      <4>4. Undoing(s) => Undoing(s)'
        BY <2>1, <4>1 DEF Undoing, SoundFor
      <4> QED BY <2>1, <3>1, <4>1, <4>2, <4>3, <4>4 DEF Kept, SoundFor
    <3> QED BY <2>1, <3>1 DEF IInv, Histories, Steady
  <2> QED BY <2>2, <2>3, <2>4, <2>5 DEF IInv
<1> QED BY <1>1, <1>2, <1>3, <1>a, <1>4, <1>5, <1>6, <1>7, <1>8, <1>9, <1>10 DEF Next

\* What the threads know of the files holds in every state of the store.
LEMMA Invariance == Spec => []IInv
<1> QED BY InitInvariant, NextInvariant, PTL DEF Spec

\* Every variable keeps its type, and no call is tried more than MaxAttempts times.
THEOREM TypeCorrect == Spec => []TypeOK
<1>1. IInv => TypeOK
  BY DEF IInv
<1> QED BY <1>1, Invariance, PTL

\* The file latest_session names a session whose record can be read, whatever step
\* of write_record, write_atomic or write_latest_session_id fails or is cut off by a
\* loss of power.
THEOREM LatestAlwaysReadable == Spec => []LatestReadable
<1>1. IInv => LatestReadable
  BY DEF IInv, TypeOK, Durability, Relied, Durable, LatestReadable
<1> QED BY <1>1, Invariance, PTL

\* A message whose append was reported done is in the stored history and in each one
\* a loss of power may leave, in its place in the conversation, although directories
\* cannot be synced and calls are given up: in a session that one thread at a time
\* works on and no read of whose record has failed.
THEOREM AckedAlwaysKept == Spec => []AckedKept
<1>1. ASSUME IInv PROVE AckedKept
  <2> SUFFICES ASSUME NEW s \in Session, Steady(s), NEW c \in undo[s] \cup {file[s]}
               PROVE  LET history == Parsed(c).history IN
                      /\ ToSet(acked[s]) \subseteq ToSet(history)
                      /\ \A i, j \in DOMAIN history : i < j =>
                             history[i] < history[j] \/ (redone[s] /\ history[i] = history[j])
    BY DEF AckedKept
  <2>1. SoundFor(s, Parsed(c).history)
    BY <1>1 DEF IInv, Histories, Kept, Undoing, Read
  <2> QED BY <2>1 DEF SoundFor, Sound, Ordered
<1>2. IInv => AckedKept
  BY <1>1
<1> QED BY <1>2, Invariance, PTL

\* The stored task list of a session nobody saves is the one its manager holds, unless
\* the last save of the list failed: for a session that one thread at a time works on
\* and no read of whose record, or list, has failed.
THEOREM ListAlwaysStored == Spec => []ListStored
<1>1. IInv => ListStored
  BY DEF IInv, Histories, Kept, Lists, ListStored
<1> QED BY <1>1, Invariance, PTL

-----------------------------------------------------------------------------
(* Whole updates.  Only a rename writes a record, and what it writes is what the *)
(* call means to make of the record as it is.                                    *)

\* The steps of the store, as the records see them.
LEMMA StepKinds ==
  ASSUME [Next]_vars
  PROVE  file' = file \/ PowerLoss \/ \E t \in Thread : RenameTemp(t)
<1>1. CASE StartAppend \/ StartGuard \/ Resolve \/ Bind \/ Restart
  BY <1>1 DEF StartAppend, StartGuard, Resolve, Bind, Restart, stored
<1>2. ASSUME NEW s \in Session, Switch(s) PROVE file' = file
  BY <1>2 DEF Switch, stored
<1>3. ASSUME NEW t \in Thread, StartTasks(t) \/ Work(t) \/ WriteFails(t), ~RenameTemp(t)
      PROVE  file' = file
  BY <1>2, <1>3 DEF StartTasks, Work, Snapshot, ReadRecord, LoadRest, LockFile, SyncDirectory,
              PointLatest, WriteFails, stored
<1>4. CASE UNCHANGED vars
  BY <1>4 DEF vars, stored
<1> QED BY <1>1, <1>2, <1>3, <1>4 DEF Next

\* A rename makes of the record what its call means to.
LEMMA RenameWrites ==
  ASSUME IInv, NEW t \in Thread, RenameTemp(t), NEW s \in Session, Steady(s)'
  PROVE  Read(s)' = Read(s) \/ (t \in Busy(s) /\ Read(s)' = Written(t, Read(s)))
<1>1. /\ Observed /\ th[t].pc = "temp"
      /\ file' = [file EXCEPT ![th[t].s] = [record |-> th[t].rec, state |-> "whole"]]
  BY DEF RenameTemp, Observed
<1>2. file \in [Session -> Content] /\ Steady(s)
  BY <1>1, Watched DEF IInv, TypeOK
<1>3. CASE th[t].s # s
  <2>1. file'[s] = file[s]
    BY <1>1, <1>2, <1>3
  <2> QED BY <2>1 DEF Read
<1>4. CASE th[t].s = s
  <2>1. t \in Busy(s)
    BY <1>1, <1>4 DEF Busy
  <2>2. th[t].rec = Written(t, Read(s))
    BY <1>1, <1>2, <1>4, <2>1 DEF IInv, Histories, Kept, Alone
  <2>3. Read(s)' = th[t].rec
    BY <1>1, <1>2, <1>4 DEF Read, Parsed
  <2> QED BY <2>1, <2>2, <2>3
<1> QED BY <1>3, <1>4

\* What a loss of power leaves of a record is a beginning of it that lacks nothing
\* that was reported done.
LEMMA PowerLossLeaves ==
  ASSUME IInv, PowerLoss, NEW s \in Session, Steady(s)'
  PROVE  /\ crashes' > crashes
         /\ IsPrefix(Read(s)'.history, Read(s).history)
         /\ ToSet(acked[s]) \subseteq ToSet(Read(s)'.history)
<1>1. crashes \in Nat /\ crashes' = crashes + 1 /\ Observed
  BY DEF PowerLoss, IInv, TypeOK, Observed
<1>2. Kept(s)
  BY <1>1, Watched DEF IInv, Histories
<1>3. Read(s).history \in Seq(Message)
  BY Types DEF IInv, Record
<1>4. PICK c \in undo[s] \cup {file[s]} : file'[s] = c
  BY DEF PowerLoss
<1>5. Read(s)' = Parsed(c)
  BY <1>4 DEF Read
<1>6. IsPrefix(Parsed(c).history, Read(s).history) /\ SoundFor(s, Parsed(c).history)
  <2>1. CASE c \in undo[s]
    BY <1>2, <2>1 DEF Kept, Undoing
  <2>2. CASE c = file[s]
    BY <1>2, <1>3, <2>2, Beginnings DEF Kept, Read
  <2> QED BY <2>1, <2>2
<1> QED BY <1>1, <1>5, <1>6 DEF SoundFor, Sound

\* A record that one thread at a time works on, and no read of which has failed,
\* changes by whole updates, whatever is tried again or given up (update_record,
\* write_atomic); a loss of power leaves a beginning of its history that holds every
\* message whose append was reported done.
THEOREM RecordsChangeWhole == Spec => UpdatesWhole
<1>1. IInv /\ [Next]_vars =>
        [\A s \in Session : Steady(s)' =>
            \/ Read(s)' = Read(s)
            \/ \E t \in Busy(s) : Read(s)' = Written(t, Read(s))
            \/ /\ crashes' > crashes
               /\ IsPrefix(Read(s)'.history, Read(s).history)
               /\ ToSet(acked[s]) \subseteq ToSet(Read(s)'.history)]_vars
  <2> SUFFICES ASSUME IInv, [Next]_vars, NEW s \in Session, Steady(s)'
               PROVE  \/ Read(s)' = Read(s)
                      \/ \E t \in Busy(s) : Read(s)' = Written(t, Read(s))
                      \/ /\ crashes' > crashes
                         /\ IsPrefix(Read(s)'.history, Read(s).history)
                         /\ ToSet(acked[s]) \subseteq ToSet(Read(s)'.history)
    OBVIOUS
  <2>1. CASE file' = file
    BY <2>1 DEF Read
  <2>2. CASE PowerLoss
    BY <2>2, PowerLossLeaves
  <2>3. ASSUME NEW t \in Thread, RenameTemp(t)
        PROVE  Read(s)' = Read(s) \/ \E u \in Busy(s) : Read(s)' = Written(u, Read(s))
    BY <2>3, RenameWrites
  <2> QED BY <2>1, <2>2, <2>3, StepKinds
<1> QED BY <1>1, Invariance, PTL DEF Spec, UpdatesWhole
=============================================================================
