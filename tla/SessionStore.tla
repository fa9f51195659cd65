------------------------------ MODULE SessionStore ------------------------------
(* The stored sessions: FileBackedSessionStore (history/session.rs), the       *)
(* writers of AppState (state/app_state.rs), the session switch of the         *)
(* terminal (bootstrap/runtime.rs) and the saves of TaskListManager.           *)
(*                                                                             *)
(* A session is one JSON file; a second file names the session used last.      *)
(* Every update reads the whole record, changes it and writes it back; only    *)
(* the write is under the file lock.  The threads of one process update        *)
(* sessions: the turn (Main) appends messages and switches sessions,           *)
(* background agents (Background) save the task list they share with it, and   *)
(* the shutdown or the housekeeping task (Guard) saves the session of the      *)
(* AppState it cloned when the process started.  A write may fail at any of    *)
(* its steps, a failed read counts as no record, and the machine may lose      *)
(* power at any step; the process then starts again.                           *)
EXTENDS Naturals, Sequences, SequencesExt, FiniteSets

CONSTANTS
    Session,        \* the session ids the program may draw
    Main, Guard,    \* the turn; the shutdown or housekeeping task
    Background,     \* the background agents that change the task list
    NoSession,      \* no session id: nothing named last, no switch
    Nobody,         \* a free file lock
    MaxAttempts,    \* SESSION_PERSIST_MAX_ATTEMPTS
    MaxMessages, MaxLists, MaxFaults, MaxMisreads, MaxCrashes, MaxGuards, MaxSwitches  \* bounds

ASSUME WriterAssumption ==
    /\ Session # {} /\ NoSession \notin Session
    /\ IsFiniteSet(Background)
    /\ Main # Guard /\ {Main, Guard} \cap Background = {}
    /\ Nobody \notin Background \cup {Main, Guard}
    /\ MaxAttempts \in Nat \ {0} /\ MaxMessages \in Nat

Thread == Background \cup {Main, Guard}
Message == 1 .. MaxMessages
NoRecord == [history |-> << >>, tasks |-> 0]
Record == [history : Seq(Message), tasks : Nat]
Content == [record : Record, state : {"absent", "whole", "torn"}]

VARIABLES
    file,       \* the record file of each session
    latest,     \* the session the file latest_session names
    undo,       \* the contents a loss of power may give back to each file
    former,     \* the names it may give back to latest_session
    lock,       \* the holder of the lock of each record file
    th,         \* what each thread is doing
    app,        \* the session of the running process and its history in memory
    clone,      \* the session of the clone the guard holds, and its history
    list,       \* the version of the task list each session's manager holds
    used,       \* the session ids drawn
    sent, faults, misreads, crashes, guards, switches,   \* counters under the bounds
    acked,      \* ghost: the messages whose append was reported done
    alone,      \* ghost: no two threads have worked on the session at a time
    redone,     \* ghost: a write was tried again after its file had been replaced
    misread,    \* ghost: a read of the session's record has failed
    unsaved     \* ghost: the last save of the session's task list failed

stored == <<file, latest, undo, former, lock>>
ghosts == <<acked, alone, redone, misread, unsaved>>
vars == <<stored, th, app, clone, list, used, sent, faults, misreads, crashes, guards,
          switches, ghosts>>

Idle == [pc |-> "idle", op |-> "none", s |-> NoSession, rec |-> NoRecord,
         synced |-> FALSE, msg |-> 0, tries |-> 1, goal |-> NoSession]
PcType == {"idle", "snapshot", "read", "load", "lock", "temp", "renamed", "latest",
           "resolve", "bind"}
OpType == {"none", "start", "append", "tasks", "current", "resolved"}

Readable(s) == file[s].state = "whole"
Parsed(c) == IF c.state = "whole" THEN c.record ELSE NoRecord
\* read_record: a file that cannot be read or parsed counts as no record.
Read(s) == Parsed(file[s])
Outcome(s) == IF Readable(s) /\ misreads < MaxMisreads THEN BOOLEAN ELSE {TRUE}
Got(s, ok) == IF ok THEN Read(s) ELSE NoRecord
Missed(s, ok) == IF ok THEN {} ELSE {s}
Busy(s) == {t \in Thread : th[t].pc # "idle" /\ th[t].s = s}

Goto(t, pc) == th' = [th EXCEPT ![t].pc = pc]
Update(t, pc, rec) == th' = [th EXCEPT ![t].pc = pc, ![t].rec = rec]
Begin(t, op, pc, s, msg, goal) ==
    th' = [th EXCEPT ![t] = [Idle EXCEPT !.pc = pc, !.op = op, !.s = s,
                                         !.msg = msg, !.goal = goal]]

\* The process starts with session s: its record is saved first.
Starting(s, history) ==
    [Idle EXCEPT !.pc = "load", !.op = "start", !.s = s, !.rec = [NoRecord EXCEPT !.history = history]]
NoUndo == [s \in Session |-> {}]

\* The ghosts follow the step, in which the reads of the sessions missed failed.
Observe(missed) ==
    /\ misreads' = misreads + Cardinality(missed)
    /\ misread' = [s \in Session |-> misread[s] \/ s \in missed]
    /\ alone' = [s \in Session |-> alone[s] /\ Cardinality(Busy(s)') <= 1]
    /\ redone' = [s \in Session |-> redone[s] \/ \E t \in Thread :
           th[t].s = s /\ th[t].pc \in {"renamed", "latest"} /\ faults' > faults /\ th'[t] # th[t]]
    /\ unsaved' = [s \in Session |->
           /\ unsaved[s] \/ \E t \in Thread :
                  th[t].s = s /\ th[t].op = "tasks" /\ faults' > faults /\ th'[t] # th[t]
           /\ Read(s)'.tasks # list'[s]]

---------------------------------------------------------------------------------
First == CHOOSE s \in Session : TRUE     \* generate_fresh_session_id

Init ==
    /\ file = [s \in Session |-> [record |-> NoRecord, state |-> "absent"]]
    /\ latest = NoSession
    /\ lock = [s \in Session |-> Nobody]
    /\ undo = NoUndo /\ former = {}
    /\ th = [t \in Thread |-> IF t = Main THEN Starting(First, << >>) ELSE Idle]
    /\ app = [session |-> First, mem |-> << >>]
    /\ clone = app
    /\ used = {First}
    /\ list = [s \in Session |-> 0]
    /\ sent = 0 /\ faults = 0 /\ misreads = 0 /\ crashes = 0 /\ guards = 0 /\ switches = 0
    /\ acked = [s \in Session |-> << >>]
    /\ alone = [s \in Session |-> TRUE]
    /\ redone = [s \in Session |-> FALSE]
    /\ misread = [s \in Session |-> FALSE]
    /\ unsaved = [s \in Session |-> FALSE]

Up == app.session # NoSession
Started == Up /\ th[Main].op # "start"

\* append_current_session_history_entries: the store first, the memory after it.
StartAppend ==
    /\ Up /\ th[Main].pc = "idle" /\ sent < MaxMessages
    /\ sent' = sent + 1
    /\ Begin(Main, "append", "read", app.session, sent + 1, NoSession)
    /\ UNCHANGED <<stored, app, clone, list, used, faults, crashes, guards, switches, acked>>
    /\ Observe({})

\* A change of the task list under the manager's lock; it is saved after it.
StartTasks(t) ==
    /\ Started /\ th[t].pc = "idle" /\ t # Guard /\ list[app.session] < MaxLists
    /\ list' = [list EXCEPT ![app.session] = @ + 1]
    /\ Begin(t, "tasks", "snapshot", app.session, 0, NoSession)
    /\ UNCHANGED <<stored, app, clone, used, sent, faults, crashes, guards, switches, acked>>
    /\ Observe({})

\* persist_snapshot copies the list of the moment, which may be a later one.
Snapshot(t) ==
    /\ th[t].pc = "snapshot"
    /\ th' = [th EXCEPT ![t].pc = "read", ![t].msg = list[th[t].s]]
    /\ UNCHANGED <<stored, app, clone, list, used, sent, faults, crashes, guards, switches, acked>>
    /\ Observe({})

\* execute_runtime_shutdown and the zombie check save the session of their clone.
StartGuard ==
    /\ Started /\ th[Guard].pc = "idle" /\ guards < MaxGuards
    /\ guards' = guards + 1
    /\ Begin(Guard, "current", "read", clone.session, 0, NoSession)
    /\ UNCHANGED <<stored, app, clone, list, used, sent, faults, crashes, switches, acked>>
    /\ Observe({})

\* /new and /resume save the session they leave first.
Switch(s) ==
    /\ Up /\ th[Main].pc = "idle" /\ s # app.session /\ switches < MaxSwitches
    /\ switches' = switches + 1
    /\ s \in used => Readable(s)
    /\ Begin(Main, "current", "read", app.session, 0, s)
    /\ used' = used \cup {s}
    /\ UNCHANGED <<stored, app, clone, list, sent, faults, crashes, guards, acked>>
    /\ Observe({})

\* update_record and canonical_session_history: the record is read without the lock.
ReadRecord(t) ==
    LET s == th[t].s IN
    /\ th[t].pc = "read"
    /\ \E ok \in Outcome(s) :
          /\ \/ th[t].op = "append"
                /\ Update(t, "lock", [Got(s, ok) EXCEPT !.history = Append(@, th[t].msg)])
             \/ th[t].op = "tasks"
                /\ Update(t, "lock", [Got(s, ok) EXCEPT !.tasks = th[t].msg])
             \/ th[t].op = "current"
                /\ Update(t, "load",
                      [NoRecord EXCEPT !.history =
                          IF ok /\ Readable(s) THEN Read(s).history
                          ELSE IF t = Guard THEN clone.mem ELSE app.mem])
          /\ UNCHANGED <<stored, app, clone, list, used, sent, faults, crashes, guards, switches,
                         acked>>
          /\ Observe(Missed(s, ok))

\* Mutant: the full record leaves out the task list.
LoadRestBare(t) ==
    /\ th[t].pc = "load"
    /\ Goto(t, "lock")
    /\ UNCHANGED <<stored, app, clone, list, used, sent, faults, crashes, guards, switches, acked>>
    /\ Observe({})

\* The full record keeps what load_task_list finds.
LoadRest(t) ==
    LET s == th[t].s IN
    /\ th[t].pc = "load"
    /\ \E ok \in Outcome(s) :
          /\ Update(t, "lock", [th[t].rec EXCEPT !.tasks = Got(s, ok).tasks])
          /\ UNCHANGED <<stored, app, clone, list, used, sent, faults, crashes, guards, switches,
                         acked>>
          /\ Observe(Missed(s, ok))

\* Mutant: the name of the latest session is written before the record.
LockFileLatestFirst(t) ==
    /\ th[t].pc = "lock" /\ lock[th[t].s] = Nobody
    /\ lock' = [lock EXCEPT ![th[t].s] = t]
    /\ latest' = th[t].s
    /\ th' = [th EXCEPT ![t].pc = "temp", ![t].synced = TRUE]
    /\ UNCHANGED <<file, undo, former, app, clone, list, used, sent, faults, crashes, guards, switches, acked>>
    /\ Observe({})

\* Mutant: the temporary file is renamed without having been synced.
LockFileUnsynced(t) ==
    /\ th[t].pc = "lock" /\ lock[th[t].s] = Nobody
    /\ lock' = [lock EXCEPT ![th[t].s] = t]
    /\ th' = [th EXCEPT ![t].pc = "temp", ![t].synced = FALSE]
    /\ UNCHANGED <<file, latest, undo, former, app, clone, list, used, sent, faults, crashes, guards,
                   switches, acked>>
    /\ Observe({})

\* with_file_lock, and the temporary file of write_atomic written and synced.
LockFile(t) ==
    /\ th[t].pc = "lock" /\ lock[th[t].s] = Nobody
    /\ lock' = [lock EXCEPT ![th[t].s] = t]
    /\ th' = [th EXCEPT ![t].pc = "temp", ![t].synced = TRUE]
    /\ UNCHANGED <<file, latest, undo, former, app, clone, list, used, sent, faults, crashes, guards,
                   switches, acked>>
    /\ Observe({})

\* Until the directory is synced a loss of power may undo the rename; the data of
\* a temporary file that was not synced may then be lost as well.
RenameTemp(t) ==
    LET s == th[t].s IN
    /\ th[t].pc = "temp"
    /\ file' = [file EXCEPT ![s] = [record |-> th[t].rec, state |-> "whole"]]
    /\ undo' = [undo EXCEPT ![s] = @ \cup {file[s]} \cup
           IF th[t].synced THEN {} ELSE {[record |-> th[t].rec, state |-> "torn"]}]
    /\ Goto(t, "renamed")
    /\ UNCHANGED <<latest, former, lock, app, clone, list, used, sent, faults, crashes, guards,
                   switches, acked>>
    /\ Observe({})

\* The directory, which holds all the files, is synced and the lock released.
SyncDirectory(t) ==
    /\ th[t].pc = "renamed"
    /\ undo' = NoUndo /\ former' = {}
    /\ lock' = [lock EXCEPT ![th[t].s] = Nobody]
    /\ Goto(t, "latest")
    /\ UNCHANGED <<file, latest, app, clone, list, used, sent, faults, crashes, guards, switches, acked>>
    /\ Observe({})

\* write_latest_session_id, whose write_atomic syncs the directory too, then what
\* the caller does with the success.
PointLatest(t) ==
    /\ th[t].pc = "latest"
    /\ latest' = th[t].s
    /\ undo' = NoUndo /\ former' = {}
    /\ \/ /\ th[t].op = "append"
          /\ th' = [th EXCEPT ![t] = Idle]
          /\ app' = [app EXCEPT !.mem = Append(@, th[t].msg)]
          /\ acked' = [acked EXCEPT ![th[t].s] = Append(@, th[t].msg)]
       \/ /\ th[t].op = "tasks" \/ (th[t].op = "current" /\ th[t].goal = NoSession)
          /\ th' = [th EXCEPT ![t] = Idle]
          /\ UNCHANGED <<app, acked>>
       \/ /\ th[t].op = "current" /\ th[t].goal # NoSession
          /\ th' = [th EXCEPT ![t].pc = "resolve", ![t].s = th[t].goal]
          /\ UNCHANGED <<app, acked>>
       \/ /\ th[t].op = "resolved"
          /\ th' = [th EXCEPT ![t] = Idle]
          /\ app' = [session |-> th[t].s, mem |-> th[t].rec.history]
          /\ UNCHANGED acked
       \/ /\ th[t].op = "start"
          /\ Goto(t, "bind")
          /\ UNCHANGED <<app, acked>>
    /\ UNCHANGED <<file, lock, clone, list, used, sent, faults, crashes, guards, switches>>
    /\ Observe({})

\* Mutant: a session that is resumed is started afresh.
ResolveFresh ==
    LET s == th[Main].s IN
    /\ th[Main].pc = "resolve"
    /\ th' = [th EXCEPT ![Main].pc = "load", ![Main].op = "resolved", ![Main].tries = 1,
                        ![Main].rec = NoRecord]
    /\ list' = [list EXCEPT ![s] = Read(s).tasks]
    /\ UNCHANGED <<stored, app, clone, used, sent, faults, crashes, guards, switches, acked>>
    /\ Observe({})

\* resolve_session_state or build_fresh_session_state, and the managers rebound.
\* A record that cannot be loaded leaves the session resumed with no history.
Resolve ==
    LET s == th[Main].s IN
    /\ th[Main].pc = "resolve"
    /\ \E loaded, rebound \in Outcome(s) :
          /\ th' = [th EXCEPT ![Main].pc = "load", ![Main].op = "resolved", ![Main].tries = 1,
                              ![Main].rec = [NoRecord EXCEPT !.history = Got(s, loaded).history]]
          /\ list' = [list EXCEPT ![s] = Got(s, rebound).tasks]
          /\ UNCHANGED <<stored, app, clone, used, sent, faults, crashes, guards, switches, acked>>
          /\ Observe(Missed(s, loaded) \cup Missed(s, rebound))

\* The task list manager of the session the process starts with loads its list.
Bind ==
    LET s == th[Main].s IN
    /\ th[Main].pc = "bind"
    /\ \E ok \in Outcome(s) :
          /\ th' = [th EXCEPT ![Main] = Idle]
          /\ list' = [list EXCEPT ![s] = Got(s, ok).tasks]
          /\ UNCHANGED <<stored, app, clone, used, sent, faults, crashes, guards, switches, acked>>
          /\ Observe(Missed(s, ok))

\* A write that fails before the file is replaced or, when the directory cannot be
\* synced, after it.  After a passing error persist_store_write_with_retry starts
\* the call again: an append reads the record anew, a full record is written as it
\* was.  After any other error, or too many, the call is given up: a switch that
\* cannot be saved does not happen.  The task list manager and the start of the
\* process ignore the error.
FirstPhase(t) == IF th[t].op = "append" THEN "read" ELSE "lock"

WriteFails(t) ==
    /\ faults < MaxFaults /\ th[t].pc \in {"temp", "renamed", "latest"}
    /\ faults' = faults + 1
    /\ lock' = IF th[t].pc = "latest" THEN lock ELSE [lock EXCEPT ![th[t].s] = Nobody]
    /\ \/ UNCHANGED <<latest, former>>
       \/ /\ th[t].pc = "latest"
          /\ latest' = th[t].s /\ former' = former \cup {latest}
    /\ \/ /\ th[t].op \notin {"tasks", "start"} /\ th[t].tries < MaxAttempts
          /\ th' = [th EXCEPT ![t].pc = FirstPhase(t), ![t].tries = @ + 1]
       \/ th[t].op # "start" /\ th' = [th EXCEPT ![t] = Idle]
       \/ th[t].op = "start" /\ Goto(t, "bind")
    /\ UNCHANGED <<file, undo, app, clone, list, used, sent, crashes, guards, switches, acked>>
    /\ Observe({})

\* Power is lost, perhaps while latest_session is being replaced: each rename whose
\* directory was not synced since may be undone.
PowerLoss ==
    /\ Up /\ crashes < MaxCrashes
    /\ crashes' = crashes + 1
    /\ file' \in [Session -> UNION {undo[s] \cup {file[s]} : s \in Session}]
    /\ \A s \in Session : file'[s] \in undo[s] \cup {file[s]}
    /\ latest' \in former \cup {latest} \cup {th[t].s : t \in {u \in Thread : th[u].pc = "latest"}}
    /\ undo' = NoUndo /\ former' = {}
    /\ th' = [t \in Thread |-> Idle]
    /\ lock' = [s \in Session |-> Nobody]
    /\ app' = [session |-> NoSession, mem |-> << >>]
    /\ UNCHANGED <<clone, list, used, sent, faults, guards, switches, acked>>
    /\ Observe({})

\* The process starts again: with --continue, in the session latest names; with
\* --resume, in any; without them, or when what --continue asks for cannot be
\* loaded, in a new one.  A session that cannot be loaded is resumed with no history.
Restart ==
    /\ ~Up
    /\ \E s \in Session : \E ok \in Outcome(s) :
          /\ app' = [session |-> s, mem |-> Got(s, ok).history]
          /\ clone' = app'
          /\ th' = [th EXCEPT ![Main] = Starting(s, Got(s, ok).history)]
          /\ used' = used \cup {s}
          /\ UNCHANGED <<stored, list, sent, faults, crashes, guards, switches, acked>>
          /\ Observe(Missed(s, ok))

Work(t) == \/ Snapshot(t) \/ ReadRecord(t) \/ LoadRest(t) \/ LockFile(t)
           \/ RenameTemp(t) \/ SyncDirectory(t) \/ PointLatest(t)

Next ==
    \/ StartAppend \/ StartGuard \/ Resolve \/ Bind \/ PowerLoss \/ Restart
    \/ \E s \in Session : Switch(s)
    \/ \E t \in Thread : StartTasks(t) \/ Work(t) \/ WriteFails(t)

Spec == Init /\ [][Next]_vars

---------------------------------------------------------------------------------
\* Type invariant; no call is tried more than MaxAttempts times.
TypeOK ==
    /\ file \in [Session -> Content] /\ undo \in [Session -> SUBSET Content]
    /\ latest \in Session \cup {NoSession} /\ former \subseteq Session \cup {NoSession}
    /\ lock \in [Session -> Thread \cup {Nobody}]
    /\ th \in [Thread -> [pc : PcType, op : OpType, s : Session \cup {NoSession},
                          rec : Record, synced : BOOLEAN, msg : Nat, tries : 1 .. MaxAttempts,
                          goal : Session \cup {NoSession}]]
    /\ app \in [session : Session \cup {NoSession}, mem : Seq(Message)]
    /\ clone \in [session : Session, mem : Seq(Message)]
    /\ list \in [Session -> Nat]
    /\ used \subseteq Session
    /\ sent \in 0 .. MaxMessages
    /\ {faults, misreads, crashes, guards, switches} \subseteq Nat
    /\ acked \in [Session -> Seq(Message)]
    /\ {alone, redone, misread, unsaved} \subseteq [Session -> BOOLEAN]

\* The file latest_session always names a session whose record can be read,
\* whatever step the power is lost at: --continue never resumes an empty
\* session in the place of one that was used (write_record).
LatestReadable == latest # NoSession => Readable(latest)

\* No two threads have worked on the session at the same time, and no read of its
\* record has failed.  The store answers for no other session: an update of two
\* threads is lost, and after a failed read an update stores a record with nothing
\* in it but its own change.
Steady(s) == alone[s] /\ ~misread[s]

\* Every message whose append was reported done is in the stored history of a
\* steady session, and in each one a loss of power may leave, in the order of the
\* conversation: through session switches, failed writes, calls given up, directories
\* that could not be synced and restarts.  A message is stored twice only by an
\* append tried again after its file had been replaced.
AckedKept == \A s \in Session : Steady(s) =>
    \A c \in undo[s] \cup {file[s]} :
        LET history == Parsed(c).history IN
        /\ ToSet(acked[s]) \subseteq ToSet(history)
        /\ \A i, j \in DOMAIN history : i < j =>
               history[i] < history[j] \/ (redone[s] /\ history[i] = history[j])

\* When nothing is being saved in a steady session, its stored task list is the one
\* the manager of the running session holds, unless the last save of the list
\* failed: no full record written over the session drops it.
ListStored == \A s \in Session :
    (app.session = s /\ Steady(s) /\ Busy(s) = {} /\ ~unsaved[s]) => Read(s).tasks = list[s]

\* What the call of thread t means to make of a record r.
Written(t, r) ==
    CASE th[t].op = "append" -> [r EXCEPT !.history = Append(@, th[t].msg)]
      [] th[t].op = "tasks" -> [r EXCEPT !.tasks = th[t].msg]
      [] OTHER -> r

\* The record of a steady session changes by whole updates, although a call reads
\* it, changes it and writes it back in steps, tries again and may be given up or
\* cut off by a loss of power.  A step leaves the record as it is or makes of it what
\* one call means to: a message added, a task list set; a save of the full record by
\* the guard, a switch or a start changes nothing.  A loss of power may take back
\* several updates whose directory was not synced: what is left of the history is a
\* beginning of it that holds every message whose append was reported done.
UpdatesWhole == [][\A s \in Session : Steady(s)' =>
    \/ Read(s)' = Read(s)
    \/ \E t \in Busy(s) : Read(s)' = Written(t, Read(s))
    \/ /\ crashes' > crashes
       /\ IsPrefix(Read(s)'.history, Read(s).history)
       /\ ToSet(acked[s]) \subseteq ToSet(Read(s)'.history)]_vars
=================================================================================
