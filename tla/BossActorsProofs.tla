---------------------------- MODULE BossActorsProofs ----------------------------
(* Proofs about BossActors for any threads and any number of workers.            *)
EXTENDS BossActors, TLAPS

\* A caller waits in one place of one mailbox, or is being served.
Queues ==
    \A a \in Actor :
        /\ \A i, j \in DOMAIN actor[a].box : actor[a].box[i] = actor[a].box[j] => i = j
        /\ actor[a].serves # Nobody =>
              /\ actor[a].state = "open"
              /\ actor[a].serves \notin Boxed(a)
              /\ caller[actor[a].serves].pc = "queued"
              /\ To(caller[actor[a].serves].cmd) = a

\* Who asks what.
Commands ==
    \A c \in Caller :
        /\ caller[c].cmd \in {"StopA", "StopB"} => c = Stopper
        /\ c = Stopper => caller[c].cmd \in {"none", "StopA", "StopB"}
        /\ caller[c].cmd = "none" <=> caller[c].pc \in {"idle", "over"}
        /\ caller[c].pc = "over" => c \in Worker
        /\ caller[c].cmd = "Dispatch" => ~Inline
        /\ caller[c].cmd = "Review" /\ ~Inline => c \in Worker /\ worker[c] = "ended"

\* A handler is half-way only in a review or a dispatch.
Insides ==
    /\ actor["A"].inside => Serves("A", "Review")
    /\ actor["B"].inside => Serves("B", "Dispatch")
    /\ caller[Designer].pc # "idle" => actor["A"].inside

\* Workers are launched in order, and their notifiers run when they have ended.
Workers ==
    /\ Inline => \A w \in Worker : worker[w] = "none"
    /\ \A w \in Worker : worker[w] \in {"none", "live"} => caller[w].pc = "idle"
    /\ \A w \in Worker : worker[w] = "killed" => caller[w].pc \in {"idle", "over"}
    /\ \A v, w \in Worker : v < w /\ worker[w] # "none" => worker[v] # "none"

\* The step is with one thread: it is being dispatched, or its worker runs or is
\* not reviewed yet; the plan says so.
Dispatching(c) ==
    caller[c].cmd = "Dispatch" /\ ~(actor["B"].serves = c /\ actor["B"].inside)
Holding(w) ==
    /\ worker[w] # "none" /\ caller[w].pc # "over"
    /\ ~(actor["A"].serves = w /\ actor["A"].inside)
OneStep ==
    /\ \A c, d \in Caller : Dispatching(c) /\ Dispatching(d) => c = d
    /\ \A v, w \in Worker : Holding(v) /\ Holding(w) => v = w
    /\ \A c \in Caller, w \in Worker : ~(Dispatching(c) /\ Holding(w))
    /\ \A c \in Caller : Dispatching(c) => busy
    /\ \A w \in Worker : Holding(w) => busy

\* How far stop is says which actors no longer take commands.
Stops ==
    /\ caller[Stopper].pc # "idle" => stop.at = "asking"
    /\ caller[Stopper].cmd = "StopB" => actor["A"].state # "open"
    /\ stop.at = "asking" /\ caller[Stopper].pc = "idle" =>
          \A a \in Actor : actor[a].state # "open"
    /\ stop.at = "done" => \A a \in Actor : actor[a].state # "open"

\* While B is launching, nothing but the new worker runs.
Recorded == actor["B"].inside => \A w \in Live : IsNewest(w)

IInv == /\ TypeOK /\ Queues /\ Commands /\ Insides /\ Workers /\ OneStep /\ Stops
        /\ Recorded /\ LiveIsRecorded /\ NothingAfterStop

LEMMA Initially == Init => IInv
<1> SUFFICES ASSUME Init PROVE IInv
  OBVIOUS
<1> USE ActorsAssumption
<1>0. \A a \in Actor : /\ actor[a] = [box |-> << >>, serves |-> Nobody, inside |-> FALSE, state |-> "open"]
                      /\ Boxed(a) = {}
  BY DEF Init, Boxed
<1>1. TypeOK
  <2>1. actor \in [Actor -> [box : Seq(Caller), serves : Caller \cup {Nobody},
                            inside : BOOLEAN, state : {"open", "stopping", "closed"}]]
    <3>1. << >> \in Seq(Caller)
      OBVIOUS
    <3> QED BY <3>1 DEF Init
  <2>2. caller \in [Caller -> [pc : {"idle", "asking", "queued", "over"}, cmd : Command]]
    BY DEF Init, Idle, Command
  <2> QED BY <1>0, <2>1, <2>2 DEF Init, TypeOK, Worker, Written
<1>5. Queues
  BY <1>0 DEF Queues, Actor
<1>2. Commands /\ Insides /\ Workers /\ Stops
  BY DEF Init, Commands, Insides, Workers, Stops, Actor, Caller, Worker, Idle
<1>3. OneStep
  BY DEF Init, OneStep, Dispatching, Holding, Actor, Caller, Worker, Idle
<1>4. Recorded /\ LiveIsRecorded /\ NothingAfterStop
  BY DEF Init, Recorded, LiveIsRecorded, NothingAfterStop, Live, Worker, Actor
<1> QED BY <1>1, <1>5, <1>2, <1>3, <1>4 DEF IInv

\* What a caller is after its answer.
LEMMA Answers ==
  ASSUME IInv, NEW C \in SUBSET Caller, Reply(C)
  PROVE  /\ caller' = [c \in Caller |-> IF c \in C THEN AfterReply(c) ELSE caller[c]]
         /\ \A c \in C : /\ caller'[c].cmd \in {"none", "StopB"}
                         /\ caller'[c].pc \in {"idle", "over", "asking"}
                         /\ c \in Worker => caller'[c].pc = "over" /\ caller'[c].cmd = "none"
                         /\ c \notin Worker /\ caller[c].cmd # "StopA" => caller'[c] = Idle
                         /\ caller[c].cmd = "StopA" => caller'[c] = Asking("StopB") /\ c = Stopper
         /\ caller' \in [Caller -> [pc : {"idle", "asking", "queued", "over"}, cmd : Command]]
<1>1. caller' = [c \in Caller |-> IF c \in C THEN AfterReply(c) ELSE caller[c]]
  BY DEF Reply
<1>2. ASSUME NEW c \in C
      PROVE  /\ caller'[c].cmd \in {"none", "StopB"}
             /\ caller'[c].pc \in {"idle", "over", "asking"}
             /\ c \in Worker => caller'[c].pc = "over" /\ caller'[c].cmd = "none"
             /\ c \notin Worker /\ caller[c].cmd # "StopA" => caller'[c] = Idle
             /\ caller[c].cmd = "StopA" => caller'[c] = Asking("StopB") /\ c = Stopper
             /\ caller'[c] \in [pc : {"idle", "asking", "queued", "over"}, cmd : Command]
  <2>1. caller'[c] = AfterReply(c) /\ c \in Caller
    BY <1>1
  <2>2. caller[c].cmd = "StopA" => c = Stopper /\ c \notin Worker
    BY <2>1, ActorsAssumption DEF IInv, Commands
  <2> QED BY <2>1, <2>2 DEF AfterReply, Idle, Asking, Command
<1>3. caller' \in [Caller -> [pc : {"idle", "asking", "queued", "over"}, cmd : Command]]
  BY <1>1, <1>2 DEF IInv, TypeOK
<1> QED BY <1>1, <1>2, <1>3
\* Adding to a queue, and taking its first element.
LEMMA Appended ==
  ASSUME NEW S, NEW s \in Seq(S), NEW x \in S, NEW t, t = Append(s, x)
  PROVE  /\ t \in Seq(S)
         /\ {t[i] : i \in DOMAIN t} = {s[i] : i \in DOMAIN s} \cup {x}
         /\ (/\ \A i, j \in DOMAIN s : s[i] = s[j] => i = j
             /\ x \notin {s[i] : i \in DOMAIN s})
            => \A i, j \in DOMAIN t : t[i] = t[j] => i = j
<1>1. /\ t \in Seq(S) /\ Len(s) \in Nat /\ DOMAIN s = 1 .. Len(s)
      /\ DOMAIN t = 1 .. (Len(s) + 1)
  OBVIOUS
<1>2. t[Len(s) + 1] = x /\ \A i \in 1 .. Len(s) : t[i] = s[i]
  OBVIOUS
<1>3. {t[i] : i \in DOMAIN t} = {s[i] : i \in DOMAIN s} \cup {x}
  <2>1. ASSUME NEW i \in DOMAIN t PROVE t[i] \in {s[j] : j \in DOMAIN s} \cup {x}
    BY <1>1, <1>2, <2>1
  <2>2. ASSUME NEW i \in DOMAIN s PROVE s[i] \in {t[j] : j \in DOMAIN t}
    BY <1>1, <1>2, <2>2
  <2>3. x \in {t[j] : j \in DOMAIN t}
    BY <1>1, <1>2
  <2> QED BY <2>1, <2>2, <2>3
<1>4. ASSUME \A i, j \in DOMAIN s : s[i] = s[j] => i = j,
             x \notin {s[i] : i \in DOMAIN s},
             NEW i \in DOMAIN t, NEW j \in DOMAIN t, t[i] = t[j]
      PROVE  i = j
  BY <1>1, <1>2, <1>4
<1> QED BY <1>1, <1>3, <1>4

LEMMA Headed ==
  ASSUME NEW S, NEW s \in Seq(S), s # << >>, NEW t, t = Tail(s),
         \A i, j \in DOMAIN s : s[i] = s[j] => i = j
  PROVE  /\ t \in Seq(S) /\ Head(s) \in {s[i] : i \in DOMAIN s}
         /\ {t[i] : i \in DOMAIN t} \subseteq {s[i] : i \in DOMAIN s}
         /\ Head(s) \notin {t[i] : i \in DOMAIN t}
         /\ \A i, j \in DOMAIN t : t[i] = t[j] => i = j
<1>1. /\ t \in Seq(S) /\ Len(s) \in Nat \ {0} /\ DOMAIN s = 1 .. Len(s)
      /\ DOMAIN t = 1 .. (Len(s) - 1) /\ Head(s) = s[1]
  OBVIOUS
<1>2. \A i \in DOMAIN t : t[i] = s[i + 1] /\ i + 1 \in DOMAIN s
  BY <1>1
<1>3. 1 \in DOMAIN s
  BY <1>1
<1>4. ASSUME NEW i \in DOMAIN t PROVE t[i] # Head(s)
  BY <1>1, <1>2, <1>3, <1>4
<1>5. ASSUME NEW i \in DOMAIN t, NEW j \in DOMAIN t, t[i] = t[j] PROVE i = j
  BY <1>1, <1>2, <1>5
<1> QED BY <1>1, <1>2, <1>3, <1>4, <1>5

Types ==
    /\ actor \in [Actor -> [box : Seq(Caller), serves : Caller \cup {Nobody},
                            inside : BOOLEAN, state : {"open", "stopping", "closed"}]]
    /\ caller \in [Caller -> [pc : {"idle", "asking", "queued", "over"}, cmd : Command]]
    /\ worker \in [Worker -> {"none", "live", "ended", "killed"}]
    /\ last \in Written /\ busy \in BOOLEAN
    /\ stop \in [at : {"no", "listed", "asking", "done"}, listed : SUBSET Worker]

\* A served caller's command ends the handler's work.
LEMMA Freed ==
  ASSUME IInv, NEW a \in Actor, actor' = Served(a)
  PROVE  /\ actor' \in [Actor -> [box : Seq(Caller), serves : Caller \cup {Nobody},
                            inside : BOOLEAN, state : {"open", "stopping", "closed"}]]
         /\ \A b \in Actor : /\ actor'[b].box = actor[b].box /\ actor'[b].state = actor[b].state
                             /\ Boxed(b)' = Boxed(b)
         /\ actor'[a].serves = Nobody /\ actor'[a].inside = FALSE
         /\ \A b \in Actor \ {a} : actor'[b] = actor[b]
<1>1. /\ actor[a] \in [box : Seq(Caller), serves : Caller \cup {Nobody},
                       inside : BOOLEAN, state : {"open", "stopping", "closed"}]
      /\ actor' = [actor EXCEPT ![a] = [actor[a] EXCEPT !.serves = Nobody, !.inside = FALSE]]
  BY DEF IInv, TypeOK, Served
<1>2. /\ actor'[a] = [actor[a] EXCEPT !.serves = Nobody, !.inside = FALSE]
      /\ \A b \in Actor \ {a} : actor'[b] = actor[b]
  BY <1>1 DEF IInv, TypeOK
<1>3. /\ actor'[a] \in [box : Seq(Caller), serves : Caller \cup {Nobody},
                        inside : BOOLEAN, state : {"open", "stopping", "closed"}]
      /\ actor'[a].serves = Nobody /\ actor'[a].inside = FALSE
      /\ actor'[a].box = actor[a].box /\ actor'[a].state = actor[a].state
  BY <1>1, <1>2
<1>4. \A b \in Actor : actor'[b].box = actor[b].box /\ actor'[b].state = actor[b].state
  BY <1>2, <1>3
<1>5. \A b \in Actor : Boxed(b)' = Boxed(b)
  BY <1>4 DEF Boxed
<1>6. actor' \in [Actor -> [box : Seq(Caller), serves : Caller \cup {Nobody},
                           inside : BOOLEAN, state : {"open", "stopping", "closed"}]]
  BY <1>1, <1>3 DEF IInv, TypeOK
<1> QED BY <1>2, <1>3, <1>4, <1>5, <1>6

\* A handler that answers: what remains is to say what becomes of the step.
LEMMA AnswerStep ==
  ASSUME IInv, NEW a \in Actor, NEW c \in Caller, actor[a].serves = c, c # Stopper,
         Reply({c}), actor' = Served(a), UNCHANGED <<worker, stop>>,
         last' \in Written, busy' \in BOOLEAN,
         caller[c].cmd = "Review" /\ a = "A" /\ actor[a].inside => caller[Designer].pc = "idle",
         c # Designer \/ actor["A"].inside
  PROVE  TypeOK' /\ Queues' /\ Commands' /\ Insides' /\ Workers' /\ Stops'
<1> USE ActorsAssumption
<1>0. /\ actor' \in [Actor -> [box : Seq(Caller), serves : Caller \cup {Nobody},
                            inside : BOOLEAN, state : {"open", "stopping", "closed"}]]
      /\ \A b \in Actor : /\ actor'[b].box = actor[b].box /\ actor'[b].state = actor[b].state
                          /\ Boxed(b)' = Boxed(b)
      /\ actor'[a].serves = Nobody /\ actor'[a].inside = FALSE
      /\ \A b \in Actor \ {a} : actor'[b] = actor[b]
  BY Freed
<1>1. /\ caller' \in [Caller -> [pc : {"idle", "asking", "queued", "over"}, cmd : Command]]
      /\ \A d \in Caller \ {c} : caller'[d] = caller[d]
      /\ caller'[c].cmd = "none"
      /\ caller'[c].pc = IF c \in Worker THEN "over" ELSE "idle"
  <2>1. {c} \in SUBSET Caller /\ caller[c].cmd # "StopA"
    BY DEF IInv, Commands
  <2>2. /\ caller' = [d \in Caller |-> IF d \in {c} THEN AfterReply(d) ELSE caller[d]]
        /\ caller' \in [Caller -> [pc : {"idle", "asking", "queued", "over"}, cmd : Command]]
    BY <2>1, Answers
  <2>3. caller'[c] = IF c \in Worker THEN [Idle EXCEPT !.pc = "over"] ELSE Idle
    BY <2>1, <2>2 DEF AfterReply
  <2> QED BY <2>2, <2>3 DEF Idle
<1>2. /\ caller[c].pc = "queued" /\ To(caller[c].cmd) = a /\ c \notin Boxed(a)
      /\ \A b \in Actor : \A d \in Boxed(b) : d # c
      /\ \A b \in Actor \ {a} : actor[b].serves # c
      /\ actor[a].state = "open"
  BY DEF IInv, TypeOK, Queues, Actor
<1>3. TypeOK'
  <2>1. \A b \in Actor : \A d \in Boxed(b)' :
            d \in Caller \ {c} /\ caller'[d].pc = "queued" /\ To(caller'[d].cmd) = b
    <3> SUFFICES ASSUME NEW b \in Actor, NEW d \in Boxed(b)
                 PROVE  d \in Caller \ {c} /\ caller'[d].pc = "queued" /\ To(caller'[d].cmd) = b
      BY <1>0
    <3>1. d \in Caller
      BY DEF IInv, TypeOK, Boxed
    <3>2. caller[d].pc = "queued" /\ To(caller[d].cmd) = b /\ d # c
      BY <1>2 DEF IInv, TypeOK
    <3> QED BY <1>1, <3>1, <3>2
  <2>2. Types'
    BY <1>0, <1>1 DEF IInv, TypeOK, Types
  <2> QED BY <2>1, <2>2 DEF TypeOK, Types
<1>4. Queues'
  BY <1>0, <1>1, <1>2 DEF IInv, Queues
<1>5. Commands'
  BY <1>0, <1>1, <1>2 DEF IInv, Commands, Idle
<1>6. Insides'
  <2>1. ASSUME NEW b \in Actor, NEW cmd, actor'[b].inside, Serves(b, cmd) PROVE Serves(b, cmd)'
    <3>1. b # a /\ actor'[b] = actor[b]
      BY <1>0, <2>1
    <3>2. actor[b].serves \in Caller \ {c}
      BY <1>2, <2>1, <3>1 DEF Serves, IInv, TypeOK
    <3> QED BY <1>1, <2>1, <3>1, <3>2 DEF Serves
  <2>2. caller'[Designer].pc # "idle" => actor'["A"].inside
    <3>1. CASE c = Designer
      BY <1>1, <3>1
    <3>2. CASE c # Designer
      <4>1. Designer \in Caller /\ caller'[Designer] = caller[Designer]
        BY <1>1, <3>2 DEF Caller
      <4>2. CASE a = "B"
        BY <1>0, <4>1, <4>2 DEF IInv, Insides, Actor
      <4>3. CASE a = "A"
        BY <4>1, <4>3 DEF IInv, Insides, Serves
      <4> QED BY <4>2, <4>3 DEF Actor
    <3> QED BY <3>1, <3>2
  <2>3. "A" \in Actor /\ "B" \in Actor
    BY DEF Actor
  <2>4. \A b \in Actor : actor'[b].inside => actor[b].inside
    BY <1>0
  <2> QED BY <2>1, <2>2, <2>3, <2>4 DEF IInv, Insides
<1>7. Workers'
  BY <1>1, <1>2 DEF IInv, Workers, Commands, Caller
<1>8. Stops'
  <2>1. Stopper \in Caller /\ caller'[Stopper] = caller[Stopper]
    BY <1>1 DEF Caller
  <2>2. "A" \in Actor
    BY DEF Actor
  <2> QED BY <1>0, <2>1, <2>2, ZenonT(30) DEF IInv, Stops
<1> QED BY <1>3, <1>4, <1>5, <1>6, <1>7, <1>8

\* A step that gives the step to nobody new keeps it with one thread.
LEMMA StaysOne ==
  ASSUME IInv,
         \A c \in Caller : Dispatching(c)' => Dispatching(c),
         \A w \in Worker : Holding(w)' => Holding(w),
         \/ busy' = busy
         \/ /\ \A c \in Caller : ~Dispatching(c)'
            /\ \A w \in Worker : ~Holding(w)'
  PROVE  OneStep'
BY DEF IInv, OneStep

\* One who answers a command passes nothing on.
LEMMA AnswerKeeps ==
  ASSUME IInv, NEW a \in Actor, NEW c \in Caller, actor[a].serves = c, c # Stopper,
         Reply({c}), actor' = Served(a), UNCHANGED worker,
         a = "B" /\ caller[c].cmd = "Dispatch" => actor["B"].inside \/ busy' = FALSE
  PROVE  /\ \A d \in Caller : Dispatching(d)' => Dispatching(d) /\ d # c
         /\ \A w \in Worker : Holding(w)' => Holding(w) /\ w # c
         /\ actor'["B"].inside => actor["B"].inside /\ a = "A"
<1> USE ActorsAssumption
<1>0. /\ \A b \in Actor : actor'[b].box = actor[b].box /\ actor'[b].state = actor[b].state
      /\ actor'[a].serves = Nobody /\ actor'[a].inside = FALSE
      /\ \A b \in Actor \ {a} : actor'[b] = actor[b]
  BY Freed
<1>1. /\ \A d \in Caller \ {c} : caller'[d] = caller[d]
      /\ caller'[c].cmd = "none"
      /\ c \in Worker => caller'[c].pc = "over"
  <2>1. {c} \in SUBSET Caller /\ caller[c].cmd # "StopA"
    BY DEF IInv, Commands
  <2>2. caller' = [d \in Caller |-> IF d \in {c} THEN AfterReply(d) ELSE caller[d]]
    BY <2>1, Answers
  <2>3. caller'[c] = IF c \in Worker THEN [Idle EXCEPT !.pc = "over"] ELSE Idle
    BY <2>1, <2>2 DEF AfterReply
  <2> QED BY <2>2, <2>3 DEF Idle
<1>2. ASSUME NEW d \in Caller, Dispatching(d)' PROVE Dispatching(d) /\ d # c
  <2>1. d # c /\ caller[d].cmd = "Dispatch"
    BY <1>1, <1>2 DEF Dispatching
  <2>2. CASE a = "B"
    BY <2>1, <2>2 DEF Dispatching
  <2>3. CASE a # "B"
    <3>1. actor'["B"] = actor["B"]
      BY <1>0, <2>3 DEF Actor
    <3> QED BY <1>2, <2>1, <3>1 DEF Dispatching
  <2> QED BY <2>1, <2>2, <2>3
<1>3. ASSUME NEW w \in Worker, Holding(w)' PROVE Holding(w) /\ w # c
  <2>1. w # c /\ w \in Caller /\ caller'[w] = caller[w]
    BY <1>1, <1>3 DEF Holding, Caller
  <2>2. CASE a = "A"
    BY <1>3, <2>1, <2>2 DEF Holding
  <2>3. CASE a # "A"
    <3>1. actor'["A"] = actor["A"]
      BY <1>0, <2>3 DEF Actor
    <3> QED BY <1>3, <2>1, <3>1 DEF Holding
  <2> QED BY <2>1, <2>2, <2>3
<1>4. actor'["B"].inside => actor["B"].inside /\ a = "A"
  BY <1>0 DEF Actor
<1> QED BY <1>2, <1>3, <1>4

\* An actor that works has not been stopped.
LEMMA WorksBeforeStop ==
  ASSUME IInv, NEW a \in Actor, actor[a].state = "open"
  PROVE  stop.at # "done"
BY DEF IInv, Stops

--------------------------------------------------------------------------------
LEMMA RecordStep == ASSUME IInv, Record PROVE IInv'
<1> USE ActorsAssumption
<1> DEFINE c == actor["B"].serves
<1>1. /\ "B" \in Actor /\ c \in Caller /\ caller[c].cmd = "Dispatch" /\ caller[c].pc = "queued"
      /\ actor["B"].inside /\ actor["B"].state = "open" /\ c # Stopper
      /\ Reply({c}) /\ actor' = Served("B") /\ UNCHANGED <<worker, busy, stop>>
  BY DEF Record, Serves, IInv, TypeOK, Queues, Commands, Actor
<1>2. PICK w \in Worker :
          IsNewest(w) /\ last' = [last EXCEPT !.task = w, !.told[c] = w]
  BY DEF Record
<1>w. last' \in Written /\ last'.task = w
  BY <1>1, <1>2 DEF IInv, TypeOK, Written
<1>3. c # Designer \/ actor["A"].inside
  BY <1>1 DEF IInv, Insides
<1> HIDE DEF c
<1>4. TypeOK' /\ Queues' /\ Commands' /\ Insides' /\ Workers' /\ Stops'
  <2>1. actor["B"].serves = c
    BY DEF c
  <2>2. last' \in Written /\ busy' \in BOOLEAN
    BY <1>1, <1>w DEF IInv, TypeOK
  <2> QED BY <1>1, <1>3, <2>1, <2>2, AnswerStep
<1>5. /\ \A d \in Caller : Dispatching(d)' => Dispatching(d) /\ d # c
      /\ \A v \in Worker : Holding(v)' => Holding(v) /\ v # c
      /\ ~actor'["B"].inside
  <2>1. actor["B"].serves = c
    BY DEF c
  <2>2. /\ \A d \in Caller : Dispatching(d)' => Dispatching(d) /\ d # c
        /\ \A v \in Worker : Holding(v)' => Holding(v) /\ v # c
        /\ actor'["B"].inside => actor["B"].inside /\ "B" = "A"
    BY <1>1, <2>1, AnswerKeeps
  <2>3. ~("B" = "A")
    OBVIOUS
  <2> QED BY <2>2, <2>3
<1>6. OneStep'
  BY <1>1, <1>5, StaysOne
<1>7. Recorded' /\ LiveIsRecorded' /\ NothingAfterStop'
  <2>1. \A v \in Live : v = w
    BY <1>1, <1>2 DEF IInv, Recorded, IsNewest, Live, Worker
  <2>2. Live' = Live
    BY <1>1 DEF Live
  <2>3. stop'.at # "done"
    BY <1>1, WorksBeforeStop
  <2> QED BY <1>w, <1>5, <2>1, <2>2, <2>3 DEF Recorded, LiveIsRecorded, NothingAfterStop
<1> QED BY <1>4, <1>6, <1>7 DEF IInv

LEMMA DispatchFailsStep == ASSUME IInv, DispatchFails PROVE IInv'
<1> USE ActorsAssumption
<1> DEFINE c == actor["B"].serves
<1>1. /\ "B" \in Actor /\ c \in Caller /\ caller[c].cmd = "Dispatch" /\ caller[c].pc = "queued"
      /\ ~actor["B"].inside /\ actor["B"].state = "open" /\ c # Stopper
      /\ Fail({c}) /\ actor' = Served("B") /\ UNCHANGED <<worker, last, stop>>
  BY DEF DispatchFails, Serves, IInv, TypeOK, Queues, Commands, Actor
<1>2. Reply({c}) /\ busy' = FALSE
  BY <1>1 DEF Fail
<1>3. c # Designer \/ actor["A"].inside
  BY <1>1 DEF IInv, Insides
<1>d. Dispatching(c)
  BY <1>1 DEF Dispatching
<1> HIDE DEF c
<1>c. actor["B"].serves = c
  BY DEF c
<1>4. TypeOK' /\ Queues' /\ Commands' /\ Insides' /\ Workers' /\ Stops'
  <2>2. last' \in Written /\ busy' \in BOOLEAN
    BY <1>1, <1>2 DEF IInv, TypeOK
  <2> QED BY <1>1, <1>2, <1>3, <1>c, <2>2, AnswerStep
<1>5. /\ \A d \in Caller : Dispatching(d)' => Dispatching(d) /\ d # c
      /\ \A v \in Worker : Holding(v)' => Holding(v) /\ v # c
      /\ actor'["B"].inside => actor["B"].inside /\ "B" = "A"
  BY <1>1, <1>2, <1>c, AnswerKeeps
<1>6. OneStep'
  <2>1. \A d \in Caller : ~Dispatching(d)'
    BY <1>1, <1>5, <1>d DEF IInv, OneStep
  <2>2. \A v \in Worker : ~Holding(v)'
    BY <1>1, <1>5, <1>d DEF IInv, OneStep
  <2> QED BY <1>5, <2>1, <2>2, StaysOne
<1>7. Recorded' /\ LiveIsRecorded' /\ NothingAfterStop'
  <2>2. Live' = Live
    BY <1>1 DEF Live
  <2>3. stop'.at # "done"
    BY <1>1, WorksBeforeStop
  <2> QED BY <1>1, <1>5, <2>2, <2>3 DEF IInv, Recorded, LiveIsRecorded, NothingAfterStop
<1> QED BY <1>4, <1>6, <1>7 DEF IInv

LEMMA ConsultedStep == ASSUME IInv, NEW a \in Actor, Consulted(a) PROVE IInv'
<1> USE ActorsAssumption
<1> DEFINE c == actor[a].serves
<1>1. /\ c \in Caller /\ caller[c].cmd \in {"Document", "Spec"} /\ caller[c].pc = "queued"
      /\ actor[a].state = "open" /\ c # Stopper
      /\ Reply({c}) /\ actor' = Served(a) /\ UNCHANGED <<worker, last, busy, stop>>
  BY SMTT(30) DEF Consulted, Serves, IInv, TypeOK, Queues, Commands
<1>2. ~actor[a].inside
  BY <1>1 DEF IInv, Insides, Serves, Actor
<1>3. c # Designer \/ actor["A"].inside
  BY <1>1 DEF IInv, Insides
<1> HIDE DEF c
<1>c. actor[a].serves = c
  BY DEF c
<1>4. TypeOK' /\ Queues' /\ Commands' /\ Insides' /\ Workers' /\ Stops'
  <2>2. last' \in Written /\ busy' \in BOOLEAN
    BY <1>1 DEF IInv, TypeOK
  <2> QED BY <1>1, <1>2, <1>3, <1>c, <2>2, AnswerStep
<1>5. /\ \A d \in Caller : Dispatching(d)' => Dispatching(d) /\ d # c
      /\ \A v \in Worker : Holding(v)' => Holding(v) /\ v # c
      /\ actor'["B"].inside => actor["B"].inside /\ a = "A"
  BY <1>1, <1>c, AnswerKeeps
<1>6. OneStep'
  BY <1>1, <1>5, StaysOne
<1>7. Recorded' /\ LiveIsRecorded' /\ NothingAfterStop'
  <2>1. actor["B"].inside => actor'["B"].inside
    BY <1>1, <1>2, Freed DEF Actor
  <2>2. Live' = Live /\ \A w \in Worker : IsNewest(w)' = IsNewest(w)
    BY <1>1 DEF Live, IsNewest
  <2>3. stop'.at # "done"
    BY <1>1, WorksBeforeStop
  <2> QED BY <1>1, <1>5, <2>1, <2>2, <2>3 DEF IInv, Recorded, LiveIsRecorded, NothingAfterStop, Live
<1> QED BY <1>4, <1>6, <1>7 DEF IInv

--------------------------------------------------------------------------------
\* A handler that has called back and waits.
LEMMA Entered ==
  ASSUME IInv, NEW a \in Actor, actor' = [actor EXCEPT ![a].inside = TRUE]
  PROVE  /\ actor' \in [Actor -> [box : Seq(Caller), serves : Caller \cup {Nobody},
                            inside : BOOLEAN, state : {"open", "stopping", "closed"}]]
         /\ \A b \in Actor : /\ actor'[b].box = actor[b].box /\ actor'[b].state = actor[b].state
                             /\ actor'[b].serves = actor[b].serves
                             /\ Boxed(b)' = Boxed(b)
         /\ actor'[a].inside = TRUE
         /\ \A b \in Actor \ {a} : actor'[b] = actor[b]
<1>1. /\ actor[a] \in [box : Seq(Caller), serves : Caller \cup {Nobody},
                       inside : BOOLEAN, state : {"open", "stopping", "closed"}]
      /\ actor' = [actor EXCEPT ![a] = [actor[a] EXCEPT !.inside = TRUE]]
  BY DEF IInv, TypeOK
<1>2. /\ actor'[a] = [actor[a] EXCEPT !.inside = TRUE]
      /\ \A b \in Actor \ {a} : actor'[b] = actor[b]
  BY <1>1 DEF IInv, TypeOK
<1>3. /\ actor'[a] \in [box : Seq(Caller), serves : Caller \cup {Nobody},
                        inside : BOOLEAN, state : {"open", "stopping", "closed"}]
      /\ actor'[a].serves = actor[a].serves /\ actor'[a].inside = TRUE
      /\ actor'[a].box = actor[a].box /\ actor'[a].state = actor[a].state
  BY <1>1, <1>2
<1>4. \A b \in Actor : /\ actor'[b].box = actor[b].box /\ actor'[b].state = actor[b].state
                       /\ actor'[b].serves = actor[b].serves
  BY <1>2, <1>3
<1>5. \A b \in Actor : Boxed(b)' = Boxed(b)
  BY <1>4 DEF Boxed
<1>6. actor' \in [Actor -> [box : Seq(Caller), serves : Caller \cup {Nobody},
                           inside : BOOLEAN, state : {"open", "stopping", "closed"}]]
  BY <1>1, <1>3 DEF IInv, TypeOK
<1> QED BY <1>2, <1>3, <1>4, <1>5, <1>6

\* A worker that runs is with B's step.
LEMMA LiveHolds ==
  ASSUME IInv, NEW w \in Worker, worker[w] \in {"live", "killed"}, caller[w].pc # "over"
  PROVE  Holding(w)
<1>1. w \in Caller /\ caller[w].pc = "idle" /\ "A" \in Actor
  BY DEF IInv, Workers, Caller, Actor
<1>2. actor["A"].serves # w
  BY <1>1, ActorsAssumption DEF IInv, Queues
<1> QED BY <1>2 DEF Holding

LEMMA LaunchStep == ASSUME IInv, Launch PROVE IInv'
<1> USE ActorsAssumption
<1> DEFINE c == actor["B"].serves
<1>1. /\ "A" \in Actor /\ "B" \in Actor /\ c \in Caller /\ caller[c].cmd = "Dispatch"
      /\ caller[c].pc = "queued" /\ actor["B"].state = "open" /\ ~actor["B"].inside
      /\ UNCHANGED <<caller, last, busy, stop>>
  BY DEF Launch, Serves, IInv, TypeOK, Queues, Actor
<1>2. PICK w \in Worker : IsNext(w) /\ worker' = [worker EXCEPT ![w] = "live"]
  BY DEF Launch
<1>3. /\ actor' \in [Actor -> [box : Seq(Caller), serves : Caller \cup {Nobody},
                            inside : BOOLEAN, state : {"open", "stopping", "closed"}]]
      /\ \A b \in Actor : /\ actor'[b].box = actor[b].box /\ actor'[b].state = actor[b].state
                          /\ actor'[b].serves = actor[b].serves
                          /\ Boxed(b)' = Boxed(b)
      /\ actor'["B"].inside = TRUE
      /\ actor'["A"] = actor["A"]
  BY <1>1, Entered DEF Launch
<1>4. Dispatching(c) /\ ~Inline
  BY <1>1 DEF Dispatching, IInv, Commands
<1>5. \A v \in Worker : ~Holding(v)
  BY <1>1, <1>4 DEF IInv, OneStep
<1>6. Live = {}
  <2>1. \A v \in Live : caller[v].pc # "over"
    BY DEF IInv, Workers, Live
  <2> QED BY <1>5, <2>1, LiveHolds DEF Live
<1>7. /\ worker' \in [Worker -> {"none", "live", "ended", "killed"}]
      /\ worker'[w] = "live" /\ \A v \in Worker \ {w} : worker'[v] = worker[v]
      /\ worker[w] = "none" /\ \A v \in 1 .. (w - 1) : worker[v] # "none"
  BY <1>2 DEF IInv, TypeOK, IsNext
<1>8. IsNewest(w)' /\ Live' = {w}
  <2>1. \A v \in (w + 1) .. MaxWorker : v \in Worker /\ w < v /\ v # w
    BY DEF Worker
  <2>2. \A v \in (w + 1) .. MaxWorker : worker[v] = "none"
    BY <1>7, <2>1 DEF IInv, Workers
  <2>3. \A v \in (w + 1) .. MaxWorker : worker'[v] = "none"
    BY <1>7, <2>1, <2>2
  <2>4. Live' = {w}
    BY <1>6, <1>7 DEF Live
  <2> QED BY <1>7, <2>3, <2>4 DEF IsNewest
<1> HIDE DEF c
<1>c. actor["B"].serves = c
  BY DEF c
<1>9. TypeOK'
  BY <1>1, <1>3, <1>7 DEF IInv, TypeOK
<1>10. Queues'
  <2>1. caller' = caller
    BY <1>1
  <2> QED BY <1>3, <2>1, SMTT(30) DEF IInv, Queues
<1>11. Commands'
  BY <1>1, <1>4, <1>7 DEF IInv, Commands
<1>12. Insides'
  BY <1>1, <1>3, <1>c DEF IInv, Insides, Serves
<1>13. Workers'
  <2>1. ASSUME NEW u \in Worker, NEW v \in Worker, u < v, worker'[v] # "none"
        PROVE  worker'[u] # "none"
    <3>1. CASE v = w
      BY <1>7, <2>1, <3>1 DEF Worker
    <3>2. CASE v # w
      BY <1>7, <2>1, <3>2 DEF IInv, Workers
    <3> QED BY <3>1, <3>2
  <2> QED BY <1>1, <1>4, <1>7, <2>1 DEF IInv, Workers
<1>14. OneStep'
  <2>1. \A d \in Caller : ~Dispatching(d)'
    <3>1. ASSUME NEW d \in Caller, Dispatching(d)' PROVE FALSE
      <4>1. d # c /\ Dispatching(d)
        BY <1>1, <1>3, <1>c, <3>1 DEF Dispatching
      <4> QED BY <1>1, <1>4, <4>1 DEF IInv, OneStep
    <3> QED BY <3>1
  <2>2. \A v \in Worker : Holding(v)' => v = w
    BY <1>1, <1>3, <1>5, <1>7 DEF Holding
  <2>3. busy'
    BY <1>1, <1>4 DEF IInv, OneStep
  <2> QED BY <2>1, <2>2, <2>3 DEF OneStep
<1>15. Stops'
  BY <1>1, <1>3 DEF IInv, Stops
<1>16. Recorded' /\ LiveIsRecorded' /\ NothingAfterStop'
  <2>1. stop'.at # "done"
    BY <1>1, WorksBeforeStop
  <2> QED BY <1>3, <1>8, <2>1 DEF Recorded, LiveIsRecorded, NothingAfterStop
<1> QED BY <1>9, <1>10, <1>11, <1>12, <1>13, <1>14, <1>15, <1>16 DEF IInv

LEMMA TakeStep == ASSUME IInv, NEW a \in Actor, Take(a) PROVE IInv'
<1> USE ActorsAssumption
<1> DEFINE c == Head(actor[a].box)
           s == actor[a].box
           t == Tail(actor[a].box)
<1>1. /\ actor[a].state = "open" /\ actor[a].serves = Nobody /\ s # << >>
      /\ UNCHANGED <<caller, worker, last, busy, stop>>
      /\ actor[a] \in [box : Seq(Caller), serves : Caller \cup {Nobody},
                       inside : BOOLEAN, state : {"open", "stopping", "closed"}]
  BY DEF Take, IInv, TypeOK
<1>2. /\ t \in Seq(Caller) /\ c \in Boxed(a)
      /\ {t[i] : i \in DOMAIN t} \subseteq Boxed(a)
      /\ c \notin {t[i] : i \in DOMAIN t}
      /\ \A i, j \in DOMAIN t : t[i] = t[j] => i = j
  <2>1. s \in Seq(Caller) /\ \A i, j \in DOMAIN s : s[i] = s[j] => i = j
    BY <1>1 DEF IInv, Queues
  <2>2. Boxed(a) = {s[i] : i \in DOMAIN s}
    BY DEF Boxed
  <2> HIDE DEF s
  <2>3. t = Tail(s) /\ c = Head(s)
    BY DEF s
  <2> HIDE DEF t, c
  <2> QED BY <1>1, <2>1, <2>2, <2>3, Headed
<1>3. ~actor[a].inside
  BY <1>1 DEF IInv, Insides, Serves, Actor
<1>4. c \in Caller /\ caller[c].pc = "queued" /\ To(caller[c].cmd) = a
  <2>1. c \in Caller
    BY <1>1, <1>2 DEF Boxed
  <2> QED BY <1>2, <2>1 DEF IInv, TypeOK
<1>5. /\ actor'[a] = [actor[a] EXCEPT !.serves = c, !.box = t]
      /\ \A b \in Actor \ {a} : actor'[b] = actor[b]
      /\ actor' = [actor EXCEPT ![a] = [actor[a] EXCEPT !.serves = c, !.box = t]]
  BY DEF Take, IInv, TypeOK
<1> HIDE DEF c, s, t
<1>6. /\ actor'[a].serves = c /\ actor'[a].box = t /\ actor'[a].inside = FALSE
      /\ actor'[a].state = "open"
      /\ actor'[a] \in [box : Seq(Caller), serves : Caller \cup {Nobody},
                        inside : BOOLEAN, state : {"open", "stopping", "closed"}]
  <2> DEFINE r == actor[a]
  <2>1. /\ r \in [box : Seq(Caller), serves : Caller \cup {Nobody},
                  inside : BOOLEAN, state : {"open", "stopping", "closed"}]
        /\ r.state = "open" /\ r.inside = FALSE
        /\ actor'[a] = [r EXCEPT !.serves = c, !.box = t]
    BY <1>1, <1>3, <1>5
  <2> HIDE DEF r
  <2>2. /\ actor'[a].serves = c /\ actor'[a].box = t /\ actor'[a].inside = FALSE
        /\ actor'[a].state = "open"
    BY <2>1
  <2>3. actor'[a] \in [box : Seq(Caller), serves : Caller \cup {Nobody},
                       inside : BOOLEAN, state : {"open", "stopping", "closed"}]
    BY <1>2, <1>4, <2>1
  <2> QED BY <2>2, <2>3
<1>7. actor' \in [Actor -> [box : Seq(Caller), serves : Caller \cup {Nobody},
                            inside : BOOLEAN, state : {"open", "stopping", "closed"}]]
  BY <1>5, <1>6 DEF IInv, TypeOK
<1>8. /\ Boxed(a)' \subseteq Boxed(a) /\ c \notin Boxed(a)'
      /\ \A b \in Actor \ {a} : Boxed(b)' = Boxed(b)
  BY <1>2, <1>5, <1>6, SMTT(30) DEF Boxed
<1>9. \A b \in Actor : actor'[b].state = actor[b].state /\ actor'[b].inside = actor[b].inside
  BY <1>1, <1>3, <1>5, <1>6
<1>10. TypeOK'
  <2>1. \A b \in Actor : Boxed(b)' \subseteq Boxed(b)
    BY <1>8
  <2>2. \A b \in Actor : \A d \in Boxed(b)' : caller'[d].pc = "queued" /\ To(caller'[d].cmd) = b
    BY <1>1, <2>1 DEF IInv, TypeOK
  <2> QED BY <1>1, <1>7, <2>2 DEF IInv, TypeOK
<1>11. Queues'
  <2>1. ASSUME NEW b \in Actor
        PROVE  /\ \A i, j \in DOMAIN actor'[b].box : actor'[b].box[i] = actor'[b].box[j] => i = j
               /\ actor'[b].serves # Nobody =>
                     /\ actor'[b].state = "open"
                     /\ actor'[b].serves \notin Boxed(b)'
                     /\ caller'[actor'[b].serves].pc = "queued"
                     /\ To(caller'[actor'[b].serves].cmd) = b
    <3>1. CASE b = a
      BY <1>1, <1>2, <1>4, <1>6, <1>8, <3>1
    <3>2. CASE b # a
      <4>1. actor'[b] = actor[b] /\ Boxed(b)' = Boxed(b) /\ caller' = caller
        BY <1>1, <1>5, <1>8, <3>2
      <4> QED BY <4>1 DEF IInv, Queues
    <3> QED BY <3>1, <3>2
  <2> QED BY <2>1 DEF Queues
<1>12. Commands' /\ Workers' /\ Stops'
  BY <1>1, <1>9 DEF IInv, Commands, Workers, Stops, Actor
<1>13. \A b \in Actor : actor'[b].inside => b # a /\ actor'[b] = actor[b]
  BY <1>5, <1>6
<1>14. Insides'
  <2>1. "A" \in Actor /\ "B" \in Actor
    BY DEF Actor
  <2> QED BY <1>1, <1>9, <1>13, <2>1 DEF IInv, Insides, Serves
<1>15. OneStep'
  <2>0. "A" \in Actor /\ "B" \in Actor
    BY DEF Actor
  <2>1. \A d \in Caller : Dispatching(d)' => Dispatching(d)
    BY <1>1, <1>3, <1>5, <2>0 DEF Dispatching
  <2>2. \A w \in Worker : Holding(w)' => Holding(w)
    BY <1>1, <1>3, <1>5, <2>0 DEF Holding
  <2> QED BY <1>1, <2>1, <2>2, StaysOne
<1>16. Recorded' /\ LiveIsRecorded' /\ NothingAfterStop'
  <2>1. stop'.at # "done"
    BY <1>1, WorksBeforeStop
  <2>2. actor'["B"].inside = actor["B"].inside
    BY <1>9 DEF Actor
  <2>3. Live' = Live /\ \A w \in Worker : IsNewest(w)' = IsNewest(w)
    BY <1>1 DEF Live, IsNewest
  <2> QED BY <1>1, <2>1, <2>2, <2>3 DEF IInv, Recorded, LiveIsRecorded, NothingAfterStop, Live
<1> QED BY <1>10, <1>11, <1>12, <1>14, <1>15, <1>16 DEF IInv

--------------------------------------------------------------------------------
\* Those who ask an actor that has gone, or wait in its mailbox, are told so.
LEMMA FailStep ==
  ASSUME IInv, NEW a \in Actor, NEW C \in SUBSET Caller, actor[a].state # "open",
         \A c \in C : /\ caller[c].pc \in {"asking", "queued"} /\ To(caller[c].cmd) = a
                      /\ \A b \in Actor : actor[b].serves # c
         ,
         Fail(C), UNCHANGED <<worker, last, stop>>,
         actor' \in [Actor -> [box : Seq(Caller), serves : Caller \cup {Nobody},
                            inside : BOOLEAN, state : {"open", "stopping", "closed"}]],
         \A b \in Actor :
            /\ actor'[b].serves = actor[b].serves /\ actor'[b].inside = actor[b].inside
            /\ (actor'[b].state = "open") <=> (actor[b].state = "open")
            /\ Boxed(b)' \subseteq Boxed(b) \ C
            /\ \A i, j \in DOMAIN actor'[b].box : actor'[b].box[i] = actor'[b].box[j] => i = j
  PROVE  IInv'
<1> USE ActorsAssumption
<1>0. "A" \in Actor /\ "B" \in Actor /\ Stopper \in Caller /\ Designer \in Caller
  BY DEF Actor, Caller
<1>1. Reply(C) /\ busy' = (busy /\ \A c \in C : caller[c].cmd \notin {"Dispatch", "Review"})
  BY DEF Fail
<1>2. /\ caller' \in [Caller -> [pc : {"idle", "asking", "queued", "over"}, cmd : Command]]
      /\ \A c \in Caller \ C : caller'[c] = caller[c]
      /\ \A c \in C : /\ c \in Worker => caller'[c].pc = "over" /\ caller'[c].cmd = "none"
                      /\ c \notin Worker /\ caller[c].cmd # "StopA" => caller'[c] = Idle
                      /\ caller[c].cmd = "StopA" => caller'[c] = Asking("StopB") /\ c = Stopper
  BY <1>1, Answers
<1>3. \A c \in C : /\ caller'[c].cmd \in {"none", "StopB"}
                   /\ caller'[c].cmd = "StopB" => c = Stopper /\ caller[c].cmd = "StopA" /\ caller'[c].pc = "asking"
                   /\ caller'[c].cmd = "none" => caller'[c].pc = IF c \in Worker THEN "over" ELSE "idle"
  <2>1. ASSUME NEW c \in C
        PROVE  /\ caller'[c].cmd \in {"none", "StopB"}
               /\ caller'[c].cmd = "StopB" => c = Stopper /\ caller[c].cmd = "StopA" /\ caller'[c].pc = "asking"
               /\ caller'[c].cmd = "none" => caller'[c].pc = IF c \in Worker THEN "over" ELSE "idle"
    <3>1. CASE caller[c].cmd = "StopA"
      BY <1>2, <3>1 DEF Asking
    <3>2. CASE caller[c].cmd # "StopA"
      BY <1>2, <3>2 DEF Idle
    <3> QED BY <3>1, <3>2
  <2> QED BY <2>1
<1>4. \A b \in Actor : actor[b].serves # Nobody =>
          /\ actor[b].serves \in Caller \ C /\ caller'[actor[b].serves] = caller[actor[b].serves]
  BY <1>2 DEF IInv, TypeOK
<1>5. TypeOK'
  <2>1. \A b \in Actor : \A d \in Boxed(b)' : caller'[d].pc = "queued" /\ To(caller'[d].cmd) = b
    <3> SUFFICES ASSUME NEW b \in Actor, NEW d \in Boxed(b)'
                 PROVE  caller'[d].pc = "queued" /\ To(caller'[d].cmd) = b
      OBVIOUS
    <3>1. d \in Boxed(b) /\ d \notin C
      OBVIOUS
    <3>2. d \in Caller
      BY <3>1 DEF IInv, TypeOK, Boxed
    <3> QED BY <1>2, <3>1, <3>2 DEF IInv, TypeOK
  <2>2. busy' \in BOOLEAN
    BY <1>1
  <2> QED BY <1>2, <2>1, <2>2 DEF IInv, TypeOK
<1>6. Queues'
  <2>1. ASSUME NEW b \in Actor, actor'[b].serves # Nobody
        PROVE  /\ actor'[b].state = "open"
               /\ actor'[b].serves \notin Boxed(b)'
               /\ caller'[actor'[b].serves].pc = "queued"
               /\ To(caller'[actor'[b].serves].cmd) = b
    BY <1>4, <2>1 DEF IInv, Queues
  <2> QED BY <2>1 DEF Queues
<1>7. Commands'
  <2>1. ASSUME NEW c \in Caller
        PROVE  /\ caller'[c].cmd \in {"StopA", "StopB"} => c = Stopper
               /\ c = Stopper => caller'[c].cmd \in {"none", "StopA", "StopB"}
               /\ caller'[c].cmd = "none" <=> caller'[c].pc \in {"idle", "over"}
               /\ caller'[c].pc = "over" => c \in Worker
               /\ caller'[c].cmd = "Dispatch" => ~Inline
               /\ caller'[c].cmd = "Review" /\ ~Inline => c \in Worker /\ worker[c] = "ended"
    <3>1. CASE c \in C
      BY <1>3, <3>1
    <3>2. CASE c \notin C
      BY <1>2, <3>2 DEF IInv, Commands
    <3> QED BY <3>1, <3>2
  <2> QED BY <2>1 DEF Commands
<1>8. Insides'
  <2>1. ASSUME NEW b \in Actor, NEW cmd, Serves(b, cmd) PROVE Serves(b, cmd)'
    BY <1>4, <2>1 DEF Serves
  <2>2. caller'[Designer].pc # "idle" => caller[Designer].pc # "idle"
    BY <1>0, <1>2
  <2> QED BY <1>0, <2>1, <2>2 DEF IInv, Insides
<1>9. Workers'
  <2>1. ASSUME NEW w \in Worker
        PROVE  /\ worker[w] \in {"none", "live"} => caller'[w].pc = "idle"
               /\ worker[w] = "killed" => caller'[w].pc \in {"idle", "over"}
    <3>1. w \in Caller
      BY DEF Caller
    <3>2. CASE w \in C
      BY <1>2, <3>2 DEF IInv, Workers
    <3>3. CASE w \notin C
      BY <1>2, <3>1, <3>3 DEF IInv, Workers
    <3> QED BY <3>2, <3>3
  <2> QED BY <2>1 DEF IInv, Workers
<1>10. \A d \in Caller : Dispatching(d)' => Dispatching(d) /\ d \notin C
  BY <1>0, <1>2, <1>3 DEF Dispatching
<1>11. \A w \in Worker : Holding(w)' => Holding(w) /\ w \notin C
  BY <1>0, <1>2 DEF Holding, Caller
<1>12. OneStep'
  <2>1. CASE busy' = busy
    BY <1>10, <1>11, <2>1, StaysOne
  <2>2. CASE busy' # busy
    <3>1. PICK c \in C : caller[c].cmd \in {"Dispatch", "Review"}
      BY <1>1, <2>2 DEF IInv, TypeOK
    <3>2. \A d \in Caller : ~Dispatching(d)'
      <4>1. CASE caller[c].cmd = "Dispatch"
        <5>1. Dispatching(c)
          BY <1>0, <4>1 DEF Dispatching
        <5> QED BY <1>10, <5>1 DEF IInv, OneStep
      <4>2. CASE caller[c].cmd = "Review" /\ ~Inline
        <5>1. c \in Worker /\ Holding(c)
          BY <1>0, <4>2 DEF IInv, Commands, Holding
        <5> QED BY <1>10, <5>1 DEF IInv, OneStep
      <4>3. CASE Inline
        BY <1>10, <4>3 DEF IInv, Commands, Dispatching
      <4> QED BY <3>1, <4>1, <4>2, <4>3
    <3>3. \A w \in Worker : ~Holding(w)'
      <4>1. CASE caller[c].cmd = "Dispatch"
        <5>1. Dispatching(c)
          BY <1>0, <4>1 DEF Dispatching
        <5> QED BY <1>11, <5>1 DEF IInv, OneStep
      <4>2. CASE caller[c].cmd = "Review" /\ ~Inline
        <5>1. c \in Worker /\ Holding(c)
          BY <1>0, <4>2 DEF IInv, Commands, Holding
        <5> QED BY <1>11, <5>1 DEF IInv, OneStep
      <4>3. CASE Inline
        BY <1>11, <4>3 DEF IInv, Workers, Holding
      <4> QED BY <3>1, <4>1, <4>2, <4>3
    <3> QED BY <1>10, <1>11, <3>2, <3>3, StaysOne
  <2> QED BY <2>1, <2>2
<1>13. Stops'
  <2>1. CASE Stopper \notin C
    BY <1>0, <1>2, <2>1 DEF IInv, Stops
  <2>2. CASE Stopper \in C
    <3>1. stop.at = "asking"
      BY <2>2 DEF IInv, Stops
    <3>2. CASE caller[Stopper].cmd = "StopA"
      <4>1. caller'[Stopper] = Asking("StopB") /\ a = "A"
        BY <1>2, <2>2, <3>2 DEF To
      <4> QED BY <1>0, <3>1, <4>1 DEF Stops, Asking
    <3>3. CASE caller[Stopper].cmd = "StopB"
      <4>1. caller'[Stopper] = Idle /\ a = "B" /\ actor["A"].state # "open"
        BY <1>2, <2>2, <3>3 DEF To, IInv, Stops, Caller
      <4> QED BY <1>0, <3>1, <4>1 DEF Stops, Idle, Actor
    <3>4. caller[Stopper].cmd \in {"StopA", "StopB"}
      BY <1>0, <2>2 DEF IInv, Commands
    <3> QED BY <3>2, <3>3, <3>4
  <2> QED BY <2>1, <2>2
<1>14. Recorded' /\ LiveIsRecorded' /\ NothingAfterStop'
  <2>1. Live' = Live /\ \A w \in Worker : IsNewest(w)' = IsNewest(w)
    BY DEF Live, IsNewest
  <2>2. actor'["B"].inside = actor["B"].inside
    BY <1>0
  <2> QED BY <2>1, <2>2 DEF IInv, Recorded, LiveIsRecorded, NothingAfterStop, Live
<1> QED BY <1>5, <1>6, <1>7, <1>8, <1>9, <1>12, <1>13, <1>14 DEF IInv

LEMMA RefusedStep == ASSUME IInv, NEW c \in Caller, Refused(c) PROVE IInv'
<1> DEFINE a == To(caller[c].cmd)
<1>1. /\ a \in Actor /\ {c} \in SUBSET Caller /\ actor[a].state # "open"
      /\ caller[c].pc = "asking" /\ Fail({c}) /\ UNCHANGED <<actor, worker, last, stop>>
  BY DEF Refused, To, Actor
<1>2. \A b \in Actor : actor[b].serves # c
  BY <1>1, ActorsAssumption DEF IInv, Queues
<1>3. \A b \in Actor : Boxed(b)' \subseteq Boxed(b) \ {c}
  BY <1>1 DEF IInv, TypeOK, Boxed
<1>4. \A d \in {c} : /\ caller[d].pc \in {"asking", "queued"} /\ To(caller[d].cmd) = a
                     /\ \A b \in Actor : actor[b].serves # d
  BY <1>1, <1>2
<1> HIDE DEF a
<1>5. \A b \in Actor :
            /\ actor'[b].serves = actor[b].serves /\ actor'[b].inside = actor[b].inside
            /\ (actor'[b].state = "open") <=> (actor[b].state = "open")
            /\ Boxed(b)' \subseteq Boxed(b) \ {c}
            /\ \A i, j \in DOMAIN actor'[b].box : actor'[b].box[i] = actor'[b].box[j] => i = j
  BY <1>1, <1>3 DEF IInv, Queues
<1>6. actor' \in [Actor -> [box : Seq(Caller), serves : Caller \cup {Nobody},
                            inside : BOOLEAN, state : {"open", "stopping", "closed"}]]
  BY <1>1 DEF IInv, TypeOK
<1> QED BY <1>1, <1>4, <1>5, <1>6, FailStep

LEMMA CloseStep == ASSUME IInv, NEW a \in Actor, Close(a) PROVE IInv'
<1> DEFINE C == Boxed(a)
<1>1. /\ C \in SUBSET Caller /\ actor[a].state = "stopping" /\ actor[a].state # "open"
      /\ Fail(C) /\ UNCHANGED <<worker, last, stop>>
      /\ actor[a] \in [box : Seq(Caller), serves : Caller \cup {Nobody},
                       inside : BOOLEAN, state : {"open", "stopping", "closed"}]
  BY DEF Close, IInv, TypeOK, Boxed
<1>2. /\ actor'[a] = [actor[a] EXCEPT !.state = "closed", !.box = << >>]
      /\ \A b \in Actor \ {a} : actor'[b] = actor[b]
      /\ actor' = [actor EXCEPT ![a] = [actor[a] EXCEPT !.state = "closed", !.box = << >>]]
  BY DEF Close, IInv, TypeOK
<1>3. /\ actor'[a].box = << >> /\ actor'[a].state = "closed"
      /\ actor'[a].serves = actor[a].serves /\ actor'[a].inside = actor[a].inside
      /\ actor'[a] \in [box : Seq(Caller), serves : Caller \cup {Nobody},
                       inside : BOOLEAN, state : {"open", "stopping", "closed"}]
  <2> DEFINE r == actor[a]
  <2>1. /\ r \in [box : Seq(Caller), serves : Caller \cup {Nobody},
                  inside : BOOLEAN, state : {"open", "stopping", "closed"}]
        /\ actor'[a] = [r EXCEPT !.state = "closed", !.box = << >>]
    BY <1>1, <1>2
  <2>2. << >> \in Seq(Caller)
    OBVIOUS
  <2>e. r = actor[a]
    OBVIOUS
  <2> HIDE DEF r
  <2>3. /\ actor'[a].box = << >> /\ actor'[a].state = "closed"
        /\ actor'[a].serves = r.serves /\ actor'[a].inside = r.inside
    BY <2>1
  <2>4. actor'[a] \in [box : Seq(Caller), serves : Caller \cup {Nobody},
                       inside : BOOLEAN, state : {"open", "stopping", "closed"}]
    BY <2>1, <2>2
  <2> QED BY <2>e, <2>3, <2>4
<1>4. actor' \in [Actor -> [box : Seq(Caller), serves : Caller \cup {Nobody},
                            inside : BOOLEAN, state : {"open", "stopping", "closed"}]]
  BY <1>2, <1>3 DEF IInv, TypeOK
<1>5. \A c \in C : /\ caller[c].pc \in {"asking", "queued"} /\ To(caller[c].cmd) = a
                   /\ \A b \in Actor : actor[b].serves # c
  <2>1. \A c \in C : c \in Caller /\ caller[c].pc = "queued" /\ To(caller[c].cmd) = a
    BY <1>1 DEF IInv, TypeOK
  <2> QED BY <1>1, <2>1, ActorsAssumption DEF IInv, Queues
<1>6. \A b \in Actor :
            /\ actor'[b].serves = actor[b].serves /\ actor'[b].inside = actor[b].inside
            /\ (actor'[b].state = "open") <=> (actor[b].state = "open")
            /\ Boxed(b)' \subseteq Boxed(b) \ C
            /\ \A i, j \in DOMAIN actor'[b].box : actor'[b].box[i] = actor'[b].box[j] => i = j
  <2> SUFFICES ASSUME NEW b \in Actor
               PROVE  /\ actor'[b].serves = actor[b].serves /\ actor'[b].inside = actor[b].inside
                      /\ (actor'[b].state = "open") <=> (actor[b].state = "open")
                      /\ Boxed(b)' \subseteq Boxed(b) \ C
                      /\ \A i, j \in DOMAIN actor'[b].box : actor'[b].box[i] = actor'[b].box[j] => i = j
    OBVIOUS
  <2>1. CASE b = a
    BY <1>1, <1>3, <2>1 DEF Boxed
  <2>2. CASE b # a
    <3>1. actor'[b] = actor[b]
      BY <1>2, <2>2
    <3>2. Boxed(b)' = Boxed(b)
      BY <3>1 DEF Boxed
    <3>3. Boxed(b) \cap C = {}
      BY <2>2 DEF IInv, TypeOK
    <3> QED BY <3>1, <3>2, <3>3 DEF IInv, Queues
  <2> QED BY <2>1, <2>2
<1> HIDE DEF C
<1> QED BY <1>1, <1>4, <1>5, <1>6, FailStep

LEMMA EnqueueStep == ASSUME IInv, NEW c \in Caller, Enqueue(c) PROVE IInv'
<1> USE ActorsAssumption
<1>0. "A" \in Actor /\ "B" \in Actor /\ Stopper \in Caller /\ Designer \in Caller
  BY DEF Actor, Caller
<1>p. PICK a \in Actor : a = To(caller[c].cmd)
  BY DEF To, Actor
<1>1. /\ a \in Actor /\ caller[c].pc = "asking" /\ UNCHANGED <<worker, last, busy, stop>>
      /\ actor[a] \in [box : Seq(Caller), serves : Caller \cup {Nobody},
                       inside : BOOLEAN, state : {"open", "stopping", "closed"}]
  BY <1>p DEF Enqueue, IInv, TypeOK
<1>2. /\ caller' \in [Caller -> [pc : {"idle", "asking", "queued", "over"}, cmd : Command]]
      /\ caller'[c].pc = "queued" /\ \A d \in Caller : caller'[d].cmd = caller[d].cmd
      /\ \A d \in Caller \ {c} : caller'[d] = caller[d]
  BY ZenonT(30) DEF Enqueue, IInv, TypeOK
<1>3. /\ c \notin Boxed(a) /\ \A b \in Actor : c \notin Boxed(b) /\ actor[b].serves # c
  BY <1>1 DEF IInv, TypeOK, Queues
<1>4. /\ actor' = [actor EXCEPT ![a] = [actor[a] EXCEPT !.box = Append(actor[a].box, c)]]
      /\ actor'[a] = [actor[a] EXCEPT !.box = Append(actor[a].box, c)]
      /\ \A b \in Actor \ {a} : actor'[b] = actor[b]
  BY <1>1, <1>p DEF Enqueue, IInv, TypeOK
<1>5. /\ actor'[a].box = Append(actor[a].box, c) /\ actor'[a].serves = actor[a].serves
      /\ actor'[a].inside = actor[a].inside /\ actor'[a].state = actor[a].state
  BY <1>1, <1>4
<1>6. /\ actor'[a].box \in Seq(Caller)
      /\ Boxed(a)' = Boxed(a) \cup {c}
      /\ \A i, j \in DOMAIN actor'[a].box : actor'[a].box[i] = actor'[a].box[j] => i = j
  <2> DEFINE s == actor[a].box
             t == actor'[a].box
  <2>1. /\ s \in Seq(Caller) /\ t = Append(s, c)
        /\ \A i, j \in DOMAIN s : s[i] = s[j] => i = j
        /\ Boxed(a) = {s[i] : i \in DOMAIN s} /\ Boxed(a)' = {t[i] : i \in DOMAIN t}
    <3>1. s \in Seq(Caller) /\ t = Append(s, c)
      BY <1>1, <1>5
    <3>2. \A i, j \in DOMAIN s : s[i] = s[j] => i = j
      BY <1>1 DEF IInv, Queues
    <3>3. Boxed(a) = {s[i] : i \in DOMAIN s} /\ Boxed(a)' = {t[i] : i \in DOMAIN t}
      BY DEF Boxed
    <3> QED BY <3>1, <3>2, <3>3
  <2> HIDE DEF s, t
  <2>2. /\ t \in Seq(Caller)
        /\ {t[i] : i \in DOMAIN t} = {s[i] : i \in DOMAIN s} \cup {c}
        /\ \A i, j \in DOMAIN t : t[i] = t[j] => i = j
    <3>1. c \notin {s[i] : i \in DOMAIN s}
      BY <1>3, <2>1
    <3>2. s \in Seq(Caller) /\ t = Append(s, c) /\ \A i, j \in DOMAIN s : s[i] = s[j] => i = j
      BY <2>1
    <3>3. /\ t \in Seq(Caller)
          /\ {t[i] : i \in DOMAIN t} = {s[i] : i \in DOMAIN s} \cup {c}
          /\ (/\ \A i, j \in DOMAIN s : s[i] = s[j] => i = j
              /\ c \notin {s[i] : i \in DOMAIN s})
             => \A i, j \in DOMAIN t : t[i] = t[j] => i = j
      BY <3>2, Appended
    <3> QED BY <3>1, <3>2, <3>3
  <2>3. t \in Seq(Caller) /\ Boxed(a)' = Boxed(a) \cup {c}
        /\ \A i, j \in DOMAIN t : t[i] = t[j] => i = j
    BY <2>1, <2>2
  <2> QED BY <2>3 DEF t
<1>7. actor' \in [Actor -> [box : Seq(Caller), serves : Caller \cup {Nobody},
                            inside : BOOLEAN, state : {"open", "stopping", "closed"}]]
  <2>1. actor'[a] \in [box : Seq(Caller), serves : Caller \cup {Nobody},
                       inside : BOOLEAN, state : {"open", "stopping", "closed"}]
    <3> DEFINE r == actor[a]
               t == Append(actor[a].box, c)
    <3>1. t \in Seq(Caller)
      BY <1>5, <1>6
    <3>2. /\ r \in [box : Seq(Caller), serves : Caller \cup {Nobody},
                    inside : BOOLEAN, state : {"open", "stopping", "closed"}]
          /\ actor'[a] = [r EXCEPT !.box = t]
      BY <1>1, <1>4
    <3> HIDE DEF r, t
    <3> QED BY <3>1, <3>2
  <2> QED BY <1>1, <1>4, <2>1 DEF IInv, TypeOK
<1>8. \A b \in Actor : /\ actor'[b].serves = actor[b].serves
                       /\ actor'[b].inside = actor[b].inside /\ actor'[b].state = actor[b].state
                       /\ Boxed(b)' = IF b = a THEN Boxed(b) \cup {c} ELSE Boxed(b)
  BY <1>4, <1>5, <1>6, SMTT(30) DEF Boxed
<1>9. TypeOK'
  <2>1. \A b \in Actor : \A d \in Boxed(b)' : caller'[d].pc = "queued" /\ To(caller'[d].cmd) = b
    <3> SUFFICES ASSUME NEW b \in Actor, NEW d \in Boxed(b)'
                 PROVE  caller'[d].pc = "queued" /\ To(caller'[d].cmd) = b
      OBVIOUS
    <3>1. CASE d = c
      <4>1. b = a
        BY <1>3, <1>8, <3>1
      <4> QED BY <1>2, <1>p, <3>1, <4>1
    <3>2. CASE d # c
      <4>1. d \in Boxed(b)
        BY <1>8, <3>2
      <4>2. d \in Caller
        BY <4>1 DEF IInv, TypeOK, Boxed
      <4> QED BY <1>2, <3>2, <4>1, <4>2 DEF IInv, TypeOK
    <3> QED BY <3>1, <3>2
  <2> QED BY <1>1, <1>2, <1>7, <2>1 DEF IInv, TypeOK
<1>10. Queues'
  <2>1. ASSUME NEW b \in Actor, actor'[b].serves # Nobody
        PROVE  /\ actor'[b].state = "open"
               /\ actor'[b].serves \notin Boxed(b)'
               /\ caller'[actor'[b].serves].pc = "queued"
               /\ To(caller'[actor'[b].serves].cmd) = b
    <3>1. actor'[b].serves = actor[b].serves /\ actor[b].serves \in Caller \ {c}
      BY <1>3, <1>8, <2>1 DEF IInv, TypeOK
    <3>2. caller'[actor[b].serves] = caller[actor[b].serves]
      BY <1>2, <3>1
    <3> QED BY <1>8, <2>1, <3>1, <3>2 DEF IInv, Queues
  <2>2. ASSUME NEW b \in Actor
        PROVE  \A i, j \in DOMAIN actor'[b].box : actor'[b].box[i] = actor'[b].box[j] => i = j
    BY <1>4, <1>6 DEF IInv, Queues
  <2> QED BY <2>1, <2>2 DEF Queues
<1>11. Commands' /\ Workers' /\ Stops'
  <2>1. Commands'
    BY <1>1, <1>2 DEF IInv, Commands
  <2>2. Workers'
    BY <1>1, <1>2 DEF IInv, Workers, Caller
  <2>3. Stops'
    BY <1>0, <1>1, <1>2, <1>8 DEF IInv, Stops
  <2> QED BY <2>1, <2>2, <2>3
<1>12. Insides'
  <2>1. ASSUME NEW b \in Actor, NEW cmd, Serves(b, cmd) PROVE Serves(b, cmd)'
    <3>1. actor'[b].serves = actor[b].serves /\ actor[b].serves \in Caller
      BY <1>8, <2>1 DEF Serves, IInv, TypeOK
    <3> QED BY <1>2, <2>1, <3>1 DEF Serves
  <2>2. caller'[Designer].pc # "idle" => caller[Designer].pc # "idle"
    BY <1>0, <1>1, <1>2
  <2> QED BY <1>0, <1>8, <2>1, <2>2 DEF IInv, Insides
<1>13. OneStep'
  <2>1. \A d \in Caller : Dispatching(d)' => Dispatching(d)
    BY <1>0, <1>2, <1>8 DEF Dispatching
  <2>2. \A w \in Worker : Holding(w)' => Holding(w)
    BY <1>0, <1>1, <1>2, <1>8 DEF Holding, Caller
  <2> QED BY <1>1, <2>1, <2>2, StaysOne
<1>14. Recorded' /\ LiveIsRecorded' /\ NothingAfterStop'
  <2>1. Live' = Live /\ \A w \in Worker : IsNewest(w)' = IsNewest(w)
    BY <1>1 DEF Live, IsNewest
  <2>2. actor'["B"].inside = actor["B"].inside
    BY <1>0, <1>8
  <2> QED BY <1>1, <1>8, <2>1, <2>2 DEF IInv, Recorded, LiveIsRecorded, NothingAfterStop, Live
<1> QED BY <1>9, <1>10, <1>11, <1>12, <1>13, <1>14 DEF IInv

--------------------------------------------------------------------------------
\* One who was idle asks, or is done; the mailboxes stay.
MailboxesStay ==
    \A b \in Actor : /\ actor'[b].box = actor[b].box /\ actor'[b].serves = actor[b].serves
                     /\ actor'[b].state = actor[b].state

LEMMA Turned ==
  ASSUME IInv, NEW c \in Caller, caller[c].pc = "idle",
         NEW r \in [pc : {"asking", "over"}, cmd : Command],
         caller' = [caller EXCEPT ![c] = r], MailboxesStay
  PROVE  /\ caller' \in [Caller -> [pc : {"idle", "asking", "queued", "over"}, cmd : Command]]
         /\ caller'[c] = r /\ \A d \in Caller \ {c} : caller'[d] = caller[d]
         /\ \A b \in Actor : actor[b].serves # c /\ Boxed(b)' = Boxed(b)
         /\ \A b \in Actor : \A d \in Boxed(b)' :
                caller'[d].pc = "queued" /\ To(caller'[d].cmd) = b
         /\ \A b \in Actor : \A cmd : Serves(b, cmd) => Serves(b, cmd)'
         /\ Queues'
<1> USE ActorsAssumption
<1>0. \A b \in Actor : /\ actor'[b].box = actor[b].box /\ actor'[b].serves = actor[b].serves
                       /\ actor'[b].state = actor[b].state
  BY DEF MailboxesStay
<1>1. /\ caller' \in [Caller -> [pc : {"idle", "asking", "queued", "over"}, cmd : Command]]
      /\ caller'[c] = r /\ \A d \in Caller \ {c} : caller'[d] = caller[d]
  BY DEF IInv, TypeOK
<1>2. \A b \in Actor : actor[b].serves # c /\ Boxed(b)' = Boxed(b) /\ c \notin Boxed(b)
  BY <1>0 DEF IInv, TypeOK, Queues, Boxed
<1>3. \A b \in Actor : \A d \in Boxed(b)' : caller'[d].pc = "queued" /\ To(caller'[d].cmd) = b
  <2> SUFFICES ASSUME NEW b \in Actor, NEW d \in Boxed(b)
               PROVE  caller'[d].pc = "queued" /\ To(caller'[d].cmd) = b
    BY <1>2
  <2>1. d \in Caller \ {c}
    BY <1>2 DEF IInv, TypeOK, Boxed
  <2> QED BY <1>1, <2>1 DEF IInv, TypeOK
<1>4. \A b \in Actor : actor[b].serves # Nobody => caller'[actor[b].serves] = caller[actor[b].serves]
  BY <1>1, <1>2 DEF IInv, TypeOK
<1>5. \A b \in Actor : \A cmd : Serves(b, cmd) => Serves(b, cmd)'
  BY <1>0, <1>4 DEF Serves
<1>6. Queues'
  <2>1. ASSUME NEW b \in Actor, actor'[b].serves # Nobody
        PROVE  /\ actor'[b].state = "open"
               /\ actor'[b].serves \notin Boxed(b)'
               /\ caller'[actor'[b].serves].pc = "queued"
               /\ To(caller'[actor'[b].serves].cmd) = b
    BY <1>0, <1>2, <1>4, <2>1 DEF IInv, Queues
  <2> QED BY <1>0, <2>1 DEF IInv, Queues
<1> QED BY <1>1, <1>2, <1>3, <1>5, <1>6

\* A step that ends no worker and starts none, and leaves B where it is.
LEMMA WorkersStay ==
  ASSUME IInv, UNCHANGED <<worker, last, stop>>,
         \A b \in Actor : /\ actor'[b].serves = actor[b].serves
                          /\ actor'[b].state = actor[b].state,
         actor'["B"].inside = actor["B"].inside
  PROVE  Recorded' /\ LiveIsRecorded' /\ NothingAfterStop'
<1>1. Live' = Live /\ \A w \in Worker : IsNewest(w)' = IsNewest(w)
  BY DEF Live, IsNewest
<1> QED BY <1>1 DEF IInv, Recorded, LiveIsRecorded, NothingAfterStop, Live

LEMMA AdvanceStep == ASSUME IInv, NEW d \in Driver, Advance(d) PROVE IInv'
<1> USE ActorsAssumption
<1> DEFINE r == Asking(StepCommand)
<1>1. /\ d \in Caller /\ d \notin Worker /\ d # Stopper /\ d # Designer
      /\ caller[d].pc = "idle" /\ busy = FALSE /\ busy' = TRUE
      /\ r \in [pc : {"asking", "over"}, cmd : Command] /\ caller' = [caller EXCEPT ![d] = r]
      /\ UNCHANGED <<actor, worker, last, stop>>
  BY DEF Advance, Caller, IInv, TypeOK, Asking, StepCommand, Command
<1>r. /\ r.pc = "asking" /\ r.cmd = IF Inline THEN "Review" ELSE "Dispatch"
  BY DEF Asking, StepCommand
<1> HIDE DEF r
<1>2. /\ caller' \in [Caller -> [pc : {"idle", "asking", "queued", "over"}, cmd : Command]]
      /\ caller'[d] = r /\ \A c \in Caller \ {d} : caller'[c] = caller[c]
      /\ \A b \in Actor : actor[b].serves # d /\ Boxed(b)' = Boxed(b)
      /\ \A b \in Actor : \A c \in Boxed(b)' :
             caller'[c].pc = "queued" /\ To(caller'[c].cmd) = b
      /\ \A b \in Actor : \A cmd : Serves(b, cmd) => Serves(b, cmd)'
      /\ Queues'
  <2>1. MailboxesStay
    BY <1>1 DEF MailboxesStay
  <2> QED BY <1>1, <2>1, Turned
<1>3. TypeOK'
  BY <1>1, <1>2 DEF IInv, TypeOK
<1>4. Commands'
  BY <1>1, <1>r, <1>2 DEF IInv, Commands
<1>5. Insides'
  <2>1. caller'[Designer] = caller[Designer]
    BY <1>1, <1>2 DEF Caller
  <2> QED BY <1>1, <1>2, <2>1 DEF IInv, Insides, Actor
<1>6. Workers' /\ Stops'
  <2>1. caller'[Stopper] = caller[Stopper] /\ \A w \in Worker : caller'[w] = caller[w]
    BY <1>1, <1>2 DEF Caller
  <2> QED BY <1>1, <2>1 DEF IInv, Workers, Stops
<1>7. OneStep'
  <2>1. \A c \in Caller : Dispatching(c)' => c = d
    BY <1>1, <1>2 DEF IInv, OneStep, Dispatching
  <2>2. \A w \in Worker : ~Holding(w)'
    BY <1>1, <1>2 DEF IInv, OneStep, Holding, Caller
  <2> QED BY <1>1, <2>1, <2>2 DEF OneStep
<1>8. Recorded' /\ LiveIsRecorded' /\ NothingAfterStop'
  BY <1>1, WorkersStay
<1> QED BY <1>2, <1>3, <1>4, <1>5, <1>6, <1>7, <1>8 DEF IInv

LEMMA ConsultStep == ASSUME IInv, NEW d \in Driver, Consult(d) PROVE IInv'
<1> USE ActorsAssumption
<1>0. PICK cmd \in {"Document", "Spec"} : caller' = [caller EXCEPT ![d] = Asking(cmd)]
  BY DEF Consult
<1> DEFINE r == Asking(cmd)
<1>1. /\ d \in Caller /\ d \notin Worker /\ d # Stopper /\ d # Designer
      /\ caller[d].pc = "idle"
      /\ r \in [pc : {"asking", "over"}, cmd : Command] /\ caller' = [caller EXCEPT ![d] = r]
      /\ UNCHANGED <<actor, worker, last, busy, stop>>
  BY <1>0 DEF Consult, Caller, Asking, Command
<1>r. r.pc = "asking" /\ r.cmd = cmd
  BY DEF Asking
<1> HIDE DEF r
<1>2. /\ caller' \in [Caller -> [pc : {"idle", "asking", "queued", "over"}, cmd : Command]]
      /\ caller'[d] = r /\ \A c \in Caller \ {d} : caller'[c] = caller[c]
      /\ \A b \in Actor : actor[b].serves # d /\ Boxed(b)' = Boxed(b)
      /\ \A b \in Actor : \A c \in Boxed(b)' :
             caller'[c].pc = "queued" /\ To(caller'[c].cmd) = b
      /\ \A b \in Actor : \A k : Serves(b, k) => Serves(b, k)'
      /\ Queues'
  <2>1. MailboxesStay
    BY <1>1 DEF MailboxesStay
  <2> QED BY <1>1, <2>1, Turned
<1>3. TypeOK'
  BY <1>1, <1>2 DEF IInv, TypeOK
<1>4. Commands'
  BY <1>0, <1>1, <1>r, <1>2 DEF IInv, Commands
<1>5. Insides'
  <2>1. caller'[Designer] = caller[Designer]
    BY <1>1, <1>2 DEF Caller
  <2> QED BY <1>1, <1>2, <2>1 DEF IInv, Insides, Actor
<1>6. Workers' /\ Stops'
  <2>1. caller'[Stopper] = caller[Stopper] /\ \A w \in Worker : caller'[w] = caller[w]
    BY <1>1, <1>2 DEF Caller
  <2> QED BY <1>1, <2>1 DEF IInv, Workers, Stops
<1>7. OneStep'
  <2>1. \A c \in Caller : Dispatching(c)' => Dispatching(c)
    BY <1>0, <1>1, <1>r, <1>2 DEF Dispatching
  <2>2. \A w \in Worker : Holding(w)' => Holding(w)
    BY <1>1, <1>2 DEF Holding, Caller
  <2> QED BY <1>1, <2>1, <2>2, StaysOne
<1>8. Recorded' /\ LiveIsRecorded' /\ NothingAfterStop'
  BY <1>1, WorkersStay
<1> QED BY <1>2, <1>3, <1>4, <1>5, <1>6, <1>7, <1>8 DEF IInv

LEMMA NotifyStep == ASSUME IInv, NEW w \in Worker, Notify(w) PROVE IInv'
<1> USE ActorsAssumption
<1> DEFINE r == Asking("Review")
<1>1. /\ w \in Caller /\ w # Stopper /\ w # Designer /\ worker[w] = "ended"
      /\ caller[w].pc = "idle"
      /\ r \in [pc : {"asking", "over"}, cmd : Command] /\ caller' = [caller EXCEPT ![w] = r]
      /\ UNCHANGED <<actor, worker, last, busy, stop>>
  BY DEF Notify, Caller, Asking, Command
<1>r. r.pc = "asking" /\ r.cmd = "Review"
  BY DEF Asking
<1> HIDE DEF r
<1>2. /\ caller' \in [Caller -> [pc : {"idle", "asking", "queued", "over"}, cmd : Command]]
      /\ caller'[w] = r /\ \A c \in Caller \ {w} : caller'[c] = caller[c]
      /\ \A b \in Actor : actor[b].serves # w /\ Boxed(b)' = Boxed(b)
      /\ \A b \in Actor : \A c \in Boxed(b)' :
             caller'[c].pc = "queued" /\ To(caller'[c].cmd) = b
      /\ \A b \in Actor : \A k : Serves(b, k) => Serves(b, k)'
      /\ Queues'
  <2>1. MailboxesStay
    BY <1>1 DEF MailboxesStay
  <2> QED BY <1>1, <2>1, Turned
<1>3. TypeOK'
  BY <1>1, <1>2 DEF IInv, TypeOK
<1>4. Commands'
  BY <1>1, <1>r, <1>2 DEF IInv, Commands
<1>5. Insides'
  <2>1. caller'[Designer] = caller[Designer]
    BY <1>1, <1>2 DEF Caller
  <2> QED BY <1>1, <1>2, <2>1 DEF IInv, Insides, Actor
<1>6. Workers' /\ Stops'
  <2>1. caller'[Stopper] = caller[Stopper] /\ \A v \in Worker \ {w} : caller'[v] = caller[v]
    BY <1>1, <1>2 DEF Caller
  <2> QED BY <1>1, <1>2, <2>1 DEF IInv, Workers, Stops
<1>7. OneStep'
  <2>1. \A c \in Caller : Dispatching(c)' => Dispatching(c)
    BY <1>1, <1>r, <1>2 DEF Dispatching
  <2>2. \A v \in Worker : Holding(v)' => Holding(v)
    BY <1>1, <1>2 DEF Holding, Caller
  <2> QED BY <1>1, <2>1, <2>2, StaysOne
<1>8. Recorded' /\ LiveIsRecorded' /\ NothingAfterStop'
  BY <1>1, WorkersStay
<1> QED BY <1>2, <1>3, <1>4, <1>5, <1>6, <1>7, <1>8 DEF IInv

LEMMA NotifyKilledStep == ASSUME IInv, NEW w \in Worker, NotifyKilled(w) PROVE IInv'
<1> USE ActorsAssumption
<1> DEFINE r == [caller[w] EXCEPT !.pc = "over"]
<1>1. /\ w \in Caller /\ w # Stopper /\ w # Designer /\ worker[w] = "killed"
      /\ caller[w].pc = "idle" /\ busy' \in {busy, FALSE}
      /\ r \in [pc : {"asking", "over"}, cmd : Command] /\ caller' = [caller EXCEPT ![w] = r]
      /\ UNCHANGED <<actor, worker, last, stop>>
  BY DEF NotifyKilled, Caller, IInv, TypeOK
<1>r. r.pc = "over" /\ r.cmd = "none"
  BY <1>1 DEF IInv, TypeOK, Commands
<1> HIDE DEF r
<1>2. /\ caller' \in [Caller -> [pc : {"idle", "asking", "queued", "over"}, cmd : Command]]
      /\ caller'[w] = r /\ \A c \in Caller \ {w} : caller'[c] = caller[c]
      /\ \A b \in Actor : actor[b].serves # w /\ Boxed(b)' = Boxed(b)
      /\ \A b \in Actor : \A c \in Boxed(b)' :
             caller'[c].pc = "queued" /\ To(caller'[c].cmd) = b
      /\ \A b \in Actor : \A k : Serves(b, k) => Serves(b, k)'
      /\ Queues'
  <2>1. MailboxesStay
    BY <1>1 DEF MailboxesStay
  <2> QED BY <1>1, <2>1, Turned
<1>h. Holding(w)
  BY <1>1, LiveHolds
<1>3. TypeOK'
  BY <1>1, <1>2 DEF IInv, TypeOK
<1>4. Commands'
  BY <1>1, <1>r, <1>2 DEF IInv, Commands
<1>5. Insides'
  <2>1. caller'[Designer] = caller[Designer]
    BY <1>1, <1>2 DEF Caller
  <2> QED BY <1>1, <1>2, <2>1 DEF IInv, Insides, Actor
<1>6. Workers' /\ Stops'
  <2>1. caller'[Stopper] = caller[Stopper] /\ \A v \in Worker \ {w} : caller'[v] = caller[v]
    BY <1>1, <1>2 DEF Caller
  <2> QED BY <1>1, <1>r, <1>2, <2>1 DEF IInv, Workers, Stops
<1>7. OneStep'
  <2>1. \A c \in Caller : ~Dispatching(c)'
    BY <1>1, <1>r, <1>2, <1>h DEF IInv, OneStep, Dispatching
  <2>2. \A v \in Worker : ~Holding(v)'
    <3>1. \A v \in Worker : Holding(v)' => Holding(v) /\ v # w
      BY <1>1, <1>r, <1>2 DEF Holding, Caller
    <3> QED BY <1>h, <3>1 DEF IInv, OneStep
  <2> QED BY <2>1, <2>2 DEF OneStep
<1>8. Recorded' /\ LiveIsRecorded' /\ NothingAfterStop'
  BY <1>1, WorkersStay
<1> QED BY <1>2, <1>3, <1>4, <1>5, <1>6, <1>7, <1>8 DEF IInv

--------------------------------------------------------------------------------
LEMMA ReviewEndsStep == ASSUME IInv, ReviewEnds PROVE IInv'
<1> USE ActorsAssumption
<1>p. PICK c \in Caller : actor["A"].serves = c
  BY DEF ReviewEnds, Serves, IInv, TypeOK, Actor
<1>1. /\ "A" \in Actor /\ caller[c].cmd = "Review" /\ caller[c].pc = "queued"
      /\ ~actor["A"].inside /\ actor["A"].state = "open" /\ c # Stopper
      /\ Reply({c}) /\ actor' = Served("A") /\ busy' = FALSE /\ UNCHANGED <<worker, last, stop>>
  BY <1>p DEF ReviewEnds, Serves, IInv, TypeOK, Queues, Commands, Actor
<1>2. c # Designer
  BY <1>1 DEF IInv, Insides
<1>3. TypeOK' /\ Queues' /\ Commands' /\ Insides' /\ Workers' /\ Stops'
  <2>1. last' \in Written /\ busy' \in BOOLEAN
    BY <1>1 DEF IInv, TypeOK
  <2> QED BY <1>p, <1>1, <1>2, <2>1, AnswerStep
<1>4. /\ \A d \in Caller : Dispatching(d)' => Dispatching(d) /\ d # c
      /\ \A w \in Worker : Holding(w)' => Holding(w) /\ w # c
  BY <1>p, <1>1, AnswerKeeps
<1>5. OneStep'
  <2>1. CASE Inline
    <3>1. \A d \in Caller : ~Dispatching(d)
      BY <2>1 DEF IInv, Commands, Dispatching
    <3>2. \A w \in Worker : ~Holding(w)
      BY <2>1 DEF IInv, Workers, Holding
    <3> QED BY <1>4, <3>1, <3>2 DEF OneStep
  <2>2. CASE ~Inline
    <3>1. c \in Worker /\ Holding(c)
      BY <1>1, <2>2 DEF IInv, Commands, Holding
    <3>2. \A d \in Caller : ~Dispatching(d)'
      BY <1>4, <3>1 DEF IInv, OneStep
    <3>3. \A w \in Worker : ~Holding(w)'
      BY <1>4, <3>1 DEF IInv, OneStep
    <3> QED BY <3>2, <3>3 DEF OneStep
  <2> QED BY <2>1, <2>2
<1>6. Recorded' /\ LiveIsRecorded' /\ NothingAfterStop'
  <2>1. Live' = Live /\ \A w \in Worker : IsNewest(w)' = IsNewest(w)
    BY <1>1 DEF Live, IsNewest
  <2>2. actor'["B"].inside = actor["B"].inside
    BY <1>1, Freed DEF Actor
  <2>3. stop'.at # "done"
    BY <1>1, WorksBeforeStop
  <2> QED BY <1>1, <2>1, <2>2, <2>3 DEF IInv, Recorded, LiveIsRecorded, NothingAfterStop, Live
<1> QED BY <1>3, <1>5, <1>6 DEF IInv

LEMMA ReviewReturnsStep == ASSUME IInv, ReviewReturns PROVE IInv'
<1> USE ActorsAssumption
<1>p. PICK c \in Caller : actor["A"].serves = c
  BY DEF ReviewReturns, Serves, IInv, TypeOK, Actor
<1>1. /\ "A" \in Actor /\ caller[c].cmd = "Review" /\ caller[Designer].pc = "idle"
      /\ actor["A"].inside /\ actor["A"].state = "open" /\ c # Stopper
      /\ Reply({c}) /\ actor' = Served("A") /\ UNCHANGED <<worker, last, busy, stop>>
  BY <1>p DEF ReviewReturns, Serves, IInv, TypeOK, Queues, Commands, Actor
<1>3. TypeOK' /\ Queues' /\ Commands' /\ Insides' /\ Workers' /\ Stops'
  <2>1. last' \in Written /\ busy' \in BOOLEAN
    BY <1>1 DEF IInv, TypeOK
  <2> QED BY <1>p, <1>1, <2>1, AnswerStep
<1>4. /\ \A d \in Caller : Dispatching(d)' => Dispatching(d) /\ d # c
      /\ \A w \in Worker : Holding(w)' => Holding(w) /\ w # c
  BY <1>p, <1>1, AnswerKeeps
<1>5. OneStep'
  BY <1>1, <1>4, StaysOne
<1>6. Recorded' /\ LiveIsRecorded' /\ NothingAfterStop'
  <2>1. Live' = Live /\ \A w \in Worker : IsNewest(w)' = IsNewest(w)
    BY <1>1 DEF Live, IsNewest
  <2>2. actor'["B"].inside = actor["B"].inside
    BY <1>1, Freed DEF Actor
  <2>3. stop'.at # "done"
    BY <1>1, WorksBeforeStop
  <2> QED BY <1>1, <2>1, <2>2, <2>3 DEF IInv, Recorded, LiveIsRecorded, NothingAfterStop, Live
<1> QED BY <1>3, <1>5, <1>6 DEF IInv

LEMMA ReviewAdvancesStep == ASSUME IInv, ReviewAdvances PROVE IInv'
<1> USE ActorsAssumption
<1>p. PICK c \in Caller : actor["A"].serves = c
  BY DEF ReviewAdvances, Serves, IInv, TypeOK, Actor
<1>q. PICK r \in [pc : {"asking", "over"}, cmd : Command] : r = Asking(StepCommand)
  BY DEF Asking, StepCommand, Command
<1>1. /\ "A" \in Actor /\ "B" \in Actor /\ caller[c].cmd = "Review" /\ caller[c].pc = "queued"
      /\ ~actor["A"].inside /\ actor["A"].state = "open"
      /\ actor' = [actor EXCEPT !["A"].inside = TRUE]
      /\ UNCHANGED <<worker, last, busy, stop>>
      /\ Designer \in Caller /\ Designer \notin Worker /\ Designer # Stopper
      /\ caller' = [caller EXCEPT ![Designer] = r]
  BY <1>p, <1>q DEF ReviewAdvances, Serves, IInv, TypeOK, Queues, Actor, Caller
<1>r. r.pc = "asking" /\ r.cmd = IF Inline THEN "Review" ELSE "Dispatch"
  BY <1>q DEF Asking, StepCommand
<1>i. caller[Designer].pc = "idle" /\ c # Designer
  BY <1>1 DEF IInv, Insides
<1>2. /\ actor' \in [Actor -> [box : Seq(Caller), serves : Caller \cup {Nobody},
                            inside : BOOLEAN, state : {"open", "stopping", "closed"}]]
      /\ \A b \in Actor : /\ actor'[b].box = actor[b].box /\ actor'[b].state = actor[b].state
                          /\ actor'[b].serves = actor[b].serves
      /\ actor'["A"].inside = TRUE /\ actor'["B"] = actor["B"]
  BY <1>1, Entered
<1>3. /\ caller' \in [Caller -> [pc : {"idle", "asking", "queued", "over"}, cmd : Command]]
      /\ caller'[Designer] = r /\ \A d \in Caller \ {Designer} : caller'[d] = caller[d]
      /\ \A b \in Actor : actor[b].serves # Designer
      /\ \A b \in Actor : \A d \in Boxed(b)' :
             caller'[d].pc = "queued" /\ To(caller'[d].cmd) = b
      /\ \A b \in Actor : \A k : Serves(b, k) => Serves(b, k)'
      /\ Queues'
  <2>1. /\ Designer \in Caller /\ caller[Designer].pc = "idle"
        /\ caller' = [caller EXCEPT ![Designer] = r]
    BY <1>1, <1>i
  <2>2. MailboxesStay
    BY <1>2 DEF MailboxesStay
  <2> QED BY <2>1, <2>2, Turned
<1>4. TypeOK'
  BY <1>1, <1>2, <1>3 DEF IInv, TypeOK
<1>5. Commands'
  BY <1>1, <1>r, <1>3 DEF IInv, Commands
<1>6. Insides'
  <2>1. Serves("A", "Review") /\ (actor["B"].inside => Serves("B", "Dispatch"))
    BY DEF IInv, Insides, ReviewAdvances
  <2> QED BY <1>1, <1>2, <1>3, <2>1 DEF Insides
<1>7. Workers' /\ Stops'
  <2>1. Stopper \in Caller /\ caller'[Stopper] = caller[Stopper]
    BY <1>1, <1>3 DEF Caller
  <2>2. \A w \in Worker : caller'[w] = caller[w]
    BY <1>1, <1>3 DEF Caller
  <2> QED BY <1>1, <1>2, <2>1, <2>2 DEF IInv, Workers, Stops
<1>8. OneStep'
  <2>1. CASE Inline
    <3>1. \A d \in Caller : ~Dispatching(d)'
      BY <1>5, <2>1 DEF Commands, Dispatching
    <3>2. \A w \in Worker : ~Holding(w)'
      BY <1>7, <2>1 DEF Workers, Holding
    <3> QED BY <3>1, <3>2 DEF OneStep
  <2>2. CASE ~Inline
    <3>1. c \in Worker /\ Holding(c)
      BY <1>1, <2>2 DEF IInv, Commands, Holding
    <3>2. \A d \in Caller : Dispatching(d)' => d = Designer
      <4>1. \A d \in Caller \ {Designer} : Dispatching(d)' => Dispatching(d)
        BY <1>2, <1>3 DEF Dispatching
      <4> QED BY <3>1, <4>1 DEF IInv, OneStep
    <3>3. \A w \in Worker : ~Holding(w)'
      <4>1. ~Holding(c)'
        BY <1>p, <1>1, <1>2 DEF Holding
      <4>2. \A w \in Worker : Holding(w)' => Holding(w)
        BY <1>1, <1>2, <1>3 DEF Holding, Caller
      <4> QED BY <3>1, <4>1, <4>2 DEF IInv, OneStep
    <3>4. busy'
      BY <1>1, <3>1 DEF IInv, OneStep
    <3> QED BY <3>2, <3>3, <3>4 DEF OneStep
  <2> QED BY <2>1, <2>2
<1>9. Recorded' /\ LiveIsRecorded' /\ NothingAfterStop'
  BY <1>1, <1>2, WorkersStay
<1> QED BY <1>3, <1>4, <1>5, <1>6, <1>7, <1>8, <1>9 DEF IInv

LEMMA WorkerEndsStep == ASSUME IInv, NEW w \in Worker, WorkerEnds(w) PROVE IInv'
<1> USE ActorsAssumption
<1>1. /\ worker[w] = "live" /\ UNCHANGED <<actor, caller, last, busy, stop>>
      /\ worker' \in [Worker -> {"none", "live", "ended", "killed"}]
      /\ worker'[w] = "ended" /\ \A v \in Worker \ {w} : worker'[v] = worker[v]
  BY DEF WorkerEnds, IInv, TypeOK
<1>2. TypeOK' /\ Queues' /\ Insides' /\ Stops'
  <2>1. \A a \in Actor : Boxed(a)' = Boxed(a)
    BY <1>1 DEF Boxed
  <2>2. \A a \in Actor : \A k : Serves(a, k)' = Serves(a, k)
    BY <1>1 DEF Serves
  <2>3. caller' = caller /\ actor' = actor
    BY <1>1
  <2>4. Queues'
    BY <2>1, <2>3 DEF IInv, Queues
  <2>5. "A" \in Actor /\ "B" \in Actor
    BY DEF Actor
  <2> QED BY <1>1, <2>1, <2>2, <2>4, <2>5 DEF IInv, TypeOK, Insides, Stops
<1>3. Commands' /\ Workers'
  BY <1>1 DEF IInv, Commands, Workers, Caller
<1>4. OneStep'
  <2>1. \A c \in Caller : Dispatching(c)' => Dispatching(c)
    BY <1>1 DEF Dispatching
  <2>2. \A v \in Worker : Holding(v)' => Holding(v)
    BY <1>1 DEF Holding
  <2> QED BY <1>1, <2>1, <2>2, StaysOne
<1>5. Recorded' /\ LiveIsRecorded' /\ NothingAfterStop'
  <2>1. Live' \subseteq Live
    BY <1>1 DEF Live
  <2>2. \A v \in Worker : IsNewest(v)' = IsNewest(v)
    <3>1. \A v \in Worker : (worker'[v] = "none") <=> (worker[v] = "none")
      BY <1>1
    <3>2. \A v \in Worker : \A u \in (v + 1) .. MaxWorker : u \in Worker
      BY DEF Worker
    <3> QED BY <3>1, <3>2 DEF IsNewest
  <2> QED BY <1>1, <2>1, <2>2 DEF IInv, Recorded, LiveIsRecorded, NothingAfterStop, Live
<1> QED BY <1>2, <1>3, <1>4, <1>5 DEF IInv

LEMMA StopListsStep == ASSUME IInv, StopLists PROVE IInv'
<1> USE ActorsAssumption
<1>1. /\ UNCHANGED <<actor, caller, worker, last, busy>> /\ stop.at \in {"no", "done"}
      /\ stop'.at = "listed" /\ stop' \in [at : {"no", "listed", "asking", "done"}, listed : SUBSET Worker]
  BY DEF StopLists, Live
<1>2. caller[Stopper].pc = "idle" /\ caller[Stopper].cmd = "none"
  BY <1>1 DEF IInv, Stops, Commands, Caller
<1>3. TypeOK' /\ Queues' /\ Insides'
  <2>1. \A a \in Actor : Boxed(a)' = Boxed(a)
    BY <1>1 DEF Boxed
  <2>2. \A a \in Actor : \A k : Serves(a, k)' = Serves(a, k)
    BY <1>1 DEF Serves
  <2>3. caller' = caller /\ actor' = actor
    BY <1>1
  <2>4. Queues'
    BY <2>1, <2>3 DEF IInv, Queues
  <2>5. "A" \in Actor /\ "B" \in Actor
    BY DEF Actor
  <2> QED BY <1>1, <2>1, <2>2, <2>4, <2>5 DEF IInv, TypeOK, Insides
<1>4. Commands' /\ Workers' /\ Stops'
  BY <1>1, <1>2 DEF IInv, Commands, Workers, Stops
<1>5. OneStep'
  <2>1. \A c \in Caller : Dispatching(c)' => Dispatching(c)
    BY <1>1 DEF Dispatching
  <2>2. \A v \in Worker : Holding(v)' => Holding(v)
    BY <1>1 DEF Holding
  <2> QED BY <1>1, <2>1, <2>2, StaysOne
<1>6. Recorded' /\ LiveIsRecorded' /\ NothingAfterStop'
  <2>1. Live' = Live /\ \A w \in Worker : IsNewest(w)' = IsNewest(w)
    BY <1>1 DEF Live, IsNewest
  <2> QED BY <1>1, <2>1 DEF IInv, Recorded, LiveIsRecorded, NothingAfterStop, Live
<1> QED BY <1>3, <1>4, <1>5, <1>6 DEF IInv

\* Killing workers changes nothing but that they run.
LEMMA KilledKeeps ==
  ASSUME IInv, NEW W, Killed(W), UNCHANGED <<actor, last>>,
         \A w \in Worker : caller'[w] = caller[w]
  PROVE  /\ worker' \in [Worker -> {"none", "live", "ended", "killed"}]
         /\ Live' = Live \ W
         /\ \A w \in Worker : /\ worker'[w] = "ended" <=> worker[w] = "ended"
                              /\ worker'[w] = "none" <=> worker[w] = "none"
                              /\ Holding(w)' => Holding(w)
         /\ Workers' /\ Recorded' /\ LiveIsRecorded'
<1> USE ActorsAssumption
<1>1. /\ worker' \in [Worker -> {"none", "live", "ended", "killed"}]
      /\ \A w \in Worker : worker'[w] = IF w \in W /\ worker[w] = "live" THEN "killed" ELSE worker[w]
  BY DEF Killed, IInv, TypeOK
<1>2. Live' = Live \ W
  BY <1>1 DEF Live
<1>3. \A w \in Worker : /\ worker'[w] = "ended" <=> worker[w] = "ended"
                        /\ worker'[w] = "none" <=> worker[w] = "none"
  BY <1>1
<1>4. \A w \in Worker : Holding(w)' => Holding(w)
  BY <1>3 DEF Holding
<1>5. Workers'
  BY <1>1, <1>3 DEF IInv, Workers
<1>6. \A w \in Worker : IsNewest(w)' = IsNewest(w)
  <2>1. \A v \in Worker : \A u \in (v + 1) .. MaxWorker : u \in Worker
    BY DEF Worker
  <2> QED BY <1>3, <2>1 DEF IsNewest
<1>7. Recorded' /\ LiveIsRecorded'
  BY <1>2, <1>6 DEF IInv, Recorded, LiveIsRecorded, Live
<1> QED BY <1>1, <1>2, <1>3, <1>4, <1>5, <1>7

LEMMA StopKillsStep == ASSUME IInv, StopKills PROVE IInv'
<1> USE ActorsAssumption
<1> DEFINE r == Asking("StopA")
<1>1. /\ Stopper \in Caller /\ Stopper \notin Worker /\ Stopper # Designer
      /\ stop.at = "listed" /\ Killed(stop.listed) /\ UNCHANGED <<actor, last, busy>>
      /\ r \in [pc : {"asking", "over"}, cmd : Command]
      /\ caller' = [caller EXCEPT ![Stopper] = r]
      /\ stop' = [at |-> "asking", listed |-> {}]
  BY DEF StopKills, Caller, Asking, Command
<1>r. r.pc = "asking" /\ r.cmd = "StopA"
  BY DEF Asking
<1> HIDE DEF r
<1>i. caller[Stopper].pc = "idle"
  BY <1>1 DEF IInv, Stops
<1>2. /\ caller' \in [Caller -> [pc : {"idle", "asking", "queued", "over"}, cmd : Command]]
      /\ caller'[Stopper] = r /\ \A d \in Caller \ {Stopper} : caller'[d] = caller[d]
      /\ \A b \in Actor : \A d \in Boxed(b)' :
             caller'[d].pc = "queued" /\ To(caller'[d].cmd) = b
      /\ \A b \in Actor : \A k : Serves(b, k) => Serves(b, k)'
      /\ Queues'
  <2>1. MailboxesStay
    BY <1>1 DEF MailboxesStay
  <2> QED BY <1>1, <1>i, <2>1, Turned
<1>3. \A w \in Worker : caller'[w] = caller[w]
  BY <1>1, <1>2 DEF Caller
<1>4. /\ worker' \in [Worker -> {"none", "live", "ended", "killed"}]
      /\ \A w \in Worker : /\ worker'[w] = "ended" <=> worker[w] = "ended"
                           /\ Holding(w)' => Holding(w)
      /\ Workers' /\ Recorded' /\ LiveIsRecorded'
  BY <1>1, <1>3, KilledKeeps
<1>5. TypeOK'
  BY <1>1, <1>2, <1>4 DEF IInv, TypeOK
<1>6. Commands'
  BY <1>1, <1>r, <1>2, <1>4 DEF IInv, Commands
<1>7. Insides'
  <2>1. Designer \in Caller /\ caller'[Designer] = caller[Designer] /\ "A" \in Actor /\ "B" \in Actor
    BY <1>1, <1>2 DEF Caller, Actor
  <2> QED BY <1>1, <1>2, <2>1 DEF IInv, Insides
<1>8. Stops' /\ NothingAfterStop'
  BY <1>1, <1>r, <1>2 DEF Stops, NothingAfterStop
<1>9. OneStep'
  <2>1. \A c \in Caller : Dispatching(c)' => Dispatching(c)
    BY <1>1, <1>r, <1>2 DEF Dispatching
  <2> QED BY <1>1, <1>4, <2>1, StaysOne
<1> QED BY <1>2, <1>4, <1>5, <1>6, <1>7, <1>8, <1>9 DEF IInv

LEMMA StopAbortsStep == ASSUME IInv, StopAborts PROVE IInv'
<1> USE ActorsAssumption
<1>1. /\ stop.at = "asking" /\ caller[Stopper].pc = "idle" /\ Killed({last.task})
      /\ UNCHANGED <<actor, caller, last, busy>>
      /\ stop'.at = "done" /\ stop' \in [at : {"no", "listed", "asking", "done"}, listed : SUBSET Worker]
  BY DEF StopAborts, IInv, TypeOK
<1>2. \A a \in Actor : actor[a].state # "open" /\ actor[a].serves = Nobody
  BY <1>1 DEF IInv, Stops, Queues
<1>3. /\ worker' \in [Worker -> {"none", "live", "ended", "killed"}]
      /\ Live' = Live \ {last.task}
      /\ \A w \in Worker : /\ worker'[w] = "ended" <=> worker[w] = "ended"
                           /\ Holding(w)' => Holding(w)
      /\ Workers' /\ Recorded' /\ LiveIsRecorded'
  BY <1>1, KilledKeeps
<1>4. ~actor["B"].inside
  BY <1>2 DEF IInv, Insides, Serves, Actor
<1>5. Live' = {} \/ last'.late
  BY <1>1, <1>3, <1>4 DEF IInv, LiveIsRecorded
<1>6. TypeOK' /\ Queues' /\ Insides'
  <2>1. \A a \in Actor : Boxed(a)' = Boxed(a)
    BY <1>1 DEF Boxed
  <2>2. \A a \in Actor : \A k : Serves(a, k)' = Serves(a, k)
    BY <1>1 DEF Serves
  <2>3. caller' = caller /\ actor' = actor
    BY <1>1
  <2>4. Queues'
    BY <2>1, <2>3 DEF IInv, Queues
  <2>5. "A" \in Actor /\ "B" \in Actor
    BY DEF Actor
  <2> QED BY <1>1, <1>3, <2>1, <2>2, <2>4, <2>5 DEF IInv, TypeOK, Insides
<1>7. Commands' /\ Stops'
  BY <1>1, <1>2, <1>3 DEF IInv, Commands, Stops
<1>8. OneStep'
  <2>1. \A c \in Caller : Dispatching(c)' => Dispatching(c)
    BY <1>1 DEF Dispatching
  <2> QED BY <1>1, <1>3, <2>1, StaysOne
<1>9. NothingAfterStop'
  BY <1>1, <1>2, <1>5 DEF NothingAfterStop
<1> QED BY <1>3, <1>6, <1>7, <1>8, <1>9 DEF IInv

LEMMA StopAnsweredStep == ASSUME IInv, NEW a \in Actor, StopAnswered(a) PROVE IInv'
<1> USE ActorsAssumption
<1>0. "A" \in Actor /\ "B" \in Actor /\ Stopper \in Caller /\ Stopper \notin Worker
      /\ Designer \in Caller /\ Designer # Stopper
  BY DEF Actor, Caller
<1>1. /\ actor[a].serves = Stopper /\ caller[Stopper].pc = "queued"
      /\ caller[Stopper].cmd \in {"StopA", "StopB"} /\ To(caller[Stopper].cmd) = a
      /\ actor[a].state = "open" /\ Stopper \notin Boxed(a)
      /\ Reply({Stopper}) /\ UNCHANGED <<worker, last, busy, stop>>
  BY SMTT(30) DEF StopAnswered, Serves, IInv, TypeOK, Queues, Commands
<1>2. /\ actor' \in [Actor -> [box : Seq(Caller), serves : Caller \cup {Nobody},
                            inside : BOOLEAN, state : {"open", "stopping", "closed"}]]
      /\ actor'[a].serves = Nobody /\ actor'[a].state = "stopping"
      /\ actor'[a].box = actor[a].box /\ actor'[a].inside = actor[a].inside
      /\ \A b \in Actor \ {a} : actor'[b] = actor[b]
  <2> DEFINE r == actor[a]
  <2>0. /\ actor' = [actor EXCEPT ![a] = [r EXCEPT !.serves = Nobody, !.state = "stopping"]]
        /\ \A b \in Actor \ {a} : actor'[b] = actor[b]
    BY DEF StopAnswered, IInv, TypeOK
  <2>1. /\ r \in [box : Seq(Caller), serves : Caller \cup {Nobody},
                  inside : BOOLEAN, state : {"open", "stopping", "closed"}]
        /\ actor'[a] = [r EXCEPT !.serves = Nobody, !.state = "stopping"]
    BY DEF StopAnswered, IInv, TypeOK
  <2>e. r = actor[a]
    OBVIOUS
  <2> HIDE DEF r
  <2>2. /\ actor'[a] \in [box : Seq(Caller), serves : Caller \cup {Nobody},
                          inside : BOOLEAN, state : {"open", "stopping", "closed"}]
        /\ actor'[a].serves = Nobody /\ actor'[a].state = "stopping"
        /\ actor'[a].box = r.box /\ actor'[a].inside = r.inside
    <3>1. actor'[a] \in [box : Seq(Caller), serves : Caller \cup {Nobody},
                         inside : BOOLEAN, state : {"open", "stopping", "closed"}]
      BY <2>1
    <3>2. /\ actor'[a].serves = Nobody /\ actor'[a].state = "stopping"
          /\ actor'[a].box = r.box /\ actor'[a].inside = r.inside
      BY <2>1
    <3> QED BY <3>1, <3>2
  <2>3. actor' \in [Actor -> [box : Seq(Caller), serves : Caller \cup {Nobody},
                            inside : BOOLEAN, state : {"open", "stopping", "closed"}]]
    BY <2>0, <2>1, <2>2 DEF IInv, TypeOK
  <2> QED BY <2>0, <2>2, <2>3, <2>e
<1>3. /\ caller' \in [Caller -> [pc : {"idle", "asking", "queued", "over"}, cmd : Command]]
      /\ \A d \in Caller \ {Stopper} : caller'[d] = caller[d]
      /\ caller'[Stopper] = IF caller[Stopper].cmd = "StopA" THEN Asking("StopB") ELSE Idle
  <2>1. {Stopper} \in SUBSET Caller
    BY <1>0
  <2>2. /\ caller' = [d \in Caller |-> IF d \in {Stopper} THEN AfterReply(d) ELSE caller[d]]
        /\ caller' \in [Caller -> [pc : {"idle", "asking", "queued", "over"}, cmd : Command]]
    BY <1>1, <2>1, Answers
  <2> QED BY <1>0, <2>2 DEF AfterReply
<1>4. \A b \in Actor : Boxed(b)' = Boxed(b) /\ actor'[b].box = actor[b].box
                       /\ actor'[b].inside = actor[b].inside
  BY <1>2 DEF Boxed
<1>5. \A b \in Actor : Stopper \notin Boxed(b) /\ (b # a => actor[b].serves # Stopper)
  <2>1. ASSUME NEW b \in Actor PROVE Stopper \notin Boxed(b)
    <3>1. CASE b = a
      BY <1>1, <3>1
    <3>2. CASE b # a
      BY <1>1, <3>2 DEF IInv, TypeOK
    <3> QED BY <3>1, <3>2
  <2>2. ASSUME NEW b \in Actor, b # a PROVE actor[b].serves # Stopper
    BY <1>0, <1>1, <2>2 DEF IInv, Queues
  <2> QED BY <2>1, <2>2
<1>6. TypeOK'
  <2>1. \A b \in Actor : \A d \in Boxed(b)' : caller'[d].pc = "queued" /\ To(caller'[d].cmd) = b
    <3> SUFFICES ASSUME NEW b \in Actor, NEW d \in Boxed(b)
                 PROVE  caller'[d].pc = "queued" /\ To(caller'[d].cmd) = b
      BY <1>4
    <3>1. d \in Caller \ {Stopper}
      BY <1>5 DEF IInv, TypeOK, Boxed
    <3> QED BY <1>3, <3>1 DEF IInv, TypeOK
  <2> QED BY <1>1, <1>2, <1>3, <2>1 DEF IInv, TypeOK
<1>7. Queues'
  <2>1. ASSUME NEW b \in Actor, actor'[b].serves # Nobody
        PROVE  /\ actor'[b].state = "open"
               /\ actor'[b].serves \notin Boxed(b)'
               /\ caller'[actor'[b].serves].pc = "queued"
               /\ To(caller'[actor'[b].serves].cmd) = b
    <3>1. b # a /\ actor'[b] = actor[b]
      BY <1>2, <2>1
    <3>2. actor[b].serves \in Caller \ {Stopper}
      BY <1>5, <2>1, <3>1 DEF IInv, TypeOK
    <3>3. caller'[actor[b].serves] = caller[actor[b].serves]
      BY <1>3, <3>2
    <3> QED BY <1>4, <2>1, <3>1, <3>3 DEF IInv, Queues
  <2> QED BY <1>4, <2>1 DEF IInv, Queues
<1>8. Commands'
  <2>1. caller'[Stopper].cmd \in {"none", "StopB"}
        /\ (caller'[Stopper].cmd = "none" <=> caller'[Stopper].pc \in {"idle", "over"})
        /\ caller'[Stopper].pc # "over"
    BY <1>3 DEF Asking, Idle
  <2> QED BY <1>1, <1>3, <2>1 DEF IInv, Commands
<1>9. \A b \in Actor : actor[b].inside => b # a
  BY <1>1 DEF IInv, Insides, Serves, Actor
<1>10. Insides'
  <2>1. ASSUME NEW b \in Actor, NEW k, b # a, Serves(b, k) PROVE Serves(b, k)'
    <3>1. actor'[b] = actor[b] /\ actor[b].serves \in Caller \ {Stopper}
      BY <1>2, <1>5, <2>1 DEF Serves, IInv, TypeOK
    <3> QED BY <1>3, <2>1, <3>1 DEF Serves
  <2>2. caller'[Designer] = caller[Designer]
    BY <1>0, <1>3
  <2> QED BY <1>0, <1>4, <1>9, <2>1, <2>2 DEF IInv, Insides
<1>11. Workers'
  <2>1. \A w \in Worker : caller'[w] = caller[w]
    BY <1>0, <1>3 DEF Caller
  <2> QED BY <1>1, <2>1 DEF IInv, Workers
<1>12. OneStep'
  <2>1. \A d \in Caller : Dispatching(d)' => Dispatching(d)
    <3>1. ASSUME NEW d \in Caller, Dispatching(d)' PROVE Dispatching(d)
      <4>1. d # Stopper /\ caller[d].cmd = "Dispatch"
        BY <1>3, <1>8, <3>1 DEF Dispatching, Commands
      <4>2. CASE a = "B"
        BY <1>1, <4>1, <4>2 DEF Dispatching
      <4>3. CASE a # "B"
        <5>1. actor'["B"] = actor["B"]
          BY <1>0, <1>2, <4>3
        <5> QED BY <3>1, <4>1, <5>1 DEF Dispatching
      <4> QED BY <4>2, <4>3
    <3> QED BY <3>1
  <2>2. \A w \in Worker : Holding(w)' => Holding(w)
    <3>1. ASSUME NEW w \in Worker, Holding(w)' PROVE Holding(w)
      <4>1. w # Stopper /\ caller'[w] = caller[w]
        BY <1>0, <1>3 DEF Caller
      <4>2. CASE a = "A"
        BY <1>1, <3>1, <4>1, <4>2 DEF Holding
      <4>3. CASE a # "A"
        <5>1. actor'["A"] = actor["A"]
          BY <1>0, <1>2, <4>3
        <5> QED BY <1>1, <3>1, <4>1, <5>1 DEF Holding
      <4> QED BY <4>2, <4>3
    <3> QED BY <3>1
  <2> QED BY <1>1, <2>1, <2>2, StaysOne
<1>13. stop.at = "asking"
  BY <1>1 DEF IInv, Stops
<1>14. Stops'
  <2>1. CASE caller[Stopper].cmd = "StopA"
    <3>1. a = "A" /\ caller'[Stopper].pc = "asking" /\ actor'["A"].state # "open"
      BY <1>1, <1>2, <1>3, <2>1 DEF To, Asking
    <3> QED BY <1>1, <1>13, <3>1 DEF Stops
  <2>2. CASE caller[Stopper].cmd = "StopB"
    <3>1. a = "B" /\ caller'[Stopper].cmd = "none" /\ actor["A"].state # "open"
      BY <1>1, <1>3, <2>2 DEF To, Idle, IInv, Stops
    <3>2. \A b \in Actor : actor'[b].state # "open"
      BY <1>2, <3>1 DEF Actor
    <3> QED BY <1>1, <1>13, <3>1, <3>2 DEF Stops
  <2> QED BY <1>1, <2>1, <2>2
<1>15. Recorded' /\ LiveIsRecorded' /\ NothingAfterStop'
  <2>1. Live' = Live /\ \A w \in Worker : IsNewest(w)' = IsNewest(w)
    BY <1>1 DEF Live, IsNewest
  <2>2. actor'["B"].inside = actor["B"].inside
    BY <1>0, <1>4
  <2> QED BY <1>1, <1>13, <2>1, <2>2 DEF IInv, Recorded, LiveIsRecorded, NothingAfterStop, Live
<1> QED BY <1>6, <1>7, <1>8, <1>10, <1>11, <1>12, <1>14, <1>15 DEF IInv

LEMMA WriteAgainStep == ASSUME IInv, NEW c \in Caller, WriteAgain(c) PROVE IInv'
<1>1. /\ actor' = actor /\ caller' = caller /\ worker' = worker
      /\ busy' = busy /\ stop' = stop
      /\ last.told[c] # 0
      /\ last' = [task |-> last.told[c], told |-> [last.told EXCEPT ![c] = 0],
                  late |-> last.late \/ last.told[c] # last.task]
  BY DEF WriteAgain
<1>2. last' \in Written
  BY <1>1 DEF IInv, TypeOK, Written
<1>3. (last.late => last'.late) /\ (last'.late \/ last'.task = last.task)
  BY <1>1
<1>4. /\ \A a \in Actor : Boxed(a)' = Boxed(a)
      /\ \A a \in Actor : \A k : Serves(a, k)' = Serves(a, k)
      /\ Live' = Live /\ \A w \in Worker : IsNewest(w)' = IsNewest(w)
  BY <1>1 DEF Boxed, Serves, Live, IsNewest
<1>5. TypeOK' /\ Queues'
  BY <1>1, <1>2, <1>4 DEF IInv, TypeOK, Queues
<1>6. Commands' /\ Insides' /\ Workers' /\ Stops'
  BY <1>1, <1>4 DEF IInv, Commands, Insides, Workers, Stops, Actor
<1>7. OneStep'
  BY <1>1 DEF IInv, OneStep, Dispatching, Holding
<1>8. Recorded' /\ LiveIsRecorded' /\ NothingAfterStop'
  BY <1>1, <1>3, <1>4 DEF IInv, Recorded, LiveIsRecorded, NothingAfterStop, Live
<1> QED BY <1>5, <1>6, <1>7, <1>8 DEF IInv

LEMMA Stuttering == ASSUME IInv, UNCHANGED vars PROVE IInv'
<1>1. /\ actor' = actor /\ caller' = caller /\ worker' = worker /\ last' = last
      /\ busy' = busy /\ stop' = stop
  BY DEF vars
<1>2. /\ \A a \in Actor : Boxed(a)' = Boxed(a)
      /\ \A a \in Actor : \A k : Serves(a, k)' = Serves(a, k)
      /\ Live' = Live /\ \A w \in Worker : IsNewest(w)' = IsNewest(w)
  BY <1>1 DEF Boxed, Serves, Live, IsNewest
<1>3. TypeOK' /\ Queues'
  BY <1>1, <1>2 DEF IInv, TypeOK, Queues
<1>4. Commands' /\ Insides' /\ Workers' /\ Stops'
  BY <1>1, <1>2 DEF IInv, Commands, Insides, Workers, Stops, Actor
<1>5. OneStep'
  BY <1>1 DEF IInv, OneStep, Dispatching, Holding
<1>6. Recorded' /\ LiveIsRecorded' /\ NothingAfterStop'
  BY <1>1, <1>2 DEF IInv, Recorded, LiveIsRecorded, NothingAfterStop, Live
<1> QED BY <1>3, <1>4, <1>5, <1>6 DEF IInv

--------------------------------------------------------------------------------
\* The invariant holds in every reachable state.
THEOREM Invariance == Spec => []IInv
<1>1. Init => IInv
  BY Initially
<1>2. IInv /\ [Next]_vars => IInv'
  <2> SUFFICES ASSUME IInv, [Next]_vars PROVE IInv'
    OBVIOUS
  <2>1. CASE \E c \in Caller : Request(c)
    BY <2>1, EnqueueStep, RefusedStep, WriteAgainStep DEF Request
  <2>2. CASE \E a \in Actor : Loop(a)
    BY <2>2, TakeStep, ConsultedStep, StopAnsweredStep, CloseStep DEF Loop
  <2>3. CASE HandleA
    BY <2>3, ReviewEndsStep, ReviewAdvancesStep, ReviewReturnsStep DEF HandleA
  <2>4. CASE HandleB
    BY <2>4, LaunchStep, RecordStep, DispatchFailsStep DEF HandleB
  <2>5. CASE StopLists \/ Stopping
    BY <2>5, StopListsStep, StopKillsStep, StopAbortsStep DEF Stopping
  <2>6. CASE \E d \in Driver : Advance(d) \/ Consult(d)
    BY <2>6, AdvanceStep, ConsultStep
  <2>7. CASE \E w \in Worker : WorkerEnds(w) \/ Notify(w) \/ NotifyKilled(w)
    BY <2>7, WorkerEndsStep, NotifyStep, NotifyKilledStep
  <2>8. CASE UNCHANGED vars
    BY <2>8, Stuttering
  <2> QED BY <2>1, <2>2, <2>3, <2>4, <2>5, <2>6, <2>7, <2>8 DEF Next
<1> QED BY <1>1, <1>2, PTL DEF Spec

\* The records keep their types and a mailbox holds only those who wait on it.
THEOREM TypeCorrect == Spec => []TypeOK
<1>1. IInv => TypeOK
  BY DEF IInv
<1> QED BY <1>1, Invariance, PTL

\* stop always knows of the worker that runs (B's launch and record_b_session_id
\* with a review that advances in between, however many workers), as long as no
\* worker's name has been written over a later one's.
THEOREM WorkersAreRecorded == Spec => []LiveIsRecorded
<1>1. IInv => LiveIsRecorded
  BY DEF IInv
<1> QED BY <1>1, Invariance, PTL

\* Nothing of the boss runs once stop has returned, whatever was under way, with
\* the same reservation.
THEOREM StopIsFinal == Spec => []NothingAfterStop
<1>1. IInv => NothingAfterStop
  BY DEF IInv
<1> QED BY <1>1, Invariance, PTL
================================================================================
