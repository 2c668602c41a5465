--------------------------- MODULE RunQueueProofs ---------------------------
(***************************************************************************)
(* Facts about RunQueue, which the proofs about the sleeping locks and the *)
(* life of tasks rest on: what waking, blocking and scheduling do to the   *)
(* states and the queue.                                                   *)
(***************************************************************************)
EXTENDS RunQueue, ListProofs

\* Leaves go to Zenon unless they name another prover.
USE ZenonT(60)

-----------------------------------------------------------------------------
(* The CPU: what every step of RunQueue preserves.                         *)

TaskStates == {"UNUSED", "READY", "RUNNING", "BLOCKED", "ZOMBIE"}

(* What holds of the run queue between calls: a task is READY exactly      *)
(* while it is queued, once, and only the current task is RUNNING.         *)
CpuSound(c) ==
    /\ c = [cur |-> c.cur, st |-> c.st, q |-> c.q]
    /\ c.cur \in Tasks
    /\ c.st \in [Tasks -> TaskStates]
    /\ c.q \in Seq(Tasks) /\ Once(c.q)
    /\ \A t \in Tasks : c.st[t] = "READY" <=> t \in Members(c.q)
    /\ \A t \in Tasks : c.st[t] = "RUNNING" => t = c.cur

(* A task's state is set. *)
LEMMA SetState ==
    ASSUME NEW c, NEW a, NEW b, NEW q, c = [cur |-> a, st |-> b, q |-> q], NEW t, NEW x
    PROVE  [c EXCEPT !.st[t] = x] = [cur |-> a, st |-> [b EXCEPT ![t] = x], q |-> q]
BY SMTT(60)

(* All states and the queue are set. *)
LEMMA SetStates ==
    ASSUME NEW c, NEW a, NEW b, NEW q, c = [cur |-> a, st |-> b, q |-> q], NEW st, NEW z
    PROVE  [c EXCEPT !.st = st, !.q = z] = [cur |-> a, st |-> st, q |-> z]
<1>1. [c EXCEPT !.st = st, !.q = z] = [[c EXCEPT !.st = st] EXCEPT !.q = z]
  OBVIOUS
<1>2. [c EXCEPT !.st = st] = [cur |-> a, st |-> st, q |-> q]
  BY SMTT(60)
<1>3. [[cur |-> a, st |-> st, q |-> q] EXCEPT !.q = z] = [cur |-> a, st |-> st, q |-> z]
  BY SMTT(60)
<1> QED
  BY <1>1, <1>2, <1>3

(* Waking a task that is not queued yet. *)
LEMMA WakeSound ==
    ASSUME NEW c, CpuSound(c), NEW t \in Tasks, c.st[t] # "READY"
    PROVE  /\ CpuSound(MakeReady(c, t))
           /\ MakeReady(c, t).cur = c.cur
           /\ MakeReady(c, t).st = [c.st EXCEPT ![t] = "READY"]
           /\ MakeReady(c, t).q # <<>>
<1>1. c = [cur |-> c.cur, st |-> c.st, q |-> c.q]
  BY DEF CpuSound
<1>2. MakeReady(c, t) = [cur |-> c.cur, st |-> [c.st EXCEPT ![t] = "READY"], q |-> Append(c.q, t)]
  <2>1. MakeReady(c, t) = [[c EXCEPT !.st[t] = "READY"] EXCEPT !.q = Append(@, t)]
    BY DEF MakeReady
  <2>2. [c EXCEPT !.st[t] = "READY"]
           = [cur |-> c.cur, st |-> [c.st EXCEPT ![t] = "READY"], q |-> c.q]
    BY SMTT(60), <1>1, SetState
  <2> QED
    BY <2>1, <2>2
<1> DEFINE d == [cur |-> c.cur, st |-> [c.st EXCEPT ![t] = "READY"], q |-> Append(c.q, t)]
<1>3. d.cur = c.cur /\ d.st = [c.st EXCEPT ![t] = "READY"] /\ d.q = Append(c.q, t)
  OBVIOUS
<1>4. /\ Append(c.q, t) \in Seq(Tasks) /\ Once(Append(c.q, t))
      /\ Members(Append(c.q, t)) = Members(c.q) \cup {t} /\ Append(c.q, t) # <<>>
  <2>1. c.q \in Seq(Tasks) /\ Once(c.q) /\ t \notin Members(c.q)
    BY DEF CpuSound
  <2>2. /\ Append(c.q, t) \in Seq(Tasks) /\ Once(Append(c.q, t))
        /\ Members(Append(c.q, t)) = Members(c.q) \cup {t}
    BY SMTT(60), <2>1, AppendFacts
  <2>3. Append(c.q, t) # <<>>
    <3>1. Len(Append(c.q, t)) = Len(c.q) + 1 /\ Len(c.q) \in Nat /\ Len(<<>>) = 0
      BY SMTT(60), <2>1
    <3> QED
      BY SMTT(60), <3>1
  <2> QED
    BY <2>2, <2>3
<1> HIDE DEF d
<1>5. CpuSound(d)
  BY <1>3, <1>4 DEF CpuSound, d, TaskStates
<1> QED
  BY <1>2, <1>3, <1>4, <1>5 DEF d

(* Waking several, each once. *)
LEMMA WakeAllSound ==
    ASSUME NEW c, CpuSound(c), NEW s \in Seq(Tasks), Once(s),
           \A t \in Members(s) : c.st[t] # "READY"
    PROVE  /\ CpuSound(MakeAllReady(c, s))
           /\ MakeAllReady(c, s).cur = c.cur
           /\ MakeAllReady(c, s).st
                = [t \in Tasks |-> IF t \in Members(s) THEN "READY" ELSE c.st[t]]
<1> DEFINE st == [t \in Tasks |-> IF t \in Members(s) THEN "READY" ELSE c.st[t]]
           q  == c.q \o s
           d  == [cur |-> c.cur, st |-> st, q |-> q]
<1>1. c = [cur |-> c.cur, st |-> c.st, q |-> c.q]
  BY DEF CpuSound
<1>2. MakeAllReady(c, s) = d
  <2>1. MakeAllReady(c, s) = [c EXCEPT !.st = st, !.q = c.q \o s]
    BY DEF MakeAllReady
  <2> HIDE DEF st
  <2> QED
    BY <1>1, <2>1, SetStates
<1>3. d.cur = c.cur /\ d.st = st /\ d.q = q
  OBVIOUS
<1>4. q \in Seq(Tasks) /\ Once(q) /\ Members(q) = Members(c.q) \cup Members(s)
  <2>1. c.q \in Seq(Tasks) /\ Once(c.q)
    BY DEF CpuSound
  <2>2. Members(s) \subseteq Tasks
    BY SMTT(60) DEF Members
  <2>3. Members(c.q) \cap Members(s) = {}
    BY <2>2 DEF CpuSound
  <2> QED
    BY SMTT(60), <2>1, <2>3, ConcatFacts
<1>5. CpuSound(d)
  <2> HIDE DEF q
  <2>1. d = [cur |-> d.cur, st |-> d.st, q |-> d.q] /\ d.cur \in Tasks
    BY <1>3 DEF CpuSound
  <2>2. st \in [Tasks -> TaskStates]
    BY DEF CpuSound, TaskStates
  <2>3. \A t \in Tasks : st[t] = "READY" <=> t \in Members(q)
    BY <1>4 DEF CpuSound
  <2>4. \A t \in Tasks : st[t] = "RUNNING" => t = c.cur
    BY DEF CpuSound
  <2> HIDE DEF d, st
  <2> QED
    BY <1>3, <1>4, <2>1, <2>2, <2>3, <2>4 DEF CpuSound
<1> QED
  BY <1>2, <1>3, <1>5

(* A task that is not queued gets another state that is not queued. *)
LEMMA StateSound ==
    ASSUME NEW c, CpuSound(c), NEW t \in Tasks, c.st[t] # "READY",
           NEW x \in TaskStates \ {"READY", "RUNNING"}
    PROVE  LET d == [c EXCEPT !.st[t] = x]
           IN  CpuSound(d) /\ d.cur = c.cur /\ d.q = c.q /\ d.st = [c.st EXCEPT ![t] = x]
<1> DEFINE st == [c.st EXCEPT ![t] = x]
           d  == [cur |-> c.cur, st |-> st, q |-> c.q]
<1>1. c = [cur |-> c.cur, st |-> c.st, q |-> c.q]
  BY DEF CpuSound
<1>2. [c EXCEPT !.st[t] = x] = d
  BY SMTT(60), <1>1, SetState
<1>3. d.cur = c.cur /\ d.st = st /\ d.q = c.q
  OBVIOUS
<1>4. /\ st \in [Tasks -> TaskStates]
      /\ \A u \in Tasks : st[u] = IF u = t THEN x ELSE c.st[u]
  BY DEF CpuSound
<1> HIDE DEF st, d
<1>5. CpuSound(d)
  <2>1. d = [cur |-> d.cur, st |-> d.st, q |-> d.q]
    BY <1>3 DEF d
  <2> QED
    BY <1>3, <1>4, <2>1 DEF CpuSound
<1> QED
  BY <1>2, <1>3, <1>5 DEF st

(* schedule() by a task that is neither running nor queued any more: the   *)
(* head of the queue gets the CPU, if there is one.                        *)
LEMMA ScheduleSound ==
    ASSUME NEW c, CpuSound(c), c.st[c.cur] \notin {"READY", "RUNNING"}
    PROVE  /\ CpuSound(schedule(c))
           /\ c.q = <<>> => schedule(c) = c
           /\ c.q # <<>> =>
                /\ Head(c.q) \in Tasks /\ c.st[Head(c.q)] = "READY" /\ Head(c.q) # c.cur
                /\ schedule(c).cur = Head(c.q)
                /\ schedule(c).st = [c.st EXCEPT ![Head(c.q)] = "RUNNING"]
<1>1. CASE c.q = <<>>
  BY <1>1 DEF schedule
<1>2. CASE c.q # <<>>
  <2> DEFINE h  == Head(c.q)
             st == [c.st EXCEPT ![h] = "RUNNING"]
             d  == [cur |-> h, st |-> st, q |-> Tail(c.q)]
  <2>1. c.q \in Seq(Tasks) /\ Once(c.q)
    BY DEF CpuSound
  <2>2. /\ h \in Tasks /\ Tail(c.q) \in Seq(Tasks) /\ Once(Tail(c.q))
        /\ Members(c.q) = {h} \cup Members(Tail(c.q)) /\ h \notin Members(Tail(c.q))
    BY <1>2, <2>1, TailFacts
  <2>3. c.st[h] = "READY" /\ h # c.cur
    BY <2>2 DEF CpuSound
  <2>4. schedule(c) = d
    <3>1. ~(c.q = <<>> \/ Head(c.q) = c.cur)
      BY <1>2, <2>3
    <3> QED
      BY <3>1 DEF schedule
  <2>5. d.cur = h /\ d.st = st /\ d.q = Tail(c.q)
    OBVIOUS
  <2>6. /\ st \in [Tasks -> TaskStates]
        /\ \A t \in Tasks : st[t] = IF t = h THEN "RUNNING" ELSE c.st[t]
    BY <2>2 DEF CpuSound, TaskStates
  <2> HIDE DEF st, d, h
  <2>7. CpuSound(d)
    <3>1. d = [cur |-> d.cur, st |-> d.st, q |-> d.q]
      BY <2>5 DEF d
    <3>2. \A t \in Tasks : st[t] = "READY" <=> t \in Members(Tail(c.q))
      BY <2>2, <2>3, <2>6 DEF CpuSound
    <3>3. \A t \in Tasks : st[t] = "RUNNING" => t = h
      BY <2>6 DEF CpuSound
    <3> QED
      BY <2>2, <2>5, <2>6, <3>1, <3>2, <3>3 DEF CpuSound
  <2> QED
    BY <1>2, <2>2, <2>3, <2>4, <2>5, <2>7 DEF h, st
<1> QED
  BY <1>1, <1>2

(* The current task stops (blocks, exits) and calls schedule(). *)
LEMMA StopSound ==
    ASSUME NEW c, CpuSound(c), c.st[c.cur] # "READY", NEW x \in {"BLOCKED", "ZOMBIE"},
           NEW d, d = schedule([c EXCEPT !.st[c.cur] = x])
    PROVE  /\ CpuSound(d)
           /\ c.q = <<>> => d.cur = c.cur /\ d.q = <<>> /\ d.st = [c.st EXCEPT ![c.cur] = x]
           /\ c.q # <<>> =>
                /\ Head(c.q) \in Tasks /\ c.st[Head(c.q)] = "READY" /\ Head(c.q) # c.cur
                /\ d.cur = Head(c.q)
                /\ d.st = [[c.st EXCEPT ![c.cur] = x] EXCEPT ![Head(c.q)] = "RUNNING"]
<1> DEFINE b == [c EXCEPT !.st[c.cur] = x]
<1>1. c.cur \in Tasks /\ x \in TaskStates \ {"READY", "RUNNING"} /\ c.st \in [Tasks -> TaskStates]
  BY DEF CpuSound, TaskStates
<1>2. CpuSound(b) /\ b.cur = c.cur /\ b.q = c.q /\ b.st = [c.st EXCEPT ![c.cur] = x]
  BY <1>1, StateSound
<1> HIDE DEF b
<1>3. b.st[b.cur] = x
  BY <1>1, <1>2
<1>4. d = schedule(b)
  BY DEF b
<1>5. /\ CpuSound(d) /\ (b.q = <<>> => d = b)
      /\ b.q # <<>> => /\ Head(b.q) \in Tasks /\ b.st[Head(b.q)] = "READY" /\ Head(b.q) # b.cur
                       /\ d.cur = Head(b.q) /\ d.st = [b.st EXCEPT ![Head(b.q)] = "RUNNING"]
  BY <1>2, <1>3, <1>4, ScheduleSound
<1>6. c.q # <<>> => c.st[Head(c.q)] = "READY"
  BY <1>1, <1>2, <1>5
<1> QED
  BY <1>2, <1>5, <1>6

(* A running task that blocks while another is queued gives the CPU to the *)
(* head of the queue.                                                      *)
LEMMA BlockSound ==
    ASSUME NEW c, CpuSound(c), c.st[c.cur] = "RUNNING", c.q # <<>>
    PROVE  /\ CpuSound(BlockCurrent(c))
           /\ Head(c.q) \in Tasks /\ c.st[Head(c.q)] = "READY" /\ Head(c.q) # c.cur
           /\ BlockCurrent(c).cur = Head(c.q)
           /\ BlockCurrent(c).st
                = [[c.st EXCEPT ![c.cur] = "BLOCKED"] EXCEPT ![Head(c.q)] = "RUNNING"]
<1>1. BlockCurrent(c) = schedule([c EXCEPT !.st[c.cur] = "BLOCKED"])
  BY DEF BlockCurrent
<1> QED
  BY <1>1, StopSound
=============================================================================
