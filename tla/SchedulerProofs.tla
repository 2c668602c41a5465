-------------------------- MODULE SchedulerProofs ---------------------------
(***************************************************************************)
(* The scheduler for any tasks, levels and slices: schedule() loses no     *)
(* task and queues none twice, whatever ticks fall between its steps, and  *)
(* with round-robin tasks only it implements the FIFO of RunQueue.         *)
(***************************************************************************)
EXTENDS Scheduler, ListProofs, FiniteSetTheorems

\* Leaves go to Zenon unless they name another prover.
USE ZenonT(60)

-----------------------------------------------------------------------------
(* The queue operations, list by list.                                     *)

IsQueues(r) == DOMAIN r = {"rr", "act", "exp", "na", "ne", "rq", "nr", "all"}

(* The scheduling classes. *)
PolicyNames == {"NORMAL", "PRIORITY"}

(* A task's sched_entity. *)
Entity == [policy : PolicyNames, priority : Int, time_slice : Nat, time_slice_total : Nat]

(* Priority tasks have a level. *)
Entities == {e \in [Tasks -> Entity] : \A t \in Tasks : e[t].policy = "PRIORITY" => e[t].priority \in Levels}

(* The tasks of W that belong to class c. *)
OfClass(W, e, c) == {t \in W : e[t].policy = c}

(* The lists of r hold the tasks of W, each once and on the lists of its   *)
(* class and level, and the counters of the classes agree.                 *)
Holds(r, W, e) ==
    /\ IsQueues(r) /\ W \subseteq Tasks
    /\ r.rr \in Seq(Tasks) /\ Once(r.rr) /\ Members(r.rr) = OfClass(W, e, "NORMAL")
    /\ r.all \in Seq(Tasks) /\ Once(r.all) /\ Members(r.all) = W
    /\ r.act \in [Levels -> Seq(Tasks)] /\ r.exp \in [Levels -> Seq(Tasks)]
    /\ \A p \in Levels :
         /\ Once(r.act[p]) /\ Once(r.exp[p]) /\ Members(r.act[p]) \cap Members(r.exp[p]) = {}
         /\ Members(r.act[p]) \cup Members(r.exp[p])
              = {t \in OfClass(W, e, "PRIORITY") : e[t].priority = p}
    /\ r.rq \in [PolicyNames -> Nat]
    /\ \A c \in PolicyNames : r.rq[c] = Cardinality(OfClass(W, e, c))

(* Enqueueing a round-robin task. *)
LEMMA NormalEnqueue ==
    ASSUME NEW r, IsQueues(r), NEW t, NEW e, e.policy = "NORMAL"
    PROVE  LET d == sched_enqueue_task(r, t, e)
           IN  /\ IsQueues(d) /\ d.rr = Append(r.rr, t) /\ d.act = r.act /\ d.exp = r.exp
               /\ d.rq = [r.rq EXCEPT !["NORMAL"] = @ + 1] /\ d.all = Append(r.all, t)
<1> DEFINE d == rr_enqueue_task(r, t)
<1>1. /\ IsQueues(d) /\ d.rr = Append(r.rr, t) /\ d.act = r.act /\ d.exp = r.exp
      /\ d.rq = [r.rq EXCEPT !["NORMAL"] = @ + 1] /\ d.all = r.all
  BY DEF IsQueues, rr_enqueue_task
<1> HIDE DEF d
<1> QED
  BY <1>1 DEF IsQueues, sched_enqueue_task, d

(* Dequeueing a round-robin task. *)
LEMMA NormalDequeue ==
    ASSUME NEW r, IsQueues(r), NEW t, NEW e, e.policy = "NORMAL"
    PROVE  LET d == sched_dequeue_task(r, t, e)
           IN  /\ IsQueues(d) /\ d.rr = Without(r.rr, t) /\ d.act = r.act /\ d.exp = r.exp
               /\ d.rq = [r.rq EXCEPT !["NORMAL"] = (@ - 1) % Wrap] /\ d.all = Without(r.all, t)
<1> DEFINE d == rr_dequeue_task(r, t)
<1>1. /\ IsQueues(d) /\ d.rr = Without(r.rr, t) /\ d.act = r.act /\ d.exp = r.exp
      /\ d.rq = [r.rq EXCEPT !["NORMAL"] = (@ - 1) % Wrap] /\ d.all = r.all
  BY DEF IsQueues, rr_dequeue_task
<1> HIDE DEF d
<1> QED
  BY <1>1 DEF IsQueues, sched_dequeue_task, d

(* One more task at the tail of a level. *)
Push(lists, l, t) == [lists EXCEPT ![l] = Append(@, t)]

(* Enqueueing a priority task, on the active or the expired array. *)
LEMMA PriorityEnqueue ==
    ASSUME NEW r, IsQueues(r), NEW t, NEW e, e.policy = "PRIORITY",
           NEW l, l = Clamp(e.priority)
    PROVE  LET d == sched_enqueue_task(r, t, e)
           IN  /\ IsQueues(d) /\ d.rr = r.rr
               /\ \/ d.act = r.act /\ d.exp = Push(r.exp, l, t)
                  \/ d.act = Push(r.act, l, t) /\ d.exp = r.exp
               /\ d.rq = [r.rq EXCEPT !["PRIORITY"] = @ + 1] /\ d.all = Append(r.all, t)
<1> DEFINE d == sched_enqueue_task(r, t, e)
           b == prio_enqueue_task(r, t, e)
           q == [r EXCEPT !.rq["PRIORITY"] = @ + 1]
<1>1. /\ IsQueues(q) /\ q.rr = r.rr /\ q.act = r.act /\ q.exp = r.exp
      /\ q.rq = [r.rq EXCEPT !["PRIORITY"] = @ + 1] /\ q.all = r.all
  BY DEF IsQueues
<1>2. b = IF e.time_slice = 0 THEN [q EXCEPT !.exp[l] = Append(@, t), !.ne = @ + 1]
          ELSE [q EXCEPT !.act[l] = Append(@, t), !.na = @ + 1]
  BY DEF prio_enqueue_task
<1> HIDE DEF b, q
<1>3. /\ IsQueues(b) /\ b.rr = r.rr /\ b.rq = [r.rq EXCEPT !["PRIORITY"] = @ + 1] /\ b.all = r.all
      /\ \/ b.act = r.act /\ b.exp = [r.exp EXCEPT ![l] = Append(@, t)]
         \/ b.act = [r.act EXCEPT ![l] = Append(@, t)] /\ b.exp = r.exp
  BY <1>1, <1>2 DEF IsQueues
<1>4. d = [b EXCEPT !.nr = (@ + 1) % Wrap, !.all = Append(@, t)]
  BY DEF sched_enqueue_task, b
<1> QED
  BY <1>3, <1>4 DEF IsQueues, Push

(* Every level without t. *)
Cut(lists, t) == [p \in Levels |-> Without(lists[p], t)]

(* Dequeueing a priority task. *)
LEMMA PriorityDequeue ==
    ASSUME NEW r, IsQueues(r), NEW t, NEW e, e.policy = "PRIORITY"
    PROVE  LET d == sched_dequeue_task(r, t, e)
           IN  /\ IsQueues(d) /\ d.rr = r.rr
               /\ d.act = Cut(r.act, t) /\ d.exp = Cut(r.exp, t)
               /\ d.rq = [r.rq EXCEPT !["PRIORITY"] = (@ - 1) % Wrap] /\ d.all = Without(r.all, t)
<1> DEFINE d == prio_dequeue_task(r, t, e)
           a == Cut(r.act, t)
           x == Cut(r.exp, t)
           q == [r EXCEPT !.act = a, !.exp = x, !.rq["PRIORITY"] = (@ - 1) % Wrap]
<1>1. d = IF e.time_slice = 0 /\ r.ne > 0 THEN [q EXCEPT !.ne = @ - 1]
          ELSE IF r.na > 0 THEN [q EXCEPT !.na = @ - 1] ELSE q
  BY DEF prio_dequeue_task, Cut
<1> HIDE DEF d, a, x
<1>2. /\ IsQueues(q) /\ q.rr = r.rr /\ q.act = a /\ q.exp = x
      /\ q.rq = [r.rq EXCEPT !["PRIORITY"] = (@ - 1) % Wrap] /\ q.all = r.all
  BY DEF IsQueues
<1> HIDE DEF q
<1>3. /\ IsQueues(d) /\ d.rr = r.rr /\ d.act = a /\ d.exp = x
      /\ d.rq = [r.rq EXCEPT !["PRIORITY"] = (@ - 1) % Wrap] /\ d.all = r.all
  BY <1>1, <1>2 DEF IsQueues
<1>4. sched_dequeue_task(r, t, e) = [d EXCEPT !.nr = IF @ > 0 THEN @ - 1 ELSE @, !.all = Without(@, t)]
  BY DEF sched_dequeue_task, d
<1> QED
  BY <1>3, <1>4 DEF IsQueues, a, x

(* One task more, one task less in a class. *)
LEMMA ClassGrows ==
    ASSUME NEW W \in SUBSET Tasks, NEW e \in Entities, NEW t \in Tasks \ W, NEW c \in PolicyNames
    PROVE  /\ OfClass(W \cup {t}, e, c) = IF e[t].policy = c THEN OfClass(W, e, c) \cup {t} ELSE OfClass(W, e, c)
           /\ Cardinality(OfClass(W, e, c)) \in Nat
           /\ Cardinality(OfClass(W, e, c) \cup {t}) = Cardinality(OfClass(W, e, c)) + 1
<1>1. IsFiniteSet(OfClass(W, e, c)) /\ t \notin OfClass(W, e, c)
  BY FS_Subset, SchedulerAssumption DEF OfClass
<1>2. OfClass(W \cup {t}, e, c) = IF e[t].policy = c THEN OfClass(W, e, c) \cup {t} ELSE OfClass(W, e, c)
  BY DEF OfClass
<1> QED
  BY <1>1, <1>2, FS_AddElement, FS_CardinalityType

(* A class that loses a task that waits counts one less, without wrapping. *)
LEMMA ClassShrinks ==
    ASSUME NEW W \in SUBSET Tasks, NEW e \in Entities, NEW t \in W, NEW c \in PolicyNames
    PROVE  /\ OfClass(W \ {t}, e, c) = IF e[t].policy = c THEN OfClass(W, e, c) \ {t} ELSE OfClass(W, e, c)
           /\ Cardinality(OfClass(W, e, c)) \in 0 .. Wrap - 1
           /\ e[t].policy = c => /\ Cardinality(OfClass(W, e, c)) > 0
                                 /\ Cardinality(OfClass(W, e, c) \ {t}) = Cardinality(OfClass(W, e, c)) - 1
<1>1. /\ IsFiniteSet(OfClass(W, e, c)) /\ Cardinality(OfClass(W, e, c)) <= Cardinality(Tasks)
      /\ Cardinality(Tasks) \in Nat /\ Cardinality(OfClass(W, e, c)) \in Nat
  <2>1. OfClass(W, e, c) \subseteq Tasks
    BY DEF OfClass
  <2> QED
    BY <2>1, FS_Subset, FS_CardinalityType, SchedulerAssumption
<1>2. OfClass(W \ {t}, e, c) = IF e[t].policy = c THEN OfClass(W, e, c) \ {t} ELSE OfClass(W, e, c)
  BY SMTT(60) DEF OfClass
<1>3. Cardinality(OfClass(W, e, c)) \in 0 .. Wrap - 1
  BY SMTT(60), <1>1, SchedulerAssumption
<1>4. ASSUME e[t].policy = c
      PROVE  /\ Cardinality(OfClass(W, e, c)) > 0
             /\ Cardinality(OfClass(W, e, c) \ {t}) = Cardinality(OfClass(W, e, c)) - 1
  <2>1. t \in OfClass(W, e, c)
    BY <1>4 DEF OfClass
  <2>2. /\ Cardinality(OfClass(W, e, c) \ {t}) = Cardinality(OfClass(W, e, c)) - 1
        /\ Cardinality(OfClass(W, e, c) \ {t}) \in Nat
    BY <1>1, <2>1, FS_RemoveElement, FS_CardinalityType
  <2> QED
    BY SMTT(60), <1>1, <2>2
<1> QED
  BY <1>2, <1>3, <1>4

(* sched_enqueue_task of a task that is on no list. *)
LEMMA EnqueueHolds ==
    ASSUME NEW r, NEW W, NEW e \in Entities, Holds(r, W, e), NEW t \in Tasks \ W
    PROVE  Holds(sched_enqueue_task(r, t, e[t]), W \cup {t}, e)
<1> DEFINE d == sched_enqueue_task(r, t, e[t])
           V == W \cup {t}
<1> SUFFICES Holds(d, V, e)
  OBVIOUS
<1>1. /\ IsQueues(r) /\ W \in SUBSET Tasks /\ t \notin W
      /\ r.all \in Seq(Tasks) /\ r.rr \in Seq(Tasks) /\ r.rq \in [PolicyNames -> Nat]
      /\ r.act \in [Levels -> Seq(Tasks)] /\ r.exp \in [Levels -> Seq(Tasks)]
      /\ e[t].policy \in PolicyNames
  BY DEF Holds, Entities, Entity
<1>2. /\ Append(r.all, t) \in Seq(Tasks) /\ Once(Append(r.all, t)) /\ Members(Append(r.all, t)) = V
  BY SMTT(60), <1>1, AppendFacts DEF Holds
<1>3. \A c \in PolicyNames :
        /\ OfClass(V, e, c) = IF e[t].policy = c THEN OfClass(W, e, c) \cup {t} ELSE OfClass(W, e, c)
        /\ Cardinality(OfClass(W, e, c)) \in Nat
        /\ Cardinality(OfClass(W, e, c) \cup {t}) = Cardinality(OfClass(W, e, c)) + 1
  BY <1>1, ClassGrows
<1>4. ASSUME d.rq = [r.rq EXCEPT ![e[t].policy] = @ + 1]
      PROVE  d.rq \in [PolicyNames -> Nat] /\ \A c \in PolicyNames : d.rq[c] = Cardinality(OfClass(V, e, c))
  <2> DEFINE k == e[t].policy
  <2> HIDE DEF d, V, k
  <2>1. r.rq[k] \in Nat /\ r.rq[k] + 1 \in Nat /\ k \in PolicyNames
    BY SMTT(60), <1>1 DEF k
  <2>2. d.rq \in [PolicyNames -> Nat] /\ \A c \in PolicyNames : d.rq[c] = IF c = k THEN r.rq[c] + 1 ELSE r.rq[c]
    BY <1>1, <1>4, <2>1 DEF k
  <2>3. \A c \in PolicyNames : r.rq[c] = Cardinality(OfClass(W, e, c))
    BY DEF Holds
  <2> QED
    BY <1>3, <2>2, <2>3 DEF k
<1>5. CASE e[t].policy = "NORMAL"
  <2>1. /\ IsQueues(d) /\ d.rr = Append(r.rr, t) /\ d.act = r.act /\ d.exp = r.exp
        /\ d.rq = [r.rq EXCEPT !["NORMAL"] = @ + 1] /\ d.all = Append(r.all, t)
    BY <1>1, <1>5, NormalEnqueue
  <2>2. /\ Append(r.rr, t) \in Seq(Tasks) /\ Once(Append(r.rr, t))
        /\ Members(Append(r.rr, t)) = OfClass(V, e, "NORMAL")
    <3>1. Once(r.rr) /\ Members(r.rr) = OfClass(W, e, "NORMAL") /\ t \notin Members(r.rr)
      BY <1>1 DEF Holds, OfClass
    <3>2. /\ Append(r.rr, t) \in Seq(Tasks) /\ Once(Append(r.rr, t))
          /\ Members(Append(r.rr, t)) = OfClass(W, e, "NORMAL") \cup {t}
      BY SMTT(60), <1>1, <3>1, AppendFacts
    <3> HIDE DEF V
    <3> QED
      BY <1>3, <1>5, <3>2 DEF PolicyNames
  <2>3. OfClass(V, e, "PRIORITY") = OfClass(W, e, "PRIORITY")
    BY <1>3, <1>5 DEF PolicyNames
  <2>4. d.rq \in [PolicyNames -> Nat] /\ \A c \in PolicyNames : d.rq[c] = Cardinality(OfClass(V, e, c))
    BY <1>4, <1>5, <2>1
  <2> HIDE DEF d, V
  <2>5. V \subseteq Tasks
    BY <1>1 DEF V
  <2> QED
    BY <1>1, <1>2, <2>1, <2>2, <2>3, <2>4, <2>5 DEF Holds
<1>6. CASE e[t].policy = "PRIORITY"
  <2> DEFINE l == Clamp(e[t].priority)
  <2>1. /\ IsQueues(d) /\ d.rr = r.rr
        /\ \/ d.act = r.act /\ d.exp = Push(r.exp, l, t)
           \/ d.act = Push(r.act, l, t) /\ d.exp = r.exp
        /\ d.rq = [r.rq EXCEPT !["PRIORITY"] = @ + 1] /\ d.all = Append(r.all, t)
    BY <1>1, <1>6, PriorityEnqueue
  <2>2. l \in Levels /\ e[t].priority = l
    <3>1. e[t].priority \in Levels /\ PRIO_MIN \in Nat
      BY <1>6, SchedulerAssumption DEF Entities
    <3> QED
      BY SMTT(60), <3>1 DEF Levels, Clamp
  <2>3. OfClass(V, e, "NORMAL") = OfClass(W, e, "NORMAL")
        /\ OfClass(V, e, "PRIORITY") = OfClass(W, e, "PRIORITY") \cup {t}
    BY <1>3, <1>6 DEF PolicyNames
  <2>4. d.rq \in [PolicyNames -> Nat] /\ \A c \in PolicyNames : d.rq[c] = Cardinality(OfClass(V, e, c))
    BY <1>4, <1>6, <2>1
  <2>5. \A p \in Levels :
          /\ t \notin Members(r.act[p]) /\ t \notin Members(r.exp[p])
          /\ r.act[p] \in Seq(Tasks) /\ r.exp[p] \in Seq(Tasks)
    BY <1>1 DEF Holds, OfClass
  <2>6. /\ Append(r.act[l], t) \in Seq(Tasks) /\ Once(Append(r.act[l], t))
        /\ Members(Append(r.act[l], t)) = Members(r.act[l]) \cup {t}
        /\ Append(r.exp[l], t) \in Seq(Tasks) /\ Once(Append(r.exp[l], t))
        /\ Members(Append(r.exp[l], t)) = Members(r.exp[l]) \cup {t}
    BY SMTT(60), <2>2, <2>5, AppendFacts DEF Holds
  <2> HIDE DEF d, V, l
  <2>7. /\ d.act \in [Levels -> Seq(Tasks)] /\ d.exp \in [Levels -> Seq(Tasks)]
        /\ \A p \in Levels \ {l} : d.act[p] = r.act[p] /\ d.exp[p] = r.exp[p]
        /\ \/ d.act[l] = r.act[l] /\ d.exp[l] = Append(r.exp[l], t)
           \/ d.act[l] = Append(r.act[l], t) /\ d.exp[l] = r.exp[l]
    <3>1. CASE d.act = r.act /\ d.exp = Push(r.exp, l, t)
      BY SMTT(60), <1>1, <2>2, <2>6, <3>1 DEF Push
    <3>2. CASE d.act = Push(r.act, l, t) /\ d.exp = r.exp
      BY SMTT(60), <1>1, <2>2, <2>6, <3>2 DEF Push
    <3> QED
      BY <2>1, <3>1, <3>2
  <2>8. \A p \in Levels : {u \in OfClass(V, e, "PRIORITY") : e[u].priority = p}
            = IF p = l THEN {u \in OfClass(W, e, "PRIORITY") : e[u].priority = p} \cup {t}
              ELSE {u \in OfClass(W, e, "PRIORITY") : e[u].priority = p}
    BY <2>2, <2>3
  <2>9. ASSUME NEW p \in Levels
        PROVE  /\ Once(d.act[p]) /\ Once(d.exp[p]) /\ Members(d.act[p]) \cap Members(d.exp[p]) = {}
               /\ Members(d.act[p]) \cup Members(d.exp[p])
                    = {u \in OfClass(V, e, "PRIORITY") : e[u].priority = p}
    <3>1. /\ Once(r.act[p]) /\ Once(r.exp[p]) /\ Members(r.act[p]) \cap Members(r.exp[p]) = {}
          /\ Members(r.act[p]) \cup Members(r.exp[p])
               = {u \in OfClass(W, e, "PRIORITY") : e[u].priority = p}
      BY DEF Holds
    <3>2. CASE p = l
      <4>1. t \notin Members(r.act[l]) /\ t \notin Members(r.exp[l])
        BY <2>2, <2>5
      <4>2. CASE d.act[l] = r.act[l] /\ d.exp[l] = Append(r.exp[l], t)
        BY SMTT(60), <2>6, <2>8, <3>1, <3>2, <4>1, <4>2
      <4>3. CASE d.act[l] = Append(r.act[l], t) /\ d.exp[l] = r.exp[l]
        BY SMTT(60), <2>6, <2>8, <3>1, <3>2, <4>1, <4>3
      <4> QED
        BY <2>7, <4>2, <4>3
    <3>3. CASE p # l
      BY <2>7, <2>8, <3>1, <3>3
    <3> QED
      BY <3>2, <3>3
  <2>10. V \subseteq Tasks
    BY <1>1 DEF V
  <2> QED
    BY <1>1, <1>2, <2>1, <2>3, <2>4, <2>7, <2>9, <2>10 DEF Holds
<1> QED
  BY <1>1, <1>5, <1>6 DEF PolicyNames

(* A list after list_del of one of its nodes. *)
LEMMA WithoutFacts ==
    ASSUME NEW s \in Seq(Tasks), NEW t
    PROVE  /\ Without(s, t) \in Seq(Tasks) /\ Members(Without(s, t)) = Members(s) \ {t}
           /\ Once(s) => Once(Without(s, t))
<1>1. Members(s) \subseteq Tasks
  BY SMTT(60) DEF Members
<1>2. /\ Keep(s, Tasks \ {t}) \in Seq(Tasks) /\ Members(Keep(s, Tasks \ {t})) = Members(s) \cap (Tasks \ {t})
      /\ Once(s) => Once(Keep(s, Tasks \ {t}))
  BY KeepFacts
<1> QED
  BY <1>1, <1>2 DEF Without

(* sched_dequeue_task of a task that is listed. *)
LEMMA DequeueHolds ==
    ASSUME NEW r, NEW W, NEW e \in Entities, Holds(r, W, e), NEW t \in W
    PROVE  Holds(sched_dequeue_task(r, t, e[t]), W \ {t}, e)
<1> DEFINE d == sched_dequeue_task(r, t, e[t])
           V == W \ {t}
<1> SUFFICES Holds(d, V, e)
  OBVIOUS
<1>1. /\ IsQueues(r) /\ W \in SUBSET Tasks /\ t \in Tasks
      /\ r.all \in Seq(Tasks) /\ r.rr \in Seq(Tasks) /\ r.rq \in [PolicyNames -> Nat]
      /\ r.act \in [Levels -> Seq(Tasks)] /\ r.exp \in [Levels -> Seq(Tasks)]
      /\ e[t].policy \in PolicyNames
  BY DEF Holds, Entities, Entity
<1>2. Without(r.all, t) \in Seq(Tasks) /\ Once(Without(r.all, t)) /\ Members(Without(r.all, t)) = V
  BY <1>1, WithoutFacts DEF Holds
<1>3. \A c \in PolicyNames :
        /\ OfClass(V, e, c) = IF e[t].policy = c THEN OfClass(W, e, c) \ {t} ELSE OfClass(W, e, c)
        /\ Cardinality(OfClass(W, e, c)) \in 0 .. Wrap - 1
        /\ e[t].policy = c => /\ Cardinality(OfClass(W, e, c)) > 0
                              /\ Cardinality(OfClass(W, e, c) \ {t}) = Cardinality(OfClass(W, e, c)) - 1
  BY <1>1, ClassShrinks
<1>4. ASSUME d.rq = [r.rq EXCEPT ![e[t].policy] = (@ - 1) % Wrap]
      PROVE  d.rq \in [PolicyNames -> Nat] /\ \A c \in PolicyNames : d.rq[c] = Cardinality(OfClass(V, e, c))
  <2> DEFINE k == e[t].policy
             n == r.rq[k]
  <2>1. \A c \in PolicyNames : r.rq[c] = Cardinality(OfClass(W, e, c))
    BY DEF Holds
  <2>2. k \in PolicyNames /\ n \in 1 .. Wrap - 1
    <3>1. k \in PolicyNames /\ n = Cardinality(OfClass(W, e, k))
      BY <1>1, <2>1
    <3>2. Cardinality(OfClass(W, e, k)) \in 0 .. Wrap - 1 /\ Cardinality(OfClass(W, e, k)) > 0
      BY <1>3, <3>1
    <3> HIDE DEF k, n
    <3> QED
      BY SMTT(60), <3>1, <3>2, SchedulerAssumption
  <2>3. d.rq = [r.rq EXCEPT ![k] = (n - 1) % Wrap]
    BY <1>4
  <2> HIDE DEF d, V, k, n
  <2>4. (n - 1) % Wrap = n - 1 /\ n - 1 \in Nat
    BY SMTT(60), <2>2, SchedulerAssumption
  <2>5. d.rq = [r.rq EXCEPT ![k] = n - 1]
    BY <2>3, <2>4
  <2>6. d.rq \in [PolicyNames -> Nat] /\ \A c \in PolicyNames : d.rq[c] = IF c = k THEN n - 1 ELSE r.rq[c]
    BY <1>1, <2>4, <2>5
  <2> QED
    BY <1>3, <2>1, <2>6 DEF k, n
<1>5. CASE e[t].policy = "NORMAL"
  <2>1. /\ IsQueues(d) /\ d.rr = Without(r.rr, t) /\ d.act = r.act /\ d.exp = r.exp
        /\ d.rq = [r.rq EXCEPT !["NORMAL"] = (@ - 1) % Wrap] /\ d.all = Without(r.all, t)
    BY SMTT(60), <1>1, <1>5, NormalDequeue
  <2>2. d.rq \in [PolicyNames -> Nat] /\ \A c \in PolicyNames : d.rq[c] = Cardinality(OfClass(V, e, c))
    BY <1>4, <1>5, <2>1
  <2> HIDE DEF d, V
  <2>3. /\ Without(r.rr, t) \in Seq(Tasks) /\ Once(Without(r.rr, t))
        /\ Members(Without(r.rr, t)) = OfClass(V, e, "NORMAL")
    <3>1. /\ Without(r.rr, t) \in Seq(Tasks) /\ Once(Without(r.rr, t))
          /\ Members(Without(r.rr, t)) = OfClass(W, e, "NORMAL") \ {t}
      BY <1>1, WithoutFacts DEF Holds
    <3> QED
      BY <1>3, <1>5, <3>1 DEF PolicyNames
  <2>4. OfClass(V, e, "PRIORITY") = OfClass(W, e, "PRIORITY") /\ V \subseteq Tasks
    BY <1>1, <1>3, <1>5 DEF PolicyNames, V
  <2> QED
    BY <1>1, <1>2, <2>1, <2>2, <2>3, <2>4 DEF Holds
<1>6. CASE e[t].policy = "PRIORITY"
  <2>1. /\ IsQueues(d) /\ d.rr = r.rr
        /\ d.act = Cut(r.act, t) /\ d.exp = Cut(r.exp, t)
        /\ d.rq = [r.rq EXCEPT !["PRIORITY"] = (@ - 1) % Wrap] /\ d.all = Without(r.all, t)
    BY SMTT(60), <1>1, <1>6, PriorityDequeue
  <2>2. d.rq \in [PolicyNames -> Nat] /\ \A c \in PolicyNames : d.rq[c] = Cardinality(OfClass(V, e, c))
    BY <1>4, <1>6, <2>1
  <2> HIDE DEF d, V
  <2>3. /\ OfClass(V, e, "NORMAL") = OfClass(W, e, "NORMAL") /\ V \subseteq Tasks
        /\ OfClass(V, e, "PRIORITY") = OfClass(W, e, "PRIORITY") \ {t}
    BY <1>1, <1>3, <1>6 DEF PolicyNames, V
  <2>4. ASSUME NEW p \in Levels
        PROVE  /\ d.act[p] \in Seq(Tasks) /\ d.exp[p] \in Seq(Tasks)
               /\ Once(d.act[p]) /\ Once(d.exp[p]) /\ Members(d.act[p]) \cap Members(d.exp[p]) = {}
               /\ Members(d.act[p]) \cup Members(d.exp[p])
                    = {u \in OfClass(V, e, "PRIORITY") : e[u].priority = p}
    <3>1. /\ r.act[p] \in Seq(Tasks) /\ r.exp[p] \in Seq(Tasks)
          /\ Once(r.act[p]) /\ Once(r.exp[p]) /\ Members(r.act[p]) \cap Members(r.exp[p]) = {}
          /\ Members(r.act[p]) \cup Members(r.exp[p])
               = {u \in OfClass(W, e, "PRIORITY") : e[u].priority = p}
      BY <1>1 DEF Holds
    <3>2. d.act[p] = Without(r.act[p], t) /\ d.exp[p] = Without(r.exp[p], t)
      BY <2>1 DEF Cut
    <3>3. /\ d.act[p] \in Seq(Tasks) /\ Once(d.act[p]) /\ Members(d.act[p]) = Members(r.act[p]) \ {t}
          /\ d.exp[p] \in Seq(Tasks) /\ Once(d.exp[p]) /\ Members(d.exp[p]) = Members(r.exp[p]) \ {t}
      BY SMTT(60), <3>1, <3>2, WithoutFacts
    <3> QED
      BY <2>3, <3>1, <3>3
  <2>5. d.act \in [Levels -> Seq(Tasks)] /\ d.exp \in [Levels -> Seq(Tasks)]
    BY <2>1, <2>4 DEF Cut
  <2> QED
    BY <1>1, <1>2, <2>1, <2>2, <2>3, <2>4, <2>5 DEF Holds
<1> QED
  BY <1>1, <1>5, <1>6 DEF PolicyNames

(* What sched_pick_next_task returns: the same tasks listed, and one of    *)
(* them, or none.                                                          *)
Picks(x, W, e, T) == Holds(x.q, W, e) /\ x.task \in W \cup T

(* The priority class picks a task that waits, if its counter says there   *)
(* is one, and may swap its arrays.                                        *)
LEMMA PrioPick ==
    ASSUME NEW r, NEW W, NEW e \in Entities, Holds(r, W, e)
    PROVE  Picks(prio_pick_next_task(r), W, e, {NULL})
<1>1. CASE r.na = 0 /\ r.ne = 0
  BY <1>1 DEF prio_pick_next_task, Picks
<1>2. CASE ~(r.na = 0 /\ r.ne = 0)
  <2> DEFINE s == IF r.na = 0 THEN prio_swap_active_expired(r) ELSE r
             l == find_highest_prio(s.act)
  <2>1. prio_pick_next_task(r) = [q |-> s, task |-> First(s.act[l])]
    BY <1>2 DEF prio_pick_next_task
  <2>2. Holds(s, W, e)
    <3> DEFINE d == prio_swap_active_expired(r)
    <3>1. IsQueues(r)
      BY DEF Holds
    <3>2. /\ IsQueues(d) /\ d.rr = r.rr /\ d.act = r.exp /\ d.exp = r.act /\ d.rq = r.rq /\ d.all = r.all
      BY <3>1 DEF IsQueues, prio_swap_active_expired
    <3> HIDE DEF d
    <3>3. Holds(d, W, e)
      BY <3>2 DEF Holds
    <3> QED
      BY <3>3 DEF d
  <2> HIDE DEF s
  <2>3. l \in Levels
    <3> DEFINE T == {p \in Levels : s.act[p] # <<>>}
    <3>1. CASE T = {}
      BY SMTT(60), <3>1, SchedulerAssumption DEF find_highest_prio, Levels
    <3>2. CASE T # {}
      <4>1. T \subseteq Nat
        BY SMTT(60) DEF Levels
      <4>2. PICK m \in T : \A n \in T : m <= n
        BY <3>2, <4>1, LeastNumber
      <4>3. m \in Levels /\ s.act[m] # <<>> /\ \A h \in 0 .. m - 1 : s.act[h] = <<>>
        BY SMTT(60), <4>2, SchedulerAssumption DEF Levels
      <4> QED
        BY <4>3 DEF find_highest_prio
    <3> QED
      BY <3>1, <3>2
  <2> HIDE DEF l
  <2>4. s.act[l] \in Seq(Tasks) /\ Members(s.act[l]) \subseteq W
    BY <2>2, <2>3 DEF Holds, OfClass
  <2>5. First(s.act[l]) \in W \cup {NULL}
    BY <2>4, TailFacts DEF First
  <2> QED
    BY SMTT(60), <2>1, <2>2, <2>5 DEF Picks
<1> QED
  BY <1>1, <1>2

-----------------------------------------------------------------------------
(* The inductive invariant.                                                *)

Waits == {t \in Tasks : Waiting(t)}

(* The types of the state. *)
SchedTypes ==
    /\ current \in Tasks \cup {NULL} /\ se \in Entities
    /\ state \in [Tasks -> {"UNUSED", "READY", "RUNNING", "BLOCKED", "ZOMBIE"}]
    /\ pc \in {"run", "enqueue", "dequeue", "switch"}

(* Where schedule() is says what it has picked, and that the task it takes *)
(* the CPU from has given up running.                                      *)
Steps ==
    /\ pc = "run" => next = NULL /\ (current # NULL => state[current] \notin {"READY", "UNUSED"})
    /\ pc # "run" => /\ next \in Tasks /\ next # current /\ state[next] = "READY"
                     /\ current # NULL => state[current] # "RUNNING"
    /\ pc = "enqueue" => current # NULL /\ state[current] = "READY"
    /\ \A t \in Tasks : state[t] = "RUNNING" => t = current
    /\ \A t \in Tasks : state[t] = "UNUSED" => se[t].policy = "NORMAL"

(* The inductive invariant: the queues hold exactly the tasks that wait,   *)
(* and each step of schedule() has left them as the next one expects.      *)
SchedInv == SchedTypes /\ Holds(Queues, Waits, se) /\ Steps

(* A step that installs queues which hold W. *)
LEMMA SetQueuesHolds ==
    ASSUME NEW r, NEW W, NEW e, Holds(r, W, e), SetQueues(r)
    PROVE  Holds(Queues', W, e)
<1> DEFINE d == Queues'
<1>1. /\ IsQueues(d) /\ d.rr = r.rr /\ d.act = r.act /\ d.exp = r.exp /\ d.rq = r.rq /\ d.all = r.all
  BY DEF SetQueues, Queues, IsQueues
<1> HIDE DEF d
<1>2. Holds(d, W, e)
  BY <1>1 DEF Holds
<1> QED
  BY <1>2 DEF d

(* sched_pick_next_task over both classes. *)
LEMMA PickHolds ==
    ASSUME se \in Entities, NEW r, NEW W, Holds(r, W, se), NEW st
    PROVE  Picks(sched_pick_next_task(r, st), W, se, {NULL, current})
<1> DEFINE prio == IF r.rq["PRIORITY"] > 0 THEN prio_pick_next_task(r) ELSE [q |-> r, task |-> NULL]
<1>1. Picks(prio, W, se, {NULL})
  <2>1. Picks([q |-> r, task |-> NULL], W, se, {NULL})
    BY DEF Picks
  <2> QED
    BY <2>1, PrioPick
<1>2. DOMAIN prio = {"q", "task"}
  BY DEF prio_pick_next_task
<1>3. sched_pick_next_task(r, st) \in {prio, [prio EXCEPT !.task = current], PickQueued(r)}
  BY DEF sched_pick_next_task
<1>4. PickQueued(r) \in {prio, rr_pick_next_task(prio.q)}
  BY DEF PickQueued
<1> HIDE DEF prio
<1>5. Picks(prio, W, se, {NULL, current})
  BY <1>1 DEF Picks
<1>6. Picks([prio EXCEPT !.task = current], W, se, {NULL, current})
  <2>1. [prio EXCEPT !.task = current].q = prio.q /\ [prio EXCEPT !.task = current].task = current
    BY <1>2
  <2> QED
    BY <1>1, <2>1 DEF Picks
<1>7. Picks(rr_pick_next_task(prio.q), W, se, {NULL, current})
  <2> DEFINE b == prio.q
  <2>1. Holds(b, W, se)
    BY <1>1 DEF Picks
  <2> HIDE DEF b
  <2>2. b.rr \in Seq(Tasks) /\ Members(b.rr) \subseteq W
    BY <2>1 DEF Holds, OfClass
  <2>3. First(b.rr) \in W \cup {NULL}
    BY SMTT(60), <2>2, TailFacts DEF First
  <2>4. Picks(rr_pick_next_task(b), W, se, {NULL, current})
    BY <2>1, <2>3 DEF rr_pick_next_task, Picks
  <2> QED
    BY <2>4 DEF b
<1> QED
  BY <1>3, <1>4, <1>5, <1>6, <1>7

(* schedule() from a state table st in which the current task is not ready *)
(* but the tasks of the lists are.                                         *)
LEMMA BeginStep ==
    ASSUME SchedTypes, pc = "run", NEW r, NEW st, BeginSchedule(r, st),
           st \in [Tasks -> {"UNUSED", "READY", "RUNNING", "BLOCKED", "ZOMBIE"}],
           Holds(r, {t \in Tasks : st[t] = "READY"}, se),
           current # NULL => st[current] \notin {"READY", "UNUSED"},
           \A t \in Tasks : st[t] = "RUNNING" => t = current,
           \A t \in Tasks : st[t] = "UNUSED" => se[t].policy = "NORMAL"
    PROVE  SchedInv'
<1> DEFINE pick == sched_pick_next_task(r, st)
           W == {t \in Tasks : st[t] = "READY"}
<1>1. Picks(pick, W, se, {NULL, current})
  BY PickHolds DEF SchedTypes
<1>2. /\ SetQueues(pick.q) /\ UNCHANGED <<current, se>>
      /\ IF pick.task \in {NULL, current}
         THEN pc' = "run" /\ next' = NULL /\ state' = st
         ELSE /\ next' = pick.task
              /\ IF current # NULL /\ st[current] \in {"RUNNING", "READY"}
                 THEN pc' = "enqueue" /\ state' = [st EXCEPT ![current] = "READY"]
                 ELSE pc' = "dequeue" /\ state' = st
  BY DEF BeginSchedule
<1> HIDE DEF pick
<1>3. Holds(pick.q, W, se) /\ pick.task \in W \cup {NULL, current}
  BY <1>1 DEF Picks
<1>4. Holds(Queues', W, se)
  BY <1>2, <1>3, SetQueuesHolds
<1>5. SchedTypes'
  BY <1>2 DEF SchedTypes
<1>6. Waits' = W /\ Steps'
  <2>1. CASE pick.task \in {NULL, current}
    BY <1>2, <2>1 DEF Waits, Waiting, Steps
  <2>2. CASE pick.task \notin {NULL, current} /\ current # NULL /\ st[current] \in {"RUNNING", "READY"}
    <3>1. /\ next' = pick.task /\ pc' = "enqueue" /\ state' = [st EXCEPT ![current] = "READY"]
          /\ pick.task \in Tasks /\ st[pick.task] = "READY" /\ pick.task # current /\ current \in Tasks
      BY <1>2, <1>3, <2>2 DEF SchedTypes
    <3>2. state'[current] = "READY" /\ \A t \in Tasks \ {current} : state'[t] = st[t]
      BY <3>1
    <3>3. Waits' = W
      BY <1>2, <3>1, <3>2 DEF Waits, Waiting
    <3>4. Steps'
      BY <1>2, <2>2, <3>1, <3>2 DEF Steps
    <3> QED
      BY <3>3, <3>4
  <2>3. CASE pick.task \notin {NULL, current} /\ ~(current # NULL /\ st[current] \in {"RUNNING", "READY"})
    <3>1. /\ next' = pick.task /\ pc' = "dequeue" /\ state' = st
          /\ pick.task \in Tasks /\ st[pick.task] = "READY" /\ pick.task # current
      BY <1>2, <1>3, <2>3
    <3> QED
      BY <1>2, <2>3, <3>1 DEF Waits, Waiting, Steps
  <2> QED
    BY <2>1, <2>2, <2>3
<1> HIDE DEF W
<1> QED
  BY <1>2, <1>4, <1>5, <1>6 DEF SchedInv

(* Only the class and the level of a listed task matter to the lists. *)
LEMMA HoldsSame ==
    ASSUME NEW r, NEW W, NEW e, NEW f, Holds(r, W, e),
           \A t \in W : f[t].policy = e[t].policy /\ f[t].priority = e[t].priority
    PROVE  Holds(r, W, f)
<1>1. \A c : OfClass(W, f, c) = OfClass(W, e, c)
  BY DEF OfClass
<1>2. \A p : {t \in OfClass(W, f, "PRIORITY") : f[t].priority = p}
               = {t \in OfClass(W, e, "PRIORITY") : e[t].priority = p}
  BY DEF OfClass
<1> QED
  BY <1>1, <1>2 DEF Holds

(* Outside schedule() every ready task waits. *)
LEMMA Running ==
    ASSUME SchedInv, CodeRuns
    PROVE  /\ pc = "run" /\ next = NULL /\ SchedTypes /\ Steps /\ Holds(Queues, Waits, se)
           /\ Waits = {t \in Tasks : state[t] = "READY"}
BY DEF SchedInv, CodeRuns, Steps, Waits, Waiting

(* schedule() picks the next task. *)
LEMMA CallScheduleStep ==
    ASSUME SchedInv, CallSchedule
    PROVE  SchedInv'
<1>1. CodeRuns /\ BeginSchedule(Queues, state)
  BY DEF CallSchedule
<1>2. /\ pc = "run" /\ SchedTypes /\ Steps /\ Holds(Queues, Waits, se)
      /\ Waits = {t \in Tasks : state[t] = "READY"}
  BY <1>1, Running
<1>3. Holds(Queues, {t \in Tasks : state[t] = "READY"}, se)
  BY <1>2
<1> QED
  BY <1>1, <1>2, <1>3, BeginStep DEF SchedTypes, Steps

(* The current task stops: it was on no list. *)
LEMMA StopStep ==
    ASSUME SchedInv, CodeRuns, current # NULL, NEW x \in {"BLOCKED", "ZOMBIE"},
           NEW r, Holds(r, Waits, se), BeginSchedule(r, [state EXCEPT ![current] = x])
    PROVE  SchedInv'
<1> DEFINE st == [state EXCEPT ![current] = x]
<1>1. /\ pc = "run" /\ SchedTypes /\ Steps /\ Waits = {t \in Tasks : state[t] = "READY"}
  BY Running
<1>2. current \in Tasks /\ state \in [Tasks -> {"UNUSED", "READY", "RUNNING", "BLOCKED", "ZOMBIE"}]
  BY <1>1 DEF SchedTypes
<1>3. /\ st \in [Tasks -> {"UNUSED", "READY", "RUNNING", "BLOCKED", "ZOMBIE"}]
      /\ st[current] = x /\ \A t \in Tasks \ {current} : st[t] = state[t]
  BY <1>2
<1>4. BeginSchedule(r, st)
  OBVIOUS
<1> HIDE DEF st
<1>5. Waits = {t \in Tasks : st[t] = "READY"}
  BY <1>1, <1>2, <1>3 DEF Steps
<1>6. /\ st[current] \notin {"READY", "UNUSED"} /\ \A t \in Tasks : st[t] = "RUNNING" => t = current
      /\ \A t \in Tasks : st[t] = "UNUSED" => se[t].policy = "NORMAL"
  BY <1>1, <1>2, <1>3 DEF Steps
<1>7. Holds(r, {t \in Tasks : st[t] = "READY"}, se)
  BY <1>5
<1> QED
  BY <1>1, <1>3, <1>4, <1>6, <1>7, BeginStep

(* The current task blocks. *)
LEMMA BlockStep ==
    ASSUME SchedInv, BlockCurrent
    PROVE  SchedInv'
<1>1. CodeRuns /\ current # NULL /\ BeginSchedule(Queues, [state EXCEPT ![current] = "BLOCKED"])
  BY DEF BlockCurrent
<1>2. Holds(Queues, Waits, se)
  BY DEF SchedInv
<1> QED
  BY <1>1, <1>2, StopStep

(* proc_exit takes off the legacy list a task that is not on it. *)
LEMMA ExitHolds ==
    ASSUME SchedInv, CodeRuns, current # NULL
    PROVE  LET r == [Queues EXCEPT !.all = Without(@, current), !.nr = (@ - 1) % Wrap]
           IN  Holds(r, Waits, se) /\ r.rr = rr_queue
<1> DEFINE r == [Queues EXCEPT !.all = Without(@, current), !.nr = (@ - 1) % Wrap]
           b == Queues
<1>1. Holds(b, Waits, se) /\ IsQueues(b) /\ b.rr = rr_queue
  BY DEF SchedInv, Holds, Queues
<1>2. current \notin Waits
  BY Running DEF Steps
<1>3. r = [b EXCEPT !.all = Without(@, current), !.nr = (@ - 1) % Wrap]
  OBVIOUS
<1> HIDE DEF r, b
<1>4. /\ IsQueues(r) /\ r.rr = b.rr /\ r.act = b.act /\ r.exp = b.exp /\ r.rq = b.rq
      /\ r.all = Without(b.all, current)
  BY <1>1, <1>3 DEF IsQueues
<1>5. r.all \in Seq(Tasks) /\ Once(r.all) /\ Members(r.all) = Waits
  <2>1. b.all \in Seq(Tasks) /\ Once(b.all) /\ Members(b.all) = Waits
    BY <1>1 DEF Holds
  <2>2. r.all \in Seq(Tasks) /\ Once(r.all) /\ Members(r.all) = Waits \ {current}
    BY <1>4, <2>1, WithoutFacts
  <2> QED
    BY <1>2, <2>2
<1>6. Holds(r, Waits, se) /\ r.rr = rr_queue
  BY <1>1, <1>4, <1>5 DEF Holds
<1> QED
  BY <1>6 DEF r

(* The current task exits. *)
LEMMA ExitStep ==
    ASSUME SchedInv, ExitCurrent
    PROVE  SchedInv'
<1> DEFINE r == [Queues EXCEPT !.all = Without(@, current), !.nr = (@ - 1) % Wrap]
<1>1. CodeRuns /\ current # NULL /\ BeginSchedule(r, [state EXCEPT ![current] = "ZOMBIE"])
  BY DEF ExitCurrent
<1>2. Holds(r, Waits, se)
  BY <1>1, ExitHolds
<1> HIDE DEF r
<1> QED
  BY <1>1, <1>2, StopStep

(* sched_set_policy gives a priority task a level. *)
LEMMA PolicyTypes ==
    ASSUME NEW policy \in Policies, NEW n \in Priorities
    PROVE  /\ sched_set_policy(policy, n) \in Entity
           /\ sched_set_policy(policy, n).policy = "PRIORITY" => sched_set_policy(policy, n).priority \in Levels
<1>1. /\ n \in Int /\ policy \in PolicyNames /\ PRIO_MIN \in Nat /\ PRIO_DEFAULT \in 0 .. PRIO_MIN
      /\ RR_TIMESLICE \in Nat /\ SliceTop \in Nat /\ SliceHigh \in Nat /\ SliceLow \in Nat
  BY SchedulerAssumption DEF PolicyNames
<1>2. CASE policy = "NORMAL"
  BY SMTT(60), <1>1, <1>2 DEF sched_set_policy, rr_task_fork, Entity, PolicyNames
<1>3. CASE policy # "NORMAL"
  <2> DEFINE prio == IF n < 0 THEN Clamp(PRIO_DEFAULT + n) ELSE PRIO_DEFAULT
  <2>1. prio \in 0 .. PRIO_MIN
    BY SMTT(60), <1>1 DEF Clamp
  <2>2. sched_set_policy(policy, n) = [policy |-> "PRIORITY", priority |-> prio,
            time_slice |-> PRIO_TIMESLICE(prio), time_slice_total |-> PRIO_TIMESLICE(prio)]
    BY <1>3 DEF sched_set_policy, prio_task_fork
  <2> HIDE DEF prio
  <2>3. PRIO_TIMESLICE(prio) \in Nat
    BY <1>1, <2>1 DEF PRIO_TIMESLICE
  <2> QED
    BY SMTT(60), <2>1, <2>2, <2>3 DEF Entity, PolicyNames, Levels
<1> QED
  BY <1>2, <1>3

(* A task is created and enqueued. *)
LEMMA CreateStep ==
    ASSUME SchedInv, NEW t \in Tasks, NEW policy \in Policies, NEW n \in Priorities,
           CreateTask(t, policy, n)
    PROVE  SchedInv'
<1> DEFINE e == sched_set_policy(policy, n)
<1>1. /\ CodeRuns /\ state[t] = "UNUSED" /\ state' = [state EXCEPT ![t] = "READY"]
      /\ se' = [se EXCEPT ![t] = e] /\ SetQueues(sched_enqueue_task(Queues, t, e))
      /\ UNCHANGED <<current, pc, next>>
  BY DEF CreateTask
<1>2. e \in Entity /\ (e.policy = "PRIORITY" => e.priority \in Levels)
  BY PolicyTypes
<1> HIDE DEF e
<1>3. /\ pc = "run" /\ next = NULL /\ SchedTypes /\ Steps /\ Holds(Queues, Waits, se)
      /\ Waits = {u \in Tasks : state[u] = "READY"}
  BY <1>1, Running
<1>4. se' \in Entities /\ se'[t] = e /\ \A u \in Tasks \ {t} : se'[u] = se[u]
  BY <1>1, <1>2, <1>3 DEF SchedTypes, Entities
<1>5. t \in Tasks \ Waits /\ Waits \subseteq Tasks
  BY <1>1, <1>3
<1>6. Holds(Queues, Waits, se')
  BY <1>3, <1>4, <1>5, HoldsSame
<1>7. Holds(sched_enqueue_task(Queues, t, se'[t]), Waits \cup {t}, se')
  BY <1>4, <1>5, <1>6, EnqueueHolds
<1>8. Holds(Queues', Waits \cup {t}, se')
  BY <1>1, <1>4, <1>7, SetQueuesHolds
<1>9. state'[t] = "READY" /\ \A u \in Tasks \ {t} : state'[u] = state[u]
  BY <1>1, <1>3 DEF SchedTypes
<1>10. Waits' = Waits \cup {t}
  BY <1>1, <1>3, <1>5, <1>9 DEF Waits, Waiting
<1>11. SchedTypes'
  BY <1>1, <1>3, <1>4 DEF SchedTypes
<1>12. Steps'
  BY <1>1, <1>3, <1>4, <1>9 DEF Steps, SchedTypes
<1> QED
  BY <1>8, <1>10, <1>11, <1>12 DEF SchedInv

(* A blocked task is woken and enqueued. *)
LEMMA WakeStep ==
    ASSUME SchedInv, NEW t \in Tasks, Wake(t)
    PROVE  SchedInv'
<1>1. /\ CodeRuns /\ state[t] = "BLOCKED" /\ t # current /\ state' = [state EXCEPT ![t] = "READY"]
      /\ SetQueues(sched_enqueue_task(Queues, t, se[t]))
      /\ UNCHANGED <<current, se, pc, next>>
  BY DEF Wake
<1>2. /\ pc = "run" /\ next = NULL /\ SchedTypes /\ Steps /\ Holds(Queues, Waits, se)
      /\ Waits = {u \in Tasks : state[u] = "READY"}
  BY <1>1, Running
<1>3. t \in Tasks \ Waits
  BY <1>1, <1>2
<1>4. Holds(sched_enqueue_task(Queues, t, se[t]), Waits \cup {t}, se)
  BY <1>2, <1>3, EnqueueHolds DEF SchedTypes
<1>5. Holds(Queues', Waits \cup {t}, se)
  BY <1>1, <1>4, SetQueuesHolds
<1>6. state'[t] = "READY" /\ \A u \in Tasks \ {t} : state'[u] = state[u]
  BY <1>1, <1>2 DEF SchedTypes
<1>7. Waits' = Waits \cup {t}
  BY <1>1, <1>2, <1>6 DEF Waits, Waiting
<1>8. SchedTypes'
  BY <1>1, <1>2 DEF SchedTypes
<1>9. Steps'
  BY <1>1, <1>2, <1>6 DEF Steps, SchedTypes
<1> QED
  BY <1>1, <1>5, <1>7, <1>8, <1>9 DEF SchedInv

(* A tick: no list depends on what is left of a slice. *)
LEMMA TickStep ==
    ASSUME SchedInv, sched_timer_tick_handler
    PROVE  SchedInv'
<1>1. /\ current # NULL /\ se[current].time_slice > 0
      /\ se' = [se EXCEPT ![current].time_slice = @ - 1]
      /\ UNCHANGED <<current, state, queues, pc, next>>
  BY DEF sched_timer_tick_handler
<1>2. SchedTypes /\ Steps /\ Holds(Queues, Waits, se) /\ current \in Tasks /\ se[current] \in Entity
  BY <1>1 DEF SchedInv, SchedTypes, Entities
<1> DEFINE e == [se[current] EXCEPT !.time_slice = @ - 1]
<1>3. e \in Entity /\ e.policy = se[current].policy /\ e.priority = se[current].priority
  BY SMTT(60), <1>1, <1>2 DEF Entity
<1>4. se' = [se EXCEPT ![current] = e]
  BY <1>1
<1> HIDE DEF e
<1>5. /\ se' \in [Tasks -> Entity]
      /\ \A t \in Tasks : se'[t].policy = se[t].policy /\ se'[t].priority = se[t].priority
  BY <1>2, <1>3, <1>4 DEF SchedTypes, Entities
<1>6. se' \in Entities
  BY <1>2, <1>5 DEF SchedTypes, Entities
<1>7. Waits' = Waits /\ Queues' = Queues
  BY <1>1 DEF Waits, Waiting, queues, Queues
<1>8. Holds(Queues, Waits, se')
  BY <1>2, <1>5, HoldsSame DEF Waits
<1>9. SchedTypes' /\ Steps'
  BY <1>1, <1>2, <1>5, <1>6 DEF SchedTypes, Steps
<1> QED
  BY <1>7, <1>8, <1>9 DEF SchedInv

(* schedule() puts the previous task back. *)
LEMMA EnqueuePrevStep ==
    ASSUME SchedInv, EnqueuePrev
    PROVE  SchedInv'
<1>1. /\ pc = "enqueue" /\ pc' = "dequeue" /\ SetQueues(sched_enqueue_task(Queues, current, se[current]))
      /\ UNCHANGED <<current, state, se, next>>
  BY DEF EnqueuePrev
<1>2. /\ SchedTypes /\ Steps /\ Holds(Queues, Waits, se) /\ current \in Tasks \ Waits
      /\ state[current] = "READY"
  BY <1>1 DEF SchedInv, SchedTypes, Steps, Waits, Waiting
<1>3. Holds(sched_enqueue_task(Queues, current, se[current]), Waits \cup {current}, se)
  BY <1>2, EnqueueHolds DEF SchedTypes
<1>4. Holds(Queues', Waits \cup {current}, se)
  BY <1>1, <1>3, SetQueuesHolds
<1>5. Waits' = Waits \cup {current}
  BY <1>1, <1>2 DEF Waits, Waiting
<1>6. SchedTypes' /\ Steps'
  BY <1>1, <1>2 DEF SchedTypes, Steps
<1> QED
  BY <1>1, <1>4, <1>5, <1>6 DEF SchedInv

(* schedule() takes the next task off its queue. *)
LEMMA DequeueNextStep ==
    ASSUME SchedInv, DequeueNext
    PROVE  SchedInv'
<1>1. /\ pc = "dequeue" /\ pc' = "switch" /\ SetQueues(sched_dequeue_task(Queues, next, se[next]))
      /\ UNCHANGED <<current, state, se, next>>
  BY DEF DequeueNext
<1>2. SchedTypes /\ Steps /\ Holds(Queues, Waits, se) /\ next \in Waits
  BY <1>1 DEF SchedInv, Steps, Waits, Waiting
<1>3. Holds(sched_dequeue_task(Queues, next, se[next]), Waits \ {next}, se)
  BY <1>2, DequeueHolds DEF SchedTypes
<1>4. Holds(Queues', Waits \ {next}, se)
  BY <1>1, <1>3, SetQueuesHolds
<1>5. Waits' = Waits \ {next}
  BY <1>1, <1>2 DEF Waits, Waiting
<1>6. SchedTypes' /\ Steps'
  BY <1>1, <1>2 DEF SchedTypes, Steps
<1> QED
  BY <1>1, <1>4, <1>5, <1>6 DEF SchedInv

(* schedule() switches. *)
LEMMA SwitchStep ==
    ASSUME SchedInv, SwitchToNext
    PROVE  SchedInv'
<1>1. /\ pc = "switch" /\ pc' = "run" /\ current' = next /\ next' = NULL
      /\ state' = [state EXCEPT ![next] = "RUNNING"]
      /\ se' = [se EXCEPT ![next].time_slice = se[next].time_slice_total]
      /\ UNCHANGED queues
  BY DEF SwitchToNext
<1>2. /\ SchedTypes /\ Steps /\ Holds(Queues, Waits, se) /\ next \in Tasks /\ se[next] \in Entity
      /\ next # current /\ state[next] = "READY" /\ (current # NULL => state[current] # "RUNNING")
  BY <1>1 DEF SchedInv, SchedTypes, Steps, Entities
<1> DEFINE e == [se[next] EXCEPT !.time_slice = se[next].time_slice_total]
<1>3. e \in Entity /\ e.policy = se[next].policy /\ e.priority = se[next].priority
  BY <1>2 DEF Entity
<1>4. se' = [se EXCEPT ![next] = e]
  BY <1>1
<1> HIDE DEF e
<1>5. /\ se' \in [Tasks -> Entity]
      /\ \A t \in Tasks : se'[t].policy = se[t].policy /\ se'[t].priority = se[t].priority
  BY <1>2, <1>3, <1>4 DEF SchedTypes, Entities
<1>6. se' \in Entities
  BY <1>2, <1>5 DEF SchedTypes, Entities
<1>7. state'[next] = "RUNNING" /\ \A t \in Tasks \ {next} : state'[t] = state[t]
  BY <1>1, <1>2 DEF SchedTypes
<1>8. Queues' = Queues
  BY <1>1 DEF queues, Queues
<1>9. Waits' = Waits
  BY <1>1, <1>2, <1>7 DEF Waits, Waiting
<1>10. Holds(Queues, Waits, se')
  BY <1>2, <1>5, HoldsSame DEF Waits
<1>11. SchedTypes'
  BY <1>1, <1>2, <1>6 DEF SchedTypes
<1>12. Steps'
  BY SMTT(60), <1>1, <1>2, <1>5, <1>7, SchedulerAssumption DEF Steps
<1> QED
  BY <1>8, <1>9, <1>10, <1>11, <1>12 DEF SchedInv

(* One task runs and nothing is queued. *)
LEMMA SchedInvInit ==
    ASSUME SchedInit
    PROVE  SchedInv
<1>1. SchedTypes /\ Steps
  BY SMTT(60), SchedulerAssumption DEF SchedInit, SchedTypes, Steps, Entities, Entity, FreshEntity, PolicyNames
<1>2. Waits = {} /\ \A c : OfClass(Waits, se, c) = {}
  BY DEF SchedInit, Waits, Waiting, OfClass
<1>3. Cardinality({}) = 0
  BY FS_EmptySet
<1>4. /\ <<>> \in Seq(Tasks) /\ Once(<<>>) /\ Members(<<>>) = {}
  BY SMTT(60) DEF Once, Members
<1> DEFINE r == Queues
<1>5. /\ IsQueues(r) /\ r.rr = <<>> /\ r.all = <<>> /\ r.act = [p \in Levels |-> <<>>]
      /\ r.exp = [p \in Levels |-> <<>>] /\ r.rq = [p \in PolicyNames |-> 0]
  BY DEF SchedInit, Queues, IsQueues, PolicyNames
<1> HIDE DEF r
<1>6. r.act \in [Levels -> Seq(Tasks)] /\ \A p \in Levels : r.act[p] = <<>> /\ r.exp[p] = <<>>
  BY <1>4, <1>5
<1>7. r.exp \in [Levels -> Seq(Tasks)]
  BY <1>4, <1>5
<1>8. r.rq \in [PolicyNames -> Nat] /\ \A c \in PolicyNames : r.rq[c] = 0
  BY SMTT(60), <1>5
<1>9. \A p : {t \in OfClass(Waits, se, "PRIORITY") : se[t].priority = p} = {}
  BY <1>2
<1>10. Holds(r, Waits, se)
  BY <1>2, <1>3, <1>4, <1>5, <1>6, <1>7, <1>8, <1>9 DEF Holds
<1> QED
  BY <1>1, <1>10 DEF SchedInv, r

(* One case per action, the tick included. *)
LEMMA SchedInvNext ==
    ASSUME SchedInv, [SchedNext]_schedVars
    PROVE  SchedInv'
<1>1. CASE \E t \in Tasks, policy \in Policies, n \in Priorities : CreateTask(t, policy, n)
  BY <1>1, CreateStep
<1>2. CASE \E t \in Tasks : Wake(t)
  BY <1>2, WakeStep
<1>3. CASE sched_timer_tick_handler
  BY <1>3, TickStep
<1>4. CASE CallSchedule
  BY <1>4, CallScheduleStep
<1>5. CASE BlockCurrent
  BY <1>5, BlockStep
<1>6. CASE ExitCurrent
  BY <1>6, ExitStep
<1>7. CASE FinishSchedule
  BY <1>7, EnqueuePrevStep, DequeueNextStep, SwitchStep DEF FinishSchedule
<1>8. CASE UNCHANGED schedVars
  <2>1. Queues' = Queues /\ Waits' = Waits /\ UNCHANGED <<current, state, se, pc, next>>
    BY <1>8 DEF schedVars, queues, Queues, Waits, Waiting
  <2> QED
    BY <2>1 DEF SchedInv, SchedTypes, Steps
<1> QED
  BY <1>1, <1>2, <1>3, <1>4, <1>5, <1>6, <1>7, <1>8 DEF SchedNext

-----------------------------------------------------------------------------
(* Counting what the lists hold.                                           *)

(* Sets that correspond one to one have the same size. *)
LEMMA Counted ==
    ASSUME NEW S, NEW T, IsFiniteSet(T), NEW f \in [S -> T],
           \A x, y \in S : f[x] = f[y] => x = y, \A t \in T : \E x \in S : f[x] = t
    PROVE  IsFiniteSet(S) /\ Cardinality(S) = Cardinality(T)
<1>1. f \in Injection(S, T) /\ f \in Surjection(S, T)
  BY DEF Injection, Surjection, IsInjective
<1>2. IsFiniteSet(S)
  BY <1>1, FS_Injection
<1> QED
  BY <1>1, <1>2, FS_Surjection

(* A task is on a list without repetitions at most once. *)
LEMMA OccurrencesOnce ==
    ASSUME NEW q \in Seq(Tasks), Once(q), NEW t
    PROVE  Occurrences(q, t) = IF t \in Members(q) THEN 1 ELSE 0
<1>1. CASE t \in Members(q)
  <2>1. PICK i \in DOMAIN q : q[i] = t
    BY <1>1 DEF Members
  <2>2. {j \in DOMAIN q : q[j] = t} = {i}
    BY <2>1 DEF Once
  <2> QED
    BY <1>1, <2>2, FS_Singleton DEF Occurrences
<1>2. CASE t \notin Members(q)
  <2>1. {j \in DOMAIN q : q[j] = t} = {}
    BY <1>2 DEF Members
  <2> QED
    BY <1>2, <2>1, FS_EmptySet DEF Occurrences
<1> QED
  BY <1>1, <1>2

(* A list without repetitions is as long as its set is large. *)
LEMMA LengthOnce ==
    ASSUME NEW q \in Seq(Tasks), Once(q), Members(q) \subseteq Tasks
    PROVE  Len(q) = Cardinality(Members(q))
<1>1. q \in [1 .. Len(q) -> Members(q)] /\ Len(q) \in Nat /\ DOMAIN q = 1 .. Len(q)
  BY SMTT(60) DEF Members
<1>2. IsFiniteSet(Members(q))
  BY FS_Subset, SchedulerAssumption
<1>3. Cardinality(1 .. Len(q)) = Cardinality(Members(q))
  <2>1. \A x, y \in 1 .. Len(q) : q[x] = q[y] => x = y
    BY <1>1 DEF Once
  <2>2. \A t \in Members(q) : \E x \in 1 .. Len(q) : q[x] = t
    BY <1>1 DEF Members
  <2> QED
    BY <1>1, <1>2, <2>1, <2>2, Counted
<1>4. Cardinality(1 .. Len(q)) = Len(q)
  <2>1. 1 \in Int /\ Len(q) \in Int
    BY SMTT(60), <1>1
  <2>2. Cardinality(1 .. Len(q)) = IF 1 > Len(q) THEN 0 ELSE Len(q) - 1 + 1
    BY <2>1, FS_Interval
  <2> QED
    BY SMTT(60), <1>1, <2>2
<1> QED
  BY <1>3, <1>4

(* The tasks on the lists of a priority array. *)
Listed(lists) == {t \in Tasks : \E p \in Levels : t \in Members(lists[p])}

(* The lists of an array hold as many tasks as are listed in it. *)
LEMMA CountOnce ==
    ASSUME NEW lists \in [Levels -> Seq(Tasks)], NEW e,
           \A p \in Levels : Once(lists[p]) /\ \A t \in Members(lists[p]) : e[t].priority = p
    PROVE  Count(lists) = Cardinality(Listed(lists))
<1> DEFINE S == UNION {{p} \X DOMAIN lists[p] : p \in Levels}
           f == [x \in S |-> lists[x[1]][x[2]]]
<1>1. \A x : x \in S <=> \E p \in Levels : \E i \in DOMAIN lists[p] : x = <<p, i>>
  BY SMTT(60)
<1> HIDE DEF S
<1>2. \A p \in Levels : \A i \in DOMAIN lists[p] : <<p, i>> \in S /\ f[<<p, i>>] = lists[p][i]
  BY <1>1
<1>3. \A p \in Levels : \A i \in DOMAIN lists[p] : lists[p][i] \in Tasks /\ lists[p][i] \in Members(lists[p])
  BY SMTT(60) DEF Members
<1>4. DOMAIN f = S /\ f = [x \in S |-> f[x]]
  OBVIOUS
<1> HIDE DEF f
<1>5. \A x \in S : f[x] \in Listed(lists)
  BY SMTT(60), <1>1, <1>2, <1>3 DEF Listed
<1>6. f \in [S -> Listed(lists)]
  BY <1>4, <1>5
<1>7. ASSUME NEW x \in S, NEW y \in S, f[x] = f[y] PROVE x = y
  <2>1. PICK p \in Levels : \E i \in DOMAIN lists[p] : x = <<p, i>>
    BY <1>1
  <2>2. PICK i \in DOMAIN lists[p] : x = <<p, i>>
    BY <2>1
  <2>3. PICK k \in Levels : \E j \in DOMAIN lists[k] : y = <<k, j>>
    BY <1>1
  <2>4. PICK j \in DOMAIN lists[k] : y = <<k, j>>
    BY <2>3
  <2>5. lists[p][i] = lists[k][j]
    BY <1>2, <1>7, <2>2, <2>4
  <2>6. p = k
    BY SMTT(60), <1>3, <2>5
  <2> QED
    BY <2>2, <2>4, <2>5, <2>6 DEF Once
<1>8. ASSUME NEW t \in Listed(lists) PROVE \E x \in S : f[x] = t
  <2>1. PICK p \in Levels : t \in Members(lists[p])
    BY DEF Listed
  <2>2. PICK i \in DOMAIN lists[p] : t = lists[p][i]
    BY <2>1 DEF Members
  <2> QED
    BY <1>2, <2>2
<1>9. IsFiniteSet(Listed(lists))
  BY FS_Subset, SchedulerAssumption DEF Listed
<1>10. Cardinality(S) = Cardinality(Listed(lists))
  BY <1>6, <1>7, <1>8, <1>9, Counted
<1> QED
  BY <1>10 DEF Count, S

(* What Holds says of the variables. *)
LEMMA Books ==
    ASSUME SchedInv
    PROVE  /\ rr_queue \in Seq(Tasks) /\ Once(rr_queue) /\ Members(rr_queue) = OfClass(Waits, se, "NORMAL")
           /\ run_queue \in Seq(Tasks) /\ Once(run_queue) /\ Members(run_queue) = Waits
           /\ active \in [Levels -> Seq(Tasks)] /\ expired \in [Levels -> Seq(Tasks)]
           /\ \A p \in Levels :
                /\ Once(active[p]) /\ Once(expired[p]) /\ Members(active[p]) \cap Members(expired[p]) = {}
                /\ Members(active[p]) \cup Members(expired[p])
                     = {t \in OfClass(Waits, se, "PRIORITY") : se[t].priority = p}
           /\ \A c \in PolicyNames : rq_nr[c] = Cardinality(OfClass(Waits, se, c))
<1> DEFINE r == Queues
<1>1. /\ r.rr = rr_queue /\ r.all = run_queue /\ r.act = active /\ r.exp = expired /\ r.rq = rq_nr
  BY DEF Queues
<1>2. Holds(r, Waits, se)
  BY DEF SchedInv
<1> HIDE DEF r
<1> QED
  BY <1>1, <1>2 DEF Holds

(* A task that waits is queued once, in its place. *)
LEMMA QueuedOnce ==
    ASSUME SchedInv
    PROVE  WaitingTasksQueuedOnce
<1> SUFFICES ASSUME NEW t \in Tasks
             PROVE  LET n == IF Waiting(t) THEN 1 ELSE 0
                    IN  /\ OnRR(t) = IF se[t].policy = "NORMAL" THEN n ELSE 0
                        /\ \A p \in Levels : OnLevel(t, p) =
                             IF se[t].policy = "PRIORITY" /\ se[t].priority = p THEN n ELSE 0
  BY DEF WaitingTasksQueuedOnce
<1> DEFINE n == IF Waiting(t) THEN 1 ELSE 0
<1>1. OnRR(t) = IF se[t].policy = "NORMAL" THEN n ELSE 0
  <2>1. OnRR(t) = IF t \in Members(rr_queue) THEN 1 ELSE 0
    BY Books, OccurrencesOnce DEF OnRR
  <2>2. t \in Members(rr_queue) <=> Waiting(t) /\ se[t].policy = "NORMAL"
    BY Books DEF OfClass, Waits
  <2> QED
    BY <2>1, <2>2
<1>2. ASSUME NEW p \in Levels
      PROVE  OnLevel(t, p) = IF se[t].policy = "PRIORITY" /\ se[t].priority = p THEN n ELSE 0
  <2>1. /\ Occurrences(active[p], t) = IF t \in Members(active[p]) THEN 1 ELSE 0
        /\ Occurrences(expired[p], t) = IF t \in Members(expired[p]) THEN 1 ELSE 0
    BY Books, OccurrencesOnce
  <2>2. /\ t \in Members(active[p]) \/ t \in Members(expired[p])
             <=> Waiting(t) /\ se[t].policy = "PRIORITY" /\ se[t].priority = p
        /\ ~(t \in Members(active[p]) /\ t \in Members(expired[p]))
    BY SMTT(60), Books DEF OfClass, Waits
  <2> QED
    BY SMTT(60), <2>1, <2>2 DEF OnLevel
<1> QED
  BY <1>1, <1>2

(* The counters agree with the queues. *)
LEMMA CountsAgree ==
    ASSUME SchedInv
    PROVE  QueueCountsAgree
<1> DEFINE N == OfClass(Waits, se, "NORMAL")
           P == OfClass(Waits, se, "PRIORITY")
           A == Listed(active)
           E == Listed(expired)
<1>1. /\ Waits \subseteq Tasks /\ N \subseteq Tasks /\ P \subseteq Tasks /\ A \subseteq Tasks /\ E \subseteq Tasks
  BY DEF Waits, OfClass, Listed
<1>2. /\ IsFiniteSet(Waits) /\ IsFiniteSet(N) /\ IsFiniteSet(P) /\ IsFiniteSet(A) /\ IsFiniteSet(E)
  BY <1>1, FS_Subset, SchedulerAssumption
<1>3. rq_nr["NORMAL"] = Len(rr_queue)
  BY <1>1, Books, LengthOnce DEF PolicyNames
<1>4. rq_nr["PRIORITY"] = Count(active) + Count(expired)
  <2>1. \A p \in Levels : /\ \A t \in Members(active[p]) : se[t].priority = p
                          /\ \A t \in Members(expired[p]) : se[t].priority = p
    BY Books
  <2>2. Count(active) = Cardinality(A) /\ Count(expired) = Cardinality(E)
    BY <2>1, Books, CountOnce
  <2>3. A \cup E = P /\ A \cap E = {}
    <3>1. ASSUME NEW t \in P PROVE t \in A \cup E
      <4>1. t \in Tasks /\ se[t].priority \in Levels
        BY <1>1, <3>1 DEF SchedInv, SchedTypes, Entities, OfClass
      <4> QED
        BY <4>1, Books DEF Listed
    <3>2. A \cup E \subseteq P
      BY Books DEF Listed
    <3>3. A \cap E = {}
      <4> SUFFICES ASSUME NEW t \in A, t \in E PROVE FALSE
        OBVIOUS
      <4>1. PICK p \in Levels : t \in Members(active[p])
        BY DEF Listed
      <4>2. PICK k \in Levels : t \in Members(expired[k])
        BY DEF Listed
      <4>3. p = k
        BY <2>1, <4>1, <4>2
      <4>4. Members(active[p]) \cap Members(expired[p]) = {}
        BY Books
      <4> QED
        BY <4>1, <4>2, <4>3, <4>4
    <3> QED
      BY <3>1, <3>2, <3>3
  <2>4. Cardinality(P) = Cardinality(A) + Cardinality(E) - Cardinality({})
    BY SMTT(60), <1>2, <2>3, FS_Union
  <2> QED
    BY SMTT(60), <1>2, <2>2, <2>4, Books, FS_EmptySet, FS_CardinalityType DEF PolicyNames
<1>5. Len(run_queue) = rq_nr["NORMAL"] + rq_nr["PRIORITY"]
  <2>1. Len(run_queue) = Cardinality(Waits)
    BY <1>1, Books, LengthOnce
  <2>2. N \cup P = Waits /\ N \cap P = {}
    BY DEF SchedInv, SchedTypes, Entities, Entity, PolicyNames, OfClass, Waits
  <2>3. Cardinality(Waits) = Cardinality(N) + Cardinality(P) - Cardinality({})
    BY SMTT(60), <1>2, <2>2, FS_Union
  <2> QED
    BY SMTT(60), <1>2, <2>1, <2>3, Books, FS_EmptySet, FS_CardinalityType DEF PolicyNames
<1>6. \A t \in Tasks : Occurrences(run_queue, t) = IF Waiting(t) THEN 1 ELSE 0
  BY Books, OccurrencesOnce DEF Waits
<1> QED
  BY <1>3, <1>4, <1>5, <1>6 DEF QueueCountsAgree

(* The invariant implies the property. *)
LEMMA SchedInvSound ==
    ASSUME SchedInv
    PROVE  QueuesSound
<1>1. OnlyCurrentRuns
  BY DEF SchedInv, SchedTypes, Steps, OnlyCurrentRuns
<1> QED
  BY <1>1, QueuedOnce, CountsAgree DEF QueuesSound

(* Whatever ticks fall between the steps of schedule(), and whatever tasks *)
(* are created, block, wake and exit: a task that waits for the CPU is on  *)
(* exactly one list of its class and level, once, the legacy list and the  *)
(* counters that guard every pick agree with the class queues, and only    *)
(* the current task is RUNNING.                                            *)
THEOREM SchedulerKeepsBooks == SchedSpec => []QueuesSound
<1>1. SchedInit => SchedInv
  BY SchedInvInit
<1>2. SchedInv /\ [SchedNext]_schedVars => SchedInv'
  BY SchedInvNext
<1>3. SchedInv => QueuesSound
  BY SchedInvSound
<1> QED
  BY <1>1, <1>2, <1>3, PTL DEF SchedSpec

-----------------------------------------------------------------------------
(* The refinement of RunQueue.                                             *)

(* Deleting a task that is not on the list. *)
LEMMA WithoutNone ==
    ASSUME NEW q \in Seq(Tasks), NEW t, t \notin Members(q)
    PROVE  Without(q, t) = q
<1>1. Members(q) \subseteq Tasks \ {t}
  BY SMTT(60) DEF Members
<1> QED
  BY <1>1, KeepAll DEF Without

(* Deleting the first task. *)
LEMMA WithoutHead ==
    ASSUME NEW q \in Seq(Tasks), Once(q), q # <<>>
    PROVE  Without(q, Head(q)) = Tail(q)
<1>1. Members(q) \subseteq Tasks
  BY SMTT(60) DEF Members
<1> QED
  BY <1>1, KeepTail DEF Without

(* Deleting another task than the one just appended. *)
LEMMA WithoutAppend ==
    ASSUME NEW q \in Seq(Tasks), NEW u \in Tasks, NEW t, t # u
    PROVE  Without(Append(q, u), t) = Append(Without(q, t), u)
BY SMTT(60), KeepAppend DEF Without

(* Appending to a queue that is not empty leaves its head. *)
LEMMA Ends ==
    ASSUME NEW q \in Seq(Tasks), NEW t \in Tasks
    PROVE  /\ q \o <<>> = q /\ q \o <<t>> = Append(q, t)
           /\ q # <<>> => /\ Append(q, t) # <<>> /\ Head(Append(q, t)) = Head(q)
                          /\ Tail(Append(q, t)) = Append(Tail(q), t)
<1>1. Len(q) \in Nat /\ DOMAIN q = 1 .. Len(q)
  BY SMTT(60)
<1>2. q \o <<>> = q
  BY SMTT(60)
<1>3. q \o <<t>> = Append(q, t)
  BY SMTT(60)
<1>4. ASSUME q # <<>>
      PROVE  /\ Append(q, t) # <<>> /\ Head(Append(q, t)) = Head(q)
             /\ Tail(Append(q, t)) = Append(Tail(q), t)
  <2> DEFINE h == Append(q, t)
             r == Tail(q)
  <2>1. /\ h \in Seq(Tasks) /\ Len(h) = Len(q) + 1 /\ Len(q) > 0
        /\ h[Len(q) + 1] = t /\ \A i \in 1 .. Len(q) : h[i] = q[i]
    BY SMTT(60), <1>1, <1>4
  <2>2. r \in Seq(Tasks) /\ Len(r) = Len(q) - 1 /\ \A i \in 1 .. Len(q) - 1 : r[i] = q[i + 1]
    BY SMTT(60), <1>1, <1>4
  <2>3. h # <<>> /\ Head(h) = Head(q)
    BY SMTT(60), <1>1, <2>1
  <2> HIDE DEF h, r
  <2>4. /\ Tail(h) \in Seq(Tasks) /\ Len(Tail(h)) = Len(q)
        /\ \A i \in 1 .. Len(q) : Tail(h)[i] = h[i + 1]
    BY SMTT(60), <1>1, <2>1, <2>3
  <2> DEFINE g == Append(r, t)
  <2>5. /\ g \in Seq(Tasks) /\ Len(g) = Len(r) + 1 /\ g[Len(r) + 1] = t
        /\ \A i \in 1 .. Len(r) : g[i] = r[i]
    BY SMTT(60), <2>2
  <2> HIDE DEF g
  <2>6. ASSUME NEW i \in 1 .. Len(q) PROVE Tail(h)[i] = g[i]
    <3>1. Tail(h)[i] = h[i + 1]
      BY <2>4
    <3>2. CASE i = Len(q)
      BY SMTT(60), <1>1, <2>1, <2>2, <2>5, <3>1, <3>2
    <3>3. CASE i # Len(q)
      <4>1. Len(q) \in Nat /\ i \in Nat /\ 1 <= i /\ i <= Len(q)
        BY SMTT(60), <1>1, <2>6
      <4>2. i \in 1 .. Len(q) - 1 /\ i + 1 \in 1 .. Len(q)
        BY SMTT(60), <3>3, <4>1
      <4> QED
        BY <2>1, <2>2, <2>5, <3>1, <4>2
    <3> QED
      BY <3>2, <3>3
  <2>7. Tail(h) = g
    BY SMTT(60), <1>1, <2>2, <2>4, <2>5, <2>6
  <2> QED
    BY <2>3, <2>7 DEF g, h, r
<1> QED
  BY <1>2, <1>3, <1>4

(* FifoCpu as a function of what it is read from. *)
Seen(c, st, q, p, n) ==
    [cur |-> IF n = NULL THEN c ELSE n,
     st  |-> IF n = NULL THEN st ELSE [st EXCEPT ![n] = "RUNNING"],
     q   |-> Without(q, n) \o (IF p = "enqueue" THEN <<c>> ELSE <<>>)]

(* The refinement mapping as an operator of the state it reads. *)
LEMMA FifoSeen ==
    /\ FifoCpu = Seen(current, state, rr_queue, pc, next)
    /\ FifoCpu' = Seen(current', state', rr_queue', pc', next')
BY DEF FifoCpu, Seen

(* Between two calls of schedule() the mapping is the identity. *)
LEMMA SeenIdle ==
    ASSUME NEW c, NEW st, NEW q \in Seq(Tasks)
    PROVE  Seen(c, st, q, "run", NULL) = [cur |-> c, st |-> st, q |-> q]
<1>1. NULL \notin Members(q)
  BY SMTT(60), SchedulerAssumption DEF Members
<1>2. Without(q, NULL) \o <<>> = q
  BY SMTT(60), <1>1, WithoutNone
<1> QED
  BY <1>2 DEF Seen

(* With round-robin tasks only, no task waits in the priority class. *)
LEMMA RRPick ==
    ASSUME SchedTypes, RROnly, NEW r, NEW W, Holds(r, W, se), NEW st
    PROVE  sched_pick_next_task(r, st)
             = [q |-> r, task |-> IF current # NULL /\ st[current] = "RUNNING" /\ se[current].time_slice > 0
                                  THEN current ELSE First(r.rr)]
<1>1. OfClass(W, se, "PRIORITY") = {} /\ OfClass(W, se, "NORMAL") = W /\ W \subseteq Tasks
  BY DEF RROnly, Holds, OfClass
<1>2. r.rq["PRIORITY"] = 0
  BY <1>1, FS_EmptySet DEF Holds, PolicyNames
<1>3. r.rq["NORMAL"] = 0 => r.rr = <<>>
  <2>1. r.rq["NORMAL"] = Cardinality(W) /\ r.rr \in Seq(Tasks) /\ Members(r.rr) = W
    BY <1>1 DEF Holds, PolicyNames
  <2>2. IsFiniteSet(W)
    BY <1>1, FS_Subset, SchedulerAssumption
  <2>3. Cardinality(W) = 0 => W = {}
    BY <2>2, FS_EmptySet
  <2>4. r.rr # <<>> => Members(r.rr) # {}
    BY SMTT(60), <2>1, TailFacts
  <2> QED
    BY <2>1, <2>3, <2>4
<1>4. PickQueued(r) = [q |-> r, task |-> First(r.rr)]
  BY SMTT(60), <1>2, <1>3 DEF PickQueued, rr_pick_next_task, First
<1> QED
  BY SMTT(60), <1>2, <1>4 DEF sched_pick_next_task

(* A state of RunQueue, and its operations on it, with the updates kept    *)
(* folded.                                                                 *)
To(st, t, x) == [st EXCEPT ![t] = x]

(* A state of RunQueue. *)
View(c, st, q) == [cur |-> c, st |-> st, q |-> q]

(* RunQueue makes a task ready. *)
LEMMA FifoReady ==
    ASSUME NEW c, NEW st, NEW q, NEW t
    PROVE  Fifo!MakeReady(View(c, st, q), t) = View(c, To(st, t, "READY"), Append(q, t))
<1> DEFINE v == View(c, st, q)
           w == Fifo!MakeReady(v, t)
<1>1. DOMAIN v = {"cur", "st", "q"} /\ v.cur = c /\ v.st = st /\ v.q = q
  BY DEF View
<1> HIDE DEF v
<1>2. w = [v EXCEPT !.st[t] = "READY", !.q = Append(@, t)]
  BY DEF Fifo!MakeReady
<1> HIDE DEF w
<1>3. /\ w = [x \in {"cur", "st", "q"} |-> w[x]]
      /\ w.cur = c /\ w.st = To(st, t, "READY") /\ w.q = Append(q, t)
  BY <1>1, <1>2 DEF To
<1>4. w = View(c, To(st, t, "READY"), Append(q, t))
  BY <1>3 DEF View
<1> QED
  BY <1>4 DEF v, w

(* RunQueue gives the CPU to the head of the queue. *)
LEMMA FifoSchedule ==
    ASSUME NEW c, NEW st, NEW q
    PROVE  /\ q = <<>> \/ Head(q) = c => Fifo!schedule(View(c, st, q)) = View(c, st, q)
           /\ q # <<>> /\ Head(q) # c =>
                Fifo!schedule(View(c, st, q)) = View(Head(q), To(st, Head(q), "RUNNING"), Tail(q))
<1>1. View(c, st, q).cur = c /\ View(c, st, q).st = st /\ View(c, st, q).q = q
  BY DEF View
<1> QED
  BY <1>1 DEF Fifo!schedule, View, To

(* RunQueue blocks or ends the current task. *)
LEMMA FifoStop ==
    ASSUME NEW c, NEW st, NEW q
    PROVE  /\ Fifo!BlockCurrent(View(c, st, q)) = Fifo!schedule(View(c, To(st, c, "BLOCKED"), q))
           /\ Fifo!ExitCurrent(View(c, st, q)) = Fifo!schedule(View(c, To(st, c, "ZOMBIE"), q))
<1>1. /\ [View(c, st, q) EXCEPT !.st[View(c, st, q).cur] = "BLOCKED"] = View(c, To(st, c, "BLOCKED"), q)
      /\ [View(c, st, q) EXCEPT !.st[View(c, st, q).cur] = "ZOMBIE"] = View(c, To(st, c, "ZOMBIE"), q)
  BY SMTT(60) DEF View, To
<1> QED
  BY <1>1 DEF Fifo!BlockCurrent, Fifo!ExitCurrent

(* schedule() from a state table st, as RunQueue sees it: nothing happens, *)
(* or the head of the queue gets the CPU and the caller, if it can go on,  *)
(* is put behind the others.                                               *)
LEMMA RRBegin ==
    ASSUME SchedInv, CodeRuns, RROnly, NEW r, r.rr = rr_queue, NEW W, Holds(r, W, se), NEW st,
           BeginSchedule(r, st), current # NULL => current \in Tasks /\ st[current] # "READY"
    PROVE  LET h == Head(rr_queue)
               runs == current # NULL /\ st[current] = "RUNNING"
           IN  \/ /\ FifoCpu' = View(current, st, rr_queue)
                  /\ rr_queue = <<>> \/ h = current \/ runs
               \/ /\ rr_queue # <<>> /\ h # current /\ runs
                  /\ FifoCpu' = View(h, To(To(st, current, "READY"), h, "RUNNING"), Append(Tail(rr_queue), current))
               \/ /\ rr_queue # <<>> /\ h # current /\ ~runs
                  /\ FifoCpu' = View(h, To(st, h, "RUNNING"), Tail(rr_queue))
<1> DEFINE h == Head(rr_queue)
           runs == current # NULL /\ st[current] = "RUNNING"
           pick == sched_pick_next_task(r, st)
           task == IF runs /\ se[current].time_slice > 0 THEN current ELSE First(rr_queue)
<1>1. /\ SchedTypes /\ rr_queue \in Seq(Tasks) /\ Once(rr_queue)
  BY Books DEF SchedInv
<1>2. pick = [q |-> r, task |-> task]
  BY <1>1, RRPick
<1>3. /\ SetQueues(pick.q) /\ UNCHANGED <<current, se>>
      /\ IF pick.task \in {NULL, current}
         THEN pc' = "run" /\ next' = NULL /\ state' = st
         ELSE /\ next' = pick.task
              /\ IF current # NULL /\ st[current] \in {"RUNNING", "READY"}
                 THEN pc' = "enqueue" /\ state' = To(st, current, "READY")
                 ELSE pc' = "dequeue" /\ state' = st
  BY DEF BeginSchedule, To
<1>4. pick.q = r /\ pick.task = task
  BY SMTT(60), <1>2
<1> HIDE DEF pick
<1>5. rr_queue' = rr_queue /\ current' = current
  BY <1>3, <1>4 DEF SetQueues
<1>6. rr_queue # <<>> => h \in Tasks /\ h # NULL
  BY SMTT(60), <1>1, TailFacts, SchedulerAssumption
<1>7. CASE task \in {NULL, current}
  <2>1. pc' = "run" /\ next' = NULL /\ state' = st
    BY <1>3, <1>4, <1>7
  <2>2. FifoCpu' = View(current, st, rr_queue)
    BY <1>1, <1>5, <2>1, FifoSeen, SeenIdle DEF View
  <2>3. rr_queue = <<>> \/ h = current \/ runs
    BY <1>6, <1>7 DEF First
  <2> QED
    BY <2>2, <2>3
<1>8. CASE task \notin {NULL, current}
  <2>1. rr_queue # <<>> /\ h # current /\ task = h
    BY <1>8 DEF First
  <2>2. next' = h /\ h # NULL /\ h \in Tasks
    BY <1>3, <1>4, <1>6, <1>8, <2>1
  <2>3. Without(rr_queue, h) = Tail(rr_queue) /\ Tail(rr_queue) \in Seq(Tasks)
    BY <1>1, <2>1, WithoutHead, TailFacts
  <2>4. CASE runs
    <3>1. pc' = "enqueue" /\ state' = To(st, current, "READY") /\ current \in Tasks
      BY <1>3, <1>4, <1>8, <2>4
    <3>2. FifoCpu' = Seen(current, To(st, current, "READY"), rr_queue, "enqueue", h)
      BY <1>5, <2>2, <3>1, FifoSeen
    <3>3. Tail(rr_queue) \o <<current>> = Append(Tail(rr_queue), current)
      BY <2>3, <3>1, Ends
    <3>4. FifoCpu' = View(h, To(To(st, current, "READY"), h, "RUNNING"), Append(Tail(rr_queue), current))
      BY <2>2, <2>3, <3>2, <3>3 DEF Seen, View, To
    <3> QED
      BY <2>1, <2>4, <3>4
  <2>5. CASE ~runs
    <3>1. pc' = "dequeue" /\ state' = st
      BY <1>3, <1>4, <1>8, <2>5
    <3>2. FifoCpu' = Seen(current, st, rr_queue, "dequeue", h)
      BY <1>5, <2>2, <3>1, FifoSeen
    <3>3. Tail(rr_queue) \o <<>> = Tail(rr_queue)
      BY <2>2, <2>3, Ends
    <3>4. FifoCpu' = View(h, To(st, h, "RUNNING"), Tail(rr_queue))
      BY <2>2, <2>3, <3>2, <3>3 DEF Seen, View, To
    <3> QED
      BY <2>1, <2>5, <3>4
  <2> QED
    BY <2>4, <2>5
<1> QED
  BY <1>7, <1>8

(* Outside schedule() RunQueue sees the variables themselves. *)
LEMMA FifoIdle ==
    ASSUME SchedInv, pc = "run"
    PROVE  FifoCpu = View(current, state, rr_queue) /\ rr_queue \in Seq(Tasks)
<1>1. rr_queue \in Seq(Tasks) /\ next = NULL
  BY Books DEF SchedInv, Steps
<1> QED
  BY <1>1, FifoSeen, SeenIdle DEF View

(* A pick is RunQueue's yield, or nothing. *)
LEMMA FifoCall ==
    ASSUME SchedInv, RROnly, CallSchedule
    PROVE  Fifo!RQYield \/ FifoCpu' = FifoCpu
<1> DEFINE h == Head(rr_queue)
           runs == current # NULL /\ state[current] = "RUNNING"
<1>1. CodeRuns /\ BeginSchedule(Queues, state)
  BY DEF CallSchedule
<1>2. /\ pc = "run" /\ SchedTypes /\ Holds(Queues, Waits, se) /\ Queues.rr = rr_queue
      /\ current # NULL => current \in Tasks /\ state[current] # "READY"
  BY <1>1, Running DEF Queues, Steps, SchedTypes
<1>3. FifoCpu = View(current, state, rr_queue) /\ rr_queue \in Seq(Tasks)
  BY <1>2, FifoIdle
<1>4. \/ FifoCpu' = View(current, state, rr_queue)
      \/ /\ rr_queue # <<>> /\ h # current /\ runs
         /\ FifoCpu' = View(h, To(To(state, current, "READY"), h, "RUNNING"), Append(Tail(rr_queue), current))
      \/ /\ rr_queue # <<>> /\ h # current /\ ~runs
         /\ FifoCpu' = View(h, To(state, h, "RUNNING"), Tail(rr_queue))
  BY <1>1, <1>2, RRBegin
<1> DEFINE v == FifoCpu
           w == FifoCpu'
<1>5. v.cur = current /\ v.st = state /\ v.q = rr_queue
  BY <1>3 DEF View
<1>6. Fifo!RQYield <=> w = IF v.cur = NULL \/ v.q = <<>> THEN Fifo!schedule(v)
                           ELSE IF v.st[v.cur] = "RUNNING" THEN Fifo!schedule(Fifo!MakeReady(v, v.cur))
                           ELSE Fifo!schedule(v)
  BY DEF Fifo!RQYield
<1>7. CASE rr_queue # <<>> /\ h # current /\ runs
  <2>1. w = View(h, To(To(state, current, "READY"), h, "RUNNING"), Append(Tail(rr_queue), current)) \/ w = v
    BY <1>3, <1>4, <1>7
  <2>2. Fifo!MakeReady(v, current)
          = View(current, To(state, current, "READY"), Append(rr_queue, current))
    BY SMTT(60), <1>3, FifoReady
  <2>3. /\ Append(rr_queue, current) # <<>> /\ Head(Append(rr_queue, current)) = h
        /\ Tail(Append(rr_queue, current)) = Append(Tail(rr_queue), current)
    BY <1>2, <1>3, <1>7, Ends
  <2> DEFINE st == To(state, current, "READY")
             q == Append(rr_queue, current)
  <2>4. Fifo!schedule(View(current, st, q)) = View(h, To(st, h, "RUNNING"), Tail(q))
    <3> HIDE DEF st, q
    <3>1. q # <<>> /\ Head(q) # current /\ Head(q) = h
      BY <1>7, <2>3 DEF q
    <3> QED
      BY SMTT(60), <3>1, FifoSchedule
  <2> HIDE DEF v, w, h
  <2>5. Fifo!RQYield \/ w = v
    BY <1>5, <1>6, <1>7, <2>1, <2>2, <2>3, <2>4 DEF h
  <2> QED
    BY <2>5 DEF v, w
<1>8. CASE rr_queue # <<>> /\ h # current /\ ~runs
  <2>1. w = View(h, To(state, h, "RUNNING"), Tail(rr_queue)) \/ w = v
    BY <1>3, <1>4, <1>8
  <2>2. Fifo!schedule(v) = View(h, To(state, h, "RUNNING"), Tail(rr_queue))
    BY SMTT(60), <1>3, <1>8, FifoSchedule
  <2> HIDE DEF v, w, h
  <2>3. Fifo!RQYield \/ w = v
    BY <1>5, <1>6, <1>8, <2>1, <2>2
  <2> QED
    BY <2>3 DEF v, w
<1>9. CASE FifoCpu' = View(current, state, rr_queue)
  BY <1>3, <1>9
<1> QED
  BY <1>4, <1>7, <1>8, <1>9

(* What the round-robin class does to its queue. *)
LEMMA NormalQueue ==
    ASSUME NEW r, IsQueues(r), NEW t, NEW e, e.policy = "NORMAL"
    PROVE  /\ sched_enqueue_task(r, t, e).rr = Append(r.rr, t)
           /\ sched_dequeue_task(r, t, e).rr = Without(r.rr, t)
<1>1. LET d == sched_enqueue_task(r, t, e)
      IN  /\ IsQueues(d) /\ d.rr = Append(r.rr, t) /\ d.act = r.act /\ d.exp = r.exp
          /\ d.rq = [r.rq EXCEPT !["NORMAL"] = @ + 1] /\ d.all = Append(r.all, t)
  BY SMTT(60), NormalEnqueue
<1>2. LET d == sched_dequeue_task(r, t, e)
      IN  /\ IsQueues(d) /\ d.rr = Without(r.rr, t) /\ d.act = r.act /\ d.exp = r.exp
          /\ d.rq = [r.rq EXCEPT !["NORMAL"] = (@ - 1) % Wrap] /\ d.all = Without(r.all, t)
  BY SMTT(60), NormalDequeue
<1> QED
  BY <1>1, <1>2

(* The current task stops, and so cannot go on. *)
LEMMA FifoStops ==
    ASSUME SchedInv, CodeRuns, RROnly, current # NULL, NEW x \in {"BLOCKED", "ZOMBIE"},
           NEW r, r.rr = rr_queue, NEW W, Holds(r, W, se), BeginSchedule(r, To(state, current, x))
    PROVE  FifoCpu' = Fifo!schedule(View(current, To(state, current, x), rr_queue))
<1> DEFINE h == Head(rr_queue)
           st == To(state, current, x)
<1>1. current \in Tasks /\ st[current] = x
  BY DEF SchedInv, SchedTypes, To
<1>2. BeginSchedule(r, st)
  OBVIOUS
<1> HIDE DEF st
<1>3. \/ /\ FifoCpu' = View(current, st, rr_queue) /\ (rr_queue = <<>> \/ h = current)
      \/ /\ rr_queue # <<>> /\ h # current
         /\ FifoCpu' = View(h, To(st, h, "RUNNING"), Tail(rr_queue))
  BY <1>1, <1>2, RRBegin
<1>4. FifoCpu' = Fifo!schedule(View(current, st, rr_queue))
  BY SMTT(60), <1>3, FifoSchedule
<1> QED
  BY <1>4 DEF st

(* Blocking is RunQueue's. *)
LEMMA FifoBlock ==
    ASSUME SchedInv, RROnly, BlockCurrent
    PROVE  Fifo!RQBlock
<1>1. CodeRuns /\ current # NULL /\ BeginSchedule(Queues, To(state, current, "BLOCKED"))
  BY DEF BlockCurrent, To
<1>2. pc = "run" /\ Holds(Queues, Waits, se) /\ Queues.rr = rr_queue
  BY <1>1, Running DEF Queues
<1>3. FifoCpu' = Fifo!schedule(View(current, To(state, current, "BLOCKED"), rr_queue))
  BY <1>1, <1>2, FifoStops
<1>4. FifoCpu = View(current, state, rr_queue) /\ FifoCpu.cur = current
  BY SMTT(60), <1>2, FifoIdle DEF View
<1>5. Fifo!BlockCurrent(FifoCpu) = Fifo!schedule(View(current, To(state, current, "BLOCKED"), rr_queue))
  BY <1>4, FifoStop
<1> QED
  BY <1>1, <1>3, <1>4, <1>5 DEF Fifo!RQBlock

(* Exiting is RunQueue's. *)
LEMMA FifoExit ==
    ASSUME SchedInv, RROnly, ExitCurrent
    PROVE  Fifo!RQExit
<1> DEFINE r == [Queues EXCEPT !.all = Without(@, current), !.nr = (@ - 1) % Wrap]
<1>1. CodeRuns /\ current # NULL /\ BeginSchedule(r, To(state, current, "ZOMBIE"))
  BY DEF ExitCurrent, To
<1>2. pc = "run"
  BY <1>1, Running
<1>3. Holds(r, Waits, se) /\ r.rr = rr_queue
  BY <1>1, ExitHolds
<1> HIDE DEF r
<1>4. FifoCpu' = Fifo!schedule(View(current, To(state, current, "ZOMBIE"), rr_queue))
  BY <1>1, <1>3, FifoStops
<1>5. FifoCpu = View(current, state, rr_queue) /\ FifoCpu.cur = current
  BY SMTT(60), <1>2, FifoIdle DEF View
<1>6. Fifo!ExitCurrent(FifoCpu) = Fifo!schedule(View(current, To(state, current, "ZOMBIE"), rr_queue))
  BY <1>5, FifoStop
<1> QED
  BY <1>1, <1>4, <1>5, <1>6 DEF Fifo!RQExit

(* A task becomes ready outside schedule(). *)
LEMMA FifoReadied ==
    ASSUME SchedInv, CodeRuns, NEW t \in Tasks, NEW e, e.policy = "NORMAL",
           state' = [state EXCEPT ![t] = "READY"], SetQueues(sched_enqueue_task(Queues, t, e)),
           UNCHANGED <<current, pc, next>>
    PROVE  /\ FifoCpu' = Fifo!MakeReady(FifoCpu, t)
           /\ FifoCpu.cur = current /\ FifoCpu.st = state
<1>1. pc = "run" /\ next = NULL
  BY Running
<1>2. FifoCpu = View(current, state, rr_queue) /\ rr_queue \in Seq(Tasks)
  BY <1>1, FifoIdle
<1>3. rr_queue' = Append(rr_queue, t)
  <2> DEFINE r == Queues
             d == sched_enqueue_task(r, t, e)
  <2>1. IsQueues(r) /\ r.rr = rr_queue
    BY DEF Queues, IsQueues
  <2>2. rr_queue' = d.rr
    BY DEF SetQueues
  <2> HIDE DEF r
  <2>3. d.rr = Append(r.rr, t)
    BY <2>1, NormalQueue
  <2> QED
    BY <2>1, <2>2, <2>3
<1>4. rr_queue' \in Seq(Tasks)
  BY SMTT(60), <1>2, <1>3
<1>5. FifoCpu' = View(current, state', rr_queue')
  BY <1>1, <1>4, FifoSeen, SeenIdle DEF View
<1>6. FifoCpu' = View(current, To(state, t, "READY"), Append(rr_queue, t))
  BY <1>3, <1>5 DEF To
<1>7. FifoCpu.cur = current /\ FifoCpu.st = state
  BY <1>2 DEF View
<1> QED
  BY SMTT(60), <1>2, <1>6, <1>7, FifoReady

(* Creating a task is RunQueue's. *)
LEMMA FifoCreate ==
    ASSUME SchedInv, RROnly', NEW t \in Tasks, NEW policy \in Policies, NEW n \in Priorities,
           CreateTask(t, policy, n)
    PROVE  Fifo!RQCreate(t)
<1> DEFINE e == sched_set_policy(policy, n)
<1>1. /\ CodeRuns /\ state[t] = "UNUSED" /\ state' = [state EXCEPT ![t] = "READY"]
      /\ se' = [se EXCEPT ![t] = e] /\ SetQueues(sched_enqueue_task(Queues, t, e))
      /\ UNCHANGED <<current, pc, next>>
  BY DEF CreateTask
<1> HIDE DEF e
<1>2. e.policy = "NORMAL"
  BY <1>1 DEF RROnly, SchedInv, SchedTypes, Entities
<1> QED
  BY <1>1, <1>2, FifoReadied DEF Fifo!RQCreate

(* Waking a task is RunQueue's. *)
LEMMA FifoWake ==
    ASSUME SchedInv, RROnly, NEW t \in Tasks, Wake(t)
    PROVE  Fifo!RQWake(t)
<1>1. /\ CodeRuns /\ state[t] = "BLOCKED" /\ t # current /\ state' = [state EXCEPT ![t] = "READY"]
      /\ SetQueues(sched_enqueue_task(Queues, t, se[t])) /\ UNCHANGED <<current, se, pc, next>>
  BY DEF Wake
<1>2. se[t].policy = "NORMAL"
  BY DEF RROnly
<1> QED
  BY <1>1, <1>2, FifoReadied DEF Fifo!RQWake

(* The later steps of schedule() change nothing that RunQueue sees. *)
LEMMA FifoEnqueuePrev ==
    ASSUME SchedInv, RROnly, EnqueuePrev
    PROVE  FifoCpu' = FifoCpu
<1>1. /\ pc = "enqueue" /\ pc' = "dequeue" /\ SetQueues(sched_enqueue_task(Queues, current, se[current]))
      /\ UNCHANGED <<current, state, se, next>>
  BY DEF EnqueuePrev
<1>2. current \in Tasks /\ next # current /\ rr_queue \in Seq(Tasks) /\ se[current].policy = "NORMAL"
  BY <1>1, Books DEF SchedInv, SchedTypes, Steps, RROnly
<1>3. rr_queue' = Append(rr_queue, current)
  <2> DEFINE r == Queues
             d == sched_enqueue_task(r, current, se[current])
  <2>1. IsQueues(r) /\ r.rr = rr_queue
    BY DEF Queues, IsQueues
  <2>2. rr_queue' = d.rr
    BY <1>1 DEF SetQueues
  <2> HIDE DEF r
  <2>3. d.rr = Append(r.rr, current)
    BY <1>2, <2>1, NormalQueue
  <2> QED
    BY <2>1, <2>2, <2>3
<1> DEFINE q == Without(rr_queue, next)
<1>4. Without(rr_queue', next) = Append(q, current)
  BY <1>2, <1>3, WithoutAppend
<1>5. q \in Seq(Tasks) /\ Append(q, current) \in Seq(Tasks)
  BY SMTT(60), <1>2, WithoutFacts, Books
<1>6. q \o <<current>> = Append(q, current) /\ Append(q, current) \o <<>> = Append(q, current)
  BY <1>2, <1>5, Ends
<1> HIDE DEF q
<1>7. FifoCpu'.q = FifoCpu.q
  BY <1>1, <1>4, <1>6, FifoSeen DEF Seen, q
<1> QED
  BY <1>1, <1>7, FifoSeen DEF Seen

(* Taking the next task off its queue shows nothing. *)
LEMMA FifoDequeueNext ==
    ASSUME SchedInv, RROnly, DequeueNext
    PROVE  FifoCpu' = FifoCpu
<1>1. /\ pc = "dequeue" /\ pc' = "switch" /\ SetQueues(sched_dequeue_task(Queues, next, se[next]))
      /\ UNCHANGED <<current, state, se, next>>
  BY DEF DequeueNext
<1>2. next \in Tasks /\ rr_queue \in Seq(Tasks) /\ Once(rr_queue) /\ se[next].policy = "NORMAL"
  BY <1>1, Books DEF SchedInv, Steps, RROnly
<1>3. rr_queue' = Without(rr_queue, next)
  <2> DEFINE r == Queues
             d == sched_dequeue_task(r, next, se[next])
  <2>1. IsQueues(r) /\ r.rr = rr_queue
    BY DEF Queues, IsQueues
  <2>2. rr_queue' = d.rr
    BY <1>1 DEF SetQueues
  <2> HIDE DEF r
  <2>3. d.rr = Without(r.rr, next)
    BY <1>2, <2>1, NormalQueue
  <2> QED
    BY <2>1, <2>2, <2>3
<1> DEFINE q == Without(rr_queue, next)
<1>4. q \in Seq(Tasks) /\ next \notin Members(q)
  BY <1>2, WithoutFacts
<1> HIDE DEF q
<1>5. Without(q, next) = q
  BY <1>4, WithoutNone
<1>6. FifoCpu'.q = FifoCpu.q
  BY <1>1, <1>3, <1>5, FifoSeen DEF Seen, q
<1> QED
  BY <1>1, <1>6, FifoSeen DEF Seen

(* The switch shows nothing, since the pick showed it. *)
LEMMA FifoSwitch ==
    ASSUME SchedInv, SwitchToNext
    PROVE  FifoCpu' = FifoCpu
<1>1. /\ pc = "switch" /\ pc' = "run" /\ current' = next /\ next' = NULL
      /\ state' = [state EXCEPT ![next] = "RUNNING"] /\ rr_queue' = rr_queue
  BY DEF SwitchToNext, queues
<1>2. next \in Tasks /\ rr_queue \in Seq(Tasks) /\ next \notin Members(rr_queue)
  BY <1>1, Books DEF SchedInv, Steps, OfClass, Waits, Waiting
<1>3. next # NULL /\ Without(rr_queue, next) \o <<>> = rr_queue
  BY <1>2, WithoutNone, Ends, SchedulerAssumption
<1>4. FifoCpu = View(next, To(state, next, "RUNNING"), rr_queue)
  BY <1>1, <1>3, FifoSeen DEF Seen, View, To
<1>5. FifoCpu' = View(next, To(state, next, "RUNNING"), rr_queue)
  BY <1>1, <1>2, FifoSeen, SeenIdle DEF View, To
<1> QED
  BY <1>4, <1>5

(* A task that is yet to be created counts as round-robin. *)
LEMMA RRBefore ==
    ASSUME SchedInv, SchedNext, RROnly'
    PROVE  RROnly
<1>1. SchedTypes /\ Steps /\ se \in [Tasks -> Entity]
  BY DEF SchedInv, SchedTypes, Entities
<1>2. CASE \E t \in Tasks, policy \in Policies, n \in Priorities : CreateTask(t, policy, n)
  <2>1. PICK t \in Tasks, policy \in Policies, n \in Priorities : CreateTask(t, policy, n)
    BY <1>2
  <2>2. state[t] = "UNUSED" /\ \A u \in Tasks \ {t} : se'[u] = se[u]
    BY <1>1, <2>1 DEF CreateTask
  <2> QED
    BY <1>1, <2>2 DEF RROnly, Steps
<1>3. CASE sched_timer_tick_handler
  <2>1. se' = [se EXCEPT ![current].time_slice = @ - 1] /\ current \in Tasks
    BY <1>1, <1>3 DEF sched_timer_tick_handler, SchedTypes
  <2>2. \A t \in Tasks : se'[t].policy = se[t].policy
    BY <1>1, <2>1 DEF Entity
  <2> QED
    BY <2>2 DEF RROnly
<1>4. CASE SwitchToNext
  <2>1. se' = [se EXCEPT ![next].time_slice = se[next].time_slice_total] /\ next \in Tasks
    BY <1>1, <1>4 DEF SwitchToNext, Steps
  <2>2. \A t \in Tasks : se'[t].policy = se[t].policy
    BY <1>1, <2>1 DEF Entity
  <2> QED
    BY <2>2 DEF RROnly
<1>5. CASE \/ \E t \in Tasks : Wake(t)
           \/ CallSchedule \/ BlockCurrent \/ ExitCurrent \/ EnqueuePrev \/ DequeueNext
  <2>1. se' = se
    BY <1>5 DEF Wake, CallSchedule, BlockCurrent, ExitCurrent, BeginSchedule, EnqueuePrev, DequeueNext
  <2> QED
    BY <2>1 DEF RROnly
<1> QED
  BY <1>2, <1>3, <1>4, <1>5 DEF SchedNext, FinishSchedule

(* Every step is one of RunQueue or shows nothing. *)
LEMMA FifoStep ==
    ASSUME SchedInv, [SchedNext]_schedVars, RROnly'
    PROVE  [Fifo!RQNext]_FifoCpu
<1>1. CASE UNCHANGED schedVars
  BY <1>1 DEF schedVars, queues, FifoCpu
<1>2. CASE SchedNext
  <2>1. RROnly
    BY <1>2, RRBefore
  <2>2. CASE \E t \in Tasks, policy \in Policies, n \in Priorities : CreateTask(t, policy, n)
    <3>1. \E t \in Tasks : Fifo!RQCreate(t)
      BY <2>2, FifoCreate
    <3> QED
      BY <3>1 DEF Fifo!RQNext, Fifo!RQStep
  <2>3. CASE \E t \in Tasks : Wake(t)
    <3>1. \E t \in Tasks : Fifo!RQWake(t)
      BY <2>1, <2>3, FifoWake
    <3> QED
      BY <3>1 DEF Fifo!RQNext, Fifo!RQStep
  <2>4. CASE sched_timer_tick_handler
    BY <2>4 DEF sched_timer_tick_handler, queues, FifoCpu
  <2>5. CASE CallSchedule
    <3>1. Fifo!RQYield \/ FifoCpu' = FifoCpu
      BY <2>1, <2>5, FifoCall
    <3> QED
      BY <3>1 DEF Fifo!RQNext, Fifo!RQStep
  <2>6. CASE BlockCurrent
    <3>1. Fifo!RQBlock
      BY <2>1, <2>6, FifoBlock
    <3> QED
      BY <3>1 DEF Fifo!RQNext, Fifo!RQStep
  <2>7. CASE ExitCurrent
    <3>1. Fifo!RQExit
      BY <2>1, <2>7, FifoExit
    <3> QED
      BY <3>1 DEF Fifo!RQNext, Fifo!RQStep
  <2>8. CASE FinishSchedule
    <3>1. FifoCpu' = FifoCpu
      BY <2>1, <2>8, FifoEnqueuePrev, FifoDequeueNext, FifoSwitch DEF FinishSchedule
    <3> QED
      BY <3>1
  <2> QED
    BY <1>2, <2>2, <2>3, <2>4, <2>5, <2>6, <2>7, <2>8 DEF SchedNext
<1> QED
  BY <1>1, <1>2

(* The initial states are RunQueue's. *)
LEMMA FifoInit ==
    ASSUME SchedInit
    PROVE  Fifo!RQInit
<1>1. FifoCpu = Seen(current, state, rr_queue, "run", NULL) /\ rr_queue \in Seq(Tasks) /\ rr_queue = <<>>
  BY SMTT(60), FifoSeen DEF SchedInit
<1>2. FifoCpu = [cur |-> current, st |-> state, q |-> rr_queue]
  BY <1>1, SeenIdle
<1> QED
  BY <1>2 DEF SchedInit, Fifo!RQInit

(* While there are round-robin tasks only, schedule() with its slices, its *)
(* four separate steps and the ticks between them implements the FIFO of   *)
(* RunQueue: what the sleeping locks and the life cycle of the tasks are   *)
(* modelled on is what the code does.                                      *)
THEOREM SchedulerIsFifo == SchedSpec => SchedulerImplementsRunQueue
<1>1. SchedInit => SchedInv
  BY SchedInvInit
<1>2. SchedInv /\ [SchedNext]_schedVars => SchedInv'
  BY SchedInvNext
<1>3. SchedInit => Fifo!RQInit
  BY FifoInit
<1>4. SchedInv /\ [SchedNext]_schedVars => (RROnly' => [Fifo!RQNext]_FifoCpu)
  BY FifoStep
<1> QED
  BY <1>1, <1>2, <1>3, <1>4, PTL DEF SchedSpec, SchedulerImplementsRunQueue
=============================================================================
