----------------------------- MODULE LockProofs -----------------------------
(***************************************************************************)
(* The sleeping locks for any set of tasks: the mutex excludes, whether or *)
(* not a task may find nothing else to run when it sleeps; and the wait    *)
(* queue, the mutex with its condition variable and the semaphore, used    *)
(* together, lose no waiter.                                               *)
(***************************************************************************)
EXTENDS Locks, RunQueueProofs

\* Leaves go to Zenon unless they name another prover.
USE ZenonT(60)

-----------------------------------------------------------------------------
(* The mutex.                                                              *)

(* m is a record with a lock word and an owner.  (Of wait_list nothing is  *)
(* needed.)                                                                *)
IsMutex(r) ==
    /\ r = [locked |-> r.locked, owner |-> r.owner, wait_list |-> r.wait_list]
    /\ r.locked \in BOOLEAN /\ r.owner \in Tasks \cup {NULL}

(* The record m and the set cs are all the argument needs; the CPU and the *)
(* wait queue play no part, because no step that takes or gives the mutex  *)
(* is interrupted.                                                         *)
ExclusionInv ==
    /\ IsMutex(m)
    /\ cs \subseteq Tasks
    /\ MutualExclusion

(* Whoever takes a free mutex is the only task in its critical section:    *)
(* the fast path of mutex_lock, its slow path and mutex_trylock.           *)
LEMMA AcquireExcludes ==
    ASSUME ExclusionInv, NEW t \in Tasks, ~m.locked,
           NEW w,
           m' = [locked |-> TRUE, owner |-> t, wait_list |-> w],
           cs' = cs \cup {t}
    PROVE  ExclusionInv'
<1>1. m.owner = NULL /\ cs = {}
  BY TasksAssumption DEF ExclusionInv, MutualExclusion
<1>2. m'.locked = TRUE /\ m'.owner = t /\ m'.wait_list = w
  OBVIOUS
<1>3. IsMutex(m')
  BY <1>2 DEF IsMutex
<1>4. cs' = {u \in Tasks : m'.owner = u}
  BY <1>1, <1>2
<1>5. m'.locked <=> m'.owner # NULL
  BY <1>2, TasksAssumption
<1> QED
  BY <1>3, <1>4, <1>5 DEF ExclusionInv, MutualExclusion

(* mutex_unlock by the owner empties the critical section, waking a waiter *)
(* or not.                                                                 *)
LEMMA ReleaseEmpties ==
    ASSUME ExclusionInv, NEW t \in Tasks, m.owner = t,
           m' = Released(cpu, m).m, cs' = cs \ {t}
    PROVE  ExclusionInv'
<1>1. cs = {t}
  BY DEF ExclusionInv, MutualExclusion
<1>2. \E w : m' = [locked |-> FALSE, owner |-> NULL, wait_list |-> w]
  <2>1. m = [locked |-> m.locked, owner |-> m.owner, wait_list |-> m.wait_list]
    BY DEF ExclusionInv, IsMutex
  <2>2. CASE m.wait_list = <<>>
    <3>1. m' = [m EXCEPT !.locked = FALSE, !.owner = NULL]
      BY <2>2 DEF Released
    <3> QED
      BY <2>1, <3>1
  <2>3. CASE m.wait_list # <<>>
    <3>1. m' = [[m EXCEPT !.locked = FALSE, !.owner = NULL] EXCEPT !.wait_list = Tail(@)]
      BY <2>3 DEF Released
    <3>2. m' = [locked |-> FALSE, owner |-> NULL, wait_list |-> Tail(m.wait_list)]
      BY <2>1, <3>1
    <3> QED
      BY <3>2
  <2> QED
    BY <2>2, <2>3
<1>3. IsMutex(m') /\ m'.owner = NULL /\ ~m'.locked
  BY SMTT(60), <1>2 DEF IsMutex
<1>4. cs' = {} /\ {u \in Tasks : m'.owner = u} = {}
  BY <1>1, <1>3, TasksAssumption
<1> QED
  BY <1>3, <1>4 DEF ExclusionInv, MutualExclusion

(* Queueing a waiter leaves owner, lock word and critical section alone. *)
LEMMA QueueingKeeps ==
    ASSUME ExclusionInv, NEW t \in Tasks,
           m' = [m EXCEPT !.wait_list = Append(@, t)], cs' = cs
    PROVE  ExclusionInv'
<1>1. IsMutex(m') /\ m'.owner = m.owner /\ m'.locked = m.locked
  BY DEF ExclusionInv, IsMutex
<1> QED
  BY <1>1 DEF ExclusionInv, MutualExclusion

(* At every moment at most one task is between mutex_lock (or a successful *)
(* mutex_trylock) and mutex_unlock, and it is the recorded owner.          *)
THEOREM MutexExcludes == MutexSpec => []MutualExclusion
<1>1. MutexInit => ExclusionInv
  <2> SUFFICES ASSUME MutexInit PROVE ExclusionInv
    OBVIOUS
  <2>1. m = [locked |-> FALSE, owner |-> NULL, wait_list |-> <<>>] /\ cs = {}
    BY DEF MutexInit, mutex_init
  <2>2. {t \in Tasks : m.owner = t} = {}
    BY <2>1, TasksAssumption
  <2> QED
    BY <2>1, <2>2 DEF ExclusionInv, MutualExclusion, IsMutex
<1>2. ExclusionInv /\ [MutexNext]_mutexVars => ExclusionInv'
  <2> SUFFICES ASSUME ExclusionInv, [MutexNext]_mutexVars PROVE ExclusionInv'
    OBVIOUS
  <2>0. IsMutex(m)
    BY DEF ExclusionInv
  <2>1. ASSUME NEW t \in Tasks, mutex_lock(t) PROVE ExclusionInv'
    <3>1. CASE ~m.locked
      <4>1. m' = [locked |-> TRUE, owner |-> t, wait_list |-> m.wait_list]
        BY <2>0, <2>1, <3>1 DEF mutex_lock, Acquired, IsMutex
      <4> QED
        BY <2>0, <2>1, <3>1, <4>1, AcquireExcludes DEF mutex_lock
    <3>2. CASE m.locked
      BY <2>1, <3>2, QueueingKeeps DEF mutex_lock
    <3> QED
      BY <3>1, <3>2
  <2>2. ASSUME NEW t \in Tasks, MutexResume(t) PROVE ExclusionInv'
    <3>1. CASE StillHeld
      BY <2>2, <3>1 DEF MutexResume, ExclusionInv, MutualExclusion
    <3>2. CASE ~StillHeld
      <4>1. m' = [locked |-> TRUE, owner |-> t, wait_list |-> Delete(m.wait_list, t)]
        BY <2>0, <2>2, <3>2 DEF MutexResume, LockAgain, Acquired, IsMutex
      <4> QED
        BY <2>2, <3>2, <4>1, AcquireExcludes DEF MutexResume, StillHeld
    <3> QED
      BY <3>1, <3>2
  <2>3. ASSUME NEW t \in Tasks, mutex_trylock(t) PROVE ExclusionInv'
    <3>1. m' = [locked |-> TRUE, owner |-> t, wait_list |-> m.wait_list]
      BY <2>0, <2>3 DEF mutex_trylock, Acquired, IsMutex
    <3> QED
      BY <2>0, <2>3, <3>1, AcquireExcludes DEF mutex_trylock
  <2>4. ASSUME NEW t \in Tasks, mutex_unlock(t) PROVE ExclusionInv'
    BY <2>4, ReleaseEmpties DEF mutex_unlock
  <2>5. ASSUME NEW t \in Tasks, Elsewhere(t) PROVE ExclusionInv'
    BY <2>5 DEF Elsewhere, ExclusionInv, MutualExclusion
  <2>6. CASE UNCHANGED mutexVars
    BY <2>6 DEF mutexVars, ExclusionInv, MutualExclusion
  <2> QED
    BY <2>1, <2>2, <2>3, <2>4, <2>5, <2>6 DEF MutexNext
<1>3. ExclusionInv => MutualExclusion
  BY DEF ExclusionInv
<1> QED
  BY <1>1, <1>2, <1>3, PTL DEF MutexSpec

-----------------------------------------------------------------------------
(* The sleeping locks together (LocksNext of Locks): a wait queue, a     *)
(* mutex with a condition variable and a semaphore, used by the same       *)
(* tasks.  A task may go to sleep only while another is ready.             *)

Places == {"run", "sleep", "lock", "cond", "condlock", "sem", "spin"}

(* An entry of a wait queue. *)
Entries == [task : Tasks, exclusive : BOOLEAN]

(* No entry is listed twice, and no task has two. *)
OneEach(w) == Once(w) /\ \A e, f \in Members(w) : e.task = f.task => e = f

(* The current task runs; each list holds tasks asleep in the call that    *)
(* put them there, once; and whoever sleeps on the wait queue is on it.    *)
CpuPart == CpuSound(cpu) /\ cpu.st[cpu.cur] = "RUNNING" /\ at \in [Tasks -> Places]

(* The wait queue lists exactly the tasks asleep on it, once each. *)
WqPart ==
    /\ wq \in Seq(Entries) /\ OneEach(wq)
    /\ \A e \in Members(wq) : at[e.task] = "sleep" /\ cpu.st[e.task] = "BLOCKED"
    /\ \A t \in Tasks : at[t] = "sleep" /\ cpu.st[t] = "BLOCKED"
                            => \E e \in Members(wq) : e.task = t

(* The mutex lists tasks that are asleep in mutex_lock. *)
MutexPart ==
    /\ IsMutex(m) /\ m.wait_list \in Seq(Tasks) /\ Once(m.wait_list)
    /\ \A t \in Members(m.wait_list) : InLock(t) /\ cpu.st[t] = "BLOCKED"

(* The semaphore lists tasks that are asleep in sem_wait. *)
SemPart ==
    /\ wait_list \in Seq(Tasks) /\ Once(wait_list)
    /\ \A t \in Members(wait_list) : at[t] = "sem" /\ cpu.st[t] = "BLOCKED"

(* The condition variable lists tasks that are asleep in condvar_wait,     *)
(* each on its private queue.                                              *)
CvPart ==
    /\ waiters \in Seq(Tasks) /\ Once(waiters) /\ Members(waiters) \subseteq private
    /\ private \subseteq Tasks
    /\ \A t \in private : at[t] = "cond" /\ cpu.st[t] = "BLOCKED"

(* The lists of the four locks over one run queue. *)
LocksInv == CpuPart /\ WqPart /\ MutexPart /\ SemPart /\ CvPart

(* What a step of the current task t that wakes the tasks W does to the    *)
(* tasks: the others stay where they are, and only those of W leave their  *)
(* sleep; a task that was ready or has been woken is ready or has the CPU. *)
Moves(t, W) ==
    /\ CpuPart'
    /\ \A u \in Tasks : u # t => at'[u] = at[u]
    /\ \A u \in Tasks : u # t /\ u \notin W => (cpu'.st[u] = "BLOCKED" <=> cpu.st[u] = "BLOCKED")
    /\ \A u \in W : cpu'.st[u] # "BLOCKED"
    /\ \A u \in Tasks : u # t /\ (cpu.st[u] = "READY" \/ u \in W)
                            => cpu'.st[u] = "READY" \/ cpu'.cur = u

(* A task that blocks while another is ready moves itself only. *)
LEMMA MovesBlock ==
    ASSUME CpuPart, NEW t \in Tasks, cpu.cur = t, cpu.q # <<>>, cpu' = BlockCurrent(cpu),
           at' \in [Tasks -> Places], \A u \in Tasks : u # t => at'[u] = at[u]
    PROVE  Moves(t, {}) /\ cpu'.st[t] = "BLOCKED"
<1> DEFINE h == Head(cpu.q)
<1>1. CpuSound(cpu) /\ cpu.st[cpu.cur] = "RUNNING" /\ cpu.st \in [Tasks -> TaskStates]
  BY DEF CpuPart, CpuSound
<1>2. /\ CpuSound(cpu') /\ cpu'.cur = h /\ h \in Tasks /\ h # t /\ cpu.st[h] = "READY"
      /\ cpu'.st = [[cpu.st EXCEPT ![t] = "BLOCKED"] EXCEPT ![h] = "RUNNING"]
  BY <1>1, BlockSound
<1> HIDE DEF h
<1>3. \A u \in Tasks : cpu'.st[u] = IF u = h THEN "RUNNING" ELSE IF u = t THEN "BLOCKED" ELSE cpu.st[u]
  BY <1>1, <1>2
<1> QED
  BY <1>2, <1>3 DEF Moves, CpuPart

(* A step that leaves the run queue alone. *)
LEMMA MovesStay ==
    ASSUME CpuPart, NEW t \in Tasks, cpu' = cpu,
           at' \in [Tasks -> Places], \A u \in Tasks : u # t => at'[u] = at[u]
    PROVE  Moves(t, {})
BY DEF Moves, CpuPart

(* A step that wakes one sleeper. *)
LEMMA MovesWake ==
    ASSUME CpuPart, NEW t \in Tasks, NEW h \in Tasks, cpu.st[h] = "BLOCKED",
           cpu' = MakeReady(cpu, h), at' = at
    PROVE  Moves(t, {h})
<1>1. CpuSound(cpu) /\ cpu.st \in [Tasks -> TaskStates] /\ h # cpu.cur
  BY DEF CpuPart, CpuSound
<1>2. CpuSound(cpu') /\ cpu'.cur = cpu.cur /\ cpu'.st = [cpu.st EXCEPT ![h] = "READY"]
  BY <1>1, WakeSound
<1>3. \A u \in Tasks : cpu'.st[u] = IF u = h THEN "READY" ELSE cpu.st[u]
  BY <1>1, <1>2
<1>4. cpu.cur \in Tasks
  BY <1>1 DEF CpuSound
<1> QED
  BY <1>1, <1>2, <1>3, <1>4 DEF Moves, CpuPart

(* A step that wakes a list of sleepers. *)
LEMMA MovesWakeAll ==
    ASSUME CpuPart, NEW t \in Tasks, NEW s \in Seq(Tasks), Once(s),
           \A u \in Members(s) : cpu.st[u] = "BLOCKED",
           cpu' = MakeAllReady(cpu, s), at' = at
    PROVE  Moves(t, Members(s))
<1>1. CpuSound(cpu) /\ cpu.st \in [Tasks -> TaskStates] /\ cpu.cur \in Tasks /\ cpu.cur \notin Members(s)
  BY DEF CpuPart, CpuSound
<1>2. /\ CpuSound(cpu') /\ cpu'.cur = cpu.cur
      /\ cpu'.st = [u \in Tasks |-> IF u \in Members(s) THEN "READY" ELSE cpu.st[u]]
  BY <1>1, WakeAllSound
<1>3. \A u \in Tasks : cpu'.st[u] = IF u \in Members(s) THEN "READY" ELSE cpu.st[u]
  BY <1>2
<1>4. Members(s) \subseteq Tasks
  BY SMTT(60) DEF Members
<1> QED
  BY <1>1, <1>2, <1>3, <1>4 DEF Moves, CpuPart

(* It wakes h, and then blocks. *)
LEMMA MovesWakeBlock ==
    ASSUME CpuPart, NEW t \in Tasks, cpu.cur = t, NEW h \in Tasks, cpu.st[h] = "BLOCKED",
           cpu' = BlockCurrent(MakeReady(cpu, h)),
           at' \in [Tasks -> Places], \A u \in Tasks : u # t => at'[u] = at[u]
    PROVE  Moves(t, {h}) /\ cpu'.st[t] = "BLOCKED"
<1> DEFINE c == MakeReady(cpu, h)
           n == Head(c.q)
<1>1. CpuSound(cpu) /\ cpu.st \in [Tasks -> TaskStates] /\ cpu.st[t] = "RUNNING" /\ h # t
  BY DEF CpuPart, CpuSound
<1>2. CpuSound(c) /\ c.cur = t /\ c.st = [cpu.st EXCEPT ![h] = "READY"] /\ c.q # <<>>
  BY <1>1, WakeSound
<1> HIDE DEF c
<1>3. \A u \in Tasks : c.st[u] = IF u = h THEN "READY" ELSE cpu.st[u]
  BY <1>1, <1>2
<1>4. c.st \in [Tasks -> TaskStates] /\ c.st[c.cur] = "RUNNING"
  BY <1>1, <1>2, <1>3 DEF CpuSound
<1>5. /\ CpuSound(cpu') /\ cpu'.cur = n /\ n \in Tasks /\ n # t /\ c.st[n] = "READY"
      /\ cpu'.st = [[c.st EXCEPT ![t] = "BLOCKED"] EXCEPT ![n] = "RUNNING"]
  BY <1>2, <1>4, BlockSound DEF c
<1> HIDE DEF n
<1>6. \A u \in Tasks : cpu'.st[u] = IF u = n THEN "RUNNING" ELSE IF u = t THEN "BLOCKED" ELSE c.st[u]
  BY <1>4, <1>5
<1> QED
  BY SMTT(60), <1>1, <1>3, <1>5, <1>6 DEF Moves, CpuPart

(* An entry names a task. *)
LEMMA EntryTask ==
    ASSUME NEW w \in Seq(Entries), NEW e \in Members(w)
    PROVE  e.task \in Tasks
<1>1. e \in Entries
  BY SMTT(60) DEF Members
<1> QED
  BY <1>1 DEF Entries

(* A list stays sound when a step neither touches it nor wakes a task that *)
(* sleeps in the call it belongs to.  (The task that acts is running, so   *)
(* it is on no list.)                                                      *)
LEMMA WqQuiet ==
    ASSUME LocksInv, NEW t \in Tasks, cpu.st[t] # "BLOCKED", NEW W, Moves(t, W),
           \A u \in W : at[u] # "sleep", at'[t] # "sleep", wq' = wq
    PROVE  WqPart'
<1>1. WqPart /\ \A e \in Members(wq) : e.task \in Tasks
  <2>1. WqPart /\ wq \in Seq(Entries)
    BY DEF LocksInv, WqPart
  <2> QED
    BY <2>1, EntryTask
<1>2. ASSUME NEW e \in Members(wq) PROVE at'[e.task] = "sleep" /\ cpu'.st[e.task] = "BLOCKED"
  BY SMTT(60), <1>1, <1>2 DEF WqPart, Moves
<1>3. ASSUME NEW u \in Tasks, at'[u] = "sleep", cpu'.st[u] = "BLOCKED"
      PROVE  \E e \in Members(wq) : e.task = u
  BY <1>1, <1>3 DEF WqPart, Moves
<1> QED
  BY <1>1, <1>2, <1>3 DEF WqPart

(* A step that wakes nobody in mutex_lock keeps the mutex's list. *)
LEMMA MutexQuiet ==
    ASSUME LocksInv, NEW t \in Tasks, cpu.st[t] # "BLOCKED", NEW W, Moves(t, W),
           \A u \in W : ~InLock(u), IsMutex(m'), m'.wait_list = m.wait_list
    PROVE  MutexPart'
<1>1. Members(m.wait_list) \subseteq Tasks
  BY SMTT(60) DEF LocksInv, MutexPart, Members
<1> QED
  BY <1>1 DEF LocksInv, MutexPart, Moves, InLock

(* A step that wakes nobody in sem_wait keeps the semaphore's list. *)
LEMMA SemQuiet ==
    ASSUME LocksInv, NEW t \in Tasks, cpu.st[t] # "BLOCKED", NEW W, Moves(t, W),
           \A u \in W : at[u] # "sem", wait_list' = wait_list
    PROVE  SemPart'
<1>1. Members(wait_list) \subseteq Tasks
  BY SMTT(60) DEF LocksInv, SemPart, Members
<1> QED
  BY <1>1 DEF LocksInv, SemPart, Moves

(* A step that wakes nobody in condvar_wait keeps the variable's list. *)
LEMMA CvQuiet ==
    ASSUME LocksInv, NEW t \in Tasks, cpu.st[t] # "BLOCKED", NEW W, Moves(t, W),
           \A u \in W : at[u] # "cond", waiters' = waiters, private' = private
    PROVE  CvPart'
BY DEF LocksInv, CvPart, Moves

(* The acting task is on no list: unlinking it changes nothing.            *)
LEMMA UnlinkNothing ==
    ASSUME NEW s \in Seq(Tasks), NEW t \in Tasks, t \notin Members(s), Once(s)
    PROVE  /\ Keep(s, Tasks \ {t}) \in Seq(Tasks) /\ Once(Keep(s, Tasks \ {t}))
           /\ Members(Keep(s, Tasks \ {t})) = Members(s)
<1>1. Members(s) \subseteq Tasks
  BY SMTT(60) DEF Members
<1>2. /\ Keep(s, Tasks \ {t}) \in Seq(Tasks) /\ Once(Keep(s, Tasks \ {t}))
      /\ Members(Keep(s, Tasks \ {t})) = Members(s) \cap (Tasks \ {t})
  BY KeepFacts
<1> QED
  BY <1>1, <1>2

-----------------------------------------------------------------------------
(* The wait queue.                                                         *)

(* The first node of a list, if it has one. *)
LEMMA PrefixFacts ==
    ASSUME NEW T, NEW s \in Seq(T), NEW n \in 0 .. Len(s)
    PROVE  /\ SubSeq(s, 1, n) \in Seq(T)
           /\ Members(SubSeq(s, 1, n)) \subseteq Members(s)
           /\ Once(s) => Once(SubSeq(s, 1, n))
           /\ n = Len(s) => Members(SubSeq(s, 1, n)) = Members(s)
<1> DEFINE p == SubSeq(s, 1, n)
<1>1. /\ p \in Seq(T) /\ DOMAIN p = 1 .. n /\ DOMAIN s = 1 .. Len(s) /\ Len(s) \in Nat
      /\ \A i \in 1 .. n : p[i] = s[i]
  BY SMTT(60)
<1> HIDE DEF p
<1>2. Members(p) \subseteq Members(s)
  BY SMTT(60), <1>1 DEF Members
<1>3. Once(s) => Once(p)
  BY SMTT(60), <1>1 DEF Once
<1>4. n = Len(s) => Members(p) = Members(s)
  BY <1>1 DEF Members
<1> QED
  BY <1>1, <1>2, <1>3, <1>4 DEF p

(* The first of a list, if there is one, is a list within it. *)
LEMMA FirstFacts ==
    ASSUME NEW T, NEW s \in Seq(T), Once(s)
    PROVE  FirstOf(s) \in Seq(T) /\ Once(FirstOf(s)) /\ Members(FirstOf(s)) \subseteq Members(s)
<1> DEFINE n == IF s = <<>> THEN 0 ELSE 1
<1>1. n \in 0 .. Len(s)
  BY SMTT(60)
<1>2. FirstOf(s) = SubSeq(s, 1, n)
  BY DEF FirstOf
<1> HIDE DEF n
<1> QED
  BY SMTT(60), <1>1, <1>2, PrefixFacts

(* What a wake-up takes from the queue was on it, once. *)
LEMMA WokenFacts ==
    ASSUME NEW q \in Seq(Entries), Once(q), NEW nr
    PROVE  Woken(q, nr) \in Seq(Entries) /\ Once(Woken(q, nr)) /\ Members(Woken(q, nr)) \subseteq Members(q)
<1> DEFINE X == {e \in Members(q) : e.exclusive}
           N == {e \in Members(q) : ~e.exclusive}
           x == FirstOf(Keep(q, X))
           n == Keep(q, N)
<1>1. /\ Keep(q, X) \in Seq(Entries) /\ Once(Keep(q, X))
      /\ Members(Keep(q, X)) = Members(q) \cap X
  BY KeepFacts
<1>2. n \in Seq(Entries) /\ Once(n) /\ Members(n) = Members(q) \cap N
  BY KeepFacts
<1>3. x \in Seq(Entries) /\ Once(x) /\ Members(x) \subseteq X
  <2>1. x \in Seq(Entries) /\ Once(x) /\ Members(x) \subseteq Members(Keep(q, X))
    <3> HIDE DEF X
    <3> QED
      BY <1>1, FirstFacts
  <2> QED
    BY <1>1, <2>1
<1>4. FirstOf(n) \in Seq(Entries) /\ Once(FirstOf(n)) /\ Members(FirstOf(n)) \subseteq Members(n)
  <2> HIDE DEF n
  <2> QED
    BY <1>2, FirstFacts
<1>5. X \cap N = {} /\ X \subseteq Members(q) /\ N \subseteq Members(q)
  OBVIOUS
<1>6. Woken(q, nr) = IF nr = 0 THEN x \o n ELSE IF x # <<>> THEN x ELSE FirstOf(n)
  BY DEF Woken
<1> HIDE DEF X, N, x, n
<1>7. x \o n \in Seq(Entries) /\ Once(x \o n) /\ Members(x \o n) \subseteq Members(q)
  BY SMTT(60), <1>2, <1>3, <1>5, ConcatFacts
<1> QED
  BY <1>2, <1>3, <1>4, <1>5, <1>6, <1>7

(* The tasks of a wait queue's entries. *)
LEMMA TasksOfFacts ==
    ASSUME NEW w \in Seq(Entries), OneEach(w)
    PROVE  /\ TasksOf(w) \in Seq(Tasks) /\ Once(TasksOf(w))
           /\ Members(TasksOf(w)) = {e.task : e \in Members(w)}
<1> DEFINE s == TasksOf(w)
<1>1. DOMAIN w = 1 .. Len(w) /\ Len(w) \in Nat /\ \A i \in DOMAIN w : w[i] \in Entries
  BY SMTT(60)
<1>2. DOMAIN s = DOMAIN w /\ \A i \in DOMAIN w : s[i] = w[i].task /\ s[i] \in Tasks
  BY <1>1 DEF TasksOf, Entries
<1>3. s \in Seq(Tasks)
  <2>1. s \in [1 .. Len(w) -> Tasks]
    BY <1>1, <1>2 DEF TasksOf
  <2> QED
    BY SMTT(60), <1>1, <2>1
<1> HIDE DEF s
<1>4. Once(s)
  BY SMTT(60), <1>2 DEF Once, OneEach, Members
<1>5. Members(s) = {e.task : e \in Members(w)}
  BY <1>2 DEF Members
<1> QED
  BY <1>3, <1>4, <1>5 DEF s

(* sleep_on queues the task and blocks it. *)
LEMMA SleepKeeps ==
    ASSUME LocksInv, SomeoneReady, NEW t \in Tasks, NEW exclusive \in BOOLEAN, sleep_on(t, exclusive),
           UNCHANGED <<m, waiters, private, wait_list>>
    PROVE  LocksInv' /\ Moves(t, {})
<1> DEFINE x == [task |-> t, exclusive |-> exclusive]
<1>1. /\ cpu.cur = t /\ cpu.q # <<>> /\ cpu' = BlockCurrent(cpu) /\ wq' = Append(wq, x)
      /\ at' = [at EXCEPT ![t] = "sleep"] /\ at \in [Tasks -> Places] /\ CpuPart
  BY DEF sleep_on, Running, CanSleep, add_to_waitqueue_and_block, LocksInv, CpuPart
<1>2. at' \in [Tasks -> Places] /\ at'[t] = "sleep" /\ \A u \in Tasks : u # t => at'[u] = at[u]
  BY <1>1 DEF Places
<1>3. Moves(t, {}) /\ cpu'.st[t] = "BLOCKED" /\ cpu.st[t] = "RUNNING"
  BY <1>1, <1>2, MovesBlock DEF CpuPart
<1>4. x \in Entries /\ x.task = t
  BY DEF Entries
<1> HIDE DEF x
<1>5. wq \in Seq(Entries) /\ OneEach(wq) /\ WqPart
  BY DEF LocksInv, WqPart
<1>6. \A e \in Members(wq) : e.task \in Tasks /\ e.task # t
  BY <1>3, <1>5, EntryTask DEF WqPart
<1>7. wq' \in Seq(Entries) /\ Members(wq') = Members(wq) \cup {x} /\ Once(wq')
  <2>1. x \notin Members(wq)
    BY <1>4, <1>6
  <2> QED
    BY SMTT(60), <1>1, <1>4, <1>5, <2>1, AppendFacts DEF OneEach
<1>8. WqPart'
  <2>1. OneEach(wq')
    BY <1>4, <1>5, <1>6, <1>7 DEF OneEach
  <2>2. ASSUME NEW e \in Members(wq) \cup {x}
        PROVE  at'[e.task] = "sleep" /\ cpu'.st[e.task] = "BLOCKED"
    BY SMTT(60), <1>2, <1>3, <1>4, <1>5, <1>6, <2>2 DEF WqPart, Moves
  <2>3. ASSUME NEW u \in Tasks, at'[u] = "sleep", cpu'.st[u] = "BLOCKED"
        PROVE  \E e \in Members(wq) \cup {x} : e.task = u
    BY SMTT(60), <1>2, <1>3, <1>4, <1>5, <2>3 DEF WqPart, Moves
  <2> QED
    BY <1>7, <2>1, <2>2, <2>3 DEF WqPart
<1>9. MutexPart'
  BY SMTT(60), <1>3, MutexQuiet DEF LocksInv, MutexPart
<1>10. SemPart' /\ CvPart'
  BY SMTT(60), <1>3, SemQuiet, CvQuiet
<1> QED
  BY <1>3, <1>8, <1>9, <1>10 DEF LocksInv, Moves

(* sleep_on returns to a task that was woken. *)
LEMMA ReturnKeeps ==
    ASSUME LocksInv, NEW t \in Tasks, SleepReturns(t), UNCHANGED <<m, waiters, private, wait_list>>
    PROVE  LocksInv' /\ Moves(t, {})
<1>1. /\ cpu.cur = t /\ cpu' = cpu /\ wq' = wq /\ at' = [at EXCEPT ![t] = "run"]
      /\ at \in [Tasks -> Places] /\ CpuPart /\ cpu.st[t] = "RUNNING"
  BY DEF SleepReturns, LocksInv, CpuPart
<1>2. at' \in [Tasks -> Places] /\ at'[t] = "run" /\ \A u \in Tasks : u # t => at'[u] = at[u]
  BY <1>1 DEF Places
<1>3. Moves(t, {})
  BY <1>1, <1>2, MovesStay
<1>4. WqPart'
  BY SMTT(60), <1>1, <1>2, <1>3, WqQuiet
<1>5. MutexPart'
  BY SMTT(60), <1>1, <1>3, MutexQuiet DEF LocksInv, MutexPart
<1>6. SemPart' /\ CvPart'
  BY SMTT(60), <1>1, <1>3, SemQuiet, CvQuiet
<1> QED
  BY <1>3, <1>4, <1>5, <1>6 DEF LocksInv, Moves

(* The three wake-ups take from the queue the tasks they wake. *)
LEMMA WakeKeeps ==
    ASSUME LocksInv, NEW t \in Tasks, Running(t), NEW nr, __wake_up_common(nr), at' = at,
           UNCHANGED <<m, waiters, private, wait_list>>
    PROVE  LocksInv' /\ \E W : Moves(t, W)
<1> DEFINE w == Woken(wq, nr)
           W == Members(TasksOf(w))
<1>1. wq \in Seq(Entries) /\ OneEach(wq) /\ Once(wq) /\ WqPart /\ CpuPart
  BY DEF LocksInv, WqPart, OneEach
<1>2. w \in Seq(Entries) /\ Once(w) /\ Members(w) \subseteq Members(wq)
  BY <1>1, WokenFacts
<1>3. cpu' = MakeAllReady(cpu, TasksOf(w)) /\ wq' = Keep(wq, Members(wq) \ Members(w))
  BY DEF __wake_up_common
<1> HIDE DEF w
<1>4. OneEach(w)
  BY <1>1, <1>2 DEF OneEach
<1>5. TasksOf(w) \in Seq(Tasks) /\ Once(TasksOf(w)) /\ W = {e.task : e \in Members(w)}
  BY <1>2, <1>4, TasksOfFacts
<1>6. \A u \in W : at[u] = "sleep" /\ cpu.st[u] = "BLOCKED"
  BY SMTT(60), <1>1, <1>2, <1>5 DEF WqPart
<1>7. Moves(t, W)
  BY <1>1, <1>3, <1>5, <1>6, MovesWakeAll
<1>8. cpu.st[t] # "BLOCKED"
  BY <1>1 DEF CpuPart, Running
<1>9. /\ wq' \in Seq(Entries) /\ Once(wq')
      /\ Members(wq') = Members(wq) \cap (Members(wq) \ Members(w))
  BY <1>1, <1>3, KeepFacts
<1> HIDE DEF W
<1>10. WqPart'
  <2>1. OneEach(wq')
    BY <1>1, <1>9 DEF OneEach
  <2>2. ASSUME NEW e \in Members(wq') PROVE at'[e.task] = "sleep" /\ cpu'.st[e.task] = "BLOCKED"
    <3>1. e \in Members(wq) /\ e \notin Members(w) /\ e.task \in Tasks
      BY <1>1, <1>9, <2>2, EntryTask
    <3>2. e.task \notin W
      BY <1>1, <1>2, <1>5, <3>1 DEF OneEach
    <3>3. at[e.task] = "sleep" /\ cpu.st[e.task] = "BLOCKED" /\ e.task # t
      BY <1>1, <1>8, <3>1 DEF WqPart
    <3> QED
      BY <1>7, <3>1, <3>2, <3>3 DEF Moves
  <2>3. ASSUME NEW u \in Tasks, at'[u] = "sleep", cpu'.st[u] = "BLOCKED"
        PROVE  \E e \in Members(wq') : e.task = u
    <3>1. u # t /\ u \notin W /\ cpu.st[u] = "BLOCKED"
      BY <1>7, <2>3 DEF Moves, Running
    <3>2. PICK e \in Members(wq) : e.task = u
      BY <1>1, <2>3, <3>1 DEF WqPart
    <3> QED
      BY <1>5, <1>9, <3>1, <3>2
  <2> QED
    BY <1>9, <2>1, <2>2, <2>3 DEF WqPart
<1>11. MutexPart'
  BY <1>6, <1>7, <1>8, MutexQuiet DEF LocksInv, MutexPart, InLock
<1>12. SemPart' /\ CvPart'
  BY <1>6, <1>7, <1>8, SemQuiet, CvQuiet
<1> QED
  BY <1>7, <1>10, <1>11, <1>12 DEF LocksInv, Moves

-----------------------------------------------------------------------------
(* The mutex and the condition variable.                                   *)

(* The fields of the mutex, and what the steps make of them. *)
LEMMA SetLocked ==
    ASSUME NEW r, NEW a, NEW b, NEW l, r = [locked |-> a, owner |-> b, wait_list |-> l], NEW x
    PROVE  [r EXCEPT !.locked = x] = [locked |-> x, owner |-> b, wait_list |-> l]
BY SMTT(60)

(* The owner of a mutex is set. *)
LEMMA SetOwner ==
    ASSUME NEW a, NEW b, NEW l, NEW x
    PROVE  [[locked |-> a, owner |-> b, wait_list |-> l] EXCEPT !.owner = x]
              = [locked |-> a, owner |-> x, wait_list |-> l]
BY SMTT(60)

(* The list of a mutex is set. *)
LEMMA SetList ==
    ASSUME NEW r, NEW a, NEW b, NEW l, r = [locked |-> a, owner |-> b, wait_list |-> l], NEW x
    PROVE  [r EXCEPT !.wait_list = x] = [locked |-> a, owner |-> b, wait_list |-> x]
BY SMTT(60)

(* The lock word and the owner of a mutex are set. *)
LEMMA SetHolder ==
    ASSUME NEW r, IsMutex(r), NEW x, NEW y
    PROVE  [r EXCEPT !.locked = x, !.owner = y] = [locked |-> x, owner |-> y, wait_list |-> r.wait_list]
<1>1. [r EXCEPT !.locked = x, !.owner = y] = [[r EXCEPT !.locked = x] EXCEPT !.owner = y]
  OBVIOUS
<1>2. [r EXCEPT !.locked = x] = [locked |-> x, owner |-> r.owner, wait_list |-> r.wait_list]
  BY SMTT(60), SetLocked DEF IsMutex
<1>3. [[locked |-> x, owner |-> r.owner, wait_list |-> r.wait_list] EXCEPT !.owner = y]
         = [locked |-> x, owner |-> y, wait_list |-> r.wait_list]
  BY SetOwner
<1> QED
  BY <1>1, <1>2, <1>3

(* A woken waiter that finds the mutex free takes it. *)
LEMMA LockAgainShape ==
    ASSUME IsMutex(m), NEW t \in Tasks, LockAgain(t)
    PROVE  m' = [locked |-> TRUE, owner |-> t, wait_list |-> Keep(m.wait_list, Tasks \ {t})]
<1> DEFINE r == Acquired(m, t)
           l == Keep(m.wait_list, Tasks \ {t})
<1>1. r = [locked |-> TRUE, owner |-> t, wait_list |-> m.wait_list]
  BY SetHolder DEF Acquired
<1>2. m' = [r EXCEPT !.wait_list = Keep(r.wait_list, Tasks \ {t})]
  BY DEF LockAgain, Delete
<1> HIDE DEF r
<1>3. r.wait_list = m.wait_list
  BY <1>1
<1>4. m' = [r EXCEPT !.wait_list = l]
  BY <1>2, <1>3
<1> HIDE DEF l
<1>5. [r EXCEPT !.wait_list = l] = [locked |-> TRUE, owner |-> t, wait_list |-> l]
  <2> DEFINE b == TRUE
  <2>1. r = [locked |-> b, owner |-> t, wait_list |-> m.wait_list]
    BY <1>1
  <2> HIDE DEF b
  <2>2. [r EXCEPT !.wait_list = l] = [locked |-> b, owner |-> t, wait_list |-> l]
    BY SMTT(60), <2>1, SetList
  <2> QED
    BY <2>2 DEF b
<1> QED
  BY <1>4, <1>5 DEF l

(* mutex_unlock frees the mutex and wakes the first waiter, if any. *)
LEMMA ReleasedShape ==
    ASSUME IsMutex(m)
    PROVE  /\ m.wait_list = <<>> =>
                /\ Released(cpu, m).c = cpu
                /\ Released(cpu, m).m = [locked |-> FALSE, owner |-> NULL, wait_list |-> m.wait_list]
           /\ m.wait_list # <<>> =>
                /\ Released(cpu, m).c = MakeReady(cpu, Head(m.wait_list))
                /\ Released(cpu, m).m = [locked |-> FALSE, owner |-> NULL, wait_list |-> Tail(m.wait_list)]
<1> DEFINE free == [m EXCEPT !.locked = FALSE, !.owner = NULL]
<1>1. free = [locked |-> FALSE, owner |-> NULL, wait_list |-> m.wait_list] /\ free.wait_list = m.wait_list
  <2>1. free = [locked |-> FALSE, owner |-> NULL, wait_list |-> m.wait_list]
    BY SetHolder
  <2> HIDE DEF free
  <2> QED
    BY <2>1
<1>2. CASE m.wait_list = <<>>
  <2>1. Released(cpu, m) = [c |-> cpu, m |-> free]
    BY <1>2 DEF Released
  <2> HIDE DEF free
  <2>2. Released(cpu, m).c = cpu /\ Released(cpu, m).m = free
    BY SMTT(60), <2>1
  <2> QED
    BY <1>1, <1>2, <2>2
<1>3. CASE m.wait_list # <<>>
  <2>1. Released(cpu, m) = [c |-> MakeReady(cpu, Head(m.wait_list)),
                          m |-> [free EXCEPT !.wait_list = Tail(free.wait_list)]]
    BY <1>3 DEF Released
  <2> HIDE DEF free
  <2>2. [free EXCEPT !.wait_list = Tail(free.wait_list)] = [locked |-> FALSE, owner |-> NULL, wait_list |-> Tail(free.wait_list)]
    BY <1>1, SetList
  <2>3. /\ Released(cpu, m).c = MakeReady(cpu, Head(m.wait_list))
        /\ Released(cpu, m).m = [free EXCEPT !.wait_list = Tail(free.wait_list)]
    BY SMTT(60), <2>1
  <2> QED
    BY <1>1, <1>3, <2>2, <2>3
<1> QED
  BY <1>2, <1>3

(* The current task blocks where it is: back to sleep after a wake-up that *)
(* came too late.                                                          *)
LEMMA BlockAgain ==
    ASSUME LocksInv, SomeoneReady, NEW t \in Tasks, cpu.cur = t, at[t] \in {"lock", "condlock", "sem"},
           CanSleep, cpu' = BlockCurrent(cpu), UNCHANGED <<at, wq, m, waiters, private, wait_list>>
    PROVE  LocksInv' /\ Moves(t, {})
<1>1. cpu.q # <<>> /\ CpuPart /\ at \in [Tasks -> Places] /\ cpu.st[t] = "RUNNING"
  BY DEF CanSleep, LocksInv, CpuPart
<1>2. Moves(t, {})
  BY <1>1, MovesBlock
<1>3. WqPart'
  BY SMTT(60), <1>1, <1>2, WqQuiet
<1>4. MutexPart'
  BY SMTT(60), <1>1, <1>2, MutexQuiet DEF LocksInv, MutexPart
<1>5. SemPart' /\ CvPart'
  BY SMTT(60), <1>1, <1>2, SemQuiet, CvQuiet
<1> QED
  BY <1>2, <1>3, <1>4, <1>5 DEF LocksInv, Moves

(* It queues a mutex_waiter and blocks, inside mutex_lock. *)
LEMMA JoinWaiters ==
    ASSUME LocksInv, SomeoneReady, NEW t \in Tasks, cpu.cur = t, NEW x \in {"lock", "condlock"},
           CanSleep, cpu' = BlockCurrent(cpu), at' = [at EXCEPT ![t] = x],
           m' = [m EXCEPT !.wait_list = Append(@, t)],
           UNCHANGED <<wq, waiters, private, wait_list>>
    PROVE  LocksInv' /\ Moves(t, {})
<1>1. cpu.q # <<>> /\ CpuPart /\ at \in [Tasks -> Places] /\ cpu.st[t] = "RUNNING" /\ MutexPart
  BY DEF CanSleep, LocksInv, CpuPart
<1>2. at' \in [Tasks -> Places] /\ at'[t] = x /\ \A u \in Tasks : u # t => at'[u] = at[u]
  BY <1>1 DEF Places
<1>3. Moves(t, {}) /\ cpu'.st[t] = "BLOCKED"
  BY <1>1, <1>2, MovesBlock
<1>4. WqPart' /\ SemPart' /\ CvPart'
  BY SMTT(60), <1>1, <1>2, <1>3, WqQuiet, SemQuiet, CvQuiet
<1>5. m' = [locked |-> m.locked, owner |-> m.owner, wait_list |-> Append(m.wait_list, t)]
  BY <1>1, SetList DEF MutexPart, IsMutex
<1>6. m.wait_list \in Seq(Tasks) /\ Once(m.wait_list) /\ t \notin Members(m.wait_list)
      /\ Members(m.wait_list) \subseteq Tasks
  BY SMTT(60), <1>1 DEF MutexPart, Members
<1> DEFINE l == Append(m.wait_list, t)
<1>7. l \in Seq(Tasks) /\ Once(l) /\ Members(l) = Members(m.wait_list) \cup {t}
  BY SMTT(60), <1>6, AppendFacts
<1> HIDE DEF l
<1>8. IsMutex(m') /\ m'.wait_list = l
  BY <1>1, <1>5 DEF IsMutex, MutexPart, l
<1>9. \A u \in Members(l) : InLock(u)' /\ cpu'.st[u] = "BLOCKED"
  BY <1>1, <1>2, <1>3, <1>6, <1>7 DEF MutexPart, Moves, InLock
<1>10. MutexPart'
  BY <1>7, <1>8, <1>9 DEF MutexPart
<1> QED
  BY <1>3, <1>4, <1>10 DEF LocksInv, Moves

(* It takes the mutex after a sleep in mutex_lock: its waiter is unlinked. *)
LEMMA TakeAgain ==
    ASSUME LocksInv, NEW t \in Tasks, cpu.cur = t, LockAgain(t),
           at' = [at EXCEPT ![t] = "run"], cpu' = cpu,
           waiters' \in {waiters, Delete(waiters, t)}, UNCHANGED <<wq, private, wait_list>>
    PROVE  LocksInv' /\ Moves(t, {})
<1>1. CpuPart /\ at \in [Tasks -> Places] /\ cpu.st[t] = "RUNNING" /\ MutexPart /\ CvPart
  BY DEF LocksInv, CpuPart
<1>2. at' \in [Tasks -> Places] /\ at'[t] = "run" /\ \A u \in Tasks : u # t => at'[u] = at[u]
  BY <1>1 DEF Places
<1>3. Moves(t, {})
  BY <1>1, <1>2, MovesStay
<1>4. WqPart' /\ SemPart'
  BY SMTT(60), <1>1, <1>2, <1>3, WqQuiet, SemQuiet
<1> DEFINE l == Keep(m.wait_list, Tasks \ {t})
<1>5. m' = [locked |-> TRUE, owner |-> t, wait_list |-> l]
  BY <1>1, LockAgainShape DEF MutexPart
<1>6. m.wait_list \in Seq(Tasks) /\ Once(m.wait_list) /\ t \notin Members(m.wait_list)
      /\ Members(m.wait_list) \subseteq Tasks
  BY SMTT(60), <1>1 DEF MutexPart, Members
<1>7. l \in Seq(Tasks) /\ Once(l) /\ Members(l) = Members(m.wait_list)
  BY <1>6, UnlinkNothing
<1> HIDE DEF l
<1>8. IsMutex(m') /\ m'.wait_list = l
  BY <1>5 DEF IsMutex
<1>9. MutexPart'
  BY <1>1, <1>3, <1>6, <1>7, <1>8 DEF MutexPart, Moves, InLock
<1>10. waiters \in Seq(Tasks) /\ Once(waiters) /\ t \notin Members(waiters)
  BY <1>1 DEF CvPart
<1>11. waiters' \in Seq(Tasks) /\ Once(waiters') /\ Members(waiters') = Members(waiters)
  BY <1>10, UnlinkNothing DEF Delete
<1>12. CvPart'
  BY <1>1, <1>3, <1>11 DEF CvPart, Moves
<1> QED
  BY <1>3, <1>4, <1>9, <1>12 DEF LocksInv, Moves

(* The task a release wakes. *)
FirstWaiter == IF m.wait_list = <<>> THEN {} ELSE {Head(m.wait_list)}

(* Releasing the mutex wakes the first of its waiters and unlinks it. *)
LEMMA ReleaseKeeps ==
    ASSUME LocksInv, NEW t \in Tasks, cpu.st[t] # "BLOCKED", m' = Released(cpu, m).m,
           Moves(t, FirstWaiter)
    PROVE  MutexPart'
<1>1. /\ IsMutex(m) /\ m.wait_list \in Seq(Tasks) /\ Once(m.wait_list)
      /\ Members(m.wait_list) \subseteq Tasks
      /\ \A u \in Members(m.wait_list) : InLock(u) /\ cpu.st[u] = "BLOCKED"
  BY SMTT(60) DEF LocksInv, MutexPart, Members
<1>2. CASE m.wait_list = <<>>
  <2>1. m' = [locked |-> FALSE, owner |-> NULL, wait_list |-> m.wait_list]
    BY <1>1, <1>2, ReleasedShape
  <2>2. IsMutex(m') /\ m'.wait_list = m.wait_list
    BY SMTT(60), <2>1 DEF IsMutex
  <2> QED
    BY SMTT(60), <1>2, <2>2, MutexQuiet DEF FirstWaiter
<1>3. CASE m.wait_list # <<>>
  <2> DEFINE h == Head(m.wait_list)
             l == Tail(m.wait_list)
  <2>1. m' = [locked |-> FALSE, owner |-> NULL, wait_list |-> l]
    BY <1>1, <1>3, ReleasedShape
  <2>2. l \in Seq(Tasks) /\ Once(l) /\ Members(m.wait_list) = {h} \cup Members(l) /\ h \notin Members(l)
    BY <1>1, <1>3, TailFacts
  <2>3. Moves(t, {h})
    BY <1>3 DEF FirstWaiter
  <2> HIDE DEF h, l
  <2>4. IsMutex(m') /\ m'.wait_list = l
    BY SMTT(60), <2>1 DEF IsMutex
  <2>5. \A u \in Members(l) : InLock(u)' /\ cpu'.st[u] = "BLOCKED"
    BY <1>1, <2>2, <2>3 DEF Moves, InLock
  <2> QED
    BY <2>2, <2>4, <2>5 DEF MutexPart
<1> QED
  BY <1>2, <1>3

(* The task that mutex_unlock wakes sleeps in mutex_lock. *)
LEMMA FirstWaiterFacts ==
    ASSUME LocksInv
    PROVE  /\ FirstWaiter \subseteq Tasks
           /\ \A u \in FirstWaiter : InLock(u) /\ cpu.st[u] = "BLOCKED"
<1>1. /\ m.wait_list \in Seq(Tasks)
      /\ \A u \in Members(m.wait_list) : InLock(u) /\ cpu.st[u] = "BLOCKED"
  BY DEF LocksInv, MutexPart
<1>2. CASE m.wait_list = <<>>
  BY <1>2 DEF FirstWaiter
<1>3. CASE m.wait_list # <<>>
  <2>1. Head(m.wait_list) \in Tasks /\ Head(m.wait_list) \in Members(m.wait_list)
    BY SMTT(60), <1>1, <1>3, TailFacts
  <2> QED
    BY <1>1, <1>3, <2>1 DEF FirstWaiter
<1> QED
  BY <1>2, <1>3

(* mutex_unlock. *)
LEMMA UnlockKeeps ==
    ASSUME LocksInv, NEW t \in Tasks, mutex_unlock(t), UNCHANGED <<waiters, private, wait_list>>
    PROVE  LocksInv' /\ Moves(t, FirstWaiter)
<1>1. /\ cpu.cur = t /\ cpu' = Released(cpu, m).c /\ m' = Released(cpu, m).m /\ at' = at /\ wq' = wq
      /\ at[t] = "run" /\ CpuPart /\ cpu.st[t] = "RUNNING" /\ IsMutex(m) /\ at \in [Tasks -> Places]
  BY DEF mutex_unlock, Running, LocksInv, CpuPart, MutexPart
<1>2. /\ FirstWaiter \subseteq Tasks
      /\ \A u \in FirstWaiter : InLock(u) /\ cpu.st[u] = "BLOCKED"
  BY FirstWaiterFacts
<1>3. Moves(t, FirstWaiter)
  <2>1. CASE m.wait_list = <<>>
    BY <1>1, <2>1, ReleasedShape, MovesStay DEF FirstWaiter
  <2>2. CASE m.wait_list # <<>>
    <3>1. cpu' = MakeReady(cpu, Head(m.wait_list)) /\ FirstWaiter = {Head(m.wait_list)}
      BY <1>1, <2>2, ReleasedShape DEF FirstWaiter
    <3> QED
      BY <1>1, <1>2, <3>1, MovesWake
  <2> QED
    BY <2>1, <2>2
<1>4. MutexPart'
  BY <1>1, <1>3, ReleaseKeeps
<1>5. WqPart' /\ SemPart' /\ CvPart'
  BY <1>1, <1>2, <1>3, WqQuiet, SemQuiet, CvQuiet DEF InLock
<1> QED
  BY <1>3, <1>4, <1>5 DEF LocksInv, Moves

(* condvar_wait lists the task, releases the mutex and blocks. *)
LEMMA CondWaitKeeps ==
    ASSUME LocksInv, SomeoneReady, NEW t \in Tasks, condvar_wait(t), UNCHANGED wait_list
    PROVE  LocksInv' /\ Moves(t, FirstWaiter) /\ cpu'.st[t] = "BLOCKED"
<1>1. /\ cpu.cur = t /\ Released(cpu, m).c.q # <<>> /\ cpu' = BlockCurrent(Released(cpu, m).c)
      /\ m' = Released(cpu, m).m /\ at' = [at EXCEPT ![t] = "cond"] /\ wq' = wq
      /\ waiters' = Append(waiters, t) /\ private' = private \cup {t}
  BY DEF condvar_wait, Running
<1>2. CpuPart /\ at \in [Tasks -> Places] /\ cpu.st[t] = "RUNNING" /\ IsMutex(m) /\ CvPart
  BY <1>1 DEF LocksInv, CpuPart, MutexPart
<1>3. at' \in [Tasks -> Places] /\ at'[t] = "cond" /\ \A u \in Tasks : u # t => at'[u] = at[u]
  BY <1>1, <1>2 DEF Places
<1>4. /\ FirstWaiter \subseteq Tasks
      /\ \A u \in FirstWaiter : InLock(u) /\ cpu.st[u] = "BLOCKED"
  BY FirstWaiterFacts
<1>5. Moves(t, FirstWaiter) /\ cpu'.st[t] = "BLOCKED"
  <2>1. CASE m.wait_list = <<>>
    <3>1. Released(cpu, m).c = cpu /\ FirstWaiter = {}
      BY <1>2, <2>1, ReleasedShape DEF FirstWaiter
    <3> QED
      BY <1>1, <1>2, <1>3, <3>1, MovesBlock
  <2>2. CASE m.wait_list # <<>>
    <3>1. cpu' = BlockCurrent(MakeReady(cpu, Head(m.wait_list))) /\ FirstWaiter = {Head(m.wait_list)}
      BY <1>1, <1>2, <2>2, ReleasedShape DEF FirstWaiter
    <3> QED
      BY <1>1, <1>2, <1>3, <1>4, <3>1, MovesWakeBlock
  <2> QED
    BY <2>1, <2>2
<1>6. MutexPart'
  BY <1>1, <1>2, <1>5, ReleaseKeeps
<1>7. WqPart' /\ SemPart'
  BY <1>1, <1>2, <1>3, <1>4, <1>5, WqQuiet, SemQuiet DEF InLock
<1>8. t \notin private
  BY <1>2 DEF CvPart
<1>9. waiters' \in Seq(Tasks) /\ Once(waiters') /\ Members(waiters') = Members(waiters) \cup {t}
  BY SMTT(60), <1>1, <1>2, <1>8, AppendFacts DEF CvPart
<1>10. \A u \in private' : at'[u] = "cond" /\ cpu'.st[u] = "BLOCKED"
  BY <1>1, <1>2, <1>3, <1>4, <1>5 DEF CvPart, Moves, InLock
<1>11. CvPart'
  BY <1>1, <1>2, <1>9, <1>10 DEF CvPart
<1> QED
  BY <1>5, <1>6, <1>7, <1>11 DEF LocksInv, Moves

(* Waking waiters s of the condition variable, which keeps the others. *)
LEMMA WakePrivateKeeps ==
    ASSUME LocksInv, NEW t \in Tasks, Running(t), NEW s \in Seq(Tasks), Once(s),
           Members(s) \subseteq Members(waiters), WakePrivate(s),
           waiters' \in Seq(Tasks), Once(waiters'), Members(waiters') \subseteq Members(waiters) \ Members(s),
           UNCHANGED <<wq, at, m, wait_list>>
    PROVE  LocksInv' /\ Moves(t, Members(s))
<1>1. CpuPart /\ CvPart /\ cpu.st[t] = "RUNNING"
  BY DEF LocksInv, CpuPart, Running
<1> DEFINE k == Keep(s, private)
<1>2. k \in Seq(Tasks) /\ Once(k) /\ Members(k) = Members(s)
  <2>1. k \in Seq(Tasks) /\ Once(k) /\ Members(k) = Members(s) \cap private
    BY KeepFacts
  <2> QED
    BY <1>1, <2>1 DEF CvPart
<1>3. cpu' = MakeAllReady(cpu, k) /\ private' = private \ Members(s)
  BY DEF WakePrivate
<1> HIDE DEF k
<1>4. \A u \in Members(s) : at[u] = "cond" /\ cpu.st[u] = "BLOCKED"
  BY <1>1 DEF CvPart
<1>5. Moves(t, Members(s))
  BY <1>1, <1>2, <1>3, <1>4, MovesWakeAll
<1>6. WqPart' /\ SemPart'
  BY <1>1, <1>4, <1>5, WqQuiet, SemQuiet DEF Running
<1>7. MutexPart'
  BY <1>1, <1>4, <1>5, MutexQuiet DEF LocksInv, MutexPart, InLock
<1>8. CvPart'
  <2>1. \A u \in private' : at'[u] = "cond" /\ cpu'.st[u] = "BLOCKED"
    BY <1>1, <1>3, <1>5 DEF CvPart, Moves
  <2> QED
    BY <1>1, <1>3, <2>1 DEF CvPart
<1> QED
  BY <1>5, <1>6, <1>7, <1>8 DEF LocksInv, Moves

(* The tasks condvar_broadcast wakes. *)
Broadcast == SubSeq(waiters, 1, IF Len(waiters) < MaxBroadcast THEN Len(waiters) ELSE MaxBroadcast)

(* One broadcast reaches as many tasks as can wait. *)
BroadcastFits == \A s \in Seq(Tasks) : Once(s) => Len(s) <= MaxBroadcast

(* What condvar_broadcast collects is all of the list if its array is long *)
(* enough.                                                                 *)
LEMMA BroadcastFacts ==
    ASSUME waiters \in Seq(Tasks), Once(waiters)
    PROVE  /\ Broadcast \in Seq(Tasks) /\ Once(Broadcast) /\ Members(Broadcast) \subseteq Members(waiters)
           /\ BroadcastFits => Members(Broadcast) = Members(waiters)
<1> DEFINE n == IF Len(waiters) < MaxBroadcast THEN Len(waiters) ELSE MaxBroadcast
<1>1. n \in 0 .. Len(waiters) /\ Len(waiters) \in Nat
  BY SMTT(60), MaxBroadcastAssumption
<1>2. BroadcastFits => n = Len(waiters)
  <2>1. BroadcastFits => Len(waiters) <= MaxBroadcast
    BY DEF BroadcastFits
  <2> QED
    BY SMTT(60), <1>1, <2>1, MaxBroadcastAssumption
<1> HIDE DEF n
<1>3. Broadcast = SubSeq(waiters, 1, n)
  BY DEF Broadcast, n
<1> QED
  BY <1>1, <1>2, <1>3, PrefixFacts

(* condvar_broadcast wakes what it collected. *)
LEMMA BroadcastKeeps ==
    ASSUME LocksInv, NEW t \in Tasks, SetAndBroadcast(t), UNCHANGED wait_list
    PROVE  LocksInv' /\ Moves(t, Members(Broadcast)) /\ waiters' = <<>>
           /\ private' = private \ Members(Broadcast)
<1>1. /\ Running(t) /\ waiters' = <<>> /\ WakePrivate(Broadcast) /\ UNCHANGED <<wq, at, m>>
      /\ private' = private \ Members(Broadcast)
  BY DEF SetAndBroadcast, condvar_broadcast, Broadcast, WakePrivate
<1>2. Broadcast \in Seq(Tasks) /\ Once(Broadcast) /\ Members(Broadcast) \subseteq Members(waiters)
  BY BroadcastFacts DEF LocksInv, CvPart
<1>3. <<>> \in Seq(Tasks) /\ Once(<<>>) /\ Members(<<>>) = {}
  BY SMTT(60) DEF Once, Members
<1> QED
  BY <1>1, <1>2, <1>3, WakePrivateKeeps

(* condvar_signal wakes the first of the list, if any. *)
LEMMA SignalKeeps ==
    ASSUME LocksInv, NEW t \in Tasks, Signal(t), UNCHANGED wait_list
    PROVE  /\ LocksInv' /\ (waiters = <<>> => waiters' = <<>>)
           /\ \E W : Moves(t, W) /\ Members(waiters) = W \cup Members(waiters')
<1>1. Running(t) /\ CpuPart /\ CvPart /\ cpu.st[t] = "RUNNING" /\ UNCHANGED <<wq, at, m>>
      /\ at \in [Tasks -> Places]
  BY DEF Signal, Running, LocksInv, CpuPart
<1>2. CASE waiters = <<>>
  <2>1. UNCHANGED <<cpu, waiters, private>>
    BY <1>2 DEF Signal, condvar_signal
  <2>2. Moves(t, {})
    BY <1>1, <2>1, MovesStay
  <2>3. WqPart' /\ SemPart' /\ CvPart'
    BY SMTT(60), <1>1, <2>1, <2>2, WqQuiet, SemQuiet, CvQuiet DEF Running
  <2>4. MutexPart'
    BY SMTT(60), <1>1, <2>2, MutexQuiet DEF LocksInv, MutexPart
  <2>5. LocksInv'
    BY <2>2, <2>3, <2>4 DEF LocksInv, Moves
  <2>6. Members(waiters) = {} \cup Members(waiters')
    BY <2>1
  <2> QED
    BY <1>2, <2>1, <2>2, <2>5, <2>6
<1>3. CASE waiters # <<>>
  <2> DEFINE s == <<Head(waiters)>>
  <2>1. waiters' = Tail(waiters) /\ WakePrivate(s)
    BY <1>3 DEF Signal, condvar_signal
  <2>2. /\ Head(waiters) \in Tasks /\ Tail(waiters) \in Seq(Tasks) /\ Once(Tail(waiters))
        /\ Members(waiters) = {Head(waiters)} \cup Members(Tail(waiters))
        /\ Head(waiters) \notin Members(Tail(waiters))
    BY <1>1, <1>3, TailFacts DEF CvPart
  <2>3. s \in Seq(Tasks) /\ Once(s) /\ Members(s) = {Head(waiters)}
    BY SMTT(60), <2>2 DEF Once, Members
  <2> HIDE DEF s
  <2>4. LocksInv' /\ Moves(t, Members(s))
    BY <1>1, <2>1, <2>2, <2>3, WakePrivateKeeps
  <2> QED
    BY <1>3, <2>1, <2>2, <2>3, <2>4
<1> QED
  BY <1>2, <1>3

-----------------------------------------------------------------------------
(* The semaphore.                                                          *)

(* A task queues itself on the semaphore and sleeps. *)
LEMMA SemJoin ==
    ASSUME LocksInv, SomeoneReady, NEW t \in Tasks, cpu.cur = t, CanSleep, cpu' = BlockCurrent(cpu),
           at' = [at EXCEPT ![t] = "sem"], wait_list' = Append(wait_list, t),
           UNCHANGED <<wq, m, waiters, private>>
    PROVE  LocksInv' /\ Moves(t, {})
<1>1. CpuPart /\ at \in [Tasks -> Places] /\ cpu.st[t] = "RUNNING" /\ SemPart /\ cpu.q # <<>>
  BY DEF LocksInv, CpuPart, CanSleep
<1>2. at' \in [Tasks -> Places] /\ at'[t] = "sem" /\ \A u \in Tasks : u # t => at'[u] = at[u]
  BY <1>1 DEF Places
<1>3. Moves(t, {}) /\ cpu'.st[t] = "BLOCKED"
  BY <1>1, <1>2, MovesBlock
<1>4. WqPart' /\ CvPart'
  BY SMTT(60), <1>1, <1>2, <1>3, WqQuiet, CvQuiet
<1>5. MutexPart'
  BY SMTT(60), <1>1, <1>3, MutexQuiet DEF LocksInv, MutexPart
<1>6. t \notin Members(wait_list) /\ Members(wait_list) \subseteq Tasks
  <2>1. Members(wait_list) \subseteq Tasks
    BY SMTT(60), <1>1 DEF SemPart, Members
  <2> QED
    BY <1>1, <2>1 DEF SemPart
<1>7. wait_list' \in Seq(Tasks) /\ Once(wait_list') /\ Members(wait_list') = Members(wait_list) \cup {t}
  BY SMTT(60), <1>1, <1>6, AppendFacts DEF SemPart
<1>8. SemPart'
  BY <1>1, <1>2, <1>3, <1>6, <1>7 DEF SemPart, Moves
<1> QED
  BY <1>3, <1>4, <1>5, <1>8 DEF LocksInv, Moves

(* It goes on, with the CPU and the lists as they are: in its own code,    *)
(* or out of its sleep in sem_wait.                                        *)
LEMMA GoOn ==
    ASSUME LocksInv, NEW t \in Tasks, cpu.cur = t, cpu' = cpu, NEW x \in {"run", "spin"},
           at' = [at EXCEPT ![t] = x], wait_list' \in {wait_list, Keep(wait_list, Tasks \ {t})},
           IsMutex(m'), m'.wait_list = m.wait_list, UNCHANGED <<wq, waiters, private>>
    PROVE  LocksInv' /\ Moves(t, {})
<1>1. CpuPart /\ at \in [Tasks -> Places] /\ cpu.st[t] = "RUNNING" /\ SemPart
  BY DEF LocksInv, CpuPart
<1>2. at' \in [Tasks -> Places] /\ at'[t] = x /\ \A u \in Tasks : u # t => at'[u] = at[u]
  BY <1>1 DEF Places
<1>3. Moves(t, {})
  BY <1>1, <1>2, MovesStay
<1>4. WqPart' /\ CvPart' /\ MutexPart'
  BY SMTT(60), <1>1, <1>2, <1>3, WqQuiet, CvQuiet, MutexQuiet
<1>5. t \notin Members(wait_list)
  BY <1>1 DEF SemPart
<1>6. wait_list' \in Seq(Tasks) /\ Once(wait_list') /\ Members(wait_list') = Members(wait_list)
  BY <1>1, <1>5, UnlinkNothing DEF SemPart
<1>7. SemPart'
  <2>1. Members(wait_list) \subseteq Tasks
    BY SMTT(60), <1>1 DEF SemPart, Members
  <2> QED
    BY <1>1, <1>3, <1>5, <1>6, <2>1 DEF SemPart, Moves
<1> QED
  BY <1>3, <1>4, <1>7 DEF LocksInv, Moves

(* sem_post adds a unit and wakes the first waiter, if any. *)
LEMMA PostKeeps ==
    ASSUME LocksInv, NEW t \in Tasks, sem_post(t), UNCHANGED <<m, waiters, private>>
    PROVE  LocksInv' /\ \E W : Moves(t, W) /\ (wait_list # <<>> => \E u \in W : u \in Tasks /\ at[u] = "sem")
<1>1. /\ Running(t) /\ CpuPart /\ SemPart /\ cpu.st[t] = "RUNNING" /\ UNCHANGED <<wq, at>> /\ WakeFirst
      /\ at \in [Tasks -> Places] /\ IsMutex(m)
  BY DEF sem_post, Running, LocksInv, CpuPart, MutexPart
<1>2. CASE wait_list = <<>>
  <2>1. UNCHANGED <<cpu, wait_list>>
    BY <1>1, <1>2 DEF WakeFirst
  <2>2. Moves(t, {})
    BY <1>1, <2>1, MovesStay
  <2>3. WqPart' /\ SemPart' /\ CvPart' /\ MutexPart'
    BY SMTT(60), <1>1, <2>1, <2>2, WqQuiet, SemQuiet, CvQuiet, MutexQuiet DEF Running
  <2>4. LocksInv'
    BY <2>2, <2>3 DEF LocksInv, Moves
  <2> QED
    BY <1>2, <2>2, <2>4
<1>3. CASE wait_list # <<>>
  <2> DEFINE h == Head(wait_list)
             l == Tail(wait_list)
  <2>1. cpu' = MakeReady(cpu, h) /\ wait_list' = l
    BY <1>1, <1>3 DEF WakeFirst
  <2>2. /\ h \in Tasks /\ l \in Seq(Tasks) /\ Once(l)
        /\ Members(wait_list) = {h} \cup Members(l) /\ h \notin Members(l)
    BY <1>1, <1>3, TailFacts DEF SemPart
  <2> HIDE DEF h, l
  <2>3. at[h] = "sem" /\ cpu.st[h] = "BLOCKED"
    BY <1>1, <2>2 DEF SemPart
  <2>4. Moves(t, {h})
    BY <1>1, <2>1, <2>2, <2>3, MovesWake
  <2>5. WqPart' /\ CvPart' /\ MutexPart'
    BY <1>1, <2>2, <2>3, <2>4, WqQuiet, CvQuiet, MutexQuiet DEF Running, InLock
  <2>6. SemPart'
    <3>1. Members(l) \subseteq Tasks
      BY SMTT(60), <2>2 DEF Members
    <3> QED
      BY <1>1, <2>1, <2>2, <2>4, <3>1 DEF SemPart, Moves
  <2>7. LocksInv'
    BY <2>4, <2>5, <2>6 DEF LocksInv, Moves
  <2> QED
    BY <2>2, <2>3, <2>4, <2>7
<1> QED
  BY <1>2, <1>3

-----------------------------------------------------------------------------
(* The three promises.                                                     *)

(* While the condition holds nobody waits for it, and who sleeps in        *)
(* condvar_wait is on its list; as long as one broadcast reaches all tasks. *)
MonitorPart ==
    BroadcastFits =>
        /\ ready => waiters = <<>>
        /\ \A t \in Tasks : at[t] = "cond" /\ cpu.st[t] = "BLOCKED" => t \in Members(waiters)

(* The inductive invariant.  What is promised rests on where the tasks     *)
(* are (LocksInv), and a sleeper that finds the mutex still held finds its *)
(* lock word set because word and owner agree (ExclusionInv).              *)
LocksSafe ==
    /\ LocksInv /\ ExclusionInv /\ count \in Nat
    /\ FreeMutexPromised /\ UnitPromised /\ MonitorPart

(* A step that leaves the mutex alone. *)
LEMMA ExclusionQuiet == ASSUME ExclusionInv, UNCHANGED <<m, cs>> PROVE ExclusionInv'
BY DEF ExclusionInv, MutualExclusion

(* A step outside mutex_lock leaves the free mutex its promised taker. *)
LEMMA MutexPromiseQuiet ==
    ASSUME FreeMutexPromised, NEW t \in Tasks, ~InLock(t), cpu.cur = t, NEW W, Moves(t, W), m' = m
    PROVE  FreeMutexPromised'
BY DEF FreeMutexPromised, Moves, InLock

(* A step outside sem_wait that adds no unit leaves each its promised      *)
(* taker.                                                                  *)
LEMMA UnitPromiseQuiet ==
    ASSUME UnitPromised, count \in Nat, NEW t \in Tasks, at[t] \notin {"sem", "spin"}, cpu.cur = t, NEW W, Moves(t, W),
           count' \in Nat, count' <= count, wait_list' = wait_list
    PROVE  UnitPromised'
BY SMTT(60) DEF UnitPromised, Moves

(* A step that neither sets the condition nor waits for it. *)
LEMMA MonitorQuiet ==
    ASSUME MonitorPart, NEW t \in Tasks, NEW W, Moves(t, W), waiters' = waiters, ready' \in {ready, FALSE},
           at'[t] # "cond"
    PROVE  MonitorPart'
BY DEF MonitorPart, Moves

(* A step that is about neither the mutex, the condition nor the units. *)
LEMMA QuietStep ==
    ASSUME LocksSafe, LocksInv', NEW t \in Tasks, cpu.cur = t, at[t] \in {"run", "sleep"}, at'[t] # "cond",
           NEW W, Moves(t, W), UNCHANGED <<m, cs, waiters, ready, count, wait_list>>
    PROVE  LocksSafe'
<1>1. ExclusionInv'
  BY ExclusionQuiet DEF LocksSafe
<1>2. FreeMutexPromised'
  BY MutexPromiseQuiet DEF LocksSafe, InLock
<1>3. UnitPromised' /\ count' \in Nat
  BY SMTT(60), UnitPromiseQuiet DEF LocksSafe
<1>4. MonitorPart'
  BY MonitorQuiet DEF LocksSafe
<1> QED
  BY <1>1, <1>2, <1>3, <1>4 DEF LocksSafe

(* The wait queue's operations. *)
LEMMA WqStep ==
    ASSUME LocksSafe, SomeoneReady, NEW t \in Tasks,
           \/ \E exclusive \in BOOLEAN : sleep_on(t, exclusive)
           \/ SleepReturns(t) \/ WakeUp(t) \/ WakeUpAll(t) \/ WakeUpExclusive(t),
           UNCHANGED <<m, cs, waiters, private, ready, count, wait_list>>
    PROVE  LocksSafe'
<1>1. LocksInv /\ at \in [Tasks -> Places]
  BY DEF LocksSafe, LocksInv, CpuPart
<1>2. ASSUME NEW exclusive \in BOOLEAN, sleep_on(t, exclusive) PROVE LocksSafe'
  <2>1. LocksInv' /\ Moves(t, {})
    BY <1>1, <1>2, SleepKeeps
  <2>2. cpu.cur = t /\ at[t] = "run" /\ at'[t] = "sleep"
    BY <1>1, <1>2 DEF sleep_on, Running
  <2> QED
    BY <2>1, <2>2, QuietStep
<1>3. CASE SleepReturns(t)
  <2>1. LocksInv' /\ Moves(t, {})
    BY <1>1, <1>3, ReturnKeeps
  <2>2. cpu.cur = t /\ at[t] = "sleep" /\ at'[t] = "run"
    BY <1>1, <1>3 DEF SleepReturns
  <2> QED
    BY <2>1, <2>2, QuietStep
<1>4. CASE WakeUp(t) \/ WakeUpAll(t) \/ WakeUpExclusive(t)
  <2>1. Running(t) /\ at' = at /\ \E nr \in {0, 1} : __wake_up_common(nr)
    BY <1>4 DEF WakeUp, WakeUpAll, WakeUpExclusive, wake_up, wake_up_all, wake_up_exclusive
  <2>2. PICK nr \in {0, 1} : __wake_up_common(nr)
    BY <2>1
  <2>3. LocksInv' /\ \E W : Moves(t, W)
    BY <1>1, <2>1, <2>2, WakeKeeps
  <2> QED
    BY <2>1, <2>3, QuietStep DEF Running
<1> QED
  BY <1>2, <1>3, <1>4

(* A step of the mutex: the units are left alone, and so is the condition. *)
LEMMA MutexQuietRest ==
    ASSUME LocksSafe, LocksInv', ExclusionInv', FreeMutexPromised', NEW t \in Tasks, cpu.cur = t,
           at[t] \notin {"sem", "spin"}, at'[t] # "cond", NEW W, Moves(t, W),
           UNCHANGED <<waiters, ready, count, wait_list>>
    PROVE  LocksSafe'
<1>1. UnitPromised' /\ count' \in Nat
  BY SMTT(60), UnitPromiseQuiet DEF LocksSafe
<1>2. MonitorPart'
  BY MonitorQuiet DEF LocksSafe
<1> QED
  BY <1>1, <1>2 DEF LocksSafe

(* mutex_lock, taking the mutex or going to sleep. *)
LEMMA LockStep ==
    ASSUME LocksSafe, SomeoneReady, NEW t \in Tasks, mutex_lock(t),
           UNCHANGED <<waiters, private, ready, count, wait_list>>
    PROVE  LocksSafe'
<1>1. LocksInv /\ ExclusionInv /\ IsMutex(m) /\ cpu.cur = t /\ at[t] = "run" /\ wq' = wq
      /\ at \in [Tasks -> Places]
  BY DEF LocksSafe, LocksInv, MutexPart, CpuPart, mutex_lock, Running
<1>2. CASE ~m.locked
  <2>1. m' = [locked |-> TRUE, owner |-> t, wait_list |-> m.wait_list]
    <3>1. m' = [m EXCEPT !.locked = TRUE, !.owner = t]
      BY <1>2 DEF mutex_lock, Acquired
    <3> QED
      BY <1>1, <3>1, SetHolder
  <2>2. cpu' = cpu /\ at' = at /\ cs' = cs \cup {t}
    BY <1>2 DEF mutex_lock
  <2>3. ExclusionInv'
    BY <1>1, <1>2, <2>1, <2>2, AcquireExcludes
  <2>4. m'.locked /\ m'.wait_list = m.wait_list /\ IsMutex(m')
    BY <2>1, <2>3 DEF ExclusionInv
  <2>5. at' = [at EXCEPT ![t] = "run"]
    BY <1>1, <2>2
  <2>6. LocksInv' /\ Moves(t, {})
    BY <1>1, <2>2, <2>4, <2>5, GoOn
  <2>7. FreeMutexPromised'
    BY <2>4 DEF FreeMutexPromised
  <2> QED
    BY <1>1, <2>2, <2>3, <2>6, <2>7, MutexQuietRest
<1>3. CASE m.locked
  <2>1. /\ CanSleep /\ m' = [m EXCEPT !.wait_list = Append(@, t)] /\ at' = [at EXCEPT ![t] = "lock"]
        /\ cpu' = BlockCurrent(cpu) /\ cs' = cs
    BY <1>3 DEF mutex_lock
  <2>2. LocksInv' /\ Moves(t, {})
    BY <1>1, <2>1, JoinWaiters
  <2>3. ExclusionInv'
    BY <1>1, <2>1, QueueingKeeps
  <2>4. m' = [locked |-> m.locked, owner |-> m.owner, wait_list |-> Append(m.wait_list, t)]
    BY <1>1, <2>1, SetList DEF IsMutex
  <2>5. FreeMutexPromised'
    BY <1>3, <2>4 DEF FreeMutexPromised
  <2>6. at'[t] = "lock"
    BY <1>1, <2>1
  <2> QED
    BY <1>1, <2>2, <2>3, <2>5, <2>6, MutexQuietRest
<1> QED
  BY <1>2, <1>3

(* The mutex is taken after a sleep, in mutex_lock or in condvar_wait. *)
LEMMA TakeAgainStep ==
    ASSUME LocksSafe, NEW t \in Tasks, cpu.cur = t, at[t] \in {"lock", "cond", "condlock"}, ~m.locked,
           LockAgain(t), cs' = cs \cup {t}, at' = [at EXCEPT ![t] = "run"], cpu' = cpu,
           waiters' \in {waiters, Delete(waiters, t)}, UNCHANGED <<wq, private, ready, count, wait_list>>
    PROVE  LocksSafe'
<1>1. /\ LocksInv /\ ExclusionInv /\ IsMutex(m) /\ at \in [Tasks -> Places] /\ CvPart /\ count \in Nat
      /\ UnitPromised /\ MonitorPart /\ cpu.st[t] = "RUNNING"
  BY DEF LocksSafe, LocksInv, MutexPart, CpuPart
<1>2. LocksInv' /\ Moves(t, {})
  BY <1>1, TakeAgain
<1>3. m' = [locked |-> TRUE, owner |-> t, wait_list |-> Keep(m.wait_list, Tasks \ {t})]
  BY <1>1, LockAgainShape
<1>4. ExclusionInv'
  BY <1>1, <1>3, AcquireExcludes
<1>5. FreeMutexPromised'
  BY <1>3 DEF FreeMutexPromised
<1>6. UnitPromised' /\ count' \in Nat
  BY SMTT(60), <1>1, <1>2, UnitPromiseQuiet
<1>7. MonitorPart'
  <2>1. waiters \in Seq(Tasks) /\ Once(waiters) /\ t \notin Members(waiters)
    BY <1>1 DEF CvPart
  <2>2. Members(waiters') = Members(waiters)
    BY <2>1, UnlinkNothing DEF Delete
  <2>3. waiters' \in Seq(Tasks)
    BY <1>2 DEF LocksInv, CvPart
  <2>4. waiters = <<>> => waiters' = <<>>
    <3> SUFFICES ASSUME waiters = <<>>, waiters' # <<>> PROVE FALSE
      OBVIOUS
    <3>1. Members(waiters) = {}
      BY SMTT(60) DEF Members
    <3>2. Head(waiters') \in Members(waiters')
      BY SMTT(60), <2>3, TailFacts
    <3> QED
      BY <2>2, <3>1, <3>2
  <2>5. at'[t] # "cond"
    BY <1>1
  <2> QED
    BY <1>1, <1>2, <2>2, <2>4, <2>5 DEF MonitorPart, Moves
<1> QED
  BY <1>2, <1>4, <1>5, <1>6, <1>7 DEF LocksSafe

(* A sleeper of mutex_lock, or of condvar_wait's second half, goes on. *)
LEMMA ResumeStep ==
    ASSUME LocksSafe, SomeoneReady, NEW t \in Tasks,
           \/ MutexResume(t) /\ UNCHANGED <<waiters, private, ready>>
           \/ CondLockResume(t),
           UNCHANGED <<count, wait_list>>
    PROVE  LocksSafe'
<1>1. /\ LocksInv /\ ExclusionInv /\ cpu.cur = t /\ at[t] \in {"lock", "condlock"}
      /\ UNCHANGED <<wq, private, ready>>
  BY DEF LocksSafe, MutexResume, CondLockResume
<1>2. StillHeld <=> m.locked
  BY <1>1 DEF StillHeld, ExclusionInv, MutualExclusion, IsMutex
<1>3. CASE StillHeld
  <2>1. CanSleep /\ cpu' = BlockCurrent(cpu) /\ UNCHANGED <<m, cs, at, waiters>>
    BY <1>3 DEF MutexResume, CondLockResume
  <2>2. LocksInv' /\ Moves(t, {})
    BY <1>1, <2>1, BlockAgain
  <2>3. ExclusionInv'
    BY <1>1, <2>1, ExclusionQuiet
  <2>4. FreeMutexPromised'
    BY <1>2, <1>3, <2>1 DEF FreeMutexPromised
  <2> QED
    BY <1>1, <2>1, <2>2, <2>3, <2>4, MutexQuietRest
<1>4. CASE ~StillHeld
  <2>1. /\ LockAgain(t) /\ cs' = cs \cup {t} /\ at' = [at EXCEPT ![t] = "run"] /\ cpu' = cpu
        /\ waiters' \in {waiters, Delete(waiters, t)}
    BY <1>4 DEF MutexResume, CondLockResume, Reacquired
  <2> QED
    BY <1>1, <1>2, <1>4, <2>1, TakeAgainStep
<1> QED
  BY <1>3, <1>4

(* A released mutex is promised to the waiter that was woken. *)
LEMMA ReleaseKeepsPromise ==
    ASSUME LocksSafe, NEW t \in Tasks, m' = Released(cpu, m).m, Moves(t, FirstWaiter),
           cpu.st[t] # "BLOCKED"
    PROVE  FreeMutexPromised'
<1>1. LocksInv /\ IsMutex(m)
  BY DEF LocksSafe, LocksInv, MutexPart
<1>2. CASE m.wait_list = <<>>
  <2>1. m' = [locked |-> FALSE, owner |-> NULL, wait_list |-> m.wait_list]
    BY <1>1, <1>2, ReleasedShape
  <2>2. m'.wait_list = <<>>
    BY SMTT(60), <1>2, <2>1
  <2> QED
    BY <2>2 DEF FreeMutexPromised
<1>3. CASE m.wait_list # <<>>
  <2>1. PICK h \in Tasks : h \in FirstWaiter /\ InLock(h) /\ cpu.st[h] = "BLOCKED"
    BY <1>1, <1>3, FirstWaiterFacts DEF FirstWaiter
  <2>2. InLock(h)' /\ (cpu'.st[h] = "READY" \/ cpu'.cur = h)
    BY <2>1 DEF Moves, InLock
  <2> QED
    BY <2>2 DEF FreeMutexPromised
<1> QED
  BY <1>2, <1>3

(* mutex_unlock. *)
LEMMA UnlockStep ==
    ASSUME LocksSafe, NEW t \in Tasks, mutex_unlock(t),
           UNCHANGED <<waiters, private, ready, count, wait_list>>
    PROVE  LocksSafe'
<1>1. /\ LocksInv /\ ExclusionInv /\ cpu.cur = t /\ at[t] = "run" /\ at' = at /\ m.owner = t
      /\ m' = Released(cpu, m).m /\ cs' = cs \ {t} /\ cpu.st[t] = "RUNNING"
  BY DEF LocksSafe, LocksInv, CpuPart, mutex_unlock, Running
<1>2. LocksInv' /\ Moves(t, FirstWaiter)
  BY <1>1, UnlockKeeps
<1>3. ExclusionInv'
  BY <1>1, ReleaseEmpties
<1>4. FreeMutexPromised'
  BY <1>1, <1>2, ReleaseKeepsPromise
<1> QED
  BY <1>1, <1>2, <1>3, <1>4, MutexQuietRest

(* The first half of condvar_wait. *)
LEMMA CondWaitStep ==
    ASSUME LocksSafe, SomeoneReady, NEW t \in Tasks, condvar_wait(t), UNCHANGED <<count, wait_list>>
    PROVE  LocksSafe'
<1>1. /\ LocksInv /\ ExclusionInv /\ cpu.cur = t /\ at[t] = "run" /\ t \in cs /\ ~ready
      /\ m' = Released(cpu, m).m /\ cs' = cs \ {t} /\ cpu.st[t] = "RUNNING"
      /\ waiters' = Append(waiters, t) /\ ready' = ready /\ waiters \in Seq(Tasks)
      /\ count \in Nat /\ UnitPromised /\ MonitorPart
  BY DEF LocksSafe, LocksInv, CpuPart, CvPart, condvar_wait, Running
<1>2. LocksInv' /\ Moves(t, FirstWaiter)
  BY <1>1, CondWaitKeeps
<1>3. ExclusionInv'
  <2>1. m.owner = t
    BY <1>1 DEF ExclusionInv, MutualExclusion
  <2> QED
    BY <1>1, <2>1, ReleaseEmpties
<1>4. FreeMutexPromised'
  BY <1>1, <1>2, ReleaseKeepsPromise
<1>5. UnitPromised' /\ count' \in Nat
  BY SMTT(60), <1>1, <1>2, UnitPromiseQuiet
<1>6. Members(waiters') = Members(waiters) \cup {t}
  BY SMTT(60), <1>1, AppendFacts
<1>7. MonitorPart'
  <2>1. \A u \in FirstWaiter : InLock(u) /\ u \in Tasks
    BY <1>1, FirstWaiterFacts
  <2> QED
    BY <1>1, <1>2, <1>6, <2>1 DEF MonitorPart, Moves, InLock
<1> QED
  BY <1>2, <1>3, <1>4, <1>5, <1>7 DEF LocksSafe

(* condvar_wait locks the mutex again after it was woken. *)
LEMMA CondResumeStep ==
    ASSUME LocksSafe, SomeoneReady, NEW t \in Tasks, CondResume(t), UNCHANGED <<count, wait_list>>
    PROVE  LocksSafe'
<1>1. /\ LocksInv /\ ExclusionInv /\ IsMutex(m) /\ cpu.cur = t /\ at[t] = "cond"
      /\ UNCHANGED <<wq, private, ready>> /\ at \in [Tasks -> Places]
  BY DEF LocksSafe, LocksInv, CpuPart, MutexPart, CondResume
<1>2. CASE ~m.locked
  <2>1. /\ LockAgain(t) /\ cs' = cs \cup {t} /\ at' = [at EXCEPT ![t] = "run"] /\ cpu' = cpu
        /\ waiters' = Delete(waiters, t)
    BY <1>2 DEF CondResume, Reacquired
  <2> QED
    BY <1>1, <1>2, <2>1, TakeAgainStep
<1>3. CASE m.locked
  <2>1. /\ CanSleep /\ m' = [m EXCEPT !.wait_list = Append(@, t)] /\ at' = [at EXCEPT ![t] = "condlock"]
        /\ cpu' = BlockCurrent(cpu) /\ UNCHANGED <<cs, waiters>>
    BY <1>3 DEF CondResume
  <2>2. LocksInv' /\ Moves(t, {})
    BY <1>1, <2>1, JoinWaiters
  <2>3. ExclusionInv'
    BY <1>1, <2>1, QueueingKeeps
  <2>4. m' = [locked |-> m.locked, owner |-> m.owner, wait_list |-> Append(m.wait_list, t)]
    BY <1>1, <2>1, SetList DEF IsMutex
  <2>5. FreeMutexPromised'
    BY <1>3, <2>4 DEF FreeMutexPromised
  <2>6. at'[t] = "condlock"
    BY <1>1, <2>1
  <2> QED
    BY <1>1, <2>1, <2>2, <2>3, <2>5, <2>6, MutexQuietRest
<1> QED
  BY <1>2, <1>3

(* A step that wakes waiters of the condition variable. *)
LEMMA CondWakeRest ==
    ASSUME LocksSafe, LocksInv', MonitorPart', NEW t \in Tasks, Running(t), NEW W, Moves(t, W),
           UNCHANGED <<m, cs, count, wait_list>>
    PROVE  LocksSafe'
<1>1. ExclusionInv'
  BY ExclusionQuiet DEF LocksSafe
<1>2. FreeMutexPromised'
  BY MutexPromiseQuiet DEF LocksSafe, InLock, Running
<1>3. UnitPromised' /\ count' \in Nat
  BY SMTT(60), UnitPromiseQuiet DEF LocksSafe, Running
<1> QED
  BY <1>1, <1>2, <1>3 DEF LocksSafe

(* The condition is set and broadcast. *)
LEMMA BroadcastStep ==
    ASSUME LocksSafe, NEW t \in Tasks, SetAndBroadcast(t), UNCHANGED <<count, wait_list>>
    PROVE  LocksSafe'
<1>1. LocksInv /\ MonitorPart /\ Running(t) /\ at' = at /\ UNCHANGED <<m, cs>>
  BY DEF LocksSafe, SetAndBroadcast
<1>2. LocksInv' /\ Moves(t, Members(Broadcast)) /\ waiters' = <<>>
  BY <1>1, BroadcastKeeps
<1>3. BroadcastFits => Members(Broadcast) = Members(waiters)
  BY <1>1, BroadcastFacts DEF LocksInv, CvPart
<1>4. MonitorPart'
  BY <1>1, <1>2, <1>3 DEF MonitorPart, Moves, Running
<1> QED
  BY <1>1, <1>2, <1>4, CondWakeRest

(* A signal, with or without the mutex. *)
LEMMA SignalStep ==
    ASSUME LocksSafe, NEW t \in Tasks, Signal(t), UNCHANGED <<count, wait_list>>
    PROVE  LocksSafe'
<1>1. LocksInv /\ MonitorPart /\ Running(t) /\ at' = at /\ UNCHANGED <<m, cs, ready>>
  BY DEF LocksSafe, Signal
<1>2. LocksInv' /\ (waiters = <<>> => waiters' = <<>>)
  BY <1>1, SignalKeeps
<1>3. PICK W : Moves(t, W) /\ Members(waiters) = W \cup Members(waiters')
  BY <1>1, SignalKeeps
<1>4. MonitorPart'
  BY <1>1, <1>2, <1>3 DEF MonitorPart, Moves, Running
<1> QED
  BY <1>1, <1>2, <1>3, <1>4, CondWakeRest

(* A task that holds the mutex consumes the condition. *)
LEMMA ConsumeStep ==
    ASSUME LocksSafe, NEW t \in Tasks, Consume(t), UNCHANGED <<count, wait_list>>
    PROVE  LocksSafe'
<1>1. /\ LocksInv /\ MonitorPart /\ Running(t) /\ ready' = FALSE /\ IsMutex(m) /\ at \in [Tasks -> Places]
      /\ UNCHANGED <<cpu, wq, at, m, cs, waiters, private>>
  BY DEF LocksSafe, LocksInv, MutexPart, CpuPart, Consume
<1>2. at' = [at EXCEPT ![t] = "run"]
  BY <1>1 DEF Running
<1>3. LocksInv' /\ Moves(t, {})
  BY <1>1, <1>2, GoOn DEF Running
<1>4. MonitorPart'
  BY <1>1, <1>3, MonitorQuiet DEF Running
<1> QED
  BY <1>1, <1>3, <1>4, CondWakeRest

(* A step of the semaphore leaves the mutex and the condition alone. *)
LEMMA SemRest ==
    ASSUME LocksSafe, LocksInv', count' \in Nat, UnitPromised', NEW t \in Tasks, cpu.cur = t,
           at[t] \in {"run", "sem", "spin"}, at'[t] # "cond", NEW W, Moves(t, W),
           UNCHANGED <<m, cs, waiters, ready>>
    PROVE  LocksSafe'
<1>1. ExclusionInv'
  BY ExclusionQuiet DEF LocksSafe
<1>2. FreeMutexPromised'
  BY MutexPromiseQuiet DEF LocksSafe, InLock
<1>3. MonitorPart'
  BY MonitorQuiet DEF LocksSafe
<1> QED
  BY <1>1, <1>2, <1>3 DEF LocksSafe

(* A unit is taken. *)
LEMMA TakeStep ==
    ASSUME LocksSafe, NEW t \in Tasks, Running(t), Available, count' = count - 1,
           UNCHANGED <<cpu, wq, at, wait_list, m, cs, waiters, private, ready>>
    PROVE  LocksSafe'
<1>1. LocksInv /\ IsMutex(m) /\ at \in [Tasks -> Places] /\ count \in Nat /\ UnitPromised
  BY DEF LocksSafe, LocksInv, MutexPart, CpuPart
<1>2. at' = [at EXCEPT ![t] = "run"]
  BY <1>1 DEF Running
<1>3. LocksInv' /\ Moves(t, {})
  BY <1>1, <1>2, GoOn DEF Running
<1>4. count' \in Nat /\ count' <= count
  BY SMTT(60), <1>1 DEF Available
<1>5. UnitPromised'
  BY <1>1, <1>3, <1>4, UnitPromiseQuiet DEF Running
<1> QED
  BY <1>3, <1>4, <1>5, SemRest DEF Running

(* sem_wait, taking a unit or going to sleep. *)
LEMMA SemWaitStep ==
    ASSUME LocksSafe, SomeoneReady, NEW t \in Tasks, sem_wait(t),
           UNCHANGED <<m, cs, waiters, private, ready>>
    PROVE  LocksSafe'
<1>1. LocksInv /\ at \in [Tasks -> Places] /\ count \in Nat /\ Running(t) /\ wq' = wq
  BY DEF LocksSafe, LocksInv, CpuPart, sem_wait
<1>2. CASE Available
  BY <1>1, <1>2, TakeStep DEF sem_wait, Take
<1>3. CASE ~Available
  <2>1. /\ CanSleep /\ wait_list' = Append(wait_list, t) /\ at' = [at EXCEPT ![t] = "sem"]
        /\ cpu' = BlockCurrent(cpu) /\ count' = count
    BY <1>3 DEF sem_wait
  <2>2. LocksInv' /\ Moves(t, {})
    BY <1>1, <2>1, SemJoin DEF Running
  <2>3. UnitPromised'
    BY <1>1, <1>3, <2>1 DEF UnitPromised, Available
  <2>4. at'[t] = "sem"
    BY <1>1, <2>1
  <2> QED
    BY <1>1, <2>1, <2>2, <2>3, <2>4, SemRest DEF Running
<1> QED
  BY <1>2, <1>3

(* A woken sleeper of sem_wait looks at the count again. *)
LEMMA SemResumeStep ==
    ASSUME LocksSafe, SomeoneReady, NEW t \in Tasks, SemResume(t),
           UNCHANGED <<m, cs, waiters, private, ready>>
    PROVE  LocksSafe'
<1>1. /\ LocksInv /\ IsMutex(m) /\ at \in [Tasks -> Places] /\ count \in Nat
      /\ cpu.cur = t /\ at[t] = "sem" /\ UNCHANGED <<wq, count, wait_list>>
  BY DEF LocksSafe, LocksInv, CpuPart, MutexPart, SemResume
<1>2. CASE count = 0
  <2>1. CanSleep /\ cpu' = BlockCurrent(cpu) /\ at' = at
    BY <1>2 DEF SemResume
  <2>2. LocksInv' /\ Moves(t, {})
    BY <1>1, <2>1, BlockAgain
  <2>3. UnitPromised'
    BY SMTT(60), <1>1, <1>2 DEF UnitPromised
  <2> QED
    BY <1>1, <2>1, <2>2, <2>3, SemRest
<1>3. CASE count # 0
  <2>1. at' = [at EXCEPT ![t] = "spin"] /\ cpu' = cpu
    BY <1>3 DEF SemResume
  <2>2. LocksInv' /\ Moves(t, {})
    BY <1>1, <2>1, GoOn
  <2>3. at'[t] = "spin"
    BY <1>1, <2>1
  <2>4. UnitPromised'
    BY <1>1, <2>1, <2>3 DEF UnitPromised
  <2> QED
    BY <1>1, <2>2, <2>3, <2>4, SemRest
<1> QED
  BY <1>2, <1>3

(* A waiter of sem_wait that spins finds the count at 1. *)
LEMMA SemSwapStep ==
    ASSUME LocksSafe, NEW t \in Tasks, SemSwap(t), UNCHANGED <<m, cs, waiters, private, ready>>
    PROVE  LocksSafe'
<1>1. /\ LocksInv /\ IsMutex(m) /\ at \in [Tasks -> Places] /\ cpu.cur = t /\ at[t] = "spin"
      /\ count' = 0 /\ wait_list' = Keep(wait_list, Tasks \ {t}) /\ at' = [at EXCEPT ![t] = "run"]
      /\ UNCHANGED <<cpu, wq>>
  BY DEF LocksSafe, LocksInv, CpuPart, MutexPart, SemSwap
<1>2. LocksInv' /\ Moves(t, {})
  BY <1>1, GoOn
<1>3. UnitPromised' /\ count' \in Nat
  BY SMTT(60), <1>1 DEF UnitPromised
<1>4. at'[t] = "run"
  BY <1>1
<1> QED
  BY <1>1, <1>2, <1>3, <1>4, SemRest

(* sem_post. *)
LEMMA PostStep ==
    ASSUME LocksSafe, NEW t \in Tasks, sem_post(t), UNCHANGED <<m, cs, waiters, private, ready>>
    PROVE  LocksSafe'
<1>1. /\ LocksInv /\ count \in Nat /\ Running(t) /\ at' = at /\ count' = count + 1 /\ WakeFirst
  BY DEF LocksSafe, sem_post
<1>2. LocksInv'
  BY <1>1, PostKeeps
<1>3. PICK W : Moves(t, W) /\ (wait_list # <<>> => \E u \in W : u \in Tasks /\ at[u] = "sem")
  BY <1>1, PostKeeps
<1>4. UnitPromised'
  <2>1. CASE wait_list = <<>>
    BY <1>1, <2>1 DEF WakeFirst, UnitPromised
  <2>2. CASE wait_list # <<>>
    <3>1. PICK u \in Tasks : u \in W /\ at[u] = "sem"
      BY <1>3, <2>2
    <3>2. at'[u] = "sem" /\ (cpu'.st[u] = "READY" \/ cpu'.cur = u)
      BY <1>1, <1>3, <3>1 DEF Moves, Running
    <3> QED
      BY <3>2 DEF UnitPromised
  <2> QED
    BY <2>1, <2>2
<1> QED
  BY SMTT(60), <1>1, <1>2, <1>3, <1>4, SemRest DEF Running

(* One case per operation of the four locks. *)
LEMMA LocksSafeNext ==
    ASSUME SomeoneReady, LocksSafe, [LocksNext]_<<cpu, lockVars>>
    PROVE  LocksSafe'
<1>1. ASSUME NEW t \in Tasks, UNCHANGED <<count, wait_list, users>>,
             \/ condvar_wait(t) \/ CondResume(t) \/ CondLockResume(t) \/ SetAndBroadcast(t)
             \/ Consume(t) \/ Signal(t)
      PROVE  LocksSafe'
  BY <1>1, CondWaitStep, CondResumeStep, ResumeStep, BroadcastStep, ConsumeStep, SignalStep
<1>2. ASSUME NEW t \in Tasks, MutexStep(t), UNCHANGED <<count, wait_list, users>> PROVE LocksSafe'
  <2>1. UNCHANGED <<waiters, private, ready>>
    BY <1>2 DEF MutexStep
  <2>2. CASE mutex_lock(t) \/ MutexResume(t) \/ mutex_unlock(t)
    BY <1>2, <2>1, <2>2, LockStep, ResumeStep, UnlockStep
  <2>3. CASE Elsewhere(t)
    BY <1>2, <2>1, <2>3, WqStep DEF Elsewhere
  <2> QED
    BY <1>2, <2>2, <2>3 DEF MutexStep
<1>3. ASSUME NEW t \in Tasks, UNCHANGED <<m, cs, waiters, private, ready>>,
             \/ sem_wait(t) \/ SemResume(t) \/ SemSwap(t) \/ sem_trywait(t)
             \/ sem_post(t) \/ SemElsewhere(t)
      PROVE  LocksSafe'
  <2>1. CASE sem_trywait(t)
    BY <1>3, <2>1, TakeStep DEF sem_trywait, Take
  <2>2. CASE SemElsewhere(t)
    BY <1>3, <2>2, WqStep DEF SemElsewhere
  <2> QED
    BY <1>3, <2>1, <2>2, SemWaitStep, SemResumeStep, SemSwapStep, PostStep
<1>4. ASSUME WqNext, UNCHANGED <<m, cs, waiters, private, ready, count, wait_list, users>>
      PROVE  LocksSafe'
  <2>1. UNCHANGED <<m, cs, waiters, private, ready, count, wait_list>>
    BY <1>4
  <2>2. PICK t \in Tasks : \/ \E exclusive \in BOOLEAN : sleep_on(t, exclusive)
                           \/ SleepReturns(t) \/ WakeUp(t) \/ WakeUpAll(t) \/ WakeUpExclusive(t)
    BY <1>4 DEF WqNext
  <2> QED
    BY <2>1, <2>2, WqStep
<1>5. CASE UNCHANGED <<cpu, lockVars>>
  BY <1>5 DEF lockVars, LocksSafe, LocksInv, CpuPart, WqPart, MutexPart, SemPart, CvPart, InLock,
       ExclusionInv, MutualExclusion, FreeMutexPromised, UnitPromised, MonitorPart
<1>6. ASSUME CvNext, UNCHANGED <<count, wait_list, users>> PROVE LocksSafe'
  BY <1>1, <1>2, <1>6 DEF CvNext
<1>7. ASSUME SemNext, UNCHANGED <<m, cs, waiters, private, ready>> PROVE LocksSafe'
  BY <1>3, <1>7 DEF SemNext
<1> QED
  BY <1>4, <1>5, <1>6, <1>7 DEF LocksNext

-----------------------------------------------------------------------------
(* The initial states, and the theorems.  Only these count tasks.          *)

INSTANCE FiniteSetTheorems

(* A list of tasks without repetition is no longer than there are tasks. *)
LEMMA ListBounded ==
    ASSUME NEW s \in Seq(Tasks), Once(s)
    PROVE  Len(s) <= Cardinality(Tasks)
<1>1. Len(s) \in Nat /\ DOMAIN s = 1 .. Len(s) /\ s \in [1 .. Len(s) -> Tasks]
  BY SMTT(60)
<1>2. s \in Injection(1 .. Len(s), Tasks)
  BY <1>1 DEF Once, Injection, IsInjective
<1>3. Cardinality(1 .. Len(s)) <= Cardinality(Tasks)
  BY <1>2, TasksAssumption, FS_Injection
<1>4. Cardinality(1 .. Len(s)) = Len(s)
  BY SMTT(60), <1>1, FS_Interval
<1> QED
  BY <1>3, <1>4

(* After boot the first task runs and the others are queued. *)
LEMMA StartSound ==
    ASSUME NEW s \in Orders
    PROVE  /\ CpuSound(Started(s)) /\ Started(s).st[Started(s).cur] = "RUNNING"
           /\ \A t \in Tasks : Started(s).st[t] \in {"READY", "RUNNING"}
<1> DEFINE n == Cardinality(Tasks)
<1>1. n \in Nat /\ s \in [1 .. n -> Tasks] /\ Members(s) = Tasks
  BY TasksAssumption, FS_CardinalityType DEF Orders
<1>2. s \in Seq(Tasks) /\ DOMAIN s = 1 .. n
  BY SMTT(60), <1>1
<1>3. Once(s)
  <2>1. s \in Surjection(1 .. n, Tasks)
    BY <1>1, <1>2 DEF Surjection, Members
  <2>2. IsFiniteSet(1 .. n) /\ Cardinality(1 .. n) = Cardinality(Tasks)
    BY SMTT(60), <1>1, FS_Interval
  <2>3. s \in Injection(1 .. n, Tasks)
    BY <2>1, <2>2, FS_SurjSameCardinalityImpliesInj
  <2> QED
    BY <2>3 DEF Injection, IsInjective, Once
<1> HIDE DEF n
<1>4. s # <<>>
  BY SMTT(60), <1>1, TasksAssumption DEF Members
<1> DEFINE h  == Head(s)
           st == [t \in Tasks |-> IF t = h THEN "RUNNING" ELSE "READY"]
<1>5. /\ h \in Tasks /\ Tail(s) \in Seq(Tasks) /\ Once(Tail(s))
      /\ Tasks = {h} \cup Members(Tail(s)) /\ h \notin Members(Tail(s))
  BY <1>1, <1>2, <1>3, <1>4, TailFacts
<1> DEFINE c == [cur |-> h, q |-> Tail(s), st |-> st]
<1>6. Started(s) = c
  BY DEF Started
<1>7. c.cur = h /\ c.q = Tail(s) /\ c.st = st /\ c = [cur |-> h, st |-> st, q |-> Tail(s)]
  OBVIOUS
<1>8. /\ st \in [Tasks -> TaskStates]
      /\ \A t \in Tasks : st[t] = IF t = h THEN "RUNNING" ELSE "READY"
  BY DEF TaskStates
<1> HIDE DEF c, st, h
<1> QED
  BY <1>5, <1>6, <1>7, <1>8 DEF CpuSound

(* Nobody sleeps at the start. *)
LEMMA LocksSafeInit == LocksInit => LocksSafe
<1> SUFFICES ASSUME LocksInit PROVE LocksSafe
  OBVIOUS
<1>1. /\ \E s \in Orders : cpu = Started(s)
      /\ wq = <<>> /\ at = [t \in Tasks |-> "run"]
      /\ m = [locked |-> FALSE, owner |-> NULL, wait_list |-> <<>>] /\ cs = {}
      /\ waiters = <<>> /\ private = {} /\ ready = FALSE
      /\ count = Value /\ wait_list = <<>>
  BY DEF LocksInit, CvInit, SemInit, MutexInit, WqInit, mutex_init
<1>2. /\ CpuSound(cpu) /\ cpu.st[cpu.cur] = "RUNNING"
      /\ \A t \in Tasks : cpu.st[t] \in {"READY", "RUNNING"}
  BY <1>1, StartSound
<1>3. CpuPart
  BY <1>1, <1>2 DEF CpuPart, Places
<1>4. \A T : <<>> \in Seq(T) /\ Once(<<>>) /\ Members(<<>>) = {}
  BY SMTT(60) DEF Once, Members
<1>5. WqPart
  BY <1>1, <1>2, <1>4 DEF WqPart, OneEach
<1>6. m.locked = FALSE /\ m.owner = NULL /\ m.wait_list = <<>> /\ IsMutex(m)
  BY <1>1 DEF IsMutex
<1>7. MutexPart /\ SemPart /\ CvPart
  BY <1>1, <1>4, <1>6 DEF MutexPart, SemPart, CvPart
<1>8. ExclusionInv
  BY <1>1, <1>6, TasksAssumption DEF ExclusionInv, MutualExclusion
<1>9. FreeMutexPromised /\ UnitPromised /\ count \in Nat
  BY <1>1, <1>6, ValueAssumption DEF FreeMutexPromised, UnitPromised
<1>10. MonitorPart
  BY <1>1 DEF MonitorPart
<1> QED
  BY <1>3, <1>5, <1>7, <1>8, <1>9, <1>10 DEF LocksSafe, LocksInv

(* Whoever wakes a waiter (wake_up, mutex_unlock, sem_post,                *)
(* condvar_signal, condvar_broadcast) writes through an entry in the stack *)
(* frame of a call its task is still asleep in, every sleeper of the wait  *)
(* queue can be found, and what is woken is queued once.  For any tasks    *)
(* and any use of the four locks together, as long as nobody blocks while  *)
(* no other task is ready.                                                 *)
THEOREM SleepersStayListed == SomeoneReady => (LocksSpec => []WaiterFramesAlive)
<1> SUFFICES ASSUME SomeoneReady PROVE LocksSpec => []WaiterFramesAlive
  OBVIOUS
<1>1. LocksSafe /\ [LocksNext]_<<cpu, lockVars>> => LocksSafe'
  BY LocksSafeNext
<1>2. ASSUME LocksSafe PROVE WaiterFramesAlive
  <2>1. CpuPart /\ WqPart /\ MutexPart /\ SemPart /\ CvPart
    BY <1>2 DEF LocksSafe, LocksInv
  <2>2. EntriesAlive
    BY SMTT(60), <2>1 DEF WqPart, OneEach, Once, Members, EntriesAlive
  <2>3. WaitersInside /\ SemWaitersInside
    BY <2>1 DEF MutexPart, SemPart, Once, WaitersInside, SemWaitersInside
  <2>4. CvWaitersInside
    BY <2>1 DEF CvPart, Once, CvWaitersInside
  <2>5. SleepersListed
    BY SMTT(60), <2>1 DEF WqPart, Members, SleepersListed
  <2>6. ReadyIffQueued
    BY <2>1 DEF CpuPart, CpuSound, Once, ReadyIffQueued
  <2> QED
    BY <2>2, <2>3, <2>4, <2>5, <2>6 DEF WaiterFramesAlive
<1> QED
  BY LocksSafeInit, <1>1, <1>2, PTL DEF LocksSpec

(* A mutex that mutex_unlock left free, or a unit that sem_post gave back, *)
(* is never left with every listed waiter asleep, whatever else the tasks  *)
(* sleep on.                                                               *)
THEOREM ReleaseReachesAWaiter == SomeoneReady => (LocksSpec => []ReleasePromised)
<1> SUFFICES ASSUME SomeoneReady PROVE LocksSpec => []ReleasePromised
  OBVIOUS
<1>1. LocksSafe /\ [LocksNext]_<<cpu, lockVars>> => LocksSafe'
  BY LocksSafeNext
<1>2. LocksSafe => ReleasePromised
  BY DEF LocksSafe, ReleasePromised
<1> QED
  BY LocksSafeInit, <1>1, <1>2, PTL DEF LocksSpec

(* condvar_wait misses no wake-up between its release of the mutex and its *)
(* sleep, and condvar_broadcast reaches every sleeper, when there are no   *)
(* more tasks than its array has places.                                   *)
THEOREM BroadcastReachesAll ==
    SomeoneReady /\ Cardinality(Tasks) <= MaxBroadcast => (LocksSpec => []NoMissedWakeup)
<1> SUFFICES ASSUME SomeoneReady, Cardinality(Tasks) <= MaxBroadcast
             PROVE  LocksSpec => []NoMissedWakeup
  OBVIOUS
<1>1. LocksSafe /\ [LocksNext]_<<cpu, lockVars>> => LocksSafe'
  BY LocksSafeNext
<1>2. ASSUME LocksSafe PROVE NoMissedWakeup
  <2>1. Members(<<>>) = {}
    BY SMTT(60) DEF Members
  <2>2. ASSUME NEW s \in Seq(Tasks), Once(s) PROVE Len(s) <= MaxBroadcast
    <3>1. Len(s) <= Cardinality(Tasks) /\ Cardinality(Tasks) \in Nat
      BY <2>2, ListBounded, TasksAssumption, FS_CardinalityType
    <3> QED
      BY SMTT(60), <3>1, MaxBroadcastAssumption
  <2> QED
    BY <1>2, <2>1, <2>2 DEF BroadcastFits, LocksSafe, MonitorPart, NoMissedWakeup
<1> QED
  BY LocksSafeInit, <1>1, <1>2, PTL DEF LocksSpec
=============================================================================
