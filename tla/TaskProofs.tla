----------------------------- MODULE TaskProofs -----------------------------
(***************************************************************************)
(* The life of threads and processes for any set of tasks: no PCB is freed *)
(* twice or while something points to it, no joiner is forgotten, the      *)
(* address space outlives its threads, and every zombie is reaped once, by *)
(* its own parent.                                                         *)
(***************************************************************************)
EXTENDS Threads, Process, RunQueueProofs

\* Leaves go to Zenon unless they name another prover.
USE ZenonT(60)

-----------------------------------------------------------------------------
(* Threads, each joined or detached by one task only (OneOwner).           *)

(* The task on the CPU runs, or has exited and not been switched away, or  *)
(* has gone to sleep in a join with nothing left to run.                   *)
ThreadCpu ==
    /\ CpuSound(cpu)
    /\ \/ cpu.st[cpu.cur] \in {"RUNNING", "ZOMBIE"}
       \/ cpu.st[cpu.cur] = "BLOCKED" /\ joining[cpu.cur] # NULL /\ cpu.q = <<>>

(* The types of the state. *)
ThreadTypes ==
    /\ thread_parent \in [Tasks -> Tasks \cup {NULL}] /\ thread_list \in [Tasks -> Seq(Tasks)]
    /\ join_waiters \in [Tasks -> Seq(Tasks)] /\ joining \in [Tasks -> Tasks \cup {NULL}]
    /\ asleep \subseteq Tasks /\ detached \subseteq Tasks
    /\ mm_refcount \in [Tasks -> Nat] /\ frees \in [Tasks -> {0, 1}] /\ destroyed \in BOOLEAN

(* Who sleeps elsewhere is blocked, off the CPU, and in no join. *)
Asleep == \A t \in asleep : cpu.st[t] = "BLOCKED" /\ t # cpu.cur /\ joining[t] = NULL

(* A join has one caller, of a thread that is neither detached nor freed.  *)
(* The caller sleeps on the target's queue until the target exits, and is  *)
(* ready or running from then on.                                          *)
Joins ==
    \A t \in Tasks : joining[t] # NULL =>
        /\ joining[t] # Leader /\ joining[t] # t /\ joining[t] \notin detached
        /\ frees[joining[t]] = 0 /\ cpu.st[joining[t]] # "UNUSED"
        /\ \A u \in Tasks : joining[u] = joining[t] => u = t
        /\ cpu.st[t] = "BLOCKED" =>
              t \in Members(join_waiters[joining[t]]) /\ cpu.st[joining[t]] # "ZOMBIE"
        /\ cpu.st[t] # "BLOCKED" =>
              cpu.st[t] \in {"READY", "RUNNING"} /\ cpu.st[joining[t]] = "ZOMBIE"

(* A join queue lists, once, tasks asleep in a join of its thread. *)
JoinQueues ==
    \A u \in Tasks :
        /\ Once(join_waiters[u])
        /\ \A t \in Members(join_waiters[u]) : joining[t] = u /\ cpu.st[t] = "BLOCKED"

(* A thread list holds living threads, in their parent's list. *)
ThreadLists ==
    \A p \in Tasks : \A t \in Members(thread_list[p]) :
        thread_parent[t] = p /\ cpu.st[t] \notin {"UNUSED", "ZOMBIE"}

(* Only what has exited is freed. *)
Freed == \A t \in Tasks : frees[t] = 1 => cpu.st[t] = "ZOMBIE"

(* The counter of a PCB is at least 1, and that of a user thread, copied   *)
(* after its creator's was raised, at least 2: only the leader's, or a     *)
(* kernel thread's, can fall to 0.                                         *)
Counters ==
    \A t \in Tasks : frees[t] = 0 =>
        mm_refcount[t] >= 1 /\ (thread_parent[t] # NULL => mm_refcount[t] >= 2)

(* The address space goes with the last task that uses it, unless a kernel *)
(* thread borrowed it.                                                     *)
Space ==
    destroyed => \/ \E t \in Tasks \ {Leader} : thread_parent[t] = NULL /\ cpu.st[t] # "UNUSED"
                 \/ \A t \in Tasks : cpu.st[t] \in {"UNUSED", "ZOMBIE"}

(* The leader has no parent; what is unused has none either. *)
Parents == \A t \in Tasks : t = Leader \/ cpu.st[t] = "UNUSED" => thread_parent[t] = NULL

(* The inductive invariant. *)
ThreadsInv ==
    /\ ThreadCpu /\ ThreadTypes /\ Asleep /\ Joins /\ JoinQueues
    /\ ThreadLists /\ Freed /\ Counters /\ Space /\ Parents /\ cpu.st[Leader] # "UNUSED"

(* The CPU belongs to a running task, when it executes code of its own. *)
LEMMA RunsRunning ==
    ASSUME ThreadsInv, NEW t \in Tasks, Runs(t)
    PROVE  /\ CpuSound(cpu) /\ cpu.cur = t /\ cpu.st[t] = "RUNNING" /\ cpu.st \in [Tasks -> TaskStates]
           /\ joining[t] = NULL /\ t \notin asleep /\ ThreadTypes
BY DEF ThreadsInv, ThreadCpu, Runs, CpuSound

(* proc_create_user_thread and proc_create_kernel_thread: a new task is    *)
(* queued, and nothing else changes for the join and detach of the others. *)
LEMMA NewTask ==
    ASSUME ThreadsInv, NEW p \in Tasks, Runs(p), NEW t \in Tasks, cpu.st[t] = "UNUSED",
           cpu' = MakeReady(cpu, t), UNCHANGED <<detached, join_waiters, joining, asleep, frees, destroyed>>
    PROVE  /\ ThreadCpu' /\ Asleep' /\ Joins' /\ JoinQueues' /\ Freed'
           /\ cpu'.st \in [Tasks -> TaskStates]
           /\ \A u \in Tasks : cpu'.st[u] = IF u = t THEN "READY" ELSE cpu.st[u]
<1>1. /\ CpuSound(cpu) /\ cpu.cur = p /\ cpu.st[p] = "RUNNING" /\ cpu.st \in [Tasks -> TaskStates]
      /\ ThreadTypes /\ p # t
  BY RunsRunning
<1>2. CpuSound(cpu') /\ cpu'.cur = p /\ cpu'.st = [cpu.st EXCEPT ![t] = "READY"]
  BY <1>1, WakeSound
<1>3. cpu'.st \in [Tasks -> TaskStates] /\ \A u \in Tasks : cpu'.st[u] = IF u = t THEN "READY" ELSE cpu.st[u]
  BY <1>1, <1>2 DEF TaskStates
<1>4. ThreadCpu'
  BY <1>1, <1>2, <1>3 DEF ThreadCpu
<1>5. Asleep'
  BY SMTT(60), <1>1, <1>2, <1>3 DEF ThreadsInv, Asleep, ThreadTypes
<1>6. Joins'
  BY SMTT(60), <1>1, <1>2, <1>3 DEF ThreadsInv, Joins, ThreadTypes
<1>7. JoinQueues'
  <2>1. \A u \in Tasks : Members(join_waiters[u]) \subseteq Tasks
    BY SMTT(60), <1>1 DEF ThreadTypes, Members
  <2> QED
    BY SMTT(60), <1>1, <1>2, <1>3, <2>1 DEF ThreadsInv, JoinQueues
<1>8. Freed'
  BY <1>1, <1>2, <1>3 DEF ThreadsInv, Freed
<1> QED
  BY <1>3, <1>4, <1>5, <1>6, <1>7, <1>8

(* proc_create_user_thread. *)
LEMMA CreateUserStep ==
    ASSUME ThreadsInv, NEW p \in Tasks, NEW t \in Tasks, proc_create_user_thread(p, t)
    PROVE  ThreadsInv'
<1>1. /\ Runs(p) /\ cpu.st[t] = "UNUSED" /\ cpu' = MakeReady(cpu, t)
      /\ thread_parent' = [thread_parent EXCEPT ![t] = p]
      /\ mm_refcount' = [mm_refcount EXCEPT ![p] = @ + 1, ![t] = mm_refcount[p] + 1]
      /\ thread_list' = [thread_list EXCEPT ![p] = Append(@, t)]
      /\ UNCHANGED <<detached, join_waiters, joining, asleep, frees, destroyed>>
  BY DEF proc_create_user_thread
<1>2. /\ ThreadCpu' /\ Asleep' /\ Joins' /\ JoinQueues' /\ Freed'
      /\ \A u \in Tasks : cpu'.st[u] = IF u = t THEN "READY" ELSE cpu.st[u]
  BY <1>1, NewTask
<1>3. ThreadTypes /\ cpu.st[p] = "RUNNING" /\ p # t /\ cpu.st[Leader] # "UNUSED" /\ frees[p] = 0
  BY <1>1, RunsRunning DEF ThreadsInv, Freed, ThreadTypes
<1>4. /\ mm_refcount' \in [Tasks -> Nat] /\ mm_refcount'[p] = mm_refcount[p] + 1
      /\ mm_refcount'[t] = mm_refcount[p] + 1
      /\ \A u \in Tasks \ {p, t} : mm_refcount'[u] = mm_refcount[u]
  <2>1. mm_refcount \in [Tasks -> Nat] /\ mm_refcount[p] \in Nat
    BY <1>3 DEF ThreadTypes
  <2>2. mm_refcount[p] + 1 \in Nat
    BY SMTT(60), <2>1
  <2> QED
    BY <1>1, <1>3, <2>1, <2>2
<1>5. Append(thread_list[p], t) \in Seq(Tasks) /\ Members(Append(thread_list[p], t)) = Members(thread_list[p]) \cup {t}
  BY SMTT(60), <1>3, AppendFacts DEF ThreadTypes
<1>6. \A u \in Tasks : Members(thread_list'[u]) = IF u = p THEN Members(thread_list[p]) \cup {t} ELSE Members(thread_list[u])
  BY <1>1, <1>3, <1>5 DEF ThreadTypes
<1>7. ThreadTypes'
  BY <1>1, <1>3, <1>4, <1>5 DEF ThreadTypes
<1>8. ThreadLists'
  <2>1. \A u \in Tasks : Members(thread_list[u]) \subseteq Tasks
    BY SMTT(60), <1>3 DEF ThreadTypes, Members
  <2>2. ASSUME NEW q \in Tasks, NEW u \in Members(thread_list'[q]), u # t
        PROVE  thread_parent'[u] = q /\ cpu'.st[u] \notin {"UNUSED", "ZOMBIE"}
    <3>1. u \in Members(thread_list[q]) /\ u \in Tasks
      BY <1>3, <1>6, <2>1, <2>2
    <3>2. thread_parent'[u] = thread_parent[u] /\ cpu'.st[u] = cpu.st[u]
      BY <1>1, <1>2, <1>3, <2>2, <3>1 DEF ThreadTypes
    <3> QED
      BY <3>1, <3>2 DEF ThreadsInv, ThreadLists
  <2>3. ASSUME NEW q \in Tasks, t \in Members(thread_list'[q])
        PROVE  thread_parent'[t] = q /\ cpu'.st[t] \notin {"UNUSED", "ZOMBIE"}
    BY <1>1, <1>2, <1>3, <1>6, <2>1, <2>3 DEF ThreadsInv, ThreadLists, ThreadTypes
  <2> QED
    BY SMTT(60), <2>2, <2>3 DEF ThreadLists
<1>9. Counters'
  <2>1. mm_refcount[p] \in Nat /\ mm_refcount[p] >= 1 /\ Counters
    BY <1>3 DEF ThreadsInv, Counters, ThreadTypes
  <2>2. mm_refcount'[p] >= 2 /\ mm_refcount'[t] >= 2
    BY SMTT(60), <1>4, <2>1
  <2>3. ASSUME NEW u \in Tasks \ {p, t}, frees'[u] = 0
        PROVE  mm_refcount'[u] >= 1 /\ (thread_parent'[u] # NULL => mm_refcount'[u] >= 2)
    BY <1>1, <1>3, <1>4, <2>1, <2>3 DEF Counters, ThreadTypes
  <2>4. mm_refcount'[p] >= 1 /\ mm_refcount'[t] >= 1
    BY SMTT(60), <1>4, <2>1
  <2> QED
    BY <2>2, <2>3, <2>4 DEF Counters
<1>10. Space'
  BY <1>1, <1>2, <1>3 DEF ThreadsInv, Space, ThreadTypes
<1>11. Parents' /\ cpu'.st[Leader] # "UNUSED"
  BY <1>1, <1>2, <1>3, LeaderAssumption DEF ThreadsInv, Parents, ThreadTypes
<1> QED
  BY <1>2, <1>7, <1>8, <1>9, <1>10, <1>11 DEF ThreadsInv

(* proc_create_kernel_thread. *)
LEMMA CreateKernelStep ==
    ASSUME ThreadsInv, NEW p \in Tasks, NEW t \in Tasks, proc_create_kernel_thread(p, t)
    PROVE  ThreadsInv'
<1>1. /\ Runs(p) /\ cpu.st[t] = "UNUSED" /\ cpu' = MakeReady(cpu, t)
      /\ UNCHANGED <<thread_parent, thread_list, detached, join_waiters, joining, asleep,
                     mm_refcount, frees, destroyed>>
  BY DEF proc_create_kernel_thread
<1>2. /\ ThreadCpu' /\ Asleep' /\ Joins' /\ JoinQueues' /\ Freed'
      /\ \A u \in Tasks : cpu'.st[u] = IF u = t THEN "READY" ELSE cpu.st[u]
  BY <1>1, NewTask
<1>3. ThreadTypes /\ cpu.st[p] = "RUNNING" /\ cpu.st[Leader] # "UNUSED"
  BY <1>1, RunsRunning DEF ThreadsInv
<1>4. ThreadLists'
  <2>1. \A u \in Tasks : Members(thread_list[u]) \subseteq Tasks
    BY SMTT(60), <1>3 DEF ThreadTypes, Members
  <2> QED
    BY SMTT(60), <1>1, <1>2, <2>1 DEF ThreadsInv, ThreadLists
<1>5. Counters' /\ ThreadTypes'
  BY <1>1 DEF ThreadsInv, Counters, ThreadTypes
<1>6. Space'
  BY <1>1, <1>2, <1>3 DEF ThreadsInv, Space
<1>7. Parents' /\ cpu'.st[Leader] # "UNUSED"
  BY <1>1, <1>2, <1>3, LeaderAssumption DEF ThreadsInv, Parents
<1> QED
  BY <1>2, <1>4, <1>5, <1>6, <1>7 DEF ThreadsInv

(* A creation that runs out of memory frees the new PCB and keeps the      *)
(* reference.                                                              *)
LEMMA CreateFailsStep ==
    ASSUME ThreadsInv, NEW p \in Tasks, NEW t \in Tasks, CreateFails(p, t)
    PROVE  ThreadsInv'
<1>1. /\ Runs(p) /\ cpu.st[t] = "UNUSED" /\ cpu' = [cpu EXCEPT !.st[t] = "ZOMBIE"]
      /\ thread_parent' = [thread_parent EXCEPT ![t] = p]
      /\ mm_refcount' = [mm_refcount EXCEPT ![p] = @ + 1, ![t] = mm_refcount[p]]
      /\ frees' = [frees EXCEPT ![t] = @ + 1]
      /\ UNCHANGED <<thread_list, detached, join_waiters, joining, asleep, destroyed>>
  BY DEF CreateFails
<1>2. /\ CpuSound(cpu) /\ cpu.cur = p /\ cpu.st[p] = "RUNNING" /\ cpu.st \in [Tasks -> TaskStates]
      /\ ThreadTypes /\ p # t
  BY <1>1, RunsRunning
<1>3. CpuSound(cpu') /\ cpu'.cur = cpu.cur /\ cpu'.q = cpu.q /\ cpu'.st = [cpu.st EXCEPT ![t] = "ZOMBIE"]
  BY SMTT(60), <1>1, <1>2, StateSound DEF TaskStates
<1>4. \A u \in Tasks : cpu'.st[u] = IF u = t THEN "ZOMBIE" ELSE cpu.st[u]
  BY <1>2, <1>3
<1>5. frees[t] = 0 /\ frees[p] = 0 /\ t # Leader
  BY <1>1, <1>2 DEF ThreadsInv, Freed, ThreadTypes
<1>6. frees' \in [Tasks -> {0, 1}] /\ frees'[t] = 1 /\ \A u \in Tasks \ {t} : frees'[u] = frees[u]
  BY SMTT(60), <1>1, <1>2, <1>5 DEF ThreadTypes
<1>7. /\ mm_refcount \in [Tasks -> Nat] /\ mm_refcount' \in [Tasks -> Nat]
      /\ mm_refcount'[p] = mm_refcount[p] + 1
      /\ \A u \in Tasks \ {p, t} : mm_refcount'[u] = mm_refcount[u]
  <2>1. mm_refcount \in [Tasks -> Nat] /\ mm_refcount[p] \in Nat
    BY <1>2 DEF ThreadTypes
  <2>2. mm_refcount[p] + 1 \in Nat
    BY SMTT(60), <2>1
  <2> QED
    BY <1>1, <1>2, <2>1, <2>2
<1>8. ThreadCpu'
  BY <1>1, <1>2, <1>3, <1>4 DEF ThreadCpu
<1>9. ThreadTypes'
  BY <1>1, <1>2, <1>6, <1>7 DEF ThreadTypes
<1>10. Asleep'
  BY SMTT(60), <1>1, <1>2, <1>3, <1>4 DEF ThreadsInv, Asleep, ThreadTypes
<1>11. Joins'
  <2>1. \A u \in Tasks : joining[u] # NULL => joining[u] \in Tasks /\ joining[u] # t /\ u # t
    BY <1>1, <1>2 DEF ThreadsInv, Joins, ThreadTypes
  <2> QED
    BY SMTT(60), <1>1, <1>2, <1>4, <1>6, <2>1 DEF ThreadsInv, Joins, ThreadTypes
<1>12. JoinQueues'
  <2>1. \A u \in Tasks : Members(join_waiters[u]) \subseteq Tasks
    BY SMTT(60), <1>2 DEF ThreadTypes, Members
  <2> QED
    BY SMTT(60), <1>1, <1>2, <1>4, <2>1 DEF ThreadsInv, JoinQueues
<1>13. ThreadLists'
  <2>1. \A u \in Tasks : Members(thread_list[u]) \subseteq Tasks
    BY SMTT(60), <1>2 DEF ThreadTypes, Members
  <2> QED
    BY SMTT(60), <1>1, <1>2, <1>4, <2>1 DEF ThreadsInv, ThreadLists, ThreadTypes
<1>14. Freed'
  BY <1>4, <1>6 DEF ThreadsInv, Freed
<1>15. Counters'
  <2>1. mm_refcount[p] \in Nat /\ mm_refcount[p] >= 1 /\ Counters
    BY <1>2, <1>5 DEF ThreadsInv, Counters, ThreadTypes
  <2>2. mm_refcount'[p] >= 2 /\ mm_refcount'[p] >= 1
    BY SMTT(60), <1>7, <2>1
  <2>3. ASSUME NEW u \in Tasks \ {p, t}, frees'[u] = 0
        PROVE  mm_refcount'[u] >= 1 /\ (thread_parent'[u] # NULL => mm_refcount'[u] >= 2)
    BY SMTT(60), <1>1, <1>2, <1>6, <1>7, <2>1, <2>3 DEF Counters, ThreadTypes
  <2> QED
    BY SMTT(60), <1>6, <2>2, <2>3 DEF Counters
<1>16. Space'
  BY SMTT(60), <1>1, <1>2, <1>4 DEF ThreadsInv, Space, ThreadTypes
<1>17. Parents' /\ cpu'.st[Leader] # "UNUSED"
  BY SMTT(60), <1>1, <1>2, <1>4, <1>5, LeaderAssumption DEF ThreadsInv, Parents, ThreadTypes
<1> QED
  BY <1>8, <1>9, <1>10, <1>11, <1>12, <1>13, <1>14, <1>15, <1>16, <1>17 DEF ThreadsInv

(* A step that frees nothing and after which the same tasks live: lists,   *)
(* counters and the address space are as they were.                        *)
LEMMA SameLives ==
    ASSUME ThreadsInv, UNCHANGED <<thread_parent, thread_list, mm_refcount, frees, destroyed>>,
           \A u \in Tasks : /\ cpu'.st[u] = "UNUSED" <=> cpu.st[u] = "UNUSED"
                            /\ cpu'.st[u] = "ZOMBIE" <=> cpu.st[u] = "ZOMBIE"
    PROVE  ThreadLists' /\ Freed' /\ Counters' /\ Space' /\ Parents' /\ cpu'.st[Leader] # "UNUSED"
<1>1. \A u \in Tasks : Members(thread_list[u]) \subseteq Tasks
  BY SMTT(60) DEF ThreadsInv, ThreadTypes, Members
<1>2. ThreadLists'
  BY <1>1 DEF ThreadsInv, ThreadLists
<1>3. Freed' /\ Counters' /\ Parents' /\ cpu'.st[Leader] # "UNUSED"
  BY LeaderAssumption DEF ThreadsInv, Freed, Counters, Parents
<1>4. Space'
  BY DEF ThreadsInv, Space
<1> QED
  BY <1>2, <1>3, <1>4

(* proc_free_pcb of a PCB that has not been freed: only a count of 1, the  *)
(* leader's or a kernel thread's, takes the address space with it.         *)
LEMMA FreeOnce ==
    ASSUME ThreadsInv, NEW u \in Tasks, frees[u] = 0, proc_free_pcb(u), UNCHANGED thread_parent
    PROVE  /\ frees' \in [Tasks -> {0, 1}] /\ frees'[u] = 1
           /\ \A v \in Tasks \ {u} : frees'[v] = frees[v]
           /\ mm_refcount' \in [Tasks -> Nat] /\ destroyed' \in BOOLEAN
           /\ destroyed' => destroyed \/ thread_parent[u] = NULL
           /\ Counters'
<1>1. ThreadTypes /\ Counters
  BY DEF ThreadsInv
<1>2. /\ frees' = [frees EXCEPT ![u] = @ + 1] /\ mm_refcount' = [mm_refcount EXCEPT ![u] = @ - 1]
      /\ destroyed' = (destroyed \/ mm_refcount[u] = 1)
  BY DEF proc_free_pcb
<1>3. frees' \in [Tasks -> {0, 1}] /\ frees'[u] = 1 /\ \A v \in Tasks \ {u} : frees'[v] = frees[v]
  BY SMTT(60), <1>1, <1>2 DEF ThreadTypes
<1>4. mm_refcount[u] \in Nat /\ mm_refcount[u] >= 1 /\ mm_refcount \in [Tasks -> Nat]
  BY <1>1 DEF Counters, ThreadTypes
<1>5. mm_refcount' \in [Tasks -> Nat] /\ \A v \in Tasks \ {u} : mm_refcount'[v] = mm_refcount[v]
  BY SMTT(60), <1>2, <1>4
<1>6. mm_refcount[u] = 1 => thread_parent[u] = NULL
  BY SMTT(60), <1>1, <1>4 DEF Counters
<1>7. destroyed' \in BOOLEAN /\ (destroyed' => destroyed \/ thread_parent[u] = NULL)
  BY <1>2, <1>6
<1>8. Counters'
  BY SMTT(60), <1>1, <1>3, <1>5 DEF Counters
<1> QED
  BY <1>3, <1>5, <1>7, <1>8

(* What proc_find_by_tid finds is alive: current, queued, or still on the  *)
(* list of a queued task.                                                  *)
LEMMA FoundAlive ==
    ASSUME ThreadsInv, NEW t \in Tasks, Runs(t), NEW u \in Tasks, u \in proc_find_by_tid
    PROVE  cpu.st[u] \notin {"UNUSED", "ZOMBIE"} /\ frees[u] = 0
<1>1. CpuSound(cpu) /\ cpu.cur = t /\ cpu.st[t] = "RUNNING" /\ ThreadTypes /\ ThreadLists
  BY RunsRunning DEF ThreadsInv
<1>2. Members(cpu.q) \subseteq Tasks /\ \A v \in Members(cpu.q) : cpu.st[v] = "READY"
  BY SMTT(60), <1>1 DEF CpuSound, Members
<1>3. cpu.st[u] \notin {"UNUSED", "ZOMBIE"}
  BY SMTT(60), <1>1, <1>2 DEF proc_find_by_tid, ThreadLists
<1> QED
  BY <1>1, <1>3 DEF ThreadsInv, Freed, ThreadTypes

(* proc_thread_exit before the join queue and the PCB: t leaves the list   *)
(* of its parent.                                                          *)
LEMMA ExitLists ==
    ASSUME ThreadsInv, NEW t \in Tasks, t # Leader,
           thread_list' = IF thread_parent[t] = NULL THEN thread_list
                          ELSE [thread_list EXCEPT ![thread_parent[t]] = Without(@, t)],
           UNCHANGED thread_parent,
           \A u \in Tasks \ {t} : cpu'.st[u] # cpu.st[u] => cpu.st[u] = "BLOCKED" /\ cpu'.st[u] = "READY",
           cpu'.st[t] = "ZOMBIE", cpu.st[t] = "RUNNING"
    PROVE  thread_list' \in [Tasks -> Seq(Tasks)] /\ ThreadLists' /\ Parents' /\ cpu'.st[Leader] # "UNUSED"
<1>1. ThreadTypes /\ ThreadLists /\ Parents /\ \A u \in Tasks : Members(thread_list[u]) \subseteq Tasks
  BY SMTT(60) DEF ThreadsInv, ThreadTypes, Members
<1>2. ASSUME NEW u \in Tasks
      PROVE  /\ Without(thread_list[u], t) \in Seq(Tasks)
             /\ Members(Without(thread_list[u], t)) = Members(thread_list[u]) \ {t}
  <2>1. thread_list[u] \in Seq(Tasks) /\ Members(thread_list[u]) \subseteq Tasks
    BY <1>1 DEF ThreadTypes
  <2>2. /\ Keep(thread_list[u], Tasks \ {t}) \in Seq(Tasks)
        /\ Members(Keep(thread_list[u], Tasks \ {t})) = Members(thread_list[u]) \cap (Tasks \ {t})
    BY SMTT(60), <2>1, KeepFacts
  <2> QED
    BY <2>1, <2>2 DEF Without
<1>3. thread_list' \in [Tasks -> Seq(Tasks)]
  BY <1>1, <1>2 DEF ThreadTypes
<1>4. ASSUME NEW p \in Tasks
      PROVE  /\ Members(thread_list'[p]) \subseteq Members(thread_list[p])
             /\ t \notin Members(thread_list'[p])
  <2>1. CASE p = thread_parent[t]
    BY <1>1, <1>2, <2>1, TasksAssumption DEF ThreadTypes
  <2>2. CASE p # thread_parent[t]
    <3>1. thread_list'[p] = thread_list[p]
      BY <1>1, <2>2 DEF ThreadTypes
    <3> QED
      BY <1>1, <2>2, <3>1 DEF ThreadLists
  <2> QED
    BY <2>1, <2>2
<1>5. ThreadLists'
  <2>1. ASSUME NEW p \in Tasks, NEW u \in Members(thread_list'[p])
        PROVE  thread_parent'[u] = p /\ cpu'.st[u] \notin {"UNUSED", "ZOMBIE"}
    <3>1. u \in Tasks \ {t} /\ u \in Members(thread_list[p])
      BY <1>1, <1>4
    <3> QED
      BY <1>1, <3>1 DEF ThreadLists
  <2> QED
    BY <2>1 DEF ThreadLists
<1>6. Parents' /\ cpu'.st[Leader] # "UNUSED"
  BY <1>1, LeaderAssumption DEF ThreadsInv, Parents
<1> QED
  BY <1>3, <1>5, <1>6

(* proc_thread_exit of a detached thread, which frees its own PCB: nobody  *)
(* is joining it.                                                          *)
LEMMA DetachedExitStep ==
    ASSUME ThreadsInv, NEW t \in Tasks, proc_thread_exit(t), t \in detached
    PROVE  ThreadsInv'
<1>1. /\ Runs(t) /\ t # Leader /\ proc_free_pcb(t) /\ cpu' = [cpu EXCEPT !.st[t] = "ZOMBIE"]
      /\ thread_list' = IF thread_parent[t] = NULL THEN thread_list
                        ELSE [thread_list EXCEPT ![thread_parent[t]] = Without(@, t)]
      /\ UNCHANGED <<thread_parent, detached, join_waiters, joining, asleep>>
  BY DEF proc_thread_exit
<1>2. /\ CpuSound(cpu) /\ cpu.cur = t /\ cpu.st[t] = "RUNNING" /\ cpu.st \in [Tasks -> TaskStates]
      /\ ThreadTypes /\ joining[t] = NULL
  BY <1>1, RunsRunning
<1>3. CpuSound(cpu') /\ cpu'.cur = t /\ cpu'.st = [cpu.st EXCEPT ![t] = "ZOMBIE"]
  BY SMTT(60), <1>1, <1>2, StateSound DEF TaskStates
<1>4. \A u \in Tasks : cpu'.st[u] = IF u = t THEN "ZOMBIE" ELSE cpu.st[u]
  BY <1>2, <1>3
<1>5. frees[t] = 0
  BY <1>2 DEF ThreadsInv, Freed, ThreadTypes
<1>6. /\ frees' \in [Tasks -> {0, 1}] /\ frees'[t] = 1
      /\ \A v \in Tasks \ {t} : frees'[v] = frees[v]
      /\ mm_refcount' \in [Tasks -> Nat] /\ destroyed' \in BOOLEAN
      /\ destroyed' => destroyed \/ thread_parent[t] = NULL
      /\ Counters'
  BY <1>1, <1>5, FreeOnce
<1>7. thread_list' \in [Tasks -> Seq(Tasks)] /\ ThreadLists' /\ Parents' /\ cpu'.st[Leader] # "UNUSED"
  BY <1>1, <1>2, <1>4, ExitLists
<1>8. ThreadCpu' /\ ThreadTypes'
  BY <1>1, <1>2, <1>3, <1>4, <1>6, <1>7 DEF ThreadCpu, ThreadTypes
<1>9. Asleep'
  BY SMTT(60), <1>1, <1>2, <1>3, <1>4 DEF ThreadsInv, Asleep, ThreadTypes
<1>10. Joins'
  <2>1. \A u \in Tasks : joining[u] # NULL => joining[u] \in Tasks /\ joining[u] # t /\ u # t
    BY SMTT(60), <1>2 DEF ThreadsInv, Joins, ThreadTypes
  <2> QED
    BY SMTT(60), <1>1, <1>4, <1>6, <2>1 DEF ThreadsInv, Joins
<1>11. JoinQueues'
  <2>1. \A u \in Tasks : Members(join_waiters[u]) \subseteq Tasks
    BY SMTT(60), <1>2 DEF ThreadTypes, Members
  <2> QED
    BY SMTT(60), <1>1, <1>2, <1>4, <2>1 DEF ThreadsInv, JoinQueues
<1>12. Freed'
  BY <1>4, <1>6 DEF ThreadsInv, Freed
<1>13. Space'
  BY SMTT(60), <1>1, <1>2, <1>4, <1>6 DEF ThreadsInv, Space
<1> QED
  BY <1>6, <1>7, <1>8, <1>9, <1>10, <1>11, <1>12, <1>13 DEF ThreadsInv

(* proc_thread_exit of a joinable thread: whoever is joining it is on its  *)
(* queue, and is ready afterwards.                                         *)
LEMMA JoinableExitStep ==
    ASSUME ThreadsInv, NEW t \in Tasks, proc_thread_exit(t), t \notin detached
    PROVE  ThreadsInv'
<1> DEFINE c == [cpu EXCEPT !.st[t] = "ZOMBIE"]
<1>1. /\ Runs(t) /\ t # Leader /\ cpu' = MakeAllReady(c, join_waiters[t])
      /\ join_waiters' = [join_waiters EXCEPT ![t] = <<>>]
      /\ thread_list' = IF thread_parent[t] = NULL THEN thread_list
                        ELSE [thread_list EXCEPT ![thread_parent[t]] = Without(@, t)]
      /\ UNCHANGED <<thread_parent, detached, joining, asleep, mm_refcount, frees, destroyed>>
  BY DEF proc_thread_exit, BecomeZombie, WakeJoiners
<1>2. /\ CpuSound(cpu) /\ cpu.cur = t /\ cpu.st[t] = "RUNNING" /\ cpu.st \in [Tasks -> TaskStates]
      /\ ThreadTypes /\ joining[t] = NULL
  BY <1>1, RunsRunning
<1>3. CpuSound(c) /\ c.cur = t /\ c.st = [cpu.st EXCEPT ![t] = "ZOMBIE"]
  BY SMTT(60), <1>2, StateSound DEF TaskStates
<1> DEFINE W == Members(join_waiters[t])
<1>4. /\ join_waiters[t] \in Seq(Tasks) /\ Once(join_waiters[t]) /\ W \subseteq Tasks
      /\ \A u \in W : joining[u] = t /\ cpu.st[u] = "BLOCKED" /\ u # t
  <2>1. join_waiters[t] \in Seq(Tasks)
    BY <1>2 DEF ThreadTypes
  <2>2. W \subseteq Tasks
    BY SMTT(60), <2>1 DEF Members
  <2> QED
    BY <1>2, <2>1, <2>2 DEF ThreadsInv, JoinQueues
<1>5. \A u \in Tasks : c.st[u] = IF u = t THEN "ZOMBIE" ELSE cpu.st[u]
  BY SMTT(60), <1>2, <1>3
<1>6. /\ CpuSound(cpu') /\ cpu'.cur = t
      /\ cpu'.st = [u \in Tasks |-> IF u \in W THEN "READY" ELSE c.st[u]]
  <2>1. \A u \in W : c.st[u] # "READY"
    BY <1>4, <1>5
  <2> HIDE DEF c
  <2> QED
    BY <1>1, <1>3, <1>4, <2>1, WakeAllSound
<1> HIDE DEF c, W
<1>7. /\ cpu'.st[t] = "ZOMBIE" /\ \A u \in W : cpu'.st[u] = "READY"
      /\ \A u \in Tasks \ {t} : u \notin W => cpu'.st[u] = cpu.st[u]
  BY SMTT(60), <1>4, <1>5, <1>6
<1>8. thread_list' \in [Tasks -> Seq(Tasks)] /\ ThreadLists' /\ Parents' /\ cpu'.st[Leader] # "UNUSED"
  BY <1>1, <1>2, <1>4, <1>7, ExitLists
<1>9. ThreadCpu'
  BY <1>6, <1>7 DEF ThreadCpu
<1>10. ThreadTypes' /\ Counters'
  BY SMTT(60), <1>1, <1>2, <1>8 DEF ThreadsInv, ThreadTypes, Counters
<1>11. Asleep'
  BY SMTT(60), <1>1, <1>2, <1>4, <1>6, <1>7, TasksAssumption DEF ThreadsInv, Asleep, ThreadTypes
<1>12. Joins'
  <2> SUFFICES ASSUME NEW u \in Tasks, joining[u] # NULL
               PROVE  /\ joining[u] # Leader /\ joining[u] # u /\ joining[u] \notin detached
                      /\ frees[joining[u]] = 0 /\ cpu'.st[joining[u]] # "UNUSED"
                      /\ \A v \in Tasks : joining[v] = joining[u] => v = u
                      /\ cpu'.st[u] = "BLOCKED" =>
                            u \in Members(join_waiters'[joining[u]]) /\ cpu'.st[joining[u]] # "ZOMBIE"
                      /\ cpu'.st[u] # "BLOCKED" =>
                            cpu'.st[u] \in {"READY", "RUNNING"} /\ cpu'.st[joining[u]] = "ZOMBIE"
    BY <1>1 DEF Joins
  <2>1. joining[u] \in Tasks /\ u # t /\ Joins
    BY <1>2 DEF ThreadsInv, ThreadTypes
  <2>2. CASE joining[u] = t
    <3>1. cpu.st[u] = "BLOCKED" /\ u \in W
      BY <1>2, <2>1, <2>2 DEF Joins, W
    <3> QED
      BY <1>7, <2>1, <2>2, <3>1 DEF Joins
  <2>3. CASE joining[u] # t
    <3>1. cpu'.st[u] = cpu.st[u] /\ join_waiters'[joining[u]] = join_waiters[joining[u]]
      BY <1>1, <1>2, <1>4, <1>7, <2>1, <2>3 DEF ThreadTypes
    <3>2. \/ cpu'.st[joining[u]] = cpu.st[joining[u]]
          \/ cpu'.st[joining[u]] = "READY" /\ cpu.st[joining[u]] = "BLOCKED"
      BY <1>4, <1>7, <2>1, <2>3
    <3> QED
      BY <2>1, <3>1, <3>2 DEF Joins
  <2> QED
    BY <2>2, <2>3
<1>13. JoinQueues'
  <2> SUFFICES ASSUME NEW u \in Tasks
               PROVE  /\ Once(join_waiters'[u])
                      /\ \A v \in Members(join_waiters'[u]) : joining[v] = u /\ cpu'.st[v] = "BLOCKED"
    BY <1>1 DEF JoinQueues
  <2>1. CASE u = t
    <3>1. join_waiters'[u] = <<>>
      BY <1>1, <1>2, <2>1 DEF ThreadTypes
    <3> QED
      BY SMTT(60), <3>1 DEF Once, Members
  <2>2. CASE u # t
    <3>1. join_waiters'[u] = join_waiters[u] /\ Members(join_waiters[u]) \subseteq Tasks
      BY SMTT(60), <1>1, <1>2, <2>2 DEF ThreadTypes, Members
    <3>2. \A v \in Members(join_waiters[u]) : v \in Tasks \ {t} /\ v \notin W
      BY SMTT(60), <1>2, <1>4, <2>2, <3>1, TasksAssumption DEF ThreadsInv, JoinQueues
    <3> QED
      BY <1>7, <3>1, <3>2 DEF ThreadsInv, JoinQueues
  <2> QED
    BY <2>1, <2>2
<1>14. Freed'
  BY <1>1, <1>4, <1>7 DEF ThreadsInv, Freed
<1>15. Space'
  BY SMTT(60), <1>1, <1>2, <1>4, <1>7 DEF ThreadsInv, Space
<1> QED
  BY <1>8, <1>9, <1>10, <1>11, <1>12, <1>13, <1>14, <1>15 DEF ThreadsInv

(* A thread that has exited gives the CPU away. *)
LEMMA ExitScheduleStep ==
    ASSUME ThreadsInv, NEW t \in Tasks, ExitSchedule(t)
    PROVE  ThreadsInv'
<1>1. /\ cpu.cur = t /\ cpu.st[t] = "ZOMBIE" /\ cpu.q # <<>> /\ cpu' = schedule(cpu)
      /\ UNCHANGED <<thread_parent, thread_list, detached, join_waiters, joining, asleep,
                     mm_refcount, frees, destroyed>>
  BY DEF ExitSchedule
<1> DEFINE h == Head(cpu.q)
<1>2. CpuSound(cpu) /\ cpu.st \in [Tasks -> TaskStates] /\ ThreadTypes
  BY DEF ThreadsInv, ThreadCpu, CpuSound
<1>3. /\ CpuSound(cpu') /\ h \in Tasks /\ cpu.st[h] = "READY" /\ h # t /\ cpu'.cur = h
      /\ cpu'.st = [cpu.st EXCEPT ![h] = "RUNNING"]
  BY <1>1, <1>2, ScheduleSound
<1> HIDE DEF h
<1>4. \A u \in Tasks : cpu'.st[u] = IF u = h THEN "RUNNING" ELSE cpu.st[u]
  BY <1>2, <1>3
<1>5. ThreadLists' /\ Freed' /\ Counters' /\ Space' /\ Parents' /\ cpu'.st[Leader] # "UNUSED"
  BY <1>1, <1>3, <1>4, SameLives
<1>6. ThreadCpu' /\ ThreadTypes'
  BY <1>1, <1>2, <1>3, <1>4 DEF ThreadCpu, ThreadTypes
<1>7. Asleep'
  BY <1>1, <1>2, <1>3, <1>4 DEF ThreadsInv, Asleep, ThreadTypes
<1>8. Joins'
  BY SMTT(60), <1>1, <1>2, <1>3, <1>4 DEF ThreadsInv, Joins, ThreadTypes
<1>9. JoinQueues'
  <2>1. \A u \in Tasks : Members(join_waiters[u]) \subseteq Tasks
    BY SMTT(60), <1>2 DEF ThreadTypes, Members
  <2> QED
    BY SMTT(60), <1>1, <1>3, <1>4, <2>1 DEF ThreadsInv, JoinQueues
<1> QED
  BY <1>5, <1>6, <1>7, <1>8, <1>9 DEF ThreadsInv

(* proc_thread_join: the target is alive, so the caller goes to sleep on   *)
(* its queue, alone there.                                                 *)
LEMMA JoinStep ==
    ASSUME OneOwner, ThreadsInv, NEW t \in Tasks, NEW u \in Tasks, proc_thread_join(t, u)
    PROVE  ThreadsInv'
<1>1. /\ Runs(t) /\ u # Leader /\ u # t /\ (\A v \in Tasks : joining[v] # u)
      /\ u \in proc_find_by_tid /\ u \notin detached
  BY DEF proc_thread_join, Unclaimed, Joinable, Detachable
<1>2. /\ CpuSound(cpu) /\ cpu.cur = t /\ cpu.st[t] = "RUNNING" /\ cpu.st \in [Tasks -> TaskStates]
      /\ ThreadTypes /\ joining[t] = NULL /\ t \notin asleep
  BY <1>1, RunsRunning
<1>3. cpu.st[u] \notin {"UNUSED", "ZOMBIE"} /\ frees[u] = 0
  BY <1>1, FoundAlive
<1>4. /\ joining' = [joining EXCEPT ![t] = u]
      /\ join_waiters' = [join_waiters EXCEPT ![u] = Append(@, t)]
      /\ cpu' = schedule([cpu EXCEPT !.st[cpu.cur] = "BLOCKED"])
      /\ UNCHANGED <<thread_parent, thread_list, detached, asleep, mm_refcount, frees, destroyed>>
  BY <1>3 DEF proc_thread_join, BlockCurrent
<1>5. /\ CpuSound(cpu')
      /\ \/ /\ cpu.q = <<>> /\ cpu'.cur = t /\ cpu'.q = <<>> /\ cpu'.st[t] = "BLOCKED"
            /\ \A v \in Tasks \ {t} : cpu'.st[v] = cpu.st[v]
         \/ /\ cpu'.cur \in Tasks \ {t} /\ cpu.st[cpu'.cur] = "READY" /\ cpu'.st[cpu'.cur] = "RUNNING"
            /\ cpu'.st[t] = "BLOCKED"
            /\ \A v \in Tasks \ {t, cpu'.cur} : cpu'.st[v] = cpu.st[v]
  <2>1. CASE cpu.q = <<>>
    <3>1. CpuSound(cpu') /\ cpu'.cur = t /\ cpu'.q = <<>> /\ cpu'.st = [cpu.st EXCEPT ![t] = "BLOCKED"]
      BY <1>2, <1>4, <2>1, StopSound
    <3> QED
      BY <1>2, <2>1, <3>1
  <2>2. CASE cpu.q # <<>>
    <3>1. /\ CpuSound(cpu') /\ cpu'.cur = Head(cpu.q) /\ Head(cpu.q) \in Tasks /\ Head(cpu.q) # t
          /\ cpu.st[Head(cpu.q)] = "READY"
          /\ cpu'.st = [[cpu.st EXCEPT ![t] = "BLOCKED"] EXCEPT ![Head(cpu.q)] = "RUNNING"]
      BY <1>2, <1>4, <2>2, StopSound
    <3> QED
      BY <1>2, <3>1
  <2> QED
    BY <2>1, <2>2
<1>6. \A v \in Tasks : joining'[v] = IF v = t THEN u ELSE joining[v]
  BY <1>2, <1>4 DEF ThreadTypes
<1>7. /\ join_waiters' \in [Tasks -> Seq(Tasks)] /\ \A v \in Tasks \ {u} : join_waiters'[v] = join_waiters[v]
      /\ Once(join_waiters'[u]) /\ Members(join_waiters'[u]) = {t}
      /\ \A v \in Tasks : Members(join_waiters[v]) \subseteq Tasks
  <2>1. join_waiters[u] \in Seq(Tasks) /\ \A v \in Tasks : Members(join_waiters[v]) \subseteq Tasks
    BY SMTT(60), <1>2 DEF ThreadTypes, Members
  <2>2. Once(join_waiters[u]) /\ Members(join_waiters[u]) = {}
    BY <1>1, <2>1 DEF ThreadsInv, JoinQueues
  <2>3. /\ Append(join_waiters[u], t) \in Seq(Tasks) /\ Once(Append(join_waiters[u], t))
        /\ Members(Append(join_waiters[u], t)) = {t}
    BY SMTT(60), <2>1, <2>2, AppendFacts
  <2> QED
    BY <1>2, <1>4, <2>1, <2>3 DEF ThreadTypes
<1>8. ThreadLists' /\ Freed' /\ Counters' /\ Space' /\ Parents' /\ cpu'.st[Leader] # "UNUSED"
  <2>1. \A v \in Tasks : /\ cpu'.st[v] = "UNUSED" <=> cpu.st[v] = "UNUSED"
                         /\ cpu'.st[v] = "ZOMBIE" <=> cpu.st[v] = "ZOMBIE"
    BY <1>2, <1>5
  <2> QED
    BY <1>4, <2>1, SameLives
<1>9. ThreadCpu'
  BY <1>5, <1>6, TasksAssumption DEF ThreadCpu
<1>10. ThreadTypes'
  BY <1>2, <1>4, <1>7 DEF ThreadTypes
<1>11. Asleep'
  <2>1. \A v \in asleep : v \in Tasks \ {t} /\ cpu.st[v] = "BLOCKED" /\ joining[v] = NULL
    BY <1>2 DEF ThreadsInv, Asleep, ThreadTypes
  <2>2. \A v \in asleep : cpu'.st[v] = "BLOCKED" /\ v # cpu'.cur /\ joining'[v] = NULL
    BY <1>5, <1>6, <2>1
  <2> QED
    BY <1>4, <2>2 DEF Asleep
<1>12. Joins'
  <2> SUFFICES ASSUME NEW v \in Tasks, joining'[v] # NULL
               PROVE  /\ joining'[v] # Leader /\ joining'[v] # v /\ joining'[v] \notin detached
                      /\ frees[joining'[v]] = 0 /\ cpu'.st[joining'[v]] # "UNUSED"
                      /\ \A w \in Tasks : joining'[w] = joining'[v] => w = v
                      /\ cpu'.st[v] = "BLOCKED" =>
                            v \in Members(join_waiters'[joining'[v]]) /\ cpu'.st[joining'[v]] # "ZOMBIE"
                      /\ cpu'.st[v] # "BLOCKED" =>
                            cpu'.st[v] \in {"READY", "RUNNING"} /\ cpu'.st[joining'[v]] = "ZOMBIE"
    BY SMTT(60), <1>4 DEF Joins
  <2>1. CASE v = t
    BY <1>1, <1>3, <1>5, <1>6, <1>7, <2>1
  <2>2. CASE v # t
    <3>1. joining'[v] = joining[v] /\ joining[v] \in Tasks \ {u} /\ Joins
      BY <1>1, <1>2, <1>6, <2>2 DEF ThreadsInv, ThreadTypes
    <3>2. join_waiters'[joining[v]] = join_waiters[joining[v]]
      BY <1>7, <3>1
    <3>3. \A w \in Tasks : joining'[w] = joining[v] => w = v
      BY SMTT(60), <1>6, <3>1 DEF Joins
    <3>4. cpu'.st[v] = "BLOCKED" <=> cpu.st[v] = "BLOCKED"
      BY <1>5, <2>2
    <3>5. cpu.st[v] \in {"READY", "RUNNING"} => cpu'.st[v] \in {"READY", "RUNNING"}
      BY <1>5, <2>2
    <3>6. /\ cpu'.st[joining[v]] = "UNUSED" <=> cpu.st[joining[v]] = "UNUSED"
          /\ cpu'.st[joining[v]] = "ZOMBIE" <=> cpu.st[joining[v]] = "ZOMBIE"
      BY <1>2, <1>5, <3>1
    <3> QED
      BY <3>1, <3>2, <3>3, <3>4, <3>5, <3>6 DEF Joins
  <2> QED
    BY <2>1, <2>2
<1>13. JoinQueues'
  <2> SUFFICES ASSUME NEW w \in Tasks
               PROVE  /\ Once(join_waiters'[w])
                      /\ \A v \in Members(join_waiters'[w]) : joining'[v] = w /\ cpu'.st[v] = "BLOCKED"
    BY DEF JoinQueues
  <2>1. CASE w = u
    BY <1>5, <1>6, <1>7, <2>1
  <2>2. CASE w # u
    <3>1. \A v \in Members(join_waiters[w]) : v \in Tasks \ {t} /\ cpu.st[v] = "BLOCKED" /\ joining[v] = w
      BY SMTT(60), <1>2, <1>7, TasksAssumption DEF ThreadsInv, JoinQueues
    <3> QED
      BY <1>5, <1>6, <1>7, <2>2, <3>1 DEF ThreadsInv, JoinQueues
  <2> QED
    BY <2>1, <2>2
<1> QED
  BY <1>8, <1>9, <1>10, <1>11, <1>12, <1>13 DEF ThreadsInv

(* Back from wait_event, the joiner finds its target gone and frees the    *)
(* PCB; it never has to sleep again.                                       *)
LEMMA JoinResumeStep ==
    ASSUME ThreadsInv, NEW t \in Tasks, JoinResume(t)
    PROVE  ThreadsInv'
<1> DEFINE u == joining[t]
<1>1. cpu.cur = t /\ u # NULL /\ UNCHANGED <<thread_parent, thread_list, detached, asleep>>
  BY DEF JoinResume
<1>2. ThreadTypes /\ u \in Tasks /\ Joins /\ ThreadCpu
  BY <1>1 DEF ThreadsInv, ThreadTypes
<1>3. cpu.st[u] = "ZOMBIE"
  <2>1. CASE cpu.st[t] = "BLOCKED"
    BY <1>1, <1>2, <2>1 DEF JoinResume, ThreadCpu
  <2>2. CASE cpu.st[t] # "BLOCKED"
    BY <1>1, <1>2, <2>2 DEF Joins
  <2> QED
    BY <2>1, <2>2
<1>4. proc_free_pcb(u) /\ joining' = [joining EXCEPT ![t] = NULL] /\ UNCHANGED <<cpu, join_waiters>>
  BY <1>3 DEF JoinResume
<1>5. /\ u # Leader /\ u # t /\ frees[u] = 0 /\ (\A v \in Tasks : joining[v] = u => v = t)
      /\ cpu.st[t] \in {"READY", "RUNNING"} /\ cpu.st[t] # "BLOCKED"
  BY <1>1, <1>2, <1>3 DEF Joins
<1> HIDE DEF u
<1>6. /\ frees' \in [Tasks -> {0, 1}] /\ frees'[u] = 1
      /\ \A v \in Tasks \ {u} : frees'[v] = frees[v]
      /\ mm_refcount' \in [Tasks -> Nat] /\ destroyed' \in BOOLEAN
      /\ destroyed' => destroyed \/ thread_parent[u] = NULL
      /\ Counters'
  BY <1>1, <1>2, <1>4, <1>5, FreeOnce
<1>7. \A v \in Tasks : joining'[v] = IF v = t THEN NULL ELSE joining[v]
  BY <1>2, <1>4 DEF ThreadTypes
<1>8. ThreadCpu'
  BY <1>1, <1>2, <1>4, <1>5 DEF ThreadCpu, CpuSound
<1>9. ThreadTypes'
  BY <1>1, <1>2, <1>4, <1>6 DEF ThreadTypes
<1>10. Asleep'
  BY <1>1, <1>2, <1>4, <1>7 DEF ThreadsInv, Asleep, ThreadTypes
<1>11. Joins'
  <2>1. \A v \in Tasks : joining'[v] # NULL =>
            v # t /\ joining'[v] = joining[v] /\ joining[v] \in Tasks \ {u}
    BY <1>2, <1>5, <1>7 DEF ThreadTypes
  <2> QED
    BY SMTT(60), <1>1, <1>2, <1>4, <1>6, <2>1 DEF Joins
<1>12. JoinQueues'
  <2>1. \A v \in Tasks : Members(join_waiters[v]) \subseteq Tasks
    BY SMTT(60), <1>2 DEF ThreadTypes, Members
  <2> QED
    BY SMTT(60), <1>4, <1>5, <1>7, <2>1 DEF ThreadsInv, JoinQueues
<1>13. ThreadLists' /\ Parents' /\ cpu'.st[Leader] # "UNUSED"
  BY <1>1, <1>4 DEF ThreadsInv, ThreadLists, Parents
<1>14. Freed'
  BY <1>2, <1>3, <1>4, <1>6 DEF ThreadsInv, Freed
<1>15. Space'
  BY <1>1, <1>2, <1>3, <1>4, <1>5, <1>6 DEF ThreadsInv, Space
<1> QED
  BY <1>6, <1>8, <1>9, <1>10, <1>11, <1>12, <1>13, <1>14, <1>15 DEF ThreadsInv

(* proc_thread_detach: the target is alive, so nothing is freed here. *)
LEMMA DetachStep ==
    ASSUME OneOwner, ThreadsInv, NEW t \in Tasks, NEW u \in Tasks, proc_thread_detach(t, u)
    PROVE  ThreadsInv'
<1>1. /\ Runs(t) /\ (\A v \in Tasks : joining[v] # u) /\ u \in proc_find_by_tid
      /\ detached' = detached \cup {u}
      /\ UNCHANGED <<cpu, thread_parent, thread_list, join_waiters, joining, asleep>>
  BY DEF proc_thread_detach, Detachable
<1>2. cpu.st[u] # "ZOMBIE"
  BY <1>1, FoundAlive
<1>3. UNCHANGED <<mm_refcount, frees, destroyed>>
  BY <1>2 DEF proc_thread_detach
<1>4. ThreadTypes' /\ ThreadCpu' /\ Asleep'
  BY <1>1, <1>3 DEF ThreadsInv, ThreadTypes, ThreadCpu, CpuSound, Asleep
<1>5. Joins' /\ JoinQueues'
  BY <1>1, <1>3 DEF ThreadsInv, Joins, JoinQueues
<1>6. ThreadLists' /\ Freed' /\ Counters' /\ Space' /\ Parents' /\ cpu'.st[Leader] # "UNUSED"
  BY <1>1, <1>3, SameLives
<1> QED
  BY <1>4, <1>5, <1>6 DEF ThreadsInv

(* A thread goes to sleep. *)
LEMMA SleepStep ==
    ASSUME ThreadsInv, NEW t \in Tasks, ThreadSleeps(t)
    PROVE  ThreadsInv'
<1>1. /\ Runs(t) /\ cpu.q # <<>> /\ cpu' = BlockCurrent(cpu) /\ asleep' = asleep \cup {t}
      /\ UNCHANGED <<thread_parent, thread_list, detached, join_waiters, joining,
                     mm_refcount, frees, destroyed>>
  BY DEF ThreadSleeps
<1>2. /\ CpuSound(cpu) /\ cpu.cur = t /\ cpu.st[t] = "RUNNING" /\ cpu.st \in [Tasks -> TaskStates]
      /\ ThreadTypes /\ joining[t] = NULL
  BY <1>1, RunsRunning
<1> DEFINE h == Head(cpu.q)
<1>3. /\ CpuSound(cpu') /\ h \in Tasks /\ cpu.st[h] = "READY" /\ h # t /\ cpu'.cur = h
      /\ cpu'.st = [[cpu.st EXCEPT ![t] = "BLOCKED"] EXCEPT ![h] = "RUNNING"]
  BY <1>1, <1>2, BlockSound
<1> HIDE DEF h
<1>4. cpu'.st[t] = "BLOCKED" /\ cpu'.st[h] = "RUNNING" /\ \A u \in Tasks \ {t, h} : cpu'.st[u] = cpu.st[u]
  BY <1>2, <1>3
<1>5. ThreadLists' /\ Freed' /\ Counters' /\ Space' /\ Parents' /\ cpu'.st[Leader] # "UNUSED"
  <2>1. \A v \in Tasks : /\ cpu'.st[v] = "UNUSED" <=> cpu.st[v] = "UNUSED"
                         /\ cpu'.st[v] = "ZOMBIE" <=> cpu.st[v] = "ZOMBIE"
    BY <1>2, <1>3, <1>4
  <2> QED
    BY <1>1, <2>1, SameLives
<1>6. ThreadCpu' /\ ThreadTypes'
  BY <1>1, <1>2, <1>3, <1>4 DEF ThreadCpu, ThreadTypes
<1>7. Asleep'
  <2>1. \A v \in asleep : v \in Tasks \ {t, h} /\ cpu.st[v] = "BLOCKED" /\ joining[v] = NULL
    BY <1>2, <1>3 DEF ThreadsInv, Asleep, ThreadTypes
  <2> QED
    BY SMTT(60), <1>1, <1>2, <1>3, <1>4, <2>1 DEF Asleep
<1>8. Joins'
  <2>1. \A v \in Tasks : joining[v] # NULL => joining[v] \in Tasks /\ v # t
    BY <1>2 DEF ThreadTypes
  <2> QED
    BY SMTT(60), <1>1, <1>2, <1>3, <1>4, <2>1 DEF ThreadsInv, Joins
<1>9. JoinQueues'
  <2>1. \A u \in Tasks : \A v \in Members(join_waiters[u]) : v \in Tasks
    BY SMTT(60), <1>2 DEF ThreadTypes, Members
  <2>2. \A u \in Tasks : \A v \in Members(join_waiters[u]) : v \notin {t, h}
    BY SMTT(60), <1>2, <1>3, <2>1 DEF ThreadsInv, JoinQueues
  <2> QED
    BY SMTT(60), <1>1, <1>4, <2>1, <2>2 DEF ThreadsInv, JoinQueues
<1> QED
  BY <1>5, <1>6, <1>7, <1>8, <1>9 DEF ThreadsInv

(* A thread wakes a sleeper. *)
LEMMA WakeStep ==
    ASSUME ThreadsInv, NEW t \in Tasks, NEW u \in Tasks, WakeThread(t, u)
    PROVE  ThreadsInv'
<1>1. /\ Runs(t) /\ u \in asleep /\ cpu' = MakeReady(cpu, u) /\ asleep' = asleep \ {u}
      /\ UNCHANGED <<thread_parent, thread_list, detached, join_waiters, joining,
                     mm_refcount, frees, destroyed>>
  BY DEF WakeThread
<1>2. /\ CpuSound(cpu) /\ cpu.cur = t /\ cpu.st[t] = "RUNNING" /\ cpu.st \in [Tasks -> TaskStates]
      /\ ThreadTypes
  BY <1>1, RunsRunning
<1>3. cpu.st[u] = "BLOCKED" /\ joining[u] = NULL /\ u # t
  BY <1>1, <1>2 DEF ThreadsInv, Asleep
<1>4. CpuSound(cpu') /\ cpu'.cur = t /\ cpu'.st = [cpu.st EXCEPT ![u] = "READY"]
  BY <1>1, <1>2, <1>3, WakeSound
<1>5. cpu'.st[u] = "READY" /\ \A v \in Tasks \ {u} : cpu'.st[v] = cpu.st[v]
  BY <1>2, <1>4
<1>6. ThreadLists' /\ Freed' /\ Counters' /\ Space' /\ Parents' /\ cpu'.st[Leader] # "UNUSED"
  <2>1. \A v \in Tasks : /\ cpu'.st[v] = "UNUSED" <=> cpu.st[v] = "UNUSED"
                         /\ cpu'.st[v] = "ZOMBIE" <=> cpu.st[v] = "ZOMBIE"
    BY <1>3, <1>5
  <2> QED
    BY <1>1, <2>1, SameLives
<1>7. ThreadCpu' /\ ThreadTypes'
  BY <1>1, <1>2, <1>3, <1>4, <1>5 DEF ThreadCpu, ThreadTypes
<1>8. Asleep'
  <2>1. \A v \in asleep : v \in Tasks \ {t} /\ cpu.st[v] = "BLOCKED" /\ joining[v] = NULL
    BY <1>2 DEF ThreadsInv, Asleep, ThreadTypes
  <2> QED
    BY <1>1, <1>4, <1>5, <2>1 DEF Asleep
<1>9. Joins'
  <2>1. \A v \in Tasks : joining[v] # NULL => joining[v] \in Tasks /\ v # u
    BY <1>2, <1>3 DEF ThreadTypes
  <2> QED
    BY SMTT(60), <1>1, <1>2, <1>3, <1>5, <2>1 DEF ThreadsInv, Joins
<1>10. JoinQueues'
  <2>1. \A w \in Tasks : \A v \in Members(join_waiters[w]) : v \in Tasks
    BY SMTT(60), <1>2 DEF ThreadTypes, Members
  <2>2. \A w \in Tasks : \A v \in Members(join_waiters[w]) : v # u
    BY SMTT(60), <1>3, <2>1, TasksAssumption DEF ThreadsInv, JoinQueues
  <2> QED
    BY <1>1, <1>5, <2>1, <2>2 DEF ThreadsInv, JoinQueues
<1> QED
  BY <1>6, <1>7, <1>8, <1>9, <1>10 DEF ThreadsInv

(* The leader goes last: nothing runs, waits or is listed any more. *)
LEMMA LeaderStep ==
    ASSUME ThreadsInv, LeaderReaped
    PROVE  ThreadsInv'
<1>1. /\ Runs(Leader) /\ frees[Leader] = 0 /\ Leader \in Tasks
      /\ \A t \in Tasks \ {Leader} : cpu.st[t] = "UNUSED" \/ frees[t] > 0
      /\ cpu' = [cpu EXCEPT !.st[Leader] = "ZOMBIE"] /\ proc_free_pcb(Leader)
      /\ UNCHANGED <<thread_parent, thread_list, detached, join_waiters, joining, asleep>>
  BY LeaderAssumption DEF LeaderReaped
<1>2. /\ CpuSound(cpu) /\ cpu.cur = Leader /\ cpu.st[Leader] = "RUNNING"
      /\ cpu.st \in [Tasks -> TaskStates] /\ ThreadTypes /\ joining[Leader] = NULL
      /\ Leader \notin asleep
  BY <1>1, RunsRunning
<1>3. CpuSound(cpu') /\ cpu'.cur = Leader /\ cpu'.st = [cpu.st EXCEPT ![Leader] = "ZOMBIE"]
  BY SMTT(60), <1>1, <1>2, StateSound DEF TaskStates
<1>4. cpu'.st[Leader] = "ZOMBIE" /\ \A u \in Tasks \ {Leader} : cpu'.st[u] = cpu.st[u]
  BY SMTT(60), <1>1, <1>2, <1>3
<1>5. \A u \in Tasks \ {Leader} : cpu.st[u] \in {"UNUSED", "ZOMBIE"}
  BY SMTT(60), <1>1, <1>2 DEF ThreadsInv, Freed, ThreadTypes
<1>6. /\ frees' \in [Tasks -> {0, 1}] /\ frees'[Leader] = 1
      /\ \A v \in Tasks \ {Leader} : frees'[v] = frees[v]
      /\ mm_refcount' \in [Tasks -> Nat] /\ destroyed' \in BOOLEAN /\ Counters'
  BY <1>1, FreeOnce
<1>7. asleep = {} /\ \A u \in Tasks : joining[u] = NULL
  BY <1>2, <1>5 DEF ThreadsInv, Asleep, Joins, ThreadTypes
<1>8. \A u \in Tasks : Members(join_waiters[u]) = {} /\ Members(thread_list[u]) = {}
  <2>1. \A u \in Tasks : Members(join_waiters[u]) \subseteq Tasks /\ Members(thread_list[u]) \subseteq Tasks
    BY SMTT(60), <1>2 DEF ThreadTypes, Members
  <2>2. \A u \in Tasks : Members(join_waiters[u]) = {}
    BY SMTT(60), <1>7, <2>1, TasksAssumption DEF ThreadsInv, JoinQueues
  <2>3. thread_parent[Leader] = NULL
    BY <1>1 DEF ThreadsInv, Parents
  <2>4. \A u \in Tasks : Members(thread_list[u]) = {}
    BY SMTT(60), <1>5, <2>1, <2>3, TasksAssumption DEF ThreadsInv, ThreadLists
  <2> QED
    BY <2>2, <2>4
<1>9. ThreadCpu' /\ ThreadTypes' /\ Asleep'
  BY <1>1, <1>2, <1>3, <1>4, <1>6, <1>7 DEF ThreadCpu, ThreadTypes, Asleep
<1>10. Joins' /\ JoinQueues' /\ ThreadLists'
  BY <1>1, <1>7, <1>8 DEF ThreadsInv, Joins, JoinQueues, ThreadLists
<1>11. Freed'
  BY <1>4, <1>6 DEF ThreadsInv, Freed
<1>12. Space' /\ Parents'
  BY <1>1, <1>4, <1>5 DEF ThreadsInv, Space, Parents
<1> QED
  BY <1>4, <1>6, <1>9, <1>10, <1>11, <1>12 DEF ThreadsInv

(* The leader is alone. *)
LEMMA ThreadsInvInit == ThreadsInit => ThreadsInv
<1> SUFFICES ASSUME ThreadsInit
             PROVE  ThreadsInv
  OBVIOUS
<1>1. /\ cpu = [cur |-> Leader, q |-> <<>>,
                st |-> [t \in Tasks |-> IF t = Leader THEN "RUNNING" ELSE "UNUSED"]]
      /\ ThreadDataInit /\ Leader \in Tasks
  BY LeaderAssumption DEF ThreadsInit
<1>2. cpu.cur = Leader /\ cpu.st[Leader] = "RUNNING" /\ \A t \in Tasks \ {Leader} : cpu.st[t] = "UNUSED"
  BY <1>1
<1>3. CpuSound(cpu)
  BY SMTT(60), <1>1 DEF CpuSound, TaskStates, Once, Members
<1>4. ThreadCpu /\ cpu.st[Leader] # "UNUSED"
  BY <1>2, <1>3 DEF ThreadCpu
<1>5. ThreadTypes
  <2>1. <<>> \in Seq(Tasks)
    BY SMTT(60)
  <2> QED
    BY <1>1, <2>1 DEF ThreadDataInit, ThreadTypes
<1>6. \A t \in Tasks : Members(join_waiters[t]) = {} /\ Members(thread_list[t]) = {} /\ Once(join_waiters[t])
  BY SMTT(60), <1>1 DEF ThreadDataInit, Members, Once
<1>7. Asleep /\ Joins /\ JoinQueues /\ ThreadLists /\ Freed
  BY SMTT(60), <1>1, <1>6 DEF ThreadDataInit, Asleep, Joins, JoinQueues, ThreadLists, Freed
<1>8. Counters /\ Space /\ Parents
  BY SMTT(60), <1>1 DEF ThreadDataInit, Counters, Space, Parents
<1> QED
  BY <1>4, <1>5, <1>7, <1>8 DEF ThreadsInv

(* One case per operation on threads. *)
LEMMA ThreadsInvNext == OneOwner /\ ThreadsInv /\ [ThreadsNext]_threadVars => ThreadsInv'
<1> SUFFICES ASSUME OneOwner, ThreadsInv, [ThreadsNext]_threadVars
             PROVE  ThreadsInv'
  OBVIOUS
<1>1. ASSUME NEW t \in Tasks, NEW u \in Tasks,
             \/ proc_create_user_thread(t, u)
             \/ CreateFails(t, u)
             \/ proc_create_kernel_thread(t, u)
             \/ proc_thread_join(t, u)
             \/ proc_thread_detach(t, u)
             \/ WakeThread(t, u)
      PROVE  ThreadsInv'
  BY <1>1, CreateUserStep, CreateFailsStep, CreateKernelStep, JoinStep, DetachStep, WakeStep
<1>2. ASSUME NEW t \in Tasks, proc_thread_exit(t) \/ ExitSchedule(t) \/ JoinResume(t) \/ ThreadSleeps(t)
      PROVE  ThreadsInv'
  BY <1>2, DetachedExitStep, JoinableExitStep, ExitScheduleStep, JoinResumeStep, SleepStep
<1>3. CASE UNCHANGED threadVars
  BY SMTT(60), <1>3 DEF threadVars, ThreadsInv, ThreadCpu, CpuSound, ThreadTypes, Asleep, Joins, JoinQueues,
              ThreadLists, Freed, Counters, Space, Parents
<1> QED
  BY <1>1, <1>2, <1>3, LeaderStep DEF ThreadsNext

(* The invariant holds throughout. *)
LEMMA ThreadsSafe == OneOwner => (ThreadsSpec => []ThreadsInv)
<1> SUFFICES ASSUME OneOwner
             PROVE  ThreadsSpec => []ThreadsInv
  OBVIOUS
<1>1. ThreadsInv /\ [ThreadsNext]_threadVars => ThreadsInv'
  BY ThreadsInvNext
<1> QED
  BY <1>1, ThreadsInvInit, PTL DEF ThreadsSpec

(* proc_free_pcb runs at most once per PCB, whatever the order of exit,    *)
(* join and detach, and nothing points to what it freed.                   *)
THEOREM PcbsFreedOnce == OneOwner => (ThreadsSpec => []FreedOnce)
<1>1. ThreadsInv => FreedOnce
  <2> SUFFICES ASSUME ThreadsInv, NEW t \in Tasks, frees[t] > 0
               PROVE  /\ t \notin Members(cpu.q) /\ t \notin asleep
                      /\ \A u \in Tasks : t \notin Members(thread_list[u]) /\ joining[u] # t
                      /\ join_waiters[t] = <<>>
    BY SMTT(60) DEF FreedOnce, ThreadsInv, ThreadTypes
  <2>1. ThreadTypes /\ frees[t] = 1 /\ cpu.st[t] = "ZOMBIE" /\ CpuSound(cpu)
    BY SMTT(60) DEF ThreadsInv, ThreadTypes, Freed, ThreadCpu
  <2>2. t \notin Members(cpu.q) /\ t \notin asleep
    BY <2>1 DEF CpuSound, ThreadsInv, Asleep
  <2>3. \A u \in Tasks : t \notin Members(thread_list[u])
    BY <2>1 DEF ThreadsInv, ThreadLists
  <2>4. \A u \in Tasks : joining[u] # t
    BY SMTT(60), <2>1, TasksAssumption DEF ThreadsInv, Joins
  <2>5. join_waiters[t] \in Seq(Tasks) /\ Members(join_waiters[t]) \subseteq Tasks
    BY SMTT(60), <2>1 DEF ThreadTypes, Members
  <2>6. Members(join_waiters[t]) = {}
    BY <2>4, <2>5 DEF ThreadsInv, JoinQueues
  <2>7. join_waiters[t] = <<>>
    <3>1. DOMAIN join_waiters[t] = 1 .. Len(join_waiters[t]) /\ Len(join_waiters[t]) \in Nat
      BY SMTT(60), <2>5
    <3>2. DOMAIN join_waiters[t] = {}
      BY <2>6 DEF Members
    <3>3. 1 \notin DOMAIN join_waiters[t]
      BY <3>2
    <3>4. Len(join_waiters[t]) = 0
      BY SMTT(60), <3>1, <3>3
    <3> QED
      BY SMTT(60), <2>5, <3>4
  <2> QED
    BY <2>2, <2>3, <2>4, <2>7
<1> QED
  BY <1>1, ThreadsSafe, PTL

(* proc_thread_exit finds every joiner: who sleeps in proc_thread_join is  *)
(* on the queue of a thread that has not exited.                           *)
THEOREM JoinersAreFound == OneOwner => (ThreadsSpec => []JoinersWillBeWoken)
<1>1. ThreadsInv => JoinersWillBeWoken
  BY DEF ThreadsInv, Joins, JoinersWillBeWoken
<1> QED
  BY <1>1, ThreadsSafe, PTL

(* The per-PCB mm_refcount keeps the address space until the last task of  *)
(* the process is gone, as long as no kernel thread borrows it.            *)
THEOREM SpaceOutlivesThreads == OneOwner => (ThreadsSpec => []AddressSpaceOutlivesThreads)
<1>1. ThreadsInv => AddressSpaceOutlivesThreads
  BY DEF ThreadsInv, Space, OnlyUserThreads, AddressSpaceOutlivesThreads
<1> QED
  BY <1>1, ThreadsSafe, PTL

-----------------------------------------------------------------------------
(* Processes that reap their children before they exit (Orderly).          *)

ProcessCpu ==
    /\ CpuSound(cpu) /\ cpu.st[cpu.cur] # "READY" /\ cpu.st[cpu.cur] # "UNUSED"
    /\ sleeping \subseteq Tasks /\ \A t \in sleeping : cpu.st[t] = "BLOCKED" /\ t # cpu.cur

(* The types of the state. *)
ProcessTypes ==
    /\ parent \in [Tasks -> Tasks \cup {NULL}] /\ zombies \in [Tasks -> Seq(Tasks)]
    /\ freed \in Seq(Tasks) /\ pid \in [Tasks -> Nat] /\ bitmap \subseteq Nat /\ 0 \in bitmap

(* A child that is not reaped has a parent that has not exited. *)
Families ==
    \A t \in Tasks \ {Root} : cpu.st[t] # "UNUSED" =>
        /\ parent[t] \in Tasks \ {t}
        /\ t \notin Members(freed) => cpu.st[parent[t]] \notin {"UNUSED", "ZOMBIE"}

(* The first process never exits. *)
RootLives == cpu.st[Root] \notin {"UNUSED", "ZOMBIE"}

(* A zombie that is not freed is on the list of its own parent, once. *)
ZombieLists ==
    /\ \A t \in Members(freed) : cpu.st[t] = "ZOMBIE"
    /\ \A t \in Tasks : cpu.st[t] = "ZOMBIE" /\ t \notin Members(freed) => t \in Members(zombies[parent[t]])
    /\ \A p \in Tasks : Once(zombies[p])
    /\ \A p \in Tasks : \A t \in Members(zombies[p]) :
          parent[t] = p /\ cpu.st[t] = "ZOMBIE" /\ t \notin Members(freed)

(* The inductive invariant. *)
ProcessInv == ProcessCpu /\ ProcessTypes /\ Families /\ RootLives /\ ZombieLists /\ PidsUnique

(* What holds of the process that runs. *)
LEMMA ExecutesRunning ==
    ASSUME ProcessInv, NEW p \in Tasks, Executes(p)
    PROVE  /\ CpuSound(cpu) /\ cpu.cur = p /\ cpu.st[p] \notin {"READY", "UNUSED", "ZOMBIE"}
           /\ cpu.st \in [Tasks -> TaskStates] /\ ProcessTypes
           /\ sleeping \subseteq Tasks \ {p} /\ \A t \in sleeping : cpu.st[t] = "BLOCKED"
           /\ Members(freed) \subseteq Tasks /\ \A t \in Tasks : Members(zombies[t]) \subseteq Tasks
<1>1. /\ CpuSound(cpu) /\ cpu.cur = p /\ cpu.st[p] \notin {"READY", "UNUSED", "ZOMBIE"} /\ ProcessTypes
      /\ sleeping \subseteq Tasks \ {p} /\ \A t \in sleeping : cpu.st[t] = "BLOCKED"
  BY DEF ProcessInv, ProcessCpu, Executes
<1>2. cpu.st \in [Tasks -> TaskStates]
  BY <1>1 DEF CpuSound
<1>3. Members(freed) \subseteq Tasks /\ \A t \in Tasks : Members(zombies[t]) \subseteq Tasks
  BY SMTT(60), <1>1 DEF ProcessTypes, Members
<1> QED
  BY <1>1, <1>2, <1>3

(* A step that leaves every family as it was. *)
LEMMA SameFamilies ==
    ASSUME ProcessInv, UNCHANGED <<parent, pid, bitmap, zombies, freed>>,
           \A u \in Tasks : /\ cpu'.st[u] = "UNUSED" <=> cpu.st[u] = "UNUSED"
                            /\ cpu'.st[u] = "ZOMBIE" <=> cpu.st[u] = "ZOMBIE"
    PROVE  ProcessTypes' /\ Families' /\ RootLives' /\ ZombieLists' /\ PidsUnique'
<1>1. /\ ProcessTypes /\ Members(freed) \subseteq Tasks
      /\ \A u \in Tasks : Members(zombies[u]) \subseteq Tasks
  BY SMTT(60) DEF ProcessInv, ProcessTypes, Members
<1>2. ProcessTypes' /\ RootLives'
  BY <1>1, ProcessAssumption DEF ProcessInv, ProcessTypes, RootLives
<1>3. Families'
  BY <1>1 DEF ProcessInv, Families, ProcessTypes
<1>4. ZombieLists'
  BY <1>1 DEF ProcessInv, ZombieLists
<1>5. PidsUnique'
  BY <1>1 DEF ProcessInv, PidsUnique
<1> QED
  BY <1>2, <1>3, <1>4, <1>5

(* The current process stops: blocked or gone, with the head of the queue  *)
(* on the CPU if there is one.                                             *)
LEMMA Stopped ==
    ASSUME ProcessInv, NEW p \in Tasks, Executes(p), NEW x \in {"BLOCKED", "ZOMBIE"},
           cpu' = schedule([cpu EXCEPT !.st[cpu.cur] = x])
    PROVE  /\ CpuSound(cpu') /\ cpu'.st[p] = x /\ cpu'.st[cpu'.cur] # "READY" /\ cpu'.st[cpu'.cur] # "UNUSED"
           /\ cpu.q # <<>> => cpu'.cur # p
           /\ \A u \in sleeping : cpu'.st[u] = "BLOCKED" /\ u # cpu'.cur
           /\ \A u \in Tasks \ {p} : cpu'.st[u] # cpu.st[u] => cpu.st[u] = "READY" /\ cpu'.st[u] = "RUNNING"
<1>1. /\ CpuSound(cpu) /\ cpu.cur = p /\ cpu.st[p] \notin {"READY", "UNUSED", "ZOMBIE"}
      /\ cpu.st \in [Tasks -> TaskStates]
      /\ sleeping \subseteq Tasks \ {p} /\ \A u \in sleeping : cpu.st[u] = "BLOCKED"
  BY ExecutesRunning
<1> DEFINE h == Head(cpu.q)
<1>2. cpu.st[cpu.cur] # "READY"
  BY <1>1
<1>3. /\ CpuSound(cpu')
      /\ cpu.q = <<>> => /\ cpu'.cur = cpu.cur /\ cpu'.q = <<>>
                         /\ cpu'.st = [cpu.st EXCEPT ![cpu.cur] = x]
      /\ cpu.q # <<>> =>
           /\ h \in Tasks /\ cpu.st[h] = "READY" /\ h # cpu.cur /\ cpu'.cur = h
           /\ cpu'.st = [[cpu.st EXCEPT ![cpu.cur] = x] EXCEPT ![h] = "RUNNING"]
  <2>1. CASE x = "BLOCKED"
    <3>1. cpu' = schedule([cpu EXCEPT !.st[cpu.cur] = "BLOCKED"])
      BY <2>1
    <3> QED
      BY <1>1, <1>2, <2>1, <3>1, StopSound
  <2>2. CASE x = "ZOMBIE"
    <3>1. cpu' = schedule([cpu EXCEPT !.st[cpu.cur] = "ZOMBIE"])
      BY <2>2
    <3> QED
      BY <1>1, <1>2, <2>2, <3>1, StopSound
  <2> QED
    BY <2>1, <2>2
<1> HIDE DEF h
<1>4. CASE cpu.q = <<>>
  BY <1>1, <1>3, <1>4
<1>5. CASE cpu.q # <<>>
  BY SMTT(60), <1>1, <1>3, <1>5
<1> QED
  BY <1>4, <1>5

(* proc_fork. *)
LEMMA ForkStep ==
    ASSUME ProcessInv, NEW p \in Tasks, NEW t \in Tasks, proc_fork(p, t)
    PROVE  ProcessInv'
<1>1. /\ Executes(p) /\ cpu.st[t] = "UNUSED" /\ FreePids # {}
      /\ pid' = [pid EXCEPT ![t] = FirstZero] /\ bitmap' = bitmap \cup {FirstZero}
      /\ parent' = [parent EXCEPT ![t] = p] /\ cpu' = MakeReady(cpu, t)
      /\ UNCHANGED <<zombies, sleeping, freed>>
  BY DEF proc_fork, pid_alloc
<1>2. /\ CpuSound(cpu) /\ cpu.cur = p /\ cpu.st[p] \notin {"READY", "UNUSED", "ZOMBIE"}
      /\ cpu.st \in [Tasks -> TaskStates] /\ ProcessTypes
      /\ sleeping \subseteq Tasks \ {p} /\ (\A u \in sleeping : cpu.st[u] = "BLOCKED")
      /\ Members(freed) \subseteq Tasks /\ \A u \in Tasks : Members(zombies[u]) \subseteq Tasks
  BY <1>1, ExecutesRunning
<1>3. CpuSound(cpu') /\ cpu'.cur = p /\ cpu'.st = [cpu.st EXCEPT ![t] = "READY"]
  BY <1>1, <1>2, WakeSound
<1>4. cpu'.st[t] = "READY" /\ \A u \in Tasks \ {t} : cpu'.st[u] = cpu.st[u]
  BY <1>2, <1>3
<1>5. FirstZero \in Nat \ {0} /\ FirstZero \notin bitmap
  <2>1. FreePids \subseteq Nat \ {0} /\ FreePids \cap bitmap = {}
    BY SMTT(60), <1>2, ProcessAssumption DEF FreePids, ProcessTypes
  <2>2. \E n \in FreePids : \A k \in FreePids : n <= k
    BY <1>1, <2>1, LeastNumber
  <2>3. FirstZero \in FreePids
    BY <2>2 DEF FirstZero
  <2> QED
    BY <2>1, <2>3
<1>6. ProcessTypes' /\ ProcessCpu'
  BY <1>1, <1>2, <1>3, <1>4, <1>5 DEF ProcessTypes, ProcessCpu
<1>7. Families'
  <2>1. \A u \in Tasks \ {t} : parent'[u] = parent[u]
    BY <1>1, <1>2 DEF ProcessTypes
  <2>2. parent'[t] = p /\ p # t
    BY <1>1, <1>2 DEF ProcessTypes
  <2> QED
    BY SMTT(60), <1>1, <1>2, <1>4, <2>1, <2>2 DEF ProcessInv, Families
<1>8. RootLives'
  BY <1>4, ProcessAssumption DEF ProcessInv, RootLives
<1>9. ZombieLists'
  <2>1. \A u \in Tasks \ {t} : parent'[u] = parent[u]
    BY <1>1, <1>2 DEF ProcessTypes
  <2>2. t \notin Members(freed) /\ \A u \in Tasks : t \notin Members(zombies[u])
    BY <1>1 DEF ProcessInv, ZombieLists
  <2>3. zombies' = zombies /\ freed' = freed
    BY <1>1
  <2>4. \A u \in Tasks : cpu'.st[u] = "ZOMBIE" => u # t /\ cpu.st[u] = "ZOMBIE"
    BY <1>4
  <2>5. \A u \in Tasks \ {t} : cpu.st[u] = "ZOMBIE" => cpu'.st[u] = "ZOMBIE"
    BY <1>4
  <2>6. \A u \in Members(freed) : cpu'.st[u] = "ZOMBIE"
    BY <1>2, <2>2, <2>5 DEF ProcessInv, ZombieLists
  <2>7. \A u \in Tasks : cpu'.st[u] = "ZOMBIE" /\ u \notin Members(freed)
                           => u \in Members(zombies[parent'[u]])
    BY <2>1, <2>4 DEF ProcessInv, ZombieLists
  <2>8. \A q \in Tasks : \A u \in Members(zombies[q]) :
           parent'[u] = q /\ cpu'.st[u] = "ZOMBIE" /\ u \notin Members(freed)
    <3> SUFFICES ASSUME NEW q \in Tasks, NEW u \in Members(zombies[q])
                 PROVE  parent'[u] = q /\ cpu'.st[u] = "ZOMBIE" /\ u \notin Members(freed)
      OBVIOUS
    <3>1. u \in Tasks \ {t}
      BY <1>2, <2>2
    <3>2. parent[u] = q /\ cpu.st[u] = "ZOMBIE" /\ u \notin Members(freed)
      BY DEF ProcessInv, ZombieLists
    <3> QED
      BY <2>1, <2>5, <3>1, <3>2
  <2> QED
    BY <2>3, <2>6, <2>7, <2>8 DEF ProcessInv, ZombieLists
<1>10. PidsUnique'
  <2>1. pid'[t] = FirstZero /\ \A u \in Tasks \ {t} : pid'[u] = pid[u]
    BY <1>1, <1>2 DEF ProcessTypes
  <2> QED
    BY SMTT(60), <1>1, <1>4, <1>5, <2>1 DEF ProcessInv, PidsUnique
<1> QED
  BY <1>6, <1>7, <1>8, <1>9, <1>10 DEF ProcessInv

(* proc_exit, all children reaped: the parent has not exited, so its list  *)
(* node is its own, and the zombie is added to it.                         *)
LEMMA ExitStep ==
    ASSUME Orderly, ProcessInv, NEW t \in Tasks, proc_exit(t)
    PROVE  ProcessInv'
<1> DEFINE p == parent[t]
<1>1. /\ Executes(t) /\ t # Root /\ Children(t) = {} /\ zombies' = Linked(t)
      /\ cpu' = schedule([cpu EXCEPT !.st[cpu.cur] = "ZOMBIE"])
      /\ UNCHANGED <<parent, pid, bitmap, sleeping, freed>>
  BY DEF proc_exit, ExitCurrent
<1>2. /\ cpu.cur = t /\ cpu.st[t] \notin {"READY", "UNUSED", "ZOMBIE"} /\ ProcessTypes
      /\ sleeping \subseteq Tasks
      /\ Members(freed) \subseteq Tasks /\ \A u \in Tasks : Members(zombies[u]) \subseteq Tasks
  BY <1>1, ExecutesRunning
<1>3. t \notin Members(freed)
  BY <1>2 DEF ProcessInv, ZombieLists
<1>4. p \in Tasks \ {t} /\ cpu.st[p] \notin {"UNUSED", "ZOMBIE"}
  BY <1>1, <1>2, <1>3 DEF ProcessInv, Families
<1>5. \A g \in Tasks : p \notin Members(zombies[g]) /\ t \notin Members(zombies[g])
  BY <1>2, <1>4 DEF ProcessInv, ZombieLists
<1>6. zombies' = [zombies EXCEPT ![t] = <<>>, ![p] = Append(@, t)]
  BY <1>1, <1>5 DEF Linked
<1>7. Members(zombies[t]) = {}
  BY <1>1, <1>2 DEF ProcessInv, ZombieLists, Children
<1> HIDE DEF p
<1>8. /\ zombies' \in [Tasks -> Seq(Tasks)] /\ zombies'[t] = <<>>
      /\ Members(zombies'[p]) = Members(zombies[p]) \cup {t} /\ Once(zombies'[p])
      /\ \A g \in Tasks \ {p, t} : zombies'[g] = zombies[g]
  <2>1. /\ zombies[p] \in Seq(Tasks) /\ t \notin Members(zombies[p]) /\ Once(zombies[p])
    BY <1>2, <1>4, <1>5 DEF ProcessTypes, ProcessInv, ZombieLists
  <2>2. /\ Append(zombies[p], t) \in Seq(Tasks) /\ Once(Append(zombies[p], t))
        /\ Members(Append(zombies[p], t)) = Members(zombies[p]) \cup {t}
    BY SMTT(60), <2>1, AppendFacts
  <2>3. <<>> \in Seq(Tasks) /\ zombies \in [Tasks -> Seq(Tasks)]
    BY SMTT(60), <1>2 DEF ProcessTypes
  <2> QED
    BY <1>4, <1>6, <2>2, <2>3
<1>9. /\ CpuSound(cpu') /\ cpu'.st[t] = "ZOMBIE" /\ cpu'.st[cpu'.cur] # "READY" /\ cpu'.st[cpu'.cur] # "UNUSED"
      /\ \A u \in sleeping : cpu'.st[u] = "BLOCKED" /\ u # cpu'.cur
      /\ \A u \in Tasks \ {t} : cpu'.st[u] # cpu.st[u] => cpu.st[u] = "READY" /\ cpu'.st[u] = "RUNNING"
  BY <1>1, Stopped
<1>10. ProcessCpu' /\ ProcessTypes'
  BY <1>1, <1>2, <1>8, <1>9 DEF ProcessCpu, ProcessTypes
<1>11. Families'
  <2>1. \A u \in Tasks : u \notin Members(freed) => parent[u] # t
    BY <1>1 DEF Children
  <2> QED
    BY SMTT(60), <1>1, <1>2, <1>9, <2>1 DEF ProcessInv, Families
<1>12. RootLives'
  BY <1>1, <1>9, ProcessAssumption DEF ProcessInv, RootLives
<1>13. ZombieLists'
  <2>1. \A u \in Tasks \ {t} : cpu'.st[u] = "ZOMBIE" <=> cpu.st[u] = "ZOMBIE"
    BY <1>9
  <2>2. Members(zombies'[t]) = {} /\ Once(zombies'[t])
    BY SMTT(60), <1>8 DEF Members, Once
  <2>3. \A u \in Members(freed') : cpu'.st[u] = "ZOMBIE"
    BY <1>1, <1>2, <1>3, <2>1 DEF ProcessInv, ZombieLists
  <2>4. \A g \in Tasks : Once(zombies'[g])
    BY <1>8, <2>2 DEF ProcessInv, ZombieLists
  <2>5. \A g \in Tasks : \A u \in Tasks : u \in Members(zombies'[g]) <=>
            (g # t /\ u \in Members(zombies[g])) \/ (g = p /\ u = t)
    BY <1>2, <1>4, <1>8, <2>2
  <2>6. \A g \in Tasks : Members(zombies'[g]) \subseteq Tasks
    BY SMTT(60), <1>8 DEF Members
  <2>7. ASSUME NEW u \in Tasks, cpu'.st[u] = "ZOMBIE", u \notin Members(freed)
        PROVE  u \in Members(zombies'[parent[u]])
    <3>1. CASE u = t
      BY <1>4, <1>8, <3>1 DEF p
    <3>2. CASE u # t
      <4>1. cpu.st[u] = "ZOMBIE" /\ u # Root
        BY <2>1, <2>7, <3>2 DEF ProcessInv, RootLives
      <4>2. parent[u] \in Tasks /\ parent[u] # t /\ u \in Members(zombies[parent[u]])
        BY <1>1, <2>7, <4>1 DEF Children, ProcessInv, Families, ZombieLists
      <4> QED
        BY <2>5, <4>2
    <3> QED
      BY <3>1, <3>2
  <2>8. ASSUME NEW g \in Tasks, NEW u \in Members(zombies'[g])
        PROVE  parent[u] = g /\ cpu'.st[u] = "ZOMBIE" /\ u \notin Members(freed)
    <3>1. u \in Tasks
      BY <2>6
    <3>2. CASE u = t
      BY <1>3, <1>5, <1>9, <2>5, <3>1, <3>2 DEF p
    <3>3. CASE u # t
      BY <2>1, <2>5, <3>1, <3>3 DEF ProcessInv, ZombieLists
    <3> QED
      BY <3>2, <3>3
  <2> QED
    BY <1>1, <2>3, <2>4, <2>7, <2>8 DEF ZombieLists
<1>14. PidsUnique'
  BY SMTT(60), <1>1, <1>2, <1>9 DEF ProcessInv, PidsUnique
<1> QED
  BY <1>10, <1>11, <1>12, <1>13, <1>14 DEF ProcessInv

(* proc_wait4: a zombie child that has not been reaped leaves its list and *)
(* is reaped; or the caller blocks.                                        *)
LEMMA WaitStep ==
    ASSUME ProcessInv, NEW p \in Tasks, NEW t \in Tasks \cup {NULL}, proc_wait4(p, t)
    PROVE  ProcessInv'
<1>1. Executes(p) /\ UNCHANGED <<parent, pid, bitmap, sleeping>>
  BY DEF proc_wait4
<1>2. /\ CpuSound(cpu) /\ cpu.cur = p /\ cpu.st[p] \notin {"READY", "UNUSED", "ZOMBIE"} /\ ProcessTypes
      /\ sleeping \subseteq Tasks
      /\ Members(freed) \subseteq Tasks /\ \A u \in Tasks : Members(zombies[u]) \subseteq Tasks
  BY <1>1, ExecutesRunning
<1>3. CASE Matching(p, t) = <<>>
  <2>1. cpu' = schedule([cpu EXCEPT !.st[cpu.cur] = "BLOCKED"]) /\ UNCHANGED <<zombies, freed>>
    BY <1>3 DEF proc_wait4, BlockCurrent
  <2>2. /\ CpuSound(cpu') /\ cpu'.st[p] = "BLOCKED" /\ cpu'.st[cpu'.cur] # "READY"
        /\ cpu'.st[cpu'.cur] # "UNUSED"
        /\ \A u \in sleeping : cpu'.st[u] = "BLOCKED" /\ u # cpu'.cur
        /\ \A u \in Tasks \ {p} : cpu'.st[u] # cpu.st[u] => cpu.st[u] = "READY" /\ cpu'.st[u] = "RUNNING"
    BY <1>1, <2>1, Stopped
  <2>3. ProcessCpu'
    BY <1>1, <1>2, <2>2 DEF ProcessCpu
  <2>4. \A u \in Tasks : /\ cpu'.st[u] = "UNUSED" <=> cpu.st[u] = "UNUSED"
                         /\ cpu'.st[u] = "ZOMBIE" <=> cpu.st[u] = "ZOMBIE"
    BY <1>2, <2>2
  <2> QED
    BY <1>1, <2>1, <2>3, <2>4, SameFamilies DEF ProcessInv
<1>4. CASE Matching(p, t) # <<>>
  <2> DEFINE z == Head(Matching(p, t))
             S == IF t = NULL THEN Tasks ELSE {t}
  <2>1. /\ zombies' = [zombies EXCEPT ![p] = Keep(@, Tasks \ {z})] /\ freed' = Append(freed, z)
        /\ UNCHANGED cpu
    BY <1>4 DEF proc_wait4, Reap
  <2>2. zombies[p] \in Seq(Tasks) /\ Once(zombies[p]) /\ Members(zombies[p]) \subseteq Tasks
    BY <1>2 DEF ProcessTypes, ProcessInv, ZombieLists
  <2>3. Matching(p, t) \in Seq(Tasks) /\ Members(Matching(p, t)) = Members(zombies[p]) \cap S
    BY <2>2, KeepFacts DEF Matching
  <2>4. z \in Members(Matching(p, t))
    BY SMTT(60), <1>4, <2>3, TailFacts
  <2>5. z \in Tasks /\ z \in Members(zombies[p])
    BY <2>2, <2>3, <2>4
  <2> HIDE DEF z, S
  <2>6. parent[z] = p /\ cpu.st[z] = "ZOMBIE" /\ z \notin Members(freed)
    BY <2>5 DEF ProcessInv, ZombieLists
  <2>7. /\ Keep(zombies[p], Tasks \ {z}) \in Seq(Tasks) /\ Once(Keep(zombies[p], Tasks \ {z}))
        /\ Members(Keep(zombies[p], Tasks \ {z})) = Members(zombies[p]) \ {z}
    <3>1. /\ Keep(zombies[p], Tasks \ {z}) \in Seq(Tasks) /\ Once(Keep(zombies[p], Tasks \ {z}))
          /\ Members(Keep(zombies[p], Tasks \ {z})) = Members(zombies[p]) \cap (Tasks \ {z})
      BY <2>2, KeepFacts
    <3> QED
      BY <2>2, <3>1
  <2>8. /\ zombies' \in [Tasks -> Seq(Tasks)] /\ Once(zombies'[p])
        /\ Members(zombies'[p]) = Members(zombies[p]) \ {z}
        /\ \A g \in Tasks \ {p} : zombies'[g] = zombies[g]
    BY <1>2, <2>1, <2>7 DEF ProcessTypes
  <2>9. freed' \in Seq(Tasks) /\ Members(freed') = Members(freed) \cup {z}
    BY SMTT(60), <1>2, <2>1, <2>5, AppendFacts DEF ProcessTypes
  <2>10. ProcessCpu' /\ ProcessTypes' /\ RootLives'
    BY <1>1, <2>1, <2>8, <2>9 DEF ProcessInv, ProcessCpu, CpuSound, ProcessTypes, RootLives
  <2>11. Families'
    BY <1>1, <2>1, <2>9 DEF ProcessInv, Families
  <2>12. ZombieLists'
    <3>1. \A g \in Tasks : Once(zombies'[g])
      BY <2>8 DEF ProcessInv, ZombieLists
    <3>2. \A g \in Tasks : Members(zombies'[g]) = Members(zombies[g]) \ {z}
      <4>1. \A g \in Tasks \ {p} : z \notin Members(zombies[g])
        BY <2>6 DEF ProcessInv, ZombieLists
      <4> QED
        BY <2>8, <4>1
    <3>3. ASSUME NEW u \in Tasks, cpu.st[u] = "ZOMBIE", u \notin Members(freed')
          PROVE  u \in Members(zombies'[parent[u]])
      <4>1. u # z /\ u \notin Members(freed) /\ u # Root
        BY <2>9, <3>3 DEF ProcessInv, RootLives
      <4>2. parent[u] \in Tasks /\ u \in Members(zombies[parent[u]])
        BY <3>3, <4>1 DEF ProcessInv, Families, ZombieLists
      <4> QED
        BY <3>2, <4>1, <4>2
    <3>4. \A g \in Tasks : \A u \in Members(zombies'[g]) :
              parent[u] = g /\ cpu.st[u] = "ZOMBIE" /\ u \notin Members(freed')
      BY SMTT(60), <2>9, <3>2 DEF ProcessInv, ZombieLists
    <3>5. \A u \in Members(freed') : cpu.st[u] = "ZOMBIE"
      BY <2>6, <2>9 DEF ProcessInv, ZombieLists
    <3> QED
      BY <1>1, <2>1, <3>1, <3>3, <3>4, <3>5 DEF ZombieLists
  <2>13. PidsUnique'
    BY <1>1, <2>1, <2>9 DEF ProcessInv, PidsUnique
  <2> QED
    BY <2>10, <2>11, <2>12, <2>13 DEF ProcessInv
<1> QED
  BY <1>3, <1>4

(* A process goes to sleep. *)
LEMMA ProcessSleepStep ==
    ASSUME ProcessInv, NEW p \in Tasks, ProcessSleeps(p)
    PROVE  ProcessInv'
<1>1. /\ Executes(p) /\ cpu.q # <<>> /\ sleeping' = sleeping \cup {p}
      /\ cpu' = schedule([cpu EXCEPT !.st[cpu.cur] = "BLOCKED"])
      /\ UNCHANGED <<parent, pid, bitmap, zombies, freed>>
  BY DEF ProcessSleeps, BlockCurrent
<1>2. cpu.cur = p /\ cpu.st[p] \notin {"READY", "UNUSED", "ZOMBIE"} /\ sleeping \subseteq Tasks
  BY <1>1, ExecutesRunning
<1>3. /\ CpuSound(cpu') /\ cpu'.st[p] = "BLOCKED" /\ cpu'.st[cpu'.cur] # "READY"
      /\ cpu'.st[cpu'.cur] # "UNUSED" /\ cpu'.cur # p
      /\ \A u \in sleeping : cpu'.st[u] = "BLOCKED" /\ u # cpu'.cur
      /\ \A u \in Tasks \ {p} : cpu'.st[u] # cpu.st[u] => cpu.st[u] = "READY" /\ cpu'.st[u] = "RUNNING"
  BY <1>1, Stopped
<1>4. ProcessCpu'
  BY <1>1, <1>2, <1>3 DEF ProcessCpu
<1>5. \A u \in Tasks : /\ cpu'.st[u] = "UNUSED" <=> cpu.st[u] = "UNUSED"
                       /\ cpu'.st[u] = "ZOMBIE" <=> cpu.st[u] = "ZOMBIE"
  BY <1>2, <1>3
<1> QED
  BY <1>1, <1>4, <1>5, SameFamilies DEF ProcessInv

(* A process wakes a sleeper. *)
LEMMA ProcessWakeStep ==
    ASSUME ProcessInv, NEW p \in Tasks, NEW t \in Tasks, WakeProcess(p, t)
    PROVE  ProcessInv'
<1>1. /\ Executes(p) /\ t \in sleeping /\ cpu' = MakeReady(cpu, t) /\ sleeping' = sleeping \ {t}
      /\ UNCHANGED <<parent, pid, bitmap, zombies, freed>>
  BY DEF WakeProcess
<1>2. /\ CpuSound(cpu) /\ cpu.cur = p /\ cpu.st[p] \notin {"READY", "UNUSED", "ZOMBIE"}
      /\ cpu.st \in [Tasks -> TaskStates]
      /\ sleeping \subseteq Tasks \ {p} /\ \A u \in sleeping : cpu.st[u] = "BLOCKED"
  BY <1>1, ExecutesRunning
<1>3. CpuSound(cpu') /\ cpu'.cur = p /\ cpu'.st = [cpu.st EXCEPT ![t] = "READY"]
  BY <1>1, <1>2, WakeSound
<1>4. cpu'.st[t] = "READY" /\ \A u \in Tasks \ {t} : cpu'.st[u] = cpu.st[u]
  BY <1>2, <1>3
<1>5. ProcessCpu'
  BY <1>1, <1>2, <1>3, <1>4 DEF ProcessCpu
<1>6. \A u \in Tasks : /\ cpu'.st[u] = "UNUSED" <=> cpu.st[u] = "UNUSED"
                       /\ cpu'.st[u] = "ZOMBIE" <=> cpu.st[u] = "ZOMBIE"
  BY <1>1, <1>2, <1>4
<1> QED
  BY <1>1, <1>5, <1>6, SameFamilies DEF ProcessInv

(* The first process is alone. *)
LEMMA ProcessInvInit == ProcessInit => ProcessInv
<1> SUFFICES ASSUME ProcessInit
             PROVE  ProcessInv
  OBVIOUS
<1>1. /\ cpu = [cur |-> Root, q |-> <<>>,
                st |-> [t \in Tasks |-> IF t = Root THEN "RUNNING" ELSE "UNUSED"]]
      /\ ProcessDataInit /\ Root \in Tasks
  BY ProcessAssumption DEF ProcessInit
<1>2. cpu.cur = Root /\ cpu.st[Root] = "RUNNING" /\ \A t \in Tasks \ {Root} : cpu.st[t] = "UNUSED"
  BY <1>1
<1>3. CpuSound(cpu)
  BY SMTT(60), <1>1 DEF CpuSound, TaskStates, Once, Members
<1>4. ProcessCpu /\ RootLives /\ Families
  BY <1>1, <1>2, <1>3 DEF ProcessDataInit, ProcessCpu, RootLives, Families
<1>5. ProcessTypes
  <2>1. <<>> \in Seq(Tasks)
    BY SMTT(60)
  <2> QED
    BY SMTT(60), <1>1, <2>1 DEF ProcessDataInit, pid_alloc_init, ProcessTypes
<1>6. /\ Members(freed) = {} /\ \A t \in Tasks : Members(zombies[t]) = {} /\ Once(zombies[t])
  BY SMTT(60), <1>1 DEF ProcessDataInit, Members, Once
<1>7. ZombieLists
  BY <1>2, <1>6 DEF ZombieLists
<1>8. PidsUnique
  BY SMTT(60), <1>1, <1>2 DEF ProcessDataInit, pid_alloc_init, PidsUnique
<1> QED
  BY <1>4, <1>5, <1>7, <1>8 DEF ProcessInv

(* One case per operation on processes. *)
LEMMA ProcessInvNext == Orderly /\ ProcessInv /\ [ProcessNext]_procVars => ProcessInv'
<1> SUFFICES ASSUME Orderly, ProcessInv, [ProcessNext]_procVars
             PROVE  ProcessInv'
  OBVIOUS
<1>1. ASSUME NEW p \in Tasks, WaitReturns(p)
      PROVE  ProcessInv'
  BY <1>1 DEF WaitReturns, ProcessInv, ProcessCpu, CpuSound, ProcessTypes, Families, RootLives,
              ZombieLists, PidsUnique
<1>2. CASE UNCHANGED procVars
  BY <1>2 DEF procVars, ProcessInv, ProcessCpu, CpuSound, ProcessTypes, Families, RootLives,
              ZombieLists, PidsUnique
<1> QED
  BY <1>1, <1>2, ForkStep, ProcessWakeStep, WaitStep, ExitStep, ProcessSleepStep DEF ProcessNext

(* proc_fork gives each process a PID of its own and proc_exit leaves each *)
(* zombie on its own parent's list, once, so proc_wait4 reaps each once:   *)
(* for any number of processes that reap their children before they exit.  *)
THEOREM ZombiesReapedOnce ==
    Orderly => (ProcessSpec => [](PidsUnique /\ ZombiesListedOnce /\ ChildrenReaped))
<1> SUFFICES ASSUME Orderly
             PROVE  ProcessSpec => [](PidsUnique /\ ZombiesListedOnce /\ ChildrenReaped)
  OBVIOUS
<1>1. ProcessInv /\ [ProcessNext]_procVars => ProcessInv'
  BY ProcessInvNext
<1>2. ProcessInv => PidsUnique /\ ZombiesListedOnce /\ ChildrenReaped
  BY SMTT(60) DEF ProcessInv, ZombieLists, Once, Members, ZombiesListedOnce, ChildrenReaped
<1> QED
  BY <1>1, <1>2, ProcessInvInit, PTL DEF ProcessSpec

=============================================================================
