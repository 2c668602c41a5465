----------------------------- MODULE Scheduler -----------------------------
(***************************************************************************)
(* The scheduling-class framework (kernel/process/sched.c), its two        *)
(* classes (sched_rr.c, sched_prio.c) and schedule() of process.c.         *)
(*                                                                         *)
(* One CPU.  The running task changes the queues; the timer interrupt only *)
(* takes ticks off the running task's slice.  schedule() is not atomic: it *)
(* takes g_scheduler_lock only inside the enqueue and the dequeue, so a    *)
(* tick can fall between its steps.  The steps are "pick" (in CallSchedule *)
(* and its variants), "enqueue", "dequeue" and "switch".                   *)
(*                                                                         *)
(* highest_prio and active_expired of prio_rq_data_t and need_resched,     *)
(* which no caller consults, are left out.  The 128 levels and the slices  *)
(* of 100, 50, 20 and 10 ticks are constants.                              *)
(***************************************************************************)
EXTENDS Integers, Lists, FiniteSets

CONSTANTS Tasks,          \* the PCBs that can be created
          NULL,           \* no task: boot context, or nothing to run
          PRIO_MIN,       \* lowest priority level (127); PRIO_MAX is 0
          PRIO_DEFAULT,   \* 64
          RR_TIMESLICE,   \* RR_TIMESLICE_DEFAULT
          SliceTop, SliceHigh, SliceLow,   \* PRIO_TIMESLICE of 0, of 1..63, of 64..
          Policies,       \* the policies tasks are created with
          Priorities,     \* the "priority" arguments given to sched_set_policy
          Wrap            \* modulus of the uint32_t counters

ASSUME SchedulerAssumption ==
    /\ NULL \notin Tasks /\ IsFiniteSet(Tasks)
    /\ PRIO_MIN \in Nat /\ PRIO_DEFAULT \in 0 .. PRIO_MIN
    /\ {RR_TIMESLICE, SliceTop, SliceHigh, SliceLow} \subseteq Nat \ {0}
    /\ Policies \subseteq {"NORMAL", "PRIORITY"}
    /\ Priorities \subseteq Int
    /\ Wrap \in Nat /\ Wrap > Cardinality(Tasks)

\* The arguments TLC's instance gives: a level up, and the default.
Nices == {-1, 0}

VARIABLES current,      \* scheduler.current
          state,        \* PCB states, "UNUSED" before creation
          se,           \* sched_entity of every task
          rr_queue,     \* rq[SCHED_NORMAL].queue
          active, expired,         \* prio_rq_data_t lists, per level
          nr_active, nr_expired,   \* and their counters
          rq_nr,        \* rq[policy].nr_running
          nr_running,   \* scheduler.nr_running
          run_queue,    \* scheduler.run_queue, the legacy list
          pc,           \* where the CPU is inside schedule()
          next          \* schedule()'s local of that name

queues == <<rr_queue, active, expired, nr_active, nr_expired, rq_nr, nr_running, run_queue>>
schedVars == <<current, state, se, queues, pc, next>>

Levels == 0 .. PRIO_MIN

(* proc_alloc_pcb: the defaults of a fresh PCB. *)
FreshEntity == [policy |-> "NORMAL", priority |-> PRIO_DEFAULT,
                time_slice |-> RR_TIMESLICE, time_slice_total |-> RR_TIMESLICE]

(* list_del_init: take a task off a list it is on at most once. *)
Without(q, t) == Keep(q, Tasks \ {t})

----------------------------------------------------------------------------
(* The policies. *)

PRIO_TIMESLICE(prio) ==
    CASE prio = 0 -> SliceTop
      [] prio # 0 /\ prio < PRIO_DEFAULT -> SliceHigh
      [] OTHER -> SliceLow

Clamp(n) == IF n < 0 THEN 0 ELSE IF n > PRIO_MIN THEN PRIO_MIN ELSE n

rr_task_fork == [policy |-> "NORMAL", priority |-> 0,
                 time_slice |-> RR_TIMESLICE, time_slice_total |-> RR_TIMESLICE]

prio_task_fork(nice) ==
    LET prio == IF nice < 0 THEN Clamp(PRIO_DEFAULT + nice) ELSE PRIO_DEFAULT
    IN  [policy |-> "PRIORITY", priority |-> prio,
         time_slice |-> PRIO_TIMESLICE(prio), time_slice_total |-> PRIO_TIMESLICE(prio)]

sched_set_policy(policy, priority) ==
    IF policy = "NORMAL" THEN rr_task_fork ELSE prio_task_fork(priority)

----------------------------------------------------------------------------
(* Queue operations.  r is the record of all the queues, e the scheduling *)
(* entity of task t.  Every caller enqueues at the tail (head = false).    *)

Queues == [rr |-> rr_queue, act |-> active, exp |-> expired, na |-> nr_active,
           ne |-> nr_expired, rq |-> rq_nr, nr |-> nr_running, all |-> run_queue]

SetQueues(r) ==
    /\ rr_queue' = r.rr /\ active' = r.act /\ expired' = r.exp
    /\ nr_active' = r.na /\ nr_expired' = r.ne /\ rq_nr' = r.rq
    /\ nr_running' = r.nr /\ run_queue' = r.all

\* Slip: a task is queued in front.
rr_enqueue_task_at_head(r, t) ==
    [r EXCEPT !.rr = <<t>> \o @, !.rq["NORMAL"] = @ + 1]

rr_enqueue_task(r, t) ==
    [r EXCEPT !.rr = Append(@, t), !.rq["NORMAL"] = @ + 1]

rr_dequeue_task(r, t) ==
    [r EXCEPT !.rr = Without(@, t), !.rq["NORMAL"] = (@ - 1) % Wrap]

(* A task whose slice is used up waits in the expired array. *)
prio_enqueue_task(r, t, e) ==
    LET q == [r EXCEPT !.rq["PRIORITY"] = @ + 1]
    IN  IF e.time_slice = 0
        THEN [q EXCEPT !.exp[Clamp(e.priority)] = Append(@, t), !.ne = @ + 1]
        ELSE [q EXCEPT !.act[Clamp(e.priority)] = Append(@, t), !.na = @ + 1]

(* Which array's counter to take one from is guessed from the slice. *)
prio_dequeue_task(r, t, e) ==
    LET q == [r EXCEPT !.act = [p \in Levels |-> Without(r.act[p], t)],
                       !.exp = [p \in Levels |-> Without(r.exp[p], t)],
                       !.rq["PRIORITY"] = (@ - 1) % Wrap]
    IN  IF e.time_slice = 0 /\ r.ne > 0 THEN [q EXCEPT !.ne = @ - 1]
        ELSE IF r.na > 0 THEN [q EXCEPT !.na = @ - 1]
        ELSE q

sched_enqueue_task(r, t, e) ==
    [(IF e.policy = "NORMAL" THEN rr_enqueue_task(r, t) ELSE prio_enqueue_task(r, t, e))
        EXCEPT !.nr = (@ + 1) % Wrap, !.all = Append(@, t)]

sched_dequeue_task(r, t, e) ==
    [(IF e.policy = "NORMAL" THEN rr_dequeue_task(r, t) ELSE prio_dequeue_task(r, t, e))
        EXCEPT !.nr = IF @ > 0 THEN @ - 1 ELSE @, !.all = Without(@, t)]

----------------------------------------------------------------------------
(* Selection.  A pick returns the queues (the priority class may swap its  *)
(* arrays while looking) and the task, NULL if there is none.              *)

First(q) == IF q = <<>> THEN NULL ELSE Head(q)

find_highest_prio(act) ==
    IF \E p \in Levels : act[p] # <<>>
    THEN CHOOSE p \in Levels : act[p] # <<>> /\ \A h \in 0 .. p - 1 : act[h] = <<>>
    ELSE PRIO_MIN

prio_swap_active_expired(r) ==
    [r EXCEPT !.act = r.exp, !.exp = r.act, !.na = r.ne, !.ne = r.na]

prio_pick_next_task(r) ==
    IF r.na = 0 /\ r.ne = 0 THEN [q |-> r, task |-> NULL]
    ELSE LET s   == IF r.na = 0 THEN prio_swap_active_expired(r) ELSE r
             top == find_highest_prio(s.act)
         IN  [q |-> s, task |-> First(s.act[top])]

rr_pick_next_task(r) ==
    [q |-> r, task |-> First(r.rr)]

prio_should_preempt(p, curr) ==
    \/ se[p].priority < se[curr].priority
    \/ se[p].priority = se[curr].priority /\ se[curr].time_slice = 0

PickQueued(r) ==
    LET prio == IF r.rq["PRIORITY"] > 0 THEN prio_pick_next_task(r)
                                        ELSE [q |-> r, task |-> NULL]
    IN  IF prio.task # NULL \/ prio.q.rq["NORMAL"] = 0 THEN prio
        ELSE rr_pick_next_task(prio.q)

\* Slip: the slice of the current task is not looked at.
sched_pick_next_task_sticky(r, st) ==
    IF current # NULL /\ st[current] = "RUNNING"
    THEN [q |-> r, task |-> current] ELSE PickQueued(r)

(* sched_pick_next_task, st being the state table schedule() finds: the    *)
(* current task stays while it is runnable and has slice left, unless the  *)
(* priority class has a task that preempts it.                             *)
sched_pick_next_task(r, st) ==
    IF current # NULL /\ st[current] = "RUNNING" /\ se[current].time_slice > 0
    THEN LET prio == IF r.rq["PRIORITY"] > 0 THEN prio_pick_next_task(r)
                                             ELSE [q |-> r, task |-> NULL]
         IN  IF prio.task # NULL /\ prio_should_preempt(prio.task, current)
             THEN prio ELSE [prio EXCEPT !.task = current]
    ELSE PickQueued(r)

----------------------------------------------------------------------------
(* sched_class_init, sched_rr_init, sched_prio_init and proc_init: both    *)
(* classes registered, every queue empty, no current task, no idle task.   *)
SchedInit ==
    /\ current = NULL /\ next = NULL /\ pc = "run"
    /\ state = [t \in Tasks |-> "UNUSED"]
    /\ se = [t \in Tasks |-> FreshEntity]
    /\ rr_queue = <<>> /\ run_queue = <<>>
    /\ active = [p \in Levels |-> <<>>] /\ expired = [p \in Levels |-> <<>>]
    /\ nr_active = 0 /\ nr_expired = 0 /\ nr_running = 0
    /\ rq_nr = [p \in {"NORMAL", "PRIORITY"} |-> 0]

(* Kernel code runs outside schedule(): the boot context or a task, which  *)
(* may be BLOCKED when schedule() found nothing else to run.  After a      *)
(* proc_exit whose schedule() returns the code's behaviour is undefined.   *)
CodeRuns == pc = "run" /\ ~ (current # NULL /\ state[current] = "ZOMBIE")

(* The running code creates a task: sched_set_policy on the fresh PCB, then *)
(* sched_enqueue_task at the tail (proc_fork and the thread constructors).  *)
CreateTask(t, policy, priority) ==
    /\ CodeRuns /\ state[t] = "UNUSED"
    /\ state' = [state EXCEPT ![t] = "READY"]
    /\ se' = [se EXCEPT ![t] = sched_set_policy(policy, priority)]
    /\ SetQueues(sched_enqueue_task(Queues, t, sched_set_policy(policy, priority)))
    /\ UNCHANGED <<current, pc, next>>

(* sched_timer_tick_handler, from the timer interrupt: whatever task is    *)
(* current, wherever schedule() is.                                        *)

sched_timer_tick_handler ==
    /\ current # NULL /\ se[current].time_slice > 0
    /\ se' = [se EXCEPT ![current].time_slice = @ - 1]
    /\ UNCHANGED <<current, state, queues, pc, next>>

(* The first part of schedule(), entered with the state table st: pick,    *)
(* and return at once if nothing or the same task was picked.  There is no *)
(* idle task.                                                              *)
BeginSchedule(r, st) ==
    LET pick == sched_pick_next_task(r, st)
    IN  /\ SetQueues(pick.q)
        /\ IF pick.task \in {NULL, current}
           THEN pc' = "run" /\ next' = NULL /\ state' = st
           ELSE /\ next' = pick.task
                /\ IF current # NULL /\ st[current] \in {"RUNNING", "READY"}
                   THEN pc' = "enqueue" /\ state' = [st EXCEPT ![current] = "READY"]
                   ELSE pc' = "dequeue" /\ state' = st
        /\ UNCHANGED <<current, se>>

(* Code that is running (the boot context included) calls schedule(). *)
CallSchedule ==
    /\ CodeRuns
    /\ BeginSchedule(Queues, state)

(* add_to_waitqueue_and_block, proc_wait4: the current task blocks. *)
BlockCurrent ==
    /\ CodeRuns /\ current # NULL
    /\ BeginSchedule(Queues, [state EXCEPT ![current] = "BLOCKED"])

(* proc_exit: zombie, off the legacy list, one off scheduler.nr_running.   *)
ExitCurrent ==
    /\ CodeRuns /\ current # NULL
    /\ BeginSchedule([Queues EXCEPT !.all = Without(@, current), !.nr = (@ - 1) % Wrap],
                     [state EXCEPT ![current] = "ZOMBIE"])

\* Slip: a task that is ready already is queued again.
Wake_unchecked(t) ==
    /\ CodeRuns /\ state[t] \in {"BLOCKED", "READY"} /\ t # current
    /\ state' = [state EXCEPT ![t] = "READY"]
    /\ SetQueues(sched_enqueue_task(Queues, t, se[t]))
    /\ UNCHANGED <<current, se, pc, next>>

(* The wake-up half of the wait queues, the mutex and the semaphore: the   *)
(* running code makes a blocked task ready.                                *)
Wake(t) ==
    /\ CodeRuns /\ state[t] = "BLOCKED" /\ t # current
    /\ state' = [state EXCEPT ![t] = "READY"]
    /\ SetQueues(sched_enqueue_task(Queues, t, se[t]))
    /\ UNCHANGED <<current, se, pc, next>>

(* schedule() puts the previous task back at the tail of its queue. *)
EnqueuePrev ==
    /\ pc = "enqueue" /\ pc' = "dequeue"
    /\ SetQueues(sched_enqueue_task(Queues, current, se[current]))
    /\ UNCHANGED <<current, state, se, next>>

(* schedule() takes the picked task off its queue. *)
DequeueNext ==
    /\ pc = "dequeue" /\ pc' = "switch"
    /\ SetQueues(sched_dequeue_task(Queues, next, se[next]))
    /\ UNCHANGED <<current, state, se, next>>

(* schedule() makes it current, with a full slice, and switches to it. *)
SwitchToNext ==
    /\ pc = "switch" /\ pc' = "run"
    /\ current' = next /\ next' = NULL
    /\ state' = [state EXCEPT ![next] = "RUNNING"]
    /\ se' = [se EXCEPT ![next].time_slice = se[next].time_slice_total]
    /\ UNCHANGED queues

FinishSchedule == EnqueuePrev \/ DequeueNext \/ SwitchToNext

SchedNext ==
    \/ \E t \in Tasks, policy \in Policies, n \in Priorities : CreateTask(t, policy, n)
    \/ \E t \in Tasks : Wake(t)
    \/ sched_timer_tick_handler
    \/ CallSchedule
    \/ BlockCurrent
    \/ ExitCurrent
    \/ FinishSchedule

(* The timer runs at 1000 Hz, a started schedule() finishes, and the tasks *)
(* keep calling schedule().                                                *)
SchedFairness ==
    /\ WF_schedVars(sched_timer_tick_handler)
    /\ WF_schedVars(FinishSchedule)
    /\ SF_schedVars(CallSchedule)

SchedSpec == SchedInit /\ [][SchedNext]_schedVars /\ SchedFairness

----------------------------------------------------------------------------
Occurrences(q, t) == Cardinality({i \in DOMAIN q : q[i] = t})

OnRR(t) == Occurrences(rr_queue, t)

OnLevel(t, p) == Occurrences(active[p], t) + Occurrences(expired[p], t)

(* A task waits for the CPU when it is ready, except while schedule() is   *)
(* about to enqueue it or has just dequeued it.                            *)
Waiting(t) == /\ state[t] = "READY"
              /\ ~ (pc = "enqueue" /\ t = current)
              /\ ~ (pc = "switch" /\ t = next)

(* No task is lost and none is queued twice: a task that waits for the CPU *)
(* is on exactly one list of its own class and level, once; the running    *)
(* task, and blocked, exited and unborn tasks are on none, whatever ticks  *)
(* fall inside schedule().                                                 *)
WaitingTasksQueuedOnce ==
    \A t \in Tasks :
        LET n == IF Waiting(t) THEN 1 ELSE 0
        IN  /\ OnRR(t) = IF se[t].policy = "NORMAL" THEN n ELSE 0
            /\ \A p \in Levels : OnLevel(t, p) =
                   IF se[t].policy = "PRIORITY" /\ se[t].priority = p THEN n ELSE 0

(* The tasks on all the lists of a priority array. *)
Count(lists) == Cardinality(UNION {{p} \X DOMAIN lists[p] : p \in Levels})

(* The legacy list that proc_find and proc_find_by_tid search, and the     *)
(* per-class nr_running that guards every pick, agree with the class       *)
(* queues.                                                                 *)
QueueCountsAgree ==
    /\ rq_nr["NORMAL"] = Len(rr_queue)
    /\ rq_nr["PRIORITY"] = Count(active) + Count(expired)
    /\ Len(run_queue) = rq_nr["NORMAL"] + rq_nr["PRIORITY"]
    /\ \A t \in Tasks : Occurrences(run_queue, t) = IF Waiting(t) THEN 1 ELSE 0

(* A schedule() that gives the CPU away gives it to a task that is ready,  *)
(* and at most one task is RUNNING, the current one.                       *)
OnlyCurrentRuns ==
    /\ \A t \in Tasks : state[t] = "RUNNING" => t = current
    /\ next # NULL => state[next] = "READY" /\ next # current

(* schedule() keeps its books whatever ticks fall between its steps.       *)
QueuesSound == WaitingTasksQueuedOnce /\ QueueCountsAgree /\ OnlyCurrentRuns

RROnly == \A t \in Tasks : se[t].policy = "NORMAL"

(* While there are round-robin tasks only, every ready task gets the CPU   *)
(* as long as the tasks keep calling schedule().                           *)
ReadyTasksRun ==
    \A t \in Tasks : state[t] = "READY" /\ RROnly ~> current = t \/ ~RROnly

(* The state as the one-step discipline of RunQueue sees it: a switch      *)
(* takes effect when it is picked.                                         *)
FifoCpu ==
    [cur |-> IF next = NULL THEN current ELSE next,
     st  |-> IF next = NULL THEN state ELSE [state EXCEPT ![next] = "RUNNING"],
     q   |-> Without(rr_queue, next) \o (IF pc = "enqueue" THEN <<current>> ELSE <<>>)]

Fifo == INSTANCE RunQueue WITH cpu <- FifoCpu

(* While there are round-robin tasks only, schedule() with its slices, its *)
(* separate steps and the ticks between them implements the FIFO of        *)
(* RunQueue.                                                               *)
SchedulerImplementsRunQueue == Fifo!RQInit /\ [][RROnly' => [Fifo!RQNext]_FifoCpu]_schedVars

=============================================================================
