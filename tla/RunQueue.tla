----------------------------- MODULE RunQueue ------------------------------
(***************************************************************************)
(* What schedule() does for SCHED_NORMAL tasks, as one step: a FIFO of     *)
(* ready tasks and the task that has the CPU.  Every task the kernel       *)
(* creates itself is SCHED_NORMAL, and kernel code gives the CPU away only *)
(* when it blocks or exits, so this is all of the scheduler that the       *)
(* sleeping locks and the process and thread life cycle see.  Scheduler    *)
(* (time slices, ticks inside schedule(), both classes) is checked to      *)
(* implement RQSpec when all tasks are round-robin.                        *)
(***************************************************************************)
EXTENDS Lists, FiniteSets

CONSTANTS Tasks,   \* the PCBs
          NULL     \* no task

ASSUME TasksAssumption == Tasks # {} /\ IsFiniteSet(Tasks) /\ NULL \notin Tasks

(* cur: the current task; st: the state of each task, UNUSED, READY,       *)
(* RUNNING, BLOCKED or ZOMBIE; q: the run queue.                           *)
VARIABLE cpu

(* state = PROC_READY, sched_enqueue_task(t, false). *)
MakeReady(c, t) == [c EXCEPT !.st[t] = "READY", !.q = Append(@, t)]

(* schedule() by a current task that cannot go on (or by the boot context, *)
(* which is not a task): the head of the queue gets the CPU.  With nothing *)
(* queued, or only the caller itself in front, schedule() returns and the  *)
(* caller carries on, in the state it has set.                             *)
schedule(c) ==
    IF c.q = <<>> \/ Head(c.q) = c.cur THEN c
    ELSE [cur |-> Head(c.q), st |-> [c.st EXCEPT ![Head(c.q)] = "RUNNING"], q |-> Tail(c.q)]

(* The current task sets PROC_BLOCKED and calls schedule(). *)
BlockCurrent(c) == schedule([c EXCEPT !.st[c.cur] = "BLOCKED"])

(* The current task sets PROC_ZOMBIE and calls schedule(). *)
ExitCurrent(c) == schedule([c EXCEPT !.st[c.cur] = "ZOMBIE"])

(* The same for every task of a sequence, in its order. *)
MakeAllReady(c, s) ==
    [c EXCEPT !.st = [t \in Tasks |-> IF t \in Members(s) THEN "READY" ELSE @[t]],
              !.q = @ \o s]

(* Every task has been created and queued by the boot context, which has   *)
(* then called schedule().                                                 *)
Orders == {s \in [1..Cardinality(Tasks) -> Tasks] : Members(s) = Tasks}

Started(s) ==
    [cur |-> Head(s), q |-> Tail(s),
     st  |-> [t \in Tasks |-> IF t = Head(s) THEN "RUNNING" ELSE "READY"]]

----------------------------------------------------------------------------
(* The queue discipline as a specification of its own. *)

RQInit == cpu = [cur |-> NULL, st |-> [t \in Tasks |-> "UNUSED"], q |-> <<>>]

RQCreate(t) == cpu.st[t] = "UNUSED" /\ cpu' = MakeReady(cpu, t)

RQWake(t) == cpu.st[t] = "BLOCKED" /\ t # cpu.cur /\ cpu' = MakeReady(cpu, t)

RQBlock == cpu.cur # NULL /\ cpu' = BlockCurrent(cpu)

RQExit == cpu.cur # NULL /\ cpu' = ExitCurrent(cpu)

(* schedule() by a task whose slice is used up: to the tail of the queue,  *)
(* unless it is alone.  A BLOCKED caller is not queued again.              *)
RQYield ==
    cpu' = IF cpu.cur = NULL \/ cpu.q = <<>> THEN schedule(cpu)
           ELSE IF cpu.st[cpu.cur] = "RUNNING" THEN schedule(MakeReady(cpu, cpu.cur))
           ELSE schedule(cpu)

RQStep ==
    \/ \E t \in Tasks : RQCreate(t) \/ RQWake(t)
    \/ RQBlock
    \/ RQExit
    \/ RQYield

(* A schedule() that changes nothing is no step. *)
RQNext == cpu' # cpu /\ RQStep

RQSpec == RQInit /\ [][RQNext]_cpu

(* Every ready task is queued exactly once and nothing else is queued: the *)
(* wake-ups that write PROC_READY and call sched_enqueue_task by hand      *)
(* never queue a task that is queued, running or gone.                     *)
ReadyIffQueued ==
    /\ \A t \in Tasks : cpu.st[t] = "READY" <=> t \in Members(cpu.q)
    /\ \A i, j \in DOMAIN cpu.q : cpu.q[i] = cpu.q[j] => i = j
    /\ \A t \in Tasks : cpu.st[t] = "RUNNING" => t = cpu.cur

=============================================================================
