----------------------------- MODULE WaitQueue -----------------------------
(***************************************************************************)
(* kernel/sync/waitqueue.{h,c}: tasks that block on a wait queue and wake  *)
(* each other.  Code between two calls of schedule() is not interrupted by *)
(* other tasks, so each call is one step.                                  *)
(***************************************************************************)
EXTENDS RunQueue

CONSTANT SomeoneReady   \* TRUE: a task sleeps only while another is ready

VARIABLES wq,   \* the wait_queue_entry_t on task_list, head first
          at    \* where each task is: in its own code or inside a call

Running(t) == cpu.cur = t /\ at[t] = "run"

(* schedule() with nothing else queued returns to its blocked caller; with *)
(* SomeoneReady that case is left out.                                     *)
CanSleep == SomeoneReady => cpu.q # <<>>

(* sched_enqueue_task and the two passes of __wake_up_common: at most one  *)
(* exclusive entry, then the others while fewer than nr tasks (0: no       *)
(* limit) have been woken.  exclusive_only is read by the first pass only, *)
(* where with nr = 1 it changes nothing.                                   *)
FirstOf(s) == SubSeq(s, 1, IF s = <<>> THEN 0 ELSE 1)

Woken(q, nr) ==
    LET exclusives == FirstOf(Keep(q, {e \in Members(q) : e.exclusive}))
        normal     == Keep(q, {e \in Members(q) : ~e.exclusive})
    IN  IF nr = 0 THEN exclusives \o normal
        ELSE IF exclusives # <<>> THEN exclusives ELSE FirstOf(normal)

TasksOf(s) == [i \in DOMAIN s |-> s[i].task]

__wake_up_common(nr) ==
    LET woken == Woken(wq, nr)
    IN  /\ cpu' = MakeAllReady(cpu, TasksOf(woken))
        /\ wq' = Keep(wq, Members(wq) \ Members(woken))

wake_up == __wake_up_common(1)
wake_up_all == __wake_up_common(0)
wake_up_exclusive == __wake_up_common(1)

(* add_to_waitqueue_and_block, up to the call of schedule(). *)
add_to_waitqueue_and_block(t, exclusive) ==
    /\ wq' = Append(wq, [task |-> t, exclusive |-> exclusive])
    /\ cpu' = BlockCurrent(cpu)

(* sleep_on, and an exclusive wait of a caller that initialises its entry  *)
(* itself.  The entry lives in the frame of the call.                      *)
sleep_on(t, exclusive) ==
    /\ Running(t) /\ CanSleep
    /\ add_to_waitqueue_and_block(t, exclusive)
    /\ at' = [at EXCEPT ![t] = "sleep"]

(* schedule() has returned: so does sleep_on. *)
SleepReturns(t) ==
    /\ cpu.cur = t /\ at[t] = "sleep"
    /\ at' = [at EXCEPT ![t] = "run"]
    /\ UNCHANGED <<cpu, wq>>

WakeUp(t) == Running(t) /\ wake_up /\ UNCHANGED at
WakeUpAll(t) == Running(t) /\ wake_up_all /\ UNCHANGED at
WakeUpExclusive(t) == Running(t) /\ wake_up_exclusive /\ UNCHANGED at

WqInit ==
    /\ \E s \in Orders : cpu = Started(s)
    /\ wq = <<>> /\ at = [t \in Tasks |-> "run"]

WqNext ==
    \E t \in Tasks :
        \/ \E exclusive \in BOOLEAN : sleep_on(t, exclusive)
        \/ SleepReturns(t)
        \/ WakeUp(t)
        \/ WakeUpAll(t)
        \/ WakeUpExclusive(t)

----------------------------------------------------------------------------
(* The entries are in frames that still exist: the task of each entry is   *)
(* inside its sleep_on, and no task has two entries.  (A wake-up writes    *)
(* through every entry.)                                                   *)
EntriesAlive ==
    /\ \A i \in DOMAIN wq : at[wq[i].task] = "sleep" /\ cpu.st[wq[i].task] = "BLOCKED"
    /\ \A i, j \in DOMAIN wq : wq[i].task = wq[j].task => i = j

=============================================================================
