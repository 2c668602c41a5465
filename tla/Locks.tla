------------------------------- MODULE Locks --------------------------------
(***************************************************************************)
(* The sleeping locks together: the tasks use a monitor (a mutex with a    *)
(* condition variable), a semaphore and a plain wait queue, and hold one   *)
(* while they sleep on another.                                            *)
(***************************************************************************)
EXTENDS CondVar, Semaphore

lockVars == <<wq, at, m, cs, waiters, private, ready, count, wait_list, users>>

LocksInit == CvInit /\ SemInit

LocksIdle ==
    /\ wq = << >> /\ at = [t \in Tasks |-> "run"]
    /\ m = mutex_init /\ cs = {}
    /\ waiters = << >> /\ private = {} /\ ready = FALSE
    /\ count = Value /\ wait_list = << >> /\ users = {}

LocksNext ==
    \/ CvNext /\ UNCHANGED <<count, wait_list, users>>
    \/ SemNext /\ UNCHANGED <<m, cs, waiters, private, ready>>
    \/ WqNext /\ UNCHANGED <<m, cs, waiters, private, ready, count, wait_list, users>>

LocksSpec == LocksInit /\ [][LocksNext]_<<cpu, lockVars>>

-----------------------------------------------------------------------------

(* No task sleeps on the wait queue where no waker finds it, after any     *)
(* sequence of the three wake-ups.                                         *)
SleepersListed ==
    \A t \in Tasks : at[t] = "sleep" /\ cpu.st[t] = "BLOCKED" /\ t # cpu.cur
                         => \E i \in DOMAIN wq : wq[i].task = t

(* Whoever wakes a waiter follows a pointer into the stack frame of the    *)
(* call the waiter is in: every entry of every waiter list (wait queue,    *)
(* mutex, semaphore, condition variable) is of a task asleep in that call, *)
(* every sleeper of the wait queue has its entry, and what is woken is     *)
(* queued to run exactly once.                                             *)
WaiterFramesAlive ==
    /\ EntriesAlive /\ WaitersInside /\ SemWaitersInside /\ CvWaitersInside
    /\ SleepersListed /\ ReadyIffQueued

(* A free mutex or unit is not left with every listed waiter asleep, no    *)
(* matter what else the tasks sleep on.                                    *)
ReleasePromised == FreeMutexPromised /\ UnitPromised
=============================================================================
