------------------------------ MODULE CondVar ------------------------------
(***************************************************************************)
(* kernel/sync/condvar.{h,c} over Mutex: a monitor with one condition.     *)
(* Tasks wait under the mutex while `ready' is false, with the condition   *)
(* checked again on return; other tasks set it under the mutex and signal  *)
(* or broadcast.                                                           *)
(***************************************************************************)
EXTENDS Mutex

CONSTANT MaxBroadcast   \* the size of condvar_broadcast's wq_list, 32

ASSUME MaxBroadcastAssumption == MaxBroadcast \in Nat \ {0}

VARIABLES waiters,    \* the tasks of the condvar_waiters, head first
          private,    \* the tasks with an entry on their private queue
          ready       \* the condition the mutex protects

cvVars == <<cpu, wq, at, m, cs, waiters, private, ready>>

CvInit == MutexInit /\ waiters = <<>> /\ private = {} /\ ready = FALSE

(* condvar_wait up to its sleep: listed, mutex released (one of its        *)
(* waiters made ready), asleep on the private queue.                       *)
condvar_wait(t) ==
    /\ Running(t) /\ t \in cs /\ ~ready
    /\ LET r == Released(cpu, m)
       IN  /\ SomeoneReady => r.c.q # <<>>
           /\ m' = r.m /\ cpu' = BlockCurrent(r.c)
    /\ cs' = cs \ {t} /\ at' = [at EXCEPT ![t] = "cond"]
    /\ waiters' = Append(waiters, t) /\ private' = private \cup {t}
    /\ UNCHANGED <<wq, ready>>

(* condvar_wait returns: the mutex is held again, the waiter unlinked. *)
Reacquired(t) ==
    /\ LockAgain(t)
    /\ cs' = cs \cup {t} /\ at' = [at EXCEPT ![t] = "run"]
    /\ waiters' = Delete(waiters, t)
    /\ UNCHANGED cpu

(* Back from sleep_on: mutex_lock, which may wait in turn. *)
CondResume(t) ==
    /\ cpu.cur = t /\ at[t] = "cond"
    /\ IF ~m.locked THEN Reacquired(t)
       ELSE /\ CanSleep
            /\ m' = [m EXCEPT !.wait_list = Append(@, t)]
            /\ at' = [at EXCEPT ![t] = "condlock"]
            /\ cpu' = BlockCurrent(cpu)
            /\ UNCHANGED <<cs, waiters>>
    /\ UNCHANGED <<wq, private, ready>>

CondLockResume(t) ==
    /\ cpu.cur = t /\ at[t] = "condlock"
    /\ IF StillHeld THEN CanSleep /\ cpu' = BlockCurrent(cpu) /\ UNCHANGED <<m, cs, at, waiters>>
       ELSE Reacquired(t)
    /\ UNCHANGED <<wq, private, ready>>

(* wake_up on the private queues of a sequence of tasks: only those that   *)
(* still have an entry there are made ready.                               *)
WakePrivate(s) ==
    /\ cpu' = MakeAllReady(cpu, Keep(s, private))
    /\ private' = private \ Members(s)

condvar_signal ==
    IF waiters = <<>> THEN UNCHANGED <<cpu, waiters, private>>
    ELSE waiters' = Tail(waiters) /\ WakePrivate(<<Head(waiters)>>)

\* Slip: only the first waiter is woken.
condvar_broadcast_wakes_one ==
    /\ waiters' = <<>>
    /\ WakePrivate(FirstOf(waiters))

(* Every waiter is unlinked, the first MaxBroadcast are woken. *)
condvar_broadcast ==
    /\ waiters' = <<>>
    /\ WakePrivate(SubSeq(waiters, 1, IF Len(waiters) < MaxBroadcast THEN Len(waiters)
                                                                    ELSE MaxBroadcast))

(* The setter's critical section: the condition, then a broadcast. *)
SetAndBroadcast(t) ==
    /\ Running(t) /\ t \in cs
    /\ ready' = TRUE /\ condvar_broadcast
    /\ UNCHANGED <<wq, at, m, cs>>

(* A waiter that finds the condition consumes it; a task may signal at any *)
(* time, with or without the mutex.                                        *)
Consume(t) ==
    /\ Running(t) /\ t \in cs /\ ready
    /\ ready' = FALSE
    /\ UNCHANGED <<cpu, wq, at, m, cs, waiters, private>>

Signal(t) ==
    /\ Running(t) /\ condvar_signal
    /\ UNCHANGED <<wq, at, m, cs, ready>>

MutexStep(t) ==
    /\ mutex_lock(t) \/ MutexResume(t) \/ mutex_unlock(t) \/ Elsewhere(t)
    /\ UNCHANGED <<waiters, private, ready>>

CvNext ==
    \E t \in Tasks :
        \/ condvar_wait(t)
        \/ CondResume(t)
        \/ CondLockResume(t)
        \/ SetAndBroadcast(t)
        \/ Consume(t)
        \/ Signal(t)
        \/ MutexStep(t)

----------------------------------------------------------------------------
(* A broadcast or a signal reads the condvar_waiters of its list, which    *)
(* live in the frames of condvar_wait: each listed waiter is asleep in     *)
(* that call on its private queue, and listed once.                        *)
CvWaitersInside ==
    /\ \A t \in Members(waiters) : at[t] = "cond" /\ t \in private /\ cpu.st[t] = "BLOCKED"
    /\ \A i, j \in DOMAIN waiters : waiters[i] = waiters[j] => i = j

(* No wake-up is missed between the release of the mutex and the sleep:    *)
(* when the condition holds and nobody is in the monitor, no task sleeps   *)
(* in condvar_wait.                                                        *)
NoMissedWakeup ==
    ready /\ cs = {} => \A t \in Tasks : ~(at[t] = "cond" /\ cpu.st[t] = "BLOCKED")

=============================================================================
