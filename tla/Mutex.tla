------------------------------- MODULE Mutex -------------------------------
(***************************************************************************)
(* kernel/sync/mutex.{h,c}: a sleeping lock, used by tasks that may also   *)
(* sleep on an unrelated wait queue while they hold it (how another task   *)
(* ever meets a held mutex, since nothing preempts).                       *)
(***************************************************************************)
EXTENDS WaitQueue

VARIABLES m,    \* [locked, owner, wait_list: the tasks of the mutex_waiters]
          cs    \* the tasks back from mutex_lock that have not unlocked yet

mutexVars == <<cpu, wq, at, m, cs>>

mutex_init == [locked |-> FALSE, owner |-> NULL, wait_list |-> <<>>]

Delete(s, t) == Keep(s, Tasks \ {t})

Acquired(mm, t) == [mm EXCEPT !.locked = TRUE, !.owner = t]

(* mutex_lock up to its first sleep: the fast path and the second try      *)
(* (nothing comes between them) or a mutex_waiter and a private queue.     *)
mutex_lock(t) ==
    /\ Running(t)
    /\ IF ~m.locked
       THEN /\ m' = Acquired(m, t) /\ cs' = cs \cup {t}
            /\ UNCHANGED <<cpu, at>>
       ELSE /\ CanSleep
            /\ m' = [m EXCEPT !.wait_list = Append(@, t)]
            /\ at' = [at EXCEPT ![t] = "lock"]
            /\ cpu' = BlockCurrent(cpu)
            /\ UNCHANGED cs
    /\ UNCHANGED wq

\* Slip: the mutex is not looked at again after the sleep.
StillHeld_never == FALSE

StillHeld == m.locked \/ m.owner # NULL

LockAgain(t) == m' = [Acquired(m, t) EXCEPT !.wait_list = Delete(@, t)]

(* Back from sleep_on in mutex_lock: sleep again while the mutex is held,  *)
(* without a new mutex_waiter; otherwise take it and unlink.               *)
MutexResume(t) ==
    /\ cpu.cur = t /\ at[t] = "lock"
    /\ IF StillHeld
       THEN CanSleep /\ cpu' = BlockCurrent(cpu) /\ UNCHANGED <<m, cs, at>>
       ELSE /\ LockAgain(t)
            /\ cs' = cs \cup {t} /\ at' = [at EXCEPT ![t] = "run"]
            /\ UNCHANGED cpu
    /\ UNCHANGED wq

mutex_trylock(t) ==
    /\ Running(t) /\ ~m.locked
    /\ m' = Acquired(m, t) /\ cs' = cs \cup {t}
    /\ UNCHANGED <<cpu, wq, at>>

\* Slip: no waiter is woken.
Released_no_wake(c, mm) ==
    [c |-> c, m |-> [mm EXCEPT !.locked = FALSE, !.owner = NULL]]

\* Slip: the woken waiter stays on the list.
Released_keeps_waiter(c, mm) ==
    [c |-> IF mm.wait_list = <<>> THEN c ELSE MakeReady(c, Head(mm.wait_list)),
     m |-> [mm EXCEPT !.locked = FALSE, !.owner = NULL]]

(* mutex_unlock by the owner: release, then unlink the first waiter and    *)
(* make its task ready.  Released is the mutex and the CPU afterwards.     *)
Released(c, mm) ==
    LET free == [mm EXCEPT !.locked = FALSE, !.owner = NULL]
    IN  IF mm.wait_list = <<>> THEN [c |-> c, m |-> free]
        ELSE [c |-> MakeReady(c, Head(mm.wait_list)),
              m |-> [free EXCEPT !.wait_list = Tail(@)]]

(* By anyone else mutex_unlock changes nothing. *)
mutex_unlock(t) ==
    /\ Running(t) /\ m.owner = t
    /\ LET r == Released(cpu, m) IN cpu' = r.c /\ m' = r.m
    /\ cs' = cs \ {t}
    /\ UNCHANGED <<wq, at>>

(* Sleeping and waking on the other wait queue. *)
Elsewhere(t) ==
    /\ sleep_on(t, FALSE) \/ SleepReturns(t) \/ (wq # <<>> /\ WakeUp(t))
    /\ UNCHANGED <<m, cs>>

MutexInit == WqInit /\ m = mutex_init /\ cs = {}

MutexNext ==
    \E t \in Tasks :
        \/ mutex_lock(t)
        \/ MutexResume(t)
        \/ mutex_trylock(t)
        \/ mutex_unlock(t)
        \/ Elsewhere(t)

MutexSpec == MutexInit /\ [][MutexNext]_mutexVars

----------------------------------------------------------------------------
(* At most one task is between mutex_lock and mutex_unlock, it is the      *)
(* owner the code records, and the lock word agrees.                       *)
MutualExclusion ==
    /\ cs = {t \in Tasks : m.owner = t}
    /\ m.locked <=> m.owner # NULL

(* Inside mutex_lock, called by a task or by condvar_wait. *)
InLock(t) == at[t] \in {"lock", "condlock"}

(* mutex_unlock writes through the first mutex_waiter, which lives in the  *)
(* stack frame of a mutex_lock: every listed waiter is blocked inside that *)
(* call, and listed once.                                                  *)
WaitersInside ==
    /\ \A t \in Members(m.wait_list) : InLock(t) /\ cpu.st[t] = "BLOCKED"
    /\ \A i, j \in DOMAIN m.wait_list : m.wait_list[i] = m.wait_list[j] => i = j

(* A free mutex with waiters on its list has been promised: some task is   *)
(* ready inside mutex_lock and will find the mutex free or leave it to     *)
(* one that unlocks again.                                                 *)
FreeMutexPromised ==
    ~m.locked /\ m.wait_list # <<>>
        => \E t \in Tasks : InLock(t) /\ (cpu.st[t] = "READY" \/ cpu.cur = t)

(* VIOLATED.  "Wake up one waiting process" (mutex_unlock): a waiter that  *)
(* was woken, found the mutex taken again and went back to sleep is on no  *)
(* list any more, and no unlock wakes it.                                  *)
UnlockWakesAWaiter ==
    [][\A t \in Tasks :
         mutex_unlock(t) /\ (\E u \in Tasks : InLock(u) /\ cpu.st[u] = "BLOCKED")
             => \E u \in Tasks : InLock(u) /\ cpu.st[u] = "BLOCKED" /\ cpu'.st[u] = "READY"]_mutexVars

=============================================================================
