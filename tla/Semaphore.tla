----------------------------- MODULE Semaphore -----------------------------
(***************************************************************************)
(* kernel/sync/semaphore.{h,c}: a counting semaphore that guards Value     *)
(* units of a resource.  Each task takes one unit (sem_wait, sem_trywait)  *)
(* and gives it back (sem_post), and may sleep elsewhere while it has it.  *)
(***************************************************************************)
EXTENDS WaitQueue

CONSTANT Value   \* sem_init's value

ASSUME ValueAssumption == Value \in Nat

VARIABLES count,       \* s->count
          wait_list,   \* the tasks of the sem_waiters, head first
          users        \* the tasks that have a unit

semVars == <<cpu, wq, at, count, wait_list, users>>

SemInit == WqInit /\ count = Value /\ wait_list = <<>> /\ users = {}

Available == count > 0

Take(t) == count' = count - 1 /\ users' = users \cup {t}

(* sem_wait up to its first sleep. *)
sem_wait(t) ==
    /\ Running(t) /\ t \notin users
    /\ IF Available
       THEN Take(t) /\ UNCHANGED <<cpu, at, wait_list>>
       ELSE /\ CanSleep
            /\ wait_list' = Append(wait_list, t)
            /\ at' = [at EXCEPT ![t] = "sem"]
            /\ cpu' = BlockCurrent(cpu)
            /\ UNCHANGED <<count, users>>
    /\ UNCHANGED wq

(* Back from sleep_on: sleep again while the count is 0, otherwise go on   *)
(* to the compare-and-swap loop.                                           *)
SemResume(t) ==
    /\ cpu.cur = t /\ at[t] = "sem"
    /\ IF count = 0
       THEN CanSleep /\ cpu' = BlockCurrent(cpu) /\ UNCHANGED at
       ELSE at' = [at EXCEPT ![t] = "spin"] /\ UNCHANGED cpu
    /\ UNCHANGED <<wq, count, wait_list, users>>

\* Slip: the count is not looked at.
Swappable_any == TRUE

(* The loop ends when the count is exactly 1. *)
Swappable == count = 1

SemSwap(t) ==
    /\ cpu.cur = t /\ at[t] = "spin" /\ Swappable
    /\ count' = 0 /\ users' = users \cup {t}
    /\ wait_list' = Keep(wait_list, Tasks \ {t})
    /\ at' = [at EXCEPT ![t] = "run"]
    /\ UNCHANGED <<cpu, wq>>

sem_trywait(t) ==
    /\ Running(t) /\ t \notin users /\ Available
    /\ Take(t)
    /\ UNCHANGED <<cpu, wq, at, wait_list>>

(* sem_post unlinks the first waiter and makes its task ready. *)
WakeFirst ==
    IF wait_list = <<>> THEN UNCHANGED <<cpu, wait_list>>
    ELSE cpu' = MakeReady(cpu, Head(wait_list)) /\ wait_list' = Tail(wait_list)

sem_post(t) ==
    /\ Running(t) /\ t \in users
    /\ count' = count + 1 /\ users' = users \ {t}
    /\ WakeFirst
    /\ UNCHANGED <<wq, at>>

SemElsewhere(t) ==
    /\ sleep_on(t, FALSE) \/ SleepReturns(t) \/ (wq # <<>> /\ WakeUp(t))
    /\ UNCHANGED <<count, wait_list, users>>

SemNext ==
    \E t \in Tasks :
        \/ sem_wait(t)
        \/ SemResume(t)
        \/ SemSwap(t)
        \/ sem_trywait(t)
        \/ sem_post(t)
        \/ SemElsewhere(t)

(* The task on the CPU does not stop inside a call. *)
SemFairness == \A t \in Tasks : WF_semVars(SemResume(t)) /\ WF_semVars(SemSwap(t))

SemSpec == SemInit /\ [][SemNext]_semVars /\ SemFairness

----------------------------------------------------------------------------

(* Units are neither lost nor duplicated: those taken and those left are   *)
(* the units sem_init put there.  (The last step of a slow sem_wait writes *)
(* 0, whatever other tasks did while it slept.)                            *)
UnitsConserved == Cardinality(users) + count = Value

(* sem_post writes through the first sem_waiter, which lives in the frame  *)
(* of a sem_wait: every listed waiter is blocked in that call.             *)
SemWaitersInside ==
    /\ \A t \in Members(wait_list) : at[t] = "sem" /\ cpu.st[t] = "BLOCKED"
    /\ \A i, j \in DOMAIN wait_list : wait_list[i] = wait_list[j] => i = j

(* A unit is not left with listed waiters asleep: some waiter is awake to  *)
(* take it.                                                                *)
UnitPromised ==
    count > 0 /\ wait_list # <<>>
        => \E t \in Tasks : at[t] \in {"sem", "spin"} /\ (cpu.st[t] = "READY" \/ cpu.cur = t)

=============================================================================
