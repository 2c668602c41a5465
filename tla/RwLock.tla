------------------------------- MODULE RwLock -------------------------------
(***************************************************************************)
(* kernel/sync/rwlock.c: a lock for many readers or one writer, which      *)
(* spins.  There is one CPU and nothing preempts a task, so a call is one  *)
(* step unless it spins, and then no other task runs again: the states     *)
(* with spinning set are the ends of such runs.                            *)
(***************************************************************************)
EXTENDS Integers, FiniteSets

CONSTANT RwTasks

VARIABLES
    rw,         \* [readers, writers]: rwlock_t
    holds,      \* what each task is back from: "none", "read" or "write"
    turn,       \* the task that has the CPU
    spinning    \* whether its call spins

rwVars == <<rw, holds, turn, spinning>>

rwlock_init == [readers |-> 0, writers |-> 0]

RwInit ==
    /\ rw = rwlock_init
    /\ holds = [t \in RwTasks |-> "none"]
    /\ turn \in RwTasks /\ spinning = FALSE

Calls(t) == turn = t /\ ~spinning
Gets(t, how) == holds' = [holds EXCEPT ![t] = how] /\ UNCHANGED <<turn, spinning>>
Spins == spinning' = TRUE /\ UNCHANGED <<holds, turn>>

rwlock_read_lock(t) ==
    /\ Calls(t) /\ holds[t] = "none"
    /\ IF rw.writers > 0 THEN Spins /\ UNCHANGED rw
       ELSE Gets(t, "read") /\ rw' = [rw EXCEPT !.readers = @ + 1]

rwlock_read_trylock(t) ==
    /\ Calls(t) /\ holds[t] = "none" /\ rw.writers = 0
    /\ Gets(t, "read") /\ rw' = [rw EXCEPT !.readers = @ + 1]

rwlock_read_unlock(t) ==
    /\ Calls(t) /\ holds[t] = "read"
    /\ Gets(t, "none") /\ rw' = [rw EXCEPT !.readers = @ - 1]

\* The writer counts itself before it spins for the readers.
rwlock_write_lock(t) ==
    /\ Calls(t) /\ holds[t] = "none"
    /\ IF rw.writers > 0 THEN Spins /\ UNCHANGED rw
       ELSE /\ rw' = [rw EXCEPT !.writers = @ + 1]
            /\ IF rw.readers > 0 THEN Spins ELSE Gets(t, "write")

\* Slip: the readers are not looked at.
NobodyActive_writers == rw.writers = 0

NobodyActive == rw.writers = 0 /\ rw.readers = 0

rwlock_write_trylock(t) ==
    /\ Calls(t) /\ holds[t] = "none" /\ NobodyActive
    /\ Gets(t, "write") /\ rw' = [rw EXCEPT !.writers = @ + 1]

rwlock_write_unlock(t) ==
    /\ Calls(t) /\ holds[t] = "write"
    /\ Gets(t, "none") /\ rw' = [rw EXCEPT !.writers = @ - 1]

rwlock_write_downgrade(t) ==
    /\ Calls(t) /\ holds[t] = "write"
    /\ Gets(t, "read")
    /\ rw' = [rw EXCEPT !.readers = @ + 1, !.writers = @ - 1]

\* The task calls schedule, the lock in its hands or not.
GiveWay(t) ==
    /\ Calls(t) /\ turn' \in RwTasks \ {t}
    /\ UNCHANGED <<rw, holds, spinning>>

RwNext ==
    \E t \in RwTasks :
        \/ rwlock_read_lock(t) \/ rwlock_read_trylock(t) \/ rwlock_read_unlock(t)
        \/ rwlock_write_lock(t) \/ rwlock_write_trylock(t) \/ rwlock_write_unlock(t)
        \/ rwlock_write_downgrade(t) \/ GiveWay(t)

RwSpec == RwInit /\ [][RwNext]_rwVars

Holders(how) == {t \in RwTasks : holds[t] = how}

(* A writer is alone, also after a downgrade and after trylocks met a held  *)
(* lock, and as many readers are counted as hold the lock (rwlock.c:14,     *)
(* 66, 86).                                                                 *)
RwExclusion ==
    /\ Holders("write") # {} => Cardinality(Holders("write")) = 1 /\ Holders("read") = {}
    /\ rw.readers = Cardinality(Holders("read"))
=============================================================================
