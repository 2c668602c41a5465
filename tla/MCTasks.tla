------------------------------ MODULE MCTasks -------------------------------
(***************************************************************************)
(* TLC instances of the tasks on one run queue: the sleeping locks, the    *)
(* threads of a process, the processes, and the reader-writer lock.  A     *)
(* behaviour runs one of Parts; the data of the others stays as it         *)
(* started.  The tasks other than the first are interchangeable.           *)
(***************************************************************************)
EXTENDS Locks, Threads, Process, RwLock, TLC

CONSTANTS Parts,           \* the parts that are run
          t1, t2, t3, t4

VARIABLE part

TaskSymmetry == Permutations(Tasks \ {t1})

threadData == <<tgid, thread_parent, thread_list, detached, join_waiters, joining, asleep,
                mm_refcount, frees, destroyed>>
processData == <<parent, pid, bitmap, zombies, waiting, sleeping, freed>>
vars == <<part, cpu, lockVars, threadData, processData, rwVars>>

Init ==
    /\ part \in Parts
    /\ CASE part = "locks"   -> LocksInit /\ ThreadDataInit /\ ProcessIdle
         [] part = "threads" -> LocksIdle /\ ThreadsInit /\ ProcessIdle
         [] OTHER            -> LocksIdle /\ ThreadDataInit /\ ProcessInit
    /\ RwInit
    /\ part # "rwlock" => turn = t1

Next ==
    /\ UNCHANGED part
    /\ \/ part = "locks" /\ LocksNext /\ UNCHANGED <<threadData, processData, rwVars>>
       \/ part = "threads" /\ ThreadsNext /\ UNCHANGED <<lockVars, processData, rwVars>>
       \/ part = "processes" /\ ProcessNext /\ UNCHANGED <<lockVars, threadData, rwVars>>
       \/ part = "rwlock" /\ RwNext /\ UNCHANGED <<cpu, lockVars, threadData, processData>>

Spec == Init /\ [][Next]_vars
=============================================================================
