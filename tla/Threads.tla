------------------------------ MODULE Threads ------------------------------
(***************************************************************************)
(* kernel/process/thread.c with proc_alloc_pcb and proc_free_pcb of        *)
(* process.c: the threads of one process, from creation to exit, join and  *)
(* detach, and the reference counts of the address space they share.       *)
(*                                                                         *)
(* A PCB is an address and is not used again once freed.  Join and detach  *)
(* name their target by PCB instead of by TID (TIDs are unique).           *)
(***************************************************************************)
EXTENDS RunQueue

CONSTANTS Leader,          \* the process that starts with the CPU
          OneOwner         \* TRUE: only one task ever joins or detaches a thread

ASSUME LeaderAssumption == Leader \in Tasks

VARIABLES tgid,           \* thread group, as its leader's PCB
          thread_parent,  \* pcb->parent
          thread_list,    \* pcb->thread_list, the threads it created
          detached,       \* the PCBs with detached set
          join_waiters,   \* the tasks with an entry on each join queue
          joining,        \* the target of each task inside proc_thread_join
          asleep,         \* the tasks blocked elsewhere
          mm_refcount,    \* pcb->mm_refcount, one counter per PCB
          frees,          \* how often proc_free_pcb was called on each PCB
          destroyed       \* vmm_destroy_user_space has been called

threadVars == <<cpu, tgid, thread_parent, thread_list, detached, join_waiters, joining,
                asleep, mm_refcount, frees, destroyed>>

ThreadDataInit ==
    /\ tgid = [t \in Tasks |-> t] /\ thread_parent = [t \in Tasks |-> NULL]
    /\ thread_list = [t \in Tasks |-> <<>>] /\ detached = {}
    /\ join_waiters = [t \in Tasks |-> <<>>] /\ joining = [t \in Tasks |-> NULL]
    /\ asleep = {} /\ destroyed = FALSE
    /\ mm_refcount = [t \in Tasks |-> 1] /\ frees = [t \in Tasks |-> 0]

ThreadsInit ==
    /\ cpu = [cur |-> Leader, q |-> <<>>,
              st |-> [t \in Tasks |-> IF t = Leader THEN "RUNNING" ELSE "UNUSED"]]
    /\ ThreadDataInit

(* t is executing code of its own, outside the calls below. *)
Runs(t) == cpu.cur = t /\ cpu.st[t] # "ZOMBIE" /\ joining[t] = NULL /\ t \notin asleep

Without(s, t) == Keep(s, Tasks \ {t})

\* Slip: the address space goes with the first PCB.
proc_free_pcb_uncounted(t) ==
    /\ frees' = [frees EXCEPT ![t] = @ + 1]
    /\ destroyed' = TRUE
    /\ UNCHANGED mm_refcount

(* proc_free_pcb: the PCB's own counter decides about the address space. *)
proc_free_pcb(t) ==
    /\ frees' = [frees EXCEPT ![t] = @ + 1]
    /\ mm_refcount' = [mm_refcount EXCEPT ![t] = @ - 1]
    /\ destroyed' = (destroyed \/ mm_refcount[t] = 1)

(* current, then the run queue, then the threads of the queued PCBs. *)
proc_find_by_tid ==
    {cpu.cur} \cup Members(cpu.q) \cup UNION {Members(thread_list[u]) : u \in Members(cpu.q)}

proc_create_user_thread(p, t) ==
    /\ Runs(p) /\ cpu.st[t] = "UNUSED"
    /\ thread_parent' = [thread_parent EXCEPT ![t] = p]
    /\ tgid' = [tgid EXCEPT ![t] = tgid[p]]
    /\ mm_refcount' = [mm_refcount EXCEPT ![p] = @ + 1, ![t] = mm_refcount[p] + 1]
    /\ thread_list' = [thread_list EXCEPT ![p] = Append(@, t)]
    /\ cpu' = MakeReady(cpu, t)
    /\ UNCHANGED <<detached, join_waiters, joining, asleep, frees, destroyed>>

(* No stack, or no join queue: the new PCB is freed again, the creator     *)
(* keeps the reference it added.                                           *)
CreateFails(p, t) ==
    /\ Runs(p) /\ cpu.st[t] = "UNUSED"
    /\ cpu' = [cpu EXCEPT !.st[t] = "ZOMBIE"]
    /\ thread_parent' = [thread_parent EXCEPT ![t] = p]
    /\ tgid' = [tgid EXCEPT ![t] = tgid[p]]
    /\ mm_refcount' = [mm_refcount EXCEPT ![p] = @ + 1, ![t] = mm_refcount[p]]
    /\ frees' = [frees EXCEPT ![t] = @ + 1]
    /\ UNCHANGED <<thread_list, detached, join_waiters, joining, asleep, destroyed>>

(* A kernel thread has no parent, is its own group, and runs in its        *)
(* creator's address space with a count of its own.                        *)
proc_create_kernel_thread(p, t) ==
    /\ Runs(p) /\ cpu.st[t] = "UNUSED"
    /\ cpu' = MakeReady(cpu, t)
    /\ UNCHANGED <<tgid, thread_parent, thread_list, detached, join_waiters, joining, asleep,
                   mm_refcount, frees, destroyed>>

\* Slip: the joiners are not woken.
WakeJoiners_never(c, t) == c

(* proc_thread_exit up to schedule(): a detached thread frees its own PCB, *)
(* another becomes a zombie and wakes its joiners.                         *)
WakeJoiners(c, t) == MakeAllReady(c, join_waiters[t])

\* Slip: a joinable thread frees its own PCB.
BecomeZombie_frees(t) ==
    /\ cpu' = WakeJoiners([cpu EXCEPT !.st[t] = "ZOMBIE"], t)
    /\ join_waiters' = [join_waiters EXCEPT ![t] = <<>>]
    /\ proc_free_pcb(t)

BecomeZombie(t) ==
    /\ cpu' = WakeJoiners([cpu EXCEPT !.st[t] = "ZOMBIE"], t)
    /\ join_waiters' = [join_waiters EXCEPT ![t] = <<>>]
    /\ UNCHANGED <<mm_refcount, frees, destroyed>>

proc_thread_exit(t) ==
    /\ Runs(t) /\ t # Leader
    /\ thread_list' = IF thread_parent[t] = NULL THEN thread_list
                      ELSE [thread_list EXCEPT ![thread_parent[t]] = Without(@, t)]
    /\ IF t \in detached
       THEN /\ proc_free_pcb(t)
            /\ cpu' = [cpu EXCEPT !.st[t] = "ZOMBIE"]
            /\ UNCHANGED join_waiters
       ELSE BecomeZombie(t)
    /\ UNCHANGED <<tgid, thread_parent, detached, joining, asleep>>

(* The schedule() at the end of proc_thread_exit.  A timer interrupt may   *)
(* come before it and looks at scheduler.current.  With nothing queued it  *)
(* returns to __builtin_unreachable(), which has no behaviour to model.    *)
ExitSchedule(t) ==
    /\ cpu.cur = t /\ cpu.st[t] = "ZOMBIE" /\ cpu.q # <<>>
    /\ cpu' = schedule(cpu)
    /\ UNCHANGED <<tgid, thread_parent, thread_list, detached, join_waiters, joining, asleep,
                   mm_refcount, frees, destroyed>>

Unclaimed(t, u) ==
    OneOwner => u # t /\ \A v \in Tasks : joining[v] # u

(* What join and detach ask of their target: found, in the caller's group, *)
(* and for join not detached.  Any other call returns -1 and changes       *)
(* nothing.                                                                *)

Detachable(t, u) == u \in proc_find_by_tid /\ tgid[u] = tgid[t]
Joinable(t, u) == Detachable(t, u) /\ u \notin detached

proc_thread_join(t, u) ==
    /\ Runs(t) /\ Unclaimed(t, u) /\ u # Leader /\ Joinable(t, u)
    /\ IF cpu.st[u] = "ZOMBIE"
       THEN proc_free_pcb(u) /\ UNCHANGED <<cpu, join_waiters, joining>>
       ELSE /\ joining' = [joining EXCEPT ![t] = u]
            /\ join_waiters' = [join_waiters EXCEPT ![u] = Append(@, t)]
            /\ cpu' = BlockCurrent(cpu)
            /\ UNCHANGED <<mm_refcount, frees, destroyed>>
    /\ UNCHANGED <<tgid, thread_parent, thread_list, detached, asleep>>

(* Back from sleep_on in wait_event: the target has exited, or sleep again. *)
JoinResume(t) ==
    /\ cpu.cur = t /\ joining[t] # NULL
    /\ LET u == joining[t]
       IN  IF cpu.st[u] = "ZOMBIE"
           THEN /\ proc_free_pcb(u)
                /\ joining' = [joining EXCEPT ![t] = NULL]
                /\ UNCHANGED <<cpu, join_waiters>>
           ELSE /\ cpu.q # <<>>
                /\ join_waiters' = [join_waiters EXCEPT ![u] = Append(@, t)]
                /\ cpu' = BlockCurrent(cpu)
                /\ UNCHANGED <<joining, mm_refcount, frees, destroyed>>
    /\ UNCHANGED <<tgid, thread_parent, thread_list, detached, asleep>>

proc_thread_detach(t, u) ==
    /\ Runs(t) /\ (\A v \in Tasks : OneOwner => joining[v] # u)
    /\ u # Leader /\ Detachable(t, u)
    /\ detached' = detached \cup {u}
    /\ IF cpu.st[u] = "ZOMBIE" THEN proc_free_pcb(u)
       ELSE UNCHANGED <<mm_refcount, frees, destroyed>>
    /\ UNCHANGED <<cpu, tgid, thread_parent, thread_list, join_waiters, joining, asleep>>

(* Any other blocking call of a thread, and its wake-up by another. *)
ThreadSleeps(t) ==
    /\ Runs(t) /\ cpu.q # <<>>
    /\ cpu' = BlockCurrent(cpu) /\ asleep' = asleep \cup {t}
    /\ UNCHANGED <<tgid, thread_parent, thread_list, detached, join_waiters, joining,
                   mm_refcount, frees, destroyed>>

WakeThread(t, u) ==
    /\ Runs(t) /\ u \in asleep
    /\ cpu' = MakeReady(cpu, u) /\ asleep' = asleep \ {u}
    /\ UNCHANGED <<tgid, thread_parent, thread_list, detached, join_waiters, joining,
                   mm_refcount, frees, destroyed>>

(* The leader exits last (proc_exit) and is reaped by its parent.  *)
LeaderReaped ==
    /\ Runs(Leader) /\ frees[Leader] = 0
    /\ \A t \in Tasks \ {Leader} : cpu.st[t] = "UNUSED" \/ frees[t] > 0
    /\ cpu' = [cpu EXCEPT !.st[Leader] = "ZOMBIE"]
    /\ proc_free_pcb(Leader)
    /\ UNCHANGED <<tgid, thread_parent, thread_list, detached, join_waiters, joining, asleep>>

ThreadsNext ==
    \/ \E t, u \in Tasks :
        \/ proc_create_user_thread(t, u)
        \/ CreateFails(t, u)
        \/ proc_create_kernel_thread(t, u)
        \/ proc_thread_join(t, u)
        \/ proc_thread_detach(t, u)
        \/ WakeThread(t, u)
    \/ \E t \in Tasks :
        \/ proc_thread_exit(t)
        \/ ExitSchedule(t)
        \/ JoinResume(t)
        \/ ThreadSleeps(t)
    \/ LeaderReaped

ThreadsSpec == ThreadsInit /\ [][ThreadsNext]_threadVars

----------------------------------------------------------------------------
(* Exit, join and detach in any order free a PCB at most once, and nothing *)
(* still points to a freed one: it is not queued, no thread list holds it, *)
(* no task is inside a join of it or on its join queue.                    *)
FreedOnce ==
    \A t \in Tasks :
        /\ frees[t] \in 0..1
        /\ frees[t] > 0 =>
             /\ t \notin Members(cpu.q) /\ t \notin asleep
             /\ \A u \in Tasks : t \notin Members(thread_list[u]) /\ joining[u] # t
             /\ join_waiters[t] = <<>>

(* A joiner off the CPU and not ready waits for a thread that has yet to   *)
(* exit, and is on its join queue, so the exit will find it.               *)
JoinersWillBeWoken ==
    \A t \in Tasks : joining[t] # NULL /\ cpu.st[t] = "BLOCKED" /\ t # cpu.cur =>
        /\ t \in Members(join_waiters[joining[t]])
        /\ cpu.st[joining[t]] # "ZOMBIE"

(* Kernel threads run in their creator's address space without counting. *)
OnlyUserThreads ==
    \A t \in Tasks \ {Leader} : thread_parent[t] = NULL => cpu.st[t] = "UNUSED"

(* "For threads sharing address space, only destroy when refcount reaches  *)
(* 0": with user threads only, the address space is not destroyed while a  *)
(* task that runs in it is alive, although each PCB has a counter of its   *)
(* own, copied when the PCB was made.                                      *)
AddressSpaceOutlivesThreads ==
    destroyed /\ OnlyUserThreads => \A t \in Tasks : cpu.st[t] \in {"UNUSED", "ZOMBIE"}

=============================================================================
