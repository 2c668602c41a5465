------------------------------ MODULE Process ------------------------------
(***************************************************************************)
(* kernel/process/process.c: PIDs, fork, exit and wait4.                   *)
(*                                                                         *)
(* zombie_children of a PCB is at once the head of its list of zombies and *)
(* its own node in its parent's list.  So an exit whose parent is itself   *)
(* on a list links the child in front of the parent, in the grandparent's  *)
(* list, and the zombies of an exiting process drop out of reach.          *)
(***************************************************************************)
EXTENDS RunQueue

CONSTANTS Root,      \* the first process, which does not exit
          PID_MAX,   \* PIDs are 1..PID_MAX-1, 0 is reserved
          Orderly    \* TRUE: a process exits only after reaping its children

ASSUME ProcessAssumption == Root \in Tasks /\ PID_MAX \in Nat \ {0, 1}

VARIABLES parent, pid,
          bitmap,      \* the PIDs whose bit is set
          zombies,     \* the list reachable from each zombie_children head
          waiting,     \* the tasks inside a proc_wait4 that blocked
          sleeping,    \* the tasks blocked elsewhere
          freed        \* the PCBs reaped, in order

procVars == <<cpu, parent, pid, bitmap, zombies, waiting, sleeping, freed>>

pid_alloc_init == {0}

ProcessDataInit ==
    /\ parent = [t \in Tasks |-> NULL]
    /\ pid = [t \in Tasks |-> IF t = Root THEN 1 ELSE 0]
    /\ bitmap = pid_alloc_init \cup {1}
    /\ zombies = [t \in Tasks |-> <<>>] /\ waiting = {} /\ sleeping = {} /\ freed = <<>>

(* Before the PID bitmap is set up there are no processes. *)
ProcessIdle ==
    /\ parent = [t \in Tasks |-> NULL] /\ pid = [t \in Tasks |-> 0] /\ bitmap = {}
    /\ zombies = [t \in Tasks |-> <<>>] /\ waiting = {} /\ sleeping = {} /\ freed = <<>>

ProcessInit ==
    /\ cpu = [cur |-> Root, q |-> <<>>,
              st |-> [t \in Tasks |-> IF t = Root THEN "RUNNING" ELSE "UNUSED"]]
    /\ ProcessDataInit

Executes(p) == cpu.cur = p /\ cpu.st[p] # "ZOMBIE" /\ p \notin waiting \cup sleeping

Children(p) == {t \in Tasks : parent[t] = p /\ t \notin Members(freed)}

(* bitmap_find_first_zero, and the bit set. *)
FreePids == (0..PID_MAX - 1) \ bitmap

FirstZero == CHOOSE n \in FreePids : \A k \in FreePids : n <= k

pid_alloc(t) ==
    /\ pid' = [pid EXCEPT ![t] = FirstZero]
    /\ bitmap' = bitmap \cup {FirstZero}

(* proc_fork; without a PID, a PCB or an address space it undoes what it   *)
(* did and returns -1.                                                     *)
proc_fork(p, t) ==
    /\ Executes(p) /\ cpu.st[t] = "UNUSED" /\ FreePids # {}
    /\ pid_alloc(t)
    /\ parent' = [parent EXCEPT ![t] = p]
    /\ cpu' = MakeReady(cpu, t)
    /\ UNCHANGED <<zombies, waiting, sleeping, freed>>

InsertBefore(s, t, u) ==
    LET i == CHOOSE k \in DOMAIN s : s[k] = u
    IN  SubSeq(s, 1, i - 1) \o <<t, u>> \o SubSeq(s, i + 1, Len(s))

(* list_add_tail(&current->zombie_children, &parent->zombie_children). *)

Linked(t) ==
    LET p == parent[t]
    IN  IF \E g \in Tasks : p \in Members(zombies[g])
        THEN [g \in Tasks |-> IF g = t THEN <<>>
                              ELSE IF p \in Members(zombies[g]) THEN InsertBefore(zombies[g], t, p)
                              ELSE zombies[g]]
        ELSE [zombies EXCEPT ![t] = <<>>, ![p] = Append(@, t)]

(* proc_exit and its schedule().  If that returns, the code runs into      *)
(* __builtin_unreachable().                                                *)
proc_exit(t) ==
    /\ Executes(t) /\ t # Root
    /\ Orderly => Children(t) = {}
    /\ zombies' = Linked(t)
    /\ cpu' = ExitCurrent(cpu)
    /\ UNCHANGED <<parent, pid, bitmap, waiting, sleeping, freed>>

(* proc_wait4(pid or -1): reap the first matching zombie (its PID stays    *)
(* allocated), or block; nothing wakes a blocked caller.                   *)
Matching(p, t) == Keep(zombies[p], IF t = NULL THEN Tasks ELSE {t})

\* Slip: the reaped child stays on the zombie list.
Reap_keeps_node(p, z) ==
    /\ freed' = Append(freed, z) /\ UNCHANGED zombies

Reap(p, z) ==
    /\ zombies' = [zombies EXCEPT ![p] = Keep(@, Tasks \ {z})]
    /\ freed' = Append(freed, z)

proc_wait4(p, t) ==
    /\ Executes(p)
    /\ IF Matching(p, t) # <<>>
       THEN Reap(p, Head(Matching(p, t))) /\ UNCHANGED <<cpu, waiting>>
       ELSE /\ cpu' = BlockCurrent(cpu) /\ waiting' = waiting \cup {p}
            /\ UNCHANGED <<zombies, freed>>
    /\ UNCHANGED <<parent, pid, bitmap, sleeping>>

(* schedule() has returned in proc_wait4: -1. *)
WaitReturns(p) ==
    /\ cpu.cur = p /\ p \in waiting
    /\ waiting' = waiting \ {p}
    /\ UNCHANGED <<cpu, parent, pid, bitmap, zombies, sleeping, freed>>

(* Any other blocking call of a process, and its wake-up by another. *)
ProcessSleeps(p) ==
    /\ Executes(p) /\ cpu.q # <<>>
    /\ cpu' = BlockCurrent(cpu) /\ sleeping' = sleeping \cup {p}
    /\ UNCHANGED <<parent, pid, bitmap, zombies, waiting, freed>>

WakeProcess(p, t) ==
    /\ Executes(p) /\ t \in sleeping
    /\ cpu' = MakeReady(cpu, t) /\ sleeping' = sleeping \ {t}
    /\ UNCHANGED <<parent, pid, bitmap, zombies, waiting, freed>>

ProcessNext ==
    \E p \in Tasks :
        \/ \E t \in Tasks : proc_fork(p, t) \/ WakeProcess(p, t)
        \/ \E t \in Tasks \cup {NULL} : proc_wait4(p, t)
        \/ proc_exit(p)
        \/ ProcessSleeps(p)
        \/ WaitReturns(p)

ProcessSpec == ProcessInit /\ [][ProcessNext]_procVars

----------------------------------------------------------------------------
(* No two PCBs that exist have the same PID, and theirs are marked: a PID  *)
(* still names the process that got it when that has become a zombie.      *)
PidsUnique ==
    LET alive == {t \in Tasks : cpu.st[t] # "UNUSED" /\ t \notin Members(freed)}
    IN  /\ \A t, u \in alive : pid[t] = pid[u] => t = u
        /\ \A t \in alive : pid[t] \in bitmap \ {0}

(* With orderly exits every zombie waits in the list of its own parent,    *)
(* once, and nothing else is in a list: none is lost, reaped twice or      *)
(* reaped by a stranger.                                                   *)
ZombiesListedOnce ==
    /\ \A t \in Tasks : cpu.st[t] = "ZOMBIE" /\ t \notin Members(freed)
                            => t \in Members(zombies[parent[t]])
    /\ \A p \in Tasks : \A i, j \in DOMAIN zombies[p] :
         /\ parent[zombies[p][i]] = p /\ zombies[p][i] \notin Members(freed)
         /\ zombies[p][i] = zombies[p][j] => i = j

(* Once the PID bitmap is set up, PIDs name one process each, and a zombie *)
(* is reaped by its own parent, once.                                      *)
ChildrenReaped == bitmap # {} => PidsUnique /\ ZombiesListedOnce
=============================================================================
