----------------------------- MODULE MCMachine -----------------------------
(***************************************************************************)
(* TLC instances of what the processor enters the kernel by: interrupts    *)
(* with the timer and the clock, exceptions, the write faults that         *)
(* copy-on-write handles (with the hash map it keeps), and system calls.   *)
(* They share no state; a behaviour runs one of Parts, the others stay as  *)
(* they started.                                                           *)
(***************************************************************************)
EXTENDS Machine, Traps, CopyOnWrite, Syscalls

CONSTANT Parts

VARIABLE part

MCDescriptors == {Plain, EndsItself, Automatic}

\* Interrupts and the timer; the clock; all three.
MCBounds ==
    {[raises |-> 2, calls |-> 1, events |-> 0, ticks |-> 2],
     [raises |-> 0, calls |-> 3, events |-> 3, ticks |-> 0],
     [raises |-> 1, calls |-> 1, events |-> 1, ticks |-> 0]}

\* Keys 1 and 3 collide in two buckets.
MCHash == <<1, 2, 3>>
MCPages == {1, 2}

vars == <<part, machineVars, trapVars, hashVars, cowVars, sysVars>>

Init ==
    /\ part \in Parts
    /\ MachineInit /\ TrapInit /\ HashInit /\ CowInit /\ SysInit
    /\ part # "interrupts" => bound = CHOOSE b \in Bounds : TRUE
    /\ part # "map" => hmap = hashmap_create(CHOOSE n \in BucketCounts : TRUE)
    /\ part # "syscalls" => ~sce

Next ==
    /\ UNCHANGED part
    /\ \/ part = "interrupts" /\ MachineNext /\ UNCHANGED <<trapVars, hashVars, cowVars, sysVars>>
       \/ part = "traps" /\ TrapNext /\ UNCHANGED <<machineVars, hashVars, cowVars, sysVars>>
       \/ part = "map" /\ HashNext /\ UNCHANGED <<machineVars, trapVars, cowVars, sysVars>>
       \/ part = "cow" /\ CowNext /\ UNCHANGED <<machineVars, trapVars, hashVars, sysVars>>
       \/ part = "syscalls" /\ SysNext /\ UNCHANGED <<machineVars, trapVars, hashVars, cowVars>>

Spec == Init /\ [][Next]_vars /\ MachineFairness /\ CowFairness

(* What the kernel copies for a system call lies in user space, and the    *)
(* report of the calls made names the most used ones (user.c, syscall.c).  *)
SyscallsSound == part = "syscalls" => CopiesStayInUserSpace /\ ReportsMostUsed
=============================================================================
