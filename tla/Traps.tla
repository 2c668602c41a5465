------------------------------- MODULE Traps -------------------------------
(***************************************************************************)
(* CPU exceptions: the stacks of the task state segment                    *)
(* (kernel/interrupt/tss.c), the descriptor table that names it (gdt.c),   *)
(* the exception gates and their dispatch (idt.c), and the handlers of     *)
(* exception.c and, up to its answer, of mm/vmm/fault.c.                   *)
(*                                                                         *)
(* A stack is "none" (not set up), "bad" (overflowed or unmapped), "task"  *)
(* or the name of an interrupt stack.  The processor (Enter) is external:  *)
(* it switches to the gate's interrupt stack, or to rsp0 when it comes     *)
(* from user mode; if it cannot push there it raises a double fault, and   *)
(* if that fails too it resets.                                            *)
(***************************************************************************)
EXTENDS Integers

CONSTANTS
    MaxTraps     \* bound: exceptions

ASSUME TrapsAssumption == MaxTraps \in Nat

VARIABLES
    tss,         \* [rsp0, ist: 1..7 -> stack]
    loaded,      \* the descriptor table with the segment is loaded
    gates,       \* the interrupt stack index of each vector's gate, or NoGate
    handlers,    \* the vectors with an entry in custom_handlers
    cpu,         \* [ring, stack, user: is_user_mode of the current process]
    outcome,     \* "run", "halt" or "reset"
    last,        \* the last exception: [v, ring, user]
    traps        \* exceptions so far

trapVars == <<tss, loaded, gates, handlers, cpu, outcome, last, traps>>

\* The vectors that are told apart; "UD" stands for those without a handler.
Vectors == {"UD", "NMI", "DF", "SS", "GP", "PF"}
NoGate == -1
Usable(stack) == stack \notin {"none", "bad"}

TrapInit ==
    /\ tss = [rsp0 |-> "none", ist |-> [i \in 1 .. 7 |-> "none"]]
    /\ loaded = FALSE
    /\ gates = [v \in Vectors |-> NoGate]
    /\ handlers = {}
    /\ cpu = [ring |-> 0, stack |-> "task", user |-> FALSE]
    /\ outcome = "run" /\ traps = 0
    /\ last = [v |-> "UD", ring |-> 0, user |-> FALSE]

-----------------------------------------------------------------------------
(* Set-up, in the order of kernel_init.                                    *)

\* The default kernel stack is the double fault's.
tss_init ==
    /\ tss.ist[1] = "none"
    /\ tss' = [rsp0 |-> "df",
               ist |-> [i \in 1 .. 7 |->
                          CASE i = 1 -> "df" [] i = 2 -> "nmi" [] i = 3 -> "debug"
                            [] i = 4 -> "ss" [] OTHER -> "none"]]
    /\ UNCHANGED <<loaded, gates, handlers, cpu, outcome, last, traps>>

gdt_init ==
    /\ tss.ist[1] # "none" /\ ~loaded
    /\ loaded' = TRUE
    /\ UNCHANGED <<tss, gates, handlers, cpu, outcome, last, traps>>

\* Slip: no vector has a stack of its own.
idt_init_no_ist ==
    /\ loaded /\ gates["UD"] = NoGate
    /\ gates' = [v \in Vectors |-> 0]
    /\ UNCHANGED <<tss, loaded, handlers, cpu, outcome, last, traps>>

idt_init ==
    /\ loaded /\ gates["UD"] = NoGate
    /\ gates' = [v \in Vectors |->
                   CASE v = "DF" -> 1 [] v = "NMI" -> 2 [] v = "SS" -> 4
                     [] OTHER -> 0]
    /\ UNCHANGED <<tss, loaded, handlers, cpu, outcome, last, traps>>

exception_init ==
    /\ gates["UD"] # NoGate /\ handlers = {}
    /\ handlers' = {"DF", "SS", "GP"}
    /\ UNCHANGED <<tss, loaded, gates, cpu, outcome, last, traps>>

pf_init ==
    /\ "DF" \in handlers /\ "PF" \notin handlers
    /\ handlers' = handlers \cup {"PF"}
    /\ UNCHANGED <<tss, loaded, gates, cpu, outcome, last, traps>>

\* A process gets a kernel stack; a driver gets an interrupt stack.
tss_set_kernel_stack_ctx ==
    /\ tss.ist[1] # "none"
    /\ tss' = [tss EXCEPT !.rsp0 = "task"]
    /\ UNCHANGED <<loaded, gates, handlers, cpu, outcome, last, traps>>

tss_set_ist_stack(i) ==
    /\ tss.ist[1] # "none" /\ i \in 1 .. 7
    /\ tss' = [tss EXCEPT !.ist[i] = "spare"]
    /\ UNCHANGED <<loaded, gates, handlers, cpu, outcome, last, traps>>

-----------------------------------------------------------------------------
(* Running.                                                                *)

\* The scheduler switches to a task, of a user process or of the kernel;
\* its kernel stack may overflow later.
SwitchTask(user) ==
    /\ outcome = "run" /\ cpu.ring = 0
    /\ cpu' = [ring |-> 0, stack |-> "task", user |-> user]
    /\ UNCHANGED <<tss, loaded, gates, handlers, outcome, last, traps>>

Overflow ==
    /\ outcome = "run" /\ cpu.ring = 0
    /\ cpu' = [cpu EXCEPT !.stack = "bad"]
    /\ UNCHANGED <<tss, loaded, gates, handlers, outcome, last, traps>>

user_switch_to_usermode ==
    /\ outcome = "run" /\ cpu.ring = 0 /\ "PF" \in handlers
    /\ cpu' = [cpu EXCEPT !.ring = 3, !.stack = "task"]
    /\ UNCHANGED <<tss, loaded, gates, handlers, outcome, last, traps>>

\* The stack the processor pushes on for vector v.
StackFor(v) ==
    IF gates[v] > 0 THEN tss.ist[gates[v]]
    ELSE IF cpu.ring = 3 THEN tss.rsp0
    ELSE cpu.stack

\* The vector whose handler runs, or "reset".
Entered(v) ==
    IF gates[v] # NoGate /\ Usable(StackFor(v)) THEN v
    ELSE IF v # "DF" /\ gates["DF"] # NoGate /\ Usable(StackFor("DF")) THEN "DF"
    ELSE "reset"

\* interrupt_handler on an exception: the handlers end a user process, or
\* halt; without a handler, default_exception_handler halts.  The page fault
\* handler resumes a fault it can resolve (resolved).
Ends(v) == v \in handlers \ {"DF"} /\ cpu.ring = 3 /\ cpu.user

\* What the handler entered for v does to the CPU and the system.
Handled(w, resolved) ==
    CASE w = "reset" -> [cpu |-> cpu, outcome |-> "reset"]
      [] w = "PF" /\ w \in handlers /\ cpu.ring = 3 /\ resolved ->
            [cpu |-> cpu, outcome |-> "run"]
      [] Ends(w) -> [cpu |-> [ring |-> 0, stack |-> "task", user |-> FALSE],
                     outcome |-> "run"]
      [] OTHER -> [cpu |-> cpu, outcome |-> "halt"]

\* Only the processor raises a double fault.
Trap(v, resolved) ==
    /\ outcome = "run" /\ traps < MaxTraps /\ v # "DF"
    /\ cpu' = Handled(Entered(v), resolved).cpu
    /\ outcome' = Handled(Entered(v), resolved).outcome
    /\ last' = [v |-> v, ring |-> cpu.ring, user |-> cpu.user]
    /\ traps' = traps + 1
    /\ UNCHANGED <<tss, loaded, gates, handlers>>

TrapSetup ==
    \/ tss_init \/ gdt_init \/ idt_init \/ exception_init \/ pf_init
    \/ tss_set_kernel_stack_ctx
    \/ \E i \in {1, 8} : tss_set_ist_stack(i)

TrapNext ==
    \/ outcome = "run" /\ TrapSetup
    \/ \E user \in BOOLEAN : SwitchTask(user)
    \/ Overflow \/ user_switch_to_usermode
    \/ \E v \in Vectors, resolved \in BOOLEAN : Trap(v, resolved)

TrapSpec == TrapInit /\ [][TrapNext]_trapVars

-----------------------------------------------------------------------------

\* Once the gates are set, no exception resets the machine, even on a kernel
\* stack that has overflowed: there is a stack for the double fault, whose
\* handler halts "to prevent triple fault (system reset)".  And once the
\* handlers are registered, a fault of a user process that has one ends that
\* process and not the kernel.
FaultsContained ==
    /\ outcome = "reset" => gates["UD"] = NoGate
    /\ outcome = "halt" /\ last.v \in {"SS", "GP", "PF"} /\ last.v \in handlers
         => ~(last.ring = 3 /\ last.user)
=============================================================================
