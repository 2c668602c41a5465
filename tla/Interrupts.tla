----------------------------- MODULE Interrupts -----------------------------
(***************************************************************************)
(* Interrupt delivery: the table of IRQ handlers and the common handler of *)
(* kernel/interrupt/idt.c, and the two halves of the initialization of     *)
(* kernel/interrupt/interrupt.c, over the two controllers.                 *)
(*                                                                         *)
(* Every gate is an interrupt gate, so a handler runs with the CPU's       *)
(* interrupts off until it returns; devices keep raising their lines.      *)
(* Most drivers end the interrupt themselves and leave IRQ_FLAG_AUTOEOI    *)
(* clear, so the common handler ends it once more.                         *)
(***************************************************************************)
EXTENDS Naturals, FiniteSets, FiniteSetsExt

-----------------------------------------------------------------------------
(* The pair of 8259 interrupt controllers and the driver's operations on   *)
(* them (kernel/driver/pic/pic.c).  The controllers' state is a record of  *)
(* sets of lines: imr masked, irr latched and waiting, isr in service.     *)
(* Lines 8..15 belong to the slave, which asks through the master's line   *)
(* 2.  What the chips do (Request, Acknowledge, EndOfInterrupt) is         *)
(* external; it is their fully nested, edge triggered mode.                *)

IrqLines == 0 .. 15
MasterLines == 0 .. 7
SlaveLines == 8 .. 15
Cascade == 2

\* A rising edge is latched, whether or not the line is masked.
Request(p, line) == [p EXCEPT !.irr = @ \cup {line}]

\* The lines of one chip that would interrupt: unmasked, and above every
\* line of that chip in service.
Requesting(p, waiting, chip) ==
    {i \in waiting \ p.imr : \A j \in p.isr \cap chip : i < j}

SlaveRequests(p) == Requesting(p, p.irr \cap SlaveLines, SlaveLines)

MasterRequests(p) ==
    Requesting(p, (p.irr \cap MasterLines)
                    \cup (IF SlaveRequests(p) = {} THEN {} ELSE {Cascade}),
               MasterLines)

\* The lines the pair may hand to the CPU: at most one, the most urgent.
Offered(p) ==
    IF MasterRequests(p) = {} THEN {}
    ELSE IF Min(MasterRequests(p)) = Cascade THEN {Min(SlaveRequests(p))}
    ELSE {Min(MasterRequests(p))}

Acknowledge(p, line) ==
    [p EXCEPT !.irr = @ \ {line},
              !.isr = @ \cup {line}
                        \cup (IF line \in SlaveLines THEN {Cascade} ELSE {})]

\* A non-specific end of interrupt ends the chip's most urgent service.
EndOfInterrupt(p, chip) ==
    IF p.isr \cap chip = {} THEN p
    ELSE [p EXCEPT !.isr = @ \ {Min(p.isr \cap chip)}]

\* The chips' initialization clears what is latched and in service; the
\* masks are saved and written back.
pic_init(p) == [p EXCEPT !.irr = {}, !.isr = {}]

\* Slip: the master gets no EOI for a line of the slave.
pic_send_eoi_one_chip(p, irq) ==
    EndOfInterrupt(p, IF irq >= 8 THEN SlaveLines ELSE MasterLines)

pic_send_eoi(p, irq) ==
    EndOfInterrupt(IF irq >= 8 THEN EndOfInterrupt(p, SlaveLines) ELSE p,
                   MasterLines)

pic_disable_irq(p, irq) == [p EXCEPT !.imr = @ \cup {irq}]

pic_enable_irq(p, irq) == [p EXCEPT !.imr = @ \ {irq}]

pic_disable_all(p) == [p EXCEPT !.imr = IrqLines]

pic_enable_all(p) == [p EXCEPT !.imr = {}]

-----------------------------------------------------------------------------
(* Delivery *)

CONSTANTS
    Devices,     \* the lines with a device, besides those of other modules
    Bounds       \* bounds explored: [raises, calls, events, ticks]

ASSUME InterruptsAssumption ==
    /\ Devices \subseteq IrqLines \ {Cascade}
    /\ Bounds \subseteq [raises : Nat, calls : Nat, events : Nat, ticks : Nat]

VARIABLES
    pic,         \* the controllers
    phase,       \* "reset", then "init" (interrupt_init), then "live"
    irq_table,   \* the descriptor of each line, or NoDescriptor
    custom,      \* lines with an old-style handler in custom_handlers
    cpuIF,       \* the CPU's interrupt flag
    running,     \* the interrupt being handled: [irq, pc], or Idle
    raises,      \* edges of the lines in Devices so far
    bound        \* the bounds of this behaviour

irqVars == <<pic, phase, irq_table, custom, cpuIF, running, raises, bound>>

\* own: the handler sends an end of interrupt; auto: IRQ_FLAG_AUTOEOI.
NoDescriptor == [own |-> FALSE, auto |-> FALSE, in_use |-> FALSE]
Plain == [own |-> FALSE, auto |-> FALSE, in_use |-> TRUE]
EndsItself == [own |-> TRUE, auto |-> FALSE, in_use |-> TRUE]
Automatic == [own |-> TRUE, auto |-> TRUE, in_use |-> TRUE]

Idle == [irq |-> Cascade, pc |-> "none"]

IrqInit ==
    /\ pic = [imr |-> {}, irr |-> {}, isr |-> {}]
    /\ phase = "reset"
    /\ irq_table = [i \in IrqLines |-> NoDescriptor]
    /\ custom = {}
    /\ cpuIF = FALSE
    /\ running = Idle
    /\ raises = 0
    /\ bound \in Bounds

-----------------------------------------------------------------------------
(* Set-up by the kernel's thread; it is not the interrupted handler.       *)

Thread == running = Idle

interrupt_init ==
    /\ phase = "reset"
    /\ pic' = pic_disable_all(pic_init(pic))
    /\ phase' = "init"
    /\ irq_table' = [i \in IrqLines |-> NoDescriptor]
    /\ custom' = {}
    /\ UNCHANGED <<cpuIF, running, raises, bound>>

\* Drivers register from kernel_init, before interrupts are turned on.
\* The new table, or the old one when the line is taken.
Registered(table, irq, desc) ==
    IF table[irq].in_use THEN table ELSE [table EXCEPT ![irq] = desc]

irq_register_handler(irq, desc) ==
    /\ phase = "init"
    /\ irq_table' = Registered(irq_table, irq, desc)
    /\ UNCHANGED <<pic, phase, custom, cpuIF, running, raises, bound>>

\* Only the descriptor that is registered may be taken out.
irq_unregister_handler(irq, desc) ==
    /\ phase = "init"
    /\ irq_table[irq] = desc
    /\ irq_table' = [irq_table EXCEPT ![irq] = NoDescriptor]
    /\ UNCHANGED <<pic, phase, custom, cpuIF, running, raises, bound>>

idt_register_handler(irq) ==
    /\ phase = "init"
    /\ custom' = custom \cup {irq}
    /\ UNCHANGED <<pic, phase, irq_table, cpuIF, running, raises, bound>>

interrupt_finalize ==
    /\ Thread /\ phase = "init"
    /\ pic' = pic_enable_all(pic)
    /\ phase' = "live"
    /\ cpuIF' = TRUE
    /\ UNCHANGED <<irq_table, custom, running, raises, bound>>

-----------------------------------------------------------------------------
(* Devices and the CPU.                                                    *)

Raise(line) ==
    /\ raises < bound.raises
    /\ raises' = raises + 1
    /\ pic' = Request(pic, line)
    /\ UNCHANGED <<phase, irq_table, custom, cpuIF, running, bound>>

\* The CPU takes the interrupt the controllers offer; the gate clears IF.
TakeInterrupt ==
    /\ cpuIF
    /\ \E line \in Offered(pic) :
          /\ pic' = Acknowledge(pic, line)
          /\ running' = [irq |-> line, pc |-> "handler"]
    /\ cpuIF' = FALSE
    /\ UNCHANGED <<phase, irq_table, custom, raises, bound>>

\* What interrupt_handler does up to its own end of interrupt: the line's
\* handler, new style or old, or only a warning.
HandlerEffect(p, irq) ==
    IF irq_table[irq].in_use /\ irq_table[irq].own
    THEN pic_send_eoi(p, irq) ELSE p

CallsHandler(irq) == irq_table[irq].in_use \/ irq \in custom

RunHandler(irq) ==
    /\ running = [irq |-> irq, pc |-> "handler"]
    /\ pic' = HandlerEffect(pic, irq)
    /\ running' = [irq |-> irq, pc |-> "return"]
    /\ UNCHANGED <<phase, irq_table, custom, cpuIF, raises, bound>>

\* Slip: no EOI for an interrupt that has no handler.
interrupt_handler_no_spurious_eoi ==
    /\ running.pc = "return"
    /\ pic' = IF irq_table[running.irq].auto \/ ~CallsHandler(running.irq)
              THEN pic ELSE pic_send_eoi(pic, running.irq)
    /\ running' = Idle
    /\ cpuIF' = TRUE
    /\ UNCHANGED <<phase, irq_table, custom, raises, bound>>

\* The rest of interrupt_handler, and the return to the interrupted thread,
\* which was running with interrupts on.
interrupt_handler ==
    /\ running.pc = "return"
    /\ pic' = IF irq_table[running.irq].auto THEN pic
              ELSE pic_send_eoi(pic, running.irq)
    /\ running' = Idle
    /\ cpuIF' = TRUE
    /\ UNCHANGED <<phase, irq_table, custom, raises, bound>>

-----------------------------------------------------------------------------

\* Whatever is in service is the interrupt the CPU is handling: nobody ends
\* another line's service, and no line is left in service after its handler
\* returned, which would keep it and the less urgent lines silent for good.
\* It holds although most interrupts are ended twice (their driver's
\* pic_send_eoi and the one of interrupt_handler).
OnlyRunningInService ==
    pic.isr \subseteq
        IF running = Idle THEN {}
        ELSE {running.irq} \cup
             (IF running.irq \in SlaveLines THEN {Cascade} ELSE {})
=============================================================================
