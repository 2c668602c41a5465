-------------------------- MODULE InterruptProofs --------------------------
(***************************************************************************)
(* No line stays in service after its handler returned, whichever lines    *)
(* have devices, whatever the drivers register and however long the        *)
(* machine runs; the clock never goes silent while a driver waits for it;  *)
(* and an exception ends the process that raised it, not the machine.      *)
(***************************************************************************)
EXTENDS Machine, Traps, TLAPS

\* Leaves go to Zenon unless they name another prover.
USE ZenonT(60)

(* What may be in service while line irq is handled: the line, and the     *)
(* cascade when it is the slave's.                                         *)
Served(irq) == {irq} \cup (IF irq \in SlaveLines THEN {Cascade} ELSE {})

(* A handler that interrupt_handler leaves the end of interrupt to sends   *)
(* one.                                                                    *)
SoundEntry(d) ==
    /\ d \in [own : BOOLEAN, auto : BOOLEAN, in_use : BOOLEAN]
    /\ d.auto => d.own /\ d.in_use

(* irq_table has a sound entry for every line. *)
SoundTable(table) ==
    /\ table = [i \in IrqLines |-> table[i]]
    /\ \A i \in IrqLines : SoundEntry(table[i])

(* The inductive invariant.  The CPU's flag is off while a handler runs,   *)
(* so the service of one line has ended when the next begins; and a        *)
(* handler that has returned without an end of interrupt to come from      *)
(* interrupt_handler has sent its own.                                     *)
ServiceInv ==
    /\ pic = [imr |-> pic.imr, irr |-> pic.irr, isr |-> pic.isr]
    /\ Cascade \notin pic.irr
    /\ SoundTable(irq_table)
    /\ running \in [irq : IrqLines, pc : {"none", "handler", "return"}]
    /\ running.pc = "none" => running = Idle
    /\ cpuIF \in BOOLEAN /\ (cpuIF => running = Idle)
    /\ phase # "live" => running = Idle /\ ~cpuIF
    /\ running.pc = "return" /\ irq_table[running.irq].auto => pic.isr = {}
    /\ OnlyRunningInService

-----------------------------------------------------------------------------
(* The controllers.                                                        *)

(* Lines of which one is among the four from a have a lowest one. *)
LEMMA LeastInFour ==
    ASSUME NEW S \in SUBSET IrqLines, NEW a \in Nat,
           \A y \in S : y >= a, \E x \in S : x < a + 4
    PROVE  \E x \in S : \A y \in S : x =< y
<1>0. \A y \in S : y \in Int
  BY SMTT(60) DEF IrqLines
<1>1. CASE a \in S
  BY <1>0, <1>1
<1>2. CASE a \notin S /\ a + 1 \in S
  BY SMTT(60), <1>0, <1>2
<1>3. CASE a \notin S /\ a + 1 \notin S /\ a + 2 \in S
  BY SMTT(60), <1>0, <1>3
<1>4. CASE a \notin S /\ a + 1 \notin S /\ a + 2 \notin S
  BY SMTT(60), <1>0, <1>4
<1> QED
  BY <1>1, <1>2, <1>3, <1>4

(* The line of highest priority among some lines is one of them. *)
LEMMA MinIsMember ==
    ASSUME NEW S \in SUBSET IrqLines, S # {}
    PROVE  Min(S) \in S
<1> SUFFICES \E x \in S : \A y \in S : x =< y
  BY DEF Min
<1>0. \A y \in S : y \in 0 .. 15
  BY DEF IrqLines
<1>1. CASE \E x \in S : x < 4
  BY SMTT(60), <1>0, <1>1, LeastInFour
<1>2. CASE (\A y \in S : y >= 4) /\ \E x \in S : x < 8
  BY SMTT(60), <1>0, <1>2, LeastInFour
<1>3. CASE (\A y \in S : y >= 8) /\ \E x \in S : x < 12
  BY SMTT(60), <1>0, <1>3, LeastInFour
<1>4. CASE \A y \in S : y >= 12
  BY SMTT(60), <1>0, <1>4, LeastInFour
<1> QED
  BY SMTT(60), <1>0, <1>1, <1>2, <1>3, <1>4

(* What the PIC offers the CPU is a line, if no device drives the cascade. *)
LEMMA OfferedIsLine ==
    ASSUME NEW p, Cascade \notin p.irr, NEW line \in Offered(p)
    PROVE  line \in IrqLines
<1>1. SlaveRequests(p) \in SUBSET IrqLines
  BY SMTT(60) DEF SlaveRequests, Requesting, SlaveLines, IrqLines
<1>2. MasterRequests(p) \in SUBSET IrqLines
  BY SMTT(60) DEF MasterRequests, Requesting, MasterLines, IrqLines, Cascade
<1>3. MasterRequests(p) # {}
  BY DEF Offered
<1>4. CASE Min(MasterRequests(p)) = Cascade
  <2>1. Cascade \in MasterRequests(p)
    BY <1>2, <1>3, <1>4, MinIsMember
  <2>2. SlaveRequests(p) # {}
    BY <2>1 DEF MasterRequests, Requesting
  <2> QED
    BY <1>1, <1>3, <1>4, <2>2, MinIsMember DEF Offered
<1>5. CASE Min(MasterRequests(p)) # Cascade
  BY <1>2, <1>3, <1>5, MinIsMember DEF Offered
<1> QED
  BY <1>4, <1>5

(* Of one line, that line. *)
LEMMA MinOfOne == \A x \in Nat : Min({x}) = x
BY SMTT(60) DEF Min

(* One end of interrupt for each chip that has the line ends all there is. *)
LEMMA EoiEndsService ==
    ASSUME NEW p, p = [imr |-> p.imr, irr |-> p.irr, isr |-> p.isr],
           NEW irq \in IrqLines, p.isr \subseteq Served(irq)
    PROVE  pic_send_eoi(p, irq) = [imr |-> p.imr, irr |-> p.irr, isr |-> {}]
<1>1. CASE irq \in SlaveLines
  <2> DEFINE q == [imr |-> p.imr, irr |-> p.irr, isr |-> p.isr \ {irq}]
  <2>0. irq >= 8 /\ irq \in Nat /\ irq # Cascade
        /\ Cascade \in MasterLines /\ Cascade \notin SlaveLines /\ irq \notin MasterLines
    BY SMTT(60), <1>1 DEF SlaveLines, MasterLines, Cascade
  <2>1. p.isr \cap SlaveLines \in {{}, {irq}}
    BY <1>1, <2>0 DEF Served
  <2>2. EndOfInterrupt(p, SlaveLines) = q
    BY <1>1, <2>0, <2>1, MinOfOne DEF EndOfInterrupt
  <2>3. q.isr \in {{}, {Cascade}} /\ q.imr = p.imr /\ q.irr = p.irr
    BY <1>1 DEF Served
  <2>4. q.isr \cap MasterLines = q.isr
    BY <2>0, <2>3
  <2>5. EndOfInterrupt(q, MasterLines) = [imr |-> p.imr, irr |-> p.irr, isr |-> {}]
    BY SMTT(60), <2>3, <2>4, MinOfOne DEF EndOfInterrupt, Cascade
  <2> QED
    BY <2>0, <2>2, <2>5 DEF pic_send_eoi
<1>2. CASE irq \notin SlaveLines
  <2>1. ~(irq >= 8) /\ irq \in MasterLines /\ irq \in Nat
    BY SMTT(60), <1>2 DEF SlaveLines, MasterLines, IrqLines
  <2>2. p.isr \in {{}, {irq}} /\ p.isr \cap MasterLines = p.isr
    BY <1>2, <2>1 DEF Served
  <2>3. EndOfInterrupt(p, MasterLines) = [imr |-> p.imr, irr |-> p.irr, isr |-> {}]
    BY <2>2, <2>1, MinOfOne DEF EndOfInterrupt
  <2> QED
    BY <2>1, <2>3 DEF pic_send_eoi
<1> QED
  BY <1>1, <1>2

-----------------------------------------------------------------------------
(* The steps.                                                              *)

(* A step that leaves what is in service, the table and the CPU alone:     *)
(* devices that raise a line, and the thread that masks one.               *)
LEMMA LatchingKeeps ==
    ASSUME ServiceInv, NEW masked, NEW latched, Cascade \notin latched,
           pic' = [imr |-> masked, irr |-> latched, isr |-> pic.isr],
           UNCHANGED <<phase, irq_table, cpuIF, running>>
    PROVE  ServiceInv'
<1>1. pic'.imr = masked /\ pic'.irr = latched /\ pic'.isr = pic.isr
  OBVIOUS
<1> QED
  BY <1>1 DEF ServiceInv, OnlyRunningInService

(* A device's request on a line other than the cascade. *)
LEMMA RequestKeeps ==
    ASSUME ServiceInv, NEW line, line # Cascade, pic' = Request(pic, line),
           UNCHANGED <<phase, irq_table, cpuIF, running>>
    PROVE  ServiceInv'
<1>1. pic' = [imr |-> pic.imr, irr |-> pic.irr \cup {line}, isr |-> pic.isr]
  BY DEF Request, ServiceInv
<1>2. Cascade \notin pic.irr \cup {line}
  BY DEF ServiceInv
<1> QED
  BY <1>1, <1>2, LatchingKeeps

(* A change of the clock's output, with or without an edge. *)
LEMMA EdgeKeeps ==
    ASSUME ServiceInv, NEW new, pic' = Edge(pic, chip, new),
           UNCHANGED <<phase, irq_table, cpuIF, running>>
    PROVE  ServiceInv'
<1>1. CASE pic' = pic
  BY <1>1 DEF ServiceInv, OnlyRunningInService
<1>2. CASE pic' = Request(pic, RTC_IRQ)
  BY SMTT(60), <1>2, RequestKeeps DEF RTC_IRQ, Cascade
<1> QED
  BY <1>1, <1>2 DEF Edge

(* A step that touches none of the interrupt state. *)
LEMMA StandstillKeeps == ServiceInv /\ UNCHANGED irqVars => ServiceInv'
BY SMTT(60) DEF ServiceInv, OnlyRunningInService, irqVars

(* Writing a sound entry keeps the table sound. *)
LEMMA EntryKeepsTable ==
    ASSUME NEW table, SoundTable(table), NEW irq \in IrqLines, NEW d, SoundEntry(d)
    PROVE  SoundTable([table EXCEPT ![irq] = d])
BY DEF SoundTable

(* A driver registers before interrupts are turned on. *)
LEMMA RegisterKeeps ==
    ASSUME ServiceInv, NEW irq \in IrqLines,
           NEW d \in [own : BOOLEAN, auto : BOOLEAN, in_use : {TRUE}], d.auto => d.own,
           irq_register_handler(irq, d)
    PROVE  ServiceInv'
<1>1. running = Idle /\ UNCHANGED <<pic, phase, cpuIF, running>>
  BY DEF irq_register_handler, ServiceInv
<1>2. irq_table' = irq_table \/ irq_table' = [irq_table EXCEPT ![irq] = d]
  BY DEF irq_register_handler, Registered
<1>3. SoundTable(irq_table')
  <2>1. SoundEntry(d)
    BY DEF SoundEntry
  <2> QED
    BY SMTT(60), <1>2, <2>1, EntryKeepsTable DEF ServiceInv
<1>4. running.pc # "return"
  BY <1>1 DEF Idle
<1> QED
  BY <1>1, <1>3, <1>4 DEF ServiceInv, OnlyRunningInService

(* irq_unregister_handler, whether or not it clears the entry. *)
LEMMA UnregisterKeeps ==
    ASSUME ServiceInv, NEW irq \in IrqLines, NEW d, irq_unregister_handler(irq, d)
    PROVE  ServiceInv'
<1>1. running = Idle /\ UNCHANGED <<pic, phase, cpuIF, running>>
  BY DEF irq_unregister_handler, ServiceInv
<1>2. irq_table' = [irq_table EXCEPT ![irq] = NoDescriptor]
  BY DEF irq_unregister_handler
<1>3. SoundTable(irq_table')
  <2>1. SoundEntry(NoDescriptor)
    BY DEF SoundEntry, NoDescriptor
  <2> QED
    BY <1>2, <2>1, EntryKeepsTable DEF ServiceInv
<1>4. running.pc # "return"
  BY <1>1 DEF Idle
<1> QED
  BY <1>1, <1>3, <1>4 DEF ServiceInv, OnlyRunningInService

(* The controllers are set up before, and opened when, the CPU listens. *)
LEMMA SetUpKeeps ==
    ASSUME ServiceInv, interrupt_init \/ interrupt_finalize
    PROVE  ServiceInv'
<1>0. running' = running /\ running = Idle
  BY DEF ServiceInv, interrupt_init, interrupt_finalize, Thread
<1>1. CASE interrupt_init
  <2>1. pic' = [imr |-> IrqLines, irr |-> {}, isr |-> {}]
    BY <1>1 DEF interrupt_init, pic_disable_all, pic_init, ServiceInv
  <2>2. SoundTable(irq_table')
    BY <1>1 DEF interrupt_init, NoDescriptor, SoundTable, SoundEntry
  <2>3. cpuIF' = cpuIF /\ ~cpuIF
    BY <1>1 DEF interrupt_init, ServiceInv
  <2> QED
    BY <1>0, <2>1, <2>2, <2>3 DEF ServiceInv, OnlyRunningInService
<1>2. CASE interrupt_finalize
  <2>1. pic' = [imr |-> {}, irr |-> pic.irr, isr |-> pic.isr]
    BY <1>2 DEF interrupt_finalize, pic_enable_all, ServiceInv
  <2>2. phase' = "live" /\ cpuIF' = TRUE /\ irq_table' = irq_table
    BY <1>2 DEF interrupt_finalize
  <2> QED
    BY <1>0, <2>1, <2>2 DEF ServiceInv, OnlyRunningInService
<1> QED
  BY <1>1, <1>2

(* The CPU takes what the PIC offers: that line enters service. *)
LEMMA TakeKeeps == ASSUME ServiceInv, TakeInterrupt PROVE ServiceInv'
<1>1. PICK line \in Offered(pic) :
          /\ pic' = Acknowledge(pic, line)
          /\ running' = [irq |-> line, pc |-> "handler"]
  BY DEF TakeInterrupt
<1>2. line \in IrqLines
  BY OfferedIsLine DEF ServiceInv
<1>3. running = Idle /\ pic.isr = {} /\ phase = "live"
  BY DEF TakeInterrupt, ServiceInv, OnlyRunningInService
<1>4. pic' = [imr |-> pic.imr, irr |-> pic.irr \ {line}, isr |-> Served(line)]
  BY <1>1, <1>3 DEF Acknowledge, ServiceInv, Served
<1>5. running'.irq = line /\ running'.pc = "handler" /\ running' # Idle
  BY <1>1 DEF Idle
<1>6. OnlyRunningInService'
  BY <1>4, <1>5 DEF OnlyRunningInService, Served
<1>7. cpuIF' = FALSE /\ UNCHANGED <<phase, irq_table>>
  BY DEF TakeInterrupt
<1>8. /\ pic' = [imr |-> pic'.imr, irr |-> pic'.irr, isr |-> pic'.isr]
      /\ Cascade \notin pic'.irr
  BY <1>4 DEF ServiceInv
<1>9. running' \in [irq : IrqLines, pc : {"none", "handler", "return"}]
  BY <1>1, <1>2
<1> QED
  BY <1>3, <1>5, <1>6, <1>7, <1>8, <1>9 DEF ServiceInv

(* The device's handler ends the service, or leaves it to its caller. *)
LEMMA RunKeeps ==
    ASSUME ServiceInv, NEW irq \in IrqLines, RunHandler(irq)
    PROVE  ServiceInv'
<1>1. running = [irq |-> irq, pc |-> "handler"] /\ running # Idle
  BY DEF RunHandler, Idle
<1>2. pic.isr \subseteq Served(irq)
  BY <1>1 DEF ServiceInv, OnlyRunningInService, Served
<1>3. pic_send_eoi(pic, irq) = [imr |-> pic.imr, irr |-> pic.irr, isr |-> {}]
  BY <1>2, EoiEndsService DEF ServiceInv
<1>4. /\ pic' = [imr |-> pic.imr, irr |-> pic.irr, isr |-> pic'.isr]
      /\ pic'.isr \in {{}, pic.isr}
      /\ irq_table[irq].auto => pic'.isr = {}
  <2>1. irq_table[irq].auto => irq_table[irq].own /\ irq_table[irq].in_use
    BY DEF ServiceInv, SoundTable, SoundEntry
  <2>2. pic' = IF irq_table[irq].in_use /\ irq_table[irq].own
               THEN pic_send_eoi(pic, irq) ELSE pic
    BY DEF RunHandler, HandlerEffect
  <2>3. CASE irq_table[irq].in_use /\ irq_table[irq].own
    BY SMTT(60), <1>3, <2>2, <2>3
  <2>4. CASE ~(irq_table[irq].in_use /\ irq_table[irq].own)
    BY <2>1, <2>2, <2>4 DEF ServiceInv
  <2> QED
    BY <2>3, <2>4
<1>5. running' = [irq |-> irq, pc |-> "return"] /\ UNCHANGED <<phase, irq_table, cpuIF>>
  BY DEF RunHandler
<1>6. running'.irq = irq /\ running'.pc = "return" /\ running' # Idle
  BY <1>5 DEF Idle
<1>7. OnlyRunningInService'
  BY <1>2, <1>4, <1>6 DEF OnlyRunningInService, Served
<1>8. ~cpuIF /\ phase = "live"
  BY <1>1 DEF ServiceInv
<1>9. Cascade \notin pic'.irr
  BY SMTT(60), <1>4 DEF ServiceInv
<1> QED
  BY <1>4, <1>5, <1>6, <1>7, <1>8, <1>9 DEF ServiceInv

(* interrupt_handler returns, having ended the service. *)
LEMMA ReturnKeeps == ASSUME ServiceInv, interrupt_handler PROVE ServiceInv'
<1> DEFINE irq == running.irq
<1>1. irq \in IrqLines /\ running # Idle
  BY SMTT(60) DEF ServiceInv, interrupt_handler, Idle
<1>2. pic.isr \subseteq Served(irq)
  BY <1>1 DEF ServiceInv, OnlyRunningInService, Served
<1>3. pic_send_eoi(pic, irq) = [imr |-> pic.imr, irr |-> pic.irr, isr |-> {}]
  BY <1>1, <1>2, EoiEndsService DEF ServiceInv
<1>4. pic' = [imr |-> pic.imr, irr |-> pic.irr, isr |-> {}]
  BY <1>3 DEF interrupt_handler, ServiceInv
<1>5. running' = Idle /\ cpuIF' = TRUE /\ UNCHANGED <<phase, irq_table>>
  BY DEF interrupt_handler
<1>6. running'.pc = "none"
      /\ running' \in [irq : IrqLines, pc : {"none", "handler", "return"}]
  BY SMTT(60), <1>5 DEF Idle, Cascade, IrqLines
<1>7. phase = "live"
  BY <1>1 DEF ServiceInv
<1> QED
  BY <1>4, <1>5, <1>6, <1>7 DEF ServiceInv, OnlyRunningInService

-----------------------------------------------------------------------------

(* Nothing is in service at power on. *)
LEMMA ServiceInvInit == MachineInit => ServiceInv
<1> SUFFICES ASSUME IrqInit PROVE ServiceInv
  BY DEF MachineInit
<1>1. SoundTable(irq_table)
  BY DEF IrqInit, SoundTable, SoundEntry, NoDescriptor
<1>2. running.pc = "none"
      /\ running \in [irq : IrqLines, pc : {"none", "handler", "return"}]
  BY SMTT(60) DEF IrqInit, Idle, Cascade, IrqLines
<1> QED
  BY <1>1, <1>2 DEF IrqInit, ServiceInv, OnlyRunningInService

(* One case per action of the machine. *)
LEMMA ServiceInvNext == ServiceInv /\ [MachineNext]_machineVars => ServiceInv'
<1> SUFFICES ASSUME ServiceInv, [MachineNext]_machineVars PROVE ServiceInv'
  OBVIOUS
<1>0. /\ TIMER_IRQ \in IrqLines /\ TIMER_IRQ # Cascade
      /\ RTC_IRQ \in IrqLines /\ RTC_IRQ # Cascade
      /\ \A i \in Devices : i \in IrqLines /\ i # Cascade
  BY SMTT(60), InterruptsAssumption DEF TIMER_IRQ, RTC_IRQ, IrqLines, Cascade
<1>1. CASE Setup
  <2>1. CASE interrupt_init \/ Finalize
    BY <2>1, SetUpKeeps DEF Finalize
  <2>2. ASSUME NEW i \in Devices, idt_register_handler(i) PROVE ServiceInv'
    BY <2>2 DEF idt_register_handler, ServiceInv, OnlyRunningInService
  <2>3. ASSUME NEW i \in Devices, NEW d \in Descriptors, irq_register_handler(i, d)
        PROVE  ServiceInv'
    BY <1>0, <2>3, DescriptorsAssumption, RegisterKeeps
  <2>4. ASSUME NEW i \in Devices, NEW d \in Descriptors, irq_unregister_handler(i, d)
        PROVE  ServiceInv'
    BY <1>0, <2>4, UnregisterKeeps
  <2> QED
    BY <1>1, <2>1, <2>2, <2>3, <2>4 DEF Setup
<1>2. CASE Deliver
  BY <1>2, TakeKeeps, ReturnKeeps DEF Deliver
<1>3. ASSUME NEW i \in Devices, Raise(i) \/ DeviceHandler(i) PROVE ServiceInv'
  BY <1>0, <1>3, RequestKeeps, RunKeeps DEF Raise, DeviceHandler
<1>4. CASE TimerCall
  BY <1>4, StandstillKeeps DEF TimerCall, timer_mdelay, timer_set_frequency
<1>5. CASE timer_init
  <2>1. Plain \in [own : BOOLEAN, auto : BOOLEAN, in_use : {TRUE}] /\ ~Plain.auto
    BY DEF Plain
  <2> QED
    BY <1>0, <1>5, <2>1, RegisterKeeps DEF timer_init
<1>6. CASE TimerRaises
  BY <1>0, <1>6, RequestKeeps DEF TimerRaises
<1>7. CASE timer_irq_handler
  BY <1>0, <1>7, RunKeeps DEF timer_irq_handler
<1>8. CASE timer_mdelay_return
  BY <1>8, StandstillKeeps DEF timer_mdelay_return
<1>9. CASE RtcChip
  BY <1>9, EdgeKeeps
     DEF RtcChip, RtcPeriod, RtcAlarm, RtcUpdateBegins, RtcUpdateEnds, ChipStep
<1>10. CASE RtcStart
  <2>1. EndsItself \in [own : BOOLEAN, auto : BOOLEAN, in_use : {TRUE}]
        /\ ~EndsItself.auto
    BY DEF EndsItself
  <2> QED
    BY <1>0, <1>10, <2>1, RegisterKeeps DEF RtcStart
<1>11. ASSUME NEW steps, RtcCall(steps) PROVE ServiceInv'
  BY <1>11, StandstillKeeps DEF RtcCall
<1>12. CASE RtcThread
  <2>1. CASE SelectRegister \/ cmos_read \/ rtc_is_updating \/ CallbackStep
    BY <2>1, StandstillKeeps DEF SelectRegister, cmos_read, rtc_is_updating, CallbackStep
  <2>2. CASE cmos_write
    BY <2>2, EdgeKeeps DEF cmos_write
  <2>3. CASE MaskStep
    <3>1. UNCHANGED <<phase, irq_table, cpuIF, running>>
      BY <2>3 DEF MaskStep
    <3>2. \E masked : pic' = [imr |-> masked, irr |-> pic.irr, isr |-> pic.isr]
      BY <2>3 DEF MaskStep, pic_disable_irq, pic_enable_irq, ServiceInv
    <3> QED
      BY <3>1, <3>2, LatchingKeeps DEF ServiceInv
  <2> QED
    BY <1>12, <2>1, <2>2, <2>3 DEF RtcThread
<1>13. CASE rtc_irq_handler
  BY <1>0, <1>13, RunKeeps DEF rtc_irq_handler
<1>14. CASE UNCHANGED machineVars
  BY <1>14, StandstillKeeps DEF machineVars
<1> QED
  BY <1>1, <1>2, <1>3, <1>4, <1>5, <1>6, <1>7, <1>8, <1>9, <1>10, <1>11, <1>12,
     <1>13, <1>14 DEF MachineNext

(* Whatever drivers register, and however devices and handlers interleave, *)
(* what is in service is the interrupt being handled: a service that most  *)
(* drivers end twice is never another line's (idt.c, pic.c).               *)
THEOREM ServiceEnds == MachineSpec => []OnlyRunningInService
<1>1. ServiceInv => OnlyRunningInService
  BY DEF ServiceInv
<1> QED
  BY ServiceInvInit, ServiceInvNext, <1>1, PTL DEF MachineSpec

-----------------------------------------------------------------------------
(* The clock's interrupt output.                                           *)

IsChip(c) ==
    c = [b |-> c.b, c |-> c.c, uip |-> c.uip, time |-> c.time, index |-> c.index]

(* Before interrupts are on the chip has nothing to report, and once they  *)
(* are, the handler that will read register C is in the table.             *)
EdgeInv ==
    /\ IsChip(chip)
    /\ phase # "live" => chip.c = {}
    /\ phase = "live" => irq_table[RTC_IRQ].in_use
    /\ OutputHasEdge

(* A step of the chip, and a register access that may raise its output.    *)
LEMMA ChipKeepsEdge ==
    ASSUME ServiceInv, EdgeInv, IsChip(chip'), phase # "live" => chip'.c = {},
           pic' = Edge(pic, chip, chip'), UNCHANGED <<phase, irq_table, running>>
    PROVE  EdgeInv'
<1>1. CASE ~Level(chip) /\ Level(chip')
  <2>1. pic' = [imr |-> pic.imr, irr |-> pic.irr \cup {RTC_IRQ}, isr |-> pic.isr]
    BY <1>1 DEF Edge, Request, ServiceInv
  <2> QED
    BY SMTT(60), <2>1 DEF EdgeInv, OutputHasEdge
<1>2. CASE ~(~Level(chip) /\ Level(chip'))
  <2>1. pic' = pic
    BY <1>2 DEF Edge
  <2> QED
    BY <1>2, <2>1 DEF EdgeInv, OutputHasEdge
<1> QED
  BY <1>1, <1>2

(* A step that cannot raise the output and leaves a latched edge latched,  *)
(* or handles it.                                                          *)
LEMMA QuietKeepsEdge ==
    ASSUME EdgeInv, IsChip(chip'), Level(chip') => Level(chip), chip.c = {} => chip'.c = {},
           RTC_IRQ \in pic.irr =>
               RTC_IRQ \in pic'.irr \/ running' = [irq |-> RTC_IRQ, pc |-> "handler"],
           running = [irq |-> RTC_IRQ, pc |-> "handler"] => running' = running,
           UNCHANGED <<phase, irq_table>>
    PROVE  EdgeInv'
BY DEF EdgeInv, OutputHasEdge

(* Reading register C clears the flags; reading another changes nothing.   *)
LEMMA ReadLowers ==
    ASSUME NEW c, IsChip(c)
    PROVE  /\ IsChip(AfterRead(c))
           /\ Level(AfterRead(c)) => Level(c)
           /\ c.c = {} => AfterRead(c).c = {}
<1>1. CASE c.index = "C"
  <2>1. AfterRead(c) = [b |-> c.b, c |-> {}, uip |-> c.uip, time |-> c.time,
                        index |-> c.index]
    BY <1>1 DEF AfterRead, IsChip
  <2>2. AfterRead(c).c = {} /\ IsChip(AfterRead(c))
    BY SMTT(60), <2>1 DEF IsChip
  <2> QED
    BY <2>2 DEF Level
<1>2. CASE c.index # "C"
  BY <1>2 DEF AfterRead
<1> QED
  BY <1>1, <1>2

(* The register select. *)
LEMMA SelectLowers ==
    ASSUME NEW c, IsChip(c), NEW reg
    PROVE  LET d == [c EXCEPT !.index = reg]
           IN  IsChip(d) /\ d.b = c.b /\ d.c = c.c /\ d.index = reg
<1> DEFINE d == [c EXCEPT !.index = reg]
<1>1. d = [b |-> c.b, c |-> c.c, uip |-> c.uip, time |-> c.time, index |-> reg]
  BY SMTT(60) DEF IsChip
<1> HIDE DEF d
<1>2. IsChip(d) /\ d.b = c.b /\ d.c = c.c /\ d.index = reg
  BY <1>1 DEF IsChip
<1> QED
  BY <1>2 DEF d

(* Before the clock is live, the set-up touches no output of it. *)
LEMMA SetUpKeepsEdge ==
    ASSUME EdgeInv, phase # "live", chip' = chip,
           phase' = "live" => irq_table'[RTC_IRQ].in_use
    PROVE  EdgeInv'
<1>1. chip.c = {} /\ ~Level(chip)
  BY DEF EdgeInv, Level
<1> QED
  BY <1>1 DEF EdgeInv, OutputHasEdge

(* An end of interrupt leaves what is latched and what is masked. *)
LEMMA RunKeepsLatched ==
    ASSUME ServiceInv, NEW irq \in IrqLines, RunHandler(irq)
    PROVE  pic'.irr = pic.irr /\ pic'.imr = pic.imr
<1>1. pic.isr \subseteq Served(irq)
  <2>1. running = [irq |-> irq, pc |-> "handler"] /\ running # Idle
    BY DEF RunHandler, Idle
  <2> QED
    BY <2>1 DEF ServiceInv, OnlyRunningInService, Served
<1>2. pic_send_eoi(pic, irq) = [imr |-> pic.imr, irr |-> pic.irr, isr |-> {}]
  BY <1>1, EoiEndsService DEF ServiceInv
<1> QED
  BY SMTT(60), <1>2 DEF RunHandler, HandlerEffect

(* The return from a handler loses no request. *)
LEMMA ReturnKeepsLatched ==
    ASSUME ServiceInv, interrupt_handler
    PROVE  pic'.irr = pic.irr /\ pic'.imr = pic.imr
<1>1. running.irq \in IrqLines /\ pic.isr \subseteq Served(running.irq)
  <2>1. running # Idle
    BY SMTT(60) DEF ServiceInv, interrupt_handler, Idle
  <2> QED
    BY <2>1 DEF ServiceInv, OnlyRunningInService, Served
<1>2. pic_send_eoi(pic, running.irq) = [imr |-> pic.imr, irr |-> pic.irr, isr |-> {}]
  BY <1>1, EoiEndsService DEF ServiceInv
<1> QED
  BY SMTT(60), <1>2 DEF interrupt_handler

(* A request is latched whether or not its line is masked. *)
LEMMA RequestLatches ==
    ASSUME ServiceInv, NEW line, pic' = Request(pic, line)
    PROVE  pic'.irr = pic.irr \cup {line} /\ pic'.imr = pic.imr
<1>1. pic' = [imr |-> pic.imr, irr |-> pic.irr \cup {line}, isr |-> pic.isr]
  BY DEF Request, ServiceInv
<1> QED
  BY SMTT(60), <1>1

(* The handlers of the other lines leave the clock alone. *)
LEMMA OtherRunKeepsEdge ==
    ASSUME ServiceInv, EdgeInv, NEW irq \in IrqLines, irq # RTC_IRQ, RunHandler(irq),
           chip' = chip
    PROVE  EdgeInv'
<1>1. running = [irq |-> irq, pc |-> "handler"] /\ UNCHANGED <<phase, irq_table>>
  BY DEF RunHandler
<1>2. running # [irq |-> RTC_IRQ, pc |-> "handler"]
  BY <1>1
<1>3. pic'.irr = pic.irr
  BY RunKeepsLatched
<1> QED
  BY <1>1, <1>2, <1>3, QuietKeepsEdge DEF EdgeInv

(* rtc_irq_handler reads register C, which releases the output. *)
LEMMA ClockRunKeepsEdge == ASSUME ServiceInv, EdgeInv, rtc_irq_handler PROVE EdgeInv'
<1>1. RunHandler(RTC_IRQ)
  BY DEF rtc_irq_handler
<1>2. running = [irq |-> RTC_IRQ, pc |-> "handler"] /\ running # Idle
      /\ UNCHANGED <<phase, irq_table>>
  BY <1>1 DEF RunHandler, Idle
<1>3. phase = "live" /\ CallsHandler(RTC_IRQ)
  BY <1>2 DEF ServiceInv, EdgeInv, CallsHandler
<1> DEFINE d == [chip EXCEPT !.index = "C"]
<1>4. chip' = AfterRead(d)
  BY <1>3 DEF rtc_irq_handler
<1>5. IsChip(d) /\ d.index = "C"
  BY SelectLowers DEF EdgeInv
<1> HIDE DEF d
<1>6. chip' = [b |-> d.b, c |-> {}, uip |-> d.uip, time |-> d.time, index |-> d.index]
  BY <1>4, <1>5 DEF AfterRead, IsChip
<1>7. IsChip(chip') /\ chip'.c = {}
  BY <1>6 DEF IsChip
<1> QED
  BY <1>2, <1>3, <1>7 DEF EdgeInv, OutputHasEdge, Level

(* A state of the clock chip. *)
Chip(b, c, u, t, i) == [b |-> b, c |-> c, uip |-> u, time |-> t, index |-> i]

(* A chip so built has its fields. *)
LEMMA ChipShape ==
    \A b, c, u, t, i : IsChip(Chip(b, c, u, t, i)) /\ Chip(b, c, u, t, i).c = c
BY SMTT(60) DEF Chip, IsChip

(* The chip's own steps and the writes of the thread keep the registers    *)
(* together.                                                               *)
LEMMA ChipStepsShape ==
    ASSUME IsChip(chip), NEW x
    PROVE  /\ [chip EXCEPT !.c = x] = Chip(chip.b, x, chip.uip, chip.time, chip.index)
           /\ [chip EXCEPT !.uip = x] = Chip(chip.b, chip.c, x, chip.time, chip.index)
           /\ [chip EXCEPT !.time = x] = Chip(chip.b, chip.c, chip.uip, x, chip.index)
           /\ [chip EXCEPT !.b = x] = Chip(x, chip.c, chip.uip, chip.time, chip.index)
<1>1. [chip EXCEPT !.c = x] = Chip(chip.b, x, chip.uip, chip.time, chip.index)
  BY SMTT(60) DEF IsChip, Chip
<1>2. [chip EXCEPT !.uip = x] = Chip(chip.b, chip.c, x, chip.time, chip.index)
  BY SMTT(60) DEF IsChip, Chip
<1>3. [chip EXCEPT !.time = x] = Chip(chip.b, chip.c, chip.uip, x, chip.index)
  BY SMTT(60) DEF IsChip, Chip
<1>4. [chip EXCEPT !.b = x] = Chip(x, chip.c, chip.uip, chip.time, chip.index)
  BY SMTT(60) DEF IsChip, Chip
<1> QED
  BY <1>1, <1>2, <1>3, <1>4

(* A source that fires raises the output, or it was up already. *)
LEMMA ClockStepKeepsEdge == ASSUME ServiceInv, EdgeInv, RtcChip PROVE EdgeInv'
<1>0. IsChip(chip)
  BY DEF EdgeInv
<1>1. CASE RtcPeriod \/ RtcAlarm
  <2>1. PICK j \in {5, 6} : ChipStep([chip EXCEPT !.c = @ \cup {j}])
    BY <1>1 DEF RtcPeriod, RtcAlarm
  <2>2. chip' = Chip(chip.b, chip.c \cup {j}, chip.uip, chip.time, chip.index)
    BY <1>0, <2>1, ChipStepsShape DEF ChipStep
  <2>3. phase = "live" /\ IsChip(chip')
    BY <1>1, <2>2, ChipShape DEF RtcPeriod, RtcAlarm, RtcEvent
  <2> QED
    BY <2>1, <2>3, ChipKeepsEdge DEF ChipStep
<1>2. CASE RtcUpdateBegins
  <2>1. PICK u : chip' = Chip(chip.b, chip.c, u, chip.time, chip.index)
    BY <1>0, <1>2, ChipStepsShape DEF RtcUpdateBegins, ChipStep
  <2>2. IsChip(chip') /\ chip'.c = chip.c
    BY SMTT(60), <2>1, ChipShape
  <2> QED
    BY <1>2, <2>2, ChipKeepsEdge DEF RtcUpdateBegins, ChipStep, EdgeInv
<1>3. CASE RtcUpdateEnds
  <2>1. PICK u, t : chip' = [chip EXCEPT !.uip = u, !.time = t]
    BY <1>3 DEF RtcUpdateEnds, ChipStep
  <2>2. chip' = Chip(chip.b, chip.c, u, t, chip.index)
    BY <1>0, <2>1 DEF IsChip, Chip
  <2>3. IsChip(chip') /\ chip'.c = chip.c
    BY SMTT(60), <2>2, ChipShape
  <2> QED
    BY <1>3, <2>3, ChipKeepsEdge DEF RtcUpdateEnds, ChipStep, EdgeInv
<1> QED
  BY <1>1, <1>2, <1>3 DEF RtcChip

(* A thread's access to the registers, register C included. *)
LEMMA ThreadKeepsEdge == ASSUME ServiceInv, EdgeInv, RtcThread PROVE EdgeInv'
<1>0. IsChip(chip)
  BY DEF EdgeInv
<1>1. CASE SelectRegister
  <2>1. IsChip(chip') /\ chip'.b = chip.b /\ chip'.c = chip.c
    BY <1>0, <1>1, SelectLowers DEF SelectRegister
  <2> QED
    BY <1>1, <2>1, QuietKeepsEdge DEF SelectRegister, irqVars, Level
<1>2. CASE cmos_read \/ rtc_is_updating
  <2>1. chip' = AfterRead(chip) /\ UNCHANGED irqVars
    BY <1>2 DEF cmos_read, rtc_is_updating
  <2>2. /\ IsChip(chip')
        /\ Level(chip') => Level(chip)
        /\ chip.c = {} => chip'.c = {}
    BY <1>0, <2>1, ReadLowers
  <2> QED
    BY <2>1, <2>2, QuietKeepsEdge DEF irqVars
<1>3. CASE cmos_write
  <2>1. pic' = Edge(pic, chip, chip') /\ UNCHANGED <<phase, irq_table, running>>
    BY <1>3 DEF cmos_write
  <2>2. IsChip(chip') /\ chip'.c = chip.c
    <3>1. CASE chip.index \in {"sec", "min"}
      <4>1. chip' = [chip EXCEPT !.time = [chip.time EXCEPT ![chip.index] = 0]]
        BY <1>3, <3>1 DEF cmos_write
      <4>2. PICK t : chip' = Chip(chip.b, chip.c, chip.uip, t, chip.index)
        BY <1>0, <4>1, ChipStepsShape
      <4> QED
        BY SMTT(60), <4>2, ChipShape
    <3>2. CASE chip.index = "B"
      <4>1. PICK bits : chip' = [chip EXCEPT !.b = bits]
        BY <1>3, <3>2 DEF cmos_write, AfterWrite
      <4>2. chip' = Chip(bits, chip.c, chip.uip, chip.time, chip.index)
        BY <1>0, <4>1, ChipStepsShape
      <4> QED
        BY SMTT(60), <4>2, ChipShape
    <3>3. CASE chip.index \notin {"sec", "min", "B"}
      BY <1>0, <1>3, <3>3 DEF cmos_write, AfterWrite
    <3> QED
      BY <3>1, <3>2, <3>3
  <2> QED
    BY <2>1, <2>2, ChipKeepsEdge DEF EdgeInv
<1>4. CASE MaskStep
  <2>1. pic'.irr = pic.irr
    BY <1>4 DEF MaskStep, pic_disable_irq, pic_enable_irq, ServiceInv
  <2> QED
    BY <1>0, <1>4, <2>1, QuietKeepsEdge DEF MaskStep
<1>5. CASE CallbackStep
  BY <1>0, <1>5, QuietKeepsEdge DEF CallbackStep, irqVars
<1> QED
  BY <1>1, <1>2, <1>3, <1>4, <1>5 DEF RtcThread

(* The output is down at power on. *)
LEMMA EdgeInvInit == MachineInit => EdgeInv
<1> SUFFICES ASSUME MachineInit PROVE EdgeInv
  OBVIOUS
<1>1. IsChip(chip) /\ chip.c = {} /\ phase = "reset"
  BY DEF MachineInit, RtcInit, IrqInit, IsChip
<1> QED
  BY <1>1 DEF EdgeInv, OutputHasEdge

(* One case per action of the machine. *)
LEMMA EdgeInvNext == ServiceInv /\ EdgeInv /\ [MachineNext]_machineVars => EdgeInv'
<1> SUFFICES ASSUME ServiceInv, EdgeInv, [MachineNext]_machineVars PROVE EdgeInv'
  OBVIOUS
<1>0. /\ TIMER_IRQ \in IrqLines /\ TIMER_IRQ # RTC_IRQ
      /\ \A i \in Devices : i \in IrqLines /\ i # RTC_IRQ
  BY SMTT(60), InterruptsAssumption, MachineAssumption DEF TIMER_IRQ, RTC_IRQ, IrqLines
<1>1. IsChip(chip)
  BY DEF EdgeInv
<1>2. CASE Setup /\ UNCHANGED <<timerVars, rtcVars>>
  <2>1. phase # "live" /\ chip' = chip
    BY <1>2
       DEF Setup, interrupt_init, Finalize, interrupt_finalize, idt_register_handler,
                irq_register_handler, irq_unregister_handler, rtcVars
  <2>2. phase' = "live" => irq_table'[RTC_IRQ].in_use
    BY <1>2, <2>1 DEF Setup, interrupt_init, Finalize, interrupt_finalize,
                idt_register_handler, irq_register_handler, irq_unregister_handler
  <2> QED
    BY <2>1, <2>2, SetUpKeepsEdge
<1>3. CASE TakeInterrupt /\ UNCHANGED rtcVars
  <2>1. PICK line \in Offered(pic) : /\ pic' = Acknowledge(pic, line)
                                     /\ running' = [irq |-> line, pc |-> "handler"]
    BY <1>3 DEF TakeInterrupt
  <2>2. running = Idle /\ UNCHANGED <<phase, irq_table, chip>>
    BY <1>3 DEF TakeInterrupt, ServiceInv, rtcVars
  <2>3. pic'.irr = pic.irr \ {line}
    BY <2>1 DEF Acknowledge, ServiceInv
  <2>4. running # [irq |-> RTC_IRQ, pc |-> "handler"]
    BY <2>2 DEF Idle
  <2> QED
    BY <1>1, <2>1, <2>2, <2>3, <2>4, QuietKeepsEdge
<1>4. CASE interrupt_handler /\ UNCHANGED rtcVars
  <2>1. pic'.irr = pic.irr
    BY <1>4, ReturnKeepsLatched
  <2>2. /\ running # [irq |-> RTC_IRQ, pc |-> "handler"]
        /\ UNCHANGED <<phase, irq_table, chip>>
    BY SMTT(60), <1>4 DEF interrupt_handler, rtcVars
  <2> QED
    BY <1>1, <2>1, <2>2, QuietKeepsEdge
<1>5. ASSUME NEW line, pic' = Request(pic, line),
             UNCHANGED <<phase, irq_table, running, chip>>
      PROVE  EdgeInv'
  <2>1. pic'.irr = pic.irr \cup {line}
    BY <1>5, RequestLatches
  <2> QED
    BY <1>1, <1>5, <2>1, QuietKeepsEdge
<1>6. ASSUME NEW i \in Devices, Raise(i) /\ UNCHANGED <<timerVars, rtcVars>> PROVE EdgeInv'
  BY <1>5, <1>6 DEF Raise, rtcVars
<1>7. ASSUME NEW i \in Devices, DeviceHandler(i) PROVE EdgeInv'
  BY <1>0, <1>7, OtherRunKeepsEdge DEF DeviceHandler, rtcVars
<1>8. ASSUME UNCHANGED <<irqVars, chip>> PROVE EdgeInv'
  BY <1>8 DEF EdgeInv, OutputHasEdge, irqVars
<1>9. CASE TimerCall
  BY <1>8, <1>9 DEF TimerCall, timer_mdelay, timer_set_frequency
<1>10. CASE (timer_init \/ TimerRaises \/ timer_irq_handler \/ timer_mdelay_return)
              /\ UNCHANGED rtcVars
  <2>0. chip' = chip
    BY <1>10 DEF rtcVars
  <2>1. CASE timer_init
    BY <2>0, <2>1, SetUpKeepsEdge DEF timer_init, irq_register_handler
  <2>2. CASE TimerRaises
    BY <1>5, <2>0, <2>2 DEF TimerRaises
  <2>3. CASE timer_irq_handler
    BY <1>0, <2>0, <2>3, OtherRunKeepsEdge DEF timer_irq_handler
  <2>4. CASE timer_mdelay_return
    BY <1>8, <2>0, <2>4 DEF timer_mdelay_return
  <2> QED
    BY <1>10, <2>1, <2>2, <2>3, <2>4
<1>11. CASE RtcStart
  BY <1>11, SetUpKeepsEdge DEF RtcStart, irq_register_handler
<1>12. ASSUME NEW s \in Calls, RtcCall(s) PROVE EdgeInv'
  BY <1>8, <1>12 DEF RtcCall
<1>13. CASE UNCHANGED machineVars
  BY <1>8, <1>13 DEF machineVars, rtcVars
<1> QED
  BY <1>2, <1>3, <1>4, <1>6, <1>7, <1>9, <1>10, <1>11, <1>12, <1>13,
     ClockStepKeepsEdge, ThreadKeepsEdge, ClockRunKeepsEdge DEF MachineNext, Deliver

-----------------------------------------------------------------------------
(* The clock's line.                                                       *)

Sources == {"periodic", "alarm"}

(* A driver that waits for the clock has its line open. *)
LineOpen(cb, imr) == cb # {} => RTC_IRQ \notin imr

(* A step of a call that touches no callback and no mask. *)
IsAccess(step) == step.do \in {"read", "write", "poll"}

(* A call that has steps left. *)
NonEmptySeq(s) == s # <<>> /\ \E S : s \in Seq(S)

(* What is left of a call will leave the line open, if callbacks cb are    *)
(* installed and imr is masked: it ends by unmasking it, or by unmasking   *)
(* it for the source whose callback it does not remove, or never touches   *)
(* the mask.                                                               *)
Sound(s, cb, imr, ph) ==
    /\ NonEmptySeq(s)
    /\ \A i \in 1 .. Len(s) : s[i].do = "install" => s[i].reg \in Sources
    /\ ph # "live" => \A i \in 1 .. Len(s) : IsAccess(s[i])
    /\ \/ s[Len(s)].do = "unmask"
       \/ /\ s[Len(s)].do = "unmask_if" /\ s[Len(s)].reg \in Sources
          /\ Len(s) = 1 => cb \subseteq {s[Len(s)].reg}
          /\ Len(s) # 1 => /\ s[Len(s) - 1].do = "remove"
                           /\ s[Len(s) - 1].reg \in Sources \ {s[Len(s)].reg}
       \/ /\ \A i \in 1 .. Len(s) : IsAccess(s[i])
          /\ LineOpen(cb, imr)

(* What a step of a call does to the callbacks and the masks.              *)
Effect(step, cb, imr, cb2, imr2) ==
    \/ IsAccess(step) /\ cb2 = cb /\ imr2 = imr
    \/ step.do = "mask" /\ cb2 = cb
    \/ step.do = "unmask" /\ cb2 = cb /\ RTC_IRQ \notin imr2
    \/ step.do = "unmask_if" /\ cb2 = cb /\ (step.reg \in cb => RTC_IRQ \notin imr2)
    \/ step.do = "install" /\ cb2 = cb \cup {step.reg} /\ imr2 = imr
    \/ step.do = "remove" /\ cb2 = cb \ {step.reg} /\ imr2 = imr

(* A call of some length has steps left. *)
LEMMA LongSeq == ASSUME NEW S, NEW s \in Seq(S), Len(s) # 0 PROVE NonEmptySeq(s)
BY SMTT(60) DEF NonEmptySeq

(* The last step of a sound call leaves the line as LineOpen wants it. *)
LEMMA LastStepOpens ==
    ASSUME NEW s, NEW cb, NEW imr, NEW ph, NEW cb2, NEW imr2,
           Sound(s, cb, imr, ph), Effect(Head(s), cb, imr, cb2, imr2), Len(s) = 1
    PROVE  LineOpen(cb2, imr2)
<1>1. Head(s) = s[1]
  BY SMTT(60) DEF Sound, NonEmptySeq
<1>2. CASE s[1].do = "unmask"
  BY <1>1, <1>2 DEF Effect, IsAccess, LineOpen
<1>3. CASE s[1].do = "unmask_if"
  BY SMTT(60), <1>1, <1>3 DEF Effect, IsAccess, LineOpen, Sound
<1>4. CASE IsAccess(s[1])
  BY <1>1, <1>4 DEF Effect, IsAccess, Sound
<1> QED
  BY SMTT(60), <1>2, <1>3, <1>4 DEF Sound

(* A sound call stays sound over each of its other steps. *)
LEMMA StepKeepsSound ==
    ASSUME NEW s, NEW cb \in SUBSET Sources, NEW imr, NEW ph, NEW cb2, NEW imr2,
           Sound(s, cb, imr, ph), Effect(Head(s), cb, imr, cb2, imr2), Len(s) # 1
    PROVE  Sound(Tail(s), cb2, imr2, ph)
<1> DEFINE n == Len(s)
           t == Tail(s)
<1>1. /\ n \in Nat /\ n > 1 /\ Head(s) = s[1]
      /\ Len(t) = n - 1 /\ NonEmptySeq(t)
      /\ \A i \in 1 .. n - 1 : t[i] = s[i + 1]
  <2>1. PICK S : s \in Seq(S) /\ s # <<>>
    BY DEF Sound, NonEmptySeq
  <2>2. n \in Nat /\ n > 1 /\ Head(s) = s[1]
    <3>1. n \in Nat /\ n # 0 /\ n # 1
      BY SMTT(60), <2>1
    <3>2. Head(s) = s[1]
      BY SMTT(60), <2>1
    <3> HIDE DEF n
    <3>3. n > 1
      BY SMTT(60), <3>1
    <3> QED
      BY <3>1, <3>2, <3>3
  <2>3. t \in Seq(S) /\ Len(t) = n - 1 /\ \A i \in 1 .. n - 1 : t[i] = s[i + 1]
    BY SMTT(60), <2>1, <2>2
  <2>4. t # <<>>
    BY SMTT(60), <2>2, <2>3
  <2> QED
    BY <2>2, <2>3, <2>4 DEF NonEmptySeq
<1>2. /\ \A i \in 1 .. Len(t) : t[i].do = "install" => t[i].reg \in Sources
      /\ ph # "live" => \A i \in 1 .. Len(t) : IsAccess(t[i])
  BY SMTT(60), <1>1 DEF Sound
<1>3. t[Len(t)] = s[n] /\ (Len(t) # 1 => t[Len(t) - 1] = s[n - 1])
  <2> HIDE DEF n, t
  <2>1. n - 1 \in 1 .. n - 1 /\ (n - 1) + 1 = n
    BY SMTT(60), <1>1
  <2>2. n - 1 # 1 => n - 2 \in 1 .. n - 1 /\ (n - 2) + 1 = n - 1 /\ (n - 1) - 1 = n - 2
    BY SMTT(60), <1>1
  <2> QED
    BY <1>1, <2>1, <2>2
<1>4. CASE s[n].do = "unmask"
  BY <1>1, <1>2, <1>3, <1>4 DEF Sound
<1>5. CASE s[n].do = "unmask_if"
  <2>1. s[n].reg \in Sources /\ s[n - 1].do = "remove"
        /\ s[n - 1].reg \in Sources \ {s[n].reg}
    BY SMTT(60), <1>1, <1>5 DEF Sound, IsAccess
  <2>2. Len(t) = 1 => cb2 \subseteq {s[n].reg}
    <3> SUFFICES ASSUME Len(t) = 1 PROVE cb2 \subseteq {s[n].reg}
      OBVIOUS
    <3>1. Head(s) = s[n - 1]
      BY <1>1
    <3>2. cb2 = cb \ {s[n - 1].reg}
      BY <2>1, <3>1 DEF Effect, IsAccess
    <3> QED
      BY <2>1, <3>2 DEF Sources
  <2> QED
    BY <1>1, <1>2, <1>3, <1>5, <2>1, <2>2 DEF Sound
<1>6. CASE (\A i \in 1 .. n : IsAccess(s[i])) /\ LineOpen(cb, imr)
  <2>1. cb2 = cb /\ imr2 = imr
    BY SMTT(60), <1>1, <1>6 DEF Effect, IsAccess
  <2>2. \A i \in 1 .. Len(t) : IsAccess(t[i])
    BY SMTT(60), <1>1, <1>6
  <2> QED
    BY <1>1, <1>2, <1>6, <2>1, <2>2 DEF Sound
<1> QED
  BY <1>4, <1>5, <1>6 DEF Sound

(* The calls themselves. *)
LEMMA CallsSound ==
    ASSUME NEW s \in Calls, NEW cb, NEW imr, LineOpen(cb, imr)
    PROVE  Sound(s, cb, imr, "live")
<1>1. CASE s = rtc_enable_periodic(Set("periodic"))
  <2>1. s \in Seq({Set("periodic"), Mask, R("A"), R("B"), W("A", {}, {}),
                   W("B", {6}, {}), R("C"), Unmask})
    BY SMTT(60), <1>1 DEF rtc_enable_periodic
  <2>2. Len(s) = 8 /\ Len(s) # 0
    BY SMTT(60), <1>1 DEF rtc_enable_periodic
  <2>3. \A i \in 1 .. 8 : s[i].do = "install" => s[i].reg \in Sources
    BY SMTT(60), <1>1 DEF rtc_enable_periodic, R, W, Mask, Unmask, Set, Clear, Sources
  <2>4. s[8].do = "unmask"
    BY <1>1 DEF rtc_enable_periodic, Unmask
  <2>5. NonEmptySeq(s)
    BY <2>1, <2>2, LongSeq
  <2> QED
    BY <2>2, <2>3, <2>4, <2>5 DEF Sound
<1>2. CASE s = rtc_enable_periodic(Clear("periodic"))
  <2>1. s \in Seq({Clear("periodic"), Mask, R("A"), R("B"), W("A", {}, {}),
                   W("B", {6}, {}), R("C"), Unmask})
    BY SMTT(60), <1>2 DEF rtc_enable_periodic
  <2>2. Len(s) = 8 /\ Len(s) # 0
    BY SMTT(60), <1>2 DEF rtc_enable_periodic
  <2>3. \A i \in 1 .. 8 : s[i].do = "install" => s[i].reg \in Sources
    BY SMTT(60), <1>2 DEF rtc_enable_periodic, R, W, Mask, Unmask, Set, Clear, Sources
  <2>4. s[8].do = "unmask"
    BY <1>2 DEF rtc_enable_periodic, Unmask
  <2>5. NonEmptySeq(s)
    BY <2>1, <2>2, LongSeq
  <2> QED
    BY <2>2, <2>3, <2>4, <2>5 DEF Sound
<1>3. CASE s = rtc_disable_periodic
  <2>1. s \in Seq({Mask, R("B"), W("B", {}, {6}), Clear("periodic"),
                   UnmaskIf("alarm")})
    BY SMTT(60), <1>3 DEF rtc_disable_periodic
  <2>2. Len(s) = 5 /\ Len(s) # 0
    BY SMTT(60), <1>3 DEF rtc_disable_periodic
  <2>3. \A i \in 1 .. 5 : s[i].do # "install"
    BY SMTT(60), <1>3 DEF rtc_disable_periodic, R, W, Mask, Clear, UnmaskIf
  <2>4. s[5].do = "unmask_if" /\ s[5].reg = "alarm"
        /\ s[4].do = "remove" /\ s[4].reg = "periodic"
    BY <1>3 DEF rtc_disable_periodic, Clear, UnmaskIf
  <2>5. NonEmptySeq(s)
    BY <2>1, <2>2, LongSeq
  <2> QED
    BY SMTT(60), <2>2, <2>3, <2>4, <2>5 DEF Sound, Sources
<1>4. CASE s = rtc_set_alarm
  <2>1. s \in Seq({Set("alarm"), Mask, W("alarm", {}, {}), R("B"),
                   W("B", {5}, {}), R("C"), Unmask})
    BY SMTT(60), <1>4 DEF rtc_set_alarm
  <2>2. Len(s) = 7 /\ Len(s) # 0
    BY SMTT(60), <1>4 DEF rtc_set_alarm
  <2>3. \A i \in 1 .. 7 : s[i].do = "install" => s[i].reg \in Sources
    BY SMTT(60), <1>4 DEF rtc_set_alarm, R, W, Mask, Unmask, Set, Clear, Sources
  <2>4. s[7].do = "unmask"
    BY <1>4 DEF rtc_set_alarm, Unmask
  <2>5. NonEmptySeq(s)
    BY <2>1, <2>2, LongSeq
  <2> QED
    BY <2>2, <2>3, <2>4, <2>5 DEF Sound
<1>5. CASE s = rtc_disable_alarm
  <2>1. s \in Seq({Mask, R("B"), W("B", {}, {5}), Clear("alarm"),
                   UnmaskIf("periodic")})
    BY SMTT(60), <1>5 DEF rtc_disable_alarm
  <2>2. Len(s) = 5 /\ Len(s) # 0
    BY SMTT(60), <1>5 DEF rtc_disable_alarm
  <2>3. \A i \in 1 .. 5 : s[i].do # "install"
    BY SMTT(60), <1>5 DEF rtc_disable_alarm, R, W, Mask, Clear, UnmaskIf
  <2>4. s[5].do = "unmask_if" /\ s[5].reg = "periodic"
        /\ s[4].do = "remove" /\ s[4].reg = "alarm"
    BY <1>5 DEF rtc_disable_alarm, Clear, UnmaskIf
  <2>5. NonEmptySeq(s)
    BY <2>1, <2>2, LongSeq
  <2> QED
    BY SMTT(60), <2>2, <2>3, <2>4, <2>5 DEF Sound, Sources
<1>6. CASE s = rtc_get_time
  <2>1. s \in Seq({Poll, R("sec"), R("min")})
    BY SMTT(60), <1>6 DEF rtc_get_time
  <2>2. Len(s) = 3 /\ Len(s) # 0
    BY SMTT(60), <1>6 DEF rtc_get_time
  <2>3. \A i \in 1 .. 3 : IsAccess(s[i])
    BY SMTT(60), <1>6 DEF rtc_get_time, IsAccess, R, W, Poll
  <2>4. NonEmptySeq(s)
    BY <2>1, <2>2, LongSeq
  <2> QED
    BY <2>2, <2>3, <2>4 DEF Sound, IsAccess
<1>7. CASE s = rtc_set_time
  <2>1. s \in Seq({R("B"), W("B", {7}, {}), W("sec", {}, {}), W("min", {}, {}),
                   W("B", {}, {}), Poll})
    BY SMTT(60), <1>7 DEF rtc_set_time
  <2>2. Len(s) = 6 /\ Len(s) # 0
    BY SMTT(60), <1>7 DEF rtc_set_time
  <2>3. \A i \in 1 .. 6 : IsAccess(s[i])
    BY SMTT(60), <1>7 DEF rtc_set_time, IsAccess, R, W, Poll
  <2>4. NonEmptySeq(s)
    BY <2>1, <2>2, LongSeq
  <2> QED
    BY <2>2, <2>3, <2>4 DEF Sound, IsAccess
<1>8. CASE s = rtc_is_valid
  <2>1. s \in Seq({R("D")})
    BY SMTT(60), <1>8 DEF rtc_is_valid
  <2>2. Len(s) = 1 /\ Len(s) # 0
    BY SMTT(60), <1>8 DEF rtc_is_valid
  <2>3. \A i \in 1 .. 1 : IsAccess(s[i])
    BY SMTT(60), <1>8 DEF rtc_is_valid, IsAccess, R, W, Poll
  <2>4. NonEmptySeq(s)
    BY <2>1, <2>2, LongSeq
  <2> QED
    BY <2>2, <2>3, <2>4 DEF Sound, IsAccess
<1> QED
  BY <1>1, <1>2, <1>3, <1>4, <1>5, <1>6, <1>7, <1>8 DEF Calls

(* rtc_init is sound before any callback is there. *)
LEMMA InitSound == ASSUME NEW imr, NEW ph PROVE Sound(rtc_init, {}, imr, ph)
<1> DEFINE s == rtc_init
<1>1. s \in Seq({R("D"), R("B"), W("B", {}, {5, 6})})
  BY SMTT(60) DEF rtc_init
<1>2. Len(s) = 3 /\ Len(s) # 0
  BY SMTT(60) DEF rtc_init
<1>3. \A i \in 1 .. 3 : IsAccess(s[i])
  BY SMTT(60) DEF rtc_init, IsAccess, R, W
<1>4. NonEmptySeq(s)
  BY <1>1, <1>2, LongSeq
<1> HIDE DEF s
<1>5. Sound(s, {}, imr, ph)
  BY <1>2, <1>3, <1>4 DEF Sound, IsAccess, LineOpen
<1> QED
  BY <1>5 DEF s

(* The record of a call in progress. *)
IsCall(c) == c = [steps |-> c.steps, half |-> c.half, b |-> c.b, time |-> c.time]

(* The inductive invariant: between calls the line is open for the         *)
(* callbacks, and a call in progress is one that will leave it so.         *)
LineInv ==
    /\ IsCall(call)
    /\ callback \subseteq Sources
    /\ phase # "live" => callback = {}
    /\ IF call = NoCall THEN LineOpen(callback, pic.imr)
       ELSE Sound(call.steps, callback, pic.imr, phase)

(* A step outside the driver's calls that leaves the masks as they are.    *)
LEMMA ElsewhereKeepsLine ==
    ASSUME LineInv, pic'.imr = pic.imr, UNCHANGED <<phase, call, callback>>
    PROVE  LineInv'
BY DEF LineInv

(* A step of the call moves on to the next, or returns. *)
LEMMA AdvanceKeepsLine ==
    ASSUME LineInv, call # NoCall, phase' = phase, NEW c, IsCall(c), c.steps = call.steps,
           call' = Advance(c),
           Effect(Step, callback, pic.imr, callback', pic'.imr)
    PROVE  LineInv'
<1>0. Sound(call.steps, callback, pic.imr, phase) /\ callback \subseteq Sources
  BY DEF LineInv
<1>1. PICK S : call.steps \in Seq(S) /\ call.steps # <<>>
  BY <1>0 DEF Sound, NonEmptySeq
<1>2. Step = call.steps[1] /\ 1 \in 1 .. Len(call.steps)
  BY SMTT(60), <1>1 DEF Step
<1>3. callback' \subseteq Sources
  BY <1>0, <1>2 DEF Effect, Sound
<1>4. phase # "live" => callback' = {}
  BY <1>0, <1>2 DEF Effect, Sound, IsAccess, LineInv
<1>5. CASE Len(call.steps) = 1
  <2>1. call' = NoCall
    BY <1>5 DEF Advance
  <2>2. LineOpen(callback', pic'.imr)
    BY <1>0, <1>5, LastStepOpens DEF Step
  <2>3. IsCall(call')
    BY <2>1 DEF NoCall, IsCall
  <2> QED
    BY <1>3, <1>4, <2>1, <2>2, <2>3 DEF LineInv
<1>6. CASE Len(call.steps) # 1
  <2>1. call' = [c EXCEPT !.steps = Tail(c.steps), !.half = FALSE]
    BY <1>6 DEF Advance
  <2>2. PICK half : call' = [steps |-> Tail(call.steps), half |-> half,
                             b |-> c.b, time |-> c.time]
    BY <2>1 DEF IsCall
  <2>3. IsCall(call') /\ call'.steps = Tail(call.steps)
    BY SMTT(60), <2>2 DEF IsCall
  <2>4. Sound(Tail(call.steps), callback', pic'.imr, phase)
    BY <1>0, <1>6, StepKeepsSound DEF Step
  <2>5. call' # NoCall
    <3>1. call'.steps # <<>>
      BY <2>3, <2>4 DEF Sound, NonEmptySeq
    <3>2. NoCall.steps = <<>>
      BY DEF NoCall
    <3> QED
      BY <3>1, <3>2
  <2> QED
    BY <1>3, <1>4, <2>3, <2>4, <2>5 DEF LineInv
<1> QED
  BY <1>5, <1>6

(* The steps of a call. *)
LEMMA ThreadKeepsLine == ASSUME ServiceInv, LineInv, RtcThread PROVE LineInv'
<1>0. call # NoCall /\ IsCall(call) /\ phase' = phase
  BY DEF LineInv, RtcThread, SelectRegister, cmos_read, cmos_write, rtc_is_updating,
         MaskStep, CallbackStep, Busy, irqVars
<1>1. ASSUME NEW half, call' = [call EXCEPT !.half = half],
             pic'.imr = pic.imr, callback' = callback
      PROVE  LineInv'
  <2>1. call' = [steps |-> call.steps, half |-> half, b |-> call.b, time |-> call.time]
    BY <1>0, <1>1 DEF IsCall
  <2>2. IsCall(call') /\ call'.steps = call.steps
    BY <2>1 DEF IsCall
  <2>3. Sound(call'.steps, callback', pic'.imr, phase)
    BY <1>0, <1>1, <2>2 DEF LineInv
  <2>4. call' # NoCall
    <3>1. call'.steps # <<>>
      BY <2>3 DEF Sound, NonEmptySeq
    <3>2. NoCall.steps = <<>>
      BY DEF NoCall
    <3> QED
      BY <3>1, <3>2
  <2> QED
    BY <1>0, <1>1, <2>2, <2>3, <2>4 DEF LineInv
<1>2. ASSUME NEW c, IsCall(c), c.steps = call.steps, call' = Advance(c),
             IsAccess(Step), pic'.imr = pic.imr, callback' = callback
      PROVE  LineInv'
  BY <1>0, <1>2, AdvanceKeepsLine DEF Effect
<1>3. CASE SelectRegister
  <2>1. PICK half : call' = [call EXCEPT !.half = half]
    BY <1>3 DEF SelectRegister
  <2> QED
    BY <1>1, <1>3, <2>1 DEF SelectRegister, irqVars
<1>4. CASE cmos_read
  <2>1. IsCall(Kept(chip)) /\ Kept(chip).steps = call.steps
    <3>1. \A x : /\ IsCall([call EXCEPT !.b = x])
                 /\ [call EXCEPT !.b = x].steps = call.steps
                 /\ IsCall([call EXCEPT !.time = x])
                 /\ [call EXCEPT !.time = x].steps = call.steps
      <4> SUFFICES ASSUME NEW x
                   PROVE  /\ IsCall([call EXCEPT !.b = x])
                          /\ [call EXCEPT !.b = x].steps = call.steps
                          /\ IsCall([call EXCEPT !.time = x])
                          /\ [call EXCEPT !.time = x].steps = call.steps
        OBVIOUS
      <4>1. [call EXCEPT !.b = x]
              = [steps |-> call.steps, half |-> call.half, b |-> x, time |-> call.time]
        BY SMTT(60), <1>0 DEF IsCall
      <4>2. [call EXCEPT !.time = x]
              = [steps |-> call.steps, half |-> call.half, b |-> call.b, time |-> x]
        BY SMTT(60), <1>0 DEF IsCall
      <4> QED
        BY <4>1, <4>2 DEF IsCall
    <3>2. \/ \E x : Kept(chip) = [call EXCEPT !.b = x]
          \/ \E x : Kept(chip) = [call EXCEPT !.time = x]
          \/ Kept(chip) = call
      BY DEF Kept
    <3> QED
      BY <1>0, <3>1, <3>2
  <2> QED
    BY <1>2, <1>4, <2>1 DEF cmos_read, IsAccess, irqVars
<1>5. CASE cmos_write
  <2>1. PICK x : call' = Advance([call EXCEPT !.b = x])
    BY <1>5 DEF cmos_write
  <2>2. [call EXCEPT !.b = x]
          = [steps |-> call.steps, half |-> call.half, b |-> x, time |-> call.time]
    BY SMTT(60), <1>0 DEF IsCall
  <2>3. IsCall([call EXCEPT !.b = x]) /\ [call EXCEPT !.b = x].steps = call.steps
    BY <2>2 DEF IsCall
  <2>4. pic'.imr = pic.imr /\ callback' = callback /\ IsAccess(Step)
    BY <1>5 DEF cmos_write, Edge, Request, ServiceInv, IsAccess
  <2> QED
    BY <1>2, <2>1, <2>3, <2>4
<1>6. CASE rtc_is_updating
  <2>1. (\E half : call' = [call EXCEPT !.half = half]) \/ call' = Advance(call)
    BY <1>6 DEF rtc_is_updating
  <2> QED
    BY <1>0, <1>1, <1>2, <1>6, <2>1 DEF rtc_is_updating, IsAccess, irqVars
<1>7. CASE MaskStep
  <2>1. /\ Step.do = "unmask" => RTC_IRQ \notin pic'.imr
        /\ Step.do = "unmask_if" => (Step.reg \in callback => RTC_IRQ \notin pic'.imr)
    BY <1>7 DEF MaskStep, pic_enable_irq, ServiceInv
  <2>2. Effect(Step, callback, pic.imr, callback', pic'.imr)
    BY <1>7, <2>1 DEF MaskStep, Effect
  <2> QED
    BY <1>0, <1>7, <2>2, AdvanceKeepsLine DEF MaskStep
<1>8. CASE CallbackStep
  <2>1. Effect(Step, callback, pic.imr, callback', pic'.imr)
    BY <1>8 DEF CallbackStep, Effect, irqVars
  <2> QED
    BY <1>0, <1>8, <2>1, AdvanceKeepsLine DEF CallbackStep
<1> QED
  BY <1>3, <1>4, <1>5, <1>6, <1>7, <1>8 DEF RtcThread

(* A driver calls one of the entry points of rtc.c. *)
LEMMA RtcCallKeepsLine == ASSUME LineInv, NEW s \in Calls, RtcCall(s) PROVE LineInv'
<1>1. call = NoCall /\ phase = "live" /\ UNCHANGED <<irqVars, callback>>
  BY DEF RtcCall
<1>2. Sound(s, callback, pic.imr, "live")
  BY <1>1, CallsSound DEF LineInv
<1>3. call' = [NoCall EXCEPT !.steps = s]
  BY DEF RtcCall
<1>4. IsCall(call') /\ call'.steps = s
  BY <1>3 DEF NoCall, IsCall
<1>5. call' # NoCall
  <2>1. s # <<>> /\ NoCall.steps = <<>>
    BY <1>2 DEF Sound, NonEmptySeq, NoCall
  <2> QED
    BY <1>4, <2>1
<1> QED
  BY <1>1, <1>2, <1>4, <1>5 DEF LineInv, irqVars

(* The kernel calls rtc_init. *)
LEMMA RtcStartKeepsLine == ASSUME LineInv, RtcStart PROVE LineInv'
<1>1. phase = "init" /\ callback = {} /\ UNCHANGED <<pic, phase, callback>>
  BY DEF RtcStart, irq_register_handler, LineInv
<1>2. Sound(rtc_init, {}, pic.imr, phase)
  BY InitSound
<1>3. call' = [NoCall EXCEPT !.steps = rtc_init]
  BY DEF RtcStart
<1>4. IsCall(call') /\ call'.steps = rtc_init
  BY <1>3 DEF NoCall, IsCall
<1>5. call' # NoCall
  <2>1. rtc_init # <<>> /\ NoCall.steps = <<>>
    BY <1>2 DEF Sound, NonEmptySeq, NoCall
  <2> QED
    BY <1>4, <2>1
<1> QED
  BY <1>1, <1>2, <1>4, <1>5 DEF LineInv

(* No call is in progress and no callback is installed at power on. *)
LEMMA LineInvInit == MachineInit => LineInv
<1> SUFFICES ASSUME MachineInit PROVE LineInv
  OBVIOUS
<1>1. call = NoCall /\ callback = {}
  BY DEF MachineInit, RtcInit
<1>2. IsCall(call)
  BY <1>1 DEF NoCall, IsCall
<1> QED
  BY <1>1, <1>2 DEF LineInv, LineOpen

(* One case per action of the machine. *)
LEMMA LineInvNext == ServiceInv /\ LineInv /\ [MachineNext]_machineVars => LineInv'
<1> SUFFICES ASSUME ServiceInv, LineInv, [MachineNext]_machineVars PROVE LineInv'
  OBVIOUS
<1>0. TIMER_IRQ \in IrqLines /\ RTC_IRQ \in IrqLines /\ \A i \in Devices : i \in IrqLines
  BY SMTT(60), InterruptsAssumption DEF TIMER_IRQ, RTC_IRQ, IrqLines
<1>1. CASE (Setup \/ Deliver) /\ UNCHANGED <<timerVars, rtcVars>>
  <2>0. UNCHANGED <<call, callback>>
    BY <1>1 DEF rtcVars
  <2>1. CASE interrupt_init
    <3>1. phase # "live" /\ phase' # "live"
      BY <2>1 DEF interrupt_init
    <3>2. callback = {}
      BY <3>1 DEF LineInv
    <3>3. CASE call = NoCall
      BY <2>0, <3>1, <3>2, <3>3 DEF LineInv, LineOpen
    <3>4. CASE call # NoCall
      BY <2>0, <3>1, <3>2, <3>4 DEF LineInv, LineOpen, Sound
    <3> QED
      BY <3>3, <3>4
  <2>2. CASE Finalize
    <3>1. call = NoCall /\ phase = "init"
      BY <2>2 DEF Finalize, interrupt_finalize
    <3>2. callback = {}
      BY <3>1 DEF LineInv
    <3> QED
      BY <2>0, <3>1, <3>2 DEF LineInv, LineOpen
  <2>3. CASE \E i \in Devices : \/ idt_register_handler(i)
                                \/ \E d \in Descriptors : \/ irq_register_handler(i, d)
                                                          \/ irq_unregister_handler(i, d)
    BY <2>0, <2>3, ElsewhereKeepsLine
       DEF idt_register_handler, irq_register_handler, irq_unregister_handler
  <2>4. CASE TakeInterrupt
    <3>1. pic'.imr = pic.imr
      BY <2>4 DEF TakeInterrupt, Acknowledge, ServiceInv
    <3> QED
      BY <2>0, <2>4, <3>1, ElsewhereKeepsLine DEF TakeInterrupt
  <2>5. CASE interrupt_handler
    <3>1. pic'.imr = pic.imr
      BY <2>5, ReturnKeepsLatched
    <3> QED
      BY <2>0, <2>5, <3>1, ElsewhereKeepsLine DEF interrupt_handler
  <2> QED
    BY <1>1, <2>1, <2>2, <2>3, <2>4, <2>5 DEF Setup, Deliver
<1>2. ASSUME NEW line, pic' = Request(pic, line), UNCHANGED <<phase, call, callback>>
      PROVE  LineInv'
  BY <1>2, RequestLatches, ElsewhereKeepsLine
<1>3. ASSUME NEW i \in IrqLines, RunHandler(i), UNCHANGED <<call, callback>> PROVE LineInv'
  BY <1>3, RunKeepsLatched, ElsewhereKeepsLine DEF RunHandler
<1>4. ASSUME UNCHANGED <<irqVars, call, callback>> PROVE LineInv'
  BY <1>4, ElsewhereKeepsLine DEF irqVars
<1>5. ASSUME NEW i \in Devices, Raise(i) /\ UNCHANGED <<timerVars, rtcVars>> PROVE LineInv'
  BY <1>2, <1>5 DEF Raise, rtcVars
<1>6. ASSUME NEW i \in Devices, DeviceHandler(i) PROVE LineInv'
  BY <1>0, <1>3, <1>6 DEF DeviceHandler, rtcVars
<1>7. CASE TimerCall
  BY <1>4, <1>7 DEF TimerCall, timer_mdelay, timer_set_frequency
<1>8. CASE (timer_init \/ TimerRaises \/ timer_irq_handler \/ timer_mdelay_return)
             /\ UNCHANGED rtcVars
  <2>0. UNCHANGED <<call, callback>>
    BY <1>8 DEF rtcVars
  <2>1. CASE timer_init
    BY <2>0, <2>1, ElsewhereKeepsLine DEF timer_init, irq_register_handler
  <2>2. CASE TimerRaises
    BY <1>2, <2>0, <2>2 DEF TimerRaises
  <2>3. CASE timer_irq_handler
    BY <1>0, <1>3, <2>0, <2>3 DEF timer_irq_handler
  <2>4. CASE timer_mdelay_return
    BY <1>4, <2>0, <2>4 DEF timer_mdelay_return
  <2> QED
    BY <1>8, <2>1, <2>2, <2>3, <2>4
<1>9. CASE RtcChip
  <2>1. pic'.imr = pic.imr
    BY <1>9 DEF RtcChip, RtcPeriod, RtcAlarm, RtcUpdateBegins, RtcUpdateEnds, ChipStep,
                Edge, Request, ServiceInv
  <2> QED
    BY <1>9, <2>1, ElsewhereKeepsLine
       DEF RtcChip, RtcPeriod, RtcAlarm, RtcUpdateBegins, RtcUpdateEnds, ChipStep
<1>10. CASE rtc_irq_handler
  BY <1>0, <1>3, <1>10 DEF rtc_irq_handler
<1>11. CASE UNCHANGED machineVars
  BY <1>4, <1>11 DEF machineVars, rtcVars
<1> QED
  BY <1>1, <1>5, <1>6, <1>7, <1>8, <1>9, <1>10, <1>11,
     RtcStartKeepsLine, RtcCallKeepsLine, ThreadKeepsLine DEF MachineNext

(* The clock can always interrupt the drivers that wait for it (rtc.c): an *)
(* asserted output has an edge to come, although three places read and so  *)
(* clear register C, and no call leaves line 8 masked for a callback that  *)
(* is installed.                                                           *)
THEOREM ClockIsHeard == MachineSpec => []ClockHeard
<1>1. EdgeInv /\ LineInv => ClockHeard
  BY DEF EdgeInv, LineInv, ClockHeard, CallbackHasLine, LineOpen
<1> QED
  BY ServiceInvInit, ServiceInvNext, EdgeInvInit, EdgeInvNext, LineInvInit, LineInvNext,
     <1>1, PTL DEF MachineSpec
-----------------------------------------------------------------------------
Stacks == {"none", "bad", "task", "df", "nmi", "debug", "ss", "spare"}

\* What the set-up has reached: the segment has its stacks before the table
\* with it is loaded, that before the gates are set, and those before a
\* handler is registered.
SetUp ==
    /\ tss \in [rsp0 : Stacks, ist : [1 .. 7 -> Stacks]]
    /\ loaded \in BOOLEAN
    /\ tss.ist[1] # "none" =>
          Usable(tss.rsp0) /\ Usable(tss.ist[1]) /\ Usable(tss.ist[4])
    /\ loaded => tss.ist[1] # "none"
    /\ \/ gates = [v \in Vectors |-> NoGate]
       \/ loaded /\ gates = [v \in Vectors |->
                                CASE v = "DF" -> 1 [] v = "NMI" -> 2
                                  [] v = "SS" -> 4 [] OTHER -> 0]
    /\ handlers \in {{}, {"DF", "SS", "GP"}, {"DF", "SS", "GP", "PF"}}
    /\ handlers # {} => gates["UD"] # NoGate

\* User mode is entered once every handler is there.
TrapInv ==
    /\ SetUp
    /\ DOMAIN cpu = {"ring", "stack", "user"}
    /\ cpu.ring = 3 => "PF" \in handlers
    /\ FaultsContained

(* The machine starts without gates, at ring 0. *)
LEMMA TrapInvInit == TrapInit => TrapInv
<1> SUFFICES ASSUME TrapInit PROVE TrapInv
  OBVIOUS
<1>1. SetUp
  <2>1. tss \in [rsp0 : Stacks, ist : [1 .. 7 -> Stacks]] /\ tss.ist[1] = "none"
    BY SMTT(60) DEF TrapInit, Stacks
  <2> QED
    BY <2>1 DEF TrapInit, SetUp
<1>2. DOMAIN cpu = {"ring", "stack", "user"} /\ cpu.ring # 3
  BY SMTT(60) DEF TrapInit, Stacks
<1> QED
  BY <1>1, <1>2 DEF TrapInit, TrapInv, FaultsContained

\* Once the gates are set, every exception reaches a handler: its own one if
\* it came from user mode and has a handler there.
LEMMA Reached ==
    ASSUME TrapInv, NEW v \in Vectors \ {"DF"}
    PROVE  /\ gates["UD"] # NoGate => Entered(v) \in {v, "DF"}
           /\ cpu.ring = 3 /\ v \in {"SS", "GP", "PF"} => Entered(v) = v
<1> USE DEF Usable, NoGate, Vectors
<1>1. ASSUME gates["UD"] # NoGate
      PROVE  /\ gates["DF"] = 1 /\ gates[v] # NoGate /\ gates[v] \in {0, 2, 4}
             /\ v = "SS" => gates[v] = 4
             /\ v \in {"GP", "PF"} => gates[v] = 0
             /\ Usable(tss.rsp0) /\ Usable(tss.ist[1]) /\ Usable(tss.ist[4])
  BY SMTT(60), <1>1 DEF TrapInv, SetUp
<1>2. gates["UD"] # NoGate => Entered(v) \in {v, "DF"}
  BY SMTT(60), <1>1 DEF Entered, StackFor
<1>3. cpu.ring = 3 => gates["UD"] # NoGate
  BY DEF TrapInv, SetUp
<1>4. cpu.ring = 3 /\ v \in {"SS", "GP", "PF"} => Entered(v) = v
  BY SMTT(60), <1>1, <1>3 DEF Entered, StackFor
<1> QED
  BY <1>2, <1>4

(* One case per step of the set-up, per switch and per exception. *)
LEMMA TrapInvNext == TrapInv /\ [TrapNext]_trapVars => TrapInv'
<1> SUFFICES ASSUME TrapInv, [TrapNext]_trapVars PROVE TrapInv'
  OBVIOUS
<1> USE DEF Usable, NoGate
<1>1. CASE outcome = "run" /\ TrapSetup
  <2>1. UNCHANGED <<cpu, outcome, last>> /\ outcome = "run"
    BY <1>1 DEF TrapSetup, tss_init, gdt_init, idt_init, exception_init, pf_init,
                tss_set_kernel_stack_ctx, tss_set_ist_stack
  <2>2. handlers \subseteq handlers'
    BY <1>1 DEF TrapSetup, tss_init, gdt_init, idt_init, exception_init, pf_init,
                tss_set_kernel_stack_ctx, tss_set_ist_stack
  <2>3. SetUp'
    <3>1. CASE tss_init
      BY SMTT(60), <3>1 DEF TrapInv, SetUp, tss_init, Stacks
    <3>2. CASE gdt_init
      BY <3>2 DEF TrapInv, SetUp, gdt_init
    <3>3. CASE idt_init
      BY <3>3 DEF TrapInv, SetUp, idt_init, Vectors
    <3>4. CASE exception_init
      BY <3>4 DEF TrapInv, SetUp, exception_init
    <3>5. CASE pf_init
      BY <3>5 DEF TrapInv, SetUp, pf_init
    <3>6. CASE tss_set_kernel_stack_ctx
      BY <3>6 DEF TrapInv, SetUp, tss_set_kernel_stack_ctx, Stacks
    <3>7. ASSUME NEW i \in {1, 8}, tss_set_ist_stack(i)
          PROVE  SetUp'
      BY SMTT(60), <3>7 DEF TrapInv, SetUp, tss_set_ist_stack, Stacks
    <3> QED
      BY <1>1, <3>1, <3>2, <3>3, <3>4, <3>5, <3>6, <3>7 DEF TrapSetup
  <2> QED
    BY <2>1, <2>2, <2>3 DEF TrapInv, FaultsContained
<1>2. CASE (\E user \in BOOLEAN : SwitchTask(user)) \/ Overflow
             \/ user_switch_to_usermode
  <2>1. /\ outcome = "run"
        /\ UNCHANGED <<tss, loaded, gates, handlers, outcome, last>>
    BY <1>2 DEF SwitchTask, Overflow, user_switch_to_usermode
  <2>2. SetUp' /\ FaultsContained'
    BY <2>1 DEF TrapInv, SetUp, FaultsContained
  <2>3. DOMAIN cpu' = {"ring", "stack", "user"}
    BY <1>2 DEF TrapInv, SwitchTask, Overflow, user_switch_to_usermode, Stacks
  <2>4. cpu'.ring = 3 => "PF" \in handlers
    BY SMTT(60), <1>2 DEF TrapInv, SwitchTask, Overflow, user_switch_to_usermode
  <2> QED
    BY <2>1, <2>2, <2>3, <2>4 DEF TrapInv
<1>3. ASSUME NEW v \in Vectors, NEW resolved \in BOOLEAN, Trap(v, resolved)
      PROVE  TrapInv'
  <2> DEFINE w == Entered(v)
             h == Handled(w, resolved)
  <2>1. /\ outcome = "run" /\ v # "DF"
        /\ cpu' = h.cpu /\ outcome' = h.outcome
        /\ last' = [v |-> v, ring |-> cpu.ring, user |-> cpu.user]
        /\ UNCHANGED <<tss, loaded, gates, handlers>>
    BY <1>3 DEF Trap
  <2>2. SetUp'
    BY <2>1 DEF TrapInv, SetUp
  <2>3. \/ h.cpu = cpu
        \/ h.cpu = [ring |-> 0, stack |-> "task", user |-> FALSE]
    BY SMTT(60) DEF Handled
  <2>4. DOMAIN cpu' = {"ring", "stack", "user"}
        /\ (cpu'.ring = 3 => "PF" \in handlers')
    <3> HIDE DEF h
    <3> QED
      BY SMTT(60), <2>1, <2>3 DEF TrapInv, Stacks
  <2>5. outcome' = "reset" => gates'["UD"] = NoGate
    BY <2>1, Reached DEF Handled, Vectors
  <2>6. ASSUME v \in {"SS", "GP", "PF"}, v \in handlers, cpu.ring = 3, cpu.user
        PROVE  outcome' = "run"
    <3>1. w = v
      BY <2>1, <2>6, Reached
    <3> QED
      BY <2>1, <2>6, <3>1 DEF Handled, Ends
  <2> QED
    BY <2>1, <2>2, <2>4, <2>5, <2>6 DEF TrapInv, FaultsContained
<1>4. CASE UNCHANGED trapVars
  BY <1>4 DEF trapVars, TrapInv, SetUp, FaultsContained
<1> QED
  BY <1>1, <1>2, <1>3, <1>4 DEF TrapNext

(* Whatever exceptions are raised, in whatever state of the set-up and of  *)
(* the stacks: once idt_init has set the gates no exception resets the     *)
(* machine, since tss_init gave the double fault a stack of its own        *)
(* before, and a fault of a user process that has a handler ends that      *)
(* process and not the kernel.                                             *)
THEOREM FaultsAreContained == TrapSpec => []FaultsContained
<1>1. TrapInv => FaultsContained
  BY DEF TrapInv
<1> QED
  BY <1>1, TrapInvInit, TrapInvNext, PTL DEF TrapSpec
=============================================================================
