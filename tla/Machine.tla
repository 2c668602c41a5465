------------------------------ MODULE Machine -------------------------------
(***************************************************************************)
(* The kernel's thread and its interrupts: the interval timer with the     *)
(* busy wait on its ticks (kernel/driver/timer/timer.c), the real-time     *)
(* clock and its chip (kernel/driver/rtc/rtc.c), and the machine they and  *)
(* other devices interrupt (kernel/kernel_init.c).                         *)
(***************************************************************************)
EXTENDS Integers, Sequences, Interrupts

-----------------------------------------------------------------------------
(* The interval timer (kernel/driver/timer/timer.c): its frequency, the    *)
(* tick counter its interrupt advances, and the busy wait on the counter.  *)

CONSTANTS
    Frequencies,    \* arguments of timer_set_frequency
    Milliseconds,   \* arguments of timer_mdelay
    UintRange       \* number of values of a uint32_t product (2^32)

ASSUME TimerAssumption ==
    /\ Frequencies \subseteq Nat /\ Milliseconds \subseteq Nat
    /\ UintRange \in Nat \ {0}

VARIABLES
    timer_ticks,
    timer_frequency,
    divisor,         \* the 16-bit count written to the PIT
    delay            \* the tick timer_mdelay waits for; NoDelay outside it

timerVars == <<timer_ticks, timer_frequency, divisor, delay>>

PIT_BASE_FREQUENCY == 1193180
TIMER_DEFAULT_FREQUENCY == 1000
TIMER_IRQ == 0
NoDelay == -1

\* The quotient's two low bytes reach the PIT.
pit_set_frequency(frequency) == (PIT_BASE_FREQUENCY \div frequency) % 65536

TimerInit ==
    /\ timer_ticks = 0 /\ delay = NoDelay
    /\ timer_frequency = TIMER_DEFAULT_FREQUENCY
    /\ divisor = pit_set_frequency(TIMER_DEFAULT_FREQUENCY)

\* timer_init, called with 0, keeps the default frequency.
timer_init ==
    /\ timer_frequency' = TIMER_DEFAULT_FREQUENCY
    /\ divisor' = pit_set_frequency(TIMER_DEFAULT_FREQUENCY)
    /\ irq_register_handler(TIMER_IRQ, Plain)
    /\ UNCHANGED <<timer_ticks, delay>>

\* The PIT's output rises once a period.
TimerRaises ==
    /\ timer_ticks < bound.ticks
    /\ pic' = Request(pic, TIMER_IRQ)
    /\ UNCHANGED <<phase, irq_table, custom, cpuIF, running, raises, bound,
                   timerVars>>

\* Also calls the scheduler's tick, which only counts down a time slice.
timer_irq_handler ==
    /\ RunHandler(TIMER_IRQ)
    /\ timer_ticks' = IF CallsHandler(TIMER_IRQ) THEN timer_ticks + 1
                      ELSE timer_ticks
    /\ UNCHANGED <<timer_frequency, divisor, delay>>

\* The product wraps at the width of its operands.
DelayTicks(ms) == ((ms * timer_frequency) % UintRange) \div 1000

timer_mdelay(ms) ==
    /\ Thread /\ phase = "live" /\ delay = NoDelay
    /\ timer_ticks + DelayTicks(ms) <= bound.ticks
    /\ delay' = timer_ticks + DelayTicks(ms)
    /\ UNCHANGED <<irqVars, timer_ticks, timer_frequency, divisor>>

\* Slip: the counter is compared with ==.
timer_mdelay_return_exact ==
    /\ Thread /\ delay # NoDelay
    /\ timer_ticks = delay
    /\ delay' = NoDelay
    /\ UNCHANGED <<irqVars, timer_ticks, timer_frequency, divisor>>

\* The thread sees that the counter has reached its target.
timer_mdelay_return ==
    /\ Thread /\ delay # NoDelay
    /\ timer_ticks >= delay
    /\ delay' = NoDelay
    /\ UNCHANGED <<irqVars, timer_ticks, timer_frequency, divisor>>

timer_set_frequency(frequency) ==
    /\ Thread /\ delay = NoDelay
    /\ frequency \in 18 .. PIT_BASE_FREQUENCY
    /\ timer_frequency' = frequency
    /\ divisor' = pit_set_frequency(frequency)
    /\ UNCHANGED <<irqVars, timer_ticks, delay>>

-----------------------------------------------------------------------------
(* The real-time clock driver (kernel/driver/rtc/rtc.c) and its chip.      *)
(*                                                                         *)
(* A register access is two port accesses, the index and then the data,    *)
(* and the interrupt handler does one of its own in between whenever line  *)
(* 8 is open.  Each call of the driver is the sequence of its accesses     *)
(* (Steps); one thread makes the calls.                                    *)
(*                                                                         *)
(* Registers B and C share bit numbers: 7 is SET in B and IRQF in C, 6 the *)
(* periodic interrupt (PIE, PF), 5 the alarm (AIE, AF).  The date is the   *)
(* two fields the clock carries between, seconds and minutes.  The chip    *)
(* (RtcPeriod, RtcAlarm, RtcUpdate*, Level) is external.                   *)

VARIABLES
    chip,       \* [b, c: sets of bits; uip; time; index]
    callback,   \* the callbacks installed: a subset of {"periodic", "alarm"}
    call,       \* the call in progress: [steps, half, b, time], or NoCall
    calls,      \* calls of this driver and the timer's, rtc_init among them
    events      \* events of the chip

rtcVars == <<chip, callback, call, calls, events>>

RTC_IRQ == 8
Tick(t) == IF t.sec = 0 THEN [t EXCEPT !.sec = 1]
           ELSE [sec |-> 0, min |-> (t.min + 1) % 2]

NoCall == [steps |-> <<>>, half |-> FALSE, b |-> {}, time |-> [sec |-> 0, min |-> 0]]

\* The interrupt output: a flag whose enable bit is set.
Level(c) == c.c \cap c.b \cap {5, 6} # {}

\* The controllers after the chip went from one state to another: they
\* latch a rising edge.
Edge(p, old, new) ==
    IF ~Level(old) /\ Level(new) THEN Request(p, RTC_IRQ) ELSE p

RtcInit ==
    /\ chip = [b |-> {}, c |-> {}, uip |-> FALSE,
               time |-> [sec |-> 0, min |-> 0], index |-> "D"]
    /\ callback = {} /\ call = NoCall
    /\ calls = 0 /\ events = 0

-----------------------------------------------------------------------------
(* The chip.                                                               *)

ChipStep(new) ==
    /\ chip' = new
    /\ pic' = Edge(pic, chip, new)
    /\ UNCHANGED <<phase, irq_table, custom, cpuIF, running, raises, bound,
                   callback, call, calls>>

\* Before interrupts are on, no source is enabled and nothing reads the clock.
RtcEvent ==
    /\ phase = "live"
    /\ events < bound.events /\ events' = events + 1

RtcPeriod ==
    /\ RtcEvent
    /\ ChipStep([chip EXCEPT !.c = @ \cup {6}])

RtcAlarm ==
    /\ RtcEvent
    /\ ChipStep([chip EXCEPT !.c = @ \cup {5}])

RtcUpdateBegins ==
    /\ RtcEvent
    /\ ~chip.uip /\ 7 \notin chip.b
    /\ ChipStep([chip EXCEPT !.uip = TRUE])

RtcUpdateEnds ==
    /\ chip.uip
    /\ ChipStep([chip EXCEPT !.uip = FALSE,
                             !.time = IF 7 \in chip.b THEN @ ELSE Tick(@)])
    /\ UNCHANGED events

-----------------------------------------------------------------------------
(* The driver's accesses.                                                  *)

\* What reading the selected register returns; reading C clears it.
Contents(c) ==
    CASE c.index = "B" -> c.b
      [] c.index = "C" -> c.c \cup (IF Level(c) THEN {7} ELSE {})
      [] OTHER -> {}
AfterRead(c) == IF c.index = "C" THEN [c EXCEPT !.c = {}] ELSE c

AfterWrite(c, bits) == IF c.index = "B" THEN [c EXCEPT !.b = bits] ELSE c

\* Slip: C is read only for a callback.
rtc_irq_handler_if_callback ==
    /\ RunHandler(RTC_IRQ)
    /\ chip' = IF callback # {} THEN AfterRead([chip EXCEPT !.index = "C"])
               ELSE chip
    /\ UNCHANGED <<callback, call, calls, events>>

\* The handler reads C, which clears the flags and the output; then it calls
\* the callbacks, whose work is not modelled.
rtc_irq_handler ==
    /\ RunHandler(RTC_IRQ)
    /\ chip' = IF CallsHandler(RTC_IRQ)
               THEN AfterRead([chip EXCEPT !.index = "C"]) ELSE chip
    /\ UNCHANGED <<callback, call, calls, events>>

R(reg) == [do |-> "read", reg |-> reg]
W(reg, set, clear) == [do |-> "write", reg |-> reg, set |-> set, clear |-> clear]
Mask == [do |-> "mask", reg |-> "-"]
Unmask == [do |-> "unmask", reg |-> "-"]
Set(cb) == [do |-> "install", reg |-> cb]
Clear(cb) == [do |-> "remove", reg |-> cb]
UnmaskIf(cb) == [do |-> "unmask_if", reg |-> cb]
Poll == [do |-> "poll", reg |-> "A"]

rtc_init == <<R("D"), R("B"), W("B", {}, {5, 6})>>

\* The callback may be NULL.
rtc_enable_periodic(install) ==
    <<install, Mask, R("A"), R("B"), W("A", {}, {}), W("B", {6}, {}),
      R("C"), Unmask>>

rtc_disable_periodic ==
    <<Mask, R("B"), W("B", {}, {6}), Clear("periodic"), UnmaskIf("alarm")>>

\* The three alarm fields are one write here.
rtc_set_alarm ==
    <<Set("alarm"), Mask, W("alarm", {}, {}), R("B"), W("B", {5}, {}), R("C"),
      Unmask>>

rtc_disable_alarm ==
    <<Mask, R("B"), W("B", {}, {5}), Clear("alarm"), UnmaskIf("periodic")>>

rtc_get_time == <<Poll, R("sec"), R("min")>>

rtc_set_time ==
    <<R("B"), W("B", {7}, {}), W("sec", {}, {}), W("min", {}, {}), W("B", {}, {}),
      Poll>>

rtc_is_valid == <<R("D")>>

Calls == {rtc_enable_periodic(Set("periodic")),
          rtc_enable_periodic(Clear("periodic")), rtc_disable_periodic, rtc_set_alarm,
          rtc_disable_alarm, rtc_get_time, rtc_set_time, rtc_is_valid}

\* rtc_init also registers the handler, which ends the interrupt itself.
RtcStart ==
    /\ phase = "init" /\ call = NoCall /\ calls = 0
    /\ irq_register_handler(RTC_IRQ, EndsItself)
    /\ call' = [NoCall EXCEPT !.steps = rtc_init]
    /\ calls' = 1
    /\ UNCHANGED <<chip, callback, events>>

RtcCall(steps) ==
    /\ Thread /\ phase = "live" /\ call = NoCall
    /\ calls \in 1 .. bound.calls
    /\ calls' = calls + 1
    /\ call' = [NoCall EXCEPT !.steps = steps]
    /\ UNCHANGED <<irqVars, chip, callback, events>>

Busy == Thread /\ call # NoCall
Step == Head(call.steps)
Advance(c) == IF Len(c.steps) = 1 THEN NoCall
              ELSE [c EXCEPT !.steps = Tail(@), !.half = FALSE]

\* The first half of cmos_read and cmos_write: select the register.
SelectRegister ==
    /\ Busy /\ Step.do \in {"read", "write", "poll"} /\ ~call.half
    /\ chip' = [chip EXCEPT !.index = Step.reg]
    /\ call' = [call EXCEPT !.half = TRUE]
    /\ UNCHANGED <<irqVars, callback, calls, events>>

\* What the thread keeps of a read.  Only a read of B or of the time counts.
Kept(c) ==
    CASE Step.reg = "B" -> [call EXCEPT !.b = Contents(c)]
      [] Step.reg \in {"sec", "min"} ->
            [call EXCEPT !.time[Step.reg] =
                IF c.index \in {"sec", "min"} THEN c.time[c.index] ELSE 0]
      [] OTHER -> call

cmos_read ==
    /\ Busy /\ Step.do = "read" /\ call.half
    /\ chip' = AfterRead(chip)
    /\ call' = Advance(Kept(chip))
    /\ UNCHANGED <<irqVars, callback, calls, events>>

\* The time fields are written as 0.  A write lands where the index points.
cmos_write ==
    /\ Busy /\ Step.do = "write" /\ call.half
    /\ LET new == IF chip.index \in {"sec", "min"}
                  THEN [chip EXCEPT !.time[chip.index] = 0]
                  ELSE AfterWrite(chip, (call.b \cup Step.set) \ Step.clear)
       IN  /\ chip' = new
           /\ pic' = Edge(pic, chip, new)
    /\ call' = Advance([call EXCEPT !.b = IF Step.reg = "B" /\ 7 \notin Step.set
                                          THEN (@ \cup Step.set) \ Step.clear
                                          ELSE @])
    /\ UNCHANGED <<phase, irq_table, custom, cpuIF, running, raises, bound,
                   callback,
                   calls, events>>

\* One round of "while (rtc_is_updating())".
rtc_is_updating ==
    /\ Busy /\ Step.do = "poll" /\ call.half
    /\ call' = IF chip.index = "A" /\ chip.uip THEN [call EXCEPT !.half = FALSE]
               ELSE Advance(call)
    /\ chip' = AfterRead(chip)
    /\ UNCHANGED <<irqVars, callback, calls, events>>

MaskStep ==
    /\ Busy /\ Step.do \in {"mask", "unmask", "unmask_if"}
    /\ pic' = IF Step.do = "mask" THEN pic_disable_irq(pic, RTC_IRQ)
              ELSE IF Step.do = "unmask" \/ Step.reg \in callback
              THEN pic_enable_irq(pic, RTC_IRQ)
              ELSE pic
    /\ call' = Advance(call)
    /\ UNCHANGED <<phase, irq_table, custom, cpuIF, running, raises, bound, chip,
                   callback, calls, events>>

CallbackStep ==
    /\ Busy /\ Step.do \in {"install", "remove"}
    /\ callback' = IF Step.do = "install" THEN callback \cup {Step.reg}
                   ELSE callback \ {Step.reg}
    /\ call' = Advance(call)
    /\ UNCHANGED <<irqVars, chip, calls, events>>

RtcThread ==
    \/ SelectRegister \/ cmos_read \/ cmos_write \/ rtc_is_updating
    \/ MaskStep \/ CallbackStep

-----------------------------------------------------------------------------

\* An asserted output always has an edge that is still to be handled: the
\* controllers are edge triggered, so without one no clock interrupt would
\* ever come again.  (Register C is read by the handler, by the enabling
\* calls, and by accident when the handler moves the index.)
OutputHasEdge ==
    Level(chip) => \/ RTC_IRQ \in pic.irr
                   \/ running = [irq |-> RTC_IRQ, pc |-> "handler"]
                   \/ phase = "reset"

\* Outside the driver's calls, line 8 is open as long as a callback waits
\* for it: disabling one of the two sources never silences the other.
CallbackHasLine ==
    phase = "live" /\ call = NoCall /\ callback # {} => RTC_IRQ \notin pic.imr

\* The clock can always interrupt the drivers that wait for it.
ClockHeard == OutputHasEdge /\ CallbackHasLine

-----------------------------------------------------------------------------
(* Interrupt delivery with the timer, the real-time clock and other        *)
(* devices: one kernel thread, interrupted by their handlers.              *)

CONSTANTS Descriptors    \* the descriptors drivers register

ASSUME MachineAssumption == Devices \cap {TIMER_IRQ, RTC_IRQ} = {}

\* IRQ_FLAG_AUTOEOI is for handlers that end the interrupt themselves.
ASSUME DescriptorsAssumption ==
    \A d \in Descriptors :
        /\ d \in [own : BOOLEAN, auto : BOOLEAN, in_use : {TRUE}]
        /\ d.auto => d.own

machineVars == <<irqVars, timerVars, rtcVars>>

MachineInit == IrqInit /\ TimerInit /\ RtcInit

\* Steps of Interrupts alone.
Deliver == TakeInterrupt \/ interrupt_handler

DeviceHandler(irq) == RunHandler(irq) /\ UNCHANGED <<timerVars, rtcVars>>

\* kernel_init sets up the timer and the clock before it turns interrupts on.
Finalize ==
    /\ irq_table[TIMER_IRQ].in_use /\ irq_table[RTC_IRQ].in_use /\ call = NoCall
    /\ interrupt_finalize

Setup ==
    \/ interrupt_init \/ Finalize
    \/ /\ bound.raises > 0      \* a line that never rises needs no handler
       /\ \E i \in Devices :
             \/ idt_register_handler(i)
             \/ \E d \in Descriptors : \/ irq_register_handler(i, d)
                                       \/ irq_unregister_handler(i, d)

TimerCall ==
    /\ call = NoCall /\ bound.ticks > 0
    /\ calls \in 1 .. bound.calls /\ calls' = calls + 1
    /\ UNCHANGED <<chip, callback, call, events>>
    /\ \/ \E ms \in Milliseconds : timer_mdelay(ms)
       \/ \E f \in Frequencies : timer_set_frequency(f)

RtcChip == RtcPeriod \/ RtcAlarm \/ RtcUpdateBegins \/ RtcUpdateEnds

\* The thread is in one call at a time.
MachineNext ==
    \/ (Setup \/ Deliver) /\ UNCHANGED <<timerVars, rtcVars>>
    \/ \E i \in Devices : Raise(i) /\ UNCHANGED <<timerVars, rtcVars>>
    \/ \E i \in Devices : DeviceHandler(i)
    \/ TimerCall
    \/ (timer_init \/ TimerRaises \/ timer_irq_handler \/ timer_mdelay_return)
         /\ UNCHANGED rtcVars
    \/ RtcChip /\ UNCHANGED timerVars
    \/ delay = NoDelay /\ (RtcStart \/ \E s \in Calls : RtcCall(s))
         /\ UNCHANGED timerVars
    \/ (RtcThread \/ rtc_irq_handler) /\ UNCHANGED timerVars

\* The CPU takes offered interrupts and runs handlers and the thread's
\* loops; the timer keeps ticking.
MachineFairness ==
    /\ WF_machineVars(Deliver /\ UNCHANGED <<timerVars, rtcVars>>)
    /\ WF_machineVars(\E i \in Devices : DeviceHandler(i))
    /\ WF_machineVars((timer_irq_handler \/ TimerRaises \/ timer_mdelay_return)
                        /\ UNCHANGED rtcVars)
    /\ WF_machineVars(rtc_irq_handler /\ UNCHANGED timerVars)

MachineSpec == MachineInit /\ [][MachineNext]_machineVars /\ MachineFairness

-----------------------------------------------------------------------------

\* A latched interrupt on an open line is handled, or its line is masked.
RaisedIsServed ==
    \A i \in Devices \cup {TIMER_IRQ, RTC_IRQ} :
        (phase = "live" /\ i \in pic.irr) ~> (i \notin pic.irr \/ i \in pic.imr)

\* timer_mdelay returns: while it waits, ticks keep arriving, whatever the
\* other interrupts do.
DelayReturns == (delay # NoDelay) ~> (delay = NoDelay)
=============================================================================
