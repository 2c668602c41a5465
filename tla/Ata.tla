-------------------------------- MODULE Ata --------------------------------
(***************************************************************************)
(* One channel of the ATA disk driver (kernel/driver/ata/ata.c): probing,  *)
(* polled transfers (PIO) and the interrupt-driven queue of asynchronous   *)
(* transfers, against a device.                                            *)
(*                                                                         *)
(* One thread calls the driver; the interrupt handler runs between any two *)
(* of its steps unless the line is masked or the device's interrupt is     *)
(* off.  The driver's polling loops are single steps: the device either    *)
(* gets there, fails, or is still busy when the loop's counter runs out.   *)
(*                                                                         *)
(* The device is external.  It ignores a command while it is busy or wants *)
(* data, raises its interrupt per sector, drops it when the status is      *)
(* read, and decodes an address the way the driver writes it.  A sector    *)
(* initially holds its own number; a write stores Marked of the number the *)
(* caller meant.                                                           *)
(***************************************************************************)
EXTENDS Naturals, Sequences

CONSTANTS
    Requests,    \* transfers: [kind, drive, lba, sectors]
    Attached,    \* the drives (0 master, 1 slave) that answer
    Lba48,       \* the drives that support 48-bit addresses
    LbaMax,      \* first address outside LBA28 (2^28)
    CountMax,    \* values of the sector count register (256)
    MaxRequests,    \* bound: calls of the driver
    MaxFaults    \* bound: transfers the device fails

ASSUME AtaAssumption ==
    /\ Requests \subseteq [kind : {"read", "write"}, drive : {0, 1},
                           lba : Nat, sectors : Nat]
    /\ Attached \subseteq {0, 1}
    /\ Lba48 \subseteq Attached
    /\ LbaMax \in Nat \ {0} /\ CountMax \in Nat \ {0}
    /\ MaxRequests \in Nat /\ MaxFaults \in Nat

VARIABLES
    mode,      \* "off", "sync" or "async"
    present,   \* the master_present and slave_present flags
    lba48,     \* the drives whose info->lba48_supported is set
    gate,      \* [masked: the PIC's mask, enabled: ctrl->interrupts_enabled]
    dev,       \* the device, with the sectors it stores
    pio,       \* the polled transfer the thread is in
    enq,       \* the asynchronous call the thread is in
    ops,       \* the asynchronous operations allocated so far
    next,      \* their next pointers
    queue,     \* [head, tail, active]
    done,      \* finished transfers, in order
    late,      \* whether a polling loop has ever given up
    faults,    \* transfers the device has failed
    panic      \* the thread dereferenced NULL

ataVars == <<mode, present, lba48, gate, dev, pio, enq, ops, next, queue,
             done, late, faults, panic>>

\* A null operation pointer.
NoOp == 0
Marked(l) == l + 1000
Sectors == 0 .. (2 * LbaMax + CountMax)

Quiet == [cmd |-> "none", st |-> "idle", lba |-> 0, left |-> 0, buf |-> 0,
          begun |-> FALSE, err |-> FALSE, intrq |-> FALSE, nien |-> FALSE,
          lost |-> FALSE,                    \* it has failed a write
          disk |-> [l \in Sectors |-> l]]

NoPio == [pc |-> "none"]
NoCall == [pc |-> "none"]

AtaInit ==
    /\ mode = "off"
    /\ present = {} /\ lba48 = {}
    /\ gate = [masked |-> TRUE, enabled |-> FALSE]
    /\ dev = Quiet
    /\ pio = NoPio
    /\ enq = NoCall
    /\ ops = << >>
    /\ next = << >>
    /\ queue = [head |-> NoOp, tail |-> NoOp, active |-> NoOp]
    /\ done = << >>
    /\ late = FALSE
    /\ faults = 0
    /\ panic = FALSE

-----------------------------------------------------------------------------
(* The device *)

\* A command starts only on an idle, attached drive.
Command(d, cmd, drive, lba, left) ==
    IF d.st # "idle" \/ drive \notin Attached THEN d
    ELSE [d EXCEPT !.cmd = cmd, !.st = "busy", !.lba = lba, !.left = left,
                   !.begun = FALSE, !.err = FALSE]

\* A busy device finishes its step: the sector it was given is stored, and it
\* has or wants another one, or is done.
Advanced(d) ==
    IF d.cmd = "write" /\ d.begun
    THEN [d EXCEPT !.disk[d.lba] = d.buf, !.lba = @ + 1, !.left = @ - 1]
    ELSE d

Ready(d) ==
    LET n == Advanced(d)
    IN  [n EXCEPT !.st = IF n.cmd = "flush" \/ n.left = 0 THEN "idle" ELSE "drq",
                  !.intrq = n.cmd # "write" \/ n.begun]

Failed(d) == [d EXCEPT !.st = "idle", !.err = TRUE, !.intrq = TRUE,
                       !.lost = @ \/ d.cmd = "write"]

StatusRead(d) == [d EXCEPT !.intrq = FALSE]

\* The processor moves one sector.
DataIn(d) ==
    [d EXCEPT !.lba = @ + 1, !.left = @ - 1,
              !.st = IF d.left = 1 THEN "idle" ELSE "busy"]

DataOut(d, value) ==
    IF d.st = "drq" THEN [d EXCEPT !.buf = value, !.begun = TRUE, !.st = "busy"]
    ELSE d

\* How a busy device can be found later.
Progress(d) ==
    {[d |-> Ready(d), f |-> 0]}
        \cup {[d |-> Failed(d), f |-> 1] : i \in 1 .. (MaxFaults - faults)}

DeviceStep ==
    /\ dev.st = "busy"
    /\ ~panic
    /\ \E p \in Progress(dev) : dev' = p.d /\ faults' = faults + p.f
    /\ UNCHANGED <<mode, present, lba48, gate, pio, enq, ops, next, queue, done,
                   late, panic>>

-----------------------------------------------------------------------------
(* Polling *)

\* Where ata_wait_bsy can end: the device is no longer busy, or the counter
\* ran out.
ata_wait_bsy(d) ==
    IF d.st # "busy" THEN {[r |-> "OK", d |-> StatusRead(d), f |-> 0, late |-> FALSE]}
    ELSE {[r |-> "OK", d |-> StatusRead(p.d), f |-> p.f, late |-> FALSE] :
              p \in Progress(d)}
           \cup {[r |-> "TIMEOUT", d |-> StatusRead(d), f |-> 0, late |-> TRUE]}

\* What ata_wait_drq makes of a device that is not busy.
Drq(d) == CASE d.err -> "IO_ERROR" [] d.st = "drq" -> "OK" [] OTHER -> "TIMEOUT"

ata_wait_drq(d) ==
    {IF w.late THEN w ELSE [w EXCEPT !.r = Drq(w.d)] : w \in ata_wait_bsy(d)}

\* The sector count register holds CountMax as 0, and the device undoes it.
SecCount(n) == IF n = CountMax THEN 0 ELSE n % CountMax
DeviceCount(c) == IF c = 0 THEN CountMax ELSE c

\* The command a request turns into, by the addressing it uses.
Start(d, r, ext) ==
    IF ext THEN Command(d, r.kind, r.drive, r.lba, r.sectors)
    ELSE Command(d, r.kind, r.drive, r.lba % LbaMax, DeviceCount(SecCount(r.sectors)))

UseLba48(r) == r.lba >= LbaMax /\ r.drive \in lba48

\* Bookkeeping every poll leaves behind.
Polled(w) == faults' = faults + w.f /\ late' = (late \/ w.late)

-----------------------------------------------------------------------------
(* Bringing the channel up *)

ata_enable_interrupts(d) == [d EXCEPT !.nien = FALSE]
ata_disable_interrupts(d) == [d EXCEPT !.nien = TRUE]

\* ata_init_async_io: the queue's allocation or the handler's registration
\* may fail, and then the channel stays polled.
ata_init_async_io ==
    \/ mode' = "sync" /\ UNCHANGED <<gate, dev>>
    \/ /\ mode' = "async"
       /\ gate' = [masked |-> FALSE, enabled |-> TRUE]
       /\ dev' = ata_enable_interrupts(dev)

\* The probe misses a drive that is not attached, and one whose answer does
\* not arrive before the polling loop ends.
ata_device_present(drive) == IF drive \in Attached THEN BOOLEAN ELSE {FALSE}

\* A second IDENTIFY tells what the drive supports; when it fails the drive
\* stays present and its information stays zero.
ata_identify_device(drive) == {FALSE} \cup {drive \in Lba48}

ata_init_ex(async) ==
    /\ mode = "off"
    /\ \E p \in [{0, 1} -> BOOLEAN], i \in [{0, 1} -> BOOLEAN] :
          /\ \A d \in {0, 1} : /\ p[d] \in ata_device_present(d)
                               /\ i[d] \in ata_identify_device(d)
          /\ present' = {d \in {0, 1} : p[d]}
          /\ lba48' = {d \in {0, 1} : p[d] /\ i[d]}
    /\ IF async THEN ata_init_async_io ELSE mode' = "sync" /\ UNCHANGED <<gate, dev>>
    /\ UNCHANGED <<pio, enq, ops, next, queue, done, late, faults, panic>>

ata_init_async_mode ==
    /\ mode = "sync" /\ pio.pc = "none"
    /\ ata_init_async_io
    /\ UNCHANGED <<present, lba48, pio, enq, ops, next, queue, done, late,
                   faults, panic>>

\* interrupt_finalize unmasks every line after the drivers are up.
interrupt_finalize ==
    /\ mode # "off" /\ gate.masked /\ pio.pc = "none"
    /\ gate' = [gate EXCEPT !.masked = FALSE]
    /\ UNCHANGED <<mode, present, lba48, dev, pio, enq, ops, next, queue, done,
                   late, faults, panic>>

-----------------------------------------------------------------------------
(* Polled transfers *)

Calls == Len(ops) + Len(SelectSeq(done, LAMBDA x : x.op = NoOp))

ThreadIdle == pio.pc = "none" /\ enq.pc = "none" /\ ~panic

ata_async_is_idle == queue.active = NoOp /\ queue.head = NoOp

Finished(r, result, got, op) ==
    [req |-> r, result |-> result, got |-> got, op |-> op]

\* The checks of ata_read, ata_write and the two PIO routines, in order.
Refusal(r) ==
    CASE mode = "off"                                  -> "NOT_INIT"
      [] r.drive \notin present                        -> "NO_DEVICE"
      [] r.lba >= LbaMax /\ ~UseLba48(r)               -> "UNSUPPORTED"
      [] r.sectors = 0                                 -> "INVALID_PARAM"
      [] ~UseLba48(r) /\ r.sectors > CountMax          -> "INVALID_PARAM"
      [] OTHER                                         -> "OK"

\* Interrupts as they were when the transfer began.
Restored(g, p) == [masked  |-> g.masked /\ p.wasMasked,
                   enabled |-> g.enabled \/ p.wasOn]

\* Slip: the device's interrupt stays off.
RestoredDevice_off(d, p) == d

RestoredDevice(d, p) == IF p.wasOn THEN ata_enable_interrupts(d) ELSE d

PioReturn(p, g, d, result, got) ==
    /\ pio' = NoPio
    /\ gate' = Restored(g, p)
    /\ dev' = RestoredDevice(d, p)
    /\ done' = Append(done, Finished(p.req, result, got, NoOp))

\* The device as the routine finds it once both interrupt gates are shut; only
\* the LBA28 read drops a pending interrupt by reading the status first.
Shut(d, r) ==
    LET quiet == IF gate.enabled THEN ata_disable_interrupts(d) ELSE d
    IN  IF r.kind = "read" /\ ~UseLba48(r) THEN StatusRead(quiet) ELSE quiet

\* The transfer after selecting the drive and waiting for it: a read sends its
\* command here, a write sends one per sector.
PioBegun(p, w) ==
    /\ Polled(w)
    /\ IF w.r # "OK"
       THEN PioReturn(p, [masked |-> TRUE, enabled |-> FALSE], w.d, w.r, << >>)
       ELSE /\ pio' = p
            /\ gate' = [masked |-> TRUE, enabled |-> FALSE]
            /\ dev' = IF p.req.kind = "read" THEN Start(w.d, p.req, UseLba48(p.req))
                      ELSE w.d
            /\ UNCHANGED done

\* ata_read and ata_write.  The thread uses them while the queue is idle.
ata_transfer(r) ==
    /\ ThreadIdle /\ ata_async_is_idle /\ Calls < MaxRequests
    /\ IF Refusal(r) # "OK"
       THEN /\ done' = Append(done, Finished(r, Refusal(r), << >>, NoOp))
            /\ UNCHANGED <<pio, gate, dev, late, faults>>
       ELSE \E w \in ata_wait_bsy(Shut(dev, r)) :
                PioBegun([pc |-> "sector", req |-> r, got |-> << >>,
                          wasOn |-> gate.enabled, wasMasked |-> gate.masked], w)
    /\ UNCHANGED <<mode, present, lba48, enq, ops, next, queue, panic>>

\* One sector of a polled read.
ReadSector(p, w) ==
    /\ Polled(w)
    /\ LET got == Append(p.got, w.d.disk[w.d.lba])
       IN  IF w.r # "OK" THEN PioReturn(p, gate, w.d, w.r, p.got)
           ELSE IF Len(got) = p.req.sectors THEN PioReturn(p, gate, DataIn(w.d), "OK", got)
           ELSE /\ pio' = [p EXCEPT !.got = got]
                /\ dev' = DataIn(w.d)
                /\ UNCHANGED <<gate, done>>

ata_read_pio ==
    /\ pio.pc = "sector" /\ pio.req.kind = "read"
    /\ \E w \in ata_wait_drq(dev) : ReadSector(pio, w)
    /\ UNCHANGED <<mode, present, lba48, enq, ops, next, queue, panic>>

\* The write command of one sector: the first carries the address, the later
\* ones reuse what the device's registers hold by then.
WriteCommand(d, p) ==
    IF p.got = << >> THEN Start(d, p.req, UseLba48(p.req))
    ELSE Command(d, "write", p.req.drive, d.lba, d.left)

\* After the data the routine waits until the device is done with the sector
\* and, after the last one, has it flush its cache; it looks at neither result.
WriteOutcomes(d, last) ==
    IF ~last THEN ata_wait_bsy(d)
    ELSE UNION {{[v EXCEPT !.f = @ + w.f, !.late = @ \/ w.late] :
                     v \in ata_wait_bsy(Command(w.d, "flush", 0, w.d.lba, 0))} :
                         w \in ata_wait_bsy(d)}

WriteSector(p, w) ==
    IF w.r # "OK"
    THEN Polled(w) /\ PioReturn(p, gate, w.d, w.r, p.got)
    ELSE LET sec == p.req.lba + Len(p.got)
             got == Append(p.got, Marked(sec))
             last == Len(got) = p.req.sectors
         IN  \E v \in WriteOutcomes(DataOut(w.d, Marked(sec)), last) :
                /\ faults + w.f + v.f <= MaxFaults
                /\ faults' = faults + w.f + v.f
                /\ late' = (late \/ w.late \/ v.late)
                /\ IF last THEN PioReturn(p, gate, v.d, "OK", got)
                   ELSE /\ pio' = [p EXCEPT !.got = got]
                        /\ dev' = v.d
                        /\ UNCHANGED <<gate, done>>

ata_write_pio ==
    /\ pio.pc = "sector" /\ pio.req.kind = "write"
    /\ \E w \in ata_wait_drq(WriteCommand(dev, pio)) : WriteSector(pio, w)
    /\ UNCHANGED <<mode, present, lba48, enq, ops, next, queue, panic>>

-----------------------------------------------------------------------------
(* Asynchronous transfers *)

\* A snapshot of what the queue code changes: every outcome of a routine is one.
Outcome(q, d, os, dn, f, l) ==
    [queue |-> q, dev |-> d, ops |-> os, done |-> dn, f |-> f, late |-> l]

\* Slip: the head stays in the queue.
Dequeued_kept(q) == [q EXCEPT !.active = q.head]

\* The head leaves the queue and becomes the active operation.
Dequeued(q) ==
    [head   |-> next[q.head],
     tail   |-> IF next[q.head] = NoOp THEN NoOp ELSE q.tail,
     active |-> q.head]

\* A write follows its command with the first sector, whatever the poll says.
Issued(o, d) ==
    IF o.req.kind = "read" THEN {[d |-> d, f |-> 0, late |-> FALSE]}
    ELSE {[d |-> DataOut(v.d, Marked(o.req.lba)), f |-> v.f, late |-> v.late] :
              v \in ata_wait_drq(d)}

\* ata_start_next_async_op, from any outcome s so far.
ata_start_next_async_op(s) ==
    IF s.queue.active # NoOp \/ s.queue.head = NoOp THEN {s}
    ELSE LET o == ops[s.queue.head]
         IN  UNION {{Outcome(Dequeued(s.queue), v.d, s.ops, s.done,
                             s.f + w.f + v.f, s.late \/ w.late \/ v.late) :
                         v \in Issued(o, Start(w.d, o.req, o.ext))} :
                             w \in ata_wait_bsy(s.dev)}

Here == Outcome(queue, dev, ops, done, 0, FALSE)

Take(s) ==
    /\ faults + s.f <= MaxFaults
    /\ queue' = s.queue /\ dev' = s.dev /\ ops' = s.ops /\ done' = s.done
    /\ faults' = faults + s.f /\ late' = (late \/ s.late)

AsyncRefusal(r) ==
    CASE mode = "off"     -> "NOT_INIT"
      [] r.sectors = 0    -> "INVALID_PARAM"
      [] mode # "async"   -> "UNSUPPORTED"
      [] OTHER            -> "OK"

\* ata_read_async and ata_write_async up to the test of the tail.  The
\* allocation may fail.
ata_async(r) ==
    /\ ThreadIdle /\ Calls < MaxRequests
    /\ \/ /\ AsyncRefusal(r) # "OK"
          /\ done' = Append(done, Finished(r, AsyncRefusal(r), << >>, NoOp))
          /\ UNCHANGED <<ops, next, enq>>
       \/ /\ AsyncRefusal(r) = "OK"
          /\ done' = Append(done, Finished(r, "IO_ERROR", << >>, NoOp))
          /\ UNCHANGED <<ops, next, enq>>
       \/ /\ AsyncRefusal(r) = "OK"
          /\ ops' = Append(ops, [req |-> r, ext |-> UseLba48(r), count |-> 0,
                                 got |-> << >>])
          /\ next' = Append(next, NoOp)
          /\ enq' = [pc |-> IF queue.tail = NoOp THEN "head" ELSE "link",
                     op |-> Len(ops) + 1]
          /\ UNCHANGED done
    /\ UNCHANGED <<mode, present, lba48, gate, dev, pio, queue, late, faults, panic>>

\* The queue looked empty: head, then tail, then start if nothing is active.
EnqueueFirst ==
    /\ \/ /\ enq.pc = "head"
          /\ queue' = [queue EXCEPT !.head = enq.op]
          /\ enq' = [enq EXCEPT !.pc = "tail"]
          /\ UNCHANGED <<dev, ops, done, faults, late>>
       \/ /\ enq.pc = "tail"
          /\ queue' = [queue EXCEPT !.tail = enq.op]
          /\ enq' = [enq EXCEPT !.pc = "start"]
          /\ UNCHANGED <<dev, ops, done, faults, late>>
       \/ /\ enq.pc = "start"
          /\ \E s \in ata_start_next_async_op(Here) : Take(s)
          /\ enq' = NoCall
    /\ UNCHANGED <<mode, present, lba48, gate, pio, next, panic>>

\* The queue had a tail: link behind it, then move the tail.
EnqueueBehind ==
    /\ \/ /\ enq.pc = "link"
          /\ IF queue.tail = NoOp
             THEN panic' = TRUE /\ UNCHANGED <<next, enq>>
             ELSE /\ next' = [next EXCEPT ![queue.tail] = enq.op]
                  /\ enq' = [enq EXCEPT !.pc = "move"]
                  /\ UNCHANGED panic
          /\ UNCHANGED queue
       \/ /\ enq.pc = "move"
          /\ queue' = [queue EXCEPT !.tail = enq.op]
          /\ enq' = NoCall
          /\ UNCHANGED <<next, panic>>
    /\ ~panic
    /\ UNCHANGED <<mode, present, lba48, gate, dev, pio, ops, done, late, faults>>

-----------------------------------------------------------------------------
(* The interrupt handler *)

\* ata_complete_async_op: the callback runs, the operation is freed and the
\* caller clears the active pointer.
ata_complete_async_op(s, result) ==
    [s EXCEPT !.queue.active = NoOp,
              !.done = Append(@, Finished(s.ops[s.queue.active].req, result,
                                          s.ops[s.queue.active].got,
                                          s.queue.active))]

OnError(s) ==
    ata_start_next_async_op(
        IF s.queue.active = NoOp THEN s ELSE ata_complete_async_op(s, "IO_ERROR"))

OnRead(s, n) ==
    LET t == [s EXCEPT !.ops[n].got = Append(@, s.dev.disk[s.dev.lba]),
                       !.dev = DataIn(@)]
    IN  IF Len(t.ops[n].got) >= t.ops[n].req.sectors
        THEN ata_start_next_async_op(ata_complete_async_op(t, "OK"))
        ELSE {t}

OnWrite(s, n) ==
    LET t == [s EXCEPT !.ops[n].count = @ + 1]
        o == t.ops[n]
    IN  IF o.count >= o.req.sectors
        THEN UNION {ata_start_next_async_op(
                        ata_complete_async_op([t EXCEPT !.dev = w.d, !.f = w.f,
                                                        !.late = w.late], "OK")) :
                    w \in ata_wait_bsy(Command(t.dev, "flush", o.req.drive, 0, 0))}
        ELSE {[t EXCEPT !.dev = DataOut(@, Marked(o.req.lba + o.count))]}

\* Everything ata_irq_handler can do once it has read the status.
Handled(s) ==
    CASE s.dev.st # "drq" /\ ~s.dev.err -> {s}
      [] s.dev.err                      -> OnError(s)
      [] s.queue.active = NoOp          -> {s}
      [] s.ops[s.queue.active].req.kind = "read" -> OnRead(s, s.queue.active)
      [] OTHER                          -> OnWrite(s, s.queue.active)

ata_irq_handler ==
    /\ mode = "async" /\ dev.intrq /\ ~dev.nien /\ ~gate.masked /\ ~panic
    /\ \E s \in Handled([Here EXCEPT !.dev = StatusRead(@)]) : Take(s)
    /\ UNCHANGED <<mode, present, lba48, gate, pio, enq, next, panic>>

AtaNext ==
    \/ DeviceStep
    \/ \E async \in BOOLEAN : ata_init_ex(async)
    \/ ata_init_async_mode
    \/ interrupt_finalize
    \/ \E r \in Requests : ata_transfer(r)
    \/ ata_read_pio
    \/ ata_write_pio
    \/ \E r \in Requests : ata_async(r)
    \/ EnqueueFirst
    \/ EnqueueBehind
    \/ ata_irq_handler

AtaSpec == AtaInit /\ [][AtaNext]_ataVars

-----------------------------------------------------------------------------
(* Properties *)

\* A polled transfer runs with the line masked and the device's interrupt
\* off, and every way out of it opens both again: once asynchronous transfers
\* are up, the handler can always run between polled ones.
InterruptGate ==
    /\ pio.pc = "sector" => gate.masked /\ ~gate.enabled /\ (pio.wasOn => dev.nien)
    /\ pio.pc = "none" /\ mode = "async" =>
           ~gate.masked /\ gate.enabled /\ ~dev.nien

\* A read that ends in ATA_OK, polled or asynchronous, holds the sectors asked
\* for in their order, as long as no polling loop has given up on a device
\* that was still working, the device has failed no write (the driver does not
\* look) and the address fits what the drive supports.
ReadsExact ==
    ~late /\ ~dev.lost => \A i \in 1 .. Len(done) :
        LET r == done[i].req
        IN  (done[i].result = "OK" /\ r.kind = "read"
               /\ (r.lba < LbaMax \/ UseLba48(r)))
            => /\ Len(done[i].got) = r.sectors
               /\ \A k \in 1 .. r.sectors :
                      done[i].got[k] \in {r.lba + k - 1, Marked(r.lba + k - 1)}

\* Asynchronous operations complete at most once each and in the order they
\* were accepted, whatever the handler and the enqueueing thread interleave.
CompletedInOrder ==
    \A i, j \in 1 .. Len(done) :
        i < j /\ done[i].op # NoOp /\ done[j].op # NoOp => done[i].op < done[j].op
=============================================================================
