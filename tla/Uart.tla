-------------------------------- MODULE Uart --------------------------------
(***************************************************************************)
(* The interrupt-driven UART driver (kernel/driver/serial/serial_intr.c),  *)
(* the 16550 it drives and the interrupt line between them.  One thread    *)
(* calls async_serial_putc, uart_getchar and uart_try_getchar (the serial  *)
(* shell is the only user); uart_irq_handler runs with interrupts disabled *)
(* and is one step, taken between any two steps of the thread.  A section  *)
(* of the thread between cli and sti is one step; the code of              *)
(* async_serial_putc after sti is as many steps as it has accesses to      *)
(* shared state.                                                           *)
(*                                                                         *)
(* The characters are numbers: the n-th character printed and the n-th     *)
(* character that arrives on the line are both n; 0 is the content of a    *)
(* slot nobody has written.                                                *)
(***************************************************************************)
EXTENDS Integers, Sequences

CONSTANTS
  TxSize,       \* UART_TX_BUFFER_SIZE
  RxSize,       \* UART_RX_BUFFER_SIZE
  FifoDepth,    \* depth of the 16550's own FIFOs
  Loads         \* bounds: how many characters are printed, how many arrive, and
                \* how many framing, parity or break conditions occur

ASSUME UartAssumption ==
  /\ TxSize \in Nat \ {0, 1} /\ RxSize \in Nat \ {0, 1}
  /\ FifoDepth \in Nat \ {0}
  /\ Loads \subseteq [print : Nat, receive : Nat, errors : Nat]

Tx == INSTANCE RingBuffer WITH Size <- TxSize
Rx == INSTANCE RingBuffer WITH Size <- RxSize

VARIABLES
  load,       \* the bounds of this behaviour, one of Loads
  tx_buffer, rx_buffer, uart_intr_mode_initialized,
  ier,        \* interrupt enable register: a subset of {"RX", "TX", "LS"}
  thr,        \* characters in the transmit FIFO; THRE is set when it is empty
  thri,       \* the "transmitter empty" condition is latched
  rfifo,      \* characters in the receive FIFO
  lsre,       \* a receiver error is latched in the line status register
  irr,        \* IRQ 4 is latched in the (edge-triggered) PIC
  pc,         \* where the thread is
  cur,        \* the character async_serial_putc was called with
  sel,        \* its local copy of the character it takes from the ring
  tl,         \* the value of tail it has loaded inside ring_tx_read
  base,       \* how many characters were printed before the driver started
  sent,       \* the characters that left on the line
  arrived,    \* how many characters arrived
  errors,     \* how many line errors occurred
  lastReceived        \* what the latest successful read returned

sw == << tx_buffer, rx_buffer, uart_intr_mode_initialized >>
dev == << ier, thr, thri, rfifo, lsre >>
thread == << pc, cur, sel, tl, lastReceived >>
env == << load, base, sent, arrived, errors >>
uartVars == << sw, dev, irr, thread, env >>

ToPrint == load.print
ToReceive == load.receive
LineErrors == load.errors

PutcPcs == {"putc", "enqueue", "lsr", "rd_char", "rd_tail", "wr_tail", "out", "recheck",
            "enable"}

UartInit ==
  /\ load \in Loads
  /\ tx_buffer = Tx!ring_init(0) /\ rx_buffer = Rx!ring_init(0)
  /\ uart_intr_mode_initialized = FALSE
  /\ ier = {} /\ thr = << >> /\ thri = FALSE /\ rfifo = << >> /\ lsre = FALSE
  /\ irr = FALSE
  /\ pc = "idle" /\ cur = 0 /\ sel = 0 /\ tl = 0 /\ lastReceived = 0
  /\ base = 0 /\ sent = << >> /\ arrived = 0 /\ errors = 0

-----------------------------------------------------------------------------
(* The device.  Its interrupt output is the disjunction of the enabled     *)
(* conditions; the PIC, programmed by pic_init with ICW1 = 0x11, latches   *)
(* only a rising edge of it.                                               *)
Intr(e, ti, rf, le) == \/ "LS" \in e /\ le
                       \/ "RX" \in e /\ rf # << >>
                       \/ "TX" \in e /\ ti

Edge == irr' = (irr \/ (Intr(ier', thri', rfifo', lsre')
                         /\ ~Intr(ier, thri, rfifo, lsre)))

(* A write to the data register; a character that does not fit is lost.    *)
WriteThr(c) ==
  /\ thr' = IF Len(thr) < FifoDepth THEN Append(thr, c) ELSE thr
  /\ thri' = FALSE

(* Setting the TX bit while the transmitter is empty raises the condition. *)
EnableTx ==
  /\ ier' = ier \cup {"TX"}
  /\ thri' = (thri \/ ("TX" \notin ier /\ thr = << >>))

Transmit ==
  /\ thr # << >>
  /\ sent' = Append(sent, Head(thr))
  /\ thr' = Tail(thr)
  /\ thri' = (thri \/ Tail(thr) = << >>)
  /\ UNCHANGED << sw, ier, rfifo, lsre, thread, load, base, arrived, errors >>
  /\ Edge

(* A character arrives; if the FIFO is full it is lost and the overrun is  *)
(* an error condition.                                                     *)
Receive ==
  /\ arrived < ToReceive
  /\ arrived' = arrived + 1
  /\ rfifo' = IF Len(rfifo) < FifoDepth THEN Append(rfifo, arrived') ELSE rfifo
  /\ lsre' = (lsre \/ Len(rfifo) = FifoDepth)
  /\ UNCHANGED << sw, ier, thr, thri, thread, load, base, sent, errors >>
  /\ Edge

LineError ==
  /\ errors < LineErrors
  /\ errors' = errors + 1
  /\ lsre' = TRUE
  /\ UNCHANGED << sw, ier, thr, thri, rfifo, thread, load, base, sent, arrived >>
  /\ Edge

-----------------------------------------------------------------------------
(* uart_init_intr_mode drains the data and line status registers, clears   *)
(* both FIFOs, registers the handler and enables the receive interrupts.   *)
uart_init_intr_mode ==
  /\ pc = "idle" /\ ~uart_intr_mode_initialized
  /\ uart_intr_mode_initialized' = TRUE
  /\ thr' = << >> /\ thri' = TRUE /\ rfifo' = << >> /\ lsre' = FALSE
  /\ ier' = {"RX", "LS"}
  /\ irr' = FALSE
  /\ base' = cur
  /\ UNCHANGED << tx_buffer, rx_buffer, thread, load, sent, arrived, errors >>

(* The receive loop of the handler: every character of the FIFO is read    *)
(* and stored unless the ring is full.                                     *)
StoreAll(rb, cs) ==
  LET store[n \in 0 .. Len(cs)] ==
        IF n = 0 THEN rb
        ELSE IF Rx!ring_is_full(store[n - 1]) THEN store[n - 1]
        ELSE Rx!ring_write(store[n - 1], cs[n])
  IN  store[Len(cs)]

HandleLineStatus ==
  /\ "LS" \in ier /\ lsre
  /\ lsre' = FALSE
  /\ UNCHANGED << sw, ier, thr, thri, rfifo >>

(* SERIAL_IIR_RX_READY and the character timeout run the same loop, whose  *)
(* reads of the line status register also clear a latched error.           *)
HandleReceive ==
  /\ ~("LS" \in ier /\ lsre)
  /\ "RX" \in ier /\ rfifo # << >>
  /\ rx_buffer' = StoreAll(rx_buffer, rfifo)
  /\ rfifo' = << >> /\ lsre' = FALSE
  /\ UNCHANGED << tx_buffer, uart_intr_mode_initialized, ier, thr, thri >>

HandleTxEmpty_inverted ==  \* a slip: the test of the ring negated
  /\ "TX" \in ier /\ thri
  /\ IF Tx!ring_is_empty(tx_buffer)
     THEN /\ WriteThr(Tx!ring_peek(tx_buffer))
          /\ tx_buffer' = Tx!ring_advance(tx_buffer)
          /\ UNCHANGED ier
     ELSE /\ ier' = ier \ {"TX"} /\ thri' = FALSE
          /\ UNCHANGED << tx_buffer, thr >>
  /\ UNCHANGED << rx_buffer, uart_intr_mode_initialized, rfifo, lsre >>

HandleTxEmpty ==
  /\ ~("LS" \in ier /\ lsre) /\ ~("RX" \in ier /\ rfifo # << >>)
  /\ "TX" \in ier /\ thri
  /\ IF ~Tx!ring_is_empty(tx_buffer)
     THEN /\ WriteThr(Tx!ring_peek(tx_buffer))
          /\ tx_buffer' = Tx!ring_advance(tx_buffer)
          /\ UNCHANGED ier
     ELSE /\ ier' = ier \ {"TX"} /\ thri' = FALSE
          /\ UNCHANGED << tx_buffer, thr >>
  /\ UNCHANGED << rx_buffer, uart_intr_mode_initialized, rfifo, lsre >>

(* IIR says that no condition is pending.                                  *)
HandleSpurious ==
  /\ ~Intr(ier, thri, rfifo, lsre)
  /\ UNCHANGED << sw, dev >>

(* One interrupt serves one condition, the one of highest priority that    *)
(* the IIR reports.                                                        *)
uart_irq_handler ==
  /\ irr
  /\ uart_intr_mode_initialized
  /\ irr' = FALSE
  /\ \/ HandleLineStatus \/ HandleReceive \/ HandleTxEmpty \/ HandleSpurious
  /\ UNCHANGED << thread, env >>

-----------------------------------------------------------------------------
(* async_serial_putc.  Goto(l) moves the thread on and leaves the rest of  *)
(* its locals alone.                                                       *)
Goto(l) == pc' = l /\ UNCHANGED << cur, sel, tl, lastReceived >>

async_serial_putc ==
  /\ pc = "idle" /\ cur < ToPrint
  /\ cur' = cur + 1
  /\ pc' = IF uart_intr_mode_initialized THEN "putc" ELSE "sync"
  /\ UNCHANGED << sw, dev, irr, sel, tl, lastReceived, env >>

(* Before uart_init_intr_mode: wait for THRE and write the character.      *)
PutcSync ==
  /\ pc = "sync" /\ thr = << >>
  /\ WriteThr(cur)
  /\ Goto("idle")
  /\ UNCHANGED << sw, ier, rfifo, lsre, env >>
  /\ Edge

(* The loop found space.  Its turns before that change nothing: the kick   *)
(* they would give never finds the interrupt disabled (OutputArmed).       *)
PutcSpace_unguarded ==     \* a slip: the wait for space forgotten
  /\ pc = "putc"
  /\ Goto("enqueue")
  /\ UNCHANGED << sw, dev, irr, env >>

PutcSpace ==
  /\ pc = "putc" /\ ~Tx!ring_is_full(tx_buffer)
  /\ Goto("enqueue")
  /\ UNCHANGED << sw, dev, irr, env >>

(* cli; was_empty = ring_tx_is_empty(); ring_tx_write(c); sti              *)
PutcEnqueue ==
  /\ pc = "enqueue"
  /\ tx_buffer' = Tx!ring_write(tx_buffer, cur)
  /\ Goto(IF Tx!ring_is_empty(tx_buffer) THEN "lsr" ELSE "idle")
  /\ UNCHANGED << rx_buffer, uart_intr_mode_initialized, dev, irr, env >>

(* The read of the line status register also clears a latched error.       *)
PutcLsr ==
  /\ pc = "lsr"
  /\ lsre' = FALSE
  /\ Goto(IF thr = << >> THEN "rd_char" ELSE "enable")
  /\ UNCHANGED << sw, ier, thr, thri, rfifo, env >>
  /\ Edge

(* ring_tx_read, with interrupts enabled: load the character, load tail,   *)
(* store the incremented tail.                                             *)
PutcReadChar ==
  /\ pc = "rd_char"
  /\ sel' = Tx!ring_peek(tx_buffer)
  /\ pc' = "rd_tail"
  /\ UNCHANGED << sw, dev, irr, cur, tl, lastReceived, env >>

PutcReadTail ==
  /\ pc = "rd_tail"
  /\ tl' = tx_buffer.tail
  /\ pc' = "wr_tail"
  /\ UNCHANGED << sw, dev, irr, cur, sel, lastReceived, env >>

PutcWriteTail ==
  /\ pc = "wr_tail"
  /\ tx_buffer' = [tx_buffer EXCEPT !.tail = (tl + 1) % TxSize]
  /\ Goto("out")
  /\ UNCHANGED << rx_buffer, uart_intr_mode_initialized, dev, irr, env >>

PutcOut ==
  /\ pc = "out"
  /\ WriteThr(sel)
  /\ Goto("recheck")
  /\ UNCHANGED << sw, ier, rfifo, lsre, env >>
  /\ Edge

PutcRecheck ==
  /\ pc = "recheck"
  /\ Goto(IF Tx!ring_is_empty(tx_buffer) THEN "idle" ELSE "enable")
  /\ UNCHANGED << sw, dev, irr, env >>

PutcEnable ==
  /\ pc = "enable"
  /\ EnableTx
  /\ Goto("idle")
  /\ UNCHANGED << sw, thr, rfifo, lsre, env >>
  /\ Edge

-----------------------------------------------------------------------------
(* uart_getchar spins until the receive ring is not empty; uart_try_getchar*)
(* returns at once when it is empty.  Both then read under cli.            *)
uart_getchar ==
  /\ pc = "idle" /\ uart_intr_mode_initialized
  /\ Goto("getc")
  /\ UNCHANGED << sw, dev, irr, env >>

GetcSee ==
  /\ pc = "getc" /\ ~Rx!ring_is_empty(rx_buffer)
  /\ Goto("read")
  /\ UNCHANGED << sw, dev, irr, env >>

uart_try_getchar ==
  /\ pc = "idle" /\ ~Rx!ring_is_empty(rx_buffer)
  /\ Goto("read")
  /\ UNCHANGED << sw, dev, irr, env >>

TakeReceived ==
  /\ pc = "read"
  /\ lastReceived' = Rx!ring_peek(rx_buffer)
  /\ rx_buffer' = Rx!ring_advance(rx_buffer)
  /\ pc' = "idle"
  /\ UNCHANGED << tx_buffer, uart_intr_mode_initialized, dev, irr, cur, sel, tl,
                  env >>

-----------------------------------------------------------------------------
Putc == \/ PutcSync \/ PutcSpace \/ PutcEnqueue \/ PutcLsr
        \/ PutcReadChar \/ PutcReadTail \/ PutcWriteTail \/ PutcOut
        \/ PutcRecheck \/ PutcEnable

UartNext ==
  \/ Transmit \/ Receive \/ LineError
  \/ uart_init_intr_mode \/ uart_irq_handler
  \/ async_serial_putc \/ Putc
  \/ uart_getchar \/ GetcSee \/ uart_try_getchar \/ TakeReceived

(* The transmitter drains its FIFO, the CPU takes a latched interrupt, and *)
(* the thread executes the call it is in.  Nobody has to call, and nothing *)
(* has to arrive.                                                          *)
UartFairness ==
  /\ WF_uartVars(Transmit) /\ WF_uartVars(uart_irq_handler)
  /\ WF_uartVars(Putc) /\ WF_uartVars(GetcSee) /\ WF_uartVars(TakeReceived)

UartSpec == UartInit /\ [][UartNext]_uartVars /\ UartFairness

-----------------------------------------------------------------------------
(* Characters are received in order, each once, and the receive ring is    *)
(* not read when it is empty, though it is tested before the read's cli:   *)
(* the receive side of the driver implements the bounded FIFO of CharFifo. *)
RxFifo == INSTANCE CharFifo WITH
            Chars <- UNION {1 .. l.receive : l \in Loads}, Capacity <- RxSize - 1,
            unread <- Rx!Contents(rx_buffer),
            last <- IF lastReceived = 0 THEN << >> ELSE << lastReceived >>

ReceiverImplementsFifo == RxFifo!FifoSpec

(* Whatever the interleaving of async_serial_putc with the handler, every  *)
(* character given to it since the driver started is on the line, in the   *)
(* device, in the hands of the thread or still in the ring, and those that *)
(* left went out after the ones printed before them.                       *)
Pipeline == sent \o thr \o (IF pc = "out" THEN << sel >> ELSE << >>)
                 \o Tx!Contents(tx_buffer)

Enqueued == IF pc \in {"sync", "putc", "enqueue"} THEN cur - 1 ELSE cur

Occurrences(n) == {i \in 1 .. Len(Pipeline) : Pipeline[i] = n}

NothingLost ==
  /\ \A n \in base + 1 .. Enqueued : Occurrences(n) # {}
  /\ \A m, n \in base + 1 .. Enqueued :
        m < n => \E i \in Occurrences(m), j \in Occurrences(n) : i < j

(* Between calls and in the loop that waits for space, the transmitter     *)
(* interrupt is enabled while the ring holds characters: the handler, which *)
(* disables it when it sees an empty ring, never leaves a call's characters *)
(* behind, and the loop's kick is never needed.                            *)
OutputArmed ==
  pc \in {"idle", "putc"} /\ ~Tx!ring_is_empty(tx_buffer) => "TX" \in ier

(* What is printed is neither lost nor left behind.                        *)
OutputKept == NothingLost /\ OutputArmed

(* The ring buffers are documented as interrupt-safe: a character is       *)
(* transmitted once and nothing else is transmitted.                       *)
TransmittedOnce == \A i, j \in 1 .. Len(sent) : i < j => sent[i] < sent[j]

(* async_serial_putc returns: a full ring drains and the wait for space,   *)
(* which kicks a stalled transmission, ends.  (While nothing is received:  *)
(* a receive interrupt at the wrong moment stops the transmitter.)         *)
PutcReturns == load.receive = 0 => (pc \in PutcPcs ~> pc = "idle")

(* All that was printed is eventually on the line, while nothing arrives.  *)
OutputDrains == load.receive = 0 => []<>(thr = << >> /\ Tx!ring_is_empty(tx_buffer))

(* A thread blocked in uart_getchar gets a character that has arrived,     *)
(* while there is no output, no line error and no overrun of the FIFO.     *)
ReceiverReturns ==
  load.print = 0 /\ load.errors = 0 /\ load.receive <= FifoDepth
      => (pc = "getc" /\ rfifo # << >> ~> pc = "idle")
=============================================================================
