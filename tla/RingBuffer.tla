----------------------------- MODULE RingBuffer -----------------------------
(***************************************************************************)
(* The ring buffer that the keyboard driver and the two directions of the  *)
(* interrupt-driven UART driver each define for themselves (prefixes       *)
(* ring_kb, ring_tx and ring_rx).  The three copies differ only in the     *)
(* size of the buffer, which is the parameter here.  One slot stays        *)
(* unused: the ring is empty when head = tail and full when head is just   *)
(* behind tail.                                                            *)
(***************************************************************************)
EXTENDS Integers, Sequences

CONSTANT Size        \* KEYBOARD_BUFFER_SIZE, UART_TX_BUFFER_SIZE, ...

ASSUME SizeAssumption == Size \in Nat \ {0, 1}

Indices == 0 .. Size - 1

(* The buffers are zero-initialised.                                       *)
ring_init(c0) == [buffer |-> [i \in Indices |-> c0], head |-> 0, tail |-> 0]

ring_is_empty(rb) == rb.head = rb.tail

(* Slip: the wrap-around forgotten. *)
ring_is_full_no_wrap(rb) == rb.head + 1 = rb.tail

ring_is_full(rb) == (rb.head + 1) % Size = rb.tail

ring_write(rb, c) ==
  [rb EXCEPT !.buffer[rb.head] = c, !.head = (rb.head + 1) % Size]

(* ring_read returns ring_peek and leaves the ring ring_advance.           *)
ring_peek(rb) == rb.buffer[rb.tail]

ring_advance(rb) == [rb EXCEPT !.tail = (rb.tail + 1) % Size]

(* The abstract value of a ring: the unread characters, oldest first.      *)
Used(rb) ==
  IF rb.tail <= rb.head THEN rb.head - rb.tail
                        ELSE rb.head - rb.tail + Size

Contents(rb) == [i \in 1 .. Used(rb) |-> rb.buffer[(rb.tail + i - 1) % Size]]
=============================================================================
