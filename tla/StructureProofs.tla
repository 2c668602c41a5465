-------------------------- MODULE StructureProofs ---------------------------
(***************************************************************************)
(* What the kernel's shared structures keep, whatever their size.  The     *)
(* keyboard driver implements the bounded FIFO of CharFifo for a ring of   *)
(* any size and any set of keys, however the interrupt handler and the     *)
(* reader interleave, and its Shift flag follows the keys; the pointer     *)
(* operations of the kernel's lists keep them linked; the semaphore and    *)
(* the reader-writer lock keep their counts for any set of tasks.          *)
(***************************************************************************)
EXTENDS Keyboard, LinkedList, Semaphore, RwLock, TLAPS

\* Leaves go to Zenon unless they name another prover.
USE ZenonT(60)

-----------------------------------------------------------------------------
(* The ring.                                                               *)

IsRing(rb, V) ==
    /\ rb = [buffer |-> rb.buffer, head |-> rb.head, tail |-> rb.tail]
    /\ rb.buffer \in [Indices -> V]
    /\ rb.head \in Indices /\ rb.tail \in Indices

(* An index plus a step wraps at most once. *)
Wrap(x) == IF x < Size THEN x ELSE x - Size

(* An index less than two rounds along wraps by one subtraction. *)
LEMMA ModWraps ==
    ASSUME NEW x \in 0 .. 2 * Size - 1
    PROVE  x % Size = Wrap(x)
<1>1. CASE x < Size
  BY SMTT(60), <1>1, SizeAssumption DEF Wrap
<1>2. CASE x >= Size
  BY SMTT(60), <1>2, SizeAssumption DEF Wrap
<1> QED
  BY SMTT(60), <1>1, <1>2, SizeAssumption

(* The index that ring_write and ring_advance step to. *)
LEMMA NextWraps == ASSUME NEW j \in Indices PROVE (j + 1) % Size = Wrap(j + 1)
<1>1. j + 1 \in 0 .. 2 * Size - 1
  BY SMTT(60), SizeAssumption DEF Indices
<1>2. \A x \in 0 .. 2 * Size - 1 : x % Size = Wrap(x)
  BY ModWraps
<1> QED
  BY <1>1, <1>2

(* The slot of the i-th unread character. *)
LEMMA SlotWraps ==
    ASSUME NEW j \in Indices, NEW i \in 1 .. Size
    PROVE  (j + i - 1) % Size = Wrap(j + i - 1)
<1>1. j + i - 1 \in 0 .. 2 * Size - 1
  BY SMTT(60), SizeAssumption DEF Indices
<1>2. \A x \in 0 .. 2 * Size - 1 : x % Size = Wrap(x)
  BY ModWraps
<1> QED
  BY <1>1, <1>2

(* One slot stays free: the tests for empty and full tell the two apart. *)
LEMMA UsedBounds ==
    ASSUME NEW V, NEW rb, IsRing(rb, V)
    PROVE  /\ Used(rb) \in 0 .. Size - 1
           /\ ring_is_empty(rb) <=> Used(rb) = 0
           /\ ring_is_full(rb) <=> Used(rb) = Size - 1
<1>1. (rb.head + 1) % Size = Wrap(rb.head + 1)
  BY NextWraps DEF IsRing
<1>2. rb.head \in 0 .. Size - 1 /\ rb.tail \in 0 .. Size - 1
  BY DEF IsRing, Indices
<1>3. ring_is_full(rb) <=> Wrap(rb.head + 1) = rb.tail
  BY <1>1 DEF ring_is_full
<1> QED
  BY SMTT(60), <1>2, <1>3, SizeAssumption DEF Used, ring_is_empty, Wrap

(* The slot of the i-th unread character. *)
Slot(rb, i) == Wrap(rb.tail + i - 1)

(* The unread characters lie in the slots from tail on, none of them at    *)
(* head.                                                                   *)
LEMMA ContentsSlots ==
    ASSUME NEW V, NEW rb, IsRing(rb, V)
    PROVE  /\ Contents(rb) = [i \in 1 .. Used(rb) |-> rb.buffer[Slot(rb, i)]]
           /\ \A i \in 1 .. Used(rb) : Slot(rb, i) \in Indices /\ Slot(rb, i) # rb.head
           /\ Contents(rb) \in Seq(V) /\ Len(Contents(rb)) = Used(rb)
<1>1. Used(rb) \in 0 .. Size - 1
  BY UsedBounds
<1>2. rb.head \in 0 .. Size - 1 /\ rb.tail \in 0 .. Size - 1
  BY DEF IsRing, Indices
<1>3. ASSUME NEW i \in 1 .. Used(rb)
      PROVE  /\ (rb.tail + i - 1) % Size = Slot(rb, i)
             /\ Slot(rb, i) \in Indices /\ Slot(rb, i) # rb.head
  <2>1. rb.tail \in Indices /\ i \in 1 .. Size
    BY SMTT(60), <1>1, <1>2, SizeAssumption DEF Indices
  <2>2. (rb.tail + i - 1) % Size = Slot(rb, i)
    BY <2>1, SlotWraps DEF Slot
  <2>3. Slot(rb, i) \in Indices /\ Slot(rb, i) # rb.head
    BY SMTT(60), <1>1, <1>2, SizeAssumption DEF Slot, Wrap, Indices, Used
  <2> QED
    BY <2>2, <2>3
<1>4. Contents(rb) = [i \in 1 .. Used(rb) |-> rb.buffer[Slot(rb, i)]]
  BY <1>3 DEF Contents
<1>5. \A i \in 1 .. Used(rb) : rb.buffer[Slot(rb, i)] \in V
  BY <1>3 DEF IsRing
<1> QED
  BY SMTT(60), <1>1, <1>3, <1>4, <1>5

(* ring_write to a ring that is not full appends a character. *)
LEMMA WriteAppends ==
    ASSUME NEW V, NEW rb, IsRing(rb, V), ~ring_is_full(rb), NEW c \in V
    PROVE  /\ IsRing(ring_write(rb, c), V)
           /\ Contents(ring_write(rb, c)) = Contents(rb) \o << c >>
<1> DEFINE new == ring_write(rb, c)
           ahead == Wrap(rb.head + 1)
<1>1. rb.head \in 0 .. Size - 1 /\ rb.tail \in 0 .. Size - 1
  BY DEF IsRing, Indices
<1>2. (rb.head + 1) % Size = ahead
  BY NextWraps DEF IsRing
<1>3. new = [buffer |-> [rb.buffer EXCEPT ![rb.head] = c], head |-> ahead, tail |-> rb.tail]
  <2> DEFINE h == (rb.head + 1) % Size
  <2>1. new = [rb EXCEPT !.buffer[rb.head] = c, !.head = h]
    BY DEF ring_write
  <2> HIDE DEF h
  <2>2. new = [buffer |-> [rb.buffer EXCEPT ![rb.head] = c], head |-> h, tail |-> rb.tail]
    BY <2>1 DEF IsRing
  <2> QED
    BY <1>2, <2>2 DEF h
<1>4. /\ new.buffer = [rb.buffer EXCEPT ![rb.head] = c]
      /\ new.head = ahead /\ new.tail = rb.tail
  BY SMTT(60), <1>3
<1>5. ahead \in Indices
  BY SMTT(60), <1>1, SizeAssumption DEF Indices, Wrap
<1>6. IsRing(new, V)
  BY <1>3, <1>4, <1>5 DEF IsRing
<1>7. Used(new) = Used(rb) + 1 /\ Used(rb) \in 0 .. Size - 1
  <2>1. Used(rb) # Size - 1 /\ Used(rb) \in 0 .. Size - 1
    BY UsedBounds
  <2> QED
    BY SMTT(60), <1>1, <1>4, <2>1, SizeAssumption DEF Used, Wrap
<1>8. Slot(new, Used(rb) + 1) = rb.head
  BY SMTT(60), <1>1, <1>4, SizeAssumption DEF Slot, Wrap, Used
<1>9. \A i \in 1 .. Used(rb) : Slot(new, i) = Slot(rb, i)
  BY <1>4 DEF Slot
<1>10. \A i \in 1 .. Used(rb) : new.buffer[Slot(new, i)] = rb.buffer[Slot(rb, i)]
  <2> SUFFICES ASSUME NEW i \in 1 .. Used(rb)
               PROVE  new.buffer[Slot(new, i)] = rb.buffer[Slot(rb, i)]
    OBVIOUS
  <2>1. Slot(rb, i) \in Indices /\ Slot(rb, i) # rb.head
    BY ContentsSlots
  <2>2. [rb.buffer EXCEPT ![rb.head] = c][Slot(rb, i)] = rb.buffer[Slot(rb, i)]
    BY <2>1 DEF IsRing
  <2> QED
    BY <1>4, <1>9, <2>2
<1>11. new.buffer[Slot(new, Used(rb) + 1)] = c
  BY <1>4, <1>8 DEF IsRing
<1>12. Contents(new) = [i \in 1 .. Used(rb) + 1 |-> new.buffer[Slot(new, i)]]
  BY <1>6, <1>7, ContentsSlots
<1>13. /\ Contents(rb) = [i \in 1 .. Used(rb) |-> rb.buffer[Slot(rb, i)]]
       /\ Len(Contents(rb)) = Used(rb) /\ Contents(rb) \in Seq(V)
  BY ContentsSlots
<1> HIDE DEF new
<1>14. Contents(new) = Contents(rb) \o << c >>
  <2>1. Contents(rb) \o << c >>
          = [i \in 1 .. Used(rb) + 1 |-> IF i <= Used(rb) THEN Contents(rb)[i] ELSE c]
    BY SMTT(60), <1>7, <1>13
  <2>2. \A i \in 1 .. Used(rb) + 1 :
            new.buffer[Slot(new, i)] = IF i <= Used(rb) THEN Contents(rb)[i] ELSE c
    BY SMTT(60), <1>7, <1>10, <1>11, <1>13
  <2> QED
    BY <1>12, <2>1, <2>2
<1> QED
  BY <1>6, <1>14 DEF new

(* Peeking and advancing a ring that is not empty takes the oldest         *)
(* character.                                                              *)
LEMMA AdvanceTakes ==
    ASSUME NEW V, NEW rb, IsRing(rb, V), ~ring_is_empty(rb)
    PROVE  /\ IsRing(ring_advance(rb), V)
           /\ Contents(rb) # << >>
           /\ ring_peek(rb) = Head(Contents(rb))
           /\ Contents(ring_advance(rb)) = Tail(Contents(rb))
<1> DEFINE new == ring_advance(rb)
           ahead == Wrap(rb.tail + 1)
<1>1. rb.head \in 0 .. Size - 1 /\ rb.tail \in 0 .. Size - 1
  BY DEF IsRing, Indices
<1>2. (rb.tail + 1) % Size = ahead
  BY NextWraps DEF IsRing
<1>3. new = [buffer |-> rb.buffer, head |-> rb.head, tail |-> ahead]
  BY SMTT(60), <1>2 DEF ring_advance, IsRing
<1>4. new.buffer = rb.buffer /\ new.head = rb.head /\ new.tail = ahead
  BY SMTT(60), <1>3
<1>5. ahead \in Indices
  BY SMTT(60), <1>1, SizeAssumption DEF Indices, Wrap
<1>6. IsRing(new, V)
  BY <1>3, <1>4, <1>5 DEF IsRing
<1>7. Used(new) = Used(rb) - 1 /\ Used(rb) \in 1 .. Size - 1
  <2>1. Used(rb) # 0 /\ Used(rb) \in 0 .. Size - 1
    BY UsedBounds
  <2> QED
    BY SMTT(60), <1>1, <1>4, <2>1, SizeAssumption DEF Used, Wrap
<1>8. \A i \in 1 .. Used(rb) - 1 : Slot(new, i) = Slot(rb, i + 1)
  BY SMTT(60), <1>1, <1>4, <1>7, SizeAssumption DEF Slot, Wrap
<1>9. Contents(new) = [i \in 1 .. Used(rb) - 1 |-> rb.buffer[Slot(rb, i + 1)]]
  BY <1>4, <1>6, <1>7, <1>8, ContentsSlots
<1>10. /\ Contents(rb) = [i \in 1 .. Used(rb) |-> rb.buffer[Slot(rb, i)]]
       /\ Len(Contents(rb)) = Used(rb) /\ Contents(rb) \in Seq(V)
  BY ContentsSlots
<1>11. Contents(rb) # << >>
  BY SMTT(60), <1>7, <1>10
<1>12. Slot(rb, 1) = rb.tail
  BY SMTT(60), <1>1, SizeAssumption DEF Slot, Wrap
<1>13. Head(Contents(rb)) = rb.buffer[rb.tail]
  BY SMTT(60), <1>7, <1>10, <1>11, <1>12
<1>14. Tail(Contents(rb)) = [i \in 1 .. Used(rb) - 1 |-> Contents(rb)[i + 1]]
  BY SMTT(60), <1>7, <1>10, <1>11
<1>15. \A i \in 1 .. Used(rb) - 1 : Contents(rb)[i + 1] = rb.buffer[Slot(rb, i + 1)]
  BY SMTT(60), <1>7, <1>10
<1>16. Contents(new) = Tail(Contents(rb))
  BY <1>9, <1>14, <1>15
<1> QED
  BY <1>6, <1>11, <1>13, <1>16 DEF ring_peek

-----------------------------------------------------------------------------
(* The driver.                                                             *)

Scancodes == KeyCodes \cup {k + 128 : k \in KeyCodes}

(* The inductive invariant.  Between the reader's test of the ring and its *)
(* read only the handler runs, and the handler takes nothing out.          *)
KeyboardInv ==
    /\ IsRing(kb_buffer, Chars \cup {NUL})
    /\ kb_shift_pressed \in BOOLEAN /\ kb_caps_lock \in BOOLEAN
    /\ obf = << >> \/ \E sc \in Scancodes : obf = << sc >>
    /\ reader = "nonempty" => ~ring_is_empty(kb_buffer)

(* The key map yields a character or NUL. *)
LEMMA CharIsChar ==
    ASSUME NEW k \in KeyCodes, NEW shift, NEW caps
    PROVE  scancode_to_ascii(k, shift, caps) \in Chars \cup {NUL}
<1>1. scancode_to_ascii(k, shift, caps)
        \in {scancode_to_ascii_table[k], scancode_to_ascii_shifted[k]}
  BY DEF scancode_to_ascii
<1> QED
  BY <1>1 DEF Chars

(* A scancode without its release bit is a key. *)
LEMMA ScancodeIsKey == \A sc \in Scancodes : sc % 128 \in KeyCodes
<1> SUFFICES ASSUME NEW k \in KeyCodes PROVE k % 128 = k /\ (k + 128) % 128 = k
  BY DEF Scancodes
<1>1. k \in 0 .. 127
  BY KeysAssumption
<1> QED
  BY SMTT(60), <1>1

(* The handler leaves the ring alone or writes one character to it. *)
LEMMA HandlerWrites ==
    ASSUME KeyboardInv, keyboard_irq_handler
    PROVE  \/ kb_buffer' = kb_buffer
           \/ /\ ~ring_is_full(kb_buffer)
              /\ \E c \in Chars : kb_buffer' = ring_write(kb_buffer, c)
<1>1. CASE obf = << >>
  BY <1>1 DEF keyboard_irq_handler
<1>2. CASE obf # << >>
  <2>1. PICK sc \in Scancodes : obf = << sc >>
    BY <1>2 DEF KeyboardInv
  <2>2. HandleScancode(sc)
    BY <1>2, <2>1 DEF keyboard_irq_handler
  <2> DEFINE c == scancode_to_ascii(sc % 128, kb_shift_pressed, kb_caps_lock)
  <2>3. c \in Chars \cup {NUL}
    BY ScancodeIsKey, CharIsChar DEF KeyboardInv
  <2>4. kb_buffer' = kb_buffer
        \/ (c # NUL /\ ~ring_is_full(kb_buffer) /\ kb_buffer' = ring_write(kb_buffer, c))
    BY <2>2 DEF HandleScancode
  <2> QED
    BY <2>3, <2>4
<1> QED
  BY <1>1, <1>2

(* keyboard_init leaves a sound, empty ring. *)
LEMMA KeyboardInvInit == KeyboardInit => KeyboardInv
<1> SUFFICES ASSUME KeyboardInit PROVE KeyboardInv
  OBVIOUS
<1>1. IsRing(kb_buffer, Chars \cup {NUL})
  BY SMTT(60), SizeAssumption DEF KeyboardInit, ring_init, IsRing, Indices
<1> QED
  BY <1>1 DEF KeyboardInit, KeyboardInv

(* Handler and readers keep the ring sound. *)
LEMMA KeyboardInvNext == KeyboardInv /\ [KeyboardNext]_keyboardVars => KeyboardInv'
<1> SUFFICES ASSUME KeyboardInv, [KeyboardNext]_keyboardVars PROVE KeyboardInv'
  OBVIOUS
<1>1. ASSUME NEW k \in KeyCodes, NEW down \in BOOLEAN, KeyEvent(k, down)
      PROVE  KeyboardInv'
  <2>1. obf' = << IF down THEN k ELSE k + 128 >>
        /\ UNCHANGED << kb_buffer, kb_shift_pressed, kb_caps_lock, reader >>
    BY <1>1 DEF KeyEvent, mods
  <2>2. (IF down THEN k ELSE k + 128) \in Scancodes
    BY DEF Scancodes
  <2> QED
    BY <2>1, <2>2 DEF KeyboardInv
<1>2. CASE keyboard_init
  BY <1>2 DEF keyboard_init, mods, KeyboardInv
<1>3. CASE keyboard_irq_handler
  <2>1. IsRing(kb_buffer', Chars \cup {NUL})
    BY <1>3, HandlerWrites, WriteAppends DEF KeyboardInv
  <2>2. reader' = reader /\ obf' = << >>
    BY <1>3 DEF keyboard_irq_handler
  <2>3. kb_shift_pressed' \in BOOLEAN /\ kb_caps_lock' \in BOOLEAN
    BY <1>3 DEF keyboard_irq_handler, mods, HandleScancode, KeyboardInv
  <2>4. ~ring_is_empty(kb_buffer) => ~ring_is_empty(kb_buffer')
    <3>1. CASE kb_buffer' = kb_buffer
      BY <3>1
    <3>2. CASE kb_buffer' # kb_buffer
      <4>1. PICK c \in Chars : kb_buffer' = ring_write(kb_buffer, c)
        BY <1>3, <3>2, HandlerWrites
      <4>2. ~ring_is_full(kb_buffer)
        BY <1>3, <3>2, HandlerWrites
      <4>3. Contents(kb_buffer') = Contents(kb_buffer) \o << c >>
        BY SMTT(60), <4>1, <4>2, WriteAppends DEF KeyboardInv
      <4>4. Len(Contents(kb_buffer')) = Len(Contents(kb_buffer)) + 1
        BY SMTT(60), <4>3, ContentsSlots DEF KeyboardInv
      <4> QED
        BY SMTT(60), <2>1, <4>4, ContentsSlots, UsedBounds DEF KeyboardInv
    <3> QED
      BY <3>1, <3>2
  <2> QED
    BY <2>1, <2>2, <2>3, <2>4 DEF KeyboardInv
<1>4. CASE keyboard_getchar \/ SeeCharacter \/ keyboard_try_getchar
  BY <1>4 DEF keyboard_getchar, SeeCharacter, keyboard_try_getchar, mods, hw, KeyboardInv
<1>5. CASE TakeKey
  BY <1>5, AdvanceTakes DEF TakeKey, mods, hw, KeyboardInv
<1>6. CASE UNCHANGED keyboardVars
  BY <1>6 DEF keyboardVars, KeyboardInv
<1> QED
  BY <1>1, <1>2, <1>3, <1>4, <1>5, <1>6 DEF KeyboardNext

-----------------------------------------------------------------------------

(* The handler accepts one character: the ring had room for it. *)
LEMMA WriteAccepts ==
    ASSUME KeyboardInv, ~ring_is_full(kb_buffer), NEW c \in Chars,
           kb_buffer' = ring_write(kb_buffer, c), lastKey' = lastKey
    PROVE  Fifo!FifoNext
<1>1. Contents(kb_buffer)' = Contents(kb_buffer) \o << c >>
  BY SMTT(60), WriteAppends DEF KeyboardInv
<1>2. /\ Len(Contents(kb_buffer)) \in 0 .. Size - 2
      /\ Contents(kb_buffer) \in Seq(Chars \cup {NUL})
  BY SMTT(60), SizeAssumption, UsedBounds, ContentsSlots DEF KeyboardInv
<1>3. Contents(kb_buffer)' # Contents(kb_buffer)
  <2>1. Len(Contents(kb_buffer) \o << c >>) = Len(Contents(kb_buffer)) + 1
    BY SMTT(60), <1>2
  <2> QED
    BY SMTT(60), <1>1, <1>2, <2>1
<1>4. 1 \in 1 .. Size - 1 /\ << c >> \in [1 .. 1 -> Chars]
      /\ Len(Contents(kb_buffer)) + 1 <= Size - 1
  BY SMTT(60), <1>2, SizeAssumption
<1>5. Fifo!Accept
  BY <1>1, <1>4 DEF Fifo!Accept
<1> QED
  BY <1>3, <1>5 DEF Fifo!FifoNext

(* A reader that takes a key takes the oldest. *)
LEMMA ReadTakes == ASSUME KeyboardInv, TakeKey PROVE Fifo!FifoNext
<1>1. /\ Contents(kb_buffer) # << >>
      /\ lastKey' = << Head(Contents(kb_buffer)) >>
      /\ Contents(kb_buffer)' = Tail(Contents(kb_buffer))
  BY AdvanceTakes DEF TakeKey, KeyboardInv
<1>2. Contents(kb_buffer) \in Seq(Chars \cup {NUL})
  BY ContentsSlots DEF KeyboardInv
<1>3. Contents(kb_buffer)' # Contents(kb_buffer)
  <2>1. Len(Tail(Contents(kb_buffer))) = Len(Contents(kb_buffer)) - 1
    BY SMTT(60), <1>1, <1>2
  <2>2. Len(Contents(kb_buffer)) \in Nat
    BY SMTT(60), <1>2
  <2>3. Tail(Contents(kb_buffer)) # Contents(kb_buffer)
    BY SMTT(60), <2>1, <2>2
  <2> QED
    BY <1>1, <2>3
<1> QED
  BY <1>1, <1>3 DEF Fifo!FifoNext, Fifo!Take

(* The characters come out in the order the handler wrote them, each once, *)
(* and an empty ring is never read, for a ring of any size and any keys    *)
(* (keyboard.c: the reader tests the ring before its cli).                 *)
THEOREM KeyboardIsFifo == KeyboardSpec => KeyboardImplementsFifo
<1>1. KeyboardInit => Fifo!FifoInit
  <2> SUFFICES ASSUME KeyboardInit PROVE Fifo!FifoInit
    OBVIOUS
  <2>1. IsRing(kb_buffer, Chars \cup {NUL}) /\ ring_is_empty(kb_buffer)
    BY KeyboardInvInit DEF KeyboardInv, KeyboardInit, ring_init, ring_is_empty
  <2>2. Used(kb_buffer) = 0 /\ Contents(kb_buffer) = << >>
    BY SMTT(60), <2>1, UsedBounds, ContentsSlots
  <2> QED
    BY <2>2 DEF Fifo!FifoInit, KeyboardInit
<1>2. KeyboardInv /\ [KeyboardNext]_keyboardVars
        => [Fifo!FifoNext]_<< Contents(kb_buffer), lastKey >>
  <2> SUFFICES ASSUME KeyboardInv, [KeyboardNext]_keyboardVars
               PROVE  Fifo!FifoNext \/ UNCHANGED << kb_buffer, lastKey >>
    OBVIOUS
  <2>1. CASE keyboard_irq_handler
    BY <2>1, HandlerWrites, WriteAccepts DEF keyboard_irq_handler
  <2>2. CASE TakeKey
    BY <2>2, ReadTakes
  <2>3. ASSUME NEW k \in KeyCodes, NEW down \in BOOLEAN, KeyEvent(k, down)
        PROVE  UNCHANGED << kb_buffer, lastKey >>
    BY <2>3 DEF KeyEvent
  <2>4. CASE keyboard_init \/ keyboard_getchar \/ SeeCharacter \/ keyboard_try_getchar
             \/ UNCHANGED keyboardVars
    BY <2>4 DEF keyboard_init, keyboard_getchar, SeeCharacter, keyboard_try_getchar,
                keyboardVars
  <2> QED
    BY <2>1, <2>2, <2>3, <2>4 DEF KeyboardNext
<1> QED
  BY KeyboardInvInit, KeyboardInvNext, <1>1, <1>2, PTL
     DEF KeyboardSpec, KeyboardImplementsFifo, Fifo!FifoSpec

-----------------------------------------------------------------------------
(* The shift state.                                                        *)

(* Its inductive invariant.  The scancode in the controller may be the one *)
(* that sets kb_shift_pressed, and then the key is down, or the one that   *)
(* clears it, and then the driver is late.                                 *)
ShiftInv ==
    /\ held \subseteq Shifts
    /\ ~kb_initialized => held = {} /\ ~kb_shift_pressed
    /\ obf = << >> \/ obf[1] % 128 \notin Shifts => (kb_shift_pressed => held # {})
    /\ obf # << >> /\ obf[1] \in Shifts /\ kb_initialized => held # {}

(* No handler, spurious interrupt or reader lets the flag outlive its key. *)
LEMMA ShiftInvNext ==
    ASSUME KeyboardInv, ShiftInv, [KeyboardNext]_keyboardVars
    PROVE  ShiftInv'
<1>1. ASSUME NEW k \in KeyCodes, NEW down \in BOOLEAN, KeyEvent(k, down)
      PROVE  ShiftInv'
  <2>1. /\ obf = << >> /\ UNCHANGED << kb_shift_pressed, kb_initialized >>
        /\ held' = IF down /\ kb_initialized THEN held \cup ({k} \cap Shifts) ELSE held \ {k}
    BY <1>1 DEF KeyEvent, mods
  <2>2. k \in 0 .. 127 /\ k % 128 = k /\ (k + 128) % 128 = k /\ k + 128 \notin Shifts
    <3>1. k \in 0 .. 127
      BY KeysAssumption
    <3> QED
      BY SMTT(60), <3>1 DEF Shifts, SCANCODE_LSHIFT, SCANCODE_RSHIFT
  <2>3. obf' # << >> /\ obf'[1] = IF down THEN k ELSE k + 128
    BY <1>1 DEF KeyEvent
  <2>4. obf'[1] % 128 = k /\ (obf'[1] \in Shifts => down /\ k \in Shifts)
    BY <2>2, <2>3
  <2>5. held' \subseteq Shifts
    BY <2>1 DEF ShiftInv
  <2>6. ~kb_initialized' => held' = {} /\ ~kb_shift_pressed'
    BY <2>1 DEF ShiftInv
  <2>7. k \notin Shifts => held' = held
    BY <2>1 DEF ShiftInv
  <2>8. down /\ k \in Shifts /\ kb_initialized => held' # {}
    BY <2>1
  <2> QED
    BY <2>1, <2>3, <2>4, <2>5, <2>6, <2>7, <2>8 DEF ShiftInv
<1>2. CASE keyboard_init
  <2>1. /\ ~kb_initialized /\ obf' = << >> /\ kb_initialized'
        /\ UNCHANGED << kb_shift_pressed, held >>
    BY <1>2 DEF keyboard_init, mods
  <2> QED
    BY <2>1 DEF ShiftInv
<1>3. CASE keyboard_irq_handler
  <2>1. kb_initialized /\ UNCHANGED << kb_initialized, held >>
    BY <1>3 DEF keyboard_irq_handler
  <2>2. CASE obf = << >>
    <3>1. UNCHANGED << obf, kb_shift_pressed >>
      BY <1>3, <2>2 DEF keyboard_irq_handler, mods
    <3> QED
      BY <2>1, <3>1 DEF ShiftInv
  <2>3. CASE obf # << >>
    <3>1. PICK sc \in Scancodes : obf = << sc >>
      BY <2>3 DEF KeyboardInv
    <3>2. sc % 128 \in KeyCodes /\ sc \in Nat /\ (sc < 128 => sc % 128 = sc)
      BY SMTT(60), ScancodeIsKey, KeysAssumption DEF Scancodes
    <3>3. obf' = << >> /\ HandleScancode(sc)
      BY <1>3, <2>3, <3>1 DEF keyboard_irq_handler
    <3>4. kb_shift_pressed' = IF sc % 128 \in Shifts THEN ~(sc >= 128) ELSE kb_shift_pressed
      BY <3>3 DEF HandleScancode
    <3>5. obf[1] = sc
      BY <3>1
    <3>6. kb_shift_pressed' => held # {}
      <4>1. CASE sc % 128 \notin Shifts
        BY <3>4, <3>5, <4>1 DEF ShiftInv
      <4>2. CASE sc % 128 \in Shifts /\ sc >= 128
        BY <3>4, <4>2
      <4>3. CASE sc % 128 \in Shifts /\ ~(sc >= 128)
        <5>1. sc \in Shifts
          BY SMTT(60), <3>2, <4>3
        <5> QED
          BY <2>1, <2>3, <3>5, <5>1 DEF ShiftInv
      <4> QED
        BY <4>1, <4>2, <4>3
    <3> QED
      BY <2>1, <3>3, <3>6 DEF ShiftInv
  <2> QED
    BY <2>2, <2>3
<1>4. CASE keyboard_getchar \/ SeeCharacter \/ keyboard_try_getchar \/ TakeKey \/ UNCHANGED keyboardVars
  <2>1. UNCHANGED << kb_shift_pressed, kb_initialized, obf, held >>
    BY <1>4 DEF keyboard_getchar, SeeCharacter, keyboard_try_getchar, TakeKey, keyboardVars, mods, hw
  <2> QED
    BY <2>1 DEF ShiftInv
<1> QED
  BY <1>1, <1>2, <1>3, <1>4 DEF KeyboardNext

(* Once every shift key is up and the handler has read the last scancode,  *)
(* kb_shift_pressed is false, whatever keys were pressed before            *)
(* keyboard_init and whatever interrupts were spurious.                    *)
THEOREM ShiftIsReleased == KeyboardSpec => []ShiftNeverSticks
<1>1. KeyboardInit => ShiftInv
  BY DEF KeyboardInit, ShiftInv
<1>2. KeyboardInv /\ ShiftInv /\ [KeyboardNext]_keyboardVars => ShiftInv'
  BY ShiftInvNext
<1>3. ShiftInv => ShiftNeverSticks
  BY DEF ShiftInv, ShiftNeverSticks
<1> QED
  BY KeyboardInvInit, KeyboardInvNext, <1>1, <1>2, <1>3, PTL DEF KeyboardSpec

-----------------------------------------------------------------------------
(* The pointer operations of LinkedList keep next and prev inverse to each *)
(* other, for any sets of heads and nodes.  PointersAgree alone is not     *)
(* inductive: splicing breaks it when both heads are on one                *)
(* ring.  The inductive invariant adds that the heads are on different     *)
(* rings, as a labelling of the cells that is constant along next and      *)
(* gives each head its own label.                                          *)

(* On the cells S the pointers are inverse and stay inside S. *)
Good(nx, pv, S) ==
    /\ nx \in [Cells -> Cells] /\ pv \in [Cells -> Cells] /\ S \subseteq Cells
    /\ \A c \in S : /\ nx[c] \in S /\ pv[c] \in S
                    /\ pv[nx[c]] = c /\ nx[pv[c]] = c

(* own labels each cell of S with its ring, each head with itself. *)
Owned(nx, S, own) ==
    /\ \A c \in S : own[nx[c]] = own[c]
    /\ \A h \in Heads \cap S : own[h] = h

(* The cells of S fall into rings that share no cell. *)
Separated(nx, S) == \E own \in [Cells -> Cells] : Owned(nx, S, own)

(* What every operation keeps of the cells that are linked. *)
Rings(nx, pv, S) == Good(nx, pv, S) /\ Separated(nx, S)

(* The inductive invariant: every cell but those with left-over pointers   *)
(* is on one sound ring.                                                   *)
ListInv == stale \subseteq Cells /\ Rings(next, prev, Cells \ stale)

(* A cell that points to itself is on a ring of its own. *)
LEMMA SelfLinked ==
    ASSUME NEW nx, NEW pv, NEW S, Good(nx, pv, S), NEW n \in S, nx[n] = n \/ pv[n] = n
    PROVE  nx[n] = n /\ pv[n] = n
BY DEF Good

(* A node linked to itself or in no ring can be left out of S. *)
LEMMA DropSelf ==
    ASSUME NEW nx, NEW pv, NEW S, Rings(nx, pv, S), NEW n \in Cells,
           n \notin S \/ nx[n] = n \/ pv[n] = n
    PROVE  Rings(nx, pv, S \ {n})
BY SMTT(60), SelfLinked DEF Good, Rings, Separated, Owned

(* INIT_LIST_HEAD of a cell outside S gives it a ring of its own. *)
LEMMA InitGood ==
    ASSUME NEW nx, NEW pv, NEW S, Rings(nx, pv, S), NEW c \in Cells, c \notin S
    PROVE  Rings([nx EXCEPT ![c] = c], [pv EXCEPT ![c] = c], S \cup {c})
<1>1. PICK own \in [Cells -> Cells] : Owned(nx, S, own)  BY DEF Rings, Separated
<1>2. Owned([nx EXCEPT ![c] = c], S \cup {c}, [own EXCEPT ![c] = c])
  BY SMTT(60), <1>1 DEF Good, Rings, Owned
<1>3. Good([nx EXCEPT ![c] = c], [pv EXCEPT ![c] = c], S \cup {c})
  BY SMTT(60) DEF Good, Rings
<1>4. [own EXCEPT ![c] = c] \in [Cells -> Cells]  OBVIOUS
<1> QED  BY <1>2, <1>3, <1>4 DEF Rings, Separated

(* __list_add of a node outside S between two neighbours. *)
LEMMA AddGood ==
    ASSUME NEW nx, NEW pv, NEW S, Rings(nx, pv, S), NEW n \in Nodes, n \notin S,
           NEW p \in S, NEW x \in S, nx[p] = x
    PROVE  Rings([nx EXCEPT ![n] = x, ![p] = n], [pv EXCEPT ![x] = n, ![n] = p], S \cup {n})
<1>1. PICK own \in [Cells -> Cells] : Owned(nx, S, own)  BY DEF Rings, Separated
<1>2. Owned([nx EXCEPT ![n] = x, ![p] = n], S \cup {n}, [own EXCEPT ![n] = own[p]])
  BY SMTT(60), <1>1, CellsAssumption DEF Good, Rings, Owned, Cells
<1>3. Good([nx EXCEPT ![n] = x, ![p] = n], [pv EXCEPT ![x] = n, ![n] = p], S \cup {n})
  BY DEF Good, Rings, Cells
<1> QED  BY <1>1, <1>2, <1>3 DEF Good, Rings, Separated, Cells

(* __list_del between the neighbours of a cell takes it off its ring. *)
LEMMA DelGood ==
    ASSUME NEW nx, NEW pv, NEW S, Rings(nx, pv, S), NEW n \in S
    PROVE  Rings([nx EXCEPT ![pv[n]] = nx[n]], [pv EXCEPT ![nx[n]] = pv[n]], S \ {n})
<1>1. PICK own \in [Cells -> Cells] : Owned(nx, S, own)  BY DEF Rings, Separated
<1>2. Owned([nx EXCEPT ![pv[n]] = nx[n]], S \ {n}, own)
  BY SMTT(60), <1>1 DEF Good, Rings, Owned
<1>3. Good([nx EXCEPT ![pv[n]] = nx[n]], [pv EXCEPT ![nx[n]] = pv[n]], S \ {n})
  BY SMTT(60) DEF Good, Rings
<1> QED  BY <1>2, <1>3 DEF Rings, Separated

(* list_replace puts a node outside S where a listed one was. *)
LEMMA ReplaceGood ==
    ASSUME NEW L, NEW S, Rings(L.next, L.prev, S), NEW m \in S, NEW n \in Nodes, n \notin S,
           L.next[m] # m
    PROVE  Rings(Replaced(L, m, n).next, Replaced(L, m, n).prev, (S \cup {n}) \ {m})
<1>1. PICK own \in [Cells -> Cells] : Owned(L.next, S, own)  BY DEF Rings, Separated
<1>2. Owned(Replaced(L, m, n).next, (S \cup {n}) \ {m}, [own EXCEPT ![n] = own[m]])
  BY SMTT(60), <1>1, CellsAssumption DEF Good, Rings, Owned, Replaced, Cells
<1>3. Good(Replaced(L, m, n).next, Replaced(L, m, n).prev, (S \cup {n}) \ {m})
  <2> DEFINE nx == Replaced(L, m, n).next
             pv == Replaced(L, m, n).prev
  <2>1. nx \in [Cells -> Cells] /\ pv \in [Cells -> Cells]
    BY DEF Good, Rings, Replaced, Cells
  <2>2. ASSUME NEW c \in (S \cup {n}) \ {m}
        PROVE  nx[c] \in (S \cup {n}) \ {m} /\ pv[nx[c]] = c
    BY SMTT(60), <2>2 DEF Good, Rings, Replaced, Cells
  <2>3. ASSUME NEW c \in (S \cup {n}) \ {m}
        PROVE  pv[c] \in (S \cup {n}) \ {m} /\ nx[pv[c]] = c
    BY SMTT(60), <2>3 DEF Good, Rings, Replaced, Cells
  <2> QED  BY <2>1, <2>2, <2>3 DEF Good, Rings, Cells
<1> QED  BY <1>1, <1>2, <1>3 DEF Good, Rings, Separated, Cells

(* A splice joins the ring of g, without g, to that of h. *)
LEMMA SpliceGood ==
    ASSUME NEW L, NEW S, Rings(L.next, L.prev, S),
           NEW g \in Heads \cap S, NEW h \in Heads \cap S, g # h, L.next[g] # g
    PROVE  /\ Rings(SplicedFirst(L, g, h).next, SplicedFirst(L, g, h).prev, S \ {g})
           /\ Rings(SplicedLast(L, g, h).next, SplicedLast(L, g, h).prev, S \ {g})
<1>1. PICK own \in [Cells -> Cells] : Owned(L.next, S, own)  BY DEF Rings, Separated
<1> DEFINE new == [c \in Cells |-> IF own[c] = g THEN h ELSE own[c]]
<1>2. new \in [Cells -> Cells]  BY <1>1 DEF Good, Rings, Cells
<1>3. /\ own[g] = g /\ own[h] = h
      /\ own[L.next[g]] = g /\ own[L.prev[g]] = g
      /\ own[L.next[h]] = h /\ own[L.prev[h]] = h
  BY SMTT(60), <1>1 DEF Good, Rings, Owned
<1>4. /\ Owned(SplicedFirst(L, g, h).next, S \ {g}, new)
      /\ Owned(SplicedLast(L, g, h).next, S \ {g}, new)
  <2>1. Owned(SplicedFirst(L, g, h).next, S \ {g}, new)
    BY SMTT(60), <1>1, <1>3 DEF Good, Rings, Owned, SplicedFirst
  <2>2. Owned(SplicedLast(L, g, h).next, S \ {g}, new)
    BY SMTT(60), <1>1, <1>3 DEF Good, Rings, Owned, SplicedLast
  <2> QED  BY <2>1, <2>2
<1>5. Good(SplicedFirst(L, g, h).next, SplicedFirst(L, g, h).prev, S \ {g})
  <2> DEFINE nx == SplicedFirst(L, g, h).next
             pv == SplicedFirst(L, g, h).prev
  <2>1. nx \in [Cells -> Cells] /\ pv \in [Cells -> Cells]
    BY DEF Good, Rings, SplicedFirst
  <2>2. ASSUME NEW c \in S \ {g}  PROVE  nx[c] \in S \ {g} /\ pv[nx[c]] = c
    BY SMTT(60), <1>3, <2>2 DEF Good, Rings, SplicedFirst
  <2>3. ASSUME NEW c \in S \ {g}  PROVE  pv[c] \in S \ {g} /\ nx[pv[c]] = c
    BY SMTT(60), <1>3, <2>3 DEF Good, Rings, SplicedFirst
  <2> QED  BY <2>1, <2>2, <2>3 DEF Good, Rings
<1>6. Good(SplicedLast(L, g, h).next, SplicedLast(L, g, h).prev, S \ {g})
  <2> DEFINE nx == SplicedLast(L, g, h).next
             pv == SplicedLast(L, g, h).prev
  <2>1. nx \in [Cells -> Cells] /\ pv \in [Cells -> Cells]
    BY DEF Good, Rings, SplicedLast
  <2>2. ASSUME NEW c \in S \ {g}  PROVE  nx[c] \in S \ {g} /\ pv[nx[c]] = c
    BY SMTT(60), <1>3, <2>2 DEF Good, Rings, SplicedLast
  <2>3. ASSUME NEW c \in S \ {g}  PROVE  pv[c] \in S \ {g} /\ nx[pv[c]] = c
    BY SMTT(60), <1>3, <2>3 DEF Good, Rings, SplicedLast
  <2> QED  BY <2>1, <2>2, <2>3 DEF Good, Rings
<1> QED  BY <1>2, <1>4, <1>5, <1>6 DEF Rings, Separated

(* list_cut_position at the head: the ring of h, without h, becomes g's. *)
LEMMA CutAllGood ==
    ASSUME NEW L, NEW S, Rings(L.next, L.prev, S),
           NEW g \in Heads \cap S, NEW h \in Heads \cap S, g # h,
           L.next[g] = g, L.next[h] # h
    PROVE  Rings(CutAll(L, g, h).next, CutAll(L, g, h).prev, S)
<1>1. PICK own \in [Cells -> Cells] : Owned(L.next, S, own)  BY DEF Rings, Separated
<1> DEFINE new == [c \in Cells |-> IF own[c] = h /\ c # h THEN g ELSE own[c]]
<1>2. new \in [Cells -> Cells]  BY <1>1 DEF Good, Rings, Cells
<1>3. /\ own[g] = g /\ own[h] = h /\ L.prev[g] = g
      /\ own[L.next[h]] = h /\ own[L.prev[h]] = h /\ L.prev[h] # h
  BY SMTT(60), <1>1 DEF Good, Rings, Owned
<1>4. Owned(CutAll(L, g, h).next, S, new)
  BY SMTT(60), <1>1, <1>3 DEF Good, Rings, Owned, CutAll, INIT_LIST_HEAD
<1>5. Good(CutAll(L, g, h).next, CutAll(L, g, h).prev, S)
  <2> DEFINE nx == CutAll(L, g, h).next
             pv == CutAll(L, g, h).prev
  <2>1. nx \in [Cells -> Cells] /\ pv \in [Cells -> Cells]
    BY DEF Good, Rings, CutAll, INIT_LIST_HEAD
  <2>2. ASSUME NEW c \in S  PROVE  nx[c] \in S /\ pv[nx[c]] = c
    BY SMTT(60), <1>3, <2>2 DEF Good, Rings, CutAll, INIT_LIST_HEAD
  <2>3. ASSUME NEW c \in S  PROVE  pv[c] \in S /\ nx[pv[c]] = c
    BY SMTT(60), <1>3, <2>3 DEF Good, Rings, CutAll, INIT_LIST_HEAD
  <2> QED  BY <2>1, <2>2, <2>3 DEF Good, Rings
<1> QED  BY <1>2, <1>4, <1>5 DEF Rings, Separated

(* e is met on every walk from h, before h. *)
OnWalk(nx, h, e) ==
    \A X \in SUBSET Cells : (nx[h] \in X /\ \A c \in X \ {h} : nx[c] \in X) => e \in X

(* The cells from next[h] to the one before e form a segment U that has    *)
(* neither h nor e: next leads out of it only from prev[e], and into it    *)
(* only from h.  Without induction: T is what walks forward from next[h]   *)
(* that stop at h and at prev[e] meet, U what walks back from prev[e]      *)
(* that stop at next[h] meet.                                              *)
LEMMA Segment ==
    ASSUME NEW nx, NEW pv, NEW S, Good(nx, pv, S), NEW h \in S, NEW e \in S,
           e # h, e # nx[h], OnWalk(nx, h, e)
    PROVE  \E U \in SUBSET S :
             /\ nx[h] \in U /\ pv[e] \in U /\ h \notin U /\ e \notin U
             /\ \A c \in U : c # pv[e] => nx[c] \in U
             /\ \A c \in U : c # nx[h] => pv[c] \in U
<1> DEFINE Fwd(X) == nx[h] \in X /\ \A c \in X \ {h, pv[e]} : nx[c] \in X
           T == {c \in S : \A X \in SUBSET S : Fwd(X) => c \in X}
           Back(X) == pv[e] \in X /\ \A c \in X \ {nx[h]} : pv[c] \in X
           U == {c \in S : \A X \in SUBSET S : Back(X) => c \in X}
<1>0. S \subseteq Cells  BY DEF Good
<1>1. Fwd(T)
  <2>1. nx[h] \in T  BY DEF Good
  <2>2. ASSUME NEW c \in T \ {h, pv[e]}  PROVE  nx[c] \in T
    BY <2>2 DEF Good
  <2> QED  BY <2>1, <2>2
<1>2. \A X \in SUBSET S : Fwd(X) => T \subseteq X  OBVIOUS
<1>3. Back(U)
  <2>1. pv[e] \in U  BY DEF Good
  <2>2. ASSUME NEW c \in U \ {nx[h]}  PROVE  pv[c] \in U
    BY <2>2 DEF Good
  <2> QED  BY <2>1, <2>2
<1>4. \A X \in SUBSET S : Back(X) => U \subseteq X  OBVIOUS
<1>5. T \subseteq S /\ U \subseteq S  OBVIOUS
<1> HIDE DEF T, U
<1>6. e \notin T
  <2>1. Fwd(T \ {e})  BY <1>1, <1>5 DEF Good
  <2> HIDE DEF Fwd
  <2> QED  BY <1>2, <1>5, <2>1
<1>7. pv[e] \in T
  <2>1. SUFFICES ASSUME pv[e] \notin T  PROVE  FALSE  OBVIOUS
  <2>2. nx[h] \in T /\ \A c \in T \ {h} : nx[c] \in T  BY <1>1, <2>1
  <2> QED  BY <1>0, <1>5, <1>6, <2>2 DEF OnWalk
<1>8. \A c \in T : c # nx[h] => pv[c] \in T
  <2>1. SUFFICES ASSUME NEW c \in T, c # nx[h], pv[c] \notin T  PROVE  FALSE  OBVIOUS
  <2>2. Fwd(T \ {c})  BY <1>1, <1>5, <2>1 DEF Good
  <2> HIDE DEF Fwd
  <2> QED  BY <1>2, <1>5, <2>1, <2>2
<1>9. U \subseteq T  BY <1>4, <1>5, <1>7, <1>8
<1>10. h \notin U
  <2>1. pv[e] # h  BY DEF Good
  <2>2. Back(U \ {h})  BY <1>3, <1>5, <2>1 DEF Good
  <2> QED  BY <1>4, <1>5, <2>2
<1>11. nx[h] \in U
  <2>1. SUFFICES ASSUME nx[h] \notin U  PROVE  FALSE  OBVIOUS
  <2>2. Fwd(T \ U)  BY <1>1, <1>3, <1>5, <2>1 DEF Good
  <2>3. pv[e] \in U  BY <1>3
  <2> HIDE DEF Fwd, Back
  <2> QED  BY <1>2, <1>5, <1>7, <2>2, <2>3
<1>12. \A c \in U : c # pv[e] => nx[c] \in U
  <2>1. SUFFICES ASSUME NEW c \in U, c # pv[e], nx[c] \notin U  PROVE  FALSE  OBVIOUS
  <2>2. Back(U \ {c})  BY <1>3, <1>5, <2>1 DEF Good
  <2> HIDE DEF Back
  <2> QED  BY <1>4, <1>5, <2>1, <2>2
<1> QED  BY <1>3, <1>5, <1>6, <1>9, <1>10, <1>11, <1>12

(* list_cut_position past the first entry: the segment up to e becomes     *)
(* g's ring, the rest stays with h.                                        *)
LEMMA CutBeforeGood ==
    ASSUME NEW L, NEW S, Rings(L.next, L.prev, S),
           NEW g \in Heads \cap S, NEW h \in Heads \cap S, g # h,
           NEW e \in S, e # h, e # L.next[h], OnWalk(L.next, h, e), L.next[g] = g
    PROVE  Rings(CutBefore(L, g, h, e).next, CutBefore(L, g, h, e).prev, S)
<1>0. Good(L.next, L.prev, S)  BY DEF Rings
<1>1. PICK own \in [Cells -> Cells] : Owned(L.next, S, own)  BY DEF Rings, Separated
<1>2. PICK U \in SUBSET S :
        /\ L.next[h] \in U /\ L.prev[e] \in U /\ h \notin U /\ e \notin U
        /\ \A c \in U : c # L.prev[e] => L.next[c] \in U
        /\ \A c \in U : c # L.next[h] => L.prev[c] \in U
  BY SMTT(60), <1>0, Segment
<1>3. L.prev[g] = g /\ L.next[h] # h /\ e # g /\ L.next[h] # g /\ L.prev[e] # g /\ L.prev[e] # h
  BY SMTT(60), <1>0, <1>1, <1>2, SelfLinked DEF Good, Owned
<1>4. own[e] = h
  <2> DEFINE X == {c \in S : own[c] = h}
  <2>1. L.next[h] \in X /\ \A c \in X \ {h} : L.next[c] \in X
    BY <1>0, <1>1 DEF Good, Owned
  <2>2. X \in SUBSET Cells  BY <1>0 DEF Good
  <2> QED  BY <2>1, <2>2 DEF OnWalk
<1> DEFINE V == {c \in U : own[c] = h}
           new == [c \in Cells |-> IF c \in V THEN g ELSE own[c]]
<1>5. /\ own[h] = h /\ own[g] = g /\ own[L.next[h]] = h /\ own[L.prev[e]] = h
      /\ L.next[h] \in V /\ L.prev[e] \in V /\ h \notin V /\ e \notin V /\ V \subseteq S
      /\ \A c \in V : c # L.prev[e] => L.next[c] \in V
      /\ \A c \in V : c # L.next[h] => L.prev[c] \in V
      /\ \A c \in V : own[c] = h
  BY SMTT(60), <1>0, <1>1, <1>2, <1>4 DEF Good, Owned
<1> HIDE DEF V
<1>6. new \in [Cells -> Cells]  BY <1>1 DEF Cells
<1>7. Owned(CutBefore(L, g, h, e).next, S, new)
  <2> DEFINE nx == CutBefore(L, g, h, e).next
  <2>1. ASSUME NEW c \in S  PROVE  new[nx[c]] = new[c]
    <3>1. CASE c = g  BY <1>0, <1>3, <1>5, <3>1 DEF Good, CutBefore
    <3>2. CASE c = h  BY <1>0, <1>3, <1>4, <1>5, <3>2 DEF Good, CutBefore
    <3>3. CASE c = L.prev[e]  BY <1>0, <1>3, <1>5, <3>3 DEF Good, CutBefore
    <3>4. CASE c \notin {g, h, L.prev[e]}
      <4>1. nx[c] = L.next[c] /\ L.next[c] \in S /\ c \in Cells /\ L.next[c] \in Cells
        BY <1>0, <1>3, <3>4 DEF Good, CutBefore
      <4>2. L.next[c] \in V <=> c \in V  BY SMTT(60), <1>0, <1>5, <3>4 DEF Good
      <4> QED  BY <1>1, <4>1, <4>2 DEF Owned
    <3> QED  BY <3>1, <3>2, <3>3, <3>4
  <2>2. ASSUME NEW k \in Heads \cap S  PROVE  new[k] = k
    BY <1>1, <1>5 DEF Owned, Cells
  <2> QED  BY <2>1, <2>2 DEF Owned
<1>8. Good(CutBefore(L, g, h, e).next, CutBefore(L, g, h, e).prev, S)
  <2> DEFINE nx == CutBefore(L, g, h, e).next
             pv == CutBefore(L, g, h, e).prev
  <2>1. nx \in [Cells -> Cells] /\ pv \in [Cells -> Cells]
    BY <1>0 DEF Good, CutBefore
  <2>2. ASSUME NEW c \in S  PROVE  nx[c] \in S /\ pv[nx[c]] = c
    BY SMTT(60), <1>0, <1>3, <2>2 DEF Good, CutBefore
  <2>3. ASSUME NEW c \in S  PROVE  pv[c] \in S /\ nx[pv[c]] = c
    BY SMTT(60), <1>0, <1>3, <2>3 DEF Good, CutBefore
  <2> QED  BY <1>0, <2>1, <2>2, <2>3 DEF Good
<1> QED  BY <1>6, <1>7, <1>8 DEF Rings, Separated

(* A write of a pair of pointer maps with the rings of the cells that are  *)
(* not stale afterwards.                                                   *)
LEMMA WriteKeeps ==
    ASSUME NEW L, Write(L), stale' \subseteq Cells, Rings(L.next, L.prev, Cells \ stale')
    PROVE  ListInv'
BY DEF Write, ListInv, Rings, Good, Separated, Owned, Cells

(* Cutting at the first entry aside (see MCLinkedListCut.cfg), every       *)
(* operation of list.c keeps the rings.                                    *)
LEMMA ListStep ==
    ASSUME CutFirst = FALSE, ListInv, [ListNext]_listVars
    PROVE  ListInv'
<1> DEFINE S == Cells \ stale
<1>0. stale \subseteq Cells /\ Rings(Lists.next, Lists.prev, S) /\ Good(next, prev, S)
  BY DEF ListInv, Rings, Lists
<1>L. Lists.next = next /\ Lists.prev = prev  BY DEF Lists
<1>C. \A h \in Heads, n \in Nodes : h # n /\ h \in Cells /\ n \in Cells
  BY CellsAssumption DEF Cells
<1>D. \A n \in Nodes : Unlisted(n) => Rings(next, prev, S \ {n})
  BY <1>0, <1>L, <1>C, DropSelf DEF Unlisted, list_on_list
<1>1. ASSUME NEW n \in Nodes, NEW h \in Heads, list_add(n, h)  PROVE  ListInv'
  <2>1. Rings(next, prev, S \ {n})  BY <1>1, <1>D DEF list_add
  <2>2. h \in S \ {n}  BY <1>1, <1>C DEF list_add, Usable
  <2>3. next[h] \in S \ {n}  BY <2>1, <2>2 DEF Rings, Good
  <2> DEFINE L == __list_add(Lists, n, h, next[h])
  <2>4. Rings(L.next, L.prev, (S \ {n}) \cup {n})
    BY <1>L, <2>1, <2>2, <2>3, AddGood DEF __list_add
  <2>5. (S \ {n}) \cup {n} = Cells \ stale' /\ stale' \subseteq Cells
    BY <1>0, <1>1, <1>C DEF list_add
  <2>6. Write(L)  BY <1>1 DEF list_add
  <2> QED  BY <2>4, <2>5, <2>6, WriteKeeps
<1>2. ASSUME NEW n \in Nodes, NEW h \in Heads, list_add_tail(n, h)  PROVE  ListInv'
  <2>1. Rings(next, prev, S \ {n})  BY <1>2, <1>D DEF list_add_tail
  <2>2. h \in S \ {n}  BY <1>2, <1>C DEF list_add_tail, Usable
  <2>3. prev[h] \in S \ {n} /\ next[prev[h]] = h  BY <2>1, <2>2 DEF Rings, Good
  <2> DEFINE L == __list_add(Lists, n, prev[h], h)
  <2>4. Rings(L.next, L.prev, (S \ {n}) \cup {n})
    BY <1>L, <2>1, <2>2, <2>3, AddGood DEF __list_add
  <2>5. (S \ {n}) \cup {n} = Cells \ stale' /\ stale' \subseteq Cells
    BY <1>0, <1>2, <1>C DEF list_add_tail
  <2>6. Write(L)  BY <1>2 DEF list_add_tail
  <2> QED  BY <2>4, <2>5, <2>6, WriteKeeps
<1>3. ASSUME NEW n \in Nodes, list_del(n)  PROVE  ListInv'
  <2> DEFINE L == __list_del(Lists, prev[n], next[n])
  <2>1. n \in S  BY <1>3, <1>C DEF list_del, Usable, Cells
  <2>2. Rings(L.next, L.prev, S \ {n})
    BY <1>0, <1>L, <2>1, DelGood DEF __list_del
  <2>3. S \ {n} = Cells \ stale' /\ stale' \subseteq Cells  BY <1>0, <1>3, <2>1 DEF list_del
  <2>4. Write(L)  BY <1>3 DEF list_del
  <2> QED  BY <2>2, <2>3, <2>4, WriteKeeps
<1>4. ASSUME NEW n \in Nodes, list_del_init(n)  PROVE  ListInv'
  <2> DEFINE K == __list_del(Lists, prev[n], next[n])
             L == INIT_LIST_HEAD(K, n)
  <2>1. n \in S  BY <1>4 DEF list_del_init, Usable, Cells
  <2>2. Rings(K.next, K.prev, S \ {n})
    BY <1>0, <1>L, <2>1, DelGood DEF __list_del
  <2> HIDE DEF K
  <2>3. Rings(L.next, L.prev, (S \ {n}) \cup {n})
    BY <2>1, <2>2, InitGood DEF INIT_LIST_HEAD
  <2>4. (S \ {n}) \cup {n} = Cells \ stale' /\ stale' \subseteq Cells
    BY <1>0, <1>4, <2>1 DEF list_del_init
  <2>5. Write(L)  BY <1>4 DEF list_del_init, K
  <2> QED  BY <2>3, <2>4, <2>5, WriteKeeps
<1>5. ASSUME NEW m \in Nodes, NEW n \in Nodes, list_replace(m, n)  PROVE  ListInv'
  <2> DEFINE L == Replaced(Lists, m, n)
  <2>1. Rings(Lists.next, Lists.prev, S \ {n})  BY <1>5, <1>D, <1>L DEF list_replace
  <2>2. m \in S \ {n} /\ Lists.next[m] # m
    BY <1>5, <1>L DEF list_replace, Usable, Cells, list_on_list
  <2>3. Rings(L.next, L.prev, ((S \ {n}) \cup {n}) \ {m})
    BY <2>1, <2>2, ReplaceGood
  <2>4. ((S \ {n}) \cup {n}) \ {m} = Cells \ stale' /\ stale' \subseteq Cells
    BY <1>0, <1>5, <1>C, <2>2 DEF list_replace, Cells
  <2>5. Write(L)  BY <1>5 DEF list_replace
  <2> QED  BY <2>3, <2>4, <2>5, WriteKeeps
<1>6. ASSUME NEW m \in Nodes, NEW n \in Nodes, list_replace_init(m, n)  PROVE  ListInv'
  <2> DEFINE K == Replaced(Lists, m, n)
             L == INIT_LIST_HEAD(K, m)
             R == ((S \ {n}) \cup {n}) \ {m}
  <2>1. Rings(Lists.next, Lists.prev, S \ {n})  BY <1>6, <1>D, <1>L DEF list_replace_init
  <2>2. m \in S \ {n} /\ Lists.next[m] # m
    BY <1>6, <1>L DEF list_replace_init, Usable, Cells, list_on_list
  <2>3. Rings(K.next, K.prev, R)  BY <2>1, <2>2, ReplaceGood
  <2> HIDE DEF K
  <2>4. Rings(L.next, L.prev, R \cup {m})  BY <2>2, <2>3, InitGood DEF INIT_LIST_HEAD
  <2>5. R \cup {m} = Cells \ stale' /\ stale' \subseteq Cells
    BY <1>0, <1>6, <1>C, <2>2 DEF list_replace_init, Cells
  <2>6. Write(L)  BY <1>6 DEF list_replace_init, K
  <2> QED  BY <2>4, <2>5, <2>6, WriteKeeps
<1>7. ASSUME NEW c \in Cells, Reinit(c)  PROVE  ListInv'
  <2> DEFINE L == INIT_LIST_HEAD(Lists, c)
  <2>1. c \notin S  BY <1>7 DEF Reinit
  <2>2. Rings(L.next, L.prev, S \cup {c})
    BY <1>0, <2>1, InitGood DEF INIT_LIST_HEAD
  <2>3. S \cup {c} = Cells \ stale' /\ stale' \subseteq Cells  BY <1>0, <1>7 DEF Reinit
  <2>4. Write(L)  BY <1>7 DEF Reinit
  <2> QED  BY <2>2, <2>3, <2>4, WriteKeeps
<1>8. ASSUME NEW g \in Heads, NEW h \in Heads, list_splice(g, h)  PROVE  ListInv'
  <2> DEFINE L == SplicedFirst(Lists, g, h)
  <2>1. g \in Heads \cap S /\ h \in Heads \cap S /\ g # h /\ Lists.next[g] # g
    BY <1>8, <1>L DEF list_splice, Usable, Cells, list_is_empty
  <2>2. Rings(L.next, L.prev, S \ {g})  BY <1>0, <2>1, SpliceGood
  <2>3. S \ {g} = Cells \ stale' /\ stale' \subseteq Cells
    BY <1>0, <1>8, <2>1 DEF list_splice
  <2>4. Write(L)  BY <1>8 DEF list_splice
  <2> QED  BY <2>2, <2>3, <2>4, WriteKeeps
<1>9. ASSUME NEW g \in Heads, NEW h \in Heads, list_splice_tail(g, h)  PROVE  ListInv'
  <2> DEFINE L == SplicedLast(Lists, g, h)
  <2>1. g \in Heads \cap S /\ h \in Heads \cap S /\ g # h /\ Lists.next[g] # g
    BY <1>9, <1>L DEF list_splice_tail, Usable, Cells, list_is_empty
  <2>2. Rings(L.next, L.prev, S \ {g})  BY <1>0, <2>1, SpliceGood
  <2>3. S \ {g} = Cells \ stale' /\ stale' \subseteq Cells
    BY <1>0, <1>9, <2>1 DEF list_splice_tail
  <2>4. Write(L)  BY <1>9 DEF list_splice_tail
  <2> QED  BY <2>2, <2>3, <2>4, WriteKeeps
<1>10. ASSUME NEW g \in Heads, NEW h \in Heads, list_splice_init(g, h)  PROVE  ListInv'
  <2> DEFINE K == SplicedFirst(Lists, g, h)
             L == INIT_LIST_HEAD(K, g)
  <2>1. g \in Heads \cap S /\ h \in Heads \cap S /\ g # h /\ Lists.next[g] # g
    BY <1>10, <1>L DEF list_splice_init, Usable, Cells, list_is_empty
  <2>2. Rings(K.next, K.prev, S \ {g})  BY <1>0, <2>1, SpliceGood
  <2> HIDE DEF K
  <2>3. Rings(L.next, L.prev, (S \ {g}) \cup {g})
    BY <2>1, <2>2, InitGood DEF INIT_LIST_HEAD
  <2>4. (S \ {g}) \cup {g} = Cells \ stale' /\ stale' \subseteq Cells
    BY <1>0, <1>10, <2>1 DEF list_splice_init
  <2>5. Write(L)  BY <1>10 DEF list_splice_init, K
  <2> QED  BY <2>3, <2>4, <2>5, WriteKeeps
<1>11. ASSUME NEW g \in Heads, NEW h \in Heads, NEW e \in Cells, list_cut_position(g, h, e)
       PROVE  ListInv'
  <2>1. g \in Heads \cap S /\ h \in Heads \cap S /\ g # h /\ Lists.next[g] = g
    BY <1>11, <1>L DEF list_cut_position, Usable, Cells, list_is_empty
  <2>2. S = Cells \ stale' /\ stale' \subseteq Cells  BY <1>0, <1>11 DEF list_cut_position
  <2>3. CASE Write(INIT_LIST_HEAD(Lists, g))
    <3> DEFINE L == INIT_LIST_HEAD(Lists, g)
    <3>1. Rings(Lists.next, Lists.prev, S \ {g})  BY <1>0, <2>1, DropSelf
    <3>2. Rings(L.next, L.prev, (S \ {g}) \cup {g})
      BY <2>1, <3>1, InitGood DEF INIT_LIST_HEAD
    <3>3. (S \ {g}) \cup {g} = Cells \ stale'  BY <2>1, <2>2
    <3> QED  BY <2>2, <2>3, <3>2, <3>3, WriteKeeps
  <2>4. CASE ~list_is_empty(h) /\ Write(CutAll(Lists, g, h))
    BY <1>0, <1>L, <2>1, <2>2, <2>4, CutAllGood, WriteKeeps DEF list_is_empty
  <2>5. CASE ~list_is_empty(h) /\ e # h /\ Write(CutBefore(Lists, g, h, e))
    <3>1. e # Lists.next[h] /\ e \in Entries(h)  BY <1>11, <1>L, <2>5 DEF list_cut_position
    <3>2. OnWalk(Lists.next, h, e)  BY <1>L, <3>1 DEF OnWalk, Entries, WalkClosed
    <3>3. e \in S
      <4>1. next[h] \in S /\ \A c \in S \ {h} : next[c] \in S  BY <1>0, <2>1 DEF Good
      <4> QED  BY <1>L, <3>2, <4>1 DEF OnWalk
    <3> QED
      BY <1>0, <2>1, <2>2, <2>5, <3>1, <3>2, <3>3, CutBeforeGood, WriteKeeps
  <2> QED  BY <1>11, <2>3, <2>4, <2>5 DEF list_cut_position
<1>12. ASSUME UNCHANGED listVars  PROVE  ListInv'
  BY <1>12 DEF listVars, ListInv, Rings, Good, Separated, Owned, Cells
<1> QED
  BY <1>1, <1>2, <1>3, <1>4, <1>5, <1>6, <1>7, <1>8, <1>9, <1>10, <1>11, <1>12 DEF ListNext

(* For any sets of heads and nodes, as long as list_cut_position is not    *)
(* called at the first entry, next and prev stay inverse to each other.    *)
THEOREM ListsStayLinked == ASSUME CutFirst = FALSE PROVE ListSpec => []PointersAgree
<1>1. ListInit => ListInv
  <2>1. SUFFICES ASSUME ListInit PROVE ListInv  OBVIOUS
  <2>2. Owned(next, Cells \ stale, next)  BY <2>1 DEF ListInit, Owned, Cells
  <2> QED  BY <2>1, <2>2 DEF ListInit, ListInv, Rings, Good, Separated
<1>2. ListInv /\ [ListNext]_listVars => ListInv'  BY ListStep
<1>3. ListInv => PointersAgree  BY DEF ListInv, Rings, Good, PointersAgree
<1> QED  BY <1>1, <1>2, <1>3, PTL DEF ListSpec

-----------------------------------------------------------------------------
(* The semaphore.                                                          *)

INSTANCE FiniteSetTheorems

(* The inductive invariant.  The clause on at is what the slow path needs: *)
(* a task that comes back from its sleep in sem_wait has no unit yet, so   *)
(* the unit it takes from a count of 1 is a new one.                       *)
UnitsInv ==
    /\ at \in [Tasks -> {"run", "sleep", "sem", "spin"}]
    /\ users \subseteq Tasks /\ IsFiniteSet(users)
    /\ count \in Nat
    /\ UnitsConserved
    /\ \A t \in Tasks : at[t] \in {"sem", "spin"} => t \notin users

(* Taking a unit, by any of the three ways. *)
LEMMA TakeConserves ==
    ASSUME UnitsInv, NEW t \in Tasks, t \notin users, count > 0,
           count' = count - 1, users' = users \cup {t}
    PROVE  /\ users' \subseteq Tasks /\ IsFiniteSet(users')
           /\ count' \in Nat /\ UnitsConserved'
<1>1. IsFiniteSet(users')
      /\ Cardinality(users') = Cardinality(users) + 1
  BY FS_AddElement DEF UnitsInv
<1>2. Cardinality(users) \in Nat
  BY FS_CardinalityType DEF UnitsInv
<1>3. count' \in Nat
  BY SMTT(60) DEF UnitsInv
<1>4. Cardinality(users') + count' = Value
  BY SMTT(60), <1>1, <1>2, ValueAssumption DEF UnitsInv, UnitsConserved
<1> QED
  BY <1>1, <1>3, <1>4 DEF UnitsInv, UnitsConserved

(* Giving a unit back (sem_post). *)
LEMMA GiveConserves ==
    ASSUME UnitsInv, NEW t \in users, count' = count + 1, users' = users \ {t}
    PROVE  /\ users' \subseteq Tasks /\ IsFiniteSet(users')
           /\ count' \in Nat /\ UnitsConserved'
<1>1. IsFiniteSet(users')
      /\ Cardinality(users') = Cardinality(users) - 1
  BY FS_RemoveElement DEF UnitsInv
<1>2. Cardinality(users) \in Nat
  BY FS_CardinalityType DEF UnitsInv
<1>3. count' \in Nat
  BY SMTT(60) DEF UnitsInv
<1>4. Cardinality(users') + count' = Value
  BY SMTT(60), <1>1, <1>2, ValueAssumption DEF UnitsInv, UnitsConserved
<1> QED
  BY <1>1, <1>3, <1>4 DEF UnitsInv, UnitsConserved

(* sem_init puts its units there. *)
LEMMA UnitsInvInit == SemInit => UnitsInv
<1> SUFFICES ASSUME SemInit PROVE UnitsInv
  OBVIOUS
<1>1. at = [t \in Tasks |-> "run"] /\ count = Value /\ users = {}
  BY DEF SemInit, WqInit
<1>2. IsFiniteSet({}) /\ Cardinality({}) = 0
  BY FS_EmptySet
<1>3. UnitsConserved
  BY SMTT(60), <1>1, <1>2, ValueAssumption DEF UnitsConserved
<1> QED
  BY <1>1, <1>2, <1>3, ValueAssumption DEF UnitsInv

(* One case per operation of the semaphore. *)
LEMMA UnitsInvNext == UnitsInv /\ [SemNext]_semVars => UnitsInv'
<1> SUFFICES ASSUME UnitsInv, [SemNext]_semVars PROVE UnitsInv'
  OBVIOUS
<1>1. ASSUME NEW t \in Tasks, sem_wait(t) PROVE UnitsInv'
  <2>1. CASE Available
    <3>1. count' = count - 1 /\ users' = users \cup {t} /\ at' = at /\ at[t] = "run"
          /\ t \notin users /\ count > 0
      BY <1>1, <2>1 DEF sem_wait, Take, Running, Available
    <3> QED
      BY <3>1, TakeConserves DEF UnitsInv
  <2>2. CASE ~Available
    BY SMTT(60), <1>1, <2>2 DEF sem_wait, UnitsInv, UnitsConserved
  <2> QED
    BY <2>1, <2>2
<1>2. ASSUME NEW t \in Tasks, SemResume(t) PROVE UnitsInv'
  BY <1>2 DEF SemResume, UnitsInv, UnitsConserved
<1>3. ASSUME NEW t \in Tasks, SemSwap(t) PROVE UnitsInv'
  <2>1. count = 1 /\ count' = count - 1 /\ users' = users \cup {t} /\ t \notin users
        /\ at' = [at EXCEPT ![t] = "run"]
    BY SMTT(60), <1>3 DEF SemSwap, Swappable, UnitsInv
  <2> QED
    BY SMTT(60), <2>1, TakeConserves DEF UnitsInv
<1>4. ASSUME NEW t \in Tasks, sem_trywait(t) PROVE UnitsInv'
  <2>1. count' = count - 1 /\ users' = users \cup {t} /\ at' = at /\ at[t] = "run"
        /\ t \notin users /\ count > 0
    BY <1>4 DEF sem_trywait, Take, Running, Available
  <2> QED
    BY <2>1, TakeConserves DEF UnitsInv
<1>5. ASSUME NEW t \in Tasks, sem_post(t) PROVE UnitsInv'
  <2>1. t \in users /\ count' = count + 1 /\ users' = users \ {t} /\ at' = at
    BY <1>5 DEF sem_post
  <2> QED
    BY <2>1, GiveConserves DEF UnitsInv
<1>6. ASSUME NEW t \in Tasks, SemElsewhere(t) PROVE UnitsInv'
  <2>1. count' = count /\ users' = users
    BY <1>6 DEF SemElsewhere
  <2>2. at' \in {at, [at EXCEPT ![t] = "sleep"], [at EXCEPT ![t] = "run"]}
    BY <1>6 DEF SemElsewhere, sleep_on, SleepReturns, WakeUp
  <2> QED
    BY <2>1, <2>2 DEF UnitsInv, UnitsConserved
<1>7. CASE UNCHANGED semVars
  BY <1>7 DEF semVars, UnitsInv, UnitsConserved
<1> QED
  BY <1>1, <1>2, <1>3, <1>4, <1>5, <1>6, <1>7 DEF SemNext

(* However tasks wait, try, post, sleep and wake, the units taken and the  *)
(* units left add up to what sem_init put there.                           *)
THEOREM SemaphoreConserves == SemSpec => []UnitsConserved
<1>1. UnitsInv => UnitsConserved
  BY DEF UnitsInv
<1> QED
  BY UnitsInvInit, UnitsInvNext, <1>1, PTL DEF SemSpec

-----------------------------------------------------------------------------
(* The reader-writer lock.                                                 *)

(* The inductive invariant.  A write holder is counted in writers, so that *)
(* no other task passes; a writer counted that is no holder spins for      *)
(* readers, and then nothing moves any more.                               *)
RwInv ==
    /\ rw \in [readers : Nat, writers : {0, 1}]
    /\ holds \in [RwTasks -> {"none", "read", "write"}]
    /\ IsFiniteSet(Holders("read"))
    /\ rw.readers = Cardinality(Holders("read"))
    /\ \A t \in RwTasks : holds[t] = "write" =>
          /\ rw.writers = 1 /\ rw.readers = 0
          /\ \A u \in RwTasks : holds[u] = "write" => u = t

(* A task that takes the lock for reading adds one to the readers. *)
LEMMA ReaderEnters ==
    ASSUME RwInv, NEW t \in RwTasks, holds[t] # "read",
           holds' = [holds EXCEPT ![t] = "read"]
    PROVE  /\ IsFiniteSet(Holders("read")')
           /\ Cardinality(Holders("read")') = rw.readers + 1
<1>1. Holders("read")' = Holders("read") \cup {t} /\ t \notin Holders("read")
  BY SMTT(60) DEF Holders, RwInv
<1> QED
  BY SMTT(60), <1>1, FS_AddElement DEF RwInv

(* A reader that gives the lock back takes one away. *)
LEMMA ReaderLeaves ==
    ASSUME RwInv, NEW t \in RwTasks, holds[t] = "read",
           holds' = [holds EXCEPT ![t] = "none"]
    PROVE  /\ IsFiniteSet(Holders("read")')
           /\ Cardinality(Holders("read")') = rw.readers - 1
           /\ rw.readers > 0
<1>1. Holders("read")' = Holders("read") \ {t} /\ t \in Holders("read")
  BY DEF Holders, RwInv
<1>2. Cardinality(Holders("read")) # 0
  BY <1>1, FS_EmptySet DEF RwInv
<1> QED
  BY SMTT(60), <1>1, <1>2, FS_RemoveElement DEF RwInv

(* What happens to a task that does not read leaves the readers alone. *)
LEMMA ReadersStay ==
    ASSUME RwInv, NEW t \in RwTasks, NEW how \in {"none", "write"}, holds[t] # "read",
           holds' = [holds EXCEPT ![t] = how]
    PROVE  Holders("read")' = Holders("read")
BY DEF Holders, RwInv

(* Nobody holds a fresh lock. *)
LEMMA RwInvInit == RwInit => RwInv
<1> SUFFICES ASSUME RwInit PROVE RwInv
  OBVIOUS
<1>1. Holders("read") = {}
  BY DEF RwInit, Holders
<1> QED
  BY <1>1, FS_EmptySet DEF RwInit, RwInv, rwlock_init

(* One case per operation of the reader-writer lock. *)
LEMMA RwInvNext == RwInv /\ [RwNext]_rwVars => RwInv'
<1> SUFFICES ASSUME RwInv, [RwNext]_rwVars PROVE RwInv'
  OBVIOUS
<1>1. ASSUME UNCHANGED <<rw, holds>> PROVE RwInv'
  BY <1>1 DEF RwInv, Holders
<1>2. ASSUME NEW t \in RwTasks, holds[t] = "none", rw.writers = 0,
             Gets(t, "read"), rw' = [rw EXCEPT !.readers = @ + 1]
      PROVE  RwInv'
  <2>1. holds' = [holds EXCEPT ![t] = "read"]
    BY <1>2 DEF Gets
  <2>2. IsFiniteSet(Holders("read")') /\ Cardinality(Holders("read")') = rw.readers + 1
    BY <1>2, <2>1, ReaderEnters
  <2> QED
    BY SMTT(60), <1>2, <2>1, <2>2 DEF RwInv
<1>3. ASSUME NEW t \in RwTasks, rwlock_read_unlock(t) PROVE RwInv'
  <2>1. holds' = [holds EXCEPT ![t] = "none"] /\ holds[t] = "read"
        /\ rw' = [rw EXCEPT !.readers = @ - 1]
    BY <1>3 DEF rwlock_read_unlock, Gets
  <2>2. /\ IsFiniteSet(Holders("read")')
        /\ Cardinality(Holders("read")') = rw.readers - 1 /\ rw.readers > 0
    BY <2>1, ReaderLeaves
  <2> QED
    BY SMTT(60), <2>1, <2>2 DEF RwInv
<1>4. ASSUME NEW t \in RwTasks, holds[t] = "none", rw.writers = 0, rw.readers = 0,
             Gets(t, "write"), rw' = [rw EXCEPT !.writers = @ + 1]
      PROVE  RwInv'
  <2>1. holds' = [holds EXCEPT ![t] = "write"]
    BY <1>4 DEF Gets
  <2>2. Holders("read")' = Holders("read")
    BY <1>4, <2>1, ReadersStay
  <2> QED
    BY SMTT(60), <1>4, <2>1, <2>2 DEF RwInv
<1>5. ASSUME NEW t \in RwTasks, rwlock_write_unlock(t) PROVE RwInv'
  <2>1. holds' = [holds EXCEPT ![t] = "none"] /\ holds[t] = "write"
        /\ rw' = [rw EXCEPT !.writers = @ - 1]
    BY <1>5 DEF rwlock_write_unlock, Gets
  <2>2. Holders("read")' = Holders("read")
    BY <2>1, ReadersStay
  <2> QED
    BY SMTT(60), <2>1, <2>2 DEF RwInv
<1>6. ASSUME NEW t \in RwTasks, rwlock_write_downgrade(t) PROVE RwInv'
  <2>1. holds' = [holds EXCEPT ![t] = "read"] /\ holds[t] = "write"
        /\ rw' = [rw EXCEPT !.readers = @ + 1, !.writers = @ - 1]
    BY <1>6 DEF rwlock_write_downgrade, Gets
  <2>2. IsFiniteSet(Holders("read")') /\ Cardinality(Holders("read")') = rw.readers + 1
    BY <2>1, ReaderEnters
  <2>3. rw' = [readers |-> rw.readers + 1, writers |-> 0]
    <3>1. rw = [readers |-> rw.readers, writers |-> rw.writers] /\ rw.writers = 1
      BY <2>1 DEF RwInv
    <3>2. rw' = [readers |-> rw.readers + 1, writers |-> rw.writers - 1]
      BY <2>1, <3>1
    <3> QED
      BY SMTT(60), <3>1, <3>2
  <2>4. \A u \in RwTasks : holds'[u] # "write"
    BY <2>1 DEF RwInv
  <2>5. holds' \in [RwTasks -> {"none", "read", "write"}] /\ rw.readers \in Nat
    BY <2>1 DEF RwInv
  <2> QED
    BY SMTT(60), <2>2, <2>3, <2>4, <2>5 DEF RwInv
<1>7. ASSUME NEW t \in RwTasks, rwlock_write_lock(t) PROVE RwInv'
  <2>1. CASE rw.writers = 0 /\ rw.readers = 0
    BY SMTT(60), <1>4, <1>7, <2>1 DEF rwlock_write_lock
  <2>2. CASE rw.writers > 0
    BY <1>1, <1>7, <2>2 DEF rwlock_write_lock, Spins
  <2>3. CASE rw.writers = 0 /\ rw.readers > 0
    <3>1. rw' = [rw EXCEPT !.writers = @ + 1] /\ holds' = holds
      BY SMTT(60), <1>7, <2>3 DEF rwlock_write_lock, Spins
    <3> QED
      BY SMTT(60), <2>3, <3>1 DEF RwInv, Holders
  <2> QED
    BY SMTT(60), <2>1, <2>2, <2>3 DEF RwInv
<1>8. ASSUME NEW t \in RwTasks, rwlock_read_lock(t) PROVE RwInv'
  BY SMTT(60), <1>1, <1>2, <1>8 DEF rwlock_read_lock, Spins, RwInv
<1>9. ASSUME NEW t \in RwTasks, GiveWay(t) PROVE RwInv'
  BY <1>1, <1>9 DEF GiveWay
<1> QED
  BY <1>1, <1>2, <1>3, <1>4, <1>5, <1>6, <1>7, <1>8, <1>9
     DEF RwNext, rwVars, rwlock_read_trylock, rwlock_write_trylock, NobodyActive

(* However tasks lock, try, downgrade and release, a writer is alone and   *)
(* the readers are counted (rwlock.c), for any set of tasks.               *)
THEOREM RwLockExcludes == RwSpec => []RwExclusion
<1>1. ASSUME RwInv PROVE RwExclusion
  <2>1. ASSUME NEW t \in RwTasks, holds[t] = "write"
        PROVE  Holders("write") = {t} /\ Holders("read") = {}
    BY <1>1, <2>1, FS_EmptySet DEF RwInv, Holders
  <2>2. Holders("write") # {} => Cardinality(Holders("write")) = 1 /\ Holders("read") = {}
    BY <2>1, FS_Singleton DEF Holders
  <2> QED
    BY <1>1, <2>2 DEF RwExclusion, RwInv
<1> QED
  BY RwInvInit, RwInvNext, <1>1, PTL DEF RwSpec
=============================================================================
