------------------------------ MODULE Keyboard ------------------------------
(***************************************************************************)
(* The PS/2 keyboard driver (kernel/driver/keyboard/keyboard.c): the IRQ 1 *)
(* handler that turns scancodes into characters and writes them to a ring, *)
(* and the thread that reads the ring.  The handler runs with interrupts   *)
(* disabled, so it is one step; it may run between any two steps of the    *)
(* reader except inside the reader's cli .. sti section, which is one step *)
(* too.  KeyCodes is the set of keys on the modelled keyboard.             *)
(***************************************************************************)
EXTENDS RingBuffer

CONSTANT KeyCodes        \* scancodes (make codes) of the keys that can be used

ASSUME KeysAssumption == KeyCodes \subseteq 0 .. 127

NUL == ""

SCANCODE_LSHIFT == 42
SCANCODE_RSHIFT == 54
SCANCODE_CAPSLOCK == 58
Shifts == {SCANCODE_LSHIFT, SCANCODE_RSHIFT}

(* Codes 0 to 57 of the two tables; of the rest only 113 and 117 are used. *)
PlainRow ==
  << NUL, NUL, "1", "2", "3", "4", "5", "6", "7", "8", "9", "0", "-", "=", "BS",
     "\t", "q", "w", "e", "r", "t", "y", "u", "i", "o", "p", "[", "]", "\n", NUL,
     "a", "s", "d", "f", "g", "h", "j", "k", "l", ";", "'", "grave", NUL, "\\", "z",
     "x", "c", "v", "b", "n", "m", ",", ".", "/", NUL, "*", NUL, " " >>

ShiftedRow ==
  << NUL, NUL, "!", "@", "#", "$", "%", "^", "&", "*", "(", ")", "_", "+", "BS",
     "\t", "Q", "W", "E", "R", "T", "Y", "U", "I", "O", "P", "{", "}", "\n", NUL,
     "A", "S", "D", "F", "G", "H", "J", "K", "L", ":", "\"", "tilde", NUL, "|", "Z",
     "X", "C", "V", "B", "N", "M", "<", ">", "?", NUL, "*", NUL, " " >>

Table(row) ==
  [code \in 0 .. 127 |-> IF code < Len(row) THEN row[code + 1]
                         ELSE IF code = 113 THEN "-"
                         ELSE IF code = 117 THEN "+" ELSE NUL]

scancode_to_ascii_table == Table(PlainRow)

scancode_to_ascii_shifted == Table(ShiftedRow)

is_letter_scancode(code) == code \in 16 .. 28 \/ code \in 30 .. 38

(* The character of a make code, given the modifier state.                 *)
scancode_to_ascii(code, shift, caps) ==
  IF shift # (caps /\ is_letter_scancode(code))
  THEN scancode_to_ascii_shifted[code]
  ELSE scancode_to_ascii_table[code]

Chars == ({scancode_to_ascii_table[k] : k \in KeyCodes}
            \cup {scancode_to_ascii_shifted[k] : k \in KeyCodes}) \ {NUL}

VARIABLES
  kb_buffer, kb_shift_pressed, kb_caps_lock, kb_initialized,
  obf,      \* the controller's output buffer: no byte or one scancode
  irq,      \* IRQ 1 is latched in the PIC
  held,     \* the shift keys pressed since the driver started and still down
  reader,   \* where the reading thread is
  lastKey   \* what its latest successful read returned

keyboardVars == << kb_buffer, kb_shift_pressed, kb_caps_lock, kb_initialized,
                   obf, irq, held, reader, lastKey >>

hw == << obf, irq, held >>
mods == << kb_shift_pressed, kb_caps_lock >>

KeyboardInit ==
  /\ kb_buffer = ring_init(NUL)
  /\ kb_shift_pressed = FALSE /\ kb_caps_lock = FALSE
  /\ kb_initialized = FALSE
  /\ obf = << >> /\ irq = FALSE /\ held = {}
  /\ reader = "idle" /\ lastKey = << >>

-----------------------------------------------------------------------------
(* The keyboard: a key goes down (or repeats while held) or comes up.  The *)
(* controller takes the byte when its output buffer is free and raises the *)
(* interrupt line.  A key other than shift may come up at any time: it may *)
(* have been down since before the system started.                         *)
KeyEvent(k, down) ==
  /\ obf = << >>
  /\ down \/ k \in held \/ k \notin Shifts
  /\ obf' = << IF down THEN k ELSE k + 128 >>
  /\ irq' = TRUE
  /\ held' = IF down /\ kb_initialized THEN held \cup ({k} \cap Shifts)
                                       ELSE held \ {k}
  /\ UNCHANGED << kb_buffer, mods, kb_initialized, reader, lastKey >>

(* keyboard_init flushes what the controller holds before it registers the *)
(* handler and unmasks IRQ 1; a second call returns at once.               *)
keyboard_init ==
  /\ ~kb_initialized
  /\ obf' = << >> /\ irq' = FALSE
  /\ kb_initialized' = TRUE
  /\ UNCHANGED << kb_buffer, mods, held, reader, lastKey >>

(* A slip: shift treated as a toggle, the way Caps Lock is.                *)
HandleScancode_toggle(scancode) ==
  /\ kb_shift_pressed' = (kb_shift_pressed # (scancode % 128 \in Shifts))
  /\ UNCHANGED << kb_buffer, kb_caps_lock >>

(* What the handler does with the scancode it read.                        *)
HandleScancode(scancode) ==
  LET code == scancode % 128
      is_break == scancode >= 128
      c == scancode_to_ascii(code, kb_shift_pressed, kb_caps_lock)
  IN  /\ kb_shift_pressed' =
            IF code \in Shifts THEN ~is_break ELSE kb_shift_pressed
      /\ kb_caps_lock' = (kb_caps_lock #
            (code = SCANCODE_CAPSLOCK /\ ~is_break))
      /\ kb_buffer' =
            IF \/ code \in Shifts \cup {SCANCODE_CAPSLOCK} \/ is_break
               \/ c = NUL \/ ring_is_full(kb_buffer)
            THEN kb_buffer
            ELSE ring_write(kb_buffer, c)

keyboard_irq_handler ==
  /\ kb_initialized /\ irq
  /\ irq' = FALSE
  /\ IF obf = << >>
     THEN UNCHANGED << kb_buffer, mods, obf >>        \* spurious
     ELSE HandleScancode(obf[1]) /\ obf' = << >>
  /\ UNCHANGED << kb_initialized, held, reader, lastKey >>

(* keyboard_getchar spins until the ring is not empty; keyboard_try_getchar*)
(* gives up (and nothing changes) if it is empty.  Both then read with     *)
(* interrupts disabled, without looking at the ring again.                 *)
keyboard_getchar ==
  /\ reader = "idle"
  /\ reader' = "blocked"
  /\ UNCHANGED << kb_buffer, mods, kb_initialized, hw, lastKey >>

SeeCharacter ==
  /\ reader = "blocked"
  /\ ~ring_is_empty(kb_buffer)
  /\ reader' = "nonempty"
  /\ UNCHANGED << kb_buffer, mods, kb_initialized, hw, lastKey >>

keyboard_try_getchar ==
  /\ reader = "idle"
  /\ ~ring_is_empty(kb_buffer)
  /\ reader' = "nonempty"
  /\ UNCHANGED << kb_buffer, mods, kb_initialized, hw, lastKey >>

TakeKey ==
  /\ reader = "nonempty"
  /\ lastKey' = << ring_peek(kb_buffer) >>
  /\ kb_buffer' = ring_advance(kb_buffer)
  /\ reader' = "idle"
  /\ UNCHANGED << mods, kb_initialized, hw >>

KeyboardNext ==
  \/ \E k \in KeyCodes, down \in BOOLEAN : KeyEvent(k, down)
  \/ keyboard_init
  \/ keyboard_irq_handler
  \/ keyboard_getchar \/ SeeCharacter \/ keyboard_try_getchar \/ TakeKey

(* The CPU takes a pending interrupt and executes the reader's loop.       *)
KeyboardFairness ==
  /\ WF_keyboardVars(keyboard_irq_handler)
  /\ WF_keyboardVars(SeeCharacter) /\ WF_keyboardVars(TakeKey)

KeyboardSpec == KeyboardInit /\ [][KeyboardNext]_keyboardVars /\ KeyboardFairness

-----------------------------------------------------------------------------
(* The ring's characters are delivered in the order in which the handler   *)
(* wrote them, each once, and the ring, which the reader tests with        *)
(* interrupts enabled and reads later without testing again, is never read *)
(* empty: the driver implements the bounded FIFO of CharFifo.              *)
Fifo == INSTANCE CharFifo WITH Chars <- Chars, Capacity <- Size - 1,
                               unread <- Contents(kb_buffer), last <- lastKey

KeyboardImplementsFifo == Fifo!FifoSpec

(* The shift state cannot stick: once every shift key is up and the        *)
(* handler has seen the last event, kb_shift_pressed is false.             *)
ShiftNeverSticks ==
  obf = << >> /\ held = {} => ~kb_shift_pressed

(* keyboard_getchar "waits until a character is available" and then        *)
(* returns: a reader that spins on a nonempty ring gets its character.     *)
KeyReturns ==
  reader = "blocked" /\ ~ring_is_empty(kb_buffer) ~> reader = "idle"

=============================================================================
