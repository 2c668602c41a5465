------------------------------ MODULE CharFifo ------------------------------
(***************************************************************************)
(* What an interrupt-driven input driver promises its reader: characters   *)
(* come out in the order in which they were accepted, each exactly once,   *)
(* and never more than Capacity of them are waiting.                       *)
(***************************************************************************)
EXTENDS Naturals, Sequences

CONSTANTS Chars, Capacity

VARIABLES unread,   \* the accepted characters that nobody has read yet
          last      \* the character the latest successful read returned

FifoInit == unread = << >> /\ last = << >>

(* One run of the interrupt handler accepts a burst of characters.         *)
Accept == \E n \in 1 .. Capacity : \E cs \in [1 .. n -> Chars] :
            /\ Len(unread) + n <= Capacity
            /\ unread' = unread \o cs
            /\ UNCHANGED last

Take == /\ unread # << >>
        /\ last' = << Head(unread) >>
        /\ unread' = Tail(unread)

(* A handler that accepts nothing takes no step. *)
FifoNext == unread' # unread /\ (Accept \/ Take)

FifoSpec == FifoInit /\ [][FifoNext]_<< unread, last >>
=============================================================================
