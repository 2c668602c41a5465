------------------------------ MODULE UserHeap ------------------------------
(***************************************************************************)
(* malloc of the user library (user/src/stdlib.c) on the break that the    *)
(* kernel gives it (user/src/unistd.c, syscall/syscall_table.c,            *)
(* kernel/user/user.c).  Addresses and sizes are in units of Unit bytes    *)
(* (16); PageUnits of them make a page.  A store to memory that is not     *)
(* mapped ends the program.                                                *)
(***************************************************************************)
EXTENDS Integers, Sequences, SequencesExt

CONSTANTS
    PageUnits,      \* a page (256)
    HeaderUnits,    \* sizeof(heap_block_t) (2)
    InitialUnits,   \* the first heap, 16 KB (1024)
    UserBase, UserLimit,   \* where a break may be
    HeapStart,      \* the first break, 16 MB above USER_BASE
    Sizes,          \* what is asked for, in units
    MaxMallocs      \* bound: calls

VARIABLES
    brk,       \* pcb->mm.brk
    mapped,    \* units of the heap that are mapped
    heap,      \* [start: heap_start, list: the blocks [at, size, used] in order]
    given,     \* the blocks handed out: their addresses
    alive,     \* FALSE once the program stored to unmapped memory
    mallocs    \* calls so far

userHeapVars == <<brk, mapped, heap, given, alive, mallocs>>

UserHeapInit ==
    /\ brk = 0 /\ mapped = {}
    /\ heap = [start |-> 0, list |-> << >>]
    /\ given = {} /\ alive = TRUE /\ mallocs = 0

-----------------------------------------------------------------------------
(* The break.  sbrk passes its increment as the address of the new break.  *)

PageUp(n) == ((n + PageUnits - 1) \div PageUnits) * PageUnits

\* The break and the mapped units after user_brk(new), when frames last.
user_brk(k, new) ==
    LET up == PageUp(new)
        old == IF k.brk = 0 THEN HeapStart ELSE k.brk
    IN  IF new = 0 \/ up < UserBase \/ up >= UserLimit THEN k
        ELSE IF up <= k.brk THEN [k EXCEPT !.brk = up]
        ELSE [brk |-> up, mapped |-> k.mapped \cup old .. (up - 1)]

\* The kernel's side after sbrk(incr); its result is the break then.
sbrk(k, incr) == user_brk(k, incr)

-----------------------------------------------------------------------------
(* The blocks.  s is the whole state: [brk, mapped, list, start, ok].      *)

Kernel(s, k) == [s EXCEPT !.brk = k.brk, !.mapped = k.mapped]
Header(at) == at .. (at + HeaderUnits - 1)

\* A store of a block's header.
Writes(s, at) == [s EXCEPT !.ok = @ /\ Header(at) \subseteq s.mapped]

Block(at, size) == [at |-> at, size |-> size, used |-> FALSE]

\* Runs again as long as the first break it saw was 0, that is NULL.
heap_init(s) ==
    IF s.start # 0 THEN s
    ELSE LET grown == Kernel(s, sbrk(s, InitialUnits))
         IN  [Writes(grown, s.brk) EXCEPT !.start = s.brk,
                                          !.list = <<Block(s.brk, InitialUnits)>>]

heap_find_free(s, size) == SelectInSeq(s.list, LAMBDA b : ~b.used /\ b.size >= size)

\* No free block: another one at the break, of whole pages.
Expand(s, size) ==
    LET units == PageUp(size)
        grown == Kernel(s, sbrk(s, units))
    IN  [Writes(grown, s.brk) EXCEPT !.list = Append(@, Block(s.brk, units))]

heap_split_block(s, i, size) ==
    LET b == s.list[i]
        rest == b.size - size
    IN  IF rest < HeaderUnits + 1 THEN s
        ELSE [Writes(s, b.at + size) EXCEPT
                !.list = InsertAt([@ EXCEPT ![i].size = size], i + 1, Block(b.at + size, rest))]

\* The block found or added is marked and cut.
Taken(s, size) ==
    LET t == IF heap_find_free(s, size) # 0 THEN s ELSE Expand(s, size)
        i == heap_find_free(t, size)
    IN  [s |-> heap_split_block([t EXCEPT !.list[i].used = TRUE], i, size),
         at |-> t.list[i].at]

Allocated(n) ==
    Taken(heap_init([brk |-> brk, mapped |-> mapped, start |-> heap.start,
                     list |-> heap.list, ok |-> TRUE]), n + HeaderUnits)

Becomes(s, handed) ==
    /\ brk' = s.brk /\ mapped' = s.mapped
    /\ heap' = [start |-> s.start, list |-> s.list]
    /\ alive' = s.ok
    /\ given' = IF s.ok THEN handed ELSE given

\* Stores of n units to the data of the block at the address.
Fills(s, at, n) ==
    [s EXCEPT !.ok = @ /\ (at + HeaderUnits) .. (at + HeaderUnits + n - 1) \subseteq s.mapped]

Freed(s, at) ==
    [s EXCEPT !.list = [i \in DOMAIN @ |->
        IF @[i].at = at THEN [@[i] EXCEPT !.used = FALSE] ELSE @[i]]]

Called == alive /\ mallocs < MaxMallocs /\ mallocs' = mallocs + 1

malloc(n) ==
    /\ Called
    /\ \E r \in {Allocated(n)} : Becomes(r.s, given \cup {r.at})

\* The new memory is zeroed.
calloc(n) ==
    /\ Called
    /\ \E r \in {Allocated(n)} : Becomes(Fills(r.s, r.at, n), given \cup {r.at})

\* A larger block is allocated, filled from the old one, and replaces it.
realloc(at, n) ==
    /\ Called /\ at \in given
    /\ \E i \in DOMAIN heap.list :
          /\ heap.list[i].at = at
          /\ IF n + HeaderUnits <= heap.list[i].size
             THEN UNCHANGED <<brk, mapped, heap, alive, given>>
             ELSE \E r \in {Allocated(n)} :
                     Becomes(Freed(Fills(r.s, r.at, heap.list[i].size - HeaderUnits), at),
                             (given \ {at}) \cup {r.at})

free(at) ==
    /\ alive /\ at \in given
    /\ given' = given \ {at}
    /\ heap' = Freed(heap, at)
    /\ UNCHANGED <<brk, mapped, alive, mallocs>>

\* The program moves its break itself.
SetBreak(new) ==
    /\ alive
    /\ \E k \in {sbrk([brk |-> brk, mapped |-> mapped], new)} :
          brk' = k.brk /\ mapped' = k.mapped
    /\ UNCHANGED <<heap, given, alive, mallocs>>

UserHeapNext ==
    \/ \E n \in Sizes : malloc(n) \/ calloc(n)
    \/ \E at \in given : free(at) \/ \E n \in Sizes : realloc(at, n)
    \/ \E new \in {HeapStart + PageUnits} : SetBreak(new)

UserHeapSpec == UserHeapInit /\ [][UserHeapNext]_userHeapVars

-----------------------------------------------------------------------------

(* malloc returns "Pointer to allocated memory, or NULL on failure"         *)
(* (stdlib.h:25): the allocator stores nothing outside the memory that sbrk *)
(* gave it, whose argument is the "Increment to add to program break"       *)
(* (unistd.h:95).                                                           *)
MallocStaysInHeap == alive
=============================================================================
