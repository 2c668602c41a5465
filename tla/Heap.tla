-------------------------------- MODULE Heap --------------------------------
(***************************************************************************)
(* kernel/mm/heap/heap.c: the kernel heap, a best-fit allocator with an    *)
(* address-ordered free list, splitting, coalescing and a break that only  *)
(* grows.                                                                  *)
(*                                                                         *)
(* Memory is counted in units of HEAP_ALIGN (16 bytes), so every address   *)
(* is aligned and align_size is the identity on sizes.  A block header     *)
(* takes three units: size and used, prev and next, magic and 8 bytes that *)
(* no header write touches.  hdr[a] is the header whose magic is in place  *)
(* at a, of a block or left over from one; word[a] is the pointer in the   *)
(* second half of unit a, where kmalloc_aligned stores the raw pointer and *)
(* ptr_to_block looks for one.                                             *)
(*                                                                         *)
(* The heap lock is taken with interrupts off, no interrupt handler uses   *)
(* the heap and nothing in heap.c calls schedule(): each call is one step. *)
(***************************************************************************)
EXTENDS Integers, Sequences, FiniteSets, SequencesExt

CONSTANTS KERNEL_HEAP_BASE, KERNEL_HEAP_MAX,
          PAGE_SIZE,
          HEAP_INIT_PAGES,
          MinExpandPages,   \* what expand_heap_locked asks for at least
          Sizes,            \* the sizes callers ask for
          Alignments,       \* and the alignments
          MaxLive,          \* bound on the allocations held at once
          MaxStores         \* bound on how often callers fill their memory

ASSUME HeapAssumption ==
    /\ KERNEL_HEAP_BASE \in Nat \ {0, 1, 2, 3} /\ KERNEL_HEAP_MAX \in Nat
    /\ PAGE_SIZE \in Nat \ {0} /\ HEAP_INIT_PAGES \in Nat \ {0}

VARIABLES hp,     \* [hdr, word, free_list, brk]
          live,   \* the allocations callers hold: [ptr, size, aligned]
          stores  \* how often a caller has filled its memory

heapVars == <<hp, live, stores>>

NULL == 0
HeaderSize == 3
HEAP_MIN_BLOCK == 2
NoHeader == [size |-> 0, used |-> FALSE, prev |-> NULL, next |-> NULL]
Corrupt == 1000   \* a size field that holds HEAP_BLOCK_MAGIC
Units == 0 .. KERNEL_HEAP_MAX

HasMagic(h, b) == h.hdr[b] # NoHeader

(* Writing a header at b destroys the magic of any other header that       *)
(* overlaps it from below and the size of one that overlaps from above.    *)
PutHeader(h, b, size) ==
    [h EXCEPT !.hdr = [a \in Units |->
                         IF a = b THEN [NoHeader EXCEPT !.size = size]
                         ELSE IF a \in {b - 1, b - 2} \/ @[a] = NoHeader THEN NoHeader
                         ELSE IF a \in {b + 1, b + 2} THEN [@[a] EXCEPT !.size = Corrupt]
                         ELSE @[a]],
              !.word[b] = NULL, !.word[b + 1] = NULL]

(* The caller writes v to every word of its memory, from p on. *)
UserWrites(h, p, n, v) ==
    LET mem == p .. p + n - 1
    IN  [h EXCEPT !.hdr = [a \in Units |-> IF a \in mem \/ a + 2 \in mem THEN NoHeader ELSE @[a]],
                  !.word = [a \in Units |-> IF a \in mem THEN v ELSE @[a]]]

(* memcpy, stale headers and words included. *)
CopyMemory(h, to, from, n) ==
    LET mem == to .. to + n - 1
        hdrs == {a \in mem : a + 2 \in mem}
    IN  [h EXCEPT !.hdr = [a \in Units |-> IF a \in hdrs THEN @[a - to + from]
                                           ELSE IF a \in mem \/ a + 2 \in mem THEN NoHeader
                                           ELSE @[a]],
                  !.word = [a \in Units |-> IF a \in mem THEN @[a - to + from] ELSE @[a]]]

SetPrev(h, b, v) == IF b = NULL THEN h ELSE [h EXCEPT !.hdr[b].prev = v]
SetNext(h, b, v) == IF b = NULL THEN [h EXCEPT !.free_list = v] ELSE [h EXCEPT !.hdr[b].next = v]

(* The free list from its head on. *)
FreeBlocks(h) ==
    LET walk[b \in Units] == IF b = NULL THEN <<>> ELSE <<b>> \o walk[h.hdr[b].next]
    IN  walk[h.free_list]

next_block(h, b) == b + h.hdr[b].size

is_last_block(h, b) == next_block(h, b) >= h.brk \/ next_block(h, b) >= KERNEL_HEAP_MAX

validate_block(h, b) ==
    /\ b # NULL /\ HasMagic(h, b)
    /\ KERNEL_HEAP_BASE <= b /\ b < KERNEL_HEAP_MAX
    /\ HeaderSize <= h.hdr[b].size /\ next_block(h, b) <= KERNEL_HEAP_MAX

remove_from_free_list(h, b) ==
    LET p == h.hdr[b].prev
        n == h.hdr[b].next
    IN  [SetPrev(SetNext(h, p, n), n, p) EXCEPT !.hdr[b].prev = NULL, !.hdr[b].next = NULL]

(* The walk "while (curr && curr < block)": where it stops, and before. *)
Walked(h, b) ==
    LET c == FreeBlocks(h)
        k == SelectInSeq(c, LAMBDA a : a >= b)
    IN  [curr |-> IF k = 0 THEN NULL ELSE c[k],
         prev |-> IF k = 1 \/ c = <<>> THEN NULL ELSE c[IF k = 0 THEN Len(c) ELSE k - 1]]

insert_to_free_list(h, b) ==
    LET w == Walked(h, b)
    IN  SetNext(SetPrev([SetPrev(h, w.curr, b) EXCEPT !.hdr[b].next = w.curr], b, w.prev),
                w.prev, b)

(* The first of the smallest blocks that are large enough. *)
find_best_fit(h, size) ==
    LET fits == SelectSeq(FreeBlocks(h), LAMBDA b : h.hdr[b].size >= size)
        k    == SelectInSeq(fits, LAMBDA b : \A i \in DOMAIN fits : h.hdr[b].size <= h.hdr[fits[i]].size)
    IN  IF k = 0 THEN NULL ELSE fits[k]

split_block(h, b, needed) ==
    LET remaining == h.hdr[b].size - needed
    IN  IF remaining >= HEAP_MIN_BLOCK
        THEN insert_to_free_list([PutHeader(h, b + needed, remaining) EXCEPT !.hdr[b].size = needed],
                                 b + needed)
        ELSE h

CoalesceNext(h, b) ==
    LET n == next_block(h, b)
    IN  IF ~is_last_block(h, b) /\ ~h.hdr[n].used /\ validate_block(h, n)
        THEN [remove_from_free_list(h, n) EXCEPT !.hdr[b].size = @ + h.hdr[n].size]
        ELSE h

CoalescePrev(h, b) ==
    LET p == Walked(h, b).prev
    IN  IF p # NULL /\ next_block(h, p) = b
        THEN remove_from_free_list([h EXCEPT !.hdr[p].size = @ + h.hdr[b].size], b)
        ELSE h

\* Slip: the block before is not looked at.
coalesce_block_forward(h, b) == CoalesceNext(h, b)

coalesce_block(h, b) == CoalescePrev(CoalesceNext(h, b), b)

(* vmm_alloc_pages_at has pages up to KERNEL_HEAP_MAX.  The new pages are  *)
(* cleared.                                                                *)
ExpandPages(min_needed) ==
    LET n == (min_needed + PAGE_SIZE - 1) \div PAGE_SIZE
    IN  IF n < MinExpandPages THEN MinExpandPages ELSE n

CanExpand(h, min_needed) == h.brk + ExpandPages(min_needed) * PAGE_SIZE <= KERNEL_HEAP_MAX

expand_heap_locked(h, min_needed) ==
    LET b    == h.brk
        size == ExpandPages(min_needed) * PAGE_SIZE
    IN  coalesce_block([insert_to_free_list(PutHeader(h, b, size), b) EXCEPT !.brk = b + size], b)

heap_init ==
    expand_heap_locked([hdr |-> [a \in Units |-> NoHeader], word |-> [a \in Units |-> NULL],
                        free_list |-> NULL, brk |-> KERNEL_HEAP_BASE],
                       HEAP_INIT_PAGES * PAGE_SIZE)

total_block_size(n) == n + HeaderSize

(* kmalloc: the heap afterwards and the pointer, NULL when out of memory.  *)
Take(h, b, total) ==
    [hp  |-> [split_block(remove_from_free_list(h, b), b, total) EXCEPT !.hdr[b].used = TRUE],
     ptr |-> b + HeaderSize]

kmalloc(h, n) ==
    LET total == total_block_size(n)
        best  == find_best_fit(h, total)
        grown == expand_heap_locked(h, total)
    IN  IF best # NULL THEN Take(h, best, total)
        ELSE IF ~CanExpand(h, total) THEN [hp |-> h, ptr |-> NULL]
        ELSE IF find_best_fit(grown, total) = NULL THEN [hp |-> grown, ptr |-> NULL]
        ELSE Take(grown, find_best_fit(grown, total), total)

(* The stored raw pointer is believed if it leads to a magic number and    *)
(* the block there reaches past p.                                         *)
ptr_to_block(h, p) ==
    LET raw == h.word[p - 1]
        b   == raw - HeaderSize
    IN  IF /\ KERNEL_HEAP_BASE <= raw /\ raw < h.brk
           /\ HasMagic(h, b)
           /\ raw <= p /\ p < raw + h.hdr[b].size - HeaderSize
        THEN b ELSE p - HeaderSize

kfree(h, p) ==
    LET b == ptr_to_block(h, p)
    IN  IF validate_block(h, b) /\ h.hdr[b].used
        THEN coalesce_block(insert_to_free_list([h EXCEPT !.hdr[b].used = FALSE], b), b)
        ELSE h

----------------------------------------------------------------------------
(* What callers do.  They leave their memory as they found it, or fill it  *)
(* with pointers to memory they hold.                                      *)
HeapInit == hp = heap_init /\ live = {} /\ stores = 0

Hold(x) == live' = live \cup {x}

Kmalloc(n) ==
    /\ Cardinality(live) < MaxLive
    /\ \E r \in {kmalloc(hp, n)} :
          IF r.ptr = NULL THEN hp' = r.hp /\ UNCHANGED <<live, stores>>
          ELSE /\ \/ hp' = r.hp /\ UNCHANGED stores
                  \/ /\ stores < MaxStores /\ stores' = stores + 1
                     /\ \E x \in live : hp' = UserWrites(r.hp, r.ptr, n, x.ptr)
               /\ Hold([ptr |-> r.ptr, size |-> n, aligned |-> FALSE])

(* kmalloc_aligned asks for room to align, and a word for the raw pointer  *)
(* just below what it returns.                                             *)
AlignedRequest(n, alignment) == total_block_size(n) + alignment + 1

AlignUp(raw, alignment) == ((raw \div alignment) + 1) * alignment

KmallocAligned(n, alignment) ==
    /\ Cardinality(live) < MaxLive
    /\ \E r \in {kmalloc(hp, AlignedRequest(n, alignment))} :
       \E p \in {AlignUp(r.ptr, alignment)} :
          IF r.ptr = NULL THEN hp' = r.hp /\ UNCHANGED live
          ELSE /\ hp' = [r.hp EXCEPT !.word[p - 1] = r.ptr]
               /\ Hold([ptr |-> p, size |-> n, aligned |-> TRUE])
    /\ UNCHANGED stores

Kfree(x) == hp' = kfree(hp, x.ptr) /\ live' = live \ {x} /\ UNCHANGED stores

(* krealloc of memory from kmalloc: the old block is kept if it is large   *)
(* enough.                                                                 *)
Krealloc(x, n) ==
    /\ ~x.aligned /\ n # x.size
    /\ \E b \in {ptr_to_block(hp, x.ptr)} :
          /\ validate_block(hp, b) /\ hp.hdr[b].used
          /\ IF total_block_size(n) <= hp.hdr[b].size
             THEN live' = (live \ {x}) \cup {[x EXCEPT !.size = n]} /\ UNCHANGED hp
             ELSE \E r \in {kmalloc(hp, n)} :
                     IF r.ptr = NULL THEN hp' = r.hp /\ UNCHANGED live
                     ELSE /\ hp' = kfree(CopyMemory(r.hp, r.ptr, x.ptr,
                                                    hp.hdr[b].size - HeaderSize), x.ptr)
                          /\ live' = (live \ {x}) \cup {[x EXCEPT !.ptr = r.ptr, !.size = n]}
    /\ UNCHANGED stores

HeapNext ==
    \/ \E n \in Sizes : Kmalloc(n) \/ \E a \in Alignments : KmallocAligned(n, a)
    \/ \E x \in live : Kfree(x) \/ \E n \in Sizes : Krealloc(x, n)

HeapSpec == HeapInit /\ [][HeapNext]_heapVars

----------------------------------------------------------------------------
(* The blocks in address order, from heap_start up to the break. *)
Blocks(h) ==
    LET from[b \in Nat] == IF b >= h.brk \/ ~HasMagic(h, b) THEN {} ELSE {b} \cup from[next_block(h, b)]
    IN  from[KERNEL_HEAP_BASE]

(* After any sequence of calls the blocks tile the heap: walking by size   *)
(* from the start meets intact headers only and ends at the break, and no  *)
(* two free blocks are neighbours (both directions were coalesced).        *)
BlocksTile ==
    LET bs == Blocks(hp)
    IN  \A b \in bs :
          /\ validate_block(hp, b)
          /\ next_block(hp, b) = hp.brk \/ next_block(hp, b) \in bs
          /\ next_block(hp, b) \in bs => hp.hdr[b].used \/ hp.hdr[next_block(hp, b)].used

(* The free list is the free blocks, each once, in address order, with     *)
(* prev the way back: find_best_fit misses none and finds no other.        *)
FreeListExact ==
    LET c == FreeBlocks(hp)
    IN  /\ {c[i] : i \in DOMAIN c} = {b \in Blocks(hp) : ~hp.hdr[b].used}
        /\ \A i \in DOMAIN c :
             /\ i > 1 => c[i - 1] < c[i]
             /\ hp.hdr[c[i]].prev = IF i = 1 THEN NULL ELSE c[i - 1]

(* Every allocation a caller holds lies in the user part of a block in use *)
(* and no two lie in the same block, aligned and resized ones included.    *)
AllocationsApart ==
    LET In(x) == {b \in Blocks(hp) : /\ hp.hdr[b].used /\ b + HeaderSize <= x.ptr
                                     /\ x.ptr + x.size <= next_block(hp, b)}
    IN  /\ \A x \in live : In(x) # {}
        /\ \A x, y \in live : x # y => In(x) \cap In(y) = {}

(* The heap is sound in all three respects.                                *)
HeapSound == BlocksTile /\ FreeListExact /\ AllocationsApart

(* VIOLATED when sizes differ by less than a header.  "Each block (free or *)
(* allocated) has this header.  The heap is a contiguous sequence of       *)
(* blocks": walking by size meets headers up to the break.  split_block    *)
(* makes blocks of HEAP_MIN_BLOCK bytes, less than a header, and two       *)
(* headers overwrite each other.                                           *)
HeadersIntact ==
    \A b \in Blocks(hp) : next_block(hp, b) = hp.brk \/ next_block(hp, b) \in Blocks(hp)

=============================================================================
