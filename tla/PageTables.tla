----------------------------- MODULE PageTables -----------------------------
(***************************************************************************)
(* kernel/mm/vmm/page.c and the address-space functions of vmm.c: the      *)
(* four-level page tables, over the frame allocator.                       *)
(*                                                                         *)
(* A virtual address is a page number, its index into the table of level l *)
(* (3 for the PML4, 0 for the PT) the l-th digit in base FanOut.  The      *)
(* lower half of the PML4 is user space.  Flags and the TLB are left out,  *)
(* and so are huge pages, which only the demos ask for.                    *)
(***************************************************************************)
EXTENDS Integers, FiniteSets, FiniteSetsExt, Sequences, SequencesExt

-----------------------------------------------------------------------------
(* kernel/mm/pframe/pframe.c: the physical frame allocator, a bitmap with  *)
(* a next-fit hint, as operators on a memory record                        *)
(*   used   the frames whose bit is set in s_pframe_state.frame_map        *)
(*   hint   s_pframe_state.last_alloc_hint                                 *)
(*   tab    what each frame holds when it is a page table: the frame       *)
(*          number in each entry, 0 where the entry is not present         *)
(* Frame 0 belongs to the BIOS area and is never handed out, so 0 also     *)
(* stands for "no frame".  The contents of data pages, and of a frame that *)
(* has been freed, are not tracked: page_create_table clears a table       *)
(* before its first use.                                                   *)

CONSTANTS TotalFrames,   \* s_pframe_state.total_frames
          MinAlloc,      \* the frame of PFRAME_MIN_ALLOC_BASE; those below are reserved
          FanOut         \* entries in a page table, 512 in the hardware

ASSUME FramesAssumption ==
    /\ MinAlloc \in Nat \ {0} /\ TotalFrames \in Nat /\ MinAlloc < TotalFrames
    /\ FanOut \in Nat /\ FanOut % 2 = 0 /\ FanOut > 0

NoFrame == 0
FrameNumbers == 0 .. TotalFrames - 1
Reserved == 0 .. MinAlloc - 1
Index == 0 .. FanOut - 1
EmptyTable == [i \in Index |-> NoFrame]

(* The first clear bit at start or after it, NoFrame if there is none. *)
bitmap_find_next_zero(m, start) ==
    LET clear == {f \in FrameNumbers \ m.used : f >= start}
    IN  IF clear = {} THEN NoFrame ELSE Min(clear)

\* Slip: the frame's bit is not set.
Allocated_bit_left_clear(m, f) ==
    [frame |-> f, m |-> [m EXCEPT !.hint = IF f + 1 >= TotalFrames THEN MinAlloc ELSE f + 1]]

(* The frame allocated and the memory afterwards; NoFrame when none is     *)
(* left.                                                                   *)
Allocated(m, f) ==
    [frame |-> f,
     m |-> [m EXCEPT !.used = @ \cup {f},
                     !.hint = IF f + 1 >= TotalFrames THEN MinAlloc ELSE f + 1]]

FromHint(m, ahead) == IF ahead # NoFrame THEN ahead ELSE bitmap_find_next_zero(m, 0)
Grant(m, f) == IF f = NoFrame THEN [frame |-> NoFrame, m |-> m] ELSE Allocated(m, f)
pframe_alloc(m) == Grant(m, FromHint(m, bitmap_find_next_zero(m, m.hint)))

(* Frames out of range and frames that are free already are refused. *)
pframe_free(m, f) ==
    IF f \in m.used /\ f < TotalFrames
    THEN [m EXCEPT !.used = @ \ {f}, !.tab[f] = EmptyTable]
    ELSE m

-----------------------------------------------------------------------------
(* Page tables *)

CONSTANTS KernelPml4     \* s_kernel_pml4, a reserved frame

ASSUME KernelPml4Assumption == KernelPml4 \in Reserved \ {NoFrame}

UserHalf == 0 .. FanOut \div 2 - 1
IndexAt(v, l) == (v \div FanOut ^ l) % FanOut

Cleared(a) == IF a.frame = NoFrame THEN a ELSE [a EXCEPT !.m.tab[a.frame] = EmptyTable]
page_create_table(m) == Cleared(pframe_alloc(m))

(* From table w.t to the one its entry i leads to, which is created if the *)
(* entry is empty.  w.t = NoFrame: out of memory on the way.               *)
LinkTable(w, i, a) ==
    IF a.frame = NoFrame THEN [w EXCEPT !.t = NoFrame]
    ELSE [m |-> [a.m EXCEPT !.tab[w.t][i] = a.frame], t |-> a.frame]

get_or_create_table(w, i) ==
    IF w.t = NoFrame THEN w
    ELSE IF w.m.tab[w.t][i] # NoFrame THEN [w EXCEPT !.t = w.m.tab[w.t][i]]
    ELSE LinkTable(w, i, page_create_table(w.m))

(* The 4 KB entry is set unless it is present already.  The tables created *)
(* stay when the call fails.                                               *)
SetPte(w, i, f) ==
    IF w.t = NoFrame \/ w.m.tab[w.t][i] # NoFrame
    THEN [ok |-> FALSE, m |-> w.m]
    ELSE [ok |-> TRUE, m |-> [w.m EXCEPT !.tab[w.t][i] = f]]

page_map_page(m, root, v, f) ==
    SetPte(FoldLeft(LAMBDA w, l : get_or_create_table(w, IndexAt(v, l)),
                    [m |-> m, t |-> root], <<3, 2, 1>>),
           IndexAt(v, 0), f)

(* What the entry for v holds in table t of level l.  A walk that has met  *)
(* an entry that is not present stays at NoFrame, whose table is empty.    *)
Entry(m, t, v, l) == m.tab[t][IndexAt(v, l)]
PageTableOf(m, root, v) == Entry(m, Entry(m, Entry(m, root, v, 3), v, 2), v, 1)

page_virt_to_phys(m, root, v) == Entry(m, PageTableOf(m, root, v), v, 0)

page_unmap_page(m, root, v) ==
    LET pt == PageTableOf(m, root, v)
    IN  IF pt = NoFrame THEN m ELSE [m EXCEPT !.tab[pt][IndexAt(v, 0)] = NoFrame]

(* The loop every release of pages runs: free the frame, clear the entry. *)
FreeIfMapped(m, f) == IF f = NoFrame THEN m ELSE pframe_free(m, f)
FreeAndUnmap(m, root, v) ==
    page_unmap_page(FreeIfMapped(m, page_virt_to_phys(m, root, v)), root, v)

ReleasePages(m, root, v, n) ==
    FoldLeft(LAMBDA s, i : FreeAndUnmap(s, root, v + i - 1), m, [i \in 1 .. n |-> i])

(* The loop every request for pages runs: a frame and a mapping for each   *)
(* page from v on, until one is refused.  failed = "oom": no frame for the *)
(* page; "map": the mapping was refused or a table could not be had, and   *)
(* the page's frame is given back.  pages are those that may be mapped.    *)
PageDone(s, f, r) ==
    IF r.ok THEN [s EXCEPT !.m = r.m, !.done = @ + 1]
    ELSE [s EXCEPT !.m = pframe_free(r.m, f), !.failed = "map"]

MapFrame(s, root, v, pages, a) ==
    IF a.frame = NoFrame THEN [s EXCEPT !.failed = "oom"]
    ELSE PageDone(s, a.frame, IF v \in pages THEN page_map_page(a.m, root, v, a.frame)
                              ELSE [ok |-> FALSE, m |-> a.m])

MapPages(m, root, v, n, pages) ==
    FoldLeft(LAMBDA s, i : IF s.failed # "" THEN s
                           ELSE MapFrame(s, root, v + i - 1, pages, pframe_alloc(s.m)),
             [m |-> m, done |-> 0, failed |-> ""], [i \in 1 .. n |-> i])

\* Slip: what was mapped stays mapped after a failure.
RolledBack_not(s, root, v) == s.m

(* All n pages, or none of them. *)
RolledBack(s, root, v) ==
    IF s.failed = "" THEN s.m ELSE ReleasePages(s.m, root, v, s.done)

Settled(s, root, v) == [ok |-> s.failed = "", m |-> RolledBack(s, root, v)]
MapOrRollBack(m, root, v, n, pages) == Settled(MapPages(m, root, v, n, pages), root, v)

CopyKernelHalf(m, pml4) ==
    [m EXCEPT !.tab[pml4] = [i \in Index |-> IF i \in UserHalf THEN NoFrame
                                             ELSE m.tab[KernelPml4][i]]]

vmm_create_user_space(m) ==
    LET a == page_create_table(m)
    IN  IF a.frame = NoFrame THEN a ELSE [a EXCEPT !.m = CopyKernelHalf(@, a.frame)]

(* The tables of one level below a set of tables. *)
Below(m, tables, indices) == {m.tab[t][i] : t \in tables, i \in indices} \ {NoFrame}

TablesUnder(m, pml4, indices) ==
    LET pdpts == Below(m, {pml4}, indices)
        pds == Below(m, pdpts, Index)
    IN  pdpts \cup pds \cup Below(m, pds, Index)

(* The page tables of the user half and the PML4 are freed, the data pages *)
(* are not.                                                                *)
vmm_destroy_user_space(m, pml4) ==
    FoldSet(LAMBDA f, s : pframe_free(s, f), m,
            TablesUnder(m, pml4, UserHalf) \cup {pml4})
=============================================================================
