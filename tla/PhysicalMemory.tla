--------------------------- MODULE PhysicalMemory ---------------------------
(***************************************************************************)
(* How the kernel gets its physical memory: kernel/mm/memory_detect/e820.c *)
(* (the BIOS memory map the boot loader left), pframe_init and the calls   *)
(* for contiguous frames of kernel/mm/pframe/pframe.c over the bitmap of   *)
(* kernel/bitmap/bitmap.c.                                                 *)
(*                                                                         *)
(* Addresses count in units of 1/PageUnits of a page, so that regions need *)
(* not be page aligned.  PageTables has pframe_alloc and pframe_free as it *)
(* uses them; here they are calls of one more client.                      *)
(***************************************************************************)
EXTENDS Integers, Sequences, FiniteSets

CONSTANTS PageUnits,
          MemoryMaps,           \* what the boot loader may store: sequences of entries
          E820_MAX_ENTRIES,
          Areas,                \* BIOS area, E820 storage, page tables, kernel: [base, length]
          Bitmap,               \* s_frame_bitmap_storage: [base, length]
          FramesPerUnit,        \* frames whose bits fit in one unit
          FirstFrame,           \* addr_to_frame(PFRAME_MIN_ALLOC_BASE)
          Wanted,               \* how many frames clients ask for
          MaxFrameCalls         \* bound on the calls of a behaviour

ASSUME PhysicalMemoryAssumption ==
    /\ PageUnits \in Nat \ {0} /\ FramesPerUnit \in Nat \ {0} /\ FirstFrame \in Nat
    /\ Wanted \subseteq Nat \ {0}
    /\ MemoryMaps \subseteq Seq([base : Nat, length : Nat, type : Nat])
    /\ \A a \in Areas \cup {Bitmap} : a.base \in Nat /\ a.length \in Nat

VARIABLES e820,        \* the entries kept, and whether e820_init has finished
          pframe,      \* s_pframe_state: initialized, total_frames, the bits set, hint
          reserved,    \* the bits pframe_init left set
          grants,      \* ranges of frames clients hold: [start, n]
          frameCalls   \* how many calls have been made

frameVars == <<e820, pframe, reserved, grants, frameCalls>>

USABLE == 1
SumOf(s, F(_)) == LET f[i \in 0 .. Len(s)] == IF i = 0 THEN 0 ELSE f[i - 1] + F(s[i])
                  IN  f[Len(s)]

-----------------------------------------------------------------------------
(* Too many entries leave nothing initialized; an empty entry gets type 0. *)
e820_init(map) ==
    IF Len(map) > E820_MAX_ENTRIES THEN [initialized |-> FALSE, entries |-> <<>>]
    ELSE [initialized |-> TRUE,
          entries |-> [i \in DOMAIN map |->
                          IF map[i].length = 0 THEN [map[i] EXCEPT !.type = 0] ELSE map[i]]]

Usable(e) == {i \in DOMAIN e.entries : e.entries[i].type = USABLE}

(* usable_bytes; e820_get_stats leaves the caller's variable as it was     *)
(* when nothing is initialized.                                            *)
e820_get_stats(e, junk) ==
    IF e.initialized
    THEN SumOf(e.entries, LAMBDA x : IF x.type = USABLE THEN x.length ELSE 0)
    ELSE junk

align_up(a) == (a + PageUnits - 1) \div PageUnits
align_down(a) == a \div PageUnits

(* The frames wholly inside a region.  A region that lies within one page  *)
(* makes the frame count negative, that is huge, and start + count wraps   *)
(* to an end before the start: no frame.                                   *)
\* Slip: the region is rounded outwards.
RegionFrames_outwards(r, total) ==
    {f \in align_down(r.base) .. align_up(r.base + r.length) - 1 : r.length # 0 /\ f < total}

RegionFrames(r, total) ==
    {f \in align_up(r.base) .. align_down(r.base + r.length) - 1 : r.length # 0 /\ f < total}

MaxUsable(e) ==
    LET ends == {0} \cup {e.entries[i].base + e.entries[i].length : i \in Usable(e)}
    IN  CHOOSE a \in ends : \A b \in ends : b <= a

NoPframe == [initialized |-> FALSE, total |-> 0, used |-> {}, hint |-> FirstFrame]

(* Everything is taken, then what E820 calls usable is freed, then the     *)
(* areas the kernel is using are taken again.                              *)
WithFrames(e, total) ==
    IF total > Bitmap.length * FramesPerUnit THEN NoPframe
    ELSE [initialized |-> TRUE, total |-> total, hint |-> FirstFrame,
          used |-> ((0 .. total - 1) \ UNION {RegionFrames(e.entries[i], total) : i \in Usable(e)})
                   \cup UNION {RegionFrames(a, total) : a \in Areas \cup {Bitmap}}]

pframe_init(e, junk) ==
    IF e820_get_stats(e, junk) = 0 THEN NoPframe ELSE WithFrames(e, align_down(MaxUsable(e)))

-----------------------------------------------------------------------------
(* The allocator's calls, on s_pframe_state; frame -1 is PFRAME_ERR_OOM.   *)

LowestOf(S) == IF S = {} THEN -1 ELSE CHOOSE x \in S : \A y \in S : x <= y
RunOf(f, n) == f .. f + n - 1

(* The first run of n clear bits in from .. to - 1. *)
FindRun(p, n, from, to) ==
    LowestOf({f \in from .. to - n : RunOf(f, n) \cap p.used = {}})

Taken(p, f, n) ==
    IF f = -1 THEN [frame |-> -1, p |-> p]
    ELSE [frame |-> f,
          p |-> [p EXCEPT !.used = @ \cup RunOf(f, n),
                          !.hint = IF f + n >= p.total THEN FirstFrame ELSE f + n]]

(* From the hint to the end, and then from the first frame to the hint: a  *)
(* run across the hint is not found by the second search.                  *)
OrWrapped(p, n, ahead) ==
    IF ahead # -1 THEN ahead
    ELSE FindRun(p, n, FirstFrame, IF p.hint < p.total THEN p.hint ELSE p.total)

pframe_alloc_n(p, n) ==
    IF ~p.initialized \/ n = 0 \/ n > p.total THEN [frame |-> -1, p |-> p]
    ELSE Taken(p, OrWrapped(p, n, FindRun(p, n, p.hint, p.total)), n)

(* The range is cleared whether or not its bits are set. *)
pframe_free_n(p, f, n) ==
    IF n = 0 \/ f + n > p.total THEN p ELSE [p EXCEPT !.used = @ \ RunOf(f, n)]

-----------------------------------------------------------------------------
Granted(r, f, n) ==
    /\ pframe' = r
    /\ grants' = IF f = -1 THEN grants ELSE grants \cup {[start |-> f, n |-> n]}
    /\ UNCHANGED <<e820, reserved>>

AllocateFrames(n) ==
    \E r \in {pframe_alloc_n(pframe, n)} : Granted(r.p, r.frame, n)

ReleaseFrames(g) ==
    /\ pframe' = pframe_free_n(pframe, g.start, g.n)
    /\ grants' = grants \ {g}
    /\ UNCHANGED <<e820, reserved>>

(* e820_init and pframe_init, on whatever the boot loader found. *)
FrameInit ==
    /\ \E map \in MemoryMaps : e820 = e820_init(map)
    /\ \E junk \in {0, 1} : pframe = pframe_init(e820, junk)
    /\ reserved = pframe.used /\ grants = {} /\ frameCalls = 0

FrameCall == frameCalls < MaxFrameCalls /\ frameCalls' = frameCalls + 1

FrameNext ==
    /\ FrameCall
    /\ \/ \E n \in Wanted : AllocateFrames(n)
       \/ \E g \in grants : ReleaseFrames(g)

FrameSpec == FrameInit /\ [][FrameNext]_frameVars

-----------------------------------------------------------------------------
(* The bytes of a frame, and of the bitmap up to the last bit in use. *)
BytesOf(f) == f * PageUnits .. (f + 1) * PageUnits - 1
Extent(r) == r.base .. r.base + r.length - 1
BitmapUnits(total) == (total + FramesPerUnit - 1) \div FramesPerUnit
BitmapInUse == Bitmap.base .. Bitmap.base + BitmapUnits(pframe.total) - 1

(* The areas are page aligned (PFRAME_BIOS_END and the constants after     *)
(* it).  The bitmap is not: the linker puts it behind the kernel's data,   *)
(* so that it begins inside the kernel's area; the page it ends in is not  *)
(* taken by pframe_init, and is used only when memory is within 128 MB of  *)
(* the 64 GB the bitmap is for.                                            *)
ASSUME PlacementAssumption ==
    /\ \A a \in Areas : a.base % PageUnits = 0 /\ a.length % PageUnits = 0
    /\ \/ Bitmap.base % PageUnits = 0
       \/ \E a \in Areas : Bitmap.base \in Extent(a)
    /\ \A map \in MemoryMaps :
          LET total == align_down(MaxUsable(e820_init(map)))
          IN  total <= Bitmap.length * FramesPerUnit =>
                 Bitmap.base + BitmapUnits(total)
                    <= align_down(Bitmap.base + Bitmap.length) * PageUnits

(* Whatever the BIOS reports, a frame that pframe_alloc_n hands out is     *)
(* whole pages of one usable E820 entry, shares no byte with the BIOS      *)
(* area, the page tables, the kernel or the bits that manage it, and has   *)
(* one holder; and exactly the frames that are held, or were left out at   *)
(* boot, are marked.                                                       *)
GrantsUsable ==
    /\ \A g \in grants : \A f \in RunOf(g.start, g.n) :
          /\ \E i \in Usable(e820) : BytesOf(f) \subseteq Extent(e820.entries[i])
          /\ \A a \in Areas : BytesOf(f) \cap Extent(a) = {}
          /\ BytesOf(f) \cap BitmapInUse = {}
    /\ \A g, h \in grants : g # h => RunOf(g.start, g.n) \cap RunOf(h.start, h.n) = {}
    /\ pframe.used = reserved \cup UNION {RunOf(g.start, g.n) : g \in grants}
=============================================================================
