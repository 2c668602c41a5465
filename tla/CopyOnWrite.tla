---------------------------- MODULE CopyOnWrite -----------------------------
(***************************************************************************)
(* kernel/mm/vmm/cow.c and the copy-on-write part of kernel/mm/vmm/fault.c:*)
(* reference counts of shared frames, kept in a hash map of cow_block_t,   *)
(* regions whose pages are made read-only, and the page fault of a user    *)
(* process that writes to one.                                             *)
(*                                                                         *)
(* The page-table entry of page v of address space s is pte[<<s, v>>]; the *)
(* tables that lead to it exist (AddressSpace has them).  proc_fork does   *)
(* not share pages yet, so the callers that map, share, register and       *)
(* release pages are the clients the API was written for: the demo of      *)
(* kernel/demo/cow and a fork that would use it.  The kernel does not      *)
(* yield inside a call, and the fault handler runs with interrupts off, so *)
(* a call is one step.                                                     *)
(***************************************************************************)
EXTENDS HashMap

CONSTANTS Spaces, VPages,     \* address spaces and the pages 1 .. n of each
          PhysFrames,         \* frames the allocator can hand out, as numbers
          COW_MAX_REFCOUNT,
          Budgets,            \* how many kmallocs of a call may succeed
          MaxCowCalls         \* bound on the client calls of a behaviour

ASSUME CopyOnWriteAssumption ==
    VPages = 1 .. Cardinality(VPages) /\ COW_MAX_REFCOUNT \in Nat \ {0}

VARIABLES pte,         \* the 4 KB entries
          allocated,   \* the frames in use
          cow,         \* s_cow_state: page_map, the blocks in it, cow_current_blocks
          cowRegions,  \* s_cow_state.regions, newest first
          writing,     \* the page each process is trying to write, 0 for none
          ended,       \* processes proc_exit(SIGSEGV) has ended
          cowCalls     \* how many client calls have been made

cowVars == <<pte, allocated, cow, cowRegions, writing, ended, cowCalls>>

BlockAddresses == DOMAIN HashOf
NotMapped == [present |-> FALSE, frame |-> 0, write |-> FALSE, cow |-> FALSE]
Mapping(f, w) == [present |-> TRUE, frame |-> f, write |-> w, cow |-> FALSE]

(* page_map_page with alloc_missing false: a present entry is refused (and *)
(* so are the unaligned address of most faults and PTE flags taken for     *)
(* VMAP flags, on the way there).                                          *)
MapEntry(p, s, v, e) ==
    IF p[<<s, v>>].present THEN [ok |-> FALSE, p |-> p]
    ELSE [ok |-> TRUE, p |-> [p EXCEPT ![<<s, v>>] = e]]

-----------------------------------------------------------------------------
(* The blocks.  c is s_cow_state during a call; c.left counts the kmallocs *)
(* that will still succeed.                                                *)

(* search_by_phys_iterator stops at the block of frame f. *)
Found(c, f, seen) ==
    IF seen # <<>> /\ c.blocks[Last(seen).value].orig_phys = f THEN Last(seen).value ELSE Missing
find_block_by_phys(c, f) ==
    Found(c, f, hashmap_foreach(c.page_map, LAMBDA e : c.blocks[e.value].orig_phys # f))

Increment(c, b) ==
    IF b = Missing \/ c.blocks[b].refcount >= COW_MAX_REFCOUNT THEN c
    ELSE [c EXCEPT !.blocks[b].refcount = @ + 1]
cow_inc_refcount(c, f) == Increment(c, find_block_by_phys(c, f))

Lowest(S) == CHOOSE x \in S : \A y \in S : x <= y

(* One kmalloc for the block and one, in hashmap_put, for its entry; the   *)
(* first is given back when the second fails.                              *)
NewBlock(c, f, b) ==
    [c EXCEPT !.blocks = [a \in DOMAIN @ \cup {b} |->
                             IF a = b THEN [orig_phys |-> f, refcount |-> 1] ELSE @[a]],
              !.page_map = hashmap_put(@, b, b, TRUE),
              !.current = @ + 1, !.left = @ - 2]

cow_add_page(c, f) ==
    IF find_block_by_phys(c, f) # Missing THEN cow_inc_refcount(c, f)
    ELSE IF c.left < 2 \/ BlockAddresses = DOMAIN c.blocks THEN c
    ELSE NewBlock(c, f, Lowest(BlockAddresses \ DOMAIN c.blocks))

\* Slip: the block is freed and left in the map.
Untracked_not_removed(c, b) ==
    [c EXCEPT !.blocks = [a \in DOMAIN @ \ {b} |-> @[a]], !.current = @ - 1]

Untracked(c, b) ==
    [c EXCEPT !.page_map = hashmap_remove(@, b),
              !.blocks = [a \in DOMAIN @ \ {b} |-> @[a]],
              !.current = @ - 1]

Decrement(c, b) ==
    IF b = Missing THEN c
    ELSE IF c.blocks[b].refcount = 1 THEN Untracked(c, b)
    ELSE [c EXCEPT !.blocks[b].refcount = @ - 1]
cow_dec_refcount(c, f) == Decrement(c, find_block_by_phys(c, f))

(* The client's call finds memory for so many kmallocs. *)
Budgeted(n) == [cow EXCEPT !.left = n]
Settle(c) == cow' = [c EXCEPT !.left = 0]

-----------------------------------------------------------------------------
(* Regions.                                                                *)

cow_mark_page_readonly(p, s, v) ==
    IF p[<<s, v>>].present THEN [p EXCEPT ![<<s, v>>].write = FALSE, ![<<s, v>>].cow = TRUE]
    ELSE p

(* One page of a region: counted twice, "parent + child", and read-only    *)
(* from now on whether or not that worked.                                 *)
RegisterPage(x, s, v) ==
    IF ~x.p[<<s, v>>].present THEN x
    ELSE LET f == x.p[<<s, v>>].frame
         IN  [c |-> cow_inc_refcount(cow_add_page(x.c, f), f),
              p |-> cow_mark_page_readonly(x.p, s, v)]

(* The pages stay registered when there is no memory for the descriptor.   *)
RegisteredRange(s, base, n, left) ==
    FoldLeft(LAMBDA y, v : RegisterPage(y, s, v), [c |-> Budgeted(left), p |-> pte],
             [i \in 1 .. n |-> base + i - 1])

cow_register_region(s, base, n, left) ==
    \E x \in {RegisteredRange(s, base, n, left)} :
       /\ Settle(x.c) /\ pte' = x.p
       /\ cowRegions' = IF x.c.left = 0 THEN cowRegions
                        ELSE <<[pml4 |-> s, start |-> base, page_count |-> n]>> \o cowRegions
       /\ UNCHANGED <<allocated, writing, ended>>

(* What is mapped there now loses a reference; the entries stay read-only. *)
cow_unregister_region(s, base) ==
    LET i == SelectInSeq(cowRegions, LAMBDA r : r.pml4 = s /\ r.start = base)
        r == cowRegions[i]
    IN  /\ i # 0
        /\ cowRegions' = RemoveAt(cowRegions, i)
        /\ Settle(FoldLeft(LAMBDA c, v : IF pte[<<s, v>>].present
                                         THEN cow_dec_refcount(c, pte[<<s, v>>].frame) ELSE c,
                           cow, [j \in 1 .. r.page_count |-> r.start + j - 1]))
        /\ UNCHANGED <<pte, allocated, writing, ended>>

-----------------------------------------------------------------------------
(* The page fault of a write: present, write and user are set.             *)

(* cow_make_writable and cow_copy_on_write, with the frames in use, the    *)
(* entries and s_cow_state afterwards.                                     *)
Unhandled == [ok |-> FALSE, used |-> allocated, p |-> pte, c |-> cow]

\* Slip: the result of page_map_page is not looked at.
cow_make_writable_unchecked(s, v, f) ==
    [ok |-> TRUE, used |-> allocated, p |-> MapEntry(pte, s, v, Mapping(f, TRUE)).p, c |-> cow]

cow_make_writable(s, v, f) ==
    LET r == MapEntry(pte, s, v, Mapping(f, TRUE))
    IN  [ok |-> r.ok, used |-> allocated, p |-> r.p, c |-> cow]

(* The result of the mapping is not looked at. *)
cow_copy_on_write(s, v, f, new) ==
    [ok |-> TRUE, used |-> allocated \cup {new}, c |-> cow_dec_refcount(cow, f),
     p |-> MapEntry(pte, s, v, Mapping(new, TRUE)).p]

(* PageTables has the search for a free one. *)
FreeFrames == PhysFrames \ allocated

ByRefcount(s, v, f, b) ==
    IF b = Missing THEN Unhandled
    ELSE IF cow.blocks[b].refcount = 1 THEN cow_make_writable(s, v, f)
    ELSE IF FreeFrames = {} THEN Unhandled
    ELSE cow_copy_on_write(s, v, f, Lowest(FreeFrames))

cow_handle_fault(s, v, e) ==
    IF ~e.present \/ e.write \/ ~e.cow THEN Unhandled
    ELSE ByRefcount(s, v, e.frame, find_block_by_phys(cow, e.frame))

(* proc_exit: the address space goes, the frames and the counts stay.      *)
pf_handler(s, v) ==
    \E r \in {cow_handle_fault(s, v, pte[<<s, v>>])} :
       /\ cow' = r.c /\ allocated' = r.used
       /\ IF r.ok THEN pte' = r.p /\ UNCHANGED <<writing, ended>>
          ELSE /\ ended' = ended \cup {s}
               /\ writing' = [writing EXCEPT ![s] = 0]
               /\ pte' = [x \in DOMAIN r.p |-> IF x[1] = s THEN NotMapped ELSE r.p[x]]
       /\ UNCHANGED cowRegions

(* The instruction that writes is run again after a handled fault.         *)
Store(s) ==
    /\ writing[s] # 0
    /\ IF pte[<<s, writing[s]>>].write
       THEN writing' = [writing EXCEPT ![s] = 0]
            /\ UNCHANGED <<pte, allocated, cow, cowRegions, ended>>
       ELSE pf_handler(s, writing[s])
    /\ UNCHANGED cowCalls

-----------------------------------------------------------------------------
(* The clients.                                                            *)

StartStore(s, v) ==
    /\ pte[<<s, v>>].present /\ writing[s] = 0
    /\ writing' = [writing EXCEPT ![s] = v]
    /\ UNCHANGED <<pte, allocated, cow, cowRegions, ended>>

MapFresh(s, v) ==
    /\ s \notin ended /\ ~pte[<<s, v>>].present /\ FreeFrames # {}
    /\ pte' = MapEntry(pte, s, v, Mapping(Lowest(FreeFrames), TRUE)).p
    /\ allocated' = allocated \cup {Lowest(FreeFrames)}
    /\ UNCHANGED <<cow, cowRegions, writing, ended>>

(* As test_cow_basic maps the second address: the same frame, read-only,   *)
(* then marked.                                                            *)
MapShared(s, v, t) ==
    /\ s # t /\ t \notin ended /\ pte[<<s, v>>].present /\ ~pte[<<t, v>>].present
    /\ pte' = cow_mark_page_readonly(
                 MapEntry(pte, t, v, Mapping(pte[<<s, v>>].frame, FALSE)).p, t, v)
    /\ UNCHANGED <<allocated, cow, cowRegions, writing, ended>>

(* vmm_free_pages and munmap, which know nothing of the counts.            *)
ReleasePage(s, v) ==
    /\ pte[<<s, v>>].present /\ writing[s] # v
    /\ pte' = [pte EXCEPT ![<<s, v>>] = NotMapped]
    /\ allocated' = allocated \ {pte[<<s, v>>].frame}
    /\ UNCHANGED <<cow, cowRegions, writing, ended>>

CowInit ==
    /\ pte = [x \in Spaces \X VPages |-> NotMapped]
    /\ allocated = {} /\ cowRegions = <<>> /\ ended = {} /\ cowCalls = 0
    /\ cow = [page_map |-> hashmap_create(2), blocks |-> <<>>, current |-> 0, left |-> 0]
    /\ writing = [s \in Spaces |-> 0]

CowCall(s) ==
    \/ \E v \in VPages : StartStore(s, v) \/ MapFresh(s, v) \/ ReleasePage(s, v)
    \/ \E v \in VPages, t \in Spaces : MapShared(s, v, t)
    \/ \E base \in VPages, n \in VPages, left \in Budgets :
          base + n - 1 \in VPages /\ cow_register_region(s, base, n, left)
    \/ \E base \in VPages : cow_unregister_region(s, base)

CowNext ==
    \/ cowCalls < MaxCowCalls /\ cowCalls' = cowCalls + 1 /\ \E s \in Spaces : CowCall(s)
    \/ \E s \in Spaces : Store(s)

(* A process that runs executes its instruction again. *)
CowFairness == \A s \in Spaces : WF_cowVars(Store(s))
CowSpec == CowInit /\ [][CowNext]_cowVars /\ CowFairness

-----------------------------------------------------------------------------
(* A block is in the map exactly while it is allocated, cow_current_blocks *)
(* counts them, no two track one frame, and none has a count of zero or    *)
(* above the maximum: what find_block_by_phys relies on when it follows    *)
(* every pointer in the map, after any calls and failed allocations.       *)
BlocksTracked ==
    /\ {e.value : e \in Range(AllEntries(cow.page_map))} = DOMAIN cow.blocks
    /\ cow.current = Cardinality(DOMAIN cow.blocks)
    /\ \A a, b \in DOMAIN cow.blocks :
          cow.blocks[a].orig_phys = cow.blocks[b].orig_phys => a = b
    /\ \A b \in DOMAIN cow.blocks : cow.blocks[b].refcount \in 1 .. COW_MAX_REFCOUNT

(* A process that writes to a page does not fault for ever: each handled   *)
(* fault takes a reference away, and at the last one the write goes        *)
(* through or the process is ended.                                        *)
StoresSettle == \A s \in Spaces : writing[s] # 0 ~> writing[s] = 0

(* A fault that cow_handle_fault reports as handled leaves the page of     *)
(* that process writable: cow.h says "If refcount=1: makes page writable   *)
(* directly" and "If refcount>1: allocates new page and copies content".   *)
HandledIsWritable ==
    [][\A s \in Spaces : Store(s) /\ cow' # cow => pte'[<<s, writing[s]>>].write]_cowVars
=============================================================================
