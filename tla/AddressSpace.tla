---------------------------- MODULE AddressSpace ----------------------------
(***************************************************************************)
(* The users of the page tables: kernel/user/user.c (user stacks, brk,     *)
(* mmap, munmap), the kernel allocations of kernel/mm/vmm/vmm.c, the page  *)
(* requests of the kernel heap, and the address-space part of proc_fork    *)
(* and proc_free_pcb in kernel/process/process.c.                          *)
(*                                                                         *)
(* Addresses are page numbers: alignment is not modelled.  The kernel is   *)
(* not preempted and no interrupt handler maps memory, so every call is    *)
(* one step.  A process is a PCB with an address space of its own          *)
(* (mm_refcount 1; Threads has the counting).                              *)
(***************************************************************************)
EXTENDS PageTables

CONSTANTS Procs,
          USER_BASE, USER_END,      \* user pages are USER_BASE .. USER_END - 1
          HeapStart,                \* USER_BASE + 16 MB, where brk and mmap begin
          StackPages,               \* USER_STACK_SIZE / PAGE_SIZE
          WordPages,                \* 2^64 / PAGE_SIZE, where page counts wrap
          KERNEL_HEAP_BASE, KERNEL_HEAP_MAX, KERNEL_GENERAL_BASE, KERNEL_GENERAL_MAX,
          MAX_REGIONS,
          Device,                   \* a frame that is not RAM
          Lengths,                  \* how many pages callers ask for
          Breaks, Places,           \* what they pass to brk, and to mmap and munmap
          MaxCalls                  \* bound on the calls of a behaviour

ASSUME AddressSpaceAssumption ==
    /\ Device >= TotalFrames
    /\ USER_END <= FanOut ^ 4 \div 2 /\ KERNEL_GENERAL_MAX <= FanOut ^ 4
    /\ FanOut ^ 4 \div 2 <= KERNEL_HEAP_BASE /\ WordPages > USER_END

VARIABLES mem,         \* the memory record of PageTables
          pml4,        \* pcb->mm.pml4_phys, NoFrame without an address space
          brk,         \* pcb->mm.brk
          user_stack,  \* pcb->user_stack, 0 without a stack
          regions,     \* s_regions, as [start, end]
          virt_hint,   \* s_kernel_virt_hint
          heap_brk,    \* s_heap.heap_brk
          calls,       \* how many calls have been made
          held,        \* the ranges kernel callers hold: [start, n, phys]
          orphans      \* data pages that were mapped when their space was destroyed

procVars == <<pml4, brk, user_stack>>
kernelVars == <<regions, virt_hint, heap_brk, held>>
addressVars == <<mem, pml4, brk, user_stack, regions, virt_hint, heap_brk, held, orphans, calls>>

UserPages == USER_BASE .. USER_END - 1
KernelPages == KERNEL_HEAP_BASE .. KERNEL_GENERAL_MAX - 1
vmm_is_user_addr(v) == v \in UserPages

-----------------------------------------------------------------------------
(* Kernel half: vmm.c and the heap.                                        *)

check_region_collision(start, end) ==
    \E i \in DOMAIN regions : start < regions[i].end /\ end > regions[i].start

(* The first page at the hint or after it from which n pages are in no     *)
(* region, 0 if there is none.                                             *)
find_free_virt_range(n) ==
    LET free == {v \in virt_hint .. KERNEL_GENERAL_MAX - n : ~check_region_collision(v, v + n)}
    IN  IF free = {} THEN 0 ELSE Min(free)

(* A full table drops the region. *)
add_region(start, end) ==
    regions' = IF Len(regions) >= MAX_REGIONS THEN regions
               ELSE Append(regions, [start |-> start, end |-> end])

find_region(v) == \E i \in DOMAIN regions : v >= regions[i].start /\ v < regions[i].end

(* The range is taken from the hint before any page is mapped, and is not  *)
(* given back if that fails.                                               *)
vmm_alloc_pages(n) ==
    LET v == find_free_virt_range(n)
        r == MapOrRollBack(mem, KernelPml4, v, n, KernelPages)
    IN  /\ v # 0
        /\ virt_hint' = v + n
        /\ mem' = r.m
        /\ IF r.ok THEN /\ add_region(v, v + n)
                        /\ held' = held \cup {[start |-> v, n |-> n, phys |-> FALSE]}
           ELSE UNCHANGED <<regions, held>>
        /\ UNCHANGED <<procVars, heap_brk, orphans>>

(* The region stays in the table. *)
vmm_free_pages(h) ==
    /\ ~h.phys
    /\ mem' = ReleasePages(mem, KernelPml4, h.start, h.n)
    /\ held' = held \ {h}
    /\ UNCHANGED <<procVars, regions, virt_hint, heap_brk, orphans>>

vmm_map_physical ==
    LET v == find_free_virt_range(1)
        r == page_map_page(mem, KernelPml4, v, Device)
    IN  /\ v # 0
        /\ virt_hint' = v + 1
        /\ mem' = r.m
        /\ IF r.ok THEN /\ add_region(v, v + 1)
                        /\ held' = held \cup {[start |-> v, n |-> 1, phys |-> TRUE]}
           ELSE UNCHANGED <<regions, held>>
        /\ UNCHANGED <<procVars, heap_brk, orphans>>

(* A mapping that found no room in the table cannot be undone. *)
vmm_unmap_physical(h) ==
    /\ h.phys /\ find_region(h.start)
    /\ mem' = page_unmap_page(mem, KernelPml4, h.start)
    /\ held' = held \ {h}
    /\ UNCHANGED <<procVars, regions, virt_hint, heap_brk, orphans>>

(* expand_heap_locked, through vmm_alloc_pages_at.  Nothing keeps the      *)
(* break below KERNEL_HEAP_MAX; AddressEnd does, in the model, at the end  *)
(* of the page tables.                                                     *)
AddressEnd == KERNEL_GENERAL_MAX

expand_heap(n) ==
    LET r == MapOrRollBack(mem, KernelPml4, heap_brk, n, KernelPages)
    IN  /\ heap_brk + n <= AddressEnd
        /\ mem' = r.m
        /\ IF r.ok THEN /\ add_region(heap_brk, heap_brk + n)
                        /\ heap_brk' = heap_brk + n
                        /\ virt_hint' = Max({virt_hint, heap_brk + n})
           ELSE UNCHANGED <<regions, heap_brk, virt_hint>>
        /\ UNCHANGED <<procVars, held, orphans>>

-----------------------------------------------------------------------------
(* User half.                                                              *)

(* A new address space, with the parent's break: proc_fork, or a process   *)
(* that the kernel starts (break 0).  No frame: no child.                  *)
NewSpace(p, b) ==
    LET a == vmm_create_user_space(mem)
    IN  /\ pml4[p] = NoFrame
        /\ mem' = a.m /\ pml4' = [pml4 EXCEPT ![p] = a.frame]
        /\ brk' = [brk EXCEPT ![p] = IF a.frame = NoFrame THEN 0 ELSE b]
        /\ UNCHANGED <<user_stack, kernelVars, orphans>>

proc_fork(q, p) == pml4[q] # NoFrame /\ NewSpace(p, brk[q])

(* USER_END is one byte short of a page boundary and the stack's address   *)
(* is rounded down, so a page is left above the stack.                     *)
StackBase == USER_END - StackPages - 1

user_create_process(p) ==
    LET r == MapOrRollBack(mem, pml4[p], StackBase, StackPages, UserPages)
    IN  /\ pml4[p] # NoFrame /\ user_stack[p] = 0
        /\ mem' = r.m
        /\ user_stack' = [user_stack EXCEPT ![p] = IF r.ok THEN StackBase ELSE 0]
        /\ UNCHANGED <<pml4, brk, kernelVars, orphans>>

(* The frames mapped in the user half of an address space. *)
Leaves(m, root, pages) == {page_virt_to_phys(m, root, v) : v \in pages} \ {NoFrame}

(* user_destroy_process and proc_free_pcb: the stack, then the tables. *)
FreeUserStack(m, p) ==
    IF user_stack[p] = 0 THEN m ELSE ReleasePages(m, pml4[p], user_stack[p], StackPages)

proc_free_pcb(p) ==
    LET m == FreeUserStack(mem, p)
    IN  /\ pml4[p] # NoFrame
        /\ mem' = vmm_destroy_user_space(m, pml4[p])
        /\ orphans' = orphans \cup Leaves(m, pml4[p], UserPages)
        /\ pml4' = [pml4 EXCEPT ![p] = NoFrame]
        /\ brk' = [brk EXCEPT ![p] = 0] /\ user_stack' = [user_stack EXCEPT ![p] = 0]
        /\ UNCHANGED kernelVars

(* user_brk for growth: the first break is taken to be HeapStart, the page *)
(* count is unsigned, and running out of frames keeps the pages that were  *)
(* mapped before.                                                          *)
OldBreak(p) == IF brk[p] = 0 THEN HeapStart ELSE brk[p]
AdditionalPages(p, b) == (b - OldBreak(p)) % WordPages

GrowBreak(p, b) ==
    LET s == MapPages(mem, pml4[p], OldBreak(p), AdditionalPages(p, b), UserPages)
    IN  /\ mem' = IF s.failed = "oom" THEN s.m ELSE RolledBack(s, pml4[p], OldBreak(p))
        /\ brk' = IF s.failed = "" THEN [brk EXCEPT ![p] = b] ELSE brk

user_brk(p, b) ==
    /\ pml4[p] # NoFrame
    /\ b >= USER_BASE /\ b < USER_END - StackPages
    /\ IF b <= brk[p] THEN brk' = [brk EXCEPT ![p] = b] /\ UNCHANGED mem
       ELSE GrowBreak(p, b)
    /\ UNCHANGED <<pml4, user_stack, kernelVars, orphans>>

(* Where mmap looks when no address is given: at the break, whether or not *)
(* something is mapped there.                                              *)
MmapBase(p, a) == IF a # 0 THEN a ELSE Max({HeapStart, brk[p]})

MapUser(p, v, n) ==
    /\ pml4[p] # NoFrame
    /\ mem' = MapOrRollBack(mem, pml4[p], v, n, UserPages).m
    /\ UNCHANGED <<procVars, kernelVars, orphans>>

user_mmap(p, a, n) == MapUser(p, MmapBase(p, a), n)

(* user_find_free_region answers USER_BASE for everything that fits. *)
user_find_free_region(n) == IF USER_BASE + n < USER_END THEN USER_BASE ELSE 0

user_map_region(p, n) ==
    /\ user_find_free_region(n) # 0
    /\ MapUser(p, user_find_free_region(n), n)

(* user_munmap and user_unmap_region, for ranges inside user space (only   *)
(* the start of the range is checked).                                     *)
user_munmap(p, a, n) ==
    /\ pml4[p] # NoFrame /\ vmm_is_user_addr(a) /\ a + n <= USER_END
    /\ mem' = ReleasePages(mem, pml4[p], a, n)
    /\ UNCHANGED <<procVars, kernelVars, orphans>>

-----------------------------------------------------------------------------
(* After heap_init: the first heap page, and the tables that lead to it.   *)
BootMemory ==
    MapPages([used |-> Reserved, hint |-> MinAlloc,
              tab |-> [f \in FrameNumbers |-> EmptyTable]],
             KernelPml4, KERNEL_HEAP_BASE, 1, KernelPages).m

AddressInit ==
    /\ mem = BootMemory
    /\ pml4 = [p \in Procs |-> NoFrame] /\ brk = [p \in Procs |-> 0]
    /\ user_stack = [p \in Procs |-> 0]
    /\ regions = <<[start |-> KERNEL_HEAP_BASE, end |-> KERNEL_HEAP_MAX],
                   [start |-> KERNEL_HEAP_BASE, end |-> KERNEL_HEAP_BASE + 1]>>
    /\ virt_hint = KERNEL_GENERAL_BASE /\ heap_brk = KERNEL_HEAP_BASE + 1
    /\ held = {} /\ orphans = {} /\ calls = 0

KernelNext ==
    \/ \E n \in Lengths : vmm_alloc_pages(n) \/ expand_heap(n)
    \/ \E h \in held : vmm_free_pages(h) \/ vmm_unmap_physical(h)
    \/ vmm_map_physical

UserNext(p) ==
    \/ NewSpace(p, 0)
    \/ \E q \in Procs : proc_fork(q, p)
    \/ user_create_process(p)
    \/ proc_free_pcb(p)
    \/ \E b \in Breaks : user_brk(p, b)
    \/ \E n \in Lengths : user_map_region(p, n)
    \/ \E n \in Lengths, a \in Places : user_mmap(p, a, n) \/ user_munmap(p, a, n)

(* A call that changes nothing is not counted: it is a stuttering step.    *)
AddressNext ==
    /\ calls < MaxCalls
    /\ KernelNext \/ \E p \in Procs : UserNext(p)
    /\ calls' = IF UNCHANGED <<mem, procVars, kernelVars, orphans>> THEN calls ELSE calls + 1

AddressSpec == AddressInit /\ [][AddressNext]_addressVars

-----------------------------------------------------------------------------
LivePml4s == {pml4[p] : p \in Procs} \ {NoFrame}

(* The page-table entries of the kernel, and those of each process that    *)
(* are its own.                                                            *)
EntriesFrom(root, top) ==
    ({root} \X top) \cup (TablesUnder(mem, root, top) \X Index)

Entries == EntriesFrom(KernelPml4, Index)
           \cup UNION {EntriesFrom(r, UserHalf) : r \in LivePml4s}

Target(e) == mem.tab[e[1]][e[2]]
RamEntries == {e \in Entries : Target(e) \notin {NoFrame, Device}}

(* No frame of RAM has two uses: each is named by one entry of one page    *)
(* table, or is the PML4 of one process, and is neither reserved nor a     *)
(* page that a destroyed process left behind.  This is what pframe_alloc,  *)
(* and every rollback that gives frames back, has to keep true for         *)
(* processes not to share memory.                                          *)
FramesHaveOneUse ==
    /\ \A e, f \in RamEntries : Target(e) = Target(f) => e = f
    /\ \A p, q \in Procs : pml4[p] = pml4[q] /\ pml4[p] # NoFrame => p = q
    /\ LET targets == {Target(e) : e \in RamEntries}
       IN  /\ targets \cap (LivePml4s \cup Reserved \cup orphans) = {}
           /\ LivePml4s \cap (Reserved \cup orphans) = {}

(* The bitmap is exact: a frame is marked used if and only if it is        *)
(* reserved, in use, or was still mapped when its process ended (the pages *)
(* vmm_destroy_user_space leaves to "the process/memory manager").  No     *)
(* failure path of fork, brk, mmap, the stack or the kernel's requests     *)
(* loses a frame or frees one that is mapped.                              *)
FramesAccounted ==
    mem.used = Reserved \cup LivePml4s \cup {Target(e) : e \in RamEntries} \cup orphans

(* What the kernel holds is mapped, held once, and seen by every process   *)
(* (whose PML4 has a copy of the kernel's upper half, made when it         *)
(* started): the pages of every vmm_alloc_pages and vmm_map_physical not   *)
(* undone yet, and the heap from its base to its break.  The heap may grow *)
(* into the general area, a full region table drops regions, and those     *)
(* that were freed stay in it.                                             *)
PagesOf(h) == h.start .. h.start + h.n - 1
HeapPages == KERNEL_HEAP_BASE .. heap_brk - 1
KernelRangesBacked ==
    /\ \A h \in held : PagesOf(h) \cap HeapPages = {}
    /\ \A h, k \in held : h # k => PagesOf(h) \cap PagesOf(k) = {}
    /\ \A v \in HeapPages \cup UNION {PagesOf(h) : h \in held} :
          LET f == page_virt_to_phys(mem, KernelPml4, v)
          IN  f # NoFrame /\ \A r \in LivePml4s : page_virt_to_phys(mem, r, v) = f

Translation(m, root, pages) ==
    IF root = NoFrame THEN <<>> ELSE [v \in pages |-> page_virt_to_phys(m, root, v)]

(* A call changes the translations of one address space at most: what one  *)
(* process maps, unmaps, or does by ending never shows in another process  *)
(* or in the kernel.                                                       *)
OneSpaceChanges ==
    [][LET changed == {p \in Procs : Translation(mem, pml4[p], UserPages)
                                     # Translation(mem', pml4'[p], UserPages)}
           kernel == Translation(mem, KernelPml4, KernelPages)
                     # Translation(mem', KernelPml4, KernelPages)
       IN  Cardinality(changed) <= (IF kernel THEN 0 ELSE 1)]_addressVars

(* mmap maps all the pages asked for or none, and changes no translation   *)
(* that was there before, also when frames run out for a page or for a     *)
(* table in the middle of the range.                                       *)
MmapAllOrNothing ==
    [][\A p \in Procs :
          LET before == Translation(mem, pml4[p], UserPages)
              after == Translation(mem', pml4'[p], UserPages)
              new == {v \in UserPages : before[v] # after[v]}
          IN  pml4[p] # NoFrame /\ UNCHANGED procVars /\ before # after =>
                 \A a \in Places, n \in Lengths :
                    user_mmap(p, a, n) =>
                       /\ new = MmapBase(p, a) .. MmapBase(p, a) + n - 1
                       /\ \A v \in new : before[v] = NoFrame]_addressVars

(* A break that moves up has memory behind it: the pages between the old   *)
(* break and the new one were not mapped before the call and are now.      *)
BreakBacked ==
    [][\A p \in Procs :
          pml4[p] # NoFrame /\ brk'[p] > brk[p] =>
             \A v \in OldBreak(p) .. brk'[p] - 1 :
                /\ page_virt_to_phys(mem, pml4[p], v) = NoFrame
                /\ page_virt_to_phys(mem', pml4[p], v) # NoFrame]_addressVars
=============================================================================
