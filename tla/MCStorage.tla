----------------------------- MODULE MCStorage -----------------------------
(***************************************************************************)
(* TLC instances of memory and files: the physical frames that the BIOS    *)
(* map leaves, the address spaces built from frames, the ATA driver and    *)
(* the file system.  They share no state; a behaviour runs one of Parts,   *)
(* the others stay as they started.                                        *)
(***************************************************************************)
EXTENDS AddressSpace, PhysicalMemory, Ata, Vfs, TLC

CONSTANT Parts

VARIABLE part

(* Memory maps: a page cut in two, holes and a reserved entry; memory that *)
(* starts late; an empty entry and an overlap; more than the bitmap holds; *)
(* too many entries; none.                                                 *)
Area(base, length, type) == [base |-> base, length |-> length, type |-> type]
MCMaps ==
    {<<Area(0, 7, 1), Area(8, 8, 2), Area(18, 30, 1)>>,
     <<Area(25, 2, 1), Area(28, 20, 1), Area(48, 4, 2)>>,
     <<Area(0, 48, 1), Area(30, 0, 1), Area(28, 4, 2)>>,
     <<Area(0, 400, 1)>>,
     <<Area(0, 4, 1), Area(4, 4, 1), Area(8, 4, 1), Area(12, 40, 1)>>,
     << >>}
MCAreas == {Area(0, 8, 0), Area(8, 8, 0)}
MCBitmap == Area(14, 9, 0)

(* Transfers in range, one that passes the LBA28 limit, and one for a      *)
(* drive that is not there.                                                *)
Transfer(kind, drive, lba, n) == [kind |-> kind, drive |-> drive, lba |-> lba, sectors |-> n]
MCRequests == {Transfer("read", 0, 1, 2), Transfer("read", 0, 4, 1),
               Transfer("read", 1, 0, 3), Transfer("write", 0, 1, 2)}

(* A disk as mkfs would lay it out, scaled: blocks of 4 bytes, 2 sectors    *)
(* each, 2 inodes per block, 4 inodes per group, 2 direct blocks and 2      *)
(* pointers per block.                                                      *)
Reg(n, size, data, blocks) ==
    [ino |-> n, type |-> "reg", size |-> size, data |-> data, blocks |-> blocks]
Dir(n, data) == [ino |-> n, type |-> "dir", size |-> 4, data |-> data, blocks |-> <<data[1]>>]
None(n) == [ino |-> n, type |-> "none", size |-> 0, data |-> <<0, 0, 0>>, blocks |-> << >>]

En(l, ino, len, type, name) ==
    [layout |-> l, inode |-> ino, rec_len |-> len, name_len |-> Len(name),
     file_type |-> type, name |-> name]

Root == Dir(2, <<8, 0, 0>>)
Sub == Dir(5, <<9, 0, 0>>)
Long == Reg(6, 17, <<10, 11, 12>>, <<10, 11, 13, 14, 15>>)
Sparse == Reg(3, 6, <<0, 11, 0>>, <<0, 11>>)

Disk(l, root) ==
    [sectors |-> 32, magic |-> TRUE, log_block_size |-> 0, inode_size |-> 2,
     blocks_count |-> 16, blocks_per_group |-> 8, inodes_per_group |-> 4,
     inodes_count |-> 8,
     content |-> (2 :> <<4, 6>>) @@ (4 :> <<None(1), root>>) @@ (5 :> <<Sparse, None(4)>>)
                 @@ (6 :> <<Sub, Long>>) @@ (7 :> <<None(7), None(8)>>)
                 @@ (8 :> <<En(l, 3, 1, 1, <<"a">>), En(l, 5, 1, 2, <<"a", "b">>)>>)
                 @@ (9 :> <<En(l, 6, 1, 1, <<"a">>), En(l, 0, 1, 0, <<"c">>)>>)
                 @@ (12 :> <<13, 14>>),
     inodes |-> {None(1), root, Sparse, None(4), Sub, Long, None(7), None(8)},
     tree |-> {[dir |-> 2, name |-> <<"a">>, ino |-> 3],
               [dir |-> 2, name |-> <<"a", "b">>, ino |-> 5],
               [dir |-> 5, name |-> <<"a">>, ino |-> 6]}]

MCImages == (0 :> Disk("structure", Root)) @@ (1 :> Disk("mkfs", Root))
            @@ (2 :> Disk("mkfs", None(2)))
MCPaths == {<< >>, <<<<"a">>>>, <<<<"a", "b">>>>, <<<<"a", "b">>, <<"a">>>>,
            <<<<".", ".">>, <<"a">>, <<"a">>>>}
MCOpens == {[access |-> "WRONLY", excl |-> FALSE], [access |-> "RDWR", excl |-> TRUE]}
MCBounds ==
    {[calls |-> 5, mounts |-> 2, disks |-> {0}, reading |-> TRUE, caching |-> FALSE],
     [calls |-> 4, mounts |-> 2, disks |-> {0, 1, 2}, reading |-> FALSE, caching |-> FALSE],
     [calls |-> 6, mounts |-> 1, disks |-> {0}, reading |-> FALSE, caching |-> TRUE]}
MCSeeks == {-3, 5}

Symmetry == Permutations(Procs)

vars == <<part, addressVars, frameVars, ataVars, vfsVars>>

Init ==
    /\ part \in Parts
    /\ AddressInit /\ FrameInit /\ AtaInit /\ VfsInit
    /\ part # "frames" => e820 = e820_init(<< >>) /\ pframe = NoPframe
    /\ part # "files" => bound = CHOOSE b \in Bounds : TRUE

Next ==
    /\ UNCHANGED part
    /\ \/ part = "memory" /\ AddressNext /\ UNCHANGED <<frameVars, ataVars, vfsVars>>
       \/ part = "frames" /\ FrameNext /\ UNCHANGED <<addressVars, ataVars, vfsVars>>
       \/ part = "disk" /\ AtaNext /\ UNCHANGED <<addressVars, frameVars, vfsVars>>
       \/ part = "files" /\ VfsNext /\ UNCHANGED <<addressVars, frameVars, ataVars>>

Spec == Init /\ [][Next]_vars

-----------------------------------------------------------------------------
(* Every frame has one use and is marked while it has one, and what the    *)
(* kernel holds is mapped, whichever failure path fork, brk, mmap, the     *)
(* stack or the kernel's requests took (vmm.c, user.c, pframe.c).          *)
FramesSound ==
    part = "memory" => FramesHaveOneUse /\ FramesAccounted /\ KernelRangesBacked

(* A call changes one address space at most, mmap maps all it was asked    *)
(* for or nothing, and a break that moves up has memory behind it (user.c, *)
(* vmm.c).                                                                 *)
CallsKeepSpaces == OneSpaceChanges /\ MmapAllOrNothing /\ BreakBacked

(* Reads that end well hold the sectors asked for, and asynchronous        *)
(* transfers complete once and in their order (ata.c).                     *)
DiskReads == part = "disk" => ReadsExact /\ CompletedInOrder

(* No inode is freed while something points to it, and none is cached      *)
(* twice, after any calls and failures (vfs_inode.c, vfs_dentry.c).        *)
InodesKept == part = "files" => InodesHeld /\ InodesUnique

(* What is opened is what the path names on the disk, and what is read is  *)
(* what it holds there (ext2_dir.c, ext2_file.c).                          *)
FilesAsOnDisk == part = "files" => OpenedAsNamed /\ ReadsContent
=============================================================================
