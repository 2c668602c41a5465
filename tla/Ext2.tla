-------------------------------- MODULE Ext2 --------------------------------
(***************************************************************************)
(* The ext2 driver (kernel/fs/ext2) as operators on a disk image: what     *)
(* mounting reads, where an inode is found, which block holds a byte of a  *)
(* file, what reading a file or searching a directory returns.             *)
(*                                                                         *)
(* An image is what a disk holds: the fields of the superblock that the    *)
(* driver uses and, for each block, the group descriptors, inodes,         *)
(* pointers or directory entries stored in it.  A byte of a data block is  *)
(* known by its block and its offset.  Every read takes the set "bad" of   *)
(* sectors that cannot be read while the call lasts: an empty set, a       *)
(* sector the disk fails, or every sector once the device is unregistered. *)
(*                                                                         *)
(* Sizes are in bytes of a scaled disk: the constants stand for the        *)
(* numbers that ext2_internal.h fixes.                                     *)
(***************************************************************************)
EXTENDS Integers, Sequences, SequencesExt

CONSTANTS
    Sector,      \* bytes of a sector (512)
    MinBlock,    \* EXT2_MIN_BLOCK_SIZE, and the superblock's offset (1024)
    Direct,      \* EXT2_NDIR_BLOCKS (12)
    Pointer,     \* bytes of a block pointer (4)
    Descriptor,  \* bytes of a group descriptor (32)
    MinEntry     \* bytes of the shortest directory entry (12)

ASSUME Ext2Assumption ==
    {Sector, MinBlock, Direct, Pointer, Descriptor, MinEntry} \subseteq Nat \ {0}

Failure == -1

DivUp(a, b) == (a + b - 1) \div b

-----------------------------------------------------------------------------
(* Reading the disk *)

\* Whether n sectors can be read from one on: all are on the disk, none is bad.
SectorsRead(image, first, n, bad) ==
    \A s \in first .. (first + n - 1) : s < image.sectors /\ s \notin bad

BlockRead(image, size, block, bad) ==
    SectorsRead(image, block * (size \div Sector), size \div Sector, bad)

\* The superblock is the two sectors at its byte offset.
ext2_read_sb_raw(image, bad) ==
    SectorsRead(image, MinBlock \div Sector, 2, bad) /\ image.magic

\* The descriptors follow the block that holds the superblock.
BgStart(size) == IF size = MinBlock THEN 2 ELSE 1

ext2_read_bg_desc(image, size, groups, bad) ==
    LET blocks == DivUp(groups * Descriptor, size)
    IN  SectorsRead(image, BgStart(size) * (size \div Sector),
                    blocks * (size \div Sector), bad)

GroupCount(image) == DivUp(image.blocks_count, image.blocks_per_group)

Sizes(image) == [block |-> MinBlock * 2 ^ image.log_block_size,
                 inode |-> image.inode_size]

-----------------------------------------------------------------------------
(* Inodes *)

\* The inode on the disk, or one numbered Failure.
ext2_read_inode(image, ino, bad) ==
    LET size == Sizes(image).block
        group == (ino - 1) \div image.inodes_per_group
        offset == ((ino - 1) % image.inodes_per_group) * Sizes(image).inode
        block == image.content[BgStart(size)][group + 1] + offset \div size
    IN  IF /\ ino \in 1 .. image.inodes_count
           /\ group < GroupCount(image)
           /\ BlockRead(image, size, block, bad)
        THEN image.content[block][1 + (offset % size) \div Sizes(image).inode]
        ELSE [ino |-> Failure]

\* The block that holds a byte of a file: 0 for a hole, Failure when it
\* cannot be told.
ext2_get_block(image, inode, offset, bad) ==
    LET size == Sizes(image).block
        index == offset \div size
        single == inode.data[Direct + 1]
    IN  CASE offset >= inode.size -> Failure
          [] offset < inode.size /\ index < Direct -> inode.data[index + 1]
          [] /\ offset < inode.size
             /\ index >= Direct /\ index - Direct < size \div Pointer ->
                 IF single # 0 /\ BlockRead(image, size, single, bad)
                 THEN image.content[single][index - Direct + 1]
                 ELSE Failure
          [] OTHER -> Failure            \* double and triple indirection

-----------------------------------------------------------------------------
(* Files *)

\* The bytes that ext2_file_read copies from a position on, at most count of
\* them: whole blocks until the count is reached, an error or a hole.
RECURSIVE Copied(_, _, _, _, _)
Copied(image, inode, pos, count, bad) ==
    LET size == Sizes(image).block
        block == ext2_get_block(image, inode, pos, bad)
        within == pos % size
        taken == IF count < size - within THEN count ELSE size - within
    IN  IF count = 0 \/ block \in {Failure, 0} THEN << >>
        ELSE IF ~BlockRead(image, size, block, bad) THEN << >>
        ELSE [i \in 1 .. taken |-> <<block, within + i - 1>>]
                 \o Copied(image, inode, pos + taken, count - taken, bad)

ext2_file_read(image, inode, pos, count, bad) ==
    IF pos >= inode.size THEN << >>
    ELSE LET rest == inode.size - pos
         IN  Copied(image, inode, pos, IF count > rest THEN rest ELSE count, bad)

-----------------------------------------------------------------------------
(* Directories *)

\* The structure ext2_dir_entry laid over an entry that mkfs.ext2 wrote: the
\* byte of the length and the byte of the type make one 16-bit length, and the
\* name starts one byte late.  An entry may also be laid out as the structure.
Decoded(entry) ==
    IF entry.layout = "structure" THEN entry
    ELSE [entry EXCEPT !.name_len = @ + 256 * entry.file_type,
                       !.name = Append(Tail(@), "pad")]

SameName(entry, name) ==
    /\ entry.name_len = Len(name)
    /\ SubSeq(entry.name, 1, entry.name_len) = name

\* The entries that a walk of a directory block meets.
RECURSIVE Walk(_, _, _)
Walk(size, entries, offset) ==
    IF entries = << >> \/ offset >= size - MinEntry THEN << >>
    ELSE LET e == Decoded(Head(entries))
         IN  IF e.inode = 0 \/ e.rec_len = 0 THEN << >>
             ELSE <<e>> \o Walk(size, Tail(entries), offset + e.rec_len)

\* The entries of the first block, the only one that is searched.
FirstBlock(image, dir, bad) ==
    LET size == Sizes(image).block
        block == ext2_get_block(image, dir, 0, bad)
    IN  IF block \in {Failure, 0} THEN << >>
        ELSE IF ~BlockRead(image, size, block, bad) THEN << >>
        ELSE Walk(size, image.content[block], 0)

\* Slip: compares the first bytes of the names only.
ext2_lookup_prefix(image, dir, name, bad) ==
    LET entries == FirstBlock(image, dir, bad)
        hits == {i \in DOMAIN entries :
                    /\ entries[i].name_len <= Len(name)
                    /\ SubSeq(name, 1, entries[i].name_len) = entries[i].name}
    IN  IF hits = {} THEN Failure
        ELSE entries[CHOOSE i \in hits : \A j \in hits : i <= j].inode

\* The inode number found under a name, or Failure.
ext2_lookup(image, dir, name, bad) ==
    LET entries == FirstBlock(image, dir, bad)
        hits == {i \in DOMAIN entries : SameName(entries[i], name)}
    IN  IF hits = {} THEN Failure
        ELSE entries[CHOOSE i \in hits : \A j \in hits : i <= j].inode

\* How far readdir moves the position: over every entry it reports.
ext2_readdir(image, dir, bad) ==
    LET entries == FirstBlock(image, dir, bad)
    IN  FoldSeq(LAMBDA e, n : n + e.rec_len, 0, entries)

-----------------------------------------------------------------------------
(* What the disk says, whatever the driver does *)

\* The inode with a number, wherever it is stored.
OnDisk(image, ino) == CHOOSE i \in image.inodes : i.ino = ino

\* The block of a file at an index, and the byte at a position.
BlockOf(image, inode, pos) == inode.blocks[1 + pos \div Sizes(image).block]
ByteOf(image, inode, pos) ==
    <<BlockOf(image, inode, pos), pos % Sizes(image).block>>

\* The number that a path of names leads to from the root (inode 2): the names
\* "." and ".." are passed over, as the resolver does.
Named(image, path) ==
    LET step(ino, name) ==
            IF name \in {<<".">>, <<".", ".">>} THEN ino
            ELSE LET found == {t.ino : t \in {t \in image.tree :
                                                t.dir = ino /\ t.name = name}}
                 IN  IF found = {} THEN Failure ELSE CHOOSE i \in found : TRUE
    IN  FoldLeft(step, 2, path)
=============================================================================
