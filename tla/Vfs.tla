-------------------------------- MODULE Vfs --------------------------------
(***************************************************************************)
(* The virtual file system (kernel/fs/vfs) over the ext2 driver and the    *)
(* block devices (kernel/fs/block/block.c): mounting, the inode cache,     *)
(* path resolution, open files and the dentry cache.                       *)
(*                                                                         *)
(* No call of the file system gives up the processor, so each is one step; *)
(* what is hard is the order of calls and the failures inside them.  Every *)
(* call may meet one failing sector.                                       *)
(*                                                                         *)
(* Objects have addresses, and the heap reuses the address of a freed one. *)
(* Ghost fields record what an object was made for: "path" of a file,      *)
(* "fresh" of a superblock at an address no earlier one had.               *)
(***************************************************************************)
EXTENDS Ext2, FiniteSets, FiniteSetsExt

CONSTANTS
    Images,      \* what the disks hold: a function from device numbers
    Faults,      \* sectors that may fail to be read
    Opens,       \* flags of vfs_open: [access, excl]
    Paths,       \* paths that are opened: sequences of names
    MountPoints, \* paths that are mounted on; "/" is the root
    Seeks,       \* offsets given to vfs_lseek
    Counts,      \* byte counts given to vfs_read
    Names,       \* names of dentries
    Supers,      \* bound: addresses of superblocks
    InodeIds,    \* bound: addresses of inodes
    Files,       \* bound: addresses of file objects
    Dentries,    \* bound: addresses of dentries
    Wrap,        \* values of a file position (2^64)
    Bounds       \* bounds of the scenes explored: records of limits

ASSUME VfsAssumption ==
    /\ \A b \in Bounds : {b.calls, b.mounts} \subseteq Nat
    /\ Opens \subseteq [access : {"RDONLY", "WRONLY", "RDWR"}, excl : BOOLEAN]
    /\ \A b \in Bounds : b.disks \subseteq DOMAIN Images
    /\ \A b \in Bounds : {b.reading, b.caching} \subseteq BOOLEAN
    /\ Wrap \in Nat \ {0}

VARIABLES
    devices,     \* block_registry: [registered, private, ref_count] by number
    supers,      \* superblocks by address
    supersUsed,  \* addresses that have held a superblock
    mounts,      \* mount_table.mounts
    root_sb,     \* vfs_state.root_sb
    inodes,      \* inodes by address
    hash,        \* the inode hash table, newest first
    files,       \* file objects by address
    dentries,    \* dentries by address
    dhash,       \* the dentry hash table, newest first
    last,        \* the last read
    vfsCalls,    \* calls made
    bound        \* the limits in force

vfsVars == <<devices, supers, supersUsed, mounts, root_sb, inodes, hash, files,
             dentries, dhash, last, vfsCalls, bound>>

NULL == 0
Free == [live |-> FALSE]
NoRead == [of |-> "none"]

\* A device as it is made and then registered.
ata_create_block_device == [registered |-> FALSE, private |-> TRUE, ref_count |-> 0]
block_device_register(dev) == [dev EXCEPT !.registered = TRUE, !.ref_count = 1]
ata_block_init == [d \in DOMAIN Images |-> block_device_register(ata_create_block_device)]

vfs_inode_cache_init == inodes = [i \in InodeIds |-> Free] /\ hash = << >>
vfs_dentry_cache_init == dentries = [d \in Dentries |-> Free] /\ dhash = << >>
vfs_file_cache_init == files = [f \in Files |-> Free]
vfs_mount_table_init == mounts = << >>

vfs_init ==
    /\ supers = [s \in Supers |-> Free]
    /\ root_sb = NULL
    /\ vfs_inode_cache_init
    /\ vfs_dentry_cache_init
    /\ vfs_file_cache_init
    /\ vfs_mount_table_init

\* What fs_init leaves.
VfsInit ==
    /\ devices = ata_block_init
    /\ vfs_init
    /\ supersUsed = {}
    /\ last = NoRead
    /\ vfsCalls = 0
    /\ bound \in Bounds

-----------------------------------------------------------------------------
(* Block devices *)

\* The sectors a call cannot read: every one without the private data that
\* block_device_unregister frees, or at most one that the disk fails.
BadSectors(d) ==
    IF ~devices[d].private THEN {0 .. (Images[d].sectors - 1)}
    ELSE {{}} \cup {{s} : s \in Faults}

block_device_get(devs, d) ==
    IF devs[d].registered THEN [devs EXCEPT ![d].ref_count = @ + 1] ELSE devs

block_device_put(devs, d) ==
    IF devs[d].ref_count > 0 THEN [devs EXCEPT ![d].ref_count = @ - 1] ELSE devs

block_device_unregister(d) ==
    /\ devices[d].registered
    /\ devices' = [devices EXCEPT ![d].registered = FALSE, ![d].private = FALSE]
    /\ last' = NoRead
    /\ UNCHANGED <<supers, supersUsed, mounts, root_sb, inodes, hash, files,
                   dentries, dhash>>

-----------------------------------------------------------------------------
(* The inode cache.  A cache is [inodes, hash]. *)

Cache == [inodes |-> inodes, hash |-> hash]

ImageOf(sb) == Images[supers[sb].dev]

\* New inodes come with one reference; fs code has filled them in.
vfs_alloc_inode(sb, ino, disk) ==
    [live |-> TRUE, sb |-> sb, ino |-> ino, count |-> 1, disk |-> disk]
vfs_alloc_super(d, root, fresh) ==
    [live |-> TRUE, dev |-> d, root |-> root, fresh |-> fresh]

FreeInodes(c) == {i \in InodeIds : ~c.inodes[i].live}

\* The cached inode with a key: the first one in its hash chain.
Cached(c, sb, ino) ==
    SelectSeq(c.hash, LAMBDA i : c.inodes[i].sb = sb /\ c.inodes[i].ino = ino)

vfs_free_inode(c, i) ==
    [inodes |-> [c.inodes EXCEPT ![i] = Free],
     hash |-> SelectSeq(c.hash, LAMBDA j : j # i)]

\* Releases one reference; the last one frees.  No inode is ever dirty: no
\* file system here can write.
vfs_iput(c, i) ==
    LET n == [c EXCEPT !.inodes[i].count = IF @ > 0 THEN @ - 1 ELSE @]
    IN  IF n.inodes[i].count = 0 THEN vfs_free_inode(n, i) ELSE n

\* The inode with a number, from the cache or the disk, with one more
\* reference; NULL when it cannot be allocated or read.  The number kept is
\* the one asked for, whatever was read.
vfs_iget(c, sb, image, ino, bad) ==
    LET found == Cached(c, sb, ino)
        disk == ext2_read_inode(image, ino, bad)
        new == Min(FreeInodes(c))
    IN  IF found # << >>
        THEN [c |-> [c EXCEPT !.inodes[found[1]].count = @ + 1], i |-> found[1]]
        ELSE IF FreeInodes(c) = {} \/ disk.ino = Failure THEN [c |-> c, i |-> NULL]
        ELSE [c |-> [inodes |-> [c.inodes EXCEPT ![new] =
                         vfs_alloc_inode(sb, ino, disk)],
                     hash |-> <<new>> \o c.hash],
              i |-> new]

vfs_is_dir(c, i) == c.inodes[i].disk.type = "dir"

-----------------------------------------------------------------------------
(* Mounting *)

ext2_put_super(devs, d) == block_device_put(devs, d)

\* A failure at the root inode has given back the device and freed the private
\* data; vfs_free_super then calls ext2_put_super on them once more.
MountFails(d, c) ==
    /\ devices' = ext2_put_super(block_device_put(block_device_get(devices, d), d), d)
    /\ inodes' = c.inodes /\ hash' = c.hash
    /\ UNCHANGED <<supers, supersUsed, mounts, root_sb>>

\* The mount structure cannot be allocated: the superblock goes, its root
\* inode stays in the cache.
MountLost(sb, d, c) ==
    /\ devices' = ext2_put_super(block_device_get(devices, d), d)
    /\ inodes' = c.inodes /\ hash' = c.hash
    /\ supersUsed' = supersUsed \cup {sb}
    /\ UNCHANGED <<supers, mounts, root_sb>>

Mounted(sb, d, path, c, root) ==
    /\ devices' = block_device_get(devices, d)
    /\ inodes' = c.inodes /\ hash' = c.hash
    /\ supers' = [supers EXCEPT ![sb] =
                     vfs_alloc_super(d, root, sb \notin supersUsed)]
    /\ supersUsed' = supersUsed \cup {sb}
    /\ mounts' = Append(mounts, [path |-> path, sb |-> sb])
    /\ root_sb' = IF path = "/" THEN sb ELSE root_sb

\* The root inode, once superblock and descriptors have been read.
ext2_mount(sb, d, bad) ==
    IF /\ devices[d].registered
       /\ ext2_read_sb_raw(Images[d], bad)
       /\ ext2_read_bg_desc(Images[d], Sizes(Images[d]).block,
                            GroupCount(Images[d]), bad)
    THEN {vfs_iget(Cache, sb, Images[d], 2, bad)}
    ELSE {}

vfs_mount(d, path) ==
    /\ \E sb \in {s \in Supers : ~supers[s].live}, bad \in BadSectors(d) :
           \E got \in ext2_mount(sb, d, bad) :
               IF got.i = NULL THEN MountFails(d, got.c)
               ELSE IF ~vfs_is_dir(got.c, got.i)
                    THEN MountFails(d, vfs_iput(got.c, got.i))
                    ELSE \/ MountLost(sb, d, got.c)
                         \/ Mounted(sb, d, path, got.c, got.i)
    /\ last' = NoRead
    /\ UNCHANGED <<files, dentries, dhash>>

\* The first mount at a path goes, unless it is the root; nothing asks whether
\* its inodes or files are in use.
vfs_umount(path) ==
    LET at == SelectInSeq(mounts, LAMBDA m : m.path = path)
        sb == mounts[at].sb
    IN  /\ at # 0
        /\ sb # root_sb
        /\ mounts' = RemoveAt(mounts, at)
        /\ supers' = [supers EXCEPT ![sb] = Free]
        /\ devices' = ext2_put_super(devices, supers[sb].dev)
        /\ last' = NoRead
        /\ UNCHANGED <<supersUsed, root_sb, inodes, hash, files, dentries, dhash>>

-----------------------------------------------------------------------------
(* Paths and open files *)

\* One name of a path, from the inode reached so far; NULL once it failed.
NextComponent(at, name, bad) ==
    LET sb == at.c.inodes[at.i].sb
        found == ext2_lookup(ImageOf(sb), at.c.inodes[at.i].disk, name, bad)
        got == vfs_iget(at.c, sb, ImageOf(sb), found, bad)
    IN  IF at.i = NULL \/ name \in {<<".">>, <<".", ".">>} THEN at
        ELSE IF ~vfs_is_dir(at.c, at.i) \/ found = Failure
             THEN [c |-> vfs_iput(at.c, at.i), i |-> NULL]
             ELSE [c |-> vfs_iput(got.c, at.i), i |-> got.i]

\* From the root, with a reference to the inode found.
vfs_path_lookup(path, bad) ==
    LET root == supers[root_sb].root
        step(at, name) == NextComponent(at, name, bad)
    IN  FoldLeft(step, [c |-> [Cache EXCEPT !.inodes[root].count = @ + 1],
                        i |-> root], path)

\* flags & O_RDWR: only the bit of O_RDWR is looked at.
FileMode(access) == IF access = "RDWR" THEN {"READ", "WRITE"} ELSE {"READ"}

\* The file's own reference; the one the lookup took stays too.
vfs_open_inode(c, i) == [c EXCEPT !.inodes[i].count = @ + 1]

OpenFile(f, path, access, at) ==
    /\ inodes' = vfs_open_inode(at.c, at.i).inodes
    /\ hash' = vfs_open_inode(at.c, at.i).hash
    /\ files' = [files EXCEPT ![f] =
                    [live |-> TRUE, inode |-> at.i, pos |-> 0, mode |-> FileMode(access),
                     path |-> path, dev |-> supers[root_sb].dev,
                     fresh |-> supers[root_sb].fresh]]

CallFails(c) == inodes' = c.inodes /\ hash' = c.hash /\ UNCHANGED files

vfs_open(path, access, excl) ==
    /\ root_sb # NULL
    /\ \E bad \in BadSectors(supers[root_sb].dev) :
           \E at \in {vfs_path_lookup(path, bad)} :
               IF at.i = NULL THEN CallFails(at.c)
               ELSE IF excl \/ \A f \in Files : files[f].live
                    THEN CallFails(vfs_iput(at.c, at.i))
                    ELSE OpenFile(Min({f \in Files : ~files[f].live}), path, access, at)
    /\ last' = NoRead
    /\ UNCHANGED <<devices, supers, supersUsed, mounts, root_sb, dentries, dhash>>

vfs_close(f) ==
    /\ files[f].live
    /\ files' = [files EXCEPT ![f] = Free]
    /\ \E c \in {vfs_iput(Cache, files[f].inode)} :
           inodes' = c.inodes /\ hash' = c.hash
    /\ last' = NoRead
    /\ UNCHANGED <<devices, supers, supersUsed, mounts, root_sb, dentries, dhash>>

\* What a read of a file whose superblock is gone does is undefined.
vfs_read(f, count) ==
    /\ files[f].live
    /\ LET inode == inodes[files[f].inode]
       IN  IF ~supers[inode.sb].live
           THEN last' = [of |-> "gone"] /\ UNCHANGED files
           ELSE IF "READ" \notin files[f].mode \/ inode.disk.type # "reg"
           THEN last' = NoRead /\ UNCHANGED files
           ELSE \E bad \in BadSectors(supers[inode.sb].dev) :
                \E bytes \in {ext2_file_read(ImageOf(inode.sb), inode.disk,
                                             files[f].pos, count, bad)} :
                    /\ files' = [files EXCEPT ![f].pos = @ + Len(bytes)]
                    /\ last' = [of |-> "file", file |-> f, pos |-> files[f].pos,
                                count |-> count, bytes |-> bytes, bad |-> bad]
    /\ UNCHANGED <<devices, supers, supersUsed, mounts, root_sb, inodes, hash,
                   dentries, dhash>>

\* ext2 cannot write: every path ends in an error.
vfs_write(f) ==
    /\ files[f].live
    /\ last' = NoRead
    /\ UNCHANGED <<devices, supers, supersUsed, mounts, root_sb, inodes, hash,
                   files, dentries, dhash>>

vfs_lseek(f, offset, whence) ==
    /\ files[f].live
    /\ LET from == CASE whence = "SET" -> 0
                     [] whence = "CUR" -> files[f].pos
                     [] whence = "END" -> inodes[files[f].inode].disk.size
           new == (from + offset) % Wrap
       IN  files' = IF offset < 0 /\ new > files[f].pos THEN files
                    ELSE [files EXCEPT ![f].pos = new]
    /\ last' = NoRead
    /\ UNCHANGED <<devices, supers, supersUsed, mounts, root_sb, inodes, hash,
                   dentries, dhash>>

\* The position moves on by the entries reported, wherever it was.
ReadDirectory(f) ==
    /\ files[f].live
    /\ LET inode == inodes[files[f].inode]
       IN  /\ inode.disk.type = "dir"
           /\ supers[inode.sb].live
           /\ \E bad \in BadSectors(supers[inode.sb].dev) :
                  files' = [files EXCEPT ![f].pos =
                               @ + ext2_readdir(ImageOf(inode.sb), inode.disk, bad)]
    /\ last' = NoRead
    /\ UNCHANGED <<devices, supers, supersUsed, mounts, root_sb, inodes, hash,
                   dentries, dhash>>

-----------------------------------------------------------------------------
(* The dentry cache.  No other part of the file system uses it yet. *)

DentryStep(c) ==
    /\ inodes' = c.inodes /\ hash' = c.hash
    /\ last' = NoRead
    /\ UNCHANGED <<devices, supers, supersUsed, mounts, root_sb, files>>

\* A child does not count as a reference to its parent.
vfs_d_alloc(parent, name, negative) ==
    LET d == Min({x \in Dentries : ~dentries[x].live})
    IN  /\ \E x \in Dentries : ~dentries[x].live
        /\ parent # NULL => dentries[parent].live
        /\ dentries' = [dentries EXCEPT ![d] =
                           [live |-> TRUE, parent |-> parent, name |-> name,
                            inode |-> NULL, negative |-> negative, count |-> 1]]
        /\ dhash' = <<d>> \o dhash
        /\ DentryStep(Cache)

\* A hit takes a reference.
vfs_d_lookup(parent, name) ==
    LET hits == SelectSeq(dhash, LAMBDA d : /\ dentries[d].parent = parent
                                            /\ dentries[d].name = name)
    IN  /\ dentries[parent].live
        /\ hits # << >>
        /\ dentries' = [dentries EXCEPT ![hits[1]].count = @ + 1]
        /\ UNCHANGED dhash
        /\ DentryStep(Cache)

\* An inode the dentry already had is not released.
vfs_d_instantiate(d, i) ==
    /\ dentries[d].live
    /\ inodes[i].live
    /\ dentries' = [dentries EXCEPT ![d].inode = i, ![d].negative = FALSE]
    /\ UNCHANGED dhash
    /\ DentryStep([Cache EXCEPT !.inodes[i].count = @ + 1])

\* Slip: a dentry's inode reference is dropped with every dput.
vfs_dput_every(d) ==
    LET left == dentries[d].count - 1
        i == dentries[d].inode
    IN  /\ dentries[d].live
        /\ dentries' = [dentries EXCEPT ![d] = IF left = 0 THEN Free
                                               ELSE [@ EXCEPT !.count = left]]
        /\ dhash' = IF left = 0 THEN SelectSeq(dhash, LAMBDA x : x # d) ELSE dhash
        /\ DentryStep(IF i # NULL THEN vfs_iput(Cache, i) ELSE Cache)

\* The last reference frees the dentry and releases its inode.
vfs_dput(d) ==
    LET left == dentries[d].count - 1
        i == dentries[d].inode
    IN  /\ dentries[d].live
        /\ dentries' = [dentries EXCEPT ![d] = IF left = 0 THEN Free
                                               ELSE [@ EXCEPT !.count = left]]
        /\ dhash' = IF left = 0 THEN SelectSeq(dhash, LAMBDA x : x # d) ELSE dhash
        /\ DentryStep(IF left = 0 /\ i # NULL THEN vfs_iput(Cache, i) ELSE Cache)

-----------------------------------------------------------------------------
MountCall ==
    /\ Len(mounts) < bound.mounts
    /\ \E d \in bound.disks, p \in MountPoints : vfs_mount(d, p)

FileCall ==
    \/ \E p \in Paths, o \in Opens : vfs_open(p, o.access, o.excl)
    \/ \E f \in Files : vfs_close(f)

ReadCall ==
    /\ bound.reading
    /\ \E f \in Files :
          \/ \E n \in Counts : vfs_read(f, n)
          \/ vfs_write(f)
          \/ \E o \in Seeks, w \in {"SET", "CUR", "END"} : vfs_lseek(f, o, w)
          \/ ReadDirectory(f)

DentryCall ==
    /\ bound.caching
    /\ \/ \E p \in Dentries \cup {NULL}, n \in Names, neg \in BOOLEAN :
              vfs_d_alloc(p, n, neg)
       \/ \E p \in Dentries, n \in Names : vfs_d_lookup(p, n)
       \/ \E d \in Dentries, i \in InodeIds : vfs_d_instantiate(d, i)
       \/ \E d \in Dentries : vfs_dput(d)

VfsNext ==
    /\ vfsCalls < bound.calls
    /\ vfsCalls' = vfsCalls + 1
    /\ UNCHANGED bound
    /\ \/ MountCall
       \/ \E p \in MountPoints : vfs_umount(p)
       \/ \E d \in bound.disks : block_device_unregister(d)
       \/ FileCall
       \/ ReadCall
       \/ DentryCall

-----------------------------------------------------------------------------
(* Properties *)

Holders(i) ==
    Cardinality({f \in Files : files[f].live /\ files[f].inode = i})
      + Cardinality({s \in Supers : supers[s].live /\ supers[s].root = i})
      + Cardinality({d \in Dentries : dentries[d].live /\ dentries[d].inode = i})

(* No inode is freed while a file, a mounted root or a dentry points to it:   *)
(* its count covers them all, through failed lookups, failed mounts and       *)
(* caches hit twice; and the root superblock stays mounted (vfs_inode.c:178,  *)
(* vfs_mount.c:188).                                                          *)
InodesHeld ==
    /\ \A i \in InodeIds :
          Holders(i) > 0 => inodes[i].live /\ inodes[i].count >= Holders(i)
    /\ root_sb # NULL => supers[root_sb].live

(* The hash table holds every live inode once, and never two for one number   *)
(* of one superblock: two objects for one file would drift apart              *)
(* (vfs_inode.c:142).                                                         *)
InodesUnique ==
    /\ ToSet(hash) = {i \in InodeIds : inodes[i].live}
    /\ Len(hash) = Cardinality(ToSet(hash))
    /\ \A i, j \in ToSet(hash) :
          inodes[i].sb = inodes[j].sb /\ inodes[i].ino = inodes[j].ino => i = j

(* A file that vfs_open returned is the one that the path names on the        *)
(* mounted disk, however the inode came into the cache.  A superblock at the  *)
(* address of an unmounted one is excepted: the cache still answers with the  *)
(* inodes of the old one (vfs_open.c:26).                                     *)
OpenedAsNamed ==
    \A f \in Files :
        files[f].live /\ files[f].fresh =>
            LET image == Images[files[f].dev]
            IN  /\ Named(image, files[f].path) # Failure
                /\ inodes[files[f].inode].disk
                       = OnDisk(image, Named(image, files[f].path))

(* A read returns the bytes that the file has from the position on, no byte   *)
(* past its end, and fewer than asked for only at a failing sector, a hole or *)
(* a block beyond single indirection (ext2_file.c:32).                        *)
ReadsContent ==
    last.of = "file" =>
        LET file == files[last.file]
            inode == inodes[file.inode]
            image == ImageOf(inode.sb)
            n == Len(last.bytes)
            end == last.pos + n
        IN  file.fresh /\ supers[inode.sb].dev = file.dev =>
                /\ \A k \in 1 .. n :
                       last.bytes[k] = ByteOf(image, inode.disk, last.pos + k - 1)
                /\ n <= last.count /\ (n > 0 => end <= inode.disk.size)
                /\ file.pos = end
                /\ \/ n = last.count
                   \/ end >= inode.disk.size
                   \/ last.bad # {}
                   \/ BlockOf(image, inode.disk, end) = 0
                   \/ end \div Sizes(image).block
                          >= Direct + Sizes(image).block \div Pointer

(* Every entry of a mounted directory can be looked up: what ext2_lookup      *)
(* says it does, "Find an entry in a directory" (ext2_dir.c:25).              *)
EntriesFound ==
    \A s \in Supers :
        supers[s].live =>
            \A t \in ImageOf(s).tree :
                ext2_lookup(ImageOf(s), OnDisk(ImageOf(s), t.dir), t.name, {}) = t.ino
=============================================================================
