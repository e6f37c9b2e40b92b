--------------------------------- MODULE FS ---------------------------------
(***************************************************************************)
(* The SNFS storage engine, src/snfs_server/fs.c: the block bitmap, the    *)
(* inode bitmap and the inode table kept in memory, and the data blocks of *)
(* the virtual disk.  One action per state-changing interface function     *)
(* (fs_create, fs_mkdir, fs_write, fs_remove); fs_format is Init and the   *)
(* read-only functions (fs_read, fsi_dir_search) are operators.            *)
(*                                                                         *)
(* Data abstraction.  A block is BLOCK_SIZE cells.  A cell is one byte of  *)
(* a file or one 16-byte directory entry (fs_dentry_t) of a directory, so  *)
(* a directory's size counts entries and a file's size counts bytes.  A    *)
(* written byte is a member of Data; ZERO is the content of an erased      *)
(* block; JUNK is a value the program never wrote (an uninitialised stack  *)
(* buffer or an out-of-bounds read).  fsi_store_fsdata, which copies the   *)
(* in-memory metadata to blocks 0..FIRST_DATA_BLK-1, is not modelled:      *)
(* nothing reads those blocks back after fs_format.                        *)
(***************************************************************************)
EXTENDS Integers, FiniteSets, Graphs

CONSTANTS
    NUM_BLOCKS,       \* block_num_blocks(fs->blocks)
    FIRST_DATA_BLK,   \* blocks 0..FIRST_DATA_BLK-1 hold bitmaps and inode table
    ITAB_SIZE,        \* inode table slots
    INODE_NUM_BLKS,   \* direct block numbers per inode
    BLOCK_SIZE,       \* cells per block
    Names,            \* valid file names (1..13 characters)
    Data,             \* byte values a client writes
    ZERO,             \* content of an erased cell
    JUNK,             \* content the program never wrote
    WRITE_COUNTS      \* byte counts a write request carries

ASSUME FIRST_DATA_BLK >= 1 /\ NUM_BLOCKS > FIRST_DATA_BLK
ASSUME ITAB_SIZE >= 3 /\ INODE_NUM_BLKS >= 1 /\ BLOCK_SIZE >= 1
ASSUME {ZERO, JUNK} \cap Data = {}
ASSUME WRITE_COUNTS \subseteq Nat \ {0}

\* fs_itype_t; FS_NOTYPE is the zero tag of an inode slot never initialised
FS_DIR == "dir"
FS_FILE == "file"
FS_NOTYPE == "none"

Blocks == 0 .. NUM_BLOCKS - 1
Inodes == 0 .. ITAB_SIZE - 1
Slots == 0 .. INODE_NUM_BLKS - 1
Cells == 0 .. BLOCK_SIZE - 1
\* largest size an inode can describe: INODE_NUM_BLKS full blocks
CAPACITY == INODE_NUM_BLKS * BLOCK_SIZE

Dentry == [name : Names, inodeid : Inodes]
Cell == Data \cup {ZERO, JUNK} \cup Dentry
Inode == [type : {FS_DIR, FS_FILE, FS_NOTYPE}, size : 0 .. CAPACITY,
          blocks : [Slots -> Blocks]]

VARIABLES
    inode_bmap,   \* fs->inode_bmap as the set of set bits
    blk_bmap,     \* fs->blk_bmap as the set of set bits
    inode_tab,    \* fs->inode_tab
    disk          \* the data of every block of fs->blocks

vars == <<inode_bmap, blk_bmap, inode_tab, disk>>

MaxOf(a, b) == IF a >= b THEN a ELSE b
MinOf(a, b) == IF a <= b THEN a ELSE b

OFFSET_TO_BLOCKS(pos) == pos \div BLOCK_SIZE + (IF pos % BLOCK_SIZE > 0 THEN 1 ELSE 0)

fsi_inode_init(type) ==
    [type |-> type, size |-> 0, blocks |-> [i \in Slots |-> 0]]

\* mutant: the scan runs one bit too far (i <= size)
FreeBits_past_end(bmap, size) == (0 .. size) \ bmap

\* fsi_bmap_find_free: the clear bits its loop visits; it reports whether
\* there is one and, first fit, the lowest
FreeBits(bmap, size) == (0 .. size - 1) \ bmap
HasFree(bmap, size) == FreeBits(bmap, size) # {}
fsi_bmap_find_free(bmap, size) ==
    CHOOSE i \in FreeBits(bmap, size) : \A j \in FreeBits(bmap, size) : i <= j

\* The k-th cell of inode i's data, through its direct block list
CellOf(tab, dsk, i, k) == dsk[tab[i].blocks[k \div BLOCK_SIZE]][k % BLOCK_SIZE]
CellAt(tab, i, k) == CellOf(tab, disk, i, k)

\* fsi_dir_search: the positions whose entry carries the name, in scan order
Matches(d, name) ==
    {k \in 0 .. inode_tab[d].size - 1 :
        CellAt(inode_tab, d, k) \in Dentry /\ CellAt(inode_tab, d, k).name = name}
\* mutant: the name is never found (the duplicate check is lost)
fsi_dir_search_never(d, name) == FALSE

fsi_dir_search(d, name) == Matches(d, name) # {}
DirSearchId(d, name) ==
    CellAt(inode_tab, d, CHOOSE k \in Matches(d, name) :
                            \A j \in Matches(d, name) : k <= j).inodeid

(***************************************************************************)
(* fs_format: the device erased, blocks 0..FIRST_DATA_BLK-1 and inodes 0   *)
(* and 1 reserved, inode 1 the empty root directory.                       *)
(***************************************************************************)
Init ==
    /\ blk_bmap = 0 .. FIRST_DATA_BLK - 1
    /\ inode_bmap = {0, 1}
    /\ inode_tab = [i \in Inodes |->
                      IF i = 1 THEN fsi_inode_init(FS_DIR)
                               ELSE fsi_inode_init(FS_NOTYPE)]
    /\ disk = [b \in Blocks |-> [c \in Cells |-> ZERO]]

\* mutant: the block added to the directory is not marked in blk_bmap
ReserveDirBlock_no_set(bmap, grow, fblock) == bmap

\* fs_create's BMAP_SET of the block it adds to a full directory
ReserveDirBlock(bmap, grow, fblock) == IF grow THEN bmap \cup {fblock} ELSE bmap

\* mutant: the entry is added without searching the directory for the name
AddEntryOK_no_dup(dir, name) ==
    LET idir == inode_tab[dir]
    IN /\ dir \in inode_bmap
       /\ idir.type = FS_DIR
       /\ HasFree(inode_bmap, ITAB_SIZE)
       /\ idir.size % BLOCK_SIZE = 0 => HasFree(blk_bmap, NUM_BLOCKS)
       /\ idir.size \div BLOCK_SIZE < INODE_NUM_BLKS

(***************************************************************************)
(* fs_create and fs_mkdir (the same code but for the type of the new       *)
(* inode): the entry is appended at position size of dir, a block is added *)
(* first when size is a multiple of BLOCK_SIZE.  Every failure returns     *)
(* before anything is changed.  The code does not check that the block     *)
(* index size/BLOCK_SIZE stays below INODE_NUM_BLKS; the conjunct on slot  *)
(* keeps the model inside the table and DirTableNeverOverflows checks that *)
(* it never cuts a behaviour of the code.                                  *)
(***************************************************************************)
AddEntryOK(dir, name) ==
    LET idir == inode_tab[dir]
    IN /\ dir \in inode_bmap
       /\ idir.type = FS_DIR
       /\ ~fsi_dir_search(dir, name)
       /\ HasFree(inode_bmap, ITAB_SIZE)
       /\ idir.size % BLOCK_SIZE = 0 => HasFree(blk_bmap, NUM_BLOCKS)
       /\ idir.size \div BLOCK_SIZE < INODE_NUM_BLKS

AddEntry(dir, name, type) ==
    LET idir == inode_tab[dir]
        grow == idir.size % BLOCK_SIZE = 0
        slot == idir.size \div BLOCK_SIZE
        finode == fsi_bmap_find_free(inode_bmap, ITAB_SIZE)
        fblock == fsi_bmap_find_free(blk_bmap, NUM_BLOCKS)
        blk == IF grow THEN fblock ELSE idir.blocks[slot]
    IN
    /\ AddEntryOK(dir, name)
    /\ blk_bmap' = ReserveDirBlock(blk_bmap, grow, fblock)
    /\ disk' = [disk EXCEPT ![blk][idir.size % BLOCK_SIZE] =
                              [name |-> name, inodeid |-> finode]]
    /\ inode_bmap' = inode_bmap \cup {finode}
    /\ inode_tab' = [inode_tab EXCEPT ![dir].blocks[slot] = blk,
                                      ![dir].size = @ + 1,
                                      ![finode] = fsi_inode_init(type)]

fs_create(dir, name) == AddEntry(dir, name, FS_FILE)

fs_mkdir(dir, name) == AddEntry(dir, name, FS_DIR)

(***************************************************************************)
(* fs_read: count clamped to the bytes after offset, copied block by block *)
(* from the direct block list; nothing when offset is at or past the end.  *)
(***************************************************************************)
fs_read(file, offset, count) ==
    IF offset >= inode_tab[file].size THEN <<>>
    ELSE [i \in 1 .. MinOf(count, inode_tab[file].size - offset) |->
            CellAt(inode_tab, file, offset + i - 1)]

\* mutant: an offset past the end is not clamped
ClampOffset_none(size, offset) == offset

\* fs_write clamps an offset past the end down to the file size
ClampOffset(size, offset) == IF offset > size THEN size ELSE offset

\* the direct blocks fs_write reserves when it needs req of them: the loop
\* calls fsi_bmap_find_free once per block and stops at the first failure,
\* so it gets the lowest free blocks, at most req of them
Reserved(req) ==
    LET free == Blocks \ blk_bmap
    IN [i \in 1 .. MinOf(req, Cardinality(free)) |->
          CHOOSE b \in free : Cardinality({x \in free : x < b}) = i - 1]

(***************************************************************************)
(* fs_write.  The offset is clamped to the size; blks_req more blocks are  *)
(* needed past the blks_used ones; more than the inode holds is refused    *)
(* before anything changes.  The reservation loop writes each block number *)
(* into the inode and its bit into the bitmap as it goes; when the disk    *)
(* runs out it returns -1 and keeps what it reserved.  Otherwise the bytes *)
(* are written: read-modify-write into the blocks in use, whole-block      *)
(* writes into the new ones, whose cells past the data are whatever the    *)
(* local buffer held (JUNK).  The size becomes max(offset+count, size).    *)
(***************************************************************************)
BlksUsed(file) == OFFSET_TO_BLOCKS(inode_tab[file].size)
BlksReq(file, offset, count) ==
    MaxOf(OFFSET_TO_BLOCKS(ClampOffset(inode_tab[file].size, offset) + count),
          BlksUsed(file)) - BlksUsed(file)

\* fs_write's checks before it changes anything: a file in use, and a
\* request that fits the inode
fs_write_accepts(file, offset, count) ==
    /\ file \in inode_bmap
    /\ inode_tab[file].type = FS_FILE
    /\ BlksReq(file, offset, count) <= INODE_NUM_BLKS - BlksUsed(file)

\* fs_write returns 0: it accepts the request and finds every block needed
fs_write_succeeds(file, offset, count) ==
    /\ fs_write_accepts(file, offset, count)
    /\ Len(Reserved(BlksReq(file, offset, count))) = BlksReq(file, offset, count)

fs_write(file, offset, count, v) ==
    LET ifile == inode_tab[file]
        off == ClampOffset(ifile.size, offset)
        blks_used == BlksUsed(file)
        blks_req == BlksReq(file, offset, count)
        got == Reserved(blks_req)
        blocks == [i \in Slots |->
                     IF blks_used <= i /\ i < blks_used + Len(got)
                     THEN got[i - blks_used + 1] ELSE ifile.blocks[i]]
        newblks == {blocks[i] : i \in blks_used .. blks_used + blks_req - 1}
        Written(b, c) ==
            \E k \in off .. off + count - 1 :
                blocks[k \div BLOCK_SIZE] = b /\ k % BLOCK_SIZE = c
    IN
    /\ fs_write_accepts(file, offset, count)
    /\ blk_bmap' = blk_bmap \cup ToSet(got)
    /\ UNCHANGED inode_bmap
    /\ \/ /\ Len(got) < blks_req
          /\ inode_tab' = [inode_tab EXCEPT ![file].blocks = blocks]
          /\ UNCHANGED disk
       \/ /\ Len(got) = blks_req
          /\ inode_tab' = [inode_tab EXCEPT ![file].blocks = blocks,
                               ![file].size = MaxOf(off + count, ifile.size)]
          /\ disk' = [b \in Blocks |-> [c \in Cells |->
                        IF Written(b, c) THEN v
                        ELSE IF b \in newblks THEN JUNK
                        ELSE disk[b][c]]]

\* search_dir_entry finds the entry but assigns the position, the block
\* index and the page to its own parameters, so its caller's num_dir_entry
\* and block_num keep their initial 0 and its page stays uninitialised
search_dir_entry == [num_dir_entry |-> 0, block_num |-> 0]

\* mutant: the directory size is not decremented
DirShrink_none(size) == size

\* fs_remove takes one entry off the directory size
DirShrink(size) == size - 1

\* the leading block numbers of a block list up to the first 0: the blocks
\* fs_remove_file frees
BlockListPrefix(blocks) ==
    {blocks[i] : i \in {i \in Slots : \A j \in 0 .. i : blocks[j] # 0}}

\* the slot whose block fs_remove frees when the directory's last block
\* empties: the one before the first j >= 1 with blocks[j] = 0 (the slot
\* after the table is reserved[0], which fsi_inode_init zeroed)
LastBlockSlot(blocks) ==
    CHOOSE i \in Slots : /\ i + 1 = INODE_NUM_BLKS \/ blocks[i + 1] = 0
                         /\ \A j \in 1 .. i : blocks[j] # 0

\* fs_remove's early returns: the directory must be in use and hold the
\* name (searched before the type is checked), and be a directory
fs_remove_accepts(dir, name) ==
    /\ dir \in inode_bmap
    /\ fsi_dir_search(dir, name)
    /\ inode_tab[dir].type = FS_DIR

(***************************************************************************)
(* fs_remove(dir, name), with search_dir_entry and fs_remove_file.         *)
(* search_dir_entry assigns its results to its own parameters, so the      *)
(* caller keeps num_dir_entry = 0, block_num = 0 and its uninitialised     *)
(* page.  The last entry (an out-of-bounds read of last_page[-1] when the  *)
(* size is a multiple of BLOCK_SIZE) is copied into page[0] and page is    *)
(* written over the directory's first block; the size drops by one; if the *)
(* last entry was the first of its block, the last block is freed.  Then   *)
(* the target's blocks and inode are freed by fs_remove_file, for files    *)
(* and directories alike, and the metadata is not stored.                  *)
(***************************************************************************)
fs_remove(dir, name) ==
    LET idir == inode_tab[dir]
        entryid == DirSearchId(dir, name)
        last_entry_index == (idir.size % BLOCK_SIZE) - 1
        last_entry == IF last_entry_index >= 0
                      THEN disk[idir.blocks[idir.size \div BLOCK_SIZE]][last_entry_index]
                      ELSE JUNK
        page == [c \in Cells |-> IF c = search_dir_entry.num_dir_entry
                               THEN last_entry ELSE JUNK]
        li == LastBlockSlot(idir.blocks)
        freed == IF last_entry_index = 0 THEN {idir.blocks[li]} ELSE {}
        tab == [inode_tab EXCEPT
                  ![dir].size = DirShrink(@),
                  ![dir].blocks = IF last_entry_index = 0
                                  THEN [@ EXCEPT ![li] = 0] ELSE @]
    IN
    /\ fs_remove_accepts(dir, name)
    /\ disk' = [disk EXCEPT ![idir.blocks[search_dir_entry.block_num]] = page]
    /\ inode_tab' = tab
    /\ blk_bmap' = (blk_bmap \ freed) \ BlockListPrefix(tab[entryid].blocks)
    /\ inode_bmap' = inode_bmap \ {entryid}

\* inode handles a client can pass: 0 is excluded because the value of the
\* zero type tag (fs.h) is not in the repository
Handles == 1 .. ITAB_SIZE - 1

\* offsets up to one past the size exercise the clamp (every larger offset
\* is clamped alike)

CreateWrite ==
    \E d \in Handles, n \in Names :
        \/ fs_create(d, n)
        \/ fs_mkdir(d, n)
    \/ \E f \in Handles, c \in WRITE_COUNTS, v \in Data :
        \E o \in 0 .. inode_tab[f].size + 1 : fs_write(f, o, c, v)

Next ==
    \/ CreateWrite
    \/ \E d \in Handles, n \in Names : fs_remove(d, n)

\* clients that never remove anything
SpecNoRemove == Init /\ [][CreateWrite]_vars

Spec == Init /\ [][Next]_vars


-----------------------------------------------------------------------------
(***************************************************************************)
(* Properties                                                              *)
(***************************************************************************)

RESERVED == 0 .. FIRST_DATA_BLK - 1

\* the type invariant
TypeOK ==
    /\ inode_bmap \subseteq Inodes
    /\ blk_bmap \subseteq Blocks
    /\ inode_tab \in [Inodes -> Inode]
    /\ disk \in [Blocks -> [Cells -> Cell]]

\* the blocks holding inode i's bytes or entries: those of its first
\* OFFSET_TO_BLOCKS(size) slots
Owned(i) == {inode_tab[i].blocks[s] : s \in 0 .. OFFSET_TO_BLOCKS(inode_tab[i].size) - 1}

\* the entries of directory d, positions 0 .. size-1
EntriesOf(tab, dsk, d) == {CellOf(tab, dsk, d, k) : k \in 0 .. tab[d].size - 1}
DirEntries(d) == EntriesOf(inode_tab, disk, d)

LiveDirs == {d \in inode_bmap : inode_tab[d].type = FS_DIR}

\* the directory tree: an edge from each live directory to the inodes its
\* entries name
DirGraph ==
    [node |-> inode_bmap \ {0},
     edge |-> UNION {{<<d, e.inodeid>> : e \in DirEntries(d) \cap Dentry} :
                        d \in LiveDirs}
              \cap ((inode_bmap \ {0}) \X (inode_bmap \ {0}))]

(***************************************************************************)
(* A data block belongs to one inode at a time (spec 3): every block that  *)
(* holds an in-use inode's data is a data block marked in blk_bmap, and no *)
(* two slots of in-use inodes, of one inode or of two, name the same       *)
(* block.  Broken when fsi_bmap_find_free hands out a block still in use,  *)
(* or when a freed inode's blocks are freed again.                         *)
(***************************************************************************)
BlocksExclusivelyOwned ==
    \A i, j \in inode_bmap :
        \A s \in 0 .. OFFSET_TO_BLOCKS(inode_tab[i].size) - 1 :
        \A t \in 0 .. OFFSET_TO_BLOCKS(inode_tab[j].size) - 1 :
            /\ inode_tab[i].blocks[s] \in blk_bmap \ RESERVED
            /\ <<i, s>> # <<j, t>> => inode_tab[i].blocks[s] # inode_tab[j].blocks[t]

(***************************************************************************)
(* The namespace is a tree rooted at inode 1 (spec 3): every entry of a    *)
(* live directory names an in-use inode other than 0, names and inodes are *)
(* distinct within a directory, and every in-use inode but 0 hangs below   *)
(* the root through exactly one entry.  fs_create's duplicate check and    *)
(* the first-fit inode allocator must agree for this to hold.              *)
(***************************************************************************)
NamespaceIsTree ==
    /\ \A d \in LiveDirs : \A k, j \in 0 .. inode_tab[d].size - 1 :
          LET e == CellAt(inode_tab, d, k)
              f == CellAt(inode_tab, d, j)
          IN /\ e \in Dentry
             /\ e.inodeid \in inode_bmap \ {0, 1}
             /\ k # j => f \in Dentry /\ e.name # f.name /\ e.inodeid # f.inodeid
    /\ \A i \in inode_bmap \ {0, 1} : InDegree(DirGraph, i) = 1
    /\ inode_bmap \ {0, 1} \subseteq Descendants(DirGraph, 1)

(***************************************************************************)
(* fs_create never grows a directory past its block table: no in-use       *)
(* directory is full while an inode is free.  The code does not check the  *)
(* index size/BLOCK_SIZE; this holds only because every entry of a         *)
(* directory was paid for by an inode, which fs_remove must keep true.     *)
(***************************************************************************)
DirTableNeverOverflows ==
    \A d \in LiveDirs :
        inode_tab[d].size = CAPACITY => ~HasFree(inode_bmap, ITAB_SIZE)

(***************************************************************************)
(* No block is leaked: every data block marked in blk_bmap holds data of   *)
(* an in-use inode.  Spec 4.5 and 7 require a failed fs_write to roll its  *)
(* block reservations back.                                                *)
(***************************************************************************)
NoLeakedBlock ==
    blk_bmap \ RESERVED \subseteq UNION {Owned(i) : i \in inode_bmap}

(***************************************************************************)
(* fs_remove(d, n) takes exactly the entry named n out of directory d and  *)
(* leaves every other entry of d in place (spec 4.4, compaction moves the  *)
(* last entry into the vacated slot).                                      *)
(***************************************************************************)
RemoveUnlinksExactlyName ==
    [][\A d \in Handles, n \in Names :
         fs_remove(d, n) =>
            EntriesOf(inode_tab', disk', d) = DirEntries(d) \ {[name |-> n, inodeid |-> DirSearchId(d, n)]}
      ]_vars

(***************************************************************************)
(* Removing a directory reclaims its whole subtree (spec 4.4 and 8): after *)
(* fs_remove(d, n), no inode that was below the removed one is in use.     *)
(***************************************************************************)
RemoveReclaimsSubtree ==
    [][\A d \in Handles, n \in Names :
         fs_remove(d, n) =>
            (Descendants(DirGraph, DirSearchId(d, n)) \cap inode_bmap' = {})
      ]_vars

-----------------------------------------------------------------------------
(***************************************************************************)
(* The refinement mapping to FileStore: an id is in use when its bit is    *)
(* set; a directory's entries are the cells at positions 0 .. size-1 of    *)
(* its blocks, as fs_readdir walks them; a file's bytes are what fs_read   *)
(* returns from offset 0.  Inode 0 is reserved and no object.              *)
(***************************************************************************)
StoreIds == Inodes \ {0}

StoreKind(i) == IF i \in inode_bmap THEN inode_tab[i].type ELSE FS_NOTYPE

StoreEntries(i) ==
    IF i \in inode_bmap /\ inode_tab[i].type = FS_DIR THEN DirEntries(i) ELSE {}

StoreData(i) ==
    IF i \in inode_bmap /\ inode_tab[i].type = FS_FILE THEN fs_read(i, 0, CAPACITY)
    ELSE <<>>

Store == INSTANCE FileStore WITH
            Ids <- StoreIds, ROOT <- 1, COUNTS <- WRITE_COUNTS, MAX_SIZE <- CAPACITY,
            inuse <- inode_bmap \ {0},
            kind <- [i \in StoreIds |-> StoreKind(i)],
            entries <- [i \in StoreIds |-> StoreEntries(i)],
            data <- [i \in StoreIds |-> StoreData(i)]

(***************************************************************************)
(* Without fs_remove, the engine implements the file store of spec 4.4 and *)
(* 4.5: every create, mkdir and write the code performs is one step of     *)
(* FileStore (a fresh empty object under a new name, or a clamped          *)
(* contiguous overwrite of that one file, read back from the disk blocks), *)
(* and every refused request, a write that fails after reserving blocks   *)
(* included, leaves the names, kinds and bytes a client can observe as    *)
(* they were.                                                              *)
(***************************************************************************)
RefinesFileStore == Store!Spec

=============================================================================
