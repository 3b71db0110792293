---------------------------- MODULE Ext2Image ----------------------------
(* The image that the ext2 tools map and write in place (File System/       *)
(* ext2.h), the path lookup and bitmap scans every tool carries a copy of,  *)
(* and the steps that ext2_mkdir and ext2_ln have in common.                *)
(*                                                                          *)
(* One tool runs at a time.  A step is a group of adjacent stores to one    *)
(* structure; the image is a shared mapping, so a tool that dies leaves     *)
(* behind what it stored.  An action whose tool takes its inputs reads the  *)
(* image up to the tool's first store; a tool that returns an error before  *)
(* that store is no step.  A scan reads past the records of a block as      *)
(* zeroes, which is what an unfinished or non-directory block holds there,  *)
(* and then does not end: pc is "endless".                                  *)
EXTENDS Integers, FiniteSets, SequencesExt, FiniteSetsExt

CONSTANTS EXT2_BLOCK_SIZE,   \* bytes of a block: 1024
          INODE_NUM,         \* inodes of the image: 32
          BLOCK_NUM,         \* blocks of the image: 128
          SLOTS,             \* pointers in an inode, i_block: 15
          DIRECT,            \* those of them that point to data: 12
          NameLen,           \* the names used and their lengths
          FirstImage,        \* the image before the first tool
          Requests,          \* the command lines tried
          MaxKills,          \* bound: tools killed while they run
          MaxTools,          \* bound: tools started
          MaxParent          \* bound: blocks of a directory mkdir adds to

VARIABLES inode_bitmap, block_bitmap,   \* numbers whose bit is set
          free_inodes, free_blocks,     \* free counts (superblock and group)
          inode, data,                  \* inode table, blocks' records
          tool,                         \* what the running tool is doing
          kills, started,               \* tools killed, tools started
          freed                         \* an inode was given back

image == <<inode_bitmap, block_bitmap, free_inodes, free_blocks, inode, data>>
vars == <<image, tool, kills, started, freed>>

EXT2_ROOT_INO == 2
Inodes == 1..INODE_NUM
Blocks == 1..BLOCK_NUM
Kinds == {"none", "file", "dir", "symlink"}
USHORTS == 256 * 256                            \* values of an unsigned short
UShorts == 0..USHORTS - 1
UShort(n) == n % USHORTS
NoName == ""                                    \* of a removed record

(* rec_len a record with this name needs: 8 bytes and the name, rounded up. *)
EXT2_DIR_REC_LEN(name) == ((NameLen[name] + 11) \div 4) * 4

Record(n, name, type, rec) ==
    [inode |-> n, name |-> name, type |-> type, rec_len |-> rec]

ASSUME ImageAssumption ==
    /\ EXT2_BLOCK_SIZE \in Nat /\ INODE_NUM \in Nat /\ BLOCK_NUM \in Nat
    /\ SLOTS \in Nat /\ DIRECT \in 1..SLOTS - 1 /\ DIRECT <= BLOCK_NUM
    /\ MaxKills \in Nat /\ MaxTools \in Nat /\ MaxParent \in Nat
    /\ EXT2_ROOT_INO \in Inodes
    /\ {NoName, ".", ".."} \subseteq DOMAIN NameLen
    /\ \A name \in DOMAIN NameLen :
          NameLen[name] \in 0..255 /\ EXT2_DIR_REC_LEN(name) <= EXT2_BLOCK_SIZE
    /\ NameLen[NoName] = 0
    /\ EXT2_DIR_REC_LEN(".") + EXT2_DIR_REC_LEN("..") <= EXT2_BLOCK_SIZE

(* The bits of the first image stand for inodes and blocks it has.          *)
ASSUME BitmapsAssumption ==
    FirstImage.inode_bitmap \subseteq Inodes /\ FirstImage.block_bitmap \subseteq Blocks

Idle == [op |-> "none", pc |-> "idle", dir |-> 0, name |-> NoName, ino |-> 0,
         own |-> FALSE, at |-> 0, rec |-> 0]

Init ==
    /\ inode_bitmap = FirstImage.inode_bitmap
    /\ block_bitmap = FirstImage.block_bitmap
    /\ free_inodes = INODE_NUM - Cardinality(inode_bitmap)
    /\ free_blocks = BLOCK_NUM - Cardinality(block_bitmap)
    /\ inode = FirstImage.inode
    /\ data = FirstImage.data
    /\ tool = Idle
    /\ kills = 0 /\ started = 0 /\ freed = FALSE

(* Scans ****************************************************************)

Records(b) == IF b \in DOMAIN data THEN data[b] ELSE <<>>
Used(records) == FoldLeft(LAMBDA s, e : s + e.rec_len, 0, records)
Filled(b) == Used(Records(b)) = EXT2_BLOCK_SIZE

NoRecord == Record(-1, NoName, "none", 0)
Endless == Record(-2, NoName, "none", 0)
NotADirectory == -3

(* The first record with this name in a sequence of blocks, read as far as  *)
(* the first block whose records do not fill it.                            *)
Scan(bs, name) ==
    LET short == {k \in DOMAIN bs : ~Filled(bs[k])}
        last == IF short = {} THEN Len(bs) ELSE Min(short)
        named == {k \in 1..last : \E e \in ToSet(Records(bs[k])) : e.name = name}
        rs == Records(bs[Min(named)])
    IN  IF named # {} THEN rs[SelectInSeq(rs, LAMBDA e : e.name = name)]
        ELSE IF short = {} THEN NoRecord ELSE Endless

DirBlocks(n) == [k \in 1..inode[n].size |-> inode[n].i_block[k - 1]]

(* One component of a path.  The block after i_block[0] is taken to be the  *)
(* next block of the image, not i_block[1].                                 *)
Descend(n, name) ==
    LET found == Scan([k \in 1..inode[n].size |-> inode[n].i_block[0] + k - 1],
                      name)
    IN  IF n < 0 THEN n
        ELSE IF found.type \in {"file", "symlink"} THEN NotADirectory
        ELSE found.inode

(* The inode of a directory, or why there is none.                          *)
find_dir_inode(path) == FoldLeft(Descend, EXT2_ROOT_INO, path)

(* Bitmaps **************************************************************)

get_inode_bitmap == Inodes \ inode_bitmap       \* the free ones
get_block_bitmap == Blocks \ block_bitmap
set_inode_bitmap(n) == inode_bitmap' = inode_bitmap \cup {n}
set_block_bitmap_shifted(b) == block_bitmap' = block_bitmap \cup {b - 1}
set_block_bitmap(b) == block_bitmap' = block_bitmap \cup {b}

(* Steps of a running tool **********************************************)

At(op, pc) == tool.op = op /\ tool.pc = pc
Goto(pc) == tool' = [tool EXCEPT !.pc = pc]
Stop == tool' = Idle
Hang(op) == tool' = [Idle EXCEPT !.op = op, !.pc = "endless"]
Bookkeeping == UNCHANGED <<kills, started, freed>>

(* A tool starts; nothing starts once rm gave an inode back, because its    *)
(* bitmaps no longer describe the image (see Ext2Rm).                       *)
Starts ==
    /\ tool = Idle
    /\ ~freed
    /\ started < MaxTools
    /\ started' = started + 1
    /\ UNCHANGED <<kills, freed>>

(* The lowest free inode is taken: first the counts, then the bit.          *)
CountInode ==
    /\ \/ /\ get_inode_bitmap # {}
          /\ free_inodes' = free_inodes - 1
          /\ tool' = [tool EXCEPT !.pc = "mark_inode",
                                  !.ino = Min(get_inode_bitmap)]
       \/ get_inode_bitmap = {} /\ Stop /\ UNCHANGED free_inodes
    /\ UNCHANGED <<inode_bitmap, block_bitmap, free_blocks, inode, data>>
    /\ Bookkeeping

MarkInode ==
    /\ set_inode_bitmap(tool.ino)
    /\ Goto("set_inode")
    /\ UNCHANGED <<block_bitmap, free_inodes, free_blocks, inode, data>>
    /\ Bookkeeping

(* i_block keeps what it held: 0 in an inode never used.                    *)
SetInode(kind, size, links) ==
    /\ inode' = [inode EXCEPT ![tool.ino] =
                     [@ EXCEPT !.kind = kind, !.size = size,
                               !.links = links, !.nblocks = 1]]
    /\ tool' = [tool EXCEPT !.pc = "block", !.own = TRUE]
    /\ UNCHANGED <<inode_bitmap, block_bitmap, free_inodes, free_blocks, data>>
    /\ Bookkeeping

(* The pointer that gets a block: the first one of the new inode, or the    *)
(* one after the last block of the directory.                               *)
Holder == IF tool.own THEN tool.ino ELSE tool.dir
Slot == IF tool.own THEN 0 ELSE inode[tool.dir].size
AfterBlock == IF tool.own THEN "fill" ELSE "grow"

(* The lowest free block is stored in the pointer; when there is none the   *)
(* tool goes on with one of the blocks in unassigned.                       *)
AssignBlock(unassigned) ==
    LET free == get_block_bitmap IN
    /\ \E b \in IF free = {} THEN unassigned ELSE {Min(free)} :
          tool' = [tool EXCEPT
                      !.pc = IF free = {} THEN AfterBlock ELSE "mark_block",
                      !.at = b]
    /\ inode' = IF free = {} THEN inode
                ELSE [inode EXCEPT ![Holder].i_block[Slot] = Min(free)]
    /\ UNCHANGED <<inode_bitmap, block_bitmap, free_inodes, free_blocks, data>>
    /\ Bookkeeping

MarkBlock ==
    /\ set_block_bitmap(tool.at)
    /\ Goto("count_block")
    /\ UNCHANGED <<inode_bitmap, free_inodes, free_blocks, inode, data>>
    /\ Bookkeeping

CountBlockNot ==    \* a mutant: the free count is forgotten
    /\ Goto(AfterBlock)
    /\ UNCHANGED image
    /\ Bookkeeping

CountBlock ==
    /\ free_blocks' = free_blocks - 1
    /\ Goto(AfterBlock)
    /\ UNCHANGED <<inode_bitmap, block_bitmap, free_inodes, inode, data>>
    /\ Bookkeeping

(* A new record goes behind the last record of the first block whose last   *)
(* record can be cut down to what it needs and leave room; its rec_len is   *)
(* cut first.  A directory without such a block gets another one.           *)
HasRoomForNew(b) ==    \* a mutant: the old record's need is forgotten
    Last(Records(b)).rec_len >= EXT2_DIR_REC_LEN(tool.name)

HasRoom(b) ==
    LET last == Last(Records(b)) IN
    last.rec_len >= EXT2_DIR_REC_LEN(tool.name) + EXT2_DIR_REC_LEN(last.name)

FindRoom ==
    LET bs == DirBlocks(tool.dir)
        stops == {k \in DOMAIN bs : Filled(bs[k]) => HasRoom(bs[k])}
        b == bs[Min(stops)]
        last == Last(data[b])
        kept == EXT2_DIR_REC_LEN(last.name)
    IN  /\ \/ /\ stops = {}
              /\ tool' = [tool EXCEPT !.pc = "block", !.own = FALSE]
              /\ UNCHANGED data
           \/ stops # {} /\ ~Filled(b) /\ Hang(tool.op) /\ UNCHANGED data
           \/ /\ stops # {} /\ Filled(b)
              /\ data' = [data EXCEPT ![b][Len(data[b])].rec_len = kept]
              /\ tool' = [tool EXCEPT !.pc = "enter", !.at = b,
                                      !.rec = last.rec_len - kept]
        /\ UNCHANGED <<inode_bitmap, block_bitmap, free_inodes, free_blocks,
                       inode>>
        /\ Bookkeeping

(* The new record is written into the room found.                           *)
EnterRecord(type, pc) ==
    /\ data' = [data EXCEPT ![tool.at] =
                    Append(@, Record(tool.ino, tool.name, type, tool.rec))]
    /\ IF pc = "idle" THEN Stop ELSE Goto(pc)
    /\ UNCHANGED <<inode_bitmap, block_bitmap, free_inodes, free_blocks, inode>>
    /\ Bookkeeping

(* The new record is written as the only one of the block assigned ...      *)
GrowRecord(type) ==
    /\ data' = [data EXCEPT ![tool.at] =
                    <<Record(tool.ino, tool.name, type, EXT2_BLOCK_SIZE)>>]
    /\ Goto("grow_size")
    /\ UNCHANGED <<inode_bitmap, block_bitmap, free_inodes, free_blocks, inode>>
    /\ Bookkeeping

(* ... and the directory is made one block longer.                          *)
GrowSizeOnly(pc) ==    \* a mutant: i_blocks is forgotten
    /\ inode' = [inode EXCEPT ![tool.dir].size = @ + 1]
    /\ IF pc = "idle" THEN Stop ELSE Goto(pc)
    /\ UNCHANGED <<inode_bitmap, block_bitmap, free_inodes, free_blocks, data>>
    /\ Bookkeeping

GrowSize(pc) ==
    /\ inode' = [inode EXCEPT ![tool.dir].nblocks = @ + 1,
                              ![tool.dir].size = @ + 1]
    /\ IF pc = "idle" THEN Stop ELSE Goto(pc)
    /\ UNCHANGED <<inode_bitmap, block_bitmap, free_inodes, free_blocks, data>>
    /\ Bookkeeping

(* The tool dies between two steps; the image stays as it is.               *)
Killed ==
    /\ tool # Idle
    /\ kills < MaxKills
    /\ kills' = kills + 1
    /\ Stop
    /\ UNCHANGED <<image, started, freed>>
==========================================================================
