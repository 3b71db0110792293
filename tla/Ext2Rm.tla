----------------------------- MODULE Ext2Rm -----------------------------
(* ext2_rm: takes a name away and, with the last name, the inode and its    *)
(* blocks.                                                                  *)
EXTENDS Ext2Image

(* The first block of a directory with a record of this name.               *)
BlockNaming(n, name) ==
    LET named(b) == \E e \in ToSet(Records(b)) : e.name = name
    IN  DirBlocks(n)[SelectInSeq(DirBlocks(n), named)]

RmStarts ==
    \E r \in {q \in Requests : q.op = "rm"} :
        LET parent == find_dir_inode(r.dir)
            found == IF parent < 0 THEN Record(parent, NoName, "none", 0)
                     ELSE Scan(DirBlocks(parent), r.name)
        IN  /\ Starts
            /\ \/ found.inode = Endless.inode /\ Hang("rm")
               \/ /\ found.inode > 0
                  /\ found.type # "dir"
                  /\ tool' = [Idle EXCEPT
                                !.op = "rm", !.pc = "clear", !.dir = parent,
                                !.name = r.name, !.ino = found.inode,
                                !.at = BlockNaming(parent, r.name)]
            /\ UNCHANGED image

(* The record stays, without inode, name and type.                          *)
ClearEntry ==
    LET i == SelectInSeq(data[tool.at], LAMBDA e : e.name = tool.name) IN
    /\ At("rm", "clear")
    /\ data' = [data EXCEPT ![tool.at][i] = Record(0, NoName, "none", @.rec_len)]
    /\ Goto("drop")
    /\ UNCHANGED <<inode_bitmap, block_bitmap, free_inodes, free_blocks, inode>>
    /\ Bookkeeping

DropLink ==
    /\ At("rm", "drop")
    /\ inode' = [inode EXCEPT ![tool.ino].links = UShort(@ - 1)]
    /\ IF inode'[tool.ino].links = 0 THEN Goto("free_inode") ELSE Stop
    /\ UNCHANGED <<inode_bitmap, block_bitmap, free_inodes, free_blocks, data>>
    /\ Bookkeeping

(* The numbers whose bits are in the int at the byte of number n's bit: the *)
(* mask 0 << bit is 0, so all of them are cleared.                          *)
BitsAt(n) ==
    LET byte == IF n = 0 THEN 0 ELSE (n - 1) \div 8
    IN  8 * byte + 1 .. 8 * byte + 32

set_inode_bitmap_back(n) == inode_bitmap' = inode_bitmap \ BitsAt(n)
set_block_bitmap_back(b) == block_bitmap' = block_bitmap \ BitsAt(b)

(* A bit and its count change in one step here: nothing is said of the      *)
(* image between them.                                                      *)
FreeInode ==
    /\ At("rm", "free_inode")
    /\ set_inode_bitmap_back(tool.ino)
    /\ free_inodes' = free_inodes + 1
    /\ freed' = TRUE
    /\ tool' = [tool EXCEPT !.pc = "free_block", !.rec = 0]
    /\ UNCHANGED <<block_bitmap, free_blocks, inode, data, kills, started>>

(* A loop frees blocks[0] to blocks[n - 1]: tool.rec is its i.              *)
FreeBlocks(n, blocks, next) ==
    /\ \/ /\ tool.rec < n
          /\ set_block_bitmap_back(blocks[tool.rec])
          /\ free_blocks' = free_blocks + 1
          /\ tool' = [tool EXCEPT !.rec = @ + 1]
       \/ /\ tool.rec = n
          /\ tool' = next
          /\ UNCHANGED <<block_bitmap, free_blocks>>
    /\ UNCHANGED <<inode_bitmap, free_inodes, inode, data>>
    /\ Bookkeeping

FreeBlock ==
    /\ At("rm", "free_block")
    /\ FreeBlocks(Min({DIRECT, inode[tool.ino].nblocks}),
                  inode[tool.ino].i_block,
                  IF inode[tool.ino].nblocks > DIRECT
                  THEN [tool EXCEPT !.pc = "free_indirect", !.rec = 0] ELSE Idle)

(* Pointer number k in an indirect block; no tool writes one.               *)
Pointer(b, k) ==
    IF k \in DOMAIN FirstImage.pointers[b] THEN FirstImage.pointers[b][k] ELSE 0

(* The i-th block freed is pointer number i * sizeof(int * ), and so many   *)
(* are freed as if the indirect block itself were not among nblocks.        *)
FreeIndirect ==
    /\ At("rm", "free_indirect")
    /\ LET n == inode[tool.ino].nblocks - DIRECT
       IN  FreeBlocks(n, [i \in 0..n - 1 |-> Pointer(inode[tool.ino].i_block[DIRECT], 8 * i)], Idle)

Rm == RmStarts \/ ClearEntry \/ DropLink \/ FreeInode \/ FreeBlock \/ FreeIndirect
==========================================================================
