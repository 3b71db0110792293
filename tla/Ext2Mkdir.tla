---------------------------- MODULE Ext2Mkdir ----------------------------
(* ext2_mkdir: a new directory under an existing one.                       *)
EXTENDS Ext2Image

(* The parent must exist and the full path must not.                        *)
MkdirStarts ==
    \E r \in {q \in Requests : q.op = "mkdir"} :
        LET parent == find_dir_inode(r.dir)
            itself == find_dir_inode(Append(r.dir, r.name))
        IN  /\ Starts
            /\ parent > 0 => inode[parent].size <= MaxParent
            /\ \/ /\ Endless.inode \in {parent, itself}
                  /\ Hang("mkdir")
               \/ /\ parent > 0
                  /\ itself = NoRecord.inode
                  /\ tool' = [Idle EXCEPT !.op = "mkdir", !.pc = "inode",
                                          !.dir = parent, !.name = r.name]
            /\ UNCHANGED image

MkdirCountInode == At("mkdir", "inode") /\ CountInode
MkdirMarkInode == At("mkdir", "mark_inode") /\ MarkInode
MkdirSetInode == At("mkdir", "set_inode") /\ SetInode("dir", 1, 2)

(* Without a free block the new directory goes where its i_block[0] points; *)
(* a parent that has to grow is given block_num, which was never set: any   *)
(* block (a number outside the image faults, which is Killed).              *)
MkdirUnassigned ==
    IF tool.own THEN {inode[tool.ino].i_block[0]} ELSE 0..BLOCK_NUM
MkdirAssignBlock == At("mkdir", "block") /\ AssignBlock(MkdirUnassigned)
MkdirMarkBlock == At("mkdir", "mark_block") /\ MarkBlock
MkdirCountBlock == At("mkdir", "count_block") /\ CountBlock

(* As Fill, but ".." ends where its own record does.                        *)
FillShort ==
    /\ At("mkdir", "fill")
    /\ LET dot == EXT2_DIR_REC_LEN(".") IN
          data' = [data EXCEPT ![tool.at] =
                      <<Record(tool.ino, ".", "dir", dot),
                        Record(tool.dir, "..", "dir", EXT2_DIR_REC_LEN(".."))>>]
    /\ Goto("room")
    /\ UNCHANGED <<inode_bitmap, block_bitmap, free_inodes, free_blocks, inode>>
    /\ Bookkeeping

(* The records "." and "..", the second one up to the end of the block.     *)
Fill ==
    /\ At("mkdir", "fill")
    /\ LET dot == EXT2_DIR_REC_LEN(".") IN
          data' = [data EXCEPT ![tool.at] =
                      <<Record(tool.ino, ".", "dir", dot),
                        Record(tool.dir, "..", "dir", EXT2_BLOCK_SIZE - dot)>>]
    /\ Goto("room")
    /\ UNCHANGED <<inode_bitmap, block_bitmap, free_inodes, free_blocks, inode>>
    /\ Bookkeeping

MkdirFindRoom == At("mkdir", "room") /\ FindRoom
MkdirEnter == At("mkdir", "enter") /\ EnterRecord("dir", "parent")
MkdirGrow == At("mkdir", "grow") /\ GrowRecord("dir")
MkdirGrowSize == At("mkdir", "grow_size") /\ GrowSize("parent")

(* As LinkParent, but the new directory's count is raised.                  *)
LinkChild ==
    /\ At("mkdir", "parent")
    /\ inode' = [inode EXCEPT ![tool.ino].links = UShort(@ + 1)]
    /\ Stop
    /\ UNCHANGED <<inode_bitmap, block_bitmap, free_inodes, free_blocks, data>>
    /\ Bookkeeping

(* "dir link count=2+# of subdir"                                           *)
LinkParent ==
    /\ At("mkdir", "parent")
    /\ inode' = [inode EXCEPT ![tool.dir].links = UShort(@ + 1)]
    /\ Stop
    /\ UNCHANGED <<inode_bitmap, block_bitmap, free_inodes, free_blocks, data>>
    /\ Bookkeeping

Mkdir ==
    \/ MkdirStarts \/ MkdirCountInode \/ MkdirMarkInode \/ MkdirSetInode
    \/ MkdirAssignBlock \/ MkdirMarkBlock \/ MkdirCountBlock \/ Fill
    \/ MkdirFindRoom \/ MkdirEnter \/ MkdirGrow \/ MkdirGrowSize \/ LinkParent
==========================================================================
