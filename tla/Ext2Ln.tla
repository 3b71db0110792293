----------------------------- MODULE Ext2Ln -----------------------------
(* ext2_ln: a hard link (op "ln") or, with -s, a symbolic link (op "ln_s"). *)
EXTENDS Ext2Image

Linking(pc) == tool.op \in {"ln", "ln_s"} /\ tool.pc = pc

(* Both directories must exist, and the source be in one and no directory.  *)
LnStarts ==
    \E r \in {q \in Requests : q.op \in {"ln", "ln_s"}} :
        LET target == find_dir_inode(r.dir)
            source == IF target < 0 THEN target ELSE find_dir_inode(r.from)
            found == IF source < 0 THEN Record(source, NoName, "none", 0)
                     ELSE Scan(DirBlocks(source), r.of)
        IN  /\ Starts
            /\ \/ found.inode = Endless.inode /\ Hang(r.op)
               \/ /\ found.inode > 0
                  /\ found.type # "dir"
                  /\ tool' = [Idle EXCEPT
                                !.op = r.op, !.dir = target, !.name = r.name,
                                !.pc = IF r.op = "ln" THEN "count" ELSE "check",
                                !.ino = found.inode]
            /\ UNCHANGED image

(* As CountLink, but the count is forgotten.                                *)
CountLinkNot ==
    /\ At("ln", "count")
    /\ Goto("check")
    /\ UNCHANGED image
    /\ Bookkeeping

(* A hard link raises the source's count before the target is looked at.    *)
CountLink ==
    /\ At("ln", "count")
    /\ inode' = [inode EXCEPT ![tool.ino].links = UShort(@ + 1)]
    /\ Goto("check")
    /\ UNCHANGED <<inode_bitmap, block_bitmap, free_inodes, free_blocks, data>>
    /\ Bookkeeping

(* As CheckTarget, but a name that is taken does not end the tool.          *)
CheckTargetNot ==
    LET found == Scan(DirBlocks(tool.dir), tool.name) IN
    /\ Linking("check")
    /\ \/ found.inode = Endless.inode /\ Hang(tool.op)
       \/ /\ found.inode # Endless.inode
          /\ Goto(IF tool.op = "ln" THEN "room" ELSE "inode")
    /\ UNCHANGED image
    /\ Bookkeeping

(* A name that is taken ends the tool: EISDIR or EEXIST.                    *)
CheckTarget ==
    LET found == Scan(DirBlocks(tool.dir), tool.name) IN
    /\ Linking("check")
    /\ \/ found.inode = Endless.inode /\ Hang(tool.op)
       \/ found.inode > 0 /\ Stop
       \/ /\ found = NoRecord
          /\ Goto(IF tool.op = "ln" THEN "room" ELSE "inode")
    /\ UNCHANGED image
    /\ Bookkeeping

LnCountInode == At("ln_s", "inode") /\ CountInode
LnMarkInode == At("ln_s", "mark_inode") /\ MarkInode
LnSetInode == At("ln_s", "set_inode") /\ SetInode("symlink", 0, 1)

(* Without a free block the tool uses the pointer as it is; for a directory *)
(* that grows it was read at the end of CheckTarget.                        *)
LnAssignBlock ==
    /\ Linking("block")
    /\ AssignBlock({inode[Holder].i_block[Slot]})
LnMarkBlock == Linking("mark_block") /\ MarkBlock
LnCountBlock == Linking("count_block") /\ CountBlock

(* The path of the source is the content of a symbolic link; a directory's  *)
(* records there are gone.                                                  *)
WriteTarget ==
    /\ At("ln_s", "fill")
    /\ data' = [data EXCEPT ![tool.at] = <<>>]
    /\ Goto("room")
    /\ UNCHANGED <<inode_bitmap, block_bitmap, free_inodes, free_blocks, inode>>
    /\ Bookkeeping

LinkType == IF tool.op = "ln_s" THEN "symlink" ELSE "file"
LnFindRoom == Linking("room") /\ FindRoom
LnEnter == Linking("enter") /\ EnterRecord(LinkType, "idle")
LnGrow == Linking("grow") /\ GrowRecord(LinkType)
LnGrowSize == Linking("grow_size") /\ GrowSize("idle")

Ln ==
    \/ LnStarts \/ CountLink \/ CheckTarget
    \/ LnCountInode \/ LnMarkInode \/ LnSetInode
    \/ LnAssignBlock \/ LnMarkBlock \/ LnCountBlock \/ WriteTarget
    \/ LnFindRoom \/ LnEnter \/ LnGrow \/ LnGrowSize
==========================================================================
