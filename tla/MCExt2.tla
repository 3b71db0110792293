------------------------------ MODULE MCExt2 ------------------------------
(* An image with the directory /d (inode 3, block 3) and the file /f (inode *)
(* 4, blocks 4 and 5 and, behind the indirect block 6, block 7).  Blocks of *)
(* 60 bytes hold three or four short records.                               *)
EXTENDS Ext2

Lengths == [n \in {"", ".", "..", "d", "f", "a", "b", "x", "y", "s"} |->
            CASE n = "" -> 0 [] n = ".." -> 2 [] n = "x" -> 17 [] n = "b" -> 33 [] OTHER -> 1]

Unused == [kind |-> "none", size |-> 0, links |-> 0, nblocks |-> 0,
           i_block |-> [k \in 0..SLOTS - 1 |-> 0]]
Holding(kind, size, links, b) ==
    [Unused EXCEPT !.kind = kind, !.size = size, !.links = links,
                   !.nblocks = 1, !.i_block[0] = b]

LongFile ==
    [Unused EXCEPT !.kind = "file", !.size = 3, !.links = 1, !.nblocks = 4,
                   !.i_block = [k \in 0..SLOTS - 1 |-> 4 + k]]

SmallImage ==
    [inode_bitmap |-> 1..4, block_bitmap |-> 1..7,
     pointers |-> [b \in 0..BLOCK_NUM |-> IF b = 6 THEN 0 :> 7 ELSE <<>>],
     reserved_inodes |-> {1}, reserved_blocks |-> {1},
     inode |-> [n \in 1..INODE_NUM |->
                   CASE n = 2 -> Holding("dir", 1, 3, 2)
                     [] n = 3 -> Holding("dir", 1, 2, 3)
                     [] n = 4 -> LongFile
                     [] OTHER -> Unused],
     data |-> [b \in 0..BLOCK_NUM |->
                   CASE b = 2 -> <<Record(2, ".", "dir", 12),
                                   Record(2, "..", "dir", 12),
                                   Record(3, "d", "dir", 12),
                                   Record(4, "f", "file", EXT2_BLOCK_SIZE - 36)>>
                     [] b = 3 -> <<Record(3, ".", "dir", 12),
                                   Record(2, "..", "dir", EXT2_BLOCK_SIZE - 12)>>
                     [] OTHER -> <<>>],
     names |-> {[dir |-> 2, name |-> "d", inode |-> 3],
                [dir |-> 2, name |-> "f", inode |-> 4]},
     dirs |-> {2, 3}]

Ask(op, dir, name, from, of) ==
    [op |-> op, dir |-> dir, name |-> name, from |-> from, of |-> of]

CommandLines ==
    {Ask("mkdir", <<>>, "a", <<>>, ""), Ask("mkdir", <<"a">>, "b", <<>>, ""),
     Ask("ln", <<"d">>, "x", <<>>, "f"), Ask("ln", <<"d">>, "y", <<>>, "f"),
     Ask("ln_s", <<"d">>, "s", <<>>, "f"),
     Ask("rm", <<>>, "f", <<>>, ""), Ask("rm", <<"d">>, "x", <<>>, ""),
     Ask("rm", <<"d">>, "s", <<>>, "")}
===========================================================================
