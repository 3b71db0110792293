----------------------------- MODULE Ext2Ls -----------------------------
(* ext2_ls: reads the image and prints names.  It stores nothing, so it is  *)
(* no action but a function of the image: what it prints, and whether it    *)
(* comes to its end.                                                        *)
EXTENDS Ext2Image

ShownAlways(e, aflag) ==    \* a mutant: removed records are not skipped
    aflag \/ e.name \notin {".", ".."}

Shown(e, aflag) == e.name # NoName /\ (aflag \/ e.name \notin {".", ".."})

(* The blocks of a directory are those of i_block, up to the first whose    *)
(* records do not fill it: there the loop stays.                            *)
ls_directory(n, aflag) ==
    LET bs == DirBlocks(n)
        short == {k \in DOMAIN bs : ~Filled(bs[k])}
        read == FlattenSeq([k \in 1..(IF short = {} THEN Len(bs) ELSE Min(short)) |->
                               Records(bs[k])])
        shown == SelectSeq(read, LAMBDA e : Shown(e, aflag))
    IN  [printed |-> [k \in DOMAIN shown |-> shown[k].name], ends |-> short = {}]

(* A component that is a file or a link is printed and ends the program.    *)
FileOn(path) ==
    path[Min({k \in DOMAIN path : find_dir_inode(SubSeq(path, 1, k)) = NotADirectory})]

ls(path, aflag) ==
    LET n == find_dir_inode(path)
    IN  CASE n = NotADirectory   -> [printed |-> <<FileOn(path)>>, ends |-> TRUE]
          [] n = NoRecord.inode  -> [printed |-> <<>>, ends |-> TRUE]
          [] n = Endless.inode   -> [printed |-> <<>>, ends |-> FALSE]
          [] OTHER               -> ls_directory(n, aflag)
==========================================================================
