-------------------------- MODULE DirectoryTree --------------------------
(* What the ext2 tools promise about the names of an image: every change    *)
(* adds one new name or takes one name of a file away, at once.             *)
CONSTANTS Root, FirstNames, FirstDirs

VARIABLES names,    \* records [dir, name, inode]
          dirs      \* inodes of the directories

Init == names = FirstNames /\ dirs = FirstDirs

Taken(d, name) == \E e \in names : e.dir = d /\ e.name = name
Named(i) == i = Root \/ \E e \in names : e.inode = i

MakeDirectory(d, name, i) ==
    /\ d \in dirs
    /\ ~Taken(d, name)
    /\ ~Named(i)
    /\ names' = names \cup {[dir |-> d, name |-> name, inode |-> i]}
    /\ dirs' = dirs \cup {i}

Link(d, name, i) ==
    /\ d \in dirs
    /\ ~Taken(d, name)
    /\ i \notin dirs
    /\ names' = names \cup {[dir |-> d, name |-> name, inode |-> i]}
    /\ UNCHANGED dirs

Remove(e) ==
    /\ e \in names
    /\ e.inode \notin dirs
    /\ names' = names \ {e}
    /\ UNCHANGED dirs

(* The name that a step adds or takes away is read off the step.            *)
Next ==
    \/ \E e \in names' \ names :
          MakeDirectory(e.dir, e.name, e.inode) \/ Link(e.dir, e.name, e.inode)
    \/ \E e \in names \ names' : Remove(e)

Spec == Init /\ [][Next]_<<names, dirs>>
==========================================================================
