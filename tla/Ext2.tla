------------------------------ MODULE Ext2 ------------------------------
(* The ext2 tools on one image, one after the other, each of which may be   *)
(* killed between two of its steps.                                         *)
EXTENDS Ext2Mkdir, Ext2Ln, Ext2Rm, Ext2Ls

Next == Mkdir \/ Ln \/ Rm \/ Killed

Spec == Init /\ [][Next]_vars

(* What the image says *****************************************************)

RecordsOf(n) ==
    UNION {ToSet(Records(b)) : b \in ToSet(DirBlocks(n))}

NamedBy(n) ==
    IF inode[n].kind # "dir" THEN {}
    ELSE {e \in RecordsOf(n) : e.inode # 0 /\ e.name \notin {".", ".."}}

Reachable ==
    LET reach[i \in 0..INODE_NUM] ==
            IF i = 0 THEN {EXT2_ROOT_INO}
            ELSE UNION {{n} \cup {e.inode : e \in NamedBy(n)} : n \in reach[i - 1]}
    IN  reach[INODE_NUM]

Directories == {n \in Reachable : inode[n].kind = "dir"}
Names == UNION {{[dir |-> n, name |-> e.name, inode |-> e.inode] :
                    e \in NamedBy(n)} : n \in Directories}

(* The blocks of an inode: those it points to and, when there are more than *)
(* DIRECT, those behind the indirect pointer.  0 is no block, it is what a  *)
(* tool that found no free one left there.                                  *)
BlocksIn(table, n) ==
    LET i == table[n]
        direct == {i.i_block[k] : k \in 0..Min({DIRECT + 1, i.nblocks}) - 1}
        behind == IF i.nblocks <= DIRECT THEN {}
                  ELSE {Pointer(i.i_block[DIRECT], k) : k \in 0..i.nblocks - DIRECT - 2}
    IN  (direct \cup behind) \ {0}
BlocksOf(n) == BlocksIn(inode, n)

(* These inodes are marked in the inode bitmap and set up, their blocks are *)
(* marked in the block bitmap, and no two of them have a block in common.   *)
InUse(ns, table, inodes, blocks) ==
    \A n \in ns : /\ n \in inodes
                  /\ table[n].kind # "none"
                  /\ BlocksIn(table, n) \subseteq blocks
                  /\ \A m \in ns \ {n} : BlocksIn(table, n) \cap BlocksIn(table, m) = {}

(* The root and the inodes in records, whoever has the block they are in.   *)
Recorded(records) ==
    {n \in Inodes : n = EXT2_ROOT_INO
                       \/ \E b \in DOMAIN records : \E e \in ToSet(records[b]) : e.inode = n}

(* The records of a block lie inside it, each long enough for its name.     *)
Fits(records) ==
    /\ Used(records) <= EXT2_BLOCK_SIZE
    /\ \A e \in ToSet(records) : e.rec_len >= EXT2_DIR_REC_LEN(e.name)

(* Where the records that name an inode are: block and place in it.         *)
Uses(records, n) ==
    UNION {{<<b, k>> : k \in {j \in DOMAIN records[b] : records[b][j].inode = n}} :
              b \in DOMAIN records}

(* The first image is one that e2fsck would pass: its records name inodes   *)
(* in use, by their kind, and without an inode they have no name; what is   *)
(* free is empty; directories lie in direct blocks; a file is linked at     *)
(* least as often as it is named; what belongs to nobody is reserved.       *)
InodeType == [kind : Kinds, size : 0..BLOCK_NUM, links : UShorts, nblocks : 0..BLOCK_NUM,
              i_block : [0..SLOTS - 1 -> 0..BLOCK_NUM]]
RecordType == [inode : 0..INODE_NUM, name : DOMAIN NameLen, type : Kinds, rec_len : Nat]

ASSUME FirstImageAssumption ==
    LET first == FirstImage IN
    /\ first.inode \in [Inodes -> InodeType]
    /\ first.data \in [0..BLOCK_NUM -> Seq(RecordType)]
    /\ first.inode[EXT2_ROOT_INO].kind = "dir"
    /\ InUse(Recorded(first.data), first.inode, first.inode_bitmap, first.block_bitmap)
    /\ \A n \in Inodes \ first.inode_bitmap :
          /\ first.inode[n].kind = "none" /\ first.inode[n].nblocks = 0
          /\ \A k \in 0..SLOTS - 1 : first.inode[n].i_block[k] = 0
    /\ \A b \in Blocks \ first.block_bitmap : first.data[b] = <<>>
    /\ \A n \in Inodes :
          LET i == first.inode[n]
          IN  i.kind = "dir" => i.size = i.nblocks /\ i.nblocks <= DIRECT
    /\ first.data[0] = <<>>
    /\ \A n \in Inodes : first.inode[n].kind # "dir" =>
          Cardinality(Uses(first.data, n)) <= first.inode[n].links
    /\ \A n \in first.inode_bitmap \ first.reserved_inodes : first.inode[n].kind # "none"
    /\ first.block_bitmap \ first.reserved_blocks
          \subseteq UNION {BlocksIn(first.inode, n) : n \in first.inode_bitmap}
    /\ IsFiniteSet(first.reserved_inodes) /\ IsFiniteSet(first.reserved_blocks)
    /\ \A b \in 0..BLOCK_NUM : Fits(first.data[b])
    /\ \A b \in 0..BLOCK_NUM : \A e \in ToSet(first.data[b]) :
          IF e.inode = 0 THEN e.name = NoName
          ELSE /\ e.type # "none"
               /\ e.type = "dir" <=> first.inode[e.inode].kind = "dir"

(* No component of a path and no name given is empty.                       *)
Given == DOMAIN NameLen \ {NoName}

ASSUME RequestsAssumption ==
    \A r \in Requests : /\ r.op \in {"mkdir", "ln", "ln_s", "rm"}
                        /\ r.dir \in Seq(Given) /\ r.name \in Given
                        /\ r.op \in {"ln", "ln_s"} => r.from \in Seq(Given) /\ r.of \in Given

(* Every record is long enough for its name and the records of a block lie  *)
(* inside it (rec_len as ext2_mkdir.c:176-181 and ext2_ln.c:274-280 split   *)
(* it), and the rest has its type.                                          *)
TypeOK ==
    /\ inode_bitmap \subseteq Inodes /\ block_bitmap \subseteq Blocks
    /\ free_inodes \in -MaxKills..INODE_NUM + 1
    /\ free_blocks \in 0..2 * BLOCK_NUM + MaxKills
    /\ inode \in [Inodes -> InodeType]
    /\ DOMAIN data = 0..BLOCK_NUM
    /\ \A b \in DOMAIN data :
          /\ Fits(data[b])
          /\ \A e \in ToSet(data[b]) : e.inode \in 0..INODE_NUM /\ e.type \in Kinds
    /\ tool.ino \in 0..INODE_NUM /\ tool.at \in 0..BLOCK_NUM
    /\ kills \in 0..MaxKills /\ started \in 0..MaxTools /\ freed \in BOOLEAN

(* Every inode that a path leads to is in use, its blocks for it alone.     *)
NamedInUse == InUse(Reachable, inode, inode_bitmap, block_bitmap)

(* At every moment, a tool half way or killed included, and until rm gives  *)
(* an inode back, what is named is in use: mkdir and ln mark before they    *)
(* enter the name (ext2_mkdir.c:109-228, ext2_ln.c:217-334).                *)
NamedUntilFreed == ~freed => NamedInUse

(* The link count of a file is never smaller than the number of its names,  *)
(* so rm never gives back an inode that is still named (ext2_ln.c:182       *)
(* before the entry, ext2_rm.c:139 after it).                               *)
LinksCover ==
    ~freed => \A n \in Reachable \ Directories :
        Cardinality({e \in Names : e.inode = n}) <= inode[n].links

(* Between two tools the link count of a directory is 2 and one for every   *)
(* subdirectory (ext2_mkdir.c:230); a killed tool leaves it one too low.    *)
DirLinks ==
    tool = Idle /\ ~freed =>
        \A d \in Directories :
            LET subdirs == Cardinality({e \in Names : e.dir = d
                                            /\ e.inode \in Directories})
            IN  inode[d].links \in 2 + subdirs - kills .. 2 + subdirs

(* Between two tools the free counts say what the bitmaps say, up to one    *)
(* for every tool killed (ext2_mkdir.c:114-117, 140-142).                   *)
CountersClose ==
    tool = Idle /\ ~freed =>
        /\ free_inodes \in INODE_NUM - Cardinality(inode_bitmap) - kills
                            .. INODE_NUM - Cardinality(inode_bitmap)
        /\ free_blocks \in BLOCK_NUM - Cardinality(block_bitmap)
                            .. BLOCK_NUM - Cardinality(block_bitmap) + kills

(* Between two tools every marked inode was set up and every marked block   *)
(* belongs to a marked inode, but for one of them per killed tool and those *)
(* the image came with.                                                     *)
OneLeakPerKill ==
    tool = Idle /\ ~freed =>
        LET unset == {n \in inode_bitmap : inode[n].kind = "none"}
            unowned == block_bitmap \ UNION {BlocksOf(n) : n \in inode_bitmap}
            before == Cardinality(FirstImage.reserved_inodes)
                        + Cardinality(FirstImage.reserved_blocks)
        IN  Cardinality(unset) + Cardinality(unowned) <= before + kills

(* While no tool was killed, no scan leaves the records: those of every     *)
(* directory block fill it whatever was added and taken away, so that every *)
(* tool ends (the loops at ext2_mkdir.c:175 and 259, ext2_ln.c:152, 194 and *)
(* 273, ext2_rm.c:100).                                                     *)
ScansEnd == kills = 0 => tool.pc # "endless"

(* Whatever tools ran and wherever one of them stopped, ls prints the names *)
(* of a directory, each once and nothing else, and a path to a name in the  *)
(* first block leads it there (ext2_ls.c:77-100, 127-148).  Only what a     *)
(* killed tool left, or one that still runs, keeps ls from its end or makes *)
(* it miss names behind it.                                                 *)
ListsNames ==
    ~freed =>
        /\ \A d \in Directories, aflag \in BOOLEAN :
              LET listed == ls_directory(d, aflag)
                  dots == IF aflag THEN {".", ".."} ELSE {}
                  names == {e.name : e \in NamedBy(d)}
              IN  /\ IsInjective(listed.printed)
                  /\ ToSet(listed.printed) \subseteq names \cup dots
                  /\ listed.ends => names \cup dots \subseteq ToSet(listed.printed)
                  /\ kills = 0 /\ tool = Idle => listed.ends
        /\ \A e \in NamedBy(EXT2_ROOT_INO) \cap ToSet(Records(inode[EXT2_ROOT_INO].i_block[0])) :
              ls(<<e.name>>, FALSE) = IF e.inode \in Directories
                                      THEN ls_directory(e.inode, FALSE)
                                      ELSE [printed |-> <<e.name>>, ends |-> TRUE]

(* Whatever tools run and wherever they die, the names change one at a      *)
(* time: a name that is taken is not given again, a directory is not lost,  *)
(* and no other name comes or goes.                                         *)
Tree == INSTANCE DirectoryTree WITH
    Root <- EXT2_ROOT_INO, names <- Names, dirs <- Directories,
    FirstNames <- FirstImage.names, FirstDirs <- FirstImage.dirs
ImplementsTree == Tree!Spec
==========================================================================
