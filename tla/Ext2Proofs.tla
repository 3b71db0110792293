----------------------------- MODULE Ext2Proofs -----------------------------
(* The ext2 image, for images and requests of any size, any number of       *)
(* tools and any number of kills: the free counts agree with the bitmaps    *)
(* between tools, what a path leads to is in use, no file has more names    *)
(* than links, a kill costs one inode or block, and the records of a block  *)
(* lie inside it.                                                           *)
EXTENDS Ext2, FiniteSetTheorems, WellFoundedInduction, TLAPS

LEMMA Sizes == INODE_NUM \in Nat /\ BLOCK_NUM \in Nat
BY ImageAssumption, Zenon

USE Sizes, BitmapsAssumption

\* By how much the counts are off while a tool that changed one of a count and
\* its bit has still to change the other: mkdir and ln lower the count of free
\* inodes before they set the bit, and set the bit of a block before they lower
\* the count of free blocks.
InodeOwed == IF tool.pc = "mark_inode" THEN 1 ELSE 0
BlockOwed == IF tool.pc = "count_block" THEN 1 ELSE 0

\* How many more inodes the bitmap has free than the count says, and how many
\* fewer blocks.
InodeGap == INODE_NUM - Cardinality(inode_bitmap) - free_inodes
BlockGap == free_blocks - (BLOCK_NUM - Cardinality(block_bitmap))

\* Only rm, once it gave an inode back, is at these labels.
Freeing == {"free_block", "free_indirect"}

CountInv ==
    /\ DOMAIN tool = DOMAIN Idle
    /\ kills \in Nat
    /\ ~freed =>
          /\ inode_bitmap \subseteq Inodes /\ block_bitmap \subseteq Blocks
          /\ free_inodes \in Int /\ free_blocks \in Int
          /\ tool.pc \notin Freeing
          /\ tool.pc = "mark_inode" => tool.ino \in Inodes \ inode_bitmap
          /\ tool.pc = "mark_block" => tool.at \in Blocks \ block_bitmap
          /\ InodeGap - InodeOwed \in 0..kills
          /\ BlockGap - BlockOwed \in 0..kills

LEMMA LeastIs ==
    ASSUME NEW S, S \subseteq Nat, S # {}
    PROVE  Min(S) \in S /\ \A y \in S : Min(S) <= y
<1> DEFINE R == {ss \in Nat \X Nat : ss[1] < ss[2]}
<1>1. IsWellFoundedOn(R, Nat)
  BY NatLessThanWellFounded, Zenon DEF OpToRel
<1> HIDE DEF R
<1>2. PICK m \in S : \A y \in S : ~ (<<y, m>> \in R)
  BY <1>1, WFMin
<1>3. \A y \in S : m <= y
  <2>1. SUFFICES ASSUME NEW y \in S, y < m PROVE FALSE
    OBVIOUS
  <2>2. <<y, m>> \in Nat \X Nat /\ <<y, m>>[1] < <<y, m>>[2]
    BY <2>1
  <2> QED BY <1>2, <2>1, <2>2 DEF R
<1>4. \E x \in S : \A y \in S : x <= y
  BY <1>3
<1> QED BY <1>4, Zenon DEF Min

LEMMA BitmapsFinite ==
    ASSUME CountInv, ~freed
    PROVE  /\ IsFiniteSet(inode_bitmap) /\ Cardinality(inode_bitmap) \in Nat
           /\ IsFiniteSet(block_bitmap) /\ Cardinality(block_bitmap) \in Nat
<1>1. IsFiniteSet(Inodes) /\ IsFiniteSet(Blocks)
  BY FS_Interval DEF Inodes, Blocks
<1> QED BY <1>1, FS_Subset, FS_CardinalityType DEF CountInv

LEMMA CountInit == Init => CountInv
<1> SUFFICES ASSUME Init PROVE CountInv
  OBVIOUS
<1>1. /\ inode_bitmap \subseteq Inodes /\ block_bitmap \subseteq Blocks
      /\ tool = Idle /\ tool.pc = "idle" /\ kills = 0 /\ ~freed
      /\ free_inodes = INODE_NUM - Cardinality(inode_bitmap)
      /\ free_blocks = BLOCK_NUM - Cardinality(block_bitmap)
  BY DEF Init, Idle
<1>2. IsFiniteSet(Inodes) /\ IsFiniteSet(Blocks)
  BY FS_Interval DEF Inodes, Blocks
<1>3. Cardinality(inode_bitmap) \in Nat /\ Cardinality(block_bitmap) \in Nat
  BY <1>1, <1>2, FS_Subset, FS_CardinalityType
<1> QED BY <1>1, <1>3 DEF CountInv, InodeGap, BlockGap, InodeOwed, BlockOwed, Freeing

-----------------------------------------------------------------------------
(* The steps that allocate.                                                *)

LEMMA CountInodeCounts == ASSUME CountInv, tool.pc = "inode", CountInode PROVE CountInv'
<1>0. {"pc", "ino"} \subseteq DOMAIN tool /\ Idle.pc = "idle"
  BY DEF CountInv, Idle
<1>1. /\ UNCHANGED <<inode_bitmap, block_bitmap, free_blocks, kills, freed>>
      /\ DOMAIN tool' = DOMAIN Idle
      /\ \/ /\ get_inode_bitmap # {} /\ free_inodes' = free_inodes - 1
            /\ tool'.pc = "mark_inode" /\ tool'.ino = Min(get_inode_bitmap)
         \/ free_inodes' = free_inodes /\ tool'.pc = "idle"
  <2>1. CASE get_inode_bitmap # {} /\ free_inodes' = free_inodes - 1
             /\ tool' = [tool EXCEPT !.pc = "mark_inode", !.ino = Min(get_inode_bitmap)]
    BY <1>0, <2>1 DEF CountInv, CountInode, Bookkeeping
  <2>2. CASE tool' = Idle /\ UNCHANGED free_inodes
    BY <1>0, <2>2 DEF CountInv, CountInode, Bookkeeping
  <2> QED BY <2>1, <2>2 DEF CountInode, Stop
<1>2. get_inode_bitmap # {} => Min(get_inode_bitmap) \in Inodes \ inode_bitmap
  <2>1. get_inode_bitmap = Inodes \ inode_bitmap /\ get_inode_bitmap \subseteq Nat
    BY DEF get_inode_bitmap, Inodes
  <2> QED BY <2>1, LeastIs
<1> HIDE DEF get_inode_bitmap
<1> QED BY <1>1, <1>2, BitmapsFinite
        DEF CountInv, InodeGap, BlockGap, InodeOwed, BlockOwed, Freeing

LEMMA MarkInodeCounts == ASSUME CountInv, tool.pc = "mark_inode", MarkInode PROVE CountInv'
<1>1. /\ UNCHANGED <<block_bitmap, free_inodes, free_blocks, kills, freed>>
      /\ inode_bitmap' = inode_bitmap \cup {tool.ino}
      /\ DOMAIN tool' = DOMAIN tool /\ tool'.pc = "set_inode"
  BY DEF CountInv, MarkInode, set_inode_bitmap, Goto, Idle, Bookkeeping
<1>2. ~freed => Cardinality(inode_bitmap') = Cardinality(inode_bitmap) + 1
  BY <1>1, BitmapsFinite, FS_AddElement DEF CountInv
<1> QED BY <1>1, <1>2, BitmapsFinite
        DEF CountInv, InodeGap, BlockGap, InodeOwed, BlockOwed, Freeing

LEMMA AssignBlockCounts ==
    ASSUME CountInv, tool.pc = "block", NEW U, AssignBlock(U)
    PROVE  CountInv'
<1>1. /\ UNCHANGED <<inode_bitmap, block_bitmap, free_inodes, free_blocks, kills, freed>>
      /\ DOMAIN tool' = DOMAIN tool
      /\ \/ /\ get_block_bitmap # {}
            /\ tool'.pc = "mark_block" /\ tool'.at = Min(get_block_bitmap)
         \/ tool'.pc \in {"fill", "grow"}
  BY DEF CountInv, AssignBlock, AfterBlock, Idle, Bookkeeping
<1>2. get_block_bitmap # {} => Min(get_block_bitmap) \in Blocks \ block_bitmap
  <2>1. get_block_bitmap = Blocks \ block_bitmap /\ get_block_bitmap \subseteq Nat
    BY DEF get_block_bitmap, Blocks
  <2> QED BY <2>1, LeastIs
<1> QED BY <1>1, <1>2, BitmapsFinite
        DEF CountInv, InodeGap, BlockGap, InodeOwed, BlockOwed, Freeing

LEMMA MarkBlockCounts == ASSUME CountInv, tool.pc = "mark_block", MarkBlock PROVE CountInv'
<1>1. /\ UNCHANGED <<inode_bitmap, free_inodes, free_blocks, kills, freed>>
      /\ block_bitmap' = block_bitmap \cup {tool.at}
      /\ DOMAIN tool' = DOMAIN tool /\ tool'.pc = "count_block"
  BY DEF CountInv, MarkBlock, set_block_bitmap, Goto, Idle, Bookkeeping
<1>2. ~freed => Cardinality(block_bitmap') = Cardinality(block_bitmap) + 1
  BY <1>1, BitmapsFinite, FS_AddElement DEF CountInv
<1> QED BY <1>1, <1>2, BitmapsFinite
        DEF CountInv, InodeGap, BlockGap, InodeOwed, BlockOwed, Freeing

LEMMA CountBlockCounts == ASSUME CountInv, tool.pc = "count_block", CountBlock PROVE CountInv'
<1>1. /\ UNCHANGED <<inode_bitmap, block_bitmap, free_inodes, kills, freed>>
      /\ free_blocks' = free_blocks - 1
      /\ DOMAIN tool' = DOMAIN tool /\ tool'.pc \in {"fill", "grow"}
  BY DEF CountInv, CountBlock, AfterBlock, Goto, Idle, Bookkeeping
<1> QED BY <1>1, BitmapsFinite
        DEF CountInv, InodeGap, BlockGap, InodeOwed, BlockOwed, Freeing

-----------------------------------------------------------------------------
(* All others.                                                             *)

\* A tool that neither allocates nor frees, before and after its step.
Ordinary == {"idle", "endless", "inode", "set_inode", "block", "fill", "room", "enter", "grow",
             "grow_size", "parent", "count", "check", "clear", "drop"}

LEMMA OthersCount ==
    ASSUME CountInv, tool.pc \in Ordinary, tool'.pc \in Ordinary \union {"free_inode"},
           DOMAIN tool' = DOMAIN tool,
           UNCHANGED <<inode_bitmap, block_bitmap, free_inodes, free_blocks, kills, freed>>
    PROVE  CountInv'
BY DEF CountInv, InodeGap, BlockGap, InodeOwed, BlockOwed, Freeing, Ordinary

\* A tool that dies with a count and a bit apart leaves them so.
LEMMA KilledCounts == ASSUME CountInv, Killed PROVE CountInv'
<1>1. /\ UNCHANGED <<inode_bitmap, block_bitmap, free_inodes, free_blocks, freed>>
      /\ kills' = kills + 1 /\ DOMAIN tool' = DOMAIN Idle /\ tool'.pc = "idle"
  BY DEF Killed, Stop, Idle, image
<1> QED BY <1>1, BitmapsFinite
        DEF CountInv, InodeGap, BlockGap, InodeOwed, BlockOwed, Freeing

-----------------------------------------------------------------------------
(* The tools.                                                              *)

LEMMA CountStays ==
    ASSUME CountInv, NEW l, tool.pc \in Ordinary, l \in Ordinary \union {"free_inode"},
           \/ tool' = [tool EXCEPT !.pc = l]
           \/ Idle.pc = l /\ tool' = Idle
           \/ \E op : l = "endless" /\ tool' = [Idle EXCEPT !.op = op, !.pc = l],
           UNCHANGED <<inode_bitmap, block_bitmap, free_inodes, free_blocks, kills, freed>>
    PROVE  CountInv'
<1>1. DOMAIN tool' = DOMAIN tool /\ tool'.pc = l
  BY DEF CountInv, Idle
<1> QED BY <1>1, OthersCount

LEMMA Endings ==
    ASSUME Stop \/ \E op : Hang(op)
    PROVE  DOMAIN tool' = DOMAIN Idle /\ tool'.pc \in {"endless", "idle"}
<1>1. "pc" \in DOMAIN Idle /\ Idle.pc = "idle"
  BY DEF Idle
<1>2. CASE \E op : Hang(op)
  BY <1>1, <1>2 DEF Hang
<1>3. CASE Stop
  BY <1>1, <1>3 DEF Stop
<1> QED BY <1>2, <1>3

LEMMA FindRoomCounts == ASSUME CountInv, tool.pc = "room", FindRoom PROVE CountInv'
<1>1. /\ DOMAIN tool' = DOMAIN tool /\ tool'.pc \in {"block", "endless", "enter"}
      /\ UNCHANGED <<inode_bitmap, block_bitmap, free_inodes, free_blocks, kills, freed>>
  BY Zenon DEF CountInv, FindRoom, Hang, Idle, Bookkeeping
<1> QED BY <1>1, OthersCount DEF Ordinary

LEMMA MkdirCounts == ASSUME CountInv, Mkdir PROVE CountInv'
<1>1. CASE MkdirStarts
  <2>1. PICK r : /\ Starts /\ UNCHANGED image
                 /\ \/ Hang("mkdir")
                    \/ tool' = [Idle EXCEPT !.op = "mkdir", !.pc = "inode",
                                   !.dir = find_dir_inode(r.dir), !.name = r.name]
    BY <1>1 DEF MkdirStarts
  <2>2. tool.pc = "idle" /\ DOMAIN tool' = DOMAIN Idle /\ tool'.pc \in {"endless", "inode"}
    BY <2>1 DEF Starts, Hang, Idle
  <2> QED BY <2>1, <2>2, OthersCount DEF CountInv, Starts, image, Ordinary
<1>2. CASE MkdirCountInode
  BY <1>2, CountInodeCounts DEF MkdirCountInode, At
<1>3. CASE MkdirMarkInode
  BY <1>3, MarkInodeCounts DEF MkdirMarkInode, At
<1>4. CASE MkdirAssignBlock
  BY <1>4, AssignBlockCounts DEF MkdirAssignBlock, At
<1>5. CASE MkdirMarkBlock
  BY <1>5, MarkBlockCounts DEF MkdirMarkBlock, At
<1>6. CASE MkdirCountBlock
  BY <1>6, CountBlockCounts DEF MkdirCountBlock, At
<1>7. CASE MkdirSetInode
  <2>1. DOMAIN tool' = DOMAIN tool /\ tool.pc = "set_inode" /\ tool'.pc = "block"
    BY <1>7 DEF CountInv, MkdirSetInode, SetInode, At, Idle
  <2> QED BY <1>7, <2>1, OthersCount DEF MkdirSetInode, SetInode, Bookkeeping, Ordinary
<1>8. CASE Fill
  BY <1>8, CountStays DEF Fill, At, Goto, Bookkeeping, Ordinary
<1>9. CASE MkdirFindRoom
  BY <1>9, FindRoomCounts DEF MkdirFindRoom, At
<1>10. CASE MkdirEnter \/ MkdirGrow \/ MkdirGrowSize
  BY <1>10, CountStays
     DEF MkdirEnter, EnterRecord, MkdirGrow, GrowRecord, MkdirGrowSize, GrowSize,
         At, Goto, Bookkeeping, Ordinary
<1>11. CASE LinkParent
  <2>1. /\ tool.pc = "parent" /\ tool' = Idle
        /\ UNCHANGED <<inode_bitmap, block_bitmap, free_inodes, free_blocks, data>>
        /\ Bookkeeping
    BY <1>11, Zenon DEF LinkParent, At, Stop
  <2> QED BY <2>1, CountStays DEF Idle, Bookkeeping, Ordinary
<1> QED BY <1>1, <1>2, <1>3, <1>4, <1>5, <1>6, <1>7, <1>8, <1>9, <1>10, <1>11 DEF Mkdir

LEMMA LnCounts == ASSUME CountInv, Ln PROVE CountInv'
<1>1. CASE LnStarts
  <2>1. PICK r : /\ Starts /\ UNCHANGED image
                 /\ \/ Hang(r.op)
                    \/ \E target, source :
                          tool' = [Idle EXCEPT
                                     !.op = r.op, !.dir = target, !.name = r.name,
                                     !.pc = IF r.op = "ln" THEN "count" ELSE "check",
                                     !.ino = source]
    BY <1>1, Zenon DEF LnStarts
  <2>2. tool.pc = "idle" /\ DOMAIN tool' = DOMAIN Idle /\ tool'.pc \in {"endless", "count", "check"}
    <3>1. CASE Hang(r.op)
      BY <2>1, <3>1 DEF Starts, Hang, Idle
    <3>2. ASSUME NEW target, NEW source,
                 tool' = [Idle EXCEPT !.op = r.op, !.dir = target, !.name = r.name,
                             !.pc = IF r.op = "ln" THEN "count" ELSE "check", !.ino = source]
          PROVE  tool.pc = "idle" /\ DOMAIN tool' = DOMAIN Idle /\ tool'.pc \in {"count", "check"}
      BY <2>1, <3>2 DEF Starts, Idle
    <3> QED BY <2>1, <3>1, <3>2
  <2> QED BY <2>1, <2>2, OthersCount DEF CountInv, Starts, image, Ordinary
<1>2. CASE CountLink
  <2>1. /\ tool.pc = "count" /\ tool' = [tool EXCEPT !.pc = "check"]
        /\ UNCHANGED <<inode_bitmap, block_bitmap, free_inodes, free_blocks, data>>
        /\ Bookkeeping
    BY <1>2, Zenon DEF CountLink, At, Goto
  <2> QED BY <2>1, CountStays DEF Bookkeeping, Ordinary
<1>3. CASE CheckTarget
  <2>1. /\ tool.pc = "check" /\ DOMAIN tool' = DOMAIN tool
        /\ tool'.pc \in {"endless", "idle", "room", "inode"}
        /\ UNCHANGED <<inode_bitmap, block_bitmap, free_inodes, free_blocks, kills, freed>>
    <3>1. /\ tool.pc = "check" /\ UNCHANGED image /\ Bookkeeping
          /\ Hang(tool.op) \/ Stop \/ \E l \in {"room", "inode"} : Goto(l)
      BY <1>3 DEF CheckTarget, Linking
    <3>2. DOMAIN tool' = DOMAIN tool /\ tool'.pc \in {"endless", "idle", "room", "inode"}
      <4>1. CASE Hang(tool.op) \/ Stop
        BY <4>1, Endings DEF CountInv
      <4>2. CASE \E l \in {"room", "inode"} : Goto(l)
        BY <4>2 DEF CountInv, Goto, Idle
      <4> QED BY <3>1, <4>1, <4>2
    <3> QED BY <3>1, <3>2 DEF image, Bookkeeping
  <2> QED BY <2>1, OthersCount DEF Ordinary
<1>4. CASE LnCountInode
  BY <1>4, CountInodeCounts DEF LnCountInode, At
<1>5. CASE LnMarkInode
  BY <1>5, MarkInodeCounts DEF LnMarkInode, At
<1>6. CASE LnAssignBlock
  BY <1>6, AssignBlockCounts DEF LnAssignBlock, Linking
<1>7. CASE LnMarkBlock
  BY <1>7, MarkBlockCounts DEF LnMarkBlock, Linking
<1>8. CASE LnCountBlock
  BY <1>8, CountBlockCounts DEF LnCountBlock, Linking
<1>9. CASE LnSetInode
  <2>1. DOMAIN tool' = DOMAIN tool /\ tool.pc = "set_inode" /\ tool'.pc = "block"
    BY <1>9 DEF CountInv, LnSetInode, SetInode, At, Idle
  <2> QED BY <1>9, <2>1, OthersCount DEF LnSetInode, SetInode, Bookkeeping, Ordinary
<1>10. CASE WriteTarget
  BY <1>10, CountStays DEF WriteTarget, At, Goto, Bookkeeping, Ordinary
<1>11. CASE LnFindRoom
  BY <1>11, FindRoomCounts DEF LnFindRoom, Linking
<1>12. CASE LnEnter \/ LnGrow \/ LnGrowSize
  <2>1. Idle.pc = "idle"
    BY DEF Idle
  <2> QED BY <1>12, <2>1, CountStays
          DEF LnEnter, EnterRecord, LnGrow, GrowRecord, LnGrowSize, GrowSize,
              Linking, Stop, Goto, Bookkeeping, Ordinary
<1> QED BY <1>1, <1>2, <1>3, <1>4, <1>5, <1>6, <1>7, <1>8, <1>9, <1>10, <1>11, <1>12 DEF Ln

\* Until rm gives an inode back it changes no count and no bitmap, and after
\* that nothing is said.
LEMMA RmCounts == ASSUME CountInv, Rm PROVE CountInv'
<1>1. CASE RmStarts
  <2>1. PICK r : /\ Starts /\ UNCHANGED image
                 /\ \/ Hang("rm")
                    \/ \E ino :
                          tool' = [Idle EXCEPT
                                     !.op = "rm", !.pc = "clear",
                                     !.dir = find_dir_inode(r.dir), !.name = r.name,
                                     !.ino = ino,
                                     !.at = BlockNaming(find_dir_inode(r.dir), r.name)]
    BY <1>1, Zenon DEF RmStarts
  <2>2. tool.pc = "idle" /\ DOMAIN tool' = DOMAIN Idle /\ tool'.pc \in {"endless", "clear"}
    BY <2>1 DEF Starts, Hang, Idle
  <2> QED BY <2>1, <2>2, OthersCount DEF CountInv, Starts, image, Ordinary
<1>2. CASE ClearEntry
  BY <1>2, CountStays DEF ClearEntry, At, Goto, Bookkeeping, Ordinary
<1>3. CASE DropLink
  <2>1. /\ tool.pc = "drop"
        /\ Goto("free_inode") \/ Stop
        /\ UNCHANGED <<inode_bitmap, block_bitmap, free_inodes, free_blocks, kills, freed>>
    <3>1. tool.pc = "drop" /\ (Goto("free_inode") \/ Stop)
      BY <1>3 DEF DropLink, At
    <3> QED BY <1>3, <3>1 DEF DropLink, Bookkeeping
  <2>2. CASE Goto("free_inode")
    <3>1. DOMAIN tool' = DOMAIN tool /\ tool'.pc = "free_inode"
      BY <2>2 DEF CountInv, Goto, Idle
    <3> QED BY <2>1, <3>1, OthersCount DEF Ordinary
  <2>3. CASE Stop
    <3>1. DOMAIN tool' = DOMAIN tool /\ tool'.pc \in {"endless", "idle"}
      BY <2>3, Endings DEF CountInv
    <3> QED BY <2>1, <3>1, OthersCount DEF Ordinary
  <2> QED BY <2>1, <2>2, <2>3
<1>4. CASE FreeInode
  BY <1>4 DEF CountInv, FreeInode
<1>5. CASE FreeBlock \/ FreeIndirect
  <2>1. freed /\ freed' = freed /\ kills' = kills
    BY <1>5 DEF CountInv, FreeBlock, FreeIndirect, FreeBlocks, At, Bookkeeping, Freeing
  <2>2. DOMAIN tool' = DOMAIN Idle
    BY <1>5 DEF CountInv, FreeBlock, FreeIndirect, FreeBlocks
  <2> QED BY <2>1, <2>2 DEF CountInv
<1> QED BY <1>1, <1>2, <1>3, <1>4, <1>5 DEF Rm

LEMMA CountNext == CountInv /\ [Next]_vars => CountInv'
<1> SUFFICES ASSUME CountInv, [Next]_vars PROVE CountInv'
  OBVIOUS
<1>1. CASE UNCHANGED vars
  BY <1>1 DEF vars, image, CountInv, InodeGap, BlockGap, InodeOwed, BlockOwed, Freeing
<1> QED BY <1>1, MkdirCounts, LnCounts, RmCounts, KilledCounts DEF Next

\* Whatever tools ran and wherever they were killed, the free counts that ls and
\* the next tool believe (ext2_mkdir.c:114-117, 140-142 and their copies in
\* ext2_ln.c) differ from the bitmaps by at most one for every tool killed: the
\* count of inodes is too low, that of blocks too high.
THEOREM CountsFollowBitmaps == Spec => []CountersClose
<1>1. CountInv => CountersClose
  <2> SUFFICES ASSUME CountInv, tool = Idle, ~freed PROVE CountersClose
    BY DEF CountersClose
  <2>1. InodeOwed = 0 /\ BlockOwed = 0
    BY DEF InodeOwed, BlockOwed, Idle
  <2> QED BY <2>1, BitmapsFinite DEF CountInv, CountersClose, InodeGap, BlockGap
<1> QED BY <1>1, CountInit, CountNext, PTL DEF Spec

HIDE BitmapsAssumption

-----------------------------------------------------------------------------
(* What is named is in use.                                                *)

Labels == {"idle", "endless", "inode", "mark_inode", "set_inode", "block", "mark_block",
           "count_block", "fill", "room", "enter", "grow", "grow_size", "parent", "count",
           "check", "clear", "drop", "free_inode", "free_block", "free_indirect"}

ToolType == [op : {"none", "mkdir", "ln", "ln_s", "rm"}, pc : Labels, dir : 0..INODE_NUM,
             name : DOMAIN NameLen, ino : 0..INODE_NUM, own : BOOLEAN,
             at : 0..BLOCK_NUM, rec : Nat]

Typed ==
    /\ inode \in [Inodes -> InodeType]
    /\ data \in [0..BLOCK_NUM -> Seq(RecordType)]
    /\ tool \in ToolType

\* While a tool gets a block: for the inode it made (Own) or for the directory.
Giving == {"block", "mark_block", "count_block"}
Own == tool.own /\ tool.pc \in Giving \cup {"fill"}
Growing == (~tool.own /\ tool.pc \in Giving) \/ tool.pc \in {"grow", "grow_size"}

\* The inode the tool is about to name is set up and has its blocks.
Ready == Growing \/ tool.pc \in {"room", "enter", "parent"}

Held == Recorded(data) \cup (IF Ready THEN {tool.ino} ELSE {})

Fresh(n) == /\ inode[n].kind = "none" /\ inode[n].nblocks = 0
            /\ \A k \in 0..SLOTS - 1 : inode[n].i_block[k] = 0

DirsDirect ==
    \A n \in Inodes : inode[n].kind = "dir" =>
        inode[n].size = inode[n].nblocks /\ inode[n].nblocks <= DIRECT

KindsAgree ==
    \A b \in 0..BLOCK_NUM : \A k \in DOMAIN data[b] :
        LET e == data[b][k]
        IN  IF e.inode = 0 THEN e.name = NoName
            ELSE e.type # "none" /\ (e.type = "dir" <=> inode[e.inode].kind = "dir")

\* An inode that is marked and not yet named.
Made(n) == n \in inode_bitmap \ Recorded(data)

\* Nobody named has this block, and it is marked.
Unshared(b) ==
    b \in block_bitmap /\ \A n \in Held : b \notin BlocksOf(n)

Resting == {"idle", "endless", "drop", "free_inode", "free_block", "free_indirect"}

ToolInv ==
    /\ tool.pc \notin Resting => tool.dir \in Recorded(data) /\ inode[tool.dir].kind = "dir"
    /\ tool.op = "ln" /\ tool.pc \in {"count", "check"} =>
          tool.ino \in Recorded(data) /\ inode[tool.ino].kind # "dir"
    /\ tool.pc = "set_inode" => Made(tool.ino) /\ Fresh(tool.ino)
    /\ Own => /\ Made(tool.ino) /\ inode[tool.ino].nblocks = 1
              /\ inode[tool.ino].kind \in {"dir", "symlink"}
              /\ inode[tool.ino].i_block[0] = IF tool.pc = "block" THEN 0 ELSE tool.at
              /\ tool.pc \in {"count_block", "fill"} => Unshared(tool.at)
    /\ Own \/ Ready => (inode[tool.ino].kind = "dir" <=> tool.op = "mkdir")
    /\ Growing /\ tool.pc # "block" =>
          /\ inode[tool.dir].size < DIRECT
          /\ inode[tool.dir].i_block[inode[tool.dir].size] = tool.at
          /\ tool.pc # "mark_block" => Unshared(tool.at)
    /\ tool.pc \in {"count_block", "grow", "fill"} => data[tool.at] = <<>>
    /\ tool.pc = "enter" => tool.at \notin Blocks \ block_bitmap
    /\ tool.pc \notin Resting => tool.name # NoName
    /\ tool.pc = "fill" => tool.own

ImageInv ==
    /\ \A n \in Inodes \ inode_bitmap : Fresh(n)
    /\ DirsDirect
    /\ inode[EXT2_ROOT_INO].kind = "dir"
    /\ InUse(Held, inode, inode_bitmap, block_bitmap)
    /\ \A b \in Blocks \ block_bitmap : data[b] = <<>>
    /\ KindsAgree

UseInv ==
    /\ Typed
    /\ freed => tool.pc \in Freeing \cup {"idle"}
    /\ ~freed => ImageInv /\ ToolInv

\* A tool that needs a block finds one, and no directory outgrows its direct
\* pointers.  Both tools go on without (ext2_mkdir.c:209, ext2_ln.c:305).
Roomy ==
    tool.pc = "block" =>
        get_block_bitmap # {} /\ (~tool.own => inode[tool.dir].size < DIRECT)

LEMMA Constants ==
    /\ SLOTS \in Nat /\ DIRECT \in Nat /\ DIRECT \in 1..SLOTS - 1 /\ DIRECT <= BLOCK_NUM
    /\ EXT2_BLOCK_SIZE \in Nat /\ EXT2_ROOT_INO \in Inodes
    /\ {NoName, ".", ".."} \subseteq DOMAIN NameLen
    /\ MaxKills \in Nat /\ MaxTools \in Nat
<1>1. /\ SLOTS \in Nat /\ DIRECT \in 1..SLOTS - 1 /\ DIRECT <= BLOCK_NUM
      /\ EXT2_BLOCK_SIZE \in Nat /\ EXT2_ROOT_INO \in Inodes
      /\ {NoName, ".", ".."} \subseteq DOMAIN NameLen
      /\ MaxKills \in Nat /\ MaxTools \in Nat
  BY ImageAssumption, Zenon
<1>2. SLOTS \in Nat /\ DIRECT \in 1..SLOTS - 1 => DIRECT \in Nat
  OBVIOUS
<1> QED BY <1>1, <1>2, Zenon

LEMMA RecLen ==
    ASSUME NEW name \in DOMAIN NameLen
    PROVE  EXT2_DIR_REC_LEN(name) \in Nat /\ EXT2_DIR_REC_LEN(name) \in 8..EXT2_BLOCK_SIZE
<1>1. NameLen[name] \in 0..255 /\ EXT2_DIR_REC_LEN(name) <= EXT2_BLOCK_SIZE
  BY ImageAssumption, Zenon
<1>2. EXT2_BLOCK_SIZE \in Nat
  BY Constants
<1>3. EXT2_DIR_REC_LEN(name) \in Nat /\ EXT2_DIR_REC_LEN(name) >= 8
  BY <1>1 DEF EXT2_DIR_REC_LEN
<1> QED BY <1>1, <1>2, <1>3

LEMMA BlocksSame ==
    ASSUME NEW t, NEW u, NEW n, t[n].nblocks = u[n].nblocks, t[n].i_block = u[n].i_block
    PROVE  BlocksIn(t, n) = BlocksIn(u, n)
BY DEF BlocksIn

LEMMA BlocksDirect ==
    ASSUME NEW t, NEW n, t[n].nblocks \in Nat, t[n].nblocks <= DIRECT
    PROVE  BlocksIn(t, n) = {t[n].i_block[k] : k \in 0..t[n].nblocks - 1} \ {0}
<1> DEFINE S == {DIRECT + 1, t[n].nblocks}
<1>0. DIRECT \in Nat
  BY Constants
<1>1. Min(S) = t[n].nblocks
  <2>1. S \subseteq Nat /\ S # {}
    BY <1>0
  <2>2. Min(S) \in S
    BY <2>1, LeastIs
  <2>3. \E x \in S : \A y \in S : x <= y
    <3>1. t[n].nblocks \in S /\ \A y \in S : t[n].nblocks <= y
      BY <1>0
    <3> QED BY <3>1
  <2>4. \A y \in S : Min(S) <= y
    BY <2>3, Zenon DEF Min
  <2> QED BY <2>2, <2>4, <1>0
<1> QED BY <1>1 DEF BlocksIn

(* Scans.                                                                  *)

\* The first record of this name in a block, and in a sequence of blocks.
FirstOf(records, name) == SelectInSeq(records, LAMBDA e : e.name = name)
NamedIn(b, name) == \E e \in ToSet(Records(b)) : e.name = name
IsFirst(bs, name, k, i) ==
    /\ k \in 1..Len(bs) /\ bs[k] \in DOMAIN data /\ NamedIn(bs[k], name)
    /\ \A j \in 1..Len(bs) : NamedIn(bs[j], name) => k <= j
    /\ i \in DOMAIN data[bs[k]] /\ i = FirstOf(data[bs[k]], name)
    /\ data[bs[k]][i].name = name /\ Scan(bs, name) = data[bs[k]][i]

LEMMA ScanResult ==
    ASSUME Typed, NEW bs \in Seq(Int), NEW name
    PROVE  \/ Scan(bs, name) \in {NoRecord, Endless}
           \/ \E k, i : IsFirst(bs, name, k, i)
<1> DEFINE short == {k \in DOMAIN bs : ~Filled(bs[k])}
           last == IF short = {} THEN Len(bs) ELSE Min(short)
           named == {k \in 1..last : \E e \in ToSet(Records(bs[k])) : e.name = name}
           rs == Records(bs[Min(named)])
           hit(i) == rs[i].name = name
           I == {i \in 1..Len(rs) : rs[i].name = name}
<1>1. Scan(bs, name) = IF named # {} THEN rs[IF I # {} THEN Min(I) ELSE 0]
                       ELSE IF short = {} THEN NoRecord ELSE Endless
  BY Zenon DEF Scan, SelectInSeq
<1>2. SUFFICES ASSUME named # {} PROVE \E k, i : IsFirst(bs, name, k, i)
  BY <1>1, Zenon
<1> DEFINE n == Len(bs)
<1>3. DOMAIN bs = 1..n /\ n \in Nat
  OBVIOUS
<1> HIDE DEF n
<1>4. last \in 0..n
  <2>1. short \subseteq Nat /\ short \subseteq 1..n
    BY <1>3
  <2> HIDE DEF short
  <2>2. short # {} => Min(short) \in 1..n
    BY <2>1, LeastIs
  <2> QED BY <2>1, <2>2, <1>3 DEF n
<1> HIDE DEF last
<1>5. Min(named) \in named /\ \A j \in named : Min(named) <= j
  <2>1. named \subseteq Nat
    BY <1>4
  <2> HIDE DEF named
  <2> QED BY <2>1, <1>2, LeastIs
<1> DEFINE k == Min(named)
<1>6. k \in 1..n /\ \E e \in ToSet(Records(bs[k])) : e.name = name
  <2>1. k \in 1..last /\ \E e \in ToSet(Records(bs[k])) : e.name = name
    BY <1>5, Zenon
  <2>2. \A j \in 1..last : j \in 1..n
    BY <1>3, <1>4
  <2> QED BY <2>1, <2>2, Zenon
<1> HIDE DEF k
<1>7. PICK i \in DOMAIN rs : rs[i].name = name
  BY <1>6 DEF ToSet, k
<1>8. bs[k] \in DOMAIN data /\ rs = data[bs[k]]
  <2>1. bs[k] \notin DOMAIN data => rs = <<>>
    BY DEF Records, k
  <2> QED BY <2>1, <1>7 DEF Records, k
<1> HIDE DEF rs, I
<1>9. rs \in Seq(RecordType)
  BY <1>8, Zenon DEF Typed
<1>10. I # {} /\ I \subseteq Nat
  BY <1>7, <1>9 DEF I
<1>11. Min(I) \in I
  BY <1>10, LeastIs
<1>12. Scan(bs, name) = rs[Min(I)]
  BY <1>1, <1>2, <1>10, Zenon
<1>13. Min(I) \in DOMAIN rs /\ rs[Min(I)].name = name
  BY <1>9, <1>11 DEF I
<1>14. Min(I) = FirstOf(data[bs[k]], name)
  <2>1. FirstOf(rs, name) = IF I # {} THEN Min(I) ELSE 0
    BY Zenon DEF FirstOf, SelectInSeq, I
  <2> QED BY <1>8, <1>10, <2>1
<1>15. ASSUME NEW j \in 1..n, NamedIn(bs[j], name) PROVE k <= j
  <2>1. CASE j <= last
    <3>1. j \in 1..last
      BY <1>3, <1>4, <2>1
    <3>2. j \in named
      BY <1>15, <3>1, Zenon DEF NamedIn
    <3> QED BY <1>5, <3>2, Zenon DEF k
  <2>2. CASE ~(j <= last)
    <3>1. k \in 1..last
      BY <1>5, Zenon DEF k
    <3> QED BY <1>3, <1>4, <2>2, <3>1
  <2> QED BY <2>1, <2>2
<1>16. NamedIn(bs[k], name)
  BY <1>6, Zenon DEF NamedIn
<1>17. IsFirst(bs, name, k, Min(I))
  BY <1>6, <1>8, <1>12, <1>13, <1>14, <1>15, <1>16 DEF n, IsFirst
<1> QED BY <1>17

LEMMA GreatestIs ==
    ASSUME NEW n \in Nat, NEW S, S \subseteq 1..n, S # {}
    PROVE  Max(S) \in S /\ \A y \in S : Max(S) >= y
<1> DEFINE T == {n - x : x \in S}
<1>1. T \subseteq Nat /\ T # {}
  <2>1. \A x \in S : n - x \in Nat
    OBVIOUS
  <2> QED BY <2>1
<1>2. Min(T) \in T /\ \A y \in T : Min(T) <= y
  BY <1>1, LeastIs
<1> DEFINE t == Min(T)
<1>3. t \in T /\ \A y \in T : t <= y
  BY <1>2
<1> HIDE DEF t
<1>4. PICK x \in S : t = n - x
  BY <1>3
<1>5. \A y \in S : x >= y
  <2> TAKE y \in S
  <2>1. n - y \in T
    OBVIOUS
  <2>2. n - x <= n - y
    BY <1>3, <1>4, <2>1
  <2> QED BY <2>2
<1>6. \E z \in S : \A y \in S : z >= y
  BY <1>5
<1> QED BY <1>6, Zenon DEF Max

\* F takes one step of a fold over 1..n, from the left, and f is that fold.
IsStep(F, n, V) == F \in [(1..n) \X V -> V]
IsFold(f, F, n, V, base) ==
    /\ f \in [SUBSET (1..n) -> V]
    /\ \A s \in SUBSET (1..n) :
          f[s] = IF s = {} THEN base ELSE F[<<Max(s), f[s \ {Max(s)}]>>]

LEMMA FoldExists ==
    ASSUME NEW n \in Nat, NEW V, NEW base \in V, NEW F, IsStep(F, n, V)
    PROVE  \E f : IsFold(f, F, n, V, base)
<1>0. F \in [(1..n) \X V -> V]
  BY DEF IsStep
<1> DEFINE P(m) == \E f \in [SUBSET (1..m) -> V] : \A s \in SUBSET (1..m) :
                      f[s] = IF s = {} THEN base ELSE F[<<Max(s), f[s \ {Max(s)}]>>]
           C == {m \in 0..n : ~P(m)}
<1>1. P(0)
  <2> DEFINE f == [s \in SUBSET (1..0) |-> base]
  <2>1. f \in [SUBSET (1..0) -> V]
    OBVIOUS
  <2>2. \A s \in SUBSET (1..0) : s = {}
    OBVIOUS
  <2>3. \A s \in SUBSET (1..0) : f[s] = IF s = {} THEN base ELSE F[<<Max(s), f[s \ {Max(s)}]>>]
    BY <2>2
  <2> QED BY <2>1, <2>3
<1>2. ASSUME NEW m \in 0..n - 1, P(m) PROVE P(m + 1)
  <2>1. PICK f \in [SUBSET (1..m) -> V] : \A s \in SUBSET (1..m) :
                      f[s] = IF s = {} THEN base ELSE F[<<Max(s), f[s \ {Max(s)}]>>]
    BY <1>2
  <2> DEFINE g == [s \in SUBSET (1..m + 1) |->
                     IF m + 1 \in s THEN F[<<m + 1, f[s \ {m + 1}]>>] ELSE f[s]]
  <2>2. \A s \in SUBSET (1..m + 1) :
            /\ s \ {m + 1} \in SUBSET (1..m)
            /\ m + 1 \notin s => s \in SUBSET (1..m)
    OBVIOUS
  <2>3. g \in [SUBSET (1..m + 1) -> V]
    <3> SUFFICES ASSUME NEW s \in SUBSET (1..m + 1)
                 PROVE  (IF m + 1 \in s THEN F[<<m + 1, f[s \ {m + 1}]>>] ELSE f[s]) \in V
      OBVIOUS
    <3>1. f[s \ {m + 1}] \in V /\ (m + 1 \notin s => f[s] \in V)
      BY <2>2
    <3>2. m + 1 \in 1..n
      OBVIOUS
    <3>3. <<m + 1, f[s \ {m + 1}]>> \in (1..n) \X V
      BY <3>1, <3>2
    <3> QED BY <1>0, <3>1, <3>3
  <2>4. ASSUME NEW s \in SUBSET (1..m + 1)
        PROVE  g[s] = IF s = {} THEN base ELSE F[<<Max(s), g[s \ {Max(s)}]>>]
    <3>1. CASE m + 1 \in s
      <4>1. m + 1 \in Nat /\ s \subseteq 1..m + 1 /\ s # {}
        BY <3>1
      <4>2. Max(s) \in s /\ \A y \in s : Max(s) >= y
        BY <4>1, GreatestIs
      <4>3. Max(s) = m + 1
        <5>1. Max(s) \in 1..m + 1 /\ Max(s) >= m + 1
          BY <3>1, <4>2
        <5> QED BY <5>1
      <4>4. s \ {m + 1} \in SUBSET (1..m + 1) /\ m + 1 \notin s \ {m + 1}
        OBVIOUS
      <4>5. g[s \ {m + 1}] = f[s \ {m + 1}]
        BY <4>4
      <4>6. g[s] = F[<<m + 1, f[s \ {m + 1}]>>]
        BY <3>1
      <4> HIDE DEF g
      <4> QED BY <4>1, <4>3, <4>5, <4>6
    <3>2. CASE m + 1 \notin s
      <4>1. s \in SUBSET (1..m) /\ g[s] = f[s]
        BY <2>2, <3>2
      <4>2. g[s \ {Max(s)}] = f[s \ {Max(s)}]
        <5>1. s \ {Max(s)} \in SUBSET (1..m + 1) /\ m + 1 \notin s \ {Max(s)}
          BY <3>2
        <5> QED BY <5>1
      <4> HIDE DEF g
      <4> QED BY <2>1, <4>1, <4>2
    <3> QED BY <3>1, <3>2
  <2> HIDE DEF g
  <2> QED BY <2>3, <2>4
<1> HIDE DEF P
<1>3. C = {}
  <2> SUFFICES ASSUME C # {} PROVE FALSE
    OBVIOUS
  <2>1. C \subseteq Nat
    OBVIOUS
  <2>2. Min(C) \in C /\ \A y \in C : Min(C) <= y
    BY <2>1, LeastIs
  <2> DEFINE m == Min(C)
  <2>3. m \in 0..n /\ ~P(m) /\ \A y \in C : m <= y
    BY <2>2
  <2> HIDE DEF m
  <2>4. m # 0
    BY <1>1, <2>3
  <2>5. m - 1 \in 0..n - 1 /\ m - 1 \notin C
    BY <2>3, <2>4
  <2>6. P(m - 1)
    BY <2>5
  <2>7. P(m - 1 + 1)
    BY <1>2, <2>5, <2>6
  <2>8. m - 1 + 1 = m
    BY <2>3
  <2> QED BY <2>3, <2>7, <2>8
<1>4. P(n)
  BY <1>3
<1> QED BY <1>4 DEF P, IsFold

LEMMA PathWalk ==
    ASSUME NEW path
    PROVE  find_dir_inode(path) =
             (CHOOSE f : f = [s \in SUBSET DOMAIN path |->
                                IF s = {} THEN EXT2_ROOT_INO
                                ELSE Descend(f[s \ {Max(s)}], path[Max(s)])])[DOMAIN path]
BY Zenon DEF find_dir_inode, FoldLeft, MapThenFoldSet

LEMMA InodeParts ==
    ASSUME Typed, NEW n \in Inodes
    PROVE  /\ inode[n] \in InodeType /\ inode[n].kind \in Kinds
           /\ inode[n].size \in 0..BLOCK_NUM /\ inode[n].size \in Nat
           /\ inode[n].nblocks \in 0..BLOCK_NUM /\ inode[n].nblocks \in Nat
           /\ inode[n].links \in UShorts
           /\ inode[n].i_block \in [0..SLOTS - 1 -> 0..BLOCK_NUM]
           /\ \A k \in 0..SLOTS - 1 : inode[n].i_block[k] \in 0..BLOCK_NUM
<1>1. inode[n] \in InodeType
  BY DEF Typed
<1>2. /\ inode[n].kind \in Kinds /\ inode[n].size \in 0..BLOCK_NUM
      /\ inode[n].nblocks \in 0..BLOCK_NUM /\ inode[n].links \in UShorts
      /\ inode[n].i_block \in [0..SLOTS - 1 -> 0..BLOCK_NUM]
  BY <1>1, Zenon DEF InodeType
<1>3. \A k \in 0..SLOTS - 1 : inode[n].i_block[k] \in 0..BLOCK_NUM
  BY <1>2, Zenon
<1>4. \A i \in 0..BLOCK_NUM : i \in Nat
  OBVIOUS
<1> QED BY <1>1, <1>2, <1>3, <1>4, Zenon

LEMMA RecordParts ==
    ASSUME NEW e \in RecordType
    PROVE  /\ e.inode \in 0..INODE_NUM /\ e.name \in DOMAIN NameLen /\ e.type \in Kinds
           /\ e.rec_len \in Nat
           /\ e.inode # 0 => e.inode \in Inodes
<1>1. /\ e.inode \in 0..INODE_NUM /\ e.name \in DOMAIN NameLen /\ e.type \in Kinds
      /\ e.rec_len \in Nat
  BY Zenon DEF RecordType
<1> QED BY <1>1 DEF Inodes

LEMMA DataParts ==
    ASSUME Typed, NEW b \in 0..BLOCK_NUM
    PROVE  /\ DOMAIN data = 0..BLOCK_NUM /\ data[b] \in Seq(RecordType)
           /\ \A k \in DOMAIN data[b] : data[b][k] \in RecordType
<1>1. DOMAIN data = 0..BLOCK_NUM /\ data[b] \in Seq(RecordType)
  BY Zenon DEF Typed
<1> QED BY <1>1

LEMMA RecordedIs ==
    ASSUME Typed, NEW n
    PROVE  n \in Recorded(data) <=>
             /\ n \in Inodes
             /\ n = EXT2_ROOT_INO
                  \/ \E b \in 0..BLOCK_NUM : \E k \in DOMAIN data[b] : data[b][k].inode = n
BY DEF Recorded, ToSet, Typed

\* A directory that a path can lead to, or the reason why it leads to none.
Found == {NoRecord.inode, Endless.inode, NotADirectory}
            \cup {n \in Recorded(data) : inode[n].kind = "dir"}

LEMMA FoundParts ==
    /\ NoRecord.inode = -1 /\ Endless.inode = -2 /\ NotADirectory = -3
    /\ NoRecord.type = "none" /\ Endless.type = "none"
    /\ Inodes \subseteq Nat \ {0} /\ Recorded(data) \subseteq Inodes
BY DEF NoRecord, Endless, Record, NotADirectory, Inodes, Recorded

LEMMA ScanInode ==
    ASSUME Typed, KindsAgree, NEW bs \in Seq(Int),
           NEW name, name # NoName
    PROVE  LET e == Scan(bs, name) IN
           \/ e \in {NoRecord, Endless}
           \/ /\ e.inode \in Recorded(data) /\ e.inode \in Inodes /\ e.type \in Kinds \ {"none"}
              /\ e.type = "dir" <=> inode[e.inode].kind = "dir"
<1>1. CASE Scan(bs, name) \in {NoRecord, Endless}
  BY <1>1
<1>2. ASSUME NEW b \in DOMAIN data, NEW i \in DOMAIN data[b],
             Scan(bs, name) = data[b][i], data[b][i].name = name
      PROVE  LET e == Scan(bs, name) IN
             /\ e.inode \in Recorded(data) /\ e.inode \in Inodes /\ e.type \in Kinds \ {"none"}
             /\ e.type = "dir" <=> inode[e.inode].kind = "dir"
  <2> DEFINE e == data[b][i]
  <2>1. b \in 0..BLOCK_NUM /\ data[b] \in Seq(RecordType)
    BY DataParts, Zenon DEF Typed
  <2>2. e \in RecordType
    BY <2>1, DataParts, Zenon
  <2>3. e.inode # 0 /\ e.type # "none" /\ (e.type = "dir" <=> inode[e.inode].kind = "dir")
    BY <1>2, <2>1, Zenon DEF KindsAgree
  <2>5. e.inode \in Inodes /\ e.type \in Kinds
    BY <2>2, <2>3, RecordParts
  <2>6. e.inode \in Recorded(data)
    BY <2>1, <2>5, RecordedIs
  <2> QED BY <1>2, <2>3, <2>5, <2>6
<1>3. \/ Scan(bs, name) \in {NoRecord, Endless}
      \/ \E b \in DOMAIN data : \E i \in DOMAIN data[b] :
            Scan(bs, name) = data[b][i] /\ data[b][i].name = name
  <2>1. CASE \E k, i : IsFirst(bs, name, k, i)
    BY <2>1 DEF IsFirst
  <2> QED BY <2>1, ScanResult, Zenon
<1> QED BY <1>1, <1>2, <1>3

LEMMA DescendsTo ==
    ASSUME Typed, KindsAgree, NEW v \in Found, NEW name, name # NoName
    PROVE  Descend(v, name) \in Found
<1> DEFINE bs == [k \in 1..inode[v].size |-> inode[v].i_block[0] + k - 1]
           e == Scan(bs, name)
<1>1. Descend(v, name) = IF v < 0 THEN v
                         ELSE IF e.type \in {"file", "symlink"} THEN NotADirectory ELSE e.inode
  BY DEF Descend
<1>2. CASE v < 0
  BY <1>1, <1>2
<1>3. CASE ~(v < 0)
  <2>1. v \in Inodes
    BY <1>3, FoundParts DEF Found
  <2>2. inode[v].size \in Nat
    BY <2>1, InodeParts
  <2>3. bs \in Seq(Int)
    <3>1. inode[v].i_block[0] \in Nat
      <4>1. 0 \in 0..SLOTS - 1
        BY Constants
      <4> QED BY <2>1, <4>1, InodeParts
    <3>2. \A k \in 1..inode[v].size : inode[v].i_block[0] + k - 1 \in Int
      BY <2>2, <3>1
    <3> QED BY <2>2, <3>2
  <2> HIDE DEF bs
  <2>4. \/ e \in {NoRecord, Endless}
        \/ /\ e.inode \in Recorded(data) /\ e.type \in Kinds \ {"none"}
           /\ e.type = "dir" <=> inode[e.inode].kind = "dir"
    BY <2>2, <2>3, ScanInode
  <2> HIDE DEF e
  <2>5. CASE e \in {NoRecord, Endless}
    <3>1. e.inode \in Found /\ e.type = "none"
      BY <2>5, FoundParts DEF Found
    <3> QED BY <1>1, <1>3, <3>1
  <2>6. CASE /\ e.inode \in Recorded(data) /\ e.type \in Kinds \ {"none"}
             /\ e.type = "dir" <=> inode[e.inode].kind = "dir"
    <3>1. CASE e.type \in {"file", "symlink"}
      BY <1>1, <1>3, <3>1 DEF Found
    <3>2. CASE e.type = "dir"
      BY <1>1, <1>3, <3>2, <2>6 DEF Found
    <3> QED BY <2>6, <3>1, <3>2 DEF Kinds
  <2> QED BY <2>4, <2>5, <2>6
<1> QED BY <1>2, <1>3

LEMMA RootRecorded == Typed => EXT2_ROOT_INO \in Recorded(data)
BY Constants, RecordedIs

LEMMA FindsDirectory ==
    ASSUME Typed, KindsAgree, inode[EXT2_ROOT_INO].kind = "dir",
           NEW path \in Seq(Given)
    PROVE  find_dir_inode(path) \in Found
<1> DEFINE n == Len(path)
           F == [p \in (1..n) \X Found |-> Descend(p[2], path[p[1]])]
<1>1. n \in Nat /\ DOMAIN path = 1..n /\ \A k \in 1..n : path[k] # NoName
  <2>1. n \in Nat /\ DOMAIN path = 1..n /\ \A k \in 1..n : path[k] \in Given
    OBVIOUS
  <2> QED BY <2>1, Zenon DEF Given
<1>2. EXT2_ROOT_INO \in Found
  BY RootRecorded DEF Found
<1>3. F \in [(1..n) \X Found -> Found]
  <2>1. \A p \in (1..n) \X Found : Descend(p[2], path[p[1]]) \in Found
    BY <1>1, DescendsTo
  <2> QED BY <2>1
<1>4. \A k \in 1..n, v \in Found : F[<<k, v>>] = Descend(v, path[k])
  OBVIOUS
<1> HIDE DEF F, n
<1>5. PICK f : IsFold(f, F, n, Found, EXT2_ROOT_INO)
  <2>1. n \in Nat /\ IsStep(F, n, Found)
    BY <1>1, <1>3 DEF IsStep
  <2> QED BY <2>1, <1>2, FoldExists, Zenon
<1>6. ASSUME NEW s \in SUBSET (1..n), s # {}
      PROVE  f[s] = Descend(f[s \ {Max(s)}], path[Max(s)])
  <2>1. Max(s) \in s
    BY <1>1, <1>6, GreatestIs
  <2>2. Max(s) \in 1..n /\ f[s \ {Max(s)}] \in Found
    BY <1>5, <2>1 DEF IsFold
  <2> QED BY <1>4, <1>5, <1>6, <2>2 DEF IsFold
<1>7. f = [s \in SUBSET DOMAIN path |-> IF s = {} THEN EXT2_ROOT_INO
                                        ELSE Descend(f[s \ {Max(s)}], path[Max(s)])]
  BY <1>1, <1>5, <1>6 DEF IsFold
<1> DEFINE g == CHOOSE h : h = [s \in SUBSET DOMAIN path |-> IF s = {} THEN EXT2_ROOT_INO
                                        ELSE Descend(h[s \ {Max(s)}], path[Max(s)])]
<1>8. g = [s \in SUBSET DOMAIN path |-> IF s = {} THEN EXT2_ROOT_INO
                                        ELSE Descend(g[s \ {Max(s)}], path[Max(s)])]
  BY <1>7, Zenon
<1>9. find_dir_inode(path) = g[DOMAIN path]
  BY PathWalk
<1> HIDE DEF g
<1>10. \A s \in SUBSET (1..n) : g[s] \in Found
  <2> DEFINE Bad == {k \in 0..n : \E s \in SUBSET (1..k) : g[s] \notin Found}
  <2>0. Bad \subseteq Nat
    BY <1>1
  <2>1. Bad = {} => \A s \in SUBSET (1..n) : g[s] \in Found
    <3> SUFFICES ASSUME NEW s \in SUBSET (1..n), g[s] \notin Found PROVE n \in Bad
      BY <1>1
    <3> QED BY <1>1
  <2> SUFFICES ASSUME Bad # {} PROVE FALSE
    BY <2>1
  <2>2. Min(Bad) \in Bad /\ \A y \in Bad : Min(Bad) <= y
    BY <2>0, LeastIs
  <2> DEFINE k == Min(Bad)
  <2>3. k \in 0..n /\ \A y \in Bad : k <= y
    BY <2>2
  <2>4. PICK s \in SUBSET (1..k) : g[s] \notin Found
    BY <2>2
  <2> HIDE DEF k
  <2>5. s # {}
    BY <1>2, <1>8, <2>4
  <2>6. s \in SUBSET (1..n) /\ Max(s) \in s /\ \A y \in s : Max(s) >= y
    <3>1. k \in Nat /\ s \subseteq 1..k /\ k <= n
      BY <1>1, <2>3
    <3>2. Max(s) \in s /\ \A y \in s : Max(s) >= y
      BY <2>5, <3>1, GreatestIs
    <3> QED BY <1>1, <3>1, <3>2
  <2>7. g[s] = Descend(g[s \ {Max(s)}], path[Max(s)])
    BY <1>1, <1>8, <2>5, <2>6
  <2>8. g[s \ {Max(s)}] \in Found
    <3>1. k \in 0..n /\ k # 0
      <4>1. s \subseteq 1..k /\ s # {}
        BY <2>5
      <4>2. k \in 0..n /\ n \in Nat
        BY <2>3, <1>1
      <4>3. PICK y \in s : y \in 1..k
        BY <4>1
      <4> QED BY <4>2, <4>3
    <3>2. s \ {Max(s)} \in SUBSET (1..k - 1)
      <4> SUFFICES ASSUME NEW y \in s, y # Max(s) PROVE y \in 1..k - 1
        OBVIOUS
      <4>1. y \in 1..k /\ Max(s) \in 1..k /\ Max(s) >= y
        BY <2>6
      <4> QED BY <1>1, <3>1, <4>1
    <3>3. k - 1 \in 0..n /\ ~(k <= k - 1)
      BY <1>1, <3>1
    <3>4. k - 1 \notin Bad
      BY <2>3, <3>3
    <3> QED BY <3>2, <3>3, <3>4
  <2>9. path[Max(s)] # NoName
    BY <1>1, <2>6
  <2> QED BY <2>4, <2>7, <2>8, <2>9, DescendsTo
<1> QED BY <1>1, <1>9, <1>10

(* Inodes in use.                                                          *)

LEMMA InUseLike ==
    ASSUME NEW H, NEW t, NEW i, NEW b, InUse(H, t, i, b),
           NEW G, G \subseteq H, NEW u, NEW j, i \subseteq j, NEW c, b \subseteq c,
           \A n \in G : u[n].kind = t[n].kind /\ BlocksIn(u, n) = BlocksIn(t, n)
    PROVE  InUse(G, u, j, c)
BY DEF InUse

LEMMA InUseAdd ==
    ASSUME NEW H, NEW t, NEW i, NEW b, InUse(H, t, i, b),
           NEW m \in i, t[m].kind # "none", BlocksIn(t, m) \subseteq b,
           \A n \in H \ {m} : BlocksIn(t, n) \cap BlocksIn(t, m) = {}
    PROVE  InUse(H \cup {m}, t, i, b)
BY DEF InUse

LEMMA InUseMore ==
    ASSUME NEW H, NEW t, NEW i, NEW b, InUse(H, t, i, b),
           NEW u, NEW m, NEW x \in b,
           \A n \in H : u[n].kind = t[n].kind,
           \A n \in H \ {m} : BlocksIn(u, n) = BlocksIn(t, n) /\ x \notin BlocksIn(t, n),
           BlocksIn(u, m) = BlocksIn(t, m) \cup {x}
    PROVE  InUse(H, u, i, b)
<1> SUFFICES ASSUME NEW n \in H
             PROVE  /\ n \in i /\ u[n].kind # "none" /\ BlocksIn(u, n) \subseteq b
                    /\ \A o \in H \ {n} : BlocksIn(u, n) \cap BlocksIn(u, o) = {}
  BY DEF InUse
<1>1. /\ n \in i /\ u[n].kind # "none" /\ BlocksIn(t, n) \subseteq b
      /\ \A o \in H \ {n} : BlocksIn(t, n) \cap BlocksIn(t, o) = {}
  BY DEF InUse
<1>2. BlocksIn(u, n) \subseteq BlocksIn(t, n) \cup {x}
  OBVIOUS
<1>3. ASSUME NEW o \in H \ {n} PROVE BlocksIn(u, n) \cap BlocksIn(u, o) = {}
  <2>1. BlocksIn(t, n) \cap BlocksIn(t, o) = {}
    BY <1>1
  <2>2. CASE n = m
    BY <2>1, <2>2
  <2>3. CASE o = m
    BY <2>1, <2>3
  <2>4. CASE n # m /\ o # m
    BY <2>1, <2>4
  <2> QED BY <2>2, <2>3, <2>4
<1> QED BY <1>1, <1>2, <1>3

-----------------------------------------------------------------------------
(* Steps that leave inodes and records as they are.                        *)

LEMMA ToolParts ==
    ASSUME Typed
    PROVE  /\ tool.pc \in Labels /\ tool.op \in {"none", "mkdir", "ln", "ln_s", "rm"}
           /\ tool.dir \in 0..INODE_NUM /\ tool.name \in DOMAIN NameLen
           /\ tool.ino \in 0..INODE_NUM /\ tool.own \in BOOLEAN
           /\ tool.at \in 0..BLOCK_NUM /\ tool.rec \in Nat
BY DEF Typed, ToolType

LEMMA IdleTyped ==
    /\ Idle \in ToolType /\ Idle.pc = "idle"
    /\ \A op \in {"mkdir", "ln", "ln_s", "rm"} :
          /\ [Idle EXCEPT !.op = op, !.pc = "endless"] \in ToolType
          /\ [Idle EXCEPT !.op = op, !.pc = "endless"].pc = "endless"
<1>1. NoName \in DOMAIN NameLen
  BY Constants
<1>2. /\ Idle.pc = "idle"
      /\ \A op \in {"mkdir", "ln", "ln_s", "rm"} :
            [Idle EXCEPT !.op = op, !.pc = "endless"].pc = "endless"
  BY DEF Idle
<1>3. Idle \in ToolType
  BY <1>1 DEF Idle, ToolType, Labels
<1>4. ASSUME NEW op \in {"mkdir", "ln", "ln_s", "rm"}
      PROVE  [Idle EXCEPT !.op = op, !.pc = "endless"] \in ToolType
  BY <1>3 DEF ToolType, Labels
<1> QED BY <1>2, <1>3, <1>4

LEMMA GotoTyped ==
    ASSUME Typed, NEW pc \in Labels, tool' = [tool EXCEPT !.pc = pc]
    PROVE  /\ tool' \in ToolType /\ tool'.pc = pc
           /\ tool'.op = tool.op /\ tool'.dir = tool.dir /\ tool'.name = tool.name
           /\ tool'.ino = tool.ino /\ tool'.own = tool.own /\ tool'.at = tool.at
           /\ tool'.rec = tool.rec
BY DEF Typed, ToolType

\* What is held stays in use when no inode changes.
LEMMA SameInodes ==
    ASSUME UseInv, ~freed, ~freed', inode' = inode,
           inode_bitmap \subseteq inode_bitmap', block_bitmap \subseteq block_bitmap',
           Held' \subseteq Held, KindsAgree',
           \A b \in Blocks \ block_bitmap : data'[b] = <<>>
    PROVE  ImageInv'
<1>1. InUse(Held', inode', inode_bitmap', block_bitmap')
  BY InUseLike DEF UseInv, ImageInv
<1> QED BY <1>1 DEF UseInv, ImageInv, Fresh, DirsDirect

LEMMA SameImage ==
    ASSUME UseInv, ~freed, ~freed', inode' = inode, data' = data, tool' \in ToolType,
           inode_bitmap \subseteq inode_bitmap', block_bitmap \subseteq block_bitmap',
           Held' \subseteq Held, ToolInv'
    PROVE  UseInv'
<1>1. KindsAgree' /\ \A b \in Blocks \ block_bitmap : data'[b] = <<>>
  BY DEF UseInv, ImageInv, KindsAgree
<1> QED BY <1>1, SameInodes DEF UseInv, Typed

LEMMA Rests ==
    ASSUME tool'.pc \in Resting
    PROVE  ToolInv' /\ ~Ready' /\ Held' = Recorded(data)'
<1>1. ~Ready' /\ ~Own' /\ ~Growing'
  BY DEF Ready, Own, Growing, Giving, Resting
<1>2. ToolInv'
  BY <1>1 DEF ToolInv, Resting
<1> QED BY <1>1, <1>2 DEF Held

LEMMA RestsUse ==
    ASSUME UseInv, ~freed, UNCHANGED <<inode_bitmap, block_bitmap, inode, data, freed>>,
           tool' \in ToolType, tool'.pc \in Resting
    PROVE  UseInv'
<1>1. Held' \subseteq Held
  BY Rests DEF Held
<1> QED BY <1>1, Rests, SameImage

LEMMA StopUse ==
    ASSUME UseInv, UNCHANGED <<inode_bitmap, block_bitmap, inode, data, freed>>, tool' = Idle
    PROVE  UseInv'
<1>1. CASE ~freed
  BY <1>1, IdleTyped, RestsUse DEF Resting
<1>2. CASE freed
  BY <1>2, IdleTyped DEF UseInv, Typed
<1> QED BY <1>1, <1>2

LEMMA HangUse ==
    ASSUME UseInv, ~freed, UNCHANGED <<inode_bitmap, block_bitmap, inode, data, freed>>,
           NEW op \in {"mkdir", "ln", "ln_s", "rm"}, Hang(op)
    PROVE  UseInv'
<1>1. tool' \in ToolType /\ tool'.pc = "endless"
  BY IdleTyped DEF Hang
<1> QED BY <1>1, RestsUse DEF Resting
-----------------------------------------------------------------------------
(* The steps that allocate.                                                *)

LEMMA CountInodeUse ==
    ASSUME UseInv, ~freed, tool.pc = "inode", CountInode
    PROVE  UseInv'
<1>1. /\ UNCHANGED <<inode_bitmap, block_bitmap, inode, data, freed>>
      /\ \/ /\ get_inode_bitmap # {}
            /\ tool' = [tool EXCEPT !.pc = "mark_inode", !.ino = Min(get_inode_bitmap)]
         \/ tool' = Idle
  BY DEF CountInode, Bookkeeping, Stop
<1>2. CASE tool' = Idle
  BY <1>1, <1>2, StopUse
<1>3. CASE /\ get_inode_bitmap # {}
           /\ tool' = [tool EXCEPT !.pc = "mark_inode", !.ino = Min(get_inode_bitmap)]
  <2>1. Min(get_inode_bitmap) \in 0..INODE_NUM
    <3>1. get_inode_bitmap \subseteq Nat /\ get_inode_bitmap \subseteq 0..INODE_NUM
      BY DEF get_inode_bitmap, Inodes
    <3> QED BY <1>3, <3>1, LeastIs
  <2>2. /\ tool' \in ToolType /\ tool'.pc = "mark_inode"
        /\ tool'.dir = tool.dir /\ tool'.name = tool.name /\ tool'.op = tool.op
    BY <1>3, <2>1 DEF UseInv, Typed, ToolType, Labels
  <2>3. ~Ready' /\ ~Own' /\ ~(Growing' /\ tool'.pc # "block")
    BY <2>2 DEF Ready, Own, Growing, Giving
  <2>4. Held' \subseteq Held
    BY <1>1, <2>3 DEF Held
  <2>5. ToolInv'
    BY <1>1, <2>2, <2>3 DEF UseInv, ToolInv, Resting
  <2> QED BY <1>1, <2>2, <2>4, <2>5, SameImage
<1> QED BY <1>1, <1>2, <1>3

LEMMA MarkInodeUse ==
    ASSUME CountInv, UseInv, ~freed, tool.pc = "mark_inode", MarkInode
    PROVE  UseInv'
<1>1. /\ UNCHANGED <<block_bitmap, inode, data, freed>>
      /\ inode_bitmap' = inode_bitmap \cup {tool.ino}
      /\ tool.ino \in Inodes \ inode_bitmap
      /\ tool' = [tool EXCEPT !.pc = "set_inode"]
  BY DEF MarkInode, set_inode_bitmap, Goto, Bookkeeping, CountInv
<1>2. /\ tool' \in ToolType /\ tool'.pc = "set_inode" /\ tool'.dir = tool.dir
      /\ tool'.name = tool.name /\ tool'.ino = tool.ino
  BY <1>1, GotoTyped DEF UseInv, Labels
<1>3. ~Ready' /\ ~Own' /\ ~Growing'
  BY <1>2 DEF Ready, Own, Growing, Giving
<1>4. Held' \subseteq Held /\ Recorded(data) \subseteq inode_bitmap
  BY <1>1, <1>3 DEF Held, UseInv, ImageInv, InUse
<1>5. Made(tool.ino)' /\ Fresh(tool.ino)'
  BY <1>1, <1>2, <1>4 DEF Made, Fresh, UseInv, ImageInv
<1>6. ToolInv'
  BY <1>1, <1>2, <1>3, <1>5 DEF UseInv, ToolInv, Resting
<1> QED BY <1>1, <1>2, <1>4, <1>6, SameImage

LEMMA MarkBlockUse ==
    ASSUME CountInv, UseInv, ~freed, tool.pc = "mark_block", MarkBlock
    PROVE  UseInv'
<1>1. /\ UNCHANGED <<inode_bitmap, inode, data, freed>>
      /\ block_bitmap' = block_bitmap \cup {tool.at}
      /\ tool.at \in Blocks \ block_bitmap
      /\ tool' = [tool EXCEPT !.pc = "count_block"]
  BY DEF MarkBlock, set_block_bitmap, Goto, Bookkeeping, CountInv
<1>2. /\ tool' \in ToolType /\ tool'.pc = "count_block" /\ tool'.op = tool.op
      /\ tool'.dir = tool.dir /\ tool'.name = tool.name /\ tool'.ino = tool.ino
      /\ tool'.at = tool.at /\ tool'.own = tool.own
  BY <1>1, GotoTyped DEF UseInv, Labels
<1>3. (Ready' <=> Ready) /\ (Own' <=> Own) /\ (Growing' <=> Growing)
  BY <1>2 DEF Ready, Own, Growing, Giving
<1>4. Held' = Held
  BY <1>1, <1>2, <1>3 DEF Held
<1>5. Unshared(tool.at)'
  <2>1. \A n \in Held : tool.at \notin BlocksOf(n)
    BY <1>1 DEF UseInv, ImageInv, InUse, BlocksOf
  <2> QED BY <1>1, <1>2, <1>4, <2>1 DEF Unshared, BlocksOf
<1>6. data[tool.at] = <<>>
  BY <1>1 DEF UseInv, ImageInv
<1>7. ToolInv'
  BY <1>1, <1>2, <1>3, <1>5, <1>6 DEF UseInv, ToolInv, Resting, Made
<1> QED BY <1>1, <1>2, <1>4, <1>7, SameImage

LEMMA CountBlockUse ==
    ASSUME UseInv, ~freed, tool.pc = "count_block", CountBlock
    PROVE  UseInv'
<1>1. /\ UNCHANGED <<inode_bitmap, block_bitmap, inode, data, freed>>
      /\ tool' = [tool EXCEPT !.pc = AfterBlock]
  BY DEF CountBlock, Goto, Bookkeeping
<1>2. /\ tool' \in ToolType /\ tool'.op = tool.op
      /\ tool'.pc = IF tool.own THEN "fill" ELSE "grow"
      /\ tool'.dir = tool.dir /\ tool'.name = tool.name /\ tool'.ino = tool.ino
      /\ tool'.at = tool.at /\ tool'.own = tool.own
  <2>1. AfterBlock \in Labels
    BY DEF AfterBlock, Labels
  <2> QED BY <1>1, <2>1, GotoTyped DEF UseInv, AfterBlock
<1>3. (Ready' <=> Ready) /\ (Own' <=> Own) /\ (Growing' <=> Growing)
  BY <1>2 DEF Ready, Own, Growing, Giving
<1>4. Held' = Held
  BY <1>1, <1>2, <1>3 DEF Held
<1>5. \A b : Unshared(b)' <=> Unshared(b)
  BY <1>1, <1>4 DEF Unshared, BlocksOf
<1>6. ToolInv'
  BY <1>1, <1>2, <1>3, <1>5 DEF UseInv, ToolInv, Resting, Made
<1> QED BY <1>1, <1>2, <1>4, <1>6, SameImage

LEMMA UShortType == {1, 2} \subseteq UShorts /\ \A n \in Int : UShort(n) \in UShorts
<1>1. USHORTS \in Nat /\ USHORTS > 2
  BY DEF USHORTS
<1>2. {1, 2} \subseteq UShorts
  BY <1>1 DEF UShorts
<1>3. ASSUME NEW n \in Int PROVE UShort(n) \in UShorts
  BY <1>1 DEF UShort, UShorts
<1> QED BY <1>2, <1>3

LEMMA MarkedAreInodes ==
    ASSUME CountInv, ~freed
    PROVE  inode_bitmap \subseteq Inodes /\ block_bitmap \subseteq Blocks
BY DEF CountInv

\* A step that changes the entry of one inode of the table.
LEMMA InodeChanged ==
    ASSUME Typed, NEW m \in Inodes, NEW i \in InodeType, inode' = [inode EXCEPT ![m] = i]
    PROVE  /\ inode' \in [Inodes -> InodeType] /\ inode'[m] = i
           /\ \A n \in Inodes \ {m} : inode'[n] = inode[n]
BY DEF Typed

LEMMA SetInodeUse ==
    ASSUME CountInv, UseInv, ~freed, tool.pc = "set_inode",
           NEW kind, NEW size, NEW links \in {1, 2},
           <<kind, size, tool.op>> \in {<<"dir", 1, "mkdir">>, <<"symlink", 0, "ln_s">>},
           SetInode(kind, size, links)
    PROVE  UseInv'
<1> DEFINE m == tool.ino
           i == [inode[m] EXCEPT !.kind = kind, !.size = size, !.links = links, !.nblocks = 1]
<1>1. /\ UNCHANGED <<inode_bitmap, block_bitmap, data, freed>>
      /\ inode' = [inode EXCEPT ![m] = i]
      /\ tool' = [tool EXCEPT !.pc = "block", !.own = TRUE]
  BY DEF SetInode, Bookkeeping
<1>2. Made(m) /\ Fresh(m) /\ m \in Inodes /\ m \in inode_bitmap
  <2>1. Made(m) /\ Fresh(m)
    BY DEF UseInv, ToolInv
  <2> QED BY <2>1, MarkedAreInodes DEF Made
<1>3. i \in InodeType /\ i.kind = kind /\ i.size = size /\ i.nblocks = 1
      /\ i.i_block = inode[m].i_block
  <2>1. 1 \in 0..BLOCK_NUM /\ size \in 0..BLOCK_NUM /\ kind \in Kinds /\ links \in UShorts
    BY Constants, UShortType DEF Kinds
  <2>2. inode[m] \in InodeType
    BY <1>2, InodeParts DEF UseInv
  <2> QED BY <2>1, <2>2 DEF InodeType
<1> HIDE DEF i
<1>4. /\ inode' \in [Inodes -> InodeType] /\ inode'[m] = i
      /\ \A n \in Inodes \ {m} : inode'[n] = inode[n]
  BY <1>1, <1>2, <1>3, InodeChanged DEF UseInv
<1>5. /\ tool' \in ToolType /\ tool'.pc = "block" /\ tool'.own = TRUE
      /\ tool'.op = tool.op /\ tool'.dir = tool.dir /\ tool'.name = tool.name
      /\ tool'.ino = tool.ino
  BY <1>1 DEF UseInv, Typed, ToolType, Labels
<1>6. ~Ready' /\ Own' /\ ~Growing'
  BY <1>5 DEF Ready, Own, Growing, Giving
<1>7. /\ Held' = Recorded(data) /\ Held = Recorded(data) /\ m \notin Recorded(data)
      /\ Recorded(data) \subseteq Inodes
  <2>1. ~Ready
    BY DEF Ready, Growing, Giving
  <2> QED BY <1>1, <1>2, <1>6, <2>1 DEF Held, Made, Recorded
<1>8. ImageInv'
  <2>1. \A n \in Inodes \ inode_bitmap' : Fresh(n)'
    BY <1>1, <1>2, <1>4 DEF UseInv, ImageInv, Fresh
  <2>2. DirsDirect'
    <3>1. kind = "dir" => i.size = i.nblocks /\ i.nblocks <= DIRECT
      BY <1>3, Constants
    <3>2. \A n \in Inodes \ {m} : inode'[n].kind = "dir" =>
                inode'[n].size = inode'[n].nblocks /\ inode'[n].nblocks <= DIRECT
      BY <1>4 DEF UseInv, ImageInv, DirsDirect
    <3> QED BY <1>3, <1>4, <3>1, <3>2 DEF DirsDirect
  <2>3. inode'[EXT2_ROOT_INO].kind = "dir"
    BY <1>4, <1>7, RootRecorded DEF UseInv, ImageInv
  <2>4. InUse(Held', inode', inode_bitmap', block_bitmap')
    <3>1. \A n \in Held' : inode'[n].kind = inode[n].kind /\ BlocksIn(inode', n) = BlocksIn(inode, n)
      BY <1>4, <1>7, BlocksSame
    <3>2. InUse(Held, inode, inode_bitmap, block_bitmap) /\ Held' \subseteq Held
      BY <1>7 DEF UseInv, ImageInv
    <3> QED BY <1>1, <3>1, <3>2, InUseLike
  <2>5. KindsAgree'
    <3> SUFFICES ASSUME NEW b \in 0..BLOCK_NUM, NEW k \in DOMAIN data[b], data[b][k].inode # 0
                 PROVE  inode'[data[b][k].inode] = inode[data[b][k].inode]
      BY <1>1 DEF UseInv, ImageInv, KindsAgree
    <3>1. data[b][k].inode \in Recorded(data)
      BY DataParts, RecordParts, RecordedIs DEF UseInv
    <3> QED BY <1>4, <1>7, <3>1
  <2> QED BY <1>1, <2>1, <2>2, <2>3, <2>4, <2>5 DEF UseInv, ImageInv
<1>9. ToolInv'
  <2>1. /\ Made(m)' /\ inode'[m].nblocks = 1 /\ inode'[m].kind \in {"dir", "symlink"}
        /\ inode'[m].i_block[0] = 0 /\ (inode'[m].kind = "dir" <=> tool.op = "mkdir")
    BY <1>1, <1>2, <1>3, <1>4, Constants DEF Made, Fresh
  <2>2. tool.dir # m /\ tool.dir \in Recorded(data) /\ inode'[tool.dir].kind = "dir" /\ tool.name # NoName
    BY <1>4, <1>7 DEF UseInv, ToolInv, Resting
  <2> QED BY <1>1, <1>5, <1>6, <2>1, <2>2 DEF ToolInv
<1> QED BY <1>1, <1>4, <1>5, <1>8, <1>9 DEF UseInv, Typed

\* What the image needs when no record changes and no inode but m.
LEMMA OneInode ==
    ASSUME UseInv, ~freed, ~freed', UNCHANGED <<inode_bitmap, block_bitmap, data>>,
           NEW m \in inode_bitmap, NEW i \in InodeType, inode' = [inode EXCEPT ![m] = i],
           inode_bitmap \subseteq Inodes, i.kind = inode[m].kind,
           i.kind = "dir" => i.size = i.nblocks /\ i.nblocks <= DIRECT,
           InUse(Held', inode', inode_bitmap', block_bitmap')
    PROVE  ImageInv'
<1>1. /\ inode' \in [Inodes -> InodeType] /\ inode'[m] = i
      /\ \A n \in Inodes \ {m} : inode'[n] = inode[n]
  BY InodeChanged DEF UseInv
<1>2. \A n \in Inodes : inode'[n].kind = inode[n].kind
  BY <1>1
<1>3. \A n \in Inodes \ inode_bitmap' : Fresh(n)'
  BY <1>1 DEF UseInv, ImageInv, Fresh
<1>4. DirsDirect'
  BY <1>1 DEF UseInv, ImageInv, DirsDirect
<1>5. inode'[EXT2_ROOT_INO].kind = "dir"
  BY <1>2, Constants DEF UseInv, ImageInv
<1>6. KindsAgree'
  <2> SUFFICES ASSUME NEW b \in 0..BLOCK_NUM, NEW k \in DOMAIN data[b], data[b][k].inode # 0
               PROVE  inode'[data[b][k].inode].kind = inode[data[b][k].inode].kind
    BY DEF UseInv, ImageInv, KindsAgree
  <2>1. data[b][k].inode \in Inodes
    BY DataParts, RecordParts DEF UseInv
  <2> QED BY <1>2, <2>1
<1> QED BY <1>3, <1>4, <1>5, <1>6 DEF UseInv, ImageInv

\* A pointer is stored; behind the last block of an inode it gives it no block.
Replaces(m, i) == inode' = [inode EXCEPT ![m] = i]
StoresPointer(m, s, b) == inode' = [inode EXCEPT ![m].i_block[s] = b]

LEMMA PointerSet ==
    ASSUME UseInv, NEW m \in Inodes, NEW s \in Nat, NEW b \in 0..BLOCK_NUM, s < DIRECT,
           StoresPointer(m, s, b)
    PROVE  \E i \in InodeType :
           /\ Replaces(m, i)
           /\ i.kind = inode[m].kind /\ i.size = inode[m].size
           /\ i.nblocks = inode[m].nblocks /\ i.i_block[s] = b
           /\ inode'[m] = i
           /\ \A n \in Inodes \ {m} : inode'[n] = inode[n]
           /\ \A n \in Inodes : n # m \/ inode[m].nblocks <= s
                                   => BlocksIn(inode', n) = BlocksIn(inode, n)
<1> DEFINE i == [inode[m] EXCEPT !.i_block[s] = b]
<1>0. DIRECT \in Nat /\ DIRECT < SLOTS /\ SLOTS \in Nat
  BY Constants
<1>1. /\ inode[m] \in InodeType /\ inode[m].i_block \in [0..SLOTS - 1 -> 0..BLOCK_NUM]
      /\ inode[m].nblocks \in Nat
  BY InodeParts DEF UseInv
<1>2. s \in 0..SLOTS - 1
  BY <1>0
<1>3. /\ i \in InodeType /\ i.kind = inode[m].kind /\ i.size = inode[m].size
      /\ i.nblocks = inode[m].nblocks /\ i.i_block = [inode[m].i_block EXCEPT ![s] = b]
  <2>1. [inode[m].i_block EXCEPT ![s] = b] \in [0..SLOTS - 1 -> 0..BLOCK_NUM]
    BY <1>1
  <2> QED BY <1>1, <2>1 DEF InodeType
<1>4. inode' = [inode EXCEPT ![m] = i]
  BY DEF StoresPointer
<1> HIDE DEF i
<1>5. i.i_block[s] = b /\ \A k \in 0..SLOTS - 1 : k # s => i.i_block[k] = inode[m].i_block[k]
  BY <1>1, <1>2, <1>3
<1>6. inode'[m] = i /\ \A n \in Inodes \ {m} : inode'[n] = inode[n]
  BY <1>3, <1>4, InodeChanged DEF UseInv
<1>7. ASSUME inode[m].nblocks <= s PROVE BlocksIn(inode', m) = BlocksIn(inode, m)
  <2> DEFINE l == inode[m].nblocks
  <2>1. l \in Nat /\ l <= DIRECT /\ inode'[m].nblocks = l
    BY <1>0, <1>1, <1>3, <1>6, <1>7
  <2>2. BlocksIn(inode', m) = {i.i_block[k] : k \in 0..l - 1} \ {0}
    <3> HIDE DEF l
    <3>1. BlocksIn(inode', m) = {inode'[m].i_block[k] : k \in 0..l - 1} \ {0}
      BY <2>1, BlocksDirect
    <3> QED BY <1>6, <3>1
  <2>3. BlocksIn(inode, m) = {inode[m].i_block[k] : k \in 0..l - 1} \ {0}
    BY <2>1, BlocksDirect
  <2>4. \A k \in 0..l - 1 : k \in 0..SLOTS - 1 /\ k # s
    BY <1>0, <1>7, <2>1
  <2> HIDE DEF l
  <2>5. \A k \in 0..l - 1 : i.i_block[k] = inode[m].i_block[k]
    BY <1>5, <2>4
  <2> QED BY <2>2, <2>3, <2>5
<1>8. \A n \in Inodes \ {m} : BlocksIn(inode', n) = BlocksIn(inode, n)
  BY <1>6, BlocksSame
<1> QED BY <1>3, <1>4, <1>5, <1>6, <1>7, <1>8 DEF Replaces

LEMMA AssignBlockUse ==
    ASSUME CountInv, UseInv, ~freed, Roomy, tool.pc = "block", NEW U, AssignBlock(U)
    PROVE  UseInv'
<1> DEFINE b == Min(get_block_bitmap)
           m == Holder
<1>1. /\ UNCHANGED <<inode_bitmap, block_bitmap, data, freed>>
      /\ tool' = [tool EXCEPT !.pc = "mark_block", !.at = b]
      /\ StoresPointer(m, Slot, b)
  BY DEF StoresPointer, AssignBlock, Roomy, Bookkeeping
<1>2. b \in Blocks /\ b \in 0..BLOCK_NUM
  <2>1. get_block_bitmap \subseteq Nat /\ get_block_bitmap \subseteq Blocks /\ get_block_bitmap # {}
    BY DEF get_block_bitmap, Blocks, Roomy
  <2>2. b \in Blocks
    BY <2>1, LeastIs
  <2> QED BY <2>2 DEF Blocks
<1> HIDE DEF b
<1>3. /\ tool' \in ToolType /\ tool'.pc = "mark_block" /\ tool'.op = tool.op
      /\ tool'.dir = tool.dir /\ tool'.name = tool.name /\ tool'.ino = tool.ino
      /\ tool'.at = b /\ tool'.own = tool.own
  BY <1>1, <1>2 DEF UseInv, Typed, ToolType, Labels
<1>4. (Ready' <=> Ready) /\ (Own' <=> Own) /\ (Growing' <=> Growing)
  BY <1>3 DEF Ready, Own, Growing, Giving
<1>5. Held' = Held /\ Held \subseteq inode_bitmap /\ Recorded(data) \subseteq Held
  BY <1>1, <1>3, <1>4 DEF Held, UseInv, ImageInv, InUse
<1>6. /\ tool.dir \in Recorded(data) /\ inode[tool.dir].kind = "dir" /\ tool.dir \in Inodes
      /\ tool.dir \in inode_bitmap /\ tool.name # NoName
  <2>1. tool.dir \in Recorded(data) /\ inode[tool.dir].kind = "dir" /\ tool.name # NoName
    BY DEF UseInv, ToolInv, Resting
  <2> QED BY <1>5, <2>1 DEF Recorded
<1>7. CASE tool.own
  <2>1. Own /\ ~Growing /\ ~Ready /\ m = tool.ino /\ Slot = 0
    BY <1>7 DEF Own, Ready, Growing, Giving, Holder, Slot
  <2>2. /\ Made(m) /\ inode[m].nblocks = 1 /\ inode[m].kind \in {"dir", "symlink"}
        /\ inode[m].kind = "dir" <=> tool.op = "mkdir"
    BY <2>1 DEF UseInv, ToolInv
  <2>3. m \in inode_bitmap /\ m \in Inodes /\ m \notin Held
    BY <2>1, <2>2, MarkedAreInodes DEF Made, Held
  <2> HIDE DEF m
  <2>4. PICK i \in InodeType :
        /\ Replaces(m, i)
        /\ i.kind = inode[m].kind /\ i.size = inode[m].size
        /\ i.nblocks = inode[m].nblocks /\ i.i_block[0] = b /\ inode'[m] = i
        /\ \A n \in Inodes \ {m} : inode'[n] = inode[n]
        /\ \A n \in Inodes \ {m} : BlocksIn(inode', n) = BlocksIn(inode, n)
    <3>1. StoresPointer(m, 0, b) /\ 0 \in Nat /\ 0 < DIRECT
      BY <1>1, <2>1, Constants
    <3> QED BY <1>2, <2>3, <3>1, PointerSet
  <2>5. InUse(Held', inode', inode_bitmap', block_bitmap')
    <3>1. InUse(Held, inode, inode_bitmap, block_bitmap) /\ Held \subseteq Inodes
      BY <1>5, MarkedAreInodes DEF UseInv, ImageInv
    <3>2. \A n \in Held : inode'[n].kind = inode[n].kind /\ BlocksIn(inode', n) = BlocksIn(inode, n)
      BY <2>3, <2>4, <3>1
    <3> QED BY <1>1, <1>5, <3>1, <3>2, InUseLike
  <2>6. i.kind = "dir" => i.size = i.nblocks /\ i.nblocks <= DIRECT
    BY <2>3, <2>4 DEF UseInv, ImageInv, DirsDirect
  <2>7. ImageInv'
    BY <1>1, <2>3, <2>4, <2>5, <2>6, OneInode, MarkedAreInodes DEF Replaces
  <2>8. ToolInv'
    <3>1. Made(tool.ino)'
      BY <1>1, <1>3, <2>1, <2>2 DEF Made
    <3>2. inode'[tool.dir] = inode[tool.dir]
      BY <1>5, <1>6, <2>3, <2>4
    <3> QED BY <1>1, <1>3, <1>4, <1>6, <2>1, <2>2, <2>4, <3>1, <3>2 DEF ToolInv
  <2> QED BY <1>1, <1>3, <2>4, <2>7, <2>8, InodeChanged DEF UseInv, Typed, Replaces
<1>8. CASE ~tool.own
  <2>1. ~Own /\ Growing /\ m = tool.dir /\ Slot = inode[m].size
    BY <1>8 DEF Own, Ready, Growing, Giving, Holder, Slot
  <2>2. /\ m \in inode_bitmap /\ m \in Inodes /\ Slot < DIRECT /\ Slot = inode[m].nblocks /\ Slot \in Nat
        /\ Slot = inode[m].size
    BY <1>6, <1>8, <2>1, InodeParts DEF UseInv, ImageInv, DirsDirect, Roomy
  <2> DEFINE x == Slot
  <2> HIDE DEF m
  <2>4. PICK i \in InodeType :
        /\ Replaces(m, i)
        /\ i.kind = inode[m].kind /\ i.size = inode[m].size
        /\ i.nblocks = inode[m].nblocks /\ i.i_block[x] = b /\ inode'[m] = i
        /\ \A n \in Inodes \ {m} : inode'[n] = inode[n]
        /\ \A n \in Inodes : BlocksIn(inode', n) = BlocksIn(inode, n)
    <3> HIDE DEF x
    <3>1. x \in Nat /\ x < DIRECT /\ StoresPointer(m, x, b) /\ inode[m].nblocks <= x
      BY <1>1, <2>2 DEF x
    <3>2. m \in Inodes /\ b \in 0..BLOCK_NUM
      BY <1>2, <2>2
    <3> QED BY <3>1, <3>2, PointerSet
  <2> HIDE DEF x
  <2>5. InUse(Held', inode', inode_bitmap', block_bitmap')
    <3>1. InUse(Held, inode, inode_bitmap, block_bitmap) /\ Held \subseteq Inodes
      BY <1>5, MarkedAreInodes DEF UseInv, ImageInv
    <3>2. \A n \in Held : inode'[n].kind = inode[n].kind /\ BlocksIn(inode', n) = BlocksIn(inode, n)
      BY <2>2, <2>4, <3>1
    <3> QED BY <1>1, <1>5, <3>1, <3>2, InUseLike
  <2>6. i.kind = "dir" => i.size = i.nblocks /\ i.nblocks <= DIRECT
    BY <2>2, <2>4 DEF UseInv, ImageInv, DirsDirect
  <2>7. ImageInv'
    BY <1>1, <2>2, <2>4, <2>5, <2>6, OneInode, MarkedAreInodes DEF Replaces
  <2>8. ToolInv'
    <3>1. tool.ino \in Inodes /\ (inode[tool.ino].kind = "dir" <=> tool.op = "mkdir")
      BY <1>5, <2>1, MarkedAreInodes DEF UseInv, ToolInv, Held, Ready
    <3>2. inode'[tool.ino].kind = inode[tool.ino].kind
      BY <2>4, <3>1
    <3>3. /\ inode'[tool.dir].kind = "dir" /\ inode'[tool.dir].size < DIRECT
          /\ inode'[tool.dir].i_block[inode'[tool.dir].size] = b
      BY <1>6, <2>1, <2>2, <2>4 DEF x
    <3> QED BY <1>1, <1>3, <1>4, <1>6, <2>1, <3>1, <3>2, <3>3 DEF ToolInv
  <2> QED BY <1>1, <1>3, <2>2, <2>4, <2>7, <2>8, InodeChanged DEF UseInv, Typed, Replaces
<1> QED BY <1>7, <1>8

\* A record of an image whose kind its inode has, or of no inode.
Agrees(e) == IF e.inode = 0 THEN e.name = NoName
             ELSE e.type # "none" /\ (e.type = "dir" <=> inode[e.inode].kind = "dir")

LEMMA RecordsWritten ==
    ASSUME UseInv, ~freed, ~freed', UNCHANGED <<inode_bitmap, block_bitmap, inode>>,
           data' \in [0..BLOCK_NUM -> Seq(RecordType)],
           \A b \in Blocks \ block_bitmap : data'[b] = <<>>,
           NEW N, NEW H, InUse(H, inode, inode_bitmap, block_bitmap),
           Recorded(data) \cup N \subseteq H, Ready' => tool'.ino \in H,
           \A b \in 0..BLOCK_NUM : \A k \in DOMAIN data'[b] :
              \/ \E j \in DOMAIN data[b] :
                    /\ data'[b][k].inode = data[b][j].inode
                    /\ data'[b][k].name = data[b][j].name
                    /\ data'[b][k].type = data[b][j].type
              \/ Agrees(data'[b][k]) /\ data'[b][k].inode \in N \cup {0},
           tool' \in ToolType
    PROVE  /\ Recorded(data)' \subseteq Recorded(data) \cup N
           /\ Held' \subseteq H /\ Typed' /\ ImageInv'
<1>1. Typed /\ Typed'
  BY DEF UseInv, Typed
<1>2. KindsAgree'
  <2> SUFFICES ASSUME NEW b \in 0..BLOCK_NUM, NEW k \in DOMAIN data'[b]
               PROVE  Agrees(data'[b][k])
    BY DEF KindsAgree, Agrees
  <2>1. ASSUME NEW j \in DOMAIN data[b] PROVE Agrees(data[b][j])
    BY DEF Agrees, UseInv, ImageInv, KindsAgree
  <2> QED BY <2>1 DEF Agrees
<1>3. Recorded(data)' \subseteq Recorded(data) \cup N
  <2> SUFFICES ASSUME NEW n \in Recorded(data'), n # EXT2_ROOT_INO, n \notin N
               PROVE  n \in Recorded(data)
    BY <1>1, RootRecorded
  <2>1. n \in Inodes /\ n # 0
    BY DEF Recorded, Inodes
  <2>2. PICK b \in 0..BLOCK_NUM : \E k \in DOMAIN data'[b] : data'[b][k].inode = n
    BY DEF Recorded, ToSet
  <2>3. PICK j \in DOMAIN data[b] : data[b][j].inode = n
    BY <2>1, <2>2
  <2> QED BY <1>1, <2>1, <2>3, RecordedIs
<1>4. Held' \subseteq H /\ InUse(Held', inode, inode_bitmap, block_bitmap)
  <2>1. Held' \subseteq H
    BY <1>3 DEF Held
  <2> QED BY <2>1, InUseLike
<1>5. ImageInv'
  BY <1>2, <1>4 DEF UseInv, ImageInv, Fresh, DirsDirect
<1> QED BY <1>1, <1>3, <1>4, <1>5

LEMMA RecordsKept ==
    ASSUME Typed, Typed',
           \A b \in 0..BLOCK_NUM : \A j \in DOMAIN data[b] :
              \E k \in DOMAIN data'[b] : data'[b][k].inode = data[b][j].inode
    PROVE  Recorded(data) \subseteq Recorded(data)'
<1> SUFFICES ASSUME NEW n \in Recorded(data), n # EXT2_ROOT_INO
             PROVE  n \in Recorded(data')
  BY DEF Recorded
<1>1. n \in Inodes /\ \E b \in 0..BLOCK_NUM : \E j \in DOMAIN data[b] : data[b][j].inode = n
  BY RecordedIs
<1>2. PICK b \in 0..BLOCK_NUM : \E k \in DOMAIN data'[b] : data'[b][k].inode = n
  BY <1>1
<1>3. DOMAIN data' = 0..BLOCK_NUM
  BY DEF Typed
<1>4. \E e \in ToSet(data'[b]) : e.inode = n
  BY <1>2 DEF ToSet
<1> QED BY <1>1, <1>3, <1>4 DEF Recorded

LEMMA RecordTyped ==
    ASSUME NEW n \in 0..INODE_NUM, NEW name \in DOMAIN NameLen, NEW type \in Kinds, NEW rec \in Nat
    PROVE  LET e == Record(n, name, type, rec) IN
           /\ e \in RecordType
           /\ e.inode = n /\ e.name = name /\ e.type = type /\ e.rec_len = rec
BY DEF Record, RecordType

LEMMA BlockChanged ==
    ASSUME Typed, NEW at \in 0..BLOCK_NUM, NEW rs \in Seq(RecordType), data' = [data EXCEPT ![at] = rs]
    PROVE  /\ data' \in [0..BLOCK_NUM -> Seq(RecordType)] /\ data'[at] = rs
           /\ \A b \in (0..BLOCK_NUM) \ {at} : data'[b] = data[b]
BY DEF Typed

\* The inode a tool made has its block for itself, and is in use with it.
LEMMA FilledIsInUse ==
    ASSUME CountInv, UseInv, ~freed, tool.pc = "fill"
    PROVE  /\ tool.ino \in Inodes /\ tool.at \in block_bitmap /\ data[tool.at] = <<>>
           /\ Held = Recorded(data)
           /\ InUse(Recorded(data) \cup {tool.ino}, inode, inode_bitmap, block_bitmap)
<1>1. Own /\ ~Ready
  BY DEF UseInv, ToolInv, Own, Ready, Growing, Giving
<1>2. /\ Made(tool.ino) /\ inode[tool.ino].nblocks = 1
      /\ inode[tool.ino].kind \in {"dir", "symlink"} /\ inode[tool.ino].i_block[0] = tool.at
      /\ Unshared(tool.at) /\ data[tool.at] = <<>>
  BY <1>1 DEF UseInv, ToolInv
<1>3. tool.ino \in inode_bitmap /\ tool.ino \in Inodes /\ Held = Recorded(data) /\ tool.at \in block_bitmap
  BY <1>1, <1>2, MarkedAreInodes DEF Made, Held, Unshared
<1>4. BlocksIn(inode, tool.ino) = {tool.at} \ {0}
  <2>1. 1 \in Nat /\ 1 <= DIRECT
    BY Constants
  <2>2. BlocksIn(inode, tool.ino) = {inode[tool.ino].i_block[k] : k \in 0..1 - 1} \ {0}
    BY <1>2, <2>1, BlocksDirect
  <2> QED BY <1>2, <2>2
<1>5. \A n \in Recorded(data) \ {tool.ino} : BlocksIn(inode, n) \cap BlocksIn(inode, tool.ino) = {}
  BY <1>2, <1>3, <1>4 DEF Unshared, BlocksOf
<1>6. InUse(Recorded(data), inode, inode_bitmap, block_bitmap)
  BY <1>3 DEF UseInv, ImageInv
<1>7. BlocksIn(inode, tool.ino) \subseteq block_bitmap /\ inode[tool.ino].kind # "none"
  BY <1>2, <1>3, <1>4
<1> QED BY <1>2, <1>3, <1>5, <1>6, <1>7, InUseAdd

LEMMA FillUse ==
    ASSUME CountInv, UseInv, ~freed, Fill
    PROVE  UseInv'
<1> DEFINE dot == EXT2_DIR_REC_LEN(".")
           e1 == Record(tool.ino, ".", "dir", dot)
           e2 == Record(tool.dir, "..", "dir", EXT2_BLOCK_SIZE - dot)
           at == tool.at
<1>1. /\ UNCHANGED <<inode_bitmap, block_bitmap, inode, freed>> /\ tool.pc = "fill" /\ tool.op = "mkdir"
      /\ data' = [data EXCEPT ![at] = <<e1, e2>>]
      /\ tool' = [tool EXCEPT !.pc = "room"]
  BY DEF Fill, At, Goto, Bookkeeping
<1>2. /\ tool' \in ToolType /\ tool'.pc = "room" /\ tool'.op = tool.op /\ tool'.dir = tool.dir
      /\ tool'.name = tool.name /\ tool'.ino = tool.ino
  BY <1>1, GotoTyped DEF UseInv, Labels
<1>3. ~Own' /\ ~Growing' /\ Ready'
  BY <1>2 DEF Own, Ready, Growing, Giving
<1>4. /\ tool.ino \in Inodes /\ at \in block_bitmap /\ data[at] = <<>> /\ Held = Recorded(data)
      /\ InUse(Recorded(data) \cup {tool.ino}, inode, inode_bitmap, block_bitmap)
  BY <1>1, FilledIsInUse
<1>5. /\ tool.dir \in Recorded(data) /\ tool.dir \in Inodes /\ inode[tool.dir].kind = "dir"
      /\ tool.name # NoName /\ inode[tool.ino].kind = "dir"
  <2>1. /\ tool.dir \in Recorded(data) /\ inode[tool.dir].kind = "dir"
        /\ tool.name # NoName /\ tool.own
    BY <1>1 DEF UseInv, ToolInv, Resting
  <2>2. inode[tool.ino].kind = "dir"
    BY <1>1, <2>1 DEF UseInv, ToolInv, Own
  <2> QED BY <2>1, <2>2 DEF Recorded
<1>6. at \in 0..BLOCK_NUM
  BY ToolParts DEF UseInv
<1>7. /\ e1 \in RecordType /\ e1.inode = tool.ino /\ e1.type = "dir"
      /\ e2 \in RecordType /\ e2.inode = tool.dir /\ e2.type = "dir"
  <2>1. tool.ino \in 0..INODE_NUM /\ tool.dir \in 0..INODE_NUM /\ "dir" \in Kinds
    BY ToolParts DEF UseInv, Kinds
  <2>2. "." \in DOMAIN NameLen /\ ".." \in DOMAIN NameLen
    BY Constants
  <2>3. dot \in Nat /\ EXT2_BLOCK_SIZE - dot \in Nat
    BY <2>2, RecLen, Constants
  <2> HIDE DEF dot
  <2> QED BY <2>1, <2>2, <2>3, RecordTyped
<1> HIDE DEF e1, e2
<1>8. <<e1, e2>> \in Seq(RecordType)
  BY <1>7
<1>9. /\ data' \in [0..BLOCK_NUM -> Seq(RecordType)] /\ data'[at] = <<e1, e2>>
      /\ \A b \in (0..BLOCK_NUM) \ {at} : data'[b] = data[b]
  BY <1>1, <1>6, <1>8, BlockChanged DEF UseInv
<1> DEFINE N == {tool.ino, tool.dir}
<1>10. ASSUME NEW b \in 0..BLOCK_NUM, NEW k \in DOMAIN data'[b]
       PROVE  \/ \E j \in DOMAIN data[b] :
                    /\ data'[b][k].inode = data[b][j].inode
                    /\ data'[b][k].name = data[b][j].name
                    /\ data'[b][k].type = data[b][j].type
              \/ Agrees(data'[b][k]) /\ data'[b][k].inode \in N \cup {0}
  <2>1. CASE b = at
    <3>1. data'[b][k] \in {e1, e2}
      <4>1. k \in DOMAIN <<e1, e2>> /\ data'[b][k] = <<e1, e2>>[k]
        BY <1>9, <2>1
      <4>2. k \in {1, 2}
        BY <4>1
      <4> QED BY <4>1, <4>2
    <3>2. Agrees(e1) /\ Agrees(e2)
      BY <1>4, <1>5, <1>7 DEF Agrees, Inodes
    <3> QED BY <1>7, <3>1, <3>2
  <2>2. CASE b # at
    BY <1>9, <2>2
  <2> QED BY <2>1, <2>2
<1>11. \A b \in Blocks \ block_bitmap : data'[b] = <<>>
  BY <1>4, <1>9 DEF Blocks, UseInv, ImageInv
<1>12. Typed' /\ ImageInv'
  <2> DEFINE H == Recorded(data) \cup {tool.ino}
  <2>1. Recorded(data) \cup N \subseteq H /\ (Ready' => tool'.ino \in H)
    BY <1>2, <1>5
  <2> HIDE DEF N
  <2> QED BY <1>1, <1>2, <1>4, <1>9, <1>10, <1>11, <2>1, RecordsWritten
<1>13. tool.dir \in Recorded(data)'
  <2>1. \A b \in 0..BLOCK_NUM : \A j \in DOMAIN data[b] :
              \E k \in DOMAIN data'[b] : data'[b][k].inode = data[b][j].inode
    <3> SUFFICES ASSUME NEW b \in 0..BLOCK_NUM, NEW j \in DOMAIN data[b]
                 PROVE  \E k \in DOMAIN data'[b] : data'[b][k].inode = data[b][j].inode
      OBVIOUS
    <3>1. b # at
      BY <1>4
    <3>2. data'[b] = data[b]
      BY <1>9, <3>1
    <3> QED BY <3>2
  <2> QED BY <1>5, <1>12, <2>1, RecordsKept DEF UseInv
<1>14. ToolInv'
  BY <1>1, <1>2, <1>3, <1>5, <1>13 DEF ToolInv
<1> QED BY <1>1, <1>12, <1>14 DEF UseInv

LEMMA WriteTargetUse ==
    ASSUME CountInv, UseInv, ~freed, WriteTarget
    PROVE  UseInv'
<1>1. /\ UNCHANGED <<inode_bitmap, block_bitmap, inode, freed>> /\ tool.pc = "fill" /\ tool.op = "ln_s"
      /\ data' = [data EXCEPT ![tool.at] = <<>>]
      /\ tool' = [tool EXCEPT !.pc = "room"]
  BY DEF WriteTarget, At, Goto, Bookkeeping
<1>2. /\ tool' \in ToolType /\ tool'.pc = "room" /\ tool'.op = tool.op /\ tool'.dir = tool.dir
      /\ tool'.name = tool.name /\ tool'.ino = tool.ino
  BY <1>1, GotoTyped DEF UseInv, Labels
<1>3. ~Own' /\ ~Growing' /\ Ready'
  BY <1>2 DEF Own, Ready, Growing, Giving
<1>4. /\ data[tool.at] = <<>> /\ Held = Recorded(data)
      /\ InUse(Recorded(data) \cup {tool.ino}, inode, inode_bitmap, block_bitmap)
  BY <1>1, FilledIsInUse
<1>5. data' = data
  BY <1>1, <1>4 DEF UseInv, Typed
<1>6. ImageInv'
  <2>1. Held' = Recorded(data) \cup {tool.ino}
    BY <1>2, <1>3, <1>5 DEF Held
  <2> QED BY <1>1, <1>4, <1>5, <2>1 DEF UseInv, ImageInv, Fresh, DirsDirect, KindsAgree
<1>7. ToolInv'
  <2>1. tool.own
    BY <1>1 DEF UseInv, ToolInv
  <2> QED BY <1>1, <1>2, <1>3, <1>5, <2>1 DEF UseInv, ToolInv, Resting, Own
<1> QED BY <1>1, <1>2, <1>5, <1>6, <1>7 DEF UseInv, Typed

\* The type a tool gives the record it enters.
TypeGiven(type) == type \in Kinds \ {"none"} /\ (type = "dir" <=> tool.op = "mkdir")

\* A record is written for an inode that is ready.
LEMMA NamedUse ==
    ASSUME CountInv, UseInv, ~freed, Ready, tool.at \notin Blocks \ block_bitmap,
           UNCHANGED <<inode_bitmap, block_bitmap, inode, freed>>,
           NEW type, TypeGiven(type), NEW rec \in Nat,
           NEW rs \in Seq(RecordType), data[tool.at] = rs,
           data' = [data EXCEPT ![tool.at] = Append(rs, Record(tool.ino, tool.name, type, rec))],
           tool' \in ToolType, Ready' => tool'.ino = tool.ino
    PROVE  Recorded(data) \subseteq Recorded(data)' /\ Held' \subseteq Held /\ Typed' /\ ImageInv'
<1> DEFINE at == tool.at
           e == Record(tool.ino, tool.name, type, rec)
           n == Len(rs)
           new == Append(rs, e)
<1>1. /\ tool.ino \in Held /\ tool.ino \in Inodes /\ Recorded(data) \subseteq Held
      /\ InUse(Held, inode, inode_bitmap, block_bitmap)
      /\ inode[tool.ino].kind = "dir" <=> tool.op = "mkdir"
  <2>1. tool.ino \in Held /\ Recorded(data) \subseteq Held
    BY DEF Held
  <2> QED BY <2>1, MarkedAreInodes DEF UseInv, ImageInv, ToolInv, InUse
<1>2. at \in 0..BLOCK_NUM /\ tool.ino \in 0..INODE_NUM /\ tool.name \in DOMAIN NameLen
  BY ToolParts DEF UseInv
<1>3. e \in RecordType /\ e.inode = tool.ino /\ e.type = type
  BY <1>2, RecordTyped DEF TypeGiven
<1>4. Agrees(e)
  BY <1>1, <1>3 DEF Agrees, TypeGiven, Inodes
<1> HIDE DEF e
<1>5. /\ new \in Seq(RecordType) /\ DOMAIN new = 1..n + 1 /\ n \in Nat /\ DOMAIN rs = 1..n
      /\ new[n + 1] = e /\ \A k \in 1..n : new[k] = rs[k]
  BY <1>3
<1> HIDE DEF n
<1>6. /\ data' \in [0..BLOCK_NUM -> Seq(RecordType)] /\ data'[at] = new
      /\ \A b \in (0..BLOCK_NUM) \ {at} : data'[b] = data[b]
  <2>1. data' = [data EXCEPT ![at] = new]
    BY DEF e
  <2> HIDE DEF new
  <2> QED BY <1>2, <1>5, <2>1, BlockChanged DEF UseInv
<1> HIDE DEF new
<1>7. \A k \in 1..n + 1 : k = n + 1 \/ k \in 1..n
  BY <1>5
<1> DEFINE N == {tool.ino}
<1>8. ASSUME NEW b \in 0..BLOCK_NUM, NEW k \in DOMAIN data'[b]
      PROVE  \/ \E j \in DOMAIN data[b] :
                    /\ data'[b][k].inode = data[b][j].inode
                    /\ data'[b][k].name = data[b][j].name
                    /\ data'[b][k].type = data[b][j].type
             \/ Agrees(data'[b][k]) /\ data'[b][k].inode \in N \cup {0}
  <2>1. CASE b = at
    <3>1. CASE k = n + 1
      BY <1>3, <1>4, <1>5, <1>6, <2>1, <3>1
    <3>2. CASE k \in 1..n
      <4>1. k \in DOMAIN data[b] /\ data'[b][k] = data[b][k]
        BY <1>5, <1>6, <2>1, <3>2
      <4> QED BY <4>1
    <3> QED BY <1>5, <1>6, <1>7, <2>1, <3>1, <3>2
  <2>2. CASE b # at
    BY <1>6, <2>2
  <2> QED BY <2>1, <2>2
<1>9. \A b \in Blocks \ block_bitmap : data'[b] = <<>>
  BY <1>6 DEF Blocks, UseInv, ImageInv
<1>10. Held' \subseteq Held /\ Typed' /\ ImageInv'
  <2>1. Recorded(data) \cup N \subseteq Held /\ (Ready' => tool'.ino \in Held)
    BY <1>1
  <2> HIDE DEF N
  <2> QED BY <1>1, <1>6, <1>8, <1>9, <2>1, RecordsWritten
<1>11. Recorded(data) \subseteq Recorded(data)'
  <2>1. ASSUME NEW b \in 0..BLOCK_NUM, NEW j \in DOMAIN data[b]
        PROVE  \E k \in DOMAIN data'[b] : data'[b][k].inode = data[b][j].inode
    <3>1. CASE b = at
      <4>1. j \in 1..n /\ j \in 1..n + 1
        BY <1>5, <3>1
      <4>2. j \in DOMAIN data'[b] /\ data'[b][j] = data[b][j]
        BY <1>5, <1>6, <3>1, <4>1
      <4> QED BY <4>2
    <3>2. CASE b # at
      BY <1>6, <3>2
    <3> QED BY <3>1, <3>2
  <2> QED BY <1>10, <2>1, RecordsKept DEF UseInv
<1> QED BY <1>10, <1>11

LEMMA EnterRecordUse ==
    ASSUME CountInv, UseInv, ~freed, tool.pc = "enter",
           NEW type, TypeGiven(type), NEW pc \in {"idle", "parent"}, EnterRecord(type, pc)
    PROVE  UseInv'
<1>1. /\ UNCHANGED <<inode_bitmap, block_bitmap, inode, freed>>
      /\ data' = [data EXCEPT ![tool.at] = Append(data[tool.at],
                     Record(tool.ino, tool.name, type, tool.rec))]
      /\ IF pc = "idle" THEN tool' = Idle ELSE tool' = [tool EXCEPT !.pc = "parent"]
  BY DEF EnterRecord, Bookkeeping, Stop, Goto
<1>2. /\ tool' \in ToolType
      /\ \/ tool'.pc = "idle"
         \/ /\ tool'.pc = "parent" /\ tool'.op = tool.op /\ tool'.dir = tool.dir
            /\ tool'.name = tool.name /\ tool'.ino = tool.ino
  <2>1. CASE pc = "idle"
    BY <1>1, <2>1, IdleTyped
  <2>2. CASE pc = "parent"
    BY <1>1, <2>2, GotoTyped DEF UseInv, Labels
  <2> QED BY <2>1, <2>2
<1>3. ~Own' /\ ~Growing' /\ (Ready' => tool'.pc = "parent") /\ Ready
  BY <1>2 DEF Own, Ready, Growing, Giving
<1>4. Recorded(data) \subseteq Recorded(data)' /\ Held' \subseteq Held /\ Typed' /\ ImageInv'
  <2>1. tool.at \notin Blocks \ block_bitmap
    BY DEF UseInv, ToolInv
  <2>2. data[tool.at] \in Seq(RecordType) /\ tool.rec \in Nat
    BY ToolParts, DataParts DEF UseInv
  <2> QED BY <1>1, <1>2, <1>3, <2>1, <2>2, NamedUse
<1>5. ToolInv'
  <2>1. CASE tool'.pc = "idle"
    BY <2>1, Rests DEF Resting
  <2>2. CASE tool'.pc = "parent"
    BY <1>1, <1>2, <1>3, <1>4, <2>2 DEF UseInv, ToolInv, Resting
  <2> QED BY <1>2, <2>1, <2>2
<1> QED BY <1>1, <1>4, <1>5 DEF UseInv

LEMMA GrowRecordUse ==
    ASSUME CountInv, UseInv, ~freed, tool.pc = "grow", NEW type, TypeGiven(type), GrowRecord(type)
    PROVE  UseInv'
<1> DEFINE e == Record(tool.ino, tool.name, type, EXT2_BLOCK_SIZE)
<1>1. /\ UNCHANGED <<inode_bitmap, block_bitmap, inode, freed>>
      /\ data' = [data EXCEPT ![tool.at] = <<e>>]
      /\ tool' = [tool EXCEPT !.pc = "grow_size"]
  BY DEF GrowRecord, Bookkeeping, Goto
<1>2. /\ tool' \in ToolType /\ tool'.pc = "grow_size" /\ tool'.op = tool.op /\ tool'.dir = tool.dir
      /\ tool'.name = tool.name /\ tool'.ino = tool.ino /\ tool'.at = tool.at
  BY <1>1, GotoTyped DEF UseInv, Labels
<1>3. ~Own' /\ Growing' /\ Ready' /\ Growing /\ Ready
  BY <1>2 DEF Own, Ready, Growing, Giving
<1>4. Unshared(tool.at) /\ data[tool.at] = <<>>
  BY <1>3 DEF UseInv, ToolInv
<1>5. Recorded(data) \subseteq Recorded(data)' /\ Held' \subseteq Held /\ Typed' /\ ImageInv'
  <2>1. tool.at \notin Blocks \ block_bitmap
    BY <1>4 DEF Unshared
  <2>2. <<e>> = Append(<<>>, e) /\ <<>> \in Seq(RecordType) /\ EXT2_BLOCK_SIZE \in Nat
    BY Constants
  <2> HIDE DEF e
  <2>3. data' = [data EXCEPT ![tool.at] = Append(<<>>, e)]
    BY <1>1, <2>2
  <2>4. data' = [data EXCEPT ![tool.at] =
                    Append(<<>>, Record(tool.ino, tool.name, type, EXT2_BLOCK_SIZE))]
    BY <2>3, Zenon DEF e
  <2>5. tool' \in ToolType /\ (Ready' => tool'.ino = tool.ino) /\ Ready /\ data[tool.at] = <<>>
    BY <1>2, <1>3, <1>4, Zenon
  <2>6. <<>> \in Seq(RecordType) /\ EXT2_BLOCK_SIZE \in Nat
    BY <2>2, Zenon
  <2>7. UNCHANGED <<inode_bitmap, block_bitmap, inode, freed>>
    BY <1>1, Zenon
  <2> QED BY <2>1, <2>4, <2>5, <2>6, <2>7, NamedUse, Zenon
<1>6. Unshared(tool.at)'
  BY <1>1, <1>2, <1>4, <1>5 DEF Unshared, BlocksOf
<1>7. ToolInv'
  BY <1>1, <1>2, <1>3, <1>5, <1>6 DEF UseInv, ToolInv, Resting
<1> QED BY <1>1, <1>5, <1>7 DEF UseInv

LEMMA EmptyNotFilled == ASSUME NEW b, Records(b) = <<>> PROVE ~Filled(b)
<1> DEFINE f == CHOOSE g : g = [s \in SUBSET DOMAIN <<>> |->
                                  IF s = {} THEN 0
                                  ELSE g[s \ {Max(s)}] + <<>>[Max(s)].rec_len]
           h == [s \in SUBSET DOMAIN <<>> |-> 0]
<1>1. FoldLeft(LAMBDA s, e : s + e.rec_len, 0, <<>>) = f[DOMAIN <<>>]
  BY Zenon DEF FoldLeft, MapThenFoldSet
<1>2. \A s \in SUBSET DOMAIN <<>> : s = {}
  OBVIOUS
<1>3. h = [s \in SUBSET DOMAIN <<>> |-> IF s = {} THEN 0
                                        ELSE h[s \ {Max(s)}] + <<>>[Max(s)].rec_len]
  BY <1>2
<1>4. f = [s \in SUBSET DOMAIN <<>> |-> IF s = {} THEN 0
                                        ELSE f[s \ {Max(s)}] + <<>>[Max(s)].rec_len]
  BY <1>3, Zenon
<1>5. f[DOMAIN <<>>] = 0
  BY <1>2, <1>4
<1> HIDE DEF f
<1>6. EXT2_BLOCK_SIZE # 0
  BY RecLen, Constants
<1> QED BY <1>1, <1>5, <1>6 DEF Filled, Used

\* The blocks of a directory are those its first pointers lead to.
LEMMA DirectoryBlocks ==
    ASSUME UseInv, ~freed, NEW d \in Inodes, inode[d].kind = "dir"
    PROVE  /\ DirBlocks(d) \in Seq(0..BLOCK_NUM) /\ DirBlocks(d) \in Seq(Int)
           /\ Len(DirBlocks(d)) = inode[d].size
           /\ \A k \in 1..inode[d].size :
                 /\ DirBlocks(d)[k] = inode[d].i_block[k - 1]
                 /\ DirBlocks(d)[k] \in 0..BLOCK_NUM
                 /\ Records(DirBlocks(d)[k]) = data[DirBlocks(d)[k]]
<1> DEFINE n == inode[d].size
           bs == DirBlocks(d)
<1>1. n \in Nat /\ n <= DIRECT
  BY InodeParts DEF UseInv, ImageInv, DirsDirect
<1>2. \A k \in 1..n : k - 1 \in 0..SLOTS - 1
  BY <1>1, Constants
<1>3. \A k \in 1..n : inode[d].i_block[k - 1] \in 0..BLOCK_NUM
  BY <1>2, InodeParts DEF UseInv
<1>4. bs = [k \in 1..n |-> inode[d].i_block[k - 1]]
  BY DEF DirBlocks
<1> HIDE DEF n
<1>5. bs \in Seq(0..BLOCK_NUM) /\ Len(bs) = n
  BY <1>1, <1>3, <1>4
<1>6. bs \in Seq(Int)
  BY <1>1, <1>3, <1>4
<1>7. \A k \in 1..n : bs[k] = inode[d].i_block[k - 1] /\ bs[k] \in 0..BLOCK_NUM
  BY <1>3, <1>4
<1> HIDE DEF bs
<1>8. \A k \in 1..n : Records(bs[k]) = data[bs[k]]
  BY <1>7, DataParts DEF UseInv, Records
<1> QED BY <1>5, <1>6, <1>7, <1>8 DEF n, bs

\* FindRoom cuts the last record of block b down to e.
Cuts(b, e) ==
    LET n == Len(data[b])
        last == data[b][n]
    IN  /\ Filled(b) /\ HasRoom(b) /\ data[b] # <<>>
        /\ e.inode = last.inode /\ e.name = last.name /\ e.type = last.type
        /\ e.rec_len = EXT2_DIR_REC_LEN(last.name)
        /\ data' = [data EXCEPT ![b] = [data[b] EXCEPT ![n] = e]]
        /\ tool' = [tool EXCEPT !.pc = "enter", !.at = b, !.rec = last.rec_len - e.rec_len]

LEMMA FindRoomCuts ==
    ASSUME UseInv, ~freed, tool.pc = "room", FindRoom
    PROVE  \/ tool' = [tool EXCEPT !.pc = "block", !.own = FALSE] /\ data' = data
           \/ Hang(tool.op) /\ data' = data
           \/ \E b \in 0..BLOCK_NUM : \E e \in RecordType : Cuts(b, e)
<1> DEFINE bs == DirBlocks(tool.dir)
           stops == {k \in DOMAIN bs : Filled(bs[k]) => HasRoom(bs[k])}
           b == bs[Min(stops)]
           last == Last(data[b])
           kept == EXT2_DIR_REC_LEN(last.name)
           n == Len(data[b])
<1>1. \/ /\ tool' = [tool EXCEPT !.pc = "block", !.own = FALSE] /\ data' = data
      \/ Hang(tool.op) /\ data' = data
      \/ /\ stops # {} /\ Filled(b)
         /\ data' = [data EXCEPT ![b][n].rec_len = kept]
         /\ tool' = [tool EXCEPT !.pc = "enter", !.at = b, !.rec = last.rec_len - kept]
  BY Zenon DEF FindRoom
<1>2. tool.dir \in Inodes /\ inode[tool.dir].kind = "dir"
  BY DEF UseInv, ToolInv, Resting, Recorded
<1>3. CASE /\ stops # {} /\ Filled(b)
           /\ data' = [data EXCEPT ![b][n].rec_len = kept]
           /\ tool' = [tool EXCEPT !.pc = "enter", !.at = b, !.rec = last.rec_len - kept]
  <2>1. /\ bs \in Seq(Int) /\ Len(bs) = inode[tool.dir].size
        /\ \A k \in 1..inode[tool.dir].size : bs[k] \in 0..BLOCK_NUM /\ Records(bs[k]) = data[bs[k]]
    BY <1>2, DirectoryBlocks
  <2> HIDE DEF bs
  <2>2. DOMAIN bs = 1..inode[tool.dir].size /\ stops \subseteq Nat
    BY <2>1
  <2>3. Min(stops) \in stops
    BY <1>3, <2>2, LeastIs, Zenon
  <2>4. HasRoom(b) /\ b \in 0..BLOCK_NUM /\ Records(b) = data[b]
    BY <1>3, <2>1, <2>2, <2>3, Zenon
  <2> HIDE DEF b, stops
  <2>5. data[b] # <<>> /\ data[b] \in Seq(RecordType)
    BY <1>3, <2>4, EmptyNotFilled, DataParts DEF UseInv
  <2>6. n \in DOMAIN data[b] /\ last = data[b][n] /\ last \in RecordType
    BY <2>5 DEF Last
  <2>7. kept \in Nat
    BY <2>6, RecordParts, RecLen
  <2> DEFINE e == [last EXCEPT !.rec_len = kept]
  <2>8. e \in RecordType /\ e.inode = last.inode /\ e.name = last.name /\ e.type = last.type /\ e.rec_len = kept
    BY <2>6, <2>7 DEF RecordType
  <2>9. data' = [data EXCEPT ![b] = [data[b] EXCEPT ![n] = e]]
    BY <1>3, <2>6
  <2> HIDE DEF e
  <2>10. Cuts(b, e)
    BY <1>3, <2>4, <2>5, <2>6, <2>8, <2>9 DEF Cuts
  <2> QED BY <2>4, <2>8, <2>10
<1> QED BY <1>1, <1>3, Zenon

LEMMA CutsRecords ==
    ASSUME UseInv, NEW b \in 0..BLOCK_NUM, NEW e \in RecordType, Cuts(b, e)
    PROVE  LET n == Len(data[b]) IN
           /\ data' \in [0..BLOCK_NUM -> Seq(RecordType)]
           /\ n \in DOMAIN data[b] /\ DOMAIN data'[b] = DOMAIN data[b]
           /\ \A k \in DOMAIN data[b] : data'[b][k] = IF k = n THEN e ELSE data[b][k]
           /\ \A x \in (0..BLOCK_NUM) \ {b} : data'[x] = data[x]
           /\ tool' \in ToolType /\ tool'.pc = "enter" /\ tool'.op = tool.op /\ tool'.dir = tool.dir
           /\ tool'.name = tool.name /\ tool'.ino = tool.ino /\ tool'.at = b
           /\ tool'.rec = data[b][n].rec_len - e.rec_len
           /\ tool'.rec >= EXT2_DIR_REC_LEN(tool.name)
<1> DEFINE n == Len(data[b])
           last == data[b][n]
           rs == [data[b] EXCEPT ![n] = e]
<1>1. /\ HasRoom(b) /\ data[b] # <<>> /\ e.rec_len = EXT2_DIR_REC_LEN(last.name)
      /\ data' = [data EXCEPT ![b] = rs]
      /\ tool' = [tool EXCEPT !.pc = "enter", !.at = b, !.rec = last.rec_len - e.rec_len]
  BY DEF Cuts
<1>2. data[b] \in Seq(RecordType) /\ Records(b) = data[b]
  BY DataParts DEF UseInv, Records
<1>3. n \in DOMAIN data[b] /\ Last(data[b]) = last /\ last \in RecordType
  BY <1>1, <1>2 DEF Last
<1>4. /\ rs \in Seq(RecordType) /\ DOMAIN rs = DOMAIN data[b]
      /\ \A k \in DOMAIN data[b] : rs[k] = IF k = n THEN e ELSE data[b][k]
  BY <1>2, <1>3
<1> HIDE DEF rs
<1>5. /\ data' \in [0..BLOCK_NUM -> Seq(RecordType)] /\ data'[b] = rs
      /\ \A x \in (0..BLOCK_NUM) \ {b} : data'[x] = data[x]
  BY <1>1, <1>4, BlockChanged DEF UseInv
<1>6. last.rec_len >= EXT2_DIR_REC_LEN(tool.name) + e.rec_len
  BY <1>1, <1>2, <1>3 DEF HasRoom
<1> HIDE DEF last
<1>7. last.rec_len \in Nat /\ e.rec_len \in Nat /\ EXT2_DIR_REC_LEN(tool.name) \in Nat
  BY <1>3, RecordParts, RecLen, ToolParts DEF UseInv
<1> DEFINE rest == last.rec_len - e.rec_len
<1>8. rest \in Nat /\ rest >= EXT2_DIR_REC_LEN(tool.name)
  BY <1>6, <1>7
<1>9. tool' = [tool EXCEPT !.pc = "enter", !.at = b, !.rec = rest]
  BY <1>1
<1> HIDE DEF rest
<1>10. /\ tool' \in ToolType /\ tool'.pc = "enter" /\ tool'.op = tool.op /\ tool'.dir = tool.dir
       /\ tool'.name = tool.name /\ tool'.ino = tool.ino /\ tool'.at = b /\ tool'.rec = rest
  BY <1>8, <1>9 DEF UseInv, Typed, ToolType, Labels
<1> QED BY <1>3, <1>4, <1>5, <1>8, <1>10 DEF rest, last

LEMMA FindRoomUse ==
    ASSUME CountInv, UseInv, ~freed, tool.pc = "room", tool.op \in {"mkdir", "ln", "ln_s"}, FindRoom
    PROVE  UseInv'
<1>0. UNCHANGED <<inode_bitmap, block_bitmap, inode, freed>>
  BY Zenon DEF FindRoom, Bookkeeping
<1>2. /\ Ready /\ tool.dir \in Recorded(data) /\ tool.dir \in Inodes /\ inode[tool.dir].kind = "dir"
      /\ tool.name # NoName /\ (inode[tool.ino].kind = "dir" <=> tool.op = "mkdir")
  <2>1. Ready
    BY DEF Ready
  <2>2. /\ tool.dir \in Recorded(data) /\ inode[tool.dir].kind = "dir" /\ tool.name # NoName
        /\ (inode[tool.ino].kind = "dir" <=> tool.op = "mkdir")
    BY <2>1 DEF UseInv, ToolInv, Resting
  <2> QED BY <2>1, <2>2 DEF Recorded
<1>3. CASE tool' = [tool EXCEPT !.pc = "block", !.own = FALSE] /\ data' = data
  <2>1. /\ tool' \in ToolType /\ tool'.pc = "block" /\ tool'.own = FALSE /\ tool'.op = tool.op
        /\ tool'.dir = tool.dir /\ tool'.name = tool.name /\ tool'.ino = tool.ino
    BY <1>3 DEF UseInv, Typed, ToolType, Labels
  <2>2. Ready' /\ ~Own' /\ Growing'
    BY <2>1 DEF Ready, Own, Growing, Giving
  <2>3. Held' \subseteq Held
    BY <1>2, <1>3, <2>1, <2>2 DEF Held
  <2>4. ToolInv'
    BY <1>0, <1>2, <1>3, <2>1, <2>2 DEF ToolInv
  <2> QED BY <1>0, <1>3, <2>1, <2>3, <2>4, SameImage
<1>4. CASE Hang(tool.op) /\ data' = data
  BY <1>0, <1>4, HangUse
<1>5. CASE \E b \in 0..BLOCK_NUM : \E e \in RecordType : Cuts(b, e)
  <2>1. PICK b \in 0..BLOCK_NUM : \E e \in RecordType : Cuts(b, e)
    BY <1>5, Zenon
  <2>2. PICK e \in RecordType : Cuts(b, e)
    BY <2>1, Zenon
  <2> DEFINE n == Len(data[b])
  <2>3. /\ data[b] # <<>> /\ e.inode = data[b][n].inode /\ e.name = data[b][n].name
        /\ e.type = data[b][n].type
    BY <2>2 DEF Cuts
  <2>4. /\ data' \in [0..BLOCK_NUM -> Seq(RecordType)]
        /\ DOMAIN data'[b] = DOMAIN data[b]
        /\ \A k \in DOMAIN data[b] : data'[b][k] = IF k = n THEN e ELSE data[b][k]
        /\ \A x \in (0..BLOCK_NUM) \ {b} : data'[x] = data[x]
        /\ tool' \in ToolType /\ tool'.pc = "enter" /\ tool'.op = tool.op /\ tool'.dir = tool.dir
        /\ tool'.name = tool.name /\ tool'.ino = tool.ino /\ tool'.at = b
    BY <2>2, CutsRecords, Zenon
  <2> HIDE DEF n
  <2>14. ASSUME NEW x \in 0..BLOCK_NUM, NEW k \in DOMAIN data'[x]
         PROVE  /\ k \in DOMAIN data[x] /\ data'[x][k].inode = data[x][k].inode
                /\ data'[x][k].name = data[x][k].name /\ data'[x][k].type = data[x][k].type
    <3>1. CASE x = b
      BY <2>3, <2>4, <3>1
    <3>2. CASE x # b
      BY <2>4, <3>2
    <3> QED BY <3>1, <3>2
  <2>15. b \notin Blocks \ block_bitmap
    BY <2>3 DEF UseInv, ImageInv
  <2>16. \A x \in Blocks \ block_bitmap : data'[x] = <<>>
    <3> SUFFICES ASSUME NEW x \in Blocks \ block_bitmap PROVE data'[x] = <<>>
      OBVIOUS
    <3>1. data[x] = <<>> /\ x \in 0..BLOCK_NUM /\ x # b
      BY <2>15 DEF Blocks, UseInv, ImageInv
    <3> QED BY <2>4, <3>1
  <2>18. Ready' /\ ~Own' /\ ~Growing'
    BY <2>4 DEF Ready, Own, Growing, Giving
  <2>19. Typed' /\ ImageInv'
    <3>1. /\ InUse(Held, inode, inode_bitmap, block_bitmap) /\ Recorded(data) \cup {} \subseteq Held
          /\ tool'.ino \in Held
      BY <1>2, <2>4 DEF UseInv, ImageInv, Held
    <3>2. \A x \in 0..BLOCK_NUM : \A k \in DOMAIN data'[x] :
              \/ \E j \in DOMAIN data[x] :
                    /\ data'[x][k].inode = data[x][j].inode
                    /\ data'[x][k].name = data[x][j].name
                    /\ data'[x][k].type = data[x][j].type
              \/ Agrees(data'[x][k]) /\ data'[x][k].inode \in {} \cup {0}
      BY <2>14
    <3> QED BY <1>0, <2>4, <2>16, <3>1, <3>2, RecordsWritten
  <2>20. tool.dir \in Recorded(data)'
    <3>1. ASSUME NEW x \in 0..BLOCK_NUM, NEW j \in DOMAIN data[x]
          PROVE  \E k \in DOMAIN data'[x] : data'[x][k].inode = data[x][j].inode
      <4>1. j \in DOMAIN data'[x]
        BY <2>4
      <4> QED BY <2>14, <4>1
    <3> QED BY <1>2, <2>19, <3>1, RecordsKept DEF UseInv
  <2>21. ToolInv'
    BY <1>0, <1>2, <2>4, <2>15, <2>18, <2>20 DEF ToolInv
  <2> QED BY <1>0, <2>19, <2>21 DEF UseInv
<1> QED BY <1>3, <1>4, <1>5, FindRoomCuts, Zenon

LEMMA GrowSizeAdds ==
    ASSUME CountInv, UseInv, ~freed, tool.pc = "grow_size", NEW pc, GrowSize(pc)
    PROVE  LET d == tool.dir
               s == inode[d].size
           IN  /\ d \in Recorded(data) /\ d \in Inodes /\ d \in inode_bitmap /\ inode[d].kind = "dir"
               /\ s \in Nat /\ s < DIRECT /\ Unshared(tool.at)
               /\ \E i \in InodeType :
                     /\ Replaces(d, i)
                     /\ i.kind = "dir" /\ i.size = s + 1 /\ i.nblocks = s + 1
                     /\ i.i_block = inode[d].i_block
                     /\ inode'[d] = i /\ \A n \in Inodes \ {d} : inode'[n] = inode[n]
               /\ BlocksIn(inode', d) = BlocksIn(inode, d) \cup {tool.at}
<1> DEFINE d == tool.dir
           s == inode[d].size
           i == [inode[d] EXCEPT !.nblocks = @ + 1, !.size = @ + 1]
<1>1. inode' = [inode EXCEPT ![d] = i]
  BY DEF GrowSize
<1>2. Ready /\ Growing
  BY DEF Ready, Growing
<1>4. /\ d \in Recorded(data) /\ inode[d].kind = "dir"
      /\ s < DIRECT /\ inode[d].i_block[s] = tool.at /\ Unshared(tool.at)
  BY <1>2 DEF UseInv, ToolInv, Resting
<1>5. d \in Inodes /\ d \in inode_bitmap
  <2>1. d \in Held /\ InUse(Held, inode, inode_bitmap, block_bitmap)
    BY <1>4 DEF UseInv, ImageInv, Held
  <2> QED BY <2>1, MarkedAreInodes DEF InUse
<1>6. s \in Nat /\ inode[d].nblocks = s /\ inode[d] \in InodeType /\ DIRECT \in Nat
  BY <1>4, <1>5, InodeParts, Constants DEF UseInv, ImageInv, DirsDirect
<1>7. /\ i \in InodeType /\ i.kind = "dir" /\ i.size = s + 1 /\ i.nblocks = s + 1
      /\ i.i_block = inode[d].i_block
  <2>1. s + 1 \in 0..BLOCK_NUM
    BY <1>4, <1>6, Constants
  <2>2. i = [inode[d] EXCEPT !.nblocks = s + 1, !.size = s + 1]
    BY <1>6 DEF InodeType
  <2> HIDE DEF s
  <2>3. [inode[d] EXCEPT !.nblocks = s + 1, !.size = s + 1] \in InodeType
    BY <1>6, <2>1 DEF InodeType
  <2> QED BY <1>4, <1>6, <2>2, <2>3 DEF InodeType
<1> HIDE DEF i
<1>8. inode'[d] = i /\ \A n \in Inodes \ {d} : inode'[n] = inode[n]
  BY <1>1, <1>5, <1>7, InodeChanged DEF UseInv
<1> HIDE DEF s
<1>9. BlocksIn(inode', d) = BlocksIn(inode, d) \cup {tool.at}
  <2>1. s <= DIRECT /\ s + 1 \in Nat /\ s + 1 <= DIRECT
    BY <1>4, <1>6
  <2>2. BlocksIn(inode', d) = {inode'[d].i_block[k] : k \in 0..(s + 1) - 1} \ {0}
    BY <1>7, <1>8, <2>1, BlocksDirect
  <2>3. BlocksIn(inode, d) = {inode[d].i_block[k] : k \in 0..s - 1} \ {0}
    BY <1>6, <2>1, BlocksDirect
  <2>4. 0..(s + 1) - 1 = (0..s - 1) \cup {s}
    BY <1>6
  <2>5. tool.at # 0
    BY <1>4, MarkedAreInodes DEF Unshared, Blocks
  <2> QED BY <1>4, <1>7, <1>8, <2>2, <2>3, <2>4, <2>5
<1>10. Replaces(d, i)
  BY <1>1 DEF Replaces
<1> HIDE DEF d
<1> QED BY <1>4, <1>5, <1>6, <1>7, <1>8, <1>9, <1>10 DEF s, d

LEMMA GrowSizeUse ==
    ASSUME CountInv, UseInv, ~freed, tool.pc = "grow_size",
           NEW pc \in {"idle", "parent"}, GrowSize(pc)
    PROVE  UseInv'
<1> DEFINE d == tool.dir
           s == inode[d].size
<1>1. /\ UNCHANGED <<inode_bitmap, block_bitmap, data, freed>>
      /\ IF pc = "idle" THEN tool' = Idle ELSE tool' = [tool EXCEPT !.pc = "parent"]
  BY DEF GrowSize, Bookkeeping, Stop, Goto
<1>2. /\ tool' \in ToolType
      /\ \/ tool'.pc = "idle"
         \/ /\ tool'.pc = "parent" /\ tool'.op = tool.op /\ tool'.dir = tool.dir
            /\ tool'.name = tool.name /\ tool'.ino = tool.ino
  <2>1. CASE pc = "idle"
    BY <1>1, <2>1, IdleTyped
  <2>2. CASE pc = "parent"
    BY <1>1, <2>2, GotoTyped DEF UseInv, Labels
  <2> QED BY <2>1, <2>2
<1>3. ~Own' /\ ~Growing' /\ (Ready' => tool'.pc = "parent") /\ Ready /\ Growing
  BY <1>2 DEF Own, Ready, Growing, Giving
<1>4. /\ d \in Recorded(data) /\ d \in Inodes /\ d \in inode_bitmap /\ inode[d].kind = "dir"
      /\ s \in Nat /\ s < DIRECT /\ Unshared(tool.at)
      /\ BlocksIn(inode', d) = BlocksIn(inode, d) \cup {tool.at}
  BY GrowSizeAdds
<1>5. PICK i \in InodeType :
         /\ Replaces(d, i)
         /\ i.kind = "dir" /\ i.size = s + 1 /\ i.nblocks = s + 1
         /\ inode'[d] = i /\ \A n \in Inodes \ {d} : inode'[n] = inode[n]
  BY GrowSizeAdds
<1> HIDE DEF s
<1>6. tool.name # NoName /\ (inode[tool.ino].kind = "dir" <=> tool.op = "mkdir")
  BY <1>3 DEF UseInv, ToolInv, Resting
<1>7. /\ tool.ino \in Inodes /\ Held \subseteq Inodes
      /\ InUse(Held, inode, inode_bitmap, block_bitmap)
  <2>1. InUse(Held, inode, inode_bitmap, block_bitmap) /\ tool.ino \in Held
    BY <1>3 DEF UseInv, ImageInv, Held
  <2>2. Held \subseteq inode_bitmap
    BY <2>1 DEF InUse
  <2> QED BY <2>1, <2>2, MarkedAreInodes
<1>8. inode' \in [Inodes -> InodeType]
  BY <1>5, InodeChanged DEF UseInv, Typed, Replaces
<1>9. Held' \subseteq Held
  BY <1>1, <1>2, <1>3 DEF Held
<1>10. InUse(Held', inode', inode_bitmap', block_bitmap')
  <2>1. \A n \in Held : inode'[n].kind = inode[n].kind
    BY <1>4, <1>5, <1>7
  <2>2. \A n \in Held \ {d} : BlocksIn(inode', n) = BlocksIn(inode, n) /\ tool.at \notin BlocksIn(inode, n)
    BY <1>4, <1>5, <1>7, BlocksSame DEF Unshared, BlocksOf
  <2>3. tool.at \in block_bitmap
    BY <1>4 DEF Unshared
  <2>4. InUse(Held, inode', inode_bitmap, block_bitmap)
    BY <1>4, <1>7, <2>1, <2>2, <2>3, InUseMore
  <2> QED BY <1>1, <1>9, <2>4, InUseLike
<1>11. ImageInv'
  <2>1. i.kind = "dir" => i.size = i.nblocks /\ i.nblocks <= DIRECT
    <3>1. DIRECT \in Nat
      BY Constants
    <3> QED BY <1>4, <1>5, <3>1
  <2> QED BY <1>1, <1>4, <1>5, <1>10, <2>1, OneInode, MarkedAreInodes DEF Replaces
<1>12. ToolInv'
  <2>1. CASE tool'.pc = "idle"
    BY <2>1, Rests DEF Resting
  <2>2. CASE tool'.pc = "parent"
    <3>1. inode'[tool.dir].kind = "dir" /\ inode'[tool.ino].kind = inode[tool.ino].kind
      BY <1>4, <1>5, <1>7
    <3> QED BY <1>1, <1>2, <1>3, <1>4, <1>6, <2>2, <3>1 DEF ToolInv
  <2> QED BY <1>2, <2>1, <2>2
<1> QED BY <1>1, <1>2, <1>8, <1>11, <1>12 DEF UseInv, Typed

\* The kind and the blocks of every inode stay.
Alike == \A n \in Inodes : inode'[n].kind = inode[n].kind /\ BlocksIn(inode', n) = BlocksIn(inode, n)

LEMMA SameAlike == ASSUME inode' = inode PROVE Alike
BY DEF Alike

LEMMA FieldsAlike ==
    ASSUME \A n \in Inodes : /\ inode'[n].kind = inode[n].kind
                             /\ inode'[n].nblocks = inode[n].nblocks
                             /\ inode'[n].i_block = inode[n].i_block
    PROVE  Alike
BY BlocksSame DEF Alike

\* A link count goes up or down; it is an unsigned short.
LEMMA LinksUse ==
    ASSUME CountInv, UseInv, ~freed, ~freed', UNCHANGED <<inode_bitmap, block_bitmap, data>>,
           NEW m \in Inodes, NEW x \in Int, inode' = [inode EXCEPT ![m].links = UShort(x)],
           tool' \in ToolType, Held' \subseteq Held
    PROVE  Typed' /\ ImageInv' /\ \A n \in Inodes : inode'[n].kind = inode[n].kind
<1> DEFINE i == [inode[m] EXCEPT !.links = UShort(x)]
<1>1. InUse(Held, inode, inode_bitmap, block_bitmap)
  BY DEF UseInv, ImageInv
<1>2. Typed
  BY DEF UseInv
<1>3. /\ i \in InodeType /\ i.kind = inode[m].kind /\ i.size = inode[m].size
      /\ i.nblocks = inode[m].nblocks /\ i.i_block = inode[m].i_block
  <2>1. inode[m] \in InodeType /\ UShort(x) \in UShorts
    BY <1>2, InodeParts, UShortType
  <2> QED BY <2>1 DEF InodeType
<1>4. inode' = [inode EXCEPT ![m] = i]
  OBVIOUS
<1> HIDE DEF i
<1>5. /\ inode' \in [Inodes -> InodeType] /\ inode'[m] = i
      /\ \A n \in Inodes \ {m} : inode'[n] = inode[n]
  BY <1>2, <1>3, <1>4, InodeChanged
<1>6. \A n \in Inodes : /\ inode'[n].kind = inode[n].kind /\ inode'[n].size = inode[n].size
                        /\ inode'[n].nblocks = inode[n].nblocks /\ inode'[n].i_block = inode[n].i_block
  BY <1>3, <1>5
<1>7. InUse(Held', inode', inode_bitmap', block_bitmap')
  <2>1. Held \subseteq Inodes
    BY <1>1, MarkedAreInodes DEF InUse
  <2>2. Alike
    BY <1>6, FieldsAlike, Zenon
  <2>3. \A n \in Held : inode'[n].kind = inode[n].kind /\ BlocksIn(inode', n) = BlocksIn(inode, n)
    BY <2>1, <2>2 DEF Alike
  <2> QED BY <1>1, <2>3, InUseLike
<1>8. KindsAgree'
  <2> SUFFICES ASSUME NEW b \in 0..BLOCK_NUM, NEW k \in DOMAIN data[b], data[b][k].inode # 0
               PROVE  inode'[data[b][k].inode].kind = inode[data[b][k].inode].kind
    BY DEF UseInv, ImageInv, KindsAgree
  <2>1. data[b][k].inode \in Inodes
    BY <1>2, DataParts, RecordParts
  <2> QED BY <1>6, <2>1
<1>9. ImageInv'
  <2>1. \A n \in Inodes \ inode_bitmap' : Fresh(n)'
    BY <1>6 DEF UseInv, ImageInv, Fresh
  <2>2. DirsDirect' /\ inode'[EXT2_ROOT_INO].kind = "dir"
    BY <1>6, Constants DEF UseInv, ImageInv, DirsDirect
  <2> QED BY <1>7, <1>8, <2>1, <2>2 DEF UseInv, ImageInv
<1> QED BY <1>5, <1>6, <1>9 DEF UseInv, Typed

LEMMA LinkParentUse ==
    ASSUME CountInv, UseInv, ~freed, LinkParent
    PROVE  UseInv'
<1>1. /\ UNCHANGED <<inode_bitmap, block_bitmap, data, freed>> /\ tool.pc = "parent"
      /\ inode' = [inode EXCEPT ![tool.dir].links = UShort(inode[tool.dir].links + 1)]
      /\ tool' \in ToolType /\ tool'.pc = "idle"
  BY IdleTyped DEF LinkParent, At, Bookkeeping, Stop
<1>2. tool.dir \in Recorded(data) /\ tool.dir \in Held /\ tool.dir \in Inodes
  <2>1. tool.dir \in Recorded(data)
    BY <1>1 DEF UseInv, ToolInv, Resting
  <2> QED BY <2>1 DEF Held, Recorded
<1>3. inode[tool.dir].links + 1 \in Int
  BY <1>2, InodeParts DEF UseInv, UShorts
<1>4. ToolInv' /\ Held' \subseteq Held
  BY <1>1, Rests DEF Resting, Held
<1> QED BY <1>1, <1>2, <1>3, <1>4, LinksUse DEF UseInv

LEMMA CountLinkUse ==
    ASSUME CountInv, UseInv, ~freed, CountLink
    PROVE  UseInv'
<1>1. /\ UNCHANGED <<inode_bitmap, block_bitmap, data, freed>> /\ At("ln", "count")
      /\ inode' = [inode EXCEPT ![tool.ino].links = UShort(inode[tool.ino].links + 1)]
      /\ tool' = [tool EXCEPT !.pc = "check"]
  BY DEF CountLink, Bookkeeping, Goto
<1>2. /\ tool' \in ToolType /\ tool'.pc = "check" /\ tool'.op = "ln" /\ tool'.dir = tool.dir
      /\ tool'.name = tool.name /\ tool'.ino = tool.ino
  BY <1>1, GotoTyped DEF UseInv, Labels, At
<1>3. /\ tool.ino \in Recorded(data) /\ inode[tool.ino].kind # "dir" /\ tool.name # NoName
      /\ tool.dir \in Recorded(data) /\ inode[tool.dir].kind = "dir"
      /\ tool.ino \in Inodes /\ tool.dir \in Inodes /\ tool.ino \in Held
  <2>1. /\ tool.ino \in Recorded(data) /\ inode[tool.ino].kind # "dir" /\ tool.name # NoName
        /\ tool.dir \in Recorded(data) /\ inode[tool.dir].kind = "dir"
    BY <1>1 DEF At, UseInv, ToolInv, Resting
  <2> QED BY <2>1 DEF Held, Recorded
<1>4. inode[tool.ino].links + 1 \in Int
  BY <1>3, InodeParts DEF UseInv, UShorts
<1>5. ~Own' /\ ~Growing' /\ ~Ready'
  BY <1>2 DEF Own, Ready, Growing, Giving
<1>6. Held' \subseteq Held
  BY <1>1, <1>5 DEF Held
<1>7. Typed' /\ ImageInv' /\ \A n \in Inodes : inode'[n].kind = inode[n].kind
  BY <1>1, <1>2, <1>3, <1>4, <1>6, LinksUse
<1>8. ToolInv'
  BY <1>1, <1>2, <1>3, <1>5, <1>7 DEF ToolInv
<1> QED BY <1>1, <1>7, <1>8 DEF UseInv

LEMMA DropLinkUse ==
    ASSUME CountInv, UseInv, ~freed, DropLink
    PROVE  UseInv'
<1>1. /\ UNCHANGED <<inode_bitmap, block_bitmap, data, freed>> /\ At("rm", "drop")
      /\ inode' = [inode EXCEPT ![tool.ino].links = UShort(inode[tool.ino].links - 1)]
      /\ tool' = [tool EXCEPT !.pc = "free_inode"] \/ tool' = Idle
  BY DEF DropLink, Bookkeeping, Goto, Stop
<1>2. /\ tool' \in ToolType /\ tool'.pc \in Resting
  BY <1>1, GotoTyped, IdleTyped DEF UseInv, Labels, Resting
<1>3. ToolInv' /\ Held' \subseteq Held
  BY <1>1, <1>2, Rests DEF Held
<1>4. CASE tool.ino \in Inodes
  <2>1. inode[tool.ino].links - 1 \in Int
    BY <1>4, InodeParts DEF UseInv, UShorts
  <2> QED BY <1>1, <1>2, <1>3, <1>4, <2>1, LinksUse DEF UseInv
<1>5. CASE tool.ino \notin Inodes
  <2>1. inode' = inode
    BY <1>1, <1>5 DEF UseInv, Typed
  <2> QED BY <1>1, <1>2, <2>1, RestsUse
<1> QED BY <1>4, <1>5

LEMMA EmptySequence ==
    ASSUME NEW S, NEW s \in Seq(S), DOMAIN s = {}
    PROVE  s = <<>>
<1> DEFINE n == Len(s)
<1>1. n \in Nat /\ DOMAIN s = 1..n
  OBVIOUS
<1> HIDE DEF n
<1>2. n = 0
  BY <1>1
<1> QED BY <1>2 DEF n

\* rm leaves the record of the name it takes, with its length and nothing else.
LEMMA ClearsRecord ==
    ASSUME UseInv, ClearEntry
    PROVE  LET at == tool.at IN
           /\ at \in 0..BLOCK_NUM /\ data' \in [0..BLOCK_NUM -> Seq(RecordType)]
           /\ DOMAIN data'[at] = DOMAIN data[at]
           /\ \A k \in DOMAIN data[at] :
                 \/ data'[at][k] = data[at][k]
                 \/ /\ data'[at][k].inode = 0 /\ data'[at][k].name = NoName
                    /\ data'[at][k].rec_len = data[at][k].rec_len
           /\ \A b \in (0..BLOCK_NUM) \ {at} : data'[b] = data[b]
           /\ tool' \in ToolType /\ tool'.pc = "drop" /\ tool'.ino = tool.ino
<1> DEFINE at == tool.at
           i == SelectInSeq(data[at], LAMBDA e : e.name = tool.name)
           none == Record(0, NoName, "none", data[at][i].rec_len)
           rs == [data[at] EXCEPT ![i] = none]
<1>1. /\ data' = [data EXCEPT ![at][i] = none] /\ tool' = [tool EXCEPT !.pc = "drop"]
  BY DEF ClearEntry, Goto
<1>2. tool' \in ToolType /\ tool'.pc = "drop" /\ tool'.ino = tool.ino
  BY <1>1, GotoTyped DEF UseInv, Labels
<1>4. at \in 0..BLOCK_NUM /\ data[at] \in Seq(RecordType) /\ data' = [data EXCEPT ![at] = rs]
  BY <1>1, ToolParts, DataParts DEF UseInv
<1> HIDE DEF i
<1>5. i \in DOMAIN data[at] =>
         /\ none \in RecordType /\ none.inode = 0 /\ none.name = NoName
         /\ none.rec_len = data[at][i].rec_len
  <2> SUFFICES ASSUME i \in DOMAIN data[at]
               PROVE  /\ none \in RecordType /\ none.inode = 0 /\ none.name = NoName
                      /\ none.rec_len = data[at][i].rec_len
    OBVIOUS
  <2>1. data[at][i].rec_len \in Nat
    BY <1>4, DataParts, RecordParts DEF UseInv
  <2>2. 0 \in 0..INODE_NUM /\ NoName \in DOMAIN NameLen /\ "none" \in Kinds
    BY Constants DEF Kinds
  <2> QED BY <2>1, <2>2, RecordTyped
<1> HIDE DEF none
<1>6. /\ rs \in Seq(RecordType) /\ DOMAIN rs = DOMAIN data[at]
      /\ \A k \in DOMAIN data[at] : rs[k] = IF k = i THEN none ELSE data[at][k]
  <2>1. CASE i \in DOMAIN data[at]
    BY <1>4, <1>5, <2>1
  <2>2. CASE i \notin DOMAIN data[at]
    <3>1. rs = data[at]
      BY <1>4, <2>2
    <3> HIDE DEF rs
    <3> QED BY <1>4, <2>2, <3>1
  <2> QED BY <2>1, <2>2
<1> HIDE DEF rs
<1>7. /\ data' \in [0..BLOCK_NUM -> Seq(RecordType)] /\ data'[at] = rs
      /\ \A b \in (0..BLOCK_NUM) \ {at} : data'[b] = data[b]
  BY <1>4, <1>6, BlockChanged DEF UseInv
<1>8. \A k \in DOMAIN data[at] :
         \/ data'[at][k] = data[at][k]
         \/ /\ data'[at][k].inode = 0 /\ data'[at][k].name = NoName
            /\ data'[at][k].rec_len = data[at][k].rec_len
  BY <1>5, <1>6, <1>7
<1> QED BY <1>2, <1>4, <1>6, <1>7, <1>8

LEMMA ClearEntryUse ==
    ASSUME UseInv, ~freed, ClearEntry
    PROVE  UseInv'
<1> DEFINE at == tool.at
<1>1. UNCHANGED <<inode_bitmap, block_bitmap, inode, freed>>
  BY DEF ClearEntry, Bookkeeping
<1>2. /\ tool' \in ToolType /\ tool'.pc = "drop"
      /\ at \in 0..BLOCK_NUM /\ data' \in [0..BLOCK_NUM -> Seq(RecordType)]
      /\ DOMAIN data'[at] = DOMAIN data[at]
      /\ \A b \in (0..BLOCK_NUM) \ {at} : data'[b] = data[b]
  BY ClearsRecord
<1>3. ToolInv' /\ ~Ready'
  BY <1>2, Rests DEF Resting
<1>4. \A k \in DOMAIN data[at] : \/ data'[at][k] = data[at][k]
                                 \/ data'[at][k].inode = 0 /\ data'[at][k].name = NoName
  BY ClearsRecord
<1> HIDE DEF at
<1>8. ASSUME NEW b \in 0..BLOCK_NUM, NEW k \in DOMAIN data'[b]
      PROVE  \/ \E j \in DOMAIN data[b] :
                    /\ data'[b][k].inode = data[b][j].inode
                    /\ data'[b][k].name = data[b][j].name
                    /\ data'[b][k].type = data[b][j].type
             \/ Agrees(data'[b][k]) /\ data'[b][k].inode \in {} \cup {0}
  <2>1. CASE b = at /\ data'[b][k].inode = 0 /\ data'[b][k].name = NoName
    BY <2>1 DEF Agrees
  <2>2. CASE b # at \/ ~(data'[b][k].inode = 0 /\ data'[b][k].name = NoName)
    <3>1. k \in DOMAIN data[b] /\ data'[b][k] = data[b][k]
      BY <1>2, <1>4, <2>2
    <3> QED BY <3>1
  <2> QED BY <2>1, <2>2
<1>9. \A b \in Blocks \ block_bitmap : data'[b] = <<>>
  <2> SUFFICES ASSUME NEW b \in Blocks \ block_bitmap PROVE data'[b] = <<>>
    OBVIOUS
  <2>1. data[b] = <<>> /\ b \in 0..BLOCK_NUM
    BY DEF UseInv, ImageInv, Blocks
  <2>2. DOMAIN data'[b] = {} /\ data'[b] \in Seq(RecordType)
    BY <1>2, <2>1
  <2> QED BY <2>2, EmptySequence
<1>10. Typed' /\ ImageInv'
  <2>1. InUse(Held, inode, inode_bitmap, block_bitmap) /\ Recorded(data) \cup {} \subseteq Held
    BY DEF UseInv, ImageInv, Held
  <2> QED BY <1>1, <1>2, <1>3, <1>8, <1>9, <2>1, RecordsWritten
<1> QED BY <1>1, <1>3, <1>10 DEF UseInv

\* What a tool finds before its first store: directories that are recorded,
\* and names of files with their inodes.
LEMMA FoundDirectory ==
    ASSUME UseInv, ~freed, NEW path \in Seq(Given)
    PROVE  LET n == find_dir_inode(path) IN
           /\ n \in Int
           /\ n >= 0 => n \in Recorded(data) /\ n \in Inodes /\ inode[n].kind = "dir"
<1>1. find_dir_inode(path) \in Found
  BY FindsDirectory DEF UseInv, ImageInv
<1> DEFINE n == find_dir_inode(path)
<1>2. CASE n \in {NoRecord.inode, Endless.inode, NotADirectory}
  <2>1. n \in {-1, -2, -3}
    BY <1>2, FoundParts
  <2> HIDE DEF n
  <2>2. n \in Int /\ ~(n >= 0)
    BY <2>1
  <2> QED BY <2>2 DEF n
<1>3. CASE n \in Recorded(data) /\ inode[n].kind = "dir"
  <2>1. n \in Inodes
    BY <1>3 DEF Recorded
  <2>2. n \in Int
    BY <2>1 DEF Inodes
  <2> QED BY <1>3, <2>1, <2>2
<1> QED BY <1>1, <1>2, <1>3 DEF Found

LEMMA FoundRecord ==
    ASSUME UseInv, ~freed, NEW d \in Inodes, inode[d].kind = "dir", NEW name \in Given
    PROVE  LET e == Scan(DirBlocks(d), name) IN
           /\ e.inode \in Int
           /\ e.inode > 0 => /\ e.inode \in Recorded(data) /\ e.inode \in Inodes
                             /\ e.type = "dir" <=> inode[e.inode].kind = "dir"
<1>1. DirBlocks(d) \in Seq(Int) /\ name # NoName
  BY DirectoryBlocks DEF Given
<1>2. LET e == Scan(DirBlocks(d), name) IN
           \/ e \in {NoRecord, Endless}
           \/ /\ e.inode \in Recorded(data) /\ e.inode \in Inodes /\ e.type \in Kinds \ {"none"}
              /\ e.type = "dir" <=> inode[e.inode].kind = "dir"
  BY <1>1, ScanInode DEF UseInv, ImageInv
<1> DEFINE e == Scan(DirBlocks(d), name)
<1>3. CASE e \in {NoRecord, Endless}
  <2>1. e.inode \in {-1, -2}
    BY <1>3, FoundParts
  <2> HIDE DEF e
  <2>2. e.inode \in Int /\ ~(e.inode > 0)
    BY <2>1
  <2> QED BY <2>2 DEF e
<1>4. CASE e \notin {NoRecord, Endless}
  <2>1. e.inode \in Int
    <3>1. e.inode \in Inodes
      BY <1>2, <1>4
    <3> QED BY <3>1 DEF Inodes
  <2> QED BY <1>2, <1>4, <2>1
<1> QED BY <1>3, <1>4

LEMMA GivenNames == Given \subseteq DOMAIN NameLen /\ NoName \notin Given
BY DEF Given

LEMMA Starting == Starts => ~freed /\ UNCHANGED freed /\ tool = Idle
BY DEF Starts

LEMMA MkdirStartsUse == ASSUME UseInv, MkdirStarts PROVE UseInv'
<1>1. PICK r \in {q \in Requests : q.op = "mkdir"} :
         /\ Starts /\ UNCHANGED image
         /\ \/ Hang("mkdir")
            \/ /\ find_dir_inode(r.dir) > 0
               /\ tool' = [Idle EXCEPT !.op = "mkdir", !.pc = "inode",
                                       !.dir = find_dir_inode(r.dir), !.name = r.name]
  BY Zenon DEF MkdirStarts
<1>2. /\ ~freed /\ UNCHANGED <<inode_bitmap, block_bitmap, inode, data, freed>>
      /\ r.dir \in Seq(Given) /\ r.name \in Given
  BY <1>1, Starting, RequestsAssumption DEF image
<1>3. CASE Hang("mkdir")
  BY <1>2, <1>3, HangUse
<1> DEFINE d == find_dir_inode(r.dir)
<1>4. CASE /\ d > 0
           /\ tool' = [Idle EXCEPT !.op = "mkdir", !.pc = "inode", !.dir = d, !.name = r.name]
  <2>1. d \in Recorded(data) /\ d \in Inodes /\ inode[d].kind = "dir"
    BY <1>2, <1>4, FoundDirectory
  <2> HIDE DEF d
  <2>2. /\ tool' \in ToolType /\ tool'.pc = "inode" /\ tool'.op = "mkdir" /\ tool'.dir = d
        /\ tool'.name # NoName
    <3>1. d \in 0..INODE_NUM /\ r.name \in DOMAIN NameLen /\ r.name # NoName
      BY <1>2, <2>1, GivenNames DEF Inodes
    <3> QED BY <1>4, <3>1, IdleTyped DEF ToolType, Labels
  <2>3. ~Own' /\ ~Growing' /\ ~Ready'
    BY <2>2 DEF Own, Ready, Growing, Giving
  <2>4. Held' \subseteq Held
    BY <1>2, <2>3 DEF Held
  <2>5. ToolInv'
    BY <1>2, <2>1, <2>2, <2>3 DEF ToolInv
  <2> QED BY <1>2, <2>2, <2>4, <2>5, SameImage
<1> QED BY <1>1, <1>3, <1>4

LEMMA LnStartsUse == ASSUME UseInv, LnStarts PROVE UseInv'
<1>1. PICK r \in {q \in Requests : q.op \in {"ln", "ln_s"}} :
        LET target == find_dir_inode(r.dir)
            source == IF target < 0 THEN target ELSE find_dir_inode(r.from)
            found == IF source < 0 THEN Record(source, NoName, "none", 0)
                     ELSE Scan(DirBlocks(source), r.of)
        IN  /\ Starts /\ UNCHANGED image
            /\ \/ Hang(r.op)
               \/ /\ found.inode > 0
                  /\ found.type # "dir"
                  /\ tool' = [Idle EXCEPT
                                !.op = r.op, !.dir = target, !.name = r.name,
                                !.pc = IF r.op = "ln" THEN "count" ELSE "check",
                                !.ino = found.inode]
  BY Zenon DEF LnStarts
<1> DEFINE target == find_dir_inode(r.dir)
           source == IF target < 0 THEN target ELSE find_dir_inode(r.from)
           found == IF source < 0 THEN Record(source, NoName, "none", 0)
                    ELSE Scan(DirBlocks(source), r.of)
           pc == IF r.op = "ln" THEN "count" ELSE "check"
<1>2. /\ ~freed /\ UNCHANGED <<inode_bitmap, block_bitmap, inode, data, freed>>
      /\ r.dir \in Seq(Given) /\ r.name \in Given /\ r.from \in Seq(Given) /\ r.of \in Given
      /\ r.op \in {"ln", "ln_s"}
  BY <1>1, Starting, RequestsAssumption DEF image
<1>3. CASE Hang(r.op)
  BY <1>2, <1>3, HangUse
<1>4. CASE /\ found.inode > 0 /\ found.type # "dir"
           /\ tool' = [Idle EXCEPT !.op = r.op, !.dir = target, !.name = r.name, !.pc = pc,
                                   !.ino = found.inode]
  <2>1. /\ target \in Int
        /\ target >= 0 => target \in Recorded(data) /\ target \in Inodes /\ inode[target].kind = "dir"
    BY <1>2, FoundDirectory
  <2> HIDE DEF target
  <2>2. /\ source \in Int
        /\ source >= 0 => source \in Inodes /\ inode[source].kind = "dir" /\ target >= 0
    BY <1>2, <2>1, FoundDirectory
  <2> HIDE DEF source
  <2>3. source >= 0
    BY <1>4, <2>2 DEF Record
  <2>4. found = Scan(DirBlocks(source), r.of)
    BY <2>2, <2>3
  <2> HIDE DEF found
  <2>5. found.inode \in Recorded(data) /\ found.inode \in Inodes /\ inode[found.inode].kind # "dir"
    BY <1>2, <1>4, <2>2, <2>3, <2>4, FoundRecord
  <2>6. /\ tool' \in ToolType /\ tool'.pc = pc /\ tool'.op = r.op /\ tool'.dir = target
        /\ tool'.name # NoName /\ tool'.ino = found.inode
    <3>1. /\ target \in 0..INODE_NUM /\ found.inode \in 0..INODE_NUM /\ r.name \in DOMAIN NameLen
          /\ r.op \in {"none", "mkdir", "ln", "ln_s", "rm"} /\ pc \in Labels /\ r.name # NoName
      BY <1>2, <2>1, <2>2, <2>3, <2>5, GivenNames DEF Inodes, Labels
    <3> HIDE DEF pc
    <3> QED BY <1>4, <3>1, IdleTyped DEF ToolType
  <2>7. ~Own' /\ ~Growing' /\ ~Ready' /\ tool'.pc \in {"count", "check"}
    BY <2>6 DEF Own, Ready, Growing, Giving
  <2>8. Held' \subseteq Held
    BY <1>2, <2>7 DEF Held
  <2>9. ToolInv'
    BY <1>2, <2>1, <2>2, <2>3, <2>5, <2>6, <2>7 DEF ToolInv
  <2> QED BY <1>2, <2>6, <2>8, <2>9, SameImage
<1> QED BY <1>1, <1>3, <1>4

\* The block that rm takes the record from is one of the directory.
LEMMA NamingBlock ==
    ASSUME UseInv, ~freed, NEW d \in Inodes, inode[d].kind = "dir", NEW name,
           Scan(DirBlocks(d), name).inode > 0
    PROVE  LET b == BlockNaming(d, name)
               i == FirstOf(data[b], name)
           IN  /\ b \in 0..BLOCK_NUM /\ i \in DOMAIN data[b]
               /\ Scan(DirBlocks(d), name) = data[b][i]
<1> DEFINE bs == DirBlocks(d)
           I == {j \in 1..Len(bs) : \E e \in ToSet(Records(bs[j])) : e.name = name}
<1>1. /\ bs \in Seq(Int) /\ Len(bs) \in Nat /\ Len(bs) = inode[d].size
      /\ \A j \in 1..Len(bs) : bs[j] \in 0..BLOCK_NUM
  BY DirectoryBlocks
<1>2. BlockNaming(d, name) = bs[IF I # {} THEN Min(I) ELSE 0]
  BY Zenon DEF BlockNaming, SelectInSeq
<1> HIDE DEF bs
<1>3. Scan(bs, name) \notin {NoRecord, Endless}
  <2>1. Scan(bs, name).inode > 0
    BY DEF bs
  <2>2. ~(NoRecord.inode > 0) /\ ~(Endless.inode > 0)
    BY FoundParts
  <2> QED BY <2>1, <2>2
<1>4. PICK k, i : IsFirst(bs, name, k, i)
  BY <1>1, <1>3, ScanResult, Zenon DEF UseInv
<1>5. /\ k \in 1..Len(bs) /\ NamedIn(bs[k], name)
      /\ \A j \in 1..Len(bs) : NamedIn(bs[j], name) => k <= j
      /\ i \in DOMAIN data[bs[k]] /\ i = FirstOf(data[bs[k]], name)
      /\ Scan(bs, name) = data[bs[k]][i]
  BY <1>4, Zenon DEF IsFirst
<1>6. k \in I /\ \A j \in I : k <= j
  BY <1>5, Zenon DEF NamedIn
<1>7. I \subseteq Nat /\ I \subseteq 1..Len(bs)
  BY <1>1
<1> HIDE DEF I
<1>8. Min(I) \in I /\ \A j \in I : Min(I) <= j
  BY <1>6, <1>7, LeastIs
<1>9. Min(I) = k
  <2>1. Min(I) \in Nat /\ k \in Nat
    BY <1>6, <1>7, <1>8, Zenon
  <2>2. Min(I) <= k /\ k <= Min(I)
    BY <1>6, <1>8, Zenon
  <2> QED BY <2>1, <2>2
<1>10. BlockNaming(d, name) = bs[k]
  BY <1>2, <1>6, <1>9
<1> QED BY <1>1, <1>5, <1>10 DEF bs

\* rm finds a name of a file before its first store.
LEMMA RmFinds ==
    ASSUME UseInv, RmStarts
    PROVE  /\ ~freed /\ UNCHANGED <<inode_bitmap, block_bitmap, inode, data, freed>>
           /\ \/ Hang("rm")
              \/ /\ tool' \in ToolType /\ tool'.pc = "clear" /\ tool'.op = "rm"
                 /\ tool'.ino \in Inodes /\ tool'.name # NoName
                 /\ tool'.dir \in Recorded(data) /\ inode[tool'.dir].kind = "dir"
<1>1. PICK r \in {q \in Requests : q.op = "rm"} :
        LET parent == find_dir_inode(r.dir)
            found == IF parent < 0 THEN Record(parent, NoName, "none", 0)
                     ELSE Scan(DirBlocks(parent), r.name)
        IN  /\ Starts /\ UNCHANGED image
            /\ \/ Hang("rm")
               \/ /\ found.inode > 0
                  /\ tool' = [Idle EXCEPT
                                !.op = "rm", !.pc = "clear", !.dir = parent,
                                !.name = r.name, !.ino = found.inode,
                                !.at = BlockNaming(parent, r.name)]
  BY Zenon DEF RmStarts
<1> DEFINE parent == find_dir_inode(r.dir)
           found == IF parent < 0 THEN Record(parent, NoName, "none", 0)
                    ELSE Scan(DirBlocks(parent), r.name)
           at == BlockNaming(parent, r.name)
<1>2. /\ ~freed /\ UNCHANGED <<inode_bitmap, block_bitmap, inode, data, freed>>
      /\ r.dir \in Seq(Given) /\ r.name \in Given
  BY <1>1, Starting, RequestsAssumption DEF image
<1>3. CASE Hang("rm")
  BY <1>2, <1>3
<1>4. CASE /\ found.inode > 0
           /\ tool' = [Idle EXCEPT !.op = "rm", !.pc = "clear", !.dir = parent, !.name = r.name,
                                   !.ino = found.inode, !.at = at]
  <2>1. /\ parent \in Int
        /\ parent >= 0 => parent \in Recorded(data) /\ parent \in Inodes /\ inode[parent].kind = "dir"
    BY <1>2, FoundDirectory
  <2> HIDE DEF parent
  <2>2. parent >= 0
    BY <1>4, <2>1 DEF Record
  <2>3. found = Scan(DirBlocks(parent), r.name)
    BY <2>1, <2>2
  <2> HIDE DEF found
  <2>4. found.inode \in Inodes
    BY <1>2, <1>4, <2>1, <2>2, <2>3, FoundRecord
  <2>5. at \in 0..BLOCK_NUM
    BY <1>2, <1>4, <2>1, <2>2, <2>3, NamingBlock
  <2> HIDE DEF at
  <2>6. /\ tool' \in ToolType /\ tool'.pc = "clear" /\ tool'.op = "rm" /\ tool'.dir = parent
        /\ tool'.name # NoName /\ tool'.ino = found.inode
    <3>1. /\ parent \in 0..INODE_NUM /\ found.inode \in 0..INODE_NUM
          /\ r.name \in DOMAIN NameLen /\ r.name # NoName
      BY <1>2, <2>1, <2>2, <2>4, GivenNames DEF Inodes
    <3> QED BY <1>4, <2>5, <3>1, IdleTyped DEF ToolType, Labels
  <2> QED BY <1>2, <2>1, <2>2, <2>4, <2>6
<1> QED BY <1>1, <1>3, <1>4

LEMMA RmStartsUse == ASSUME UseInv, RmStarts PROVE UseInv'
<1>1. /\ ~freed /\ UNCHANGED <<inode_bitmap, block_bitmap, inode, data, freed>>
      /\ \/ Hang("rm")
         \/ /\ tool' \in ToolType /\ tool'.pc = "clear" /\ tool'.op = "rm" /\ tool'.name # NoName
            /\ tool'.dir \in Recorded(data) /\ inode[tool'.dir].kind = "dir"
  BY RmFinds
<1>2. CASE Hang("rm")
  BY <1>1, <1>2, HangUse
<1>3. CASE ~Hang("rm")
  <2>1. ~Own' /\ ~Growing' /\ ~Ready'
    BY <1>1, <1>3 DEF Own, Ready, Growing, Giving
  <2>2. Held' \subseteq Held
    BY <1>1, <2>1 DEF Held
  <2>3. ToolInv'
    BY <1>1, <1>3, <2>1 DEF ToolInv
  <2> QED BY <1>1, <1>3, <2>2, <2>3, SameImage
<1> QED BY <1>2, <1>3

LEMMA CheckTargetUse == ASSUME UseInv, ~freed, CheckTarget PROVE UseInv'
<1> DEFINE pc == IF tool.op = "ln" THEN "room" ELSE "inode"
<1>1. /\ UNCHANGED <<inode_bitmap, block_bitmap, inode, data, freed>>
      /\ tool.op \in {"ln", "ln_s"} /\ tool.pc = "check"
      /\ Hang(tool.op) \/ tool' = Idle \/ tool' = [tool EXCEPT !.pc = pc]
  BY DEF CheckTarget, Linking, Stop, Goto, image, Bookkeeping
<1>2. CASE Hang(tool.op)
  BY <1>1, <1>2, HangUse
<1>3. CASE tool' = Idle
  BY <1>1, <1>3, StopUse
<1>4. CASE tool' = [tool EXCEPT !.pc = pc]
  <2>1. pc \in Labels
    BY DEF Labels
  <2> HIDE DEF pc
  <2>2. /\ tool' \in ToolType /\ tool'.pc = pc /\ tool'.op = tool.op /\ tool'.dir = tool.dir
        /\ tool'.name = tool.name /\ tool'.ino = tool.ino
    BY <1>4, <2>1, GotoTyped DEF UseInv
  <2>3. ~Own' /\ ~Growing' /\ (Ready' <=> tool.op = "ln")
    BY <1>1, <2>2 DEF Own, Ready, Growing, Giving, pc
  <2>4. /\ tool.dir \in Recorded(data) /\ inode[tool.dir].kind = "dir" /\ tool.name # NoName
        /\ tool.op = "ln" => tool.ino \in Recorded(data) /\ inode[tool.ino].kind # "dir"
    BY <1>1 DEF UseInv, ToolInv, Resting
  <2>5. Held' \subseteq Held
    BY <1>1, <2>2, <2>3, <2>4 DEF Held
  <2>6. ToolInv'
    BY <1>1, <2>2, <2>3, <2>4 DEF ToolInv, pc
  <2> QED BY <1>1, <2>2, <2>5, <2>6, SameImage
<1> QED BY <1>1, <1>2, <1>3, <1>4

-----------------------------------------------------------------------------
(* rm gives an inode and its blocks back.                                  *)

LEMMA FreeInodeUse == ASSUME UseInv, FreeInode PROVE UseInv'
<1>1. /\ UNCHANGED <<inode, data>> /\ freed'
      /\ tool' = [tool EXCEPT !.pc = "free_block", !.rec = 0]
  BY DEF FreeInode
<1>2. tool' \in ToolType /\ tool'.pc = "free_block"
  BY <1>1 DEF UseInv, Typed, ToolType, Labels
<1> QED BY <1>1, <1>2 DEF UseInv, Typed, Freeing

LEMMA FreeBlocksUse ==
    ASSUME UseInv, freed, tool.pc \in Freeing, NEW n, NEW blocks, NEW next \in ToolType,
           next.pc \in Freeing \cup {"idle"}, FreeBlocks(n, blocks, next)
    PROVE  UseInv'
<1>1. /\ UNCHANGED <<inode, data, freed>>
      /\ tool' = [tool EXCEPT !.rec = tool.rec + 1] \/ tool' = next
  BY DEF FreeBlocks, Bookkeeping
<1>2. tool' \in ToolType /\ tool'.pc \in Freeing \cup {"idle"}
  <2>1. CASE tool' = [tool EXCEPT !.rec = tool.rec + 1]
    <3> DEFINE x == tool.rec + 1
    <3>1. x \in Nat
      BY ToolParts DEF UseInv
    <3> HIDE DEF x
    <3>2. tool' = [tool EXCEPT !.rec = x]
      BY <2>1 DEF x
    <3> QED BY <3>1, <3>2 DEF UseInv, Typed, ToolType
  <2> QED BY <1>1, <2>1
<1> QED BY <1>1, <1>2 DEF UseInv, Typed

LEMMA FreeBlockUse == ASSUME UseInv, freed, FreeBlock PROVE UseInv'
<1> DEFINE next == IF inode[tool.ino].nblocks > DIRECT
                   THEN [tool EXCEPT !.pc = "free_indirect", !.rec = 0] ELSE Idle
<1>1. /\ tool.pc = "free_block"
      /\ FreeBlocks(Min({DIRECT, inode[tool.ino].nblocks}), inode[tool.ino].i_block, next)
  BY DEF FreeBlock, At
<1>2. next \in ToolType /\ next.pc \in Freeing \cup {"idle"}
  <2>1. [tool EXCEPT !.pc = "free_indirect", !.rec = 0] \in ToolType
    BY DEF UseInv, Typed, ToolType, Labels
  <2>2. [tool EXCEPT !.pc = "free_indirect", !.rec = 0].pc = "free_indirect"
    BY DEF UseInv, Typed, ToolType
  <2> QED BY <2>1, <2>2, IdleTyped DEF Freeing
<1> HIDE DEF next
<1> QED BY <1>1, <1>2, FreeBlocksUse DEF Freeing

LEMMA FreeIndirectUse == ASSUME UseInv, freed, FreeIndirect PROVE UseInv'
<1>1. /\ tool.pc = "free_indirect"
      /\ LET n == inode[tool.ino].nblocks - DIRECT
         IN  FreeBlocks(n, [i \in 0..n - 1 |-> Pointer(inode[tool.ino].i_block[DIRECT], 8 * i)], Idle)
  BY DEF FreeIndirect, At
<1> QED BY <1>1, IdleTyped, FreeBlocksUse, Zenon DEF Freeing

LEMMA InitUse == Init => UseInv
<1> SUFFICES ASSUME Init PROVE UseInv
  OBVIOUS
<1>1. /\ inode_bitmap = FirstImage.inode_bitmap /\ block_bitmap = FirstImage.block_bitmap
      /\ inode = FirstImage.inode /\ data = FirstImage.data /\ tool = Idle /\ freed = FALSE
  BY DEF Init
<1>2. /\ inode \in [Inodes -> InodeType] /\ data \in [0..BLOCK_NUM -> Seq(RecordType)]
      /\ inode[EXT2_ROOT_INO].kind = "dir"
      /\ InUse(Recorded(data), inode, inode_bitmap, block_bitmap)
      /\ \A n \in Inodes \ inode_bitmap : Fresh(n)
      /\ \A b \in Blocks \ block_bitmap : data[b] = <<>>
      /\ DirsDirect
  BY <1>1, FirstImageAssumption, Zenon DEF Fresh, DirsDirect
<1>3. KindsAgree
  <2>1. \A b \in 0..BLOCK_NUM : \A e \in ToSet(data[b]) :
          IF e.inode = 0 THEN e.name = NoName
          ELSE /\ e.type # "none"
               /\ e.type = "dir" <=> inode[e.inode].kind = "dir"
    BY <1>1, FirstImageAssumption, Zenon
  <2> QED BY <2>1 DEF KindsAgree, ToSet
<1>4. tool \in ToolType /\ tool.pc = "idle"
  BY <1>1, IdleTyped
<1>5. ~Ready /\ ~Own /\ ~Growing
  BY <1>4 DEF Ready, Own, Growing, Giving
<1>6. Held = Recorded(data)
  BY <1>5 DEF Held
<1>7. ToolInv
  BY <1>4, <1>5 DEF ToolInv, Resting
<1> QED BY <1>1, <1>2, <1>3, <1>4, <1>6, <1>7 DEF UseInv, Typed, ImageInv

LEMMA MkdirUse == ASSUME CountInv, UseInv, Roomy, Mkdir PROVE UseInv'
<1>1. CASE MkdirStarts
  BY <1>1, MkdirStartsUse
<1>2. SUFFICES ASSUME ~MkdirStarts PROVE UseInv'
  BY <1>1
<1>3. tool.op = "mkdir" /\ tool.pc \notin Freeing \cup {"idle"}
  BY <1>2 DEF Mkdir, MkdirCountInode, MkdirMarkInode, MkdirSetInode, MkdirAssignBlock,
              MkdirMarkBlock, MkdirCountBlock, Fill, MkdirFindRoom, MkdirEnter, MkdirGrow,
              MkdirGrowSize, LinkParent, At, Freeing
<1>4. ~freed
  BY <1>3 DEF UseInv
<1>5. TypeGiven("dir")
  BY <1>3 DEF TypeGiven, Kinds
<1>6. CASE MkdirCountInode
  BY <1>4, <1>6, CountInodeUse DEF MkdirCountInode, At
<1>7. CASE MkdirMarkInode
  BY <1>4, <1>7, MarkInodeUse DEF MkdirMarkInode, At
<1>8. CASE MkdirSetInode
  <2>1. /\ tool.pc = "set_inode" /\ SetInode("dir", 1, 2) /\ 2 \in {1, 2}
        /\ <<"dir", 1, tool.op>> \in {<<"dir", 1, "mkdir">>, <<"symlink", 0, "ln_s">>}
    BY <1>3, <1>8 DEF MkdirSetInode, At
  <2> QED BY <1>4, <2>1, SetInodeUse
<1>9. CASE MkdirAssignBlock
  BY <1>4, <1>9, AssignBlockUse DEF MkdirAssignBlock, At
<1>10. CASE MkdirMarkBlock
  BY <1>4, <1>10, MarkBlockUse DEF MkdirMarkBlock, At
<1>11. CASE MkdirCountBlock
  BY <1>4, <1>11, CountBlockUse DEF MkdirCountBlock, At
<1>12. CASE Fill
  BY <1>4, <1>12, FillUse
<1>13. CASE MkdirFindRoom
  BY <1>3, <1>4, <1>13, FindRoomUse DEF MkdirFindRoom, At
<1>14. CASE MkdirEnter
  BY <1>4, <1>5, <1>14, EnterRecordUse DEF MkdirEnter, At
<1>15. CASE MkdirGrow
  BY <1>4, <1>5, <1>15, GrowRecordUse DEF MkdirGrow, At
<1>16. CASE MkdirGrowSize
  BY <1>4, <1>16, GrowSizeUse DEF MkdirGrowSize, At
<1>17. CASE LinkParent
  BY <1>4, <1>17, LinkParentUse
<1> QED BY <1>2, <1>6, <1>7, <1>8, <1>9, <1>10, <1>11, <1>12, <1>13, <1>14, <1>15, <1>16, <1>17
        DEF Mkdir

LEMMA LnUse == ASSUME CountInv, UseInv, Roomy, Ln PROVE UseInv'
<1>1. CASE LnStarts
  BY <1>1, LnStartsUse
<1>2. SUFFICES ASSUME ~LnStarts PROVE UseInv'
  BY <1>1
<1>3. tool.op \in {"ln", "ln_s"} /\ tool.pc \notin Freeing \cup {"idle"}
  BY <1>2 DEF Ln, CountLink, CheckTarget, LnCountInode, LnMarkInode, LnSetInode, LnAssignBlock,
              LnMarkBlock, LnCountBlock, WriteTarget, LnFindRoom, LnEnter, LnGrow, LnGrowSize,
              At, Linking, Freeing
<1>4. ~freed
  BY <1>3 DEF UseInv
<1>5. TypeGiven(LinkType)
  BY <1>3 DEF TypeGiven, LinkType, Kinds
<1>6. CASE CountLink
  BY <1>4, <1>6, CountLinkUse
<1>7. CASE CheckTarget
  BY <1>4, <1>7, CheckTargetUse
<1>8. CASE LnCountInode
  BY <1>4, <1>8, CountInodeUse DEF LnCountInode, At
<1>9. CASE LnMarkInode
  BY <1>4, <1>9, MarkInodeUse DEF LnMarkInode, At
<1>10. CASE LnSetInode
  <2>1. /\ tool.pc = "set_inode" /\ SetInode("symlink", 0, 1) /\ 1 \in {1, 2}
        /\ <<"symlink", 0, tool.op>> \in {<<"dir", 1, "mkdir">>, <<"symlink", 0, "ln_s">>}
    BY <1>10 DEF LnSetInode, At
  <2> QED BY <1>4, <2>1, SetInodeUse
<1>11. CASE LnAssignBlock
  BY <1>4, <1>11, AssignBlockUse DEF LnAssignBlock, Linking
<1>12. CASE LnMarkBlock
  BY <1>4, <1>12, MarkBlockUse DEF LnMarkBlock, Linking
<1>13. CASE LnCountBlock
  BY <1>4, <1>13, CountBlockUse DEF LnCountBlock, Linking
<1>14. CASE WriteTarget
  BY <1>4, <1>14, WriteTargetUse
<1>15. CASE LnFindRoom
  BY <1>3, <1>4, <1>15, FindRoomUse DEF LnFindRoom, Linking
<1>16. CASE LnEnter
  BY <1>4, <1>5, <1>16, EnterRecordUse DEF LnEnter, Linking
<1>17. CASE LnGrow
  BY <1>4, <1>5, <1>17, GrowRecordUse DEF LnGrow, Linking
<1>18. CASE LnGrowSize
  BY <1>4, <1>18, GrowSizeUse DEF LnGrowSize, Linking
<1> QED BY <1>2, <1>6, <1>7, <1>8, <1>9, <1>10, <1>11, <1>12, <1>13, <1>14, <1>15, <1>16, <1>17,
           <1>18 DEF Ln

LEMMA RmUse == ASSUME CountInv, UseInv, Rm PROVE UseInv'
<1>1. CASE RmStarts
  BY <1>1, RmStartsUse
<1>2. CASE ClearEntry
  BY <1>2, ClearEntryUse DEF ClearEntry, At, UseInv, Freeing
<1>3. CASE DropLink
  BY <1>3, DropLinkUse DEF DropLink, At, UseInv, Freeing
<1>4. CASE FreeInode
  BY <1>4, FreeInodeUse
<1>5. CASE FreeBlock
  BY <1>5, FreeBlockUse DEF FreeBlock, At, CountInv, Freeing
<1>6. CASE FreeIndirect
  BY <1>6, FreeIndirectUse DEF FreeIndirect, At, CountInv, Freeing
<1> QED BY <1>1, <1>2, <1>3, <1>4, <1>5, <1>6 DEF Rm

LEMMA StepUse == ASSUME CountInv, UseInv, Roomy, [Next]_vars PROVE UseInv'
<1>1. CASE Mkdir \/ Ln \/ Rm
  BY <1>1, MkdirUse, LnUse, RmUse
<1>2. CASE Killed
  BY <1>2, StopUse DEF Killed, Stop, image
<1>3. CASE UNCHANGED vars
  BY <1>3 DEF vars, image, UseInv, Typed, ImageInv, ToolInv, Fresh, DirsDirect, KindsAgree, Held,
              Ready, Own, Growing, Made, Unshared, BlocksOf
<1> QED BY <1>1, <1>2, <1>3 DEF Next

\* What is in reach within i steps, over any set V closed under one step.
IsClosed(V) == EXT2_ROOT_INO \in V /\ \A n \in V : \A e \in NamedBy(n) : e.inode \in V
Wider(ns) == UNION {{n} \cup {e.inode : e \in NamedBy(n)} : n \in ns}

LEMMA ReachableIn == ASSUME NEW V, IsClosed(V) PROVE Reachable \subseteq V
<1> DEFINE N == INODE_NUM
           F == [p \in (1..N) \X SUBSET V |-> Wider(p[2])]
           base == {EXT2_ROOT_INO}
<1>1. \A ns \in SUBSET V : Wider(ns) \in SUBSET V
  BY DEF Wider, IsClosed
<1>2. IsStep(F, N, SUBSET V) /\ base \in SUBSET V /\ N \in Nat
  <2>1. \A p \in (1..N) \X SUBSET V : Wider(p[2]) \in SUBSET V
    BY <1>1
  <2> QED BY <2>1 DEF IsStep, IsClosed
<1>3. \A k \in 1..N, ns \in SUBSET V : F[<<k, ns>>] = Wider(ns)
  OBVIOUS
<1> HIDE DEF F, base
<1>4. PICK f : IsFold(f, F, N, SUBSET V, base)
  BY <1>2, FoldExists, Zenon
<1> DEFINE r == [i \in 0..N |-> f[1..i]]
<1>5. \A i \in 0..N : r[i] = IF i = 0 THEN base ELSE Wider(r[i - 1])
  <2> SUFFICES ASSUME NEW i \in 0..N
               PROVE  f[1..i] = IF i = 0 THEN base ELSE Wider(f[1..i - 1])
    <3>1. \A j \in 0..N : j # 0 => j - 1 \in 0..N
      OBVIOUS
    <3> QED BY <3>1
  <2>1. CASE i = 0
    <3>1. 1..i = {}
      BY <2>1
    <3> QED BY <1>4, <2>1, <3>1 DEF IsFold
  <2>2. CASE i # 0
    <3>1. i \in Nat /\ 1..i \subseteq 1..i /\ 1..i # {} /\ i \in 1..i /\ 1..i \in SUBSET (1..N)
      BY <2>2
    <3>2. Max(1..i) \in 1..i /\ \A y \in 1..i : Max(1..i) >= y
      BY <3>1, GreatestIs
    <3>3. Max(1..i) = i
      BY <3>1, <3>2
    <3>4. (1..i) \ {i} = 1..i - 1
      BY <3>1
    <3>5. f[1..i] = F[<<i, f[1..i - 1]>>]
      BY <1>4, <3>1, <3>3, <3>4 DEF IsFold
    <3>6. i \in 1..N /\ f[1..i - 1] \in SUBSET V
      <4>1. 1..i - 1 \in SUBSET (1..N) /\ i \in 1..N
        BY <2>2
      <4> QED BY <1>4, <4>1 DEF IsFold
    <3> QED BY <1>3, <2>2, <3>5, <3>6
  <2> QED BY <2>1, <2>2
<1> DEFINE g == CHOOSE h : h = [i \in 0..N |-> IF i = 0 THEN base ELSE Wider(h[i - 1])]
<1>6. g = [i \in 0..N |-> IF i = 0 THEN base ELSE Wider(g[i - 1])]
  <2>1. r = [i \in 0..N |-> IF i = 0 THEN base ELSE Wider(r[i - 1])]
    BY <1>5
  <2> HIDE DEF r
  <2> QED BY <2>1, Zenon
<1>7. Reachable = g[N]
  BY Zenon DEF Reachable, Wider, base
<1> HIDE DEF g
<1> DEFINE Bad == {i \in 0..N : ~(g[i] \subseteq V)}
<1>8. Bad = {}
  <2> SUFFICES ASSUME Bad # {} PROVE FALSE
    OBVIOUS
  <2>1. Bad \subseteq Nat
    OBVIOUS
  <2> DEFINE i == Min(Bad)
  <2>2. i \in Bad /\ \A y \in Bad : i <= y
    BY <2>1, LeastIs
  <2> HIDE DEF i
  <2>3. i \in 0..N /\ ~(g[i] \subseteq V) /\ g[i] = IF i = 0 THEN base ELSE Wider(g[i - 1])
    BY <1>6, <2>2
  <2>4. i # 0
    BY <1>2, <2>3
  <2>5. i - 1 \in 0..N /\ ~(i <= i - 1)
    BY <2>3, <2>4
  <2>6. g[i - 1] \subseteq V
    BY <2>2, <2>5
  <2> QED BY <1>1, <2>3, <2>4, <2>6
<1>9. N \in 0..N
  OBVIOUS
<1> QED BY <1>7, <1>8, <1>9

LEMMA RecordsReach == Typed => IsClosed(Recorded(data))
<1> SUFFICES ASSUME Typed PROVE IsClosed(Recorded(data))
  OBVIOUS
<1> SUFFICES ASSUME NEW n, NEW e \in NamedBy(n)
             PROVE  e.inode \in Recorded(data)
  BY RootRecorded DEF IsClosed
<1>1. e \in RecordsOf(n) /\ e.inode # 0
  BY DEF NamedBy
<1>2. PICK b : e \in ToSet(Records(b))
  BY <1>1 DEF RecordsOf
<1>3. b \in DOMAIN data
  <2>1. b \notin DOMAIN data => Records(b) = <<>>
    BY DEF Records
  <2> QED BY <1>2, <2>1 DEF ToSet
<1>4. PICK k \in DOMAIN data[b] : e = data[b][k]
  BY <1>2, <1>3 DEF Records, ToSet
<1>5. e \in RecordType /\ b \in 0..BLOCK_NUM
  BY <1>3, <1>4, DataParts DEF Typed
<1>6. e.inode \in Inodes
  BY <1>1, <1>5, RecordParts
<1> QED BY <1>4, <1>5, <1>6, RecordedIs

LEMMA UseNamed == UseInv => NamedUntilFreed
<1> SUFFICES ASSUME UseInv, ~freed PROVE NamedInUse
  BY DEF NamedUntilFreed
<1>1. Reachable \subseteq Held
  BY RecordsReach, ReachableIn DEF UseInv, Held
<1> QED BY <1>1, InUseLike DEF NamedInUse, UseInv, ImageInv

\* The property of the runs, as a theorem: whatever mkdir and ln have stored so
\* far, and wherever one of them was killed, every inode a path leads to is
\* marked, set up and has its blocks for itself, because they mark and set up
\* before they enter the name (ext2_mkdir.c:109-228, ext2_ln.c:217-334), and rm
\* takes the name away before the inode is given back.  It holds as long as a
\* tool that looks for a block finds one (Roomy): without that both go on with
\* a block of another inode.
THEOREM NamedInUseUntilFreed == Spec /\ []Roomy => []NamedUntilFreed
<1>1. Init => CountInv /\ UseInv
  BY CountInit, InitUse
<1>2. CountInv /\ UseInv /\ Roomy /\ [Next]_vars => CountInv' /\ UseInv'
  BY StepUse, CountNext
<1> QED BY <1>1, <1>2, UseNamed, PTL DEF Spec

-----------------------------------------------------------------------------
(* The link count of an inode covers its names.                            *)

LEMMA UsesPairs ==
    ASSUME NEW records, NEW n, NEW p \in Uses(records, n)
    PROVE  p = <<p[1], p[2]>>
<1>1. \E b \in DOMAIN records : \E k \in DOMAIN records[b] : p = <<b, k>>
  BY DEF Uses
<1> QED BY <1>1

LEMMA UsesIs ==
    ASSUME NEW records, NEW n, NEW b, NEW k
    PROVE  <<b, k>> \in Uses(records, n) <=>
             b \in DOMAIN records /\ k \in DOMAIN records[b] /\ records[b][k].inode = n
<1>1. <<b, k>> \in Uses(records, n) <=>
         \E c \in DOMAIN records : \E j \in DOMAIN records[c] :
            records[c][j].inode = n /\ <<b, k>> = <<c, j>>
  BY DEF Uses
<1> QED BY <1>1

LEMMA UsesFinite == ASSUME Typed, NEW n PROVE IsFiniteSet(Uses(data, n))
<1> DEFINE In(b) == {b} \X DOMAIN data[b]
           All == {In(b) : b \in 0..BLOCK_NUM}
           f == [b \in 0..BLOCK_NUM |-> In(b)]
<1>1. \A b \in 0..BLOCK_NUM : IsFiniteSet(In(b))
  <2> SUFFICES ASSUME NEW b \in 0..BLOCK_NUM PROVE IsFiniteSet(In(b))
    OBVIOUS
  <2>1. data[b] \in Seq(RecordType)
    BY DataParts
  <2>2. DOMAIN data[b] = 1..Len(data[b]) /\ Len(data[b]) \in Nat
    BY <2>1
  <2>3. IsFiniteSet(DOMAIN data[b])
    BY <2>2, FS_Interval
  <2> QED BY <2>3, FS_Singleton, FS_Product, Zenon
<1>2. IsFiniteSet(0..BLOCK_NUM)
  BY FS_Interval
<1>3. IsFiniteSet(All)
  <2>1. f \in Surjection(0..BLOCK_NUM, All)
    BY DEF Surjection
  <2> QED BY <1>2, <2>1, FS_Surjection, Zenon
<1>4. IsFiniteSet(UNION All)
  BY <1>1, <1>3, FS_UNION, Zenon
<1>5. Uses(data, n) \subseteq UNION All
  <2> SUFFICES ASSUME NEW p \in Uses(data, n) PROVE p \in UNION All
    OBVIOUS
  <2>1. PICK b \in DOMAIN data : p \in {<<b, k>> : k \in {j \in DOMAIN data[b] : data[b][j].inode = n}}
    BY DEF Uses
  <2>2. DOMAIN data = 0..BLOCK_NUM
    BY DEF Typed
  <2>3. p \in In(b)
    BY <2>1
  <2> QED BY <2>2, <2>3
<1> QED BY <1>4, <1>5, FS_Subset, Zenon

\* A record appended to a block is one more use of its inode.
LEMMA UsesAppended ==
    ASSUME Typed, NEW at \in 0..BLOCK_NUM, NEW e \in RecordType,
           DOMAIN data' = DOMAIN data, data'[at] = Append(data[at], e),
           \A b \in (0..BLOCK_NUM) \ {at} : data'[b] = data[b]
    PROVE  /\ Cardinality(Uses(data', e.inode)) = Cardinality(Uses(data, e.inode)) + 1
           /\ \A n : n # e.inode => Uses(data', n) = Uses(data, n)
<1> DEFINE l == Len(data[at]) + 1
<1>1. data[at] \in Seq(RecordType) /\ DOMAIN data = 0..BLOCK_NUM
  BY DataParts
<1>2. /\ DOMAIN Append(data[at], e) = DOMAIN data[at] \cup {l} /\ l \notin DOMAIN data[at]
      /\ Append(data[at], e)[l] = e
      /\ \A k \in DOMAIN data[at] : Append(data[at], e)[k] = data[at][k]
  BY <1>1
<1> HIDE DEF l
<1>3. /\ DOMAIN data' = DOMAIN data /\ data'[at] = Append(data[at], e)
      /\ \A b \in DOMAIN data : b # at => data'[b] = data[b]
  BY <1>1
<1>4. \A n, b, k : <<b, k>> \in Uses(data', n) <=>
         <<b, k>> \in Uses(data, n) \/ (b = at /\ k = l /\ n = e.inode)
  <2> SUFFICES ASSUME NEW n, NEW b, NEW k
               PROVE  <<b, k>> \in Uses(data', n) <=>
                        <<b, k>> \in Uses(data, n) \/ (b = at /\ k = l /\ n = e.inode)
    OBVIOUS
  <2>1. <<b, k>> \in Uses(data', n) <=>
           b \in DOMAIN data' /\ k \in DOMAIN data'[b] /\ data'[b][k].inode = n
    BY UsesIs
  <2>2. <<b, k>> \in Uses(data, n) <=>
           b \in DOMAIN data /\ k \in DOMAIN data[b] /\ data[b][k].inode = n
    BY UsesIs
  <2>3. CASE b = at
    BY <2>1, <2>2, <2>3, <1>1, <1>2, <1>3
  <2>4. CASE b # at
    BY <2>1, <2>2, <2>4, <1>3
  <2> QED BY <2>3, <2>4
<1>5. \A n : Uses(data', n) = Uses(data, n) \cup (IF n = e.inode THEN {<<at, l>>} ELSE {})
  <2> SUFFICES ASSUME NEW n
               PROVE  Uses(data', n) = Uses(data, n) \cup (IF n = e.inode THEN {<<at, l>>} ELSE {})
    OBVIOUS
  <2>1. \A p \in Uses(data', n) : p = <<p[1], p[2]>>
    BY UsesPairs, Zenon
  <2>2. \A p \in Uses(data, n) : p = <<p[1], p[2]>>
    BY UsesPairs, Zenon
  <2>3. ASSUME NEW p \in Uses(data', n)
        PROVE  p \in Uses(data, n) \/ (p = <<at, l>> /\ n = e.inode)
    <3>1. p = <<p[1], p[2]>>
      BY <2>1
    <3>2. <<p[1], p[2]>> \in Uses(data, n) \/ (p[1] = at /\ p[2] = l /\ n = e.inode)
      BY <3>1, <1>4, Zenon
    <3> QED BY <3>1, <3>2, Zenon
  <2>4. ASSUME NEW p \in Uses(data, n) PROVE p \in Uses(data', n)
    <3>1. p = <<p[1], p[2]>>
      BY <2>2
    <3>2. <<p[1], p[2]>> \in Uses(data', n)
      BY <3>1, <1>4
    <3> QED BY <3>1, <3>2, Zenon
  <2>5. n = e.inode => <<at, l>> \in Uses(data', n)
    BY <1>4
  <2> QED BY <2>3, <2>4, <2>5
<1>6. <<at, l>> \notin Uses(data, e.inode)
  BY <1>2, UsesIs, Zenon
<1>7. IsFiniteSet(Uses(data, e.inode))
  BY UsesFinite
<1>8. Cardinality(Uses(data, e.inode) \cup {<<at, l>>}) = Cardinality(Uses(data, e.inode)) + 1
  BY <1>6, <1>7, FS_AddElement
<1> QED BY <1>5, <1>8

\* What only changes other things in the records leaves their uses.
LEMMA UsesLike ==
    ASSUME NEW r, NEW s, NEW n, DOMAIN s = DOMAIN r,
           \A b \in DOMAIN r : \A k : k \in DOMAIN s[b] /\ s[b][k].inode = n
                                      <=> k \in DOMAIN r[b] /\ r[b][k].inode = n
    PROVE  Uses(s, n) = Uses(r, n)
BY DEF Uses

\* The tool owes its inode a name: the link count is up already and the name not
\* entered, or the name is gone and the link count not lowered.
Naming == {"block", "mark_block", "count_block", "fill", "room", "enter", "grow"}
Owes == \/ tool.op = "ln" /\ tool.pc = "check"
        \/ tool.op \in {"ln", "ln_s"} /\ tool.pc \in Naming
        \/ tool.pc = "drop"
Owed(n) == IF Owes /\ tool.ino = n THEN 1 ELSE 0

Covered(n) == Cardinality(Uses(data, n)) + Owed(n) <= inode[n].links

\* The tool has a block of the image.
Storing == {"mark_block", "count_block", "fill", "enter", "grow"}

\* The record that rm clears is one of the inode whose count it lowers.
Entry == FirstOf(data[tool.at], tool.name)
ClearsOwn == /\ tool.ino \in Inodes /\ Entry \in DOMAIN data[tool.at]
             /\ data[tool.at][Entry].inode = tool.ino

LinkInv ==
    ~freed => /\ data[0] = <<>>
              /\ tool.pc \in Storing => tool.at # 0
              /\ tool.pc = "clear" => ClearsOwn
              /\ \A n \in Inodes : inode[n].kind # "dir" => Covered(n)

\* No link count is at the end of its range when ln raises it (ext2_ln.c:182).
LinksFit == tool.op = "ln" /\ tool.pc = "count" => inode[tool.ino].links < USHORTS - 1

LEMMA CoveredKept ==
    ASSUME Typed, Typed', NEW n \in Inodes, Covered(n), Uses(data', n) = Uses(data, n),
           inode'[n].links = inode[n].links, Owes' => Owes /\ tool'.ino = tool.ino
    PROVE  Covered(n)'
<1>1. Cardinality(Uses(data, n)) \in Nat
  BY UsesFinite, FS_CardinalityType
<1>2. inode[n].links \in Int
  BY InodeParts DEF UShorts, Typed
<1>3. Owed(n) \in {0, 1} /\ Owed(n)' \in {0, 1} /\ (Owed(n)' = 1 => Owed(n) = 1)
  BY DEF Owed
<1> QED BY <1>1, <1>2, <1>3 DEF Covered

\* A step that leaves the records and the link counts alone.
LEMMA LinksRest ==
    ASSUME UseInv, UseInv', LinkInv, ~freed, data' = data,
           \A n \in Inodes : inode'[n].kind = inode[n].kind /\ inode'[n].links = inode[n].links,
           Owes' => Owes /\ tool'.ino = tool.ino,
           tool'.pc \in Storing => tool'.at # 0,
           tool'.pc = "clear" => ClearsOwn'
    PROVE  LinkInv'
<1>1. \A n \in Inodes : Covered(n) => Covered(n)'
  BY CoveredKept DEF UseInv
<1> QED BY <1>1 DEF LinkInv

Silent == Labels \ (Naming \cup Storing \cup {"check", "drop", "clear"})

LEMMA LinksSilent ==
    ASSUME UseInv, UseInv', LinkInv, ~freed, UNCHANGED <<data, inode>>, tool'.pc \in Silent
    PROVE  LinkInv'
<1>1. ~Owes'
  BY DEF Owes, Silent
<1> QED BY <1>1, LinksRest DEF Silent

LEMMA IdleSilent ==
    /\ Idle.pc \in Silent
    /\ \A op \in {"mkdir", "ln", "ln_s", "rm"} : [Idle EXCEPT !.op = op, !.pc = "endless"].pc \in Silent
BY IdleTyped DEF Silent, Naming, Storing, Labels

LEMMA CountInodeLinks ==
    ASSUME UseInv, UseInv', LinkInv, ~freed, CountInode
    PROVE  LinkInv'
<1>1. /\ UNCHANGED <<data, inode>>
      /\ \/ tool' = [tool EXCEPT !.pc = "mark_inode", !.ino = Min(get_inode_bitmap)]
         \/ tool' = Idle
  BY DEF CountInode, Stop
<1>2. tool'.pc \in {"mark_inode", "idle"}
  BY <1>1, IdleTyped DEF UseInv, Typed, ToolType
<1>3. tool'.pc \in Silent
  BY <1>2 DEF Silent, Naming, Storing, Labels
<1> QED BY <1>1, <1>3, LinksSilent

LEMMA MarkInodeLinks ==
    ASSUME UseInv, UseInv', LinkInv, ~freed, MarkInode
    PROVE  LinkInv'
<1>1. UNCHANGED <<data, inode>> /\ tool' = [tool EXCEPT !.pc = "set_inode"]
  BY DEF MarkInode, Goto
<1>2. tool'.pc = "set_inode"
  BY <1>1, GotoTyped DEF UseInv, Labels
<1>3. tool'.pc \in Silent
  BY <1>2 DEF Silent, Naming, Storing, Labels
<1> QED BY <1>1, <1>3, LinksSilent

\* A new inode is linked once and not yet named.
LEMMA SetInodeLinks ==
    ASSUME UseInv, UseInv', LinkInv, ~freed, tool.pc = "set_inode",
           NEW kind, NEW size, NEW links, CountInv,
           <<kind, links, tool.op>> \in {<<"dir", 2, "mkdir">>, <<"symlink", 1, "ln_s">>},
           SetInode(kind, size, links)
    PROVE  LinkInv'
<1> DEFINE m == tool.ino
           i == [inode[m] EXCEPT !.kind = kind, !.size = size, !.links = links, !.nblocks = 1]
<1>1. /\ UNCHANGED <<data, freed>> /\ inode' = [inode EXCEPT ![m] = i]
      /\ tool' = [tool EXCEPT !.pc = "block", !.own = TRUE]
  BY DEF SetInode, Bookkeeping
<1>2. m \notin Recorded(data) /\ m \in Inodes /\ inode[m] \in InodeType
  <2>1. Made(m)
    BY DEF UseInv, ToolInv
  <2>2. m \in Inodes
    BY <2>1, MarkedAreInodes DEF Made
  <2> QED BY <2>1, <2>2, InodeParts DEF Made, UseInv
<1>3. i.kind = kind /\ i.links = links
  BY <1>2 DEF InodeType
<1> HIDE DEF i
<1>4. inode'[m] = i /\ \A n \in Inodes \ {m} : inode'[n] = inode[n]
  BY <1>1, <1>2 DEF UseInv, Typed
<1>5. tool'.pc = "block" /\ tool'.op = tool.op /\ tool'.ino = m
  BY <1>1 DEF UseInv, Typed, ToolType
<1>6. tool'.pc \notin Storing /\ tool'.pc # "clear"
  BY <1>5 DEF Storing
<1>7. ASSUME NEW n \in Inodes, n # m, inode'[n].kind # "dir" PROVE Covered(n)'
  <2>1. Covered(n) /\ Uses(data', n) = Uses(data, n) /\ inode'[n].links = inode[n].links
    BY <1>1, <1>4, <1>7 DEF LinkInv
  <2>2. Owed(n) = 0 /\ Owed(n)' = 0
    BY <1>5, <1>7 DEF Owed
  <2> QED BY <2>1, <2>2 DEF Covered
<1>8. ASSUME NEW n \in Inodes, n = m, inode'[n].kind # "dir" PROVE Covered(n)'
  <2>1. links = 1
    BY <1>3, <1>4, <1>8
  <2>2. Uses(data, n) = {}
    <3> SUFFICES ASSUME NEW p \in Uses(data, n) PROVE FALSE
      OBVIOUS
    <3>1. p = <<p[1], p[2]>>
      BY UsesPairs, Zenon
    <3>2. <<p[1], p[2]>> \in Uses(data, n)
      BY <3>1, Zenon
    <3>3. p[1] \in DOMAIN data /\ p[2] \in DOMAIN data[p[1]] /\ data[p[1]][p[2]].inode = n
      BY <3>2, UsesIs
    <3>4. DOMAIN data = 0..BLOCK_NUM
      BY DEF UseInv, Typed
    <3> QED BY <1>2, <1>8, <3>3, <3>4, RecordedIs DEF UseInv
  <2>3. Cardinality(Uses(data', n)) = 0
    BY <1>1, <2>2, FS_EmptySet
  <2>4. Owed(n)' \in {0, 1}
    BY DEF Owed
  <2>5. inode'[n].links = 1
    BY <1>3, <1>4, <1>8, <2>1
  <2> QED BY <2>3, <2>4, <2>5 DEF Covered
<1> QED BY <1>1, <1>6, <1>7, <1>8 DEF LinkInv

LEMMA AssignBlockLinks ==
    ASSUME UseInv, UseInv', LinkInv, ~freed, Roomy, tool.pc = "block", CountInv, NEW U, AssignBlock(U)
    PROVE  LinkInv'
<1> DEFINE b == Min(get_block_bitmap)
           m == Holder
<1>1. /\ data' = data /\ inode' = [inode EXCEPT ![m].i_block[Slot] = b]
      /\ tool' = [tool EXCEPT !.pc = "mark_block", !.at = b]
  BY DEF AssignBlock, Roomy
<1>2. b # 0
  <2>1. get_block_bitmap \subseteq Nat /\ get_block_bitmap \subseteq Blocks /\ get_block_bitmap # {}
    BY DEF get_block_bitmap, Blocks, Roomy
  <2>2. b \in Blocks
    BY <2>1, LeastIs
  <2> QED BY <2>2 DEF Blocks
<1> HIDE DEF b
<1>3. /\ tool'.pc = "mark_block" /\ tool'.op = tool.op /\ tool'.ino = tool.ino /\ tool'.at = b
  BY <1>1 DEF UseInv, Typed, ToolType
<1>4. \A n \in Inodes : inode'[n].kind = inode[n].kind /\ inode'[n].links = inode[n].links
  BY <1>1 DEF UseInv, Typed, InodeType
<1>5. Owes' => Owes
  BY <1>3 DEF Owes, Naming
<1> QED BY <1>1, <1>2, <1>3, <1>4, <1>5, LinksRest

\* A step that only goes on with the block the tool has.
LEMMA GotoLinks ==
    ASSUME UseInv, UseInv', LinkInv, ~freed, UNCHANGED <<data, inode>>,
           tool.pc \in Storing \cap Naming, NEW pc \in {"count_block", "fill", "grow"}, Goto(pc)
    PROVE  LinkInv'
<1>1. tool' = [tool EXCEPT !.pc = pc] /\ pc \in Labels
  BY DEF Goto, Labels
<1>2. tool'.pc = pc /\ tool'.op = tool.op /\ tool'.ino = tool.ino /\ tool'.at = tool.at
  BY <1>1, GotoTyped DEF UseInv
<1>3. (Owes' => Owes) /\ (tool'.pc \in Storing => tool'.at # 0) /\ tool'.pc # "clear"
  BY <1>2 DEF Owes, Naming, Storing, LinkInv
<1> QED BY <1>2, <1>3, LinksRest

\* A step that writes a record without name into a block, or none.
LEMMA UsesKept ==
    ASSUME Typed, Typed', NEW n,
           \A b \in 0..BLOCK_NUM : \A k : k \in DOMAIN data'[b] /\ data'[b][k].inode = n
                                          <=> k \in DOMAIN data[b] /\ data[b][k].inode = n
    PROVE  Uses(data', n) = Uses(data, n)
<1>1. DOMAIN data = 0..BLOCK_NUM /\ DOMAIN data' = 0..BLOCK_NUM
  BY DEF Typed
<1> QED BY <1>1, UsesLike

\* "." and ".." name directories only.
LEMMA FillLinks ==
    ASSUME CountInv, UseInv, UseInv', LinkInv, ~freed, Fill
    PROVE  LinkInv'
<1> DEFINE dot == EXT2_DIR_REC_LEN(".")
           e1 == Record(tool.ino, ".", "dir", dot)
           e2 == Record(tool.dir, "..", "dir", EXT2_BLOCK_SIZE - dot)
<1>1. /\ inode' = inode /\ tool.pc = "fill" /\ tool.op = "mkdir"
      /\ data' = [data EXCEPT ![tool.at] = <<e1, e2>>]
      /\ tool' = [tool EXCEPT !.pc = "room"]
  BY DEF Fill, At, Goto
<1>2. e1.inode = tool.ino /\ e2.inode = tool.dir
  BY DEF Record
<1> HIDE DEF e1, e2
<1>3. tool.at \in 0..BLOCK_NUM /\ tool.at # 0 /\ 0 \in 0..BLOCK_NUM
  BY <1>1, ToolParts DEF UseInv, LinkInv, Storing
<1>4. DOMAIN data = 0..BLOCK_NUM
  BY DEF UseInv, Typed
<1>5. /\ data'[tool.at] = <<e1, e2>>
      /\ \A b \in (0..BLOCK_NUM) \ {tool.at} : data'[b] = data[b]
  BY <1>1, <1>3, <1>4
<1>6. data[tool.at] = <<>>
  BY <1>1 DEF UseInv, ToolInv
<1>7. inode[tool.ino].kind = "dir" /\ inode[tool.dir].kind = "dir"
  <2>1. tool.own
    BY <1>1 DEF UseInv, ToolInv
  <2> QED BY <1>1, <2>1 DEF UseInv, ToolInv, Resting, Own
<1>8. tool'.pc = "room" /\ tool'.op = "mkdir"
  BY <1>1 DEF UseInv, Typed, ToolType
<1>9. ~Owes' /\ tool'.pc \notin Storing /\ tool'.pc # "clear"
  BY <1>8 DEF Owes, Storing
<1>10. ASSUME NEW n \in Inodes, inode[n].kind # "dir" PROVE Covered(n)'
  <2>1. \A k \in DOMAIN <<e1, e2>> : <<e1, e2>>[k] \in {e1, e2}
    OBVIOUS
  <2>2. \A k : ~(k \in DOMAIN data'[tool.at] /\ data'[tool.at][k].inode = n)
    BY <1>2, <1>5, <1>7, <1>10, <2>1
  <2>3. Uses(data', n) = Uses(data, n)
    <3>1. \A b \in 0..BLOCK_NUM : \A k : k \in DOMAIN data'[b] /\ data'[b][k].inode = n
                                          <=> k \in DOMAIN data[b] /\ data[b][k].inode = n
      BY <1>5, <1>6, <2>2
    <3> QED BY <3>1, UsesKept DEF UseInv
  <2>4. Covered(n)
    BY <1>10 DEF LinkInv
  <2> QED BY <1>1, <1>9, <2>3, <2>4, CoveredKept DEF UseInv
<1>11. data'[0] = <<>>
  BY <1>3, <1>5 DEF LinkInv
<1> QED BY <1>1, <1>9, <1>10, <1>11 DEF LinkInv

LEMMA WriteTargetLinks ==
    ASSUME UseInv, UseInv', LinkInv, ~freed, WriteTarget
    PROVE  LinkInv'
<1>1. /\ inode' = inode /\ tool.pc = "fill" /\ tool.op = "ln_s"
      /\ data' = [data EXCEPT ![tool.at] = <<>>]
      /\ tool' = [tool EXCEPT !.pc = "room"]
  BY DEF WriteTarget, At, Goto
<1>2. data' = data
  BY <1>1 DEF UseInv, Typed, ToolInv
<1>3. tool'.pc = "room" /\ tool'.op = tool.op /\ tool'.ino = tool.ino
  BY <1>1, GotoTyped DEF UseInv, Labels
<1>4. (Owes' => Owes) /\ tool'.pc \notin Storing /\ tool'.pc # "clear"
  BY <1>1, <1>3 DEF Owes, Storing, Naming
<1> QED BY <1>1, <1>2, <1>3, <1>4, LinksRest

LEMMA FindRoomLinks ==
    ASSUME UseInv, UseInv', LinkInv, ~freed, tool.pc = "room", tool.op \in {"mkdir", "ln", "ln_s"},
           FindRoom
    PROVE  LinkInv'
<1>1. inode' = inode
  BY Zenon DEF FindRoom
<1>2. CASE tool' = [tool EXCEPT !.pc = "block", !.own = FALSE] /\ data' = data
  <2>1. tool'.pc = "block" /\ tool'.op = tool.op /\ tool'.ino = tool.ino
    BY <1>2 DEF UseInv, Typed, ToolType
  <2>2. (Owes' => Owes) /\ tool'.pc \notin Storing /\ tool'.pc # "clear"
    BY <2>1 DEF Owes, Storing, Naming
  <2> QED BY <1>1, <1>2, <2>1, <2>2, LinksRest
<1>3. CASE Hang(tool.op) /\ data' = data
  BY <1>1, <1>3, IdleSilent, LinksSilent DEF Hang
<1>4. CASE \E b \in 0..BLOCK_NUM : \E e \in RecordType : Cuts(b, e)
  <2>1. PICK b \in 0..BLOCK_NUM : \E e \in RecordType : Cuts(b, e)
    BY <1>4, Zenon
  <2>2. PICK e \in RecordType : Cuts(b, e)
    BY <2>1, Zenon
  <2> DEFINE l == Len(data[b])
  <2>3. data[b] # <<>> /\ e.inode = data[b][l].inode
    BY <2>2 DEF Cuts
  <2>4. /\ l \in DOMAIN data[b] /\ DOMAIN data'[b] = DOMAIN data[b]
        /\ \A k \in DOMAIN data[b] : data'[b][k] = IF k = l THEN e ELSE data[b][k]
        /\ \A x \in (0..BLOCK_NUM) \ {b} : data'[x] = data[x]
        /\ tool'.pc = "enter" /\ tool'.op = tool.op /\ tool'.ino = tool.ino /\ tool'.at = b
    BY <2>2, CutsRecords, Zenon
  <2> HIDE DEF l
  <2>5. b # 0 /\ 0 \in 0..BLOCK_NUM
    BY <2>3 DEF LinkInv
  <2>6. (Owes' => Owes) /\ tool'.pc # "clear"
    BY <2>4 DEF Owes, Naming
  <2>7. ASSUME NEW n \in Inodes PROVE Uses(data', n) = Uses(data, n)
    <3>1. \A x \in 0..BLOCK_NUM : \A k : k \in DOMAIN data'[x] /\ data'[x][k].inode = n
                                          <=> k \in DOMAIN data[x] /\ data[x][k].inode = n
      BY <2>3, <2>4
    <3> QED BY <3>1, UsesKept DEF UseInv
  <2>8. ASSUME NEW n \in Inodes, Covered(n) PROVE Covered(n)'
    BY <1>1, <2>4, <2>6, <2>7, <2>8, CoveredKept DEF UseInv
  <2>9. data'[0] = <<>>
    BY <2>4, <2>5 DEF LinkInv
  <2> QED BY <1>1, <2>4, <2>5, <2>6, <2>8, <2>9 DEF LinkInv
<1> QED BY <1>2, <1>3, <1>4, FindRoomCuts, Zenon

\* A name is entered for an inode that was owed one.
LEMMA NamedLinks ==
    ASSUME UseInv, UseInv', LinkInv, ~freed, inode' = inode, tool.pc \in {"enter", "grow"},
           tool.op \in {"mkdir", "ln", "ln_s"}, NEW e \in RecordType, e.inode = tool.ino,
           data'[tool.at] = Append(data[tool.at], e),
           \A b \in (0..BLOCK_NUM) \ {tool.at} : data'[b] = data[b],
           tool'.pc \in {"idle", "parent", "grow_size"}
    PROVE  LinkInv'
<1>1. tool.at \in 0..BLOCK_NUM /\ tool.at # 0 /\ 0 \in 0..BLOCK_NUM
  BY ToolParts DEF UseInv, LinkInv, Storing
<1>2. DOMAIN data' = DOMAIN data
  BY DEF UseInv, Typed
<1>3. /\ Cardinality(Uses(data', tool.ino)) = Cardinality(Uses(data, tool.ino)) + 1
      /\ \A n : n # tool.ino => Uses(data', n) = Uses(data, n)
  BY <1>1, <1>2, UsesAppended DEF UseInv
<1>4. ~Owes' /\ tool'.pc \notin Storing /\ tool'.pc # "clear"
  BY DEF Owes, Naming, Storing
<1>5. inode[tool.ino].kind = "dir" <=> tool.op = "mkdir"
  BY DEF UseInv, ToolInv, Ready, Growing
<1>6. ASSUME NEW n \in Inodes, inode[n].kind # "dir" PROVE Covered(n)'
  <2>1. Covered(n)
    BY <1>6 DEF LinkInv
  <2>2. CASE n = tool.ino
    <3>1. Owes
      BY <1>5, <1>6, <2>2 DEF Owes, Naming
    <3>2. Owed(n) = 1 /\ Owed(n)' = 0
      BY <1>4, <2>2, <3>1 DEF Owed
    <3>3. Cardinality(Uses(data, n)) \in Nat /\ inode[n].links \in Int
      BY UsesFinite, FS_CardinalityType, InodeParts DEF UseInv, UShorts
    <3>4. Cardinality(Uses(data', n)) = Cardinality(Uses(data, n)) + 1
      BY <1>3, <2>2
    <3> QED BY <2>1, <3>2, <3>3, <3>4 DEF Covered
  <2>3. CASE n # tool.ino
    BY <1>3, <1>4, <2>1, <2>3, CoveredKept DEF UseInv
  <2> QED BY <2>2, <2>3
<1>7. data'[0] = <<>>
  BY <1>1 DEF LinkInv
<1> QED BY <1>4, <1>6, <1>7 DEF LinkInv

LEMMA EnterRecordLinks ==
    ASSUME UseInv, UseInv', LinkInv, ~freed, tool.pc = "enter", tool.op \in {"mkdir", "ln", "ln_s"},
           NEW type \in Kinds, NEW pc \in {"idle", "parent"}, EnterRecord(type, pc)
    PROVE  LinkInv'
<1> DEFINE e == Record(tool.ino, tool.name, type, tool.rec)
<1>1. /\ inode' = inode /\ data' = [data EXCEPT ![tool.at] = Append(data[tool.at], e)]
      /\ tool' = Idle \/ tool' = [tool EXCEPT !.pc = "parent"]
  BY DEF EnterRecord, Stop, Goto
<1>2. e \in RecordType /\ e.inode = tool.ino
  BY ToolParts, RecordTyped DEF UseInv
<1> HIDE DEF e
<1>3. /\ data'[tool.at] = Append(data[tool.at], e)
      /\ \A b \in (0..BLOCK_NUM) \ {tool.at} : data'[b] = data[b]
  BY <1>1, ToolParts DEF UseInv, Typed
<1>4. tool'.pc \in {"idle", "parent"}
  BY <1>1, IdleTyped, GotoTyped DEF UseInv, Labels
<1> QED BY <1>1, <1>2, <1>3, <1>4, NamedLinks

LEMMA GrowRecordLinks ==
    ASSUME UseInv, UseInv', LinkInv, ~freed, tool.pc = "grow", tool.op \in {"mkdir", "ln", "ln_s"},
           NEW type \in Kinds, GrowRecord(type)
    PROVE  LinkInv'
<1> DEFINE e == Record(tool.ino, tool.name, type, EXT2_BLOCK_SIZE)
<1>1. /\ inode' = inode /\ data' = [data EXCEPT ![tool.at] = <<e>>]
      /\ tool' = [tool EXCEPT !.pc = "grow_size"]
  BY DEF GrowRecord, Goto
<1>2. e \in RecordType /\ e.inode = tool.ino
  BY ToolParts, RecordTyped, Constants DEF UseInv
<1> HIDE DEF e
<1>3. data[tool.at] = <<>>
  BY DEF UseInv, ToolInv
<1>4. /\ data'[tool.at] = Append(data[tool.at], e)
      /\ \A b \in (0..BLOCK_NUM) \ {tool.at} : data'[b] = data[b]
  <2>1. <<e>> = Append(<<>>, e)
    OBVIOUS
  <2> QED BY <1>1, <1>3, <2>1, ToolParts DEF UseInv, Typed
<1>5. tool'.pc = "grow_size"
  BY <1>1, GotoTyped DEF UseInv, Labels
<1> QED BY <1>1, <1>2, <1>4, <1>5, NamedLinks

LEMMA GrowSizeLinks ==
    ASSUME UseInv, UseInv', LinkInv, ~freed, tool.pc = "grow_size",
           NEW pc \in {"idle", "parent"}, GrowSize(pc)
    PROVE  LinkInv'
<1>1. /\ data' = data
      /\ inode' = [inode EXCEPT ![tool.dir].nblocks = @ + 1, ![tool.dir].size = @ + 1]
      /\ tool' = Idle \/ tool' = [tool EXCEPT !.pc = "parent"]
  BY DEF GrowSize, Stop, Goto
<1>2. tool'.pc \in {"idle", "parent"}
  BY <1>1, IdleTyped, GotoTyped DEF UseInv, Labels
<1>3. \A n \in Inodes : inode'[n].kind = inode[n].kind /\ inode'[n].links = inode[n].links
  BY <1>1 DEF UseInv, Typed, InodeType
<1>4. ~Owes' /\ tool'.pc \notin Storing /\ tool'.pc # "clear"
  BY <1>2 DEF Owes, Naming, Storing
<1> QED BY <1>1, <1>3, <1>4, LinksRest

LEMMA CheckTargetLinks ==
    ASSUME UseInv, UseInv', LinkInv, ~freed, CheckTarget
    PROVE  LinkInv'
<1> DEFINE pc == IF tool.op = "ln" THEN "room" ELSE "inode"
<1>1. /\ UNCHANGED <<inode, data>> /\ tool.op \in {"ln", "ln_s"} /\ tool.pc = "check"
      /\ Hang(tool.op) \/ tool' = Idle \/ tool' = [tool EXCEPT !.pc = pc]
  BY DEF CheckTarget, Linking, Stop, Goto, image
<1>2. CASE Hang(tool.op) \/ tool' = Idle
  BY <1>1, <1>2, IdleSilent, LinksSilent DEF Hang
<1>3. CASE tool' = [tool EXCEPT !.pc = pc]
  <2>1. tool'.pc = pc /\ tool'.op = tool.op /\ tool'.ino = tool.ino
    <3>1. pc \in Labels
      BY DEF Labels
    <3> HIDE DEF pc
    <3> QED BY <1>3, <3>1, GotoTyped DEF UseInv
  <2>2. (Owes' => Owes) /\ tool'.pc \notin Storing /\ tool'.pc # "clear"
    BY <1>1, <2>1 DEF Owes, Naming, Storing
  <2> QED BY <1>1, <2>1, <2>2, LinksRest
<1> QED BY <1>1, <1>2, <1>3

LEMMA ManyUShorts == USHORTS \in Nat /\ USHORTS > 2
BY DEF USHORTS

LEMMA UShortIs == \A n \in UShorts : UShort(n) = n
<1> SUFFICES ASSUME NEW n \in 0..USHORTS - 1 PROVE n % USHORTS = n
  BY DEF UShorts, UShort
<1>1. USHORTS \in Nat \ {0}
  BY ManyUShorts
<1> QED BY <1>1

\* A step that changes the link count of one inode, m.
LEMMA OneCount ==
    ASSUME UseInv, UseInv', LinkInv, ~freed, data' = data, NEW m, NEW x,
           inode' = [inode EXCEPT ![m].links = x],
           tool'.pc \notin Storing, tool'.pc # "clear", Owes' => Owes \/ tool'.ino = m,
           Owes' => tool'.ino = tool.ino,
           \A n \in Inodes : n = m /\ inode[n].kind # "dir" /\ Covered(n) =>
               Cardinality(Uses(data, n)) + Owed(n)' <= x
    PROVE  LinkInv'
<1>1. \A n \in Inodes : /\ inode'[n].kind = inode[n].kind
                        /\ n # m => inode'[n].links = inode[n].links
                        /\ n = m => inode'[n].links = x
  BY DEF UseInv, Typed, InodeType
<1>2. ASSUME NEW n \in Inodes, inode[n].kind # "dir" PROVE Covered(n)'
  <2>1. Covered(n)
    BY <1>2 DEF LinkInv
  <2>2. CASE n = m
    BY <1>1, <1>2, <2>1, <2>2 DEF Covered
  <2>3. CASE n # m
    <3>1. Owed(n)' = 1 => Owed(n) = 1
      BY <2>3 DEF Owed
    <3>2. Owed(n) \in {0, 1} /\ Owed(n)' \in {0, 1}
      BY DEF Owed
    <3>3. Cardinality(Uses(data, n)) \in Nat /\ inode[n].links \in Int
      BY UsesFinite, FS_CardinalityType, InodeParts DEF UseInv, UShorts
    <3>4. inode'[n].links = inode[n].links
      BY <1>1, <2>3
    <3> QED BY <2>1, <3>1, <3>2, <3>3, <3>4 DEF Covered
  <2> QED BY <2>2, <2>3
<1> QED BY <1>1, <1>2 DEF LinkInv

LEMMA LinkParentLinks ==
    ASSUME UseInv, UseInv', LinkInv, ~freed, LinkParent
    PROVE  LinkInv'
<1>1. /\ data' = data /\ tool.pc = "parent" /\ tool'.pc = "idle"
      /\ inode' = [inode EXCEPT ![tool.dir].links = UShort(inode[tool.dir].links + 1)]
  BY IdleTyped DEF LinkParent, At, Stop
<1>2. inode[tool.dir].kind = "dir"
  BY <1>1 DEF UseInv, ToolInv, Resting
<1>3. ~Owes' /\ tool'.pc \notin Storing /\ tool'.pc # "clear"
  BY <1>1 DEF Owes, Naming, Storing
<1> QED BY <1>1, <1>2, <1>3, OneCount

LEMMA CountLinkLinks ==
    ASSUME UseInv, UseInv', LinkInv, ~freed, CountLink, LinksFit
    PROVE  LinkInv'
<1> DEFINE m == tool.ino
           x == UShort(inode[m].links + 1)
<1>1. /\ data' = data /\ tool.pc = "count" /\ tool.op = "ln"
      /\ inode' = [inode EXCEPT ![m].links = x]
      /\ tool' = [tool EXCEPT !.pc = "check"]
  BY DEF CountLink, At, Goto
<1>2. tool'.pc = "check" /\ tool'.ino = m
  BY <1>1, GotoTyped DEF UseInv, Labels
<1>3. tool'.pc \notin Storing /\ tool'.pc # "clear"
  BY <1>2 DEF Storing
<1>4. ASSUME NEW n \in Inodes, n = m, Covered(n)
      PROVE  Cardinality(Uses(data, n)) + Owed(n)' <= x
  <2>1. inode[n].links \in UShorts
    BY InodeParts DEF UseInv
  <2>2. inode[n].links + 1 \in UShorts
    BY <1>1, <1>4, <2>1, ManyUShorts DEF UShorts, LinksFit
  <2>3. x = inode[n].links + 1
    BY <1>4, <2>2, UShortIs
  <2>4. Owed(n) = 0 /\ Owed(n)' \in {0, 1}
    BY <1>1 DEF Owed, Owes, Naming
  <2>5. Cardinality(Uses(data, n)) \in Nat /\ inode[n].links \in Int
    BY UsesFinite, FS_CardinalityType, <2>1 DEF UseInv, UShorts
  <2> HIDE DEF x
  <2> QED BY <1>4, <2>3, <2>4, <2>5 DEF Covered
<1> HIDE DEF x
<1> QED BY <1>1, <1>2, <1>3, <1>4, OneCount

LEMMA DropLinkLinks ==
    ASSUME UseInv, UseInv', LinkInv, ~freed, DropLink
    PROVE  LinkInv'
<1> DEFINE m == tool.ino
           x == UShort(inode[m].links - 1)
<1>1. /\ data' = data /\ tool.pc = "drop"
      /\ inode' = [inode EXCEPT ![m].links = x]
      /\ tool' = [tool EXCEPT !.pc = "free_inode"] \/ tool' = Idle
  BY DEF DropLink, At, Goto, Stop
<1>2. tool'.pc \in {"free_inode", "idle"}
  BY <1>1, GotoTyped, IdleTyped DEF UseInv, Labels
<1>3. ~Owes' /\ tool'.pc \notin Storing /\ tool'.pc # "clear"
  BY <1>2 DEF Owes, Naming, Storing
<1>4. ASSUME NEW n \in Inodes, n = m, Covered(n)
      PROVE  Cardinality(Uses(data, n)) + Owed(n)' <= x
  <2>1. inode[n].links \in UShorts
    BY InodeParts DEF UseInv
  <2>2. Owed(n) = 1 /\ Owed(n)' = 0
    BY <1>1, <1>3, <1>4 DEF Owed, Owes
  <2>3. Cardinality(Uses(data, n)) \in Nat /\ inode[n].links \in Int
    BY UsesFinite, FS_CardinalityType, <2>1 DEF UseInv, UShorts
  <2>4. Cardinality(Uses(data, n)) + 1 <= inode[n].links
    BY <1>4, <2>2 DEF Covered
  <2>5. inode[n].links - 1 \in UShorts
    BY <2>1, <2>3, <2>4, ManyUShorts DEF UShorts
  <2>6. x = inode[n].links - 1
    BY <1>4, <2>5, UShortIs
  <2> HIDE DEF x
  <2> QED BY <2>2, <2>3, <2>4, <2>6
<1> HIDE DEF x
<1> QED BY <1>1, <1>3, <1>4, OneCount

\* A record that loses its inode is one use less of that.
LEMMA UsesRemoved ==
    ASSUME Typed, Typed', NEW at \in 0..BLOCK_NUM, NEW i \in DOMAIN data[at], NEW m \in Inodes,
           data[at][i].inode = m, data'[at][i].inode = 0,
           DOMAIN data'[at] = DOMAIN data[at],
           \A k \in DOMAIN data[at] : k # i => data'[at][k] = data[at][k],
           \A b \in (0..BLOCK_NUM) \ {at} : data'[b] = data[b]
    PROVE  /\ Cardinality(Uses(data', m)) = Cardinality(Uses(data, m)) - 1
           /\ \A n \in Inodes : n # m => Uses(data', n) = Uses(data, n)
<1>1. DOMAIN data = 0..BLOCK_NUM /\ DOMAIN data' = 0..BLOCK_NUM
  BY DEF Typed
<1>2. \A n \in Inodes : n # 0
  BY DEF Inodes
<1>3. ASSUME NEW n \in Inodes, n # m PROVE Uses(data', n) = Uses(data, n)
  <2>1. \A b \in 0..BLOCK_NUM : \A k : k \in DOMAIN data'[b] /\ data'[b][k].inode = n
                                        <=> k \in DOMAIN data[b] /\ data[b][k].inode = n
    BY <1>2, <1>3
  <2> QED BY <2>1, UsesKept
<1>4. Uses(data', m) = Uses(data, m) \ {<<at, i>>}
  <2>1. ASSUME NEW b, NEW k
        PROVE  <<b, k>> \in Uses(data', m) <=> <<b, k>> \in Uses(data, m) /\ ~(b = at /\ k = i)
    <3>1. <<b, k>> \in Uses(data', m) <=>
             b \in DOMAIN data' /\ k \in DOMAIN data'[b] /\ data'[b][k].inode = m
      BY UsesIs
    <3>2. <<b, k>> \in Uses(data, m) <=>
             b \in DOMAIN data /\ k \in DOMAIN data[b] /\ data[b][k].inode = m
      BY UsesIs
    <3>3. CASE b = at
      BY <1>1, <1>2, <3>1, <3>2, <3>3
    <3>4. CASE b # at
      BY <1>1, <3>1, <3>2, <3>4
    <3> QED BY <3>3, <3>4
  <2>2. ASSUME NEW p \in Uses(data', m) PROVE p \in Uses(data, m) \ {<<at, i>>}
    <3>1. p = <<p[1], p[2]>>
      BY UsesPairs, Zenon
    <3>2. <<p[1], p[2]>> \in Uses(data', m)
      BY <3>1, Zenon
    <3>3. <<p[1], p[2]>> \in Uses(data, m) /\ ~(p[1] = at /\ p[2] = i)
      BY <2>1, <3>2
    <3>4. <<p[1], p[2]>> # <<at, i>>
      BY <3>3
    <3> QED BY <3>1, <3>3, <3>4, Zenon
  <2>3. ASSUME NEW p \in Uses(data, m), p # <<at, i>> PROVE p \in Uses(data', m)
    <3>1. p = <<p[1], p[2]>>
      BY UsesPairs, Zenon
    <3>2. <<p[1], p[2]>> \in Uses(data, m) /\ ~(p[1] = at /\ p[2] = i)
      BY <2>3, <3>1, Zenon
    <3>3. <<p[1], p[2]>> \in Uses(data', m)
      BY <2>1, <3>2
    <3> QED BY <3>1, <3>3, Zenon
  <2> QED BY <2>2, <2>3
<1>5. <<at, i>> \in Uses(data, m)
  BY <1>1, UsesIs
<1>6. IsFiniteSet(Uses(data, m))
  BY UsesFinite
<1> QED BY <1>3, <1>4, <1>5, <1>6, FS_RemoveElement

LEMMA ClearEntryLinks ==
    ASSUME UseInv, UseInv', LinkInv, ~freed, ClearEntry
    PROVE  LinkInv'
<1> DEFINE at == tool.at
           i == FirstOf(data[at], tool.name)
           none == Record(0, NoName, "none", data[at][i].rec_len)
<1>1. /\ inode' = inode /\ tool.pc = "clear"
      /\ data' = [data EXCEPT ![at][i] = none]
      /\ tool' = [tool EXCEPT !.pc = "drop"]
  BY DEF ClearEntry, At, Goto, FirstOf
<1>2. tool'.pc = "drop" /\ tool'.ino = tool.ino
  BY <1>1, GotoTyped DEF UseInv, Labels
<1>3. none.inode = 0
  BY DEF Record
<1> HIDE DEF none, i
<1>4. /\ tool.ino \in Inodes /\ i \in DOMAIN data[at] /\ data[at][i].inode = tool.ino
  BY <1>1 DEF LinkInv, ClearsOwn, Entry, i
<1>5. at \in 0..BLOCK_NUM /\ at # 0 /\ 0 \in 0..BLOCK_NUM /\ data[at] \in Seq(RecordType)
  BY <1>4, ToolParts, DataParts DEF UseInv, LinkInv
<1>6. /\ DOMAIN data'[at] = DOMAIN data[at] /\ data'[at][i] = none
      /\ \A k \in DOMAIN data[at] : k # i => data'[at][k] = data[at][k]
      /\ \A b \in (0..BLOCK_NUM) \ {at} : data'[b] = data[b]
  BY <1>1, <1>4, <1>5 DEF UseInv, Typed
<1>7. /\ Cardinality(Uses(data', tool.ino)) = Cardinality(Uses(data, tool.ino)) - 1
      /\ \A n \in Inodes : n # tool.ino => Uses(data', n) = Uses(data, n)
  <2> DEFINE m == tool.ino
  <2> HIDE DEF m, at
  <2>1. data[at][i].inode = m /\ data'[at][i].inode = 0 /\ m \in Inodes
    BY <1>3, <1>4, <1>6 DEF m
  <2>2. /\ Cardinality(Uses(data', m)) = Cardinality(Uses(data, m)) - 1
        /\ \A n \in Inodes : n # m => Uses(data', n) = Uses(data, n)
    BY <1>4, <1>5, <1>6, <2>1, UsesRemoved DEF UseInv
  <2> QED BY <2>2 DEF m
<1>8. tool'.pc \notin Storing /\ tool'.pc # "clear"
  BY <1>2 DEF Storing
<1>9. ASSUME NEW n \in Inodes, inode[n].kind # "dir" PROVE Covered(n)'
  <2>1. Covered(n)
    BY <1>9 DEF LinkInv
  <2>2. CASE n = tool.ino
    <3>1. Owed(n) = 0 /\ Owed(n)' \in {0, 1}
      BY <1>1 DEF Owed, Owes, Naming
    <3>2. Cardinality(Uses(data, n)) \in Nat /\ inode[n].links \in Int
      BY UsesFinite, FS_CardinalityType, InodeParts DEF UseInv, UShorts
    <3>3. Cardinality(Uses(data', n)) = Cardinality(Uses(data, n)) - 1
      BY <1>7, <2>2
    <3> QED BY <1>1, <2>1, <3>1, <3>2, <3>3 DEF Covered
  <2>3. CASE n # tool.ino
    <3>1. Owed(n) = 0 /\ Owed(n)' = 0
      BY <1>1, <1>2, <2>3 DEF Owed, Owes, Naming
    <3>2. Uses(data', n) = Uses(data, n)
      BY <1>7, <2>3
    <3> QED BY <1>1, <2>1, <3>1, <3>2 DEF Covered
  <2> QED BY <2>2, <2>3
<1>10. data'[0] = <<>>
  BY <1>5, <1>6 DEF LinkInv
<1> QED BY <1>1, <1>8, <1>9, <1>10 DEF LinkInv

LEMMA MkdirStartsLinks ==
    ASSUME UseInv, UseInv', LinkInv, MkdirStarts
    PROVE  LinkInv'
<1>1. PICK r \in {q \in Requests : q.op = "mkdir"} :
         /\ Starts /\ UNCHANGED image
         /\ \/ Hang("mkdir")
            \/ tool' = [Idle EXCEPT !.op = "mkdir", !.pc = "inode",
                                    !.dir = find_dir_inode(r.dir), !.name = r.name]
  BY Zenon DEF MkdirStarts
<1>2. ~freed /\ UNCHANGED <<inode, data>>
  BY <1>1, Starting DEF image
<1>3. tool'.pc \in {"endless", "inode"}
  BY <1>1 DEF Idle, Hang
<1>4. tool'.pc \in Silent
  BY <1>3 DEF Silent, Naming, Storing, Labels
<1> QED BY <1>2, <1>4, LinksSilent

LEMMA LnStartsLinks ==
    ASSUME UseInv, UseInv', LinkInv, LnStarts
    PROVE  LinkInv'
<1>1. PICK r \in {q \in Requests : q.op \in {"ln", "ln_s"}} :
        LET target == find_dir_inode(r.dir)
            source == IF target < 0 THEN target ELSE find_dir_inode(r.from)
            found == IF source < 0 THEN Record(source, NoName, "none", 0)
                     ELSE Scan(DirBlocks(source), r.of)
        IN  /\ Starts /\ UNCHANGED image
            /\ \/ Hang(r.op)
               \/ tool' = [Idle EXCEPT
                                !.op = r.op, !.dir = target, !.name = r.name,
                                !.pc = IF r.op = "ln" THEN "count" ELSE "check",
                                !.ino = found.inode]
  BY Zenon DEF LnStarts
<1>2. ~freed /\ UNCHANGED <<inode, data>>
  BY <1>1, Starting DEF image
<1>3. tool'.pc = "endless" \/ (tool'.pc = "count" /\ tool'.op = "ln") \/ (tool'.pc = "check" /\ tool'.op = "ln_s")
  BY <1>1 DEF Idle, Hang
<1>4. ~Owes' /\ tool'.pc \notin Storing /\ tool'.pc # "clear"
  BY <1>3 DEF Owes, Storing, Naming
<1> QED BY <1>2, <1>4, LinksRest

\* rm finds the record it will clear and, with it, the inode.
LEMMA RmStartsLinks ==
    ASSUME UseInv, UseInv', LinkInv, RmStarts
    PROVE  LinkInv'
<1>1. PICK r \in {q \in Requests : q.op = "rm"} :
        LET parent == find_dir_inode(r.dir)
            found == IF parent < 0 THEN Record(parent, NoName, "none", 0)
                     ELSE Scan(DirBlocks(parent), r.name)
        IN  /\ Starts /\ UNCHANGED image
            /\ \/ Hang("rm")
               \/ /\ found.inode > 0
                  /\ tool' = [Idle EXCEPT
                                !.op = "rm", !.pc = "clear", !.dir = parent,
                                !.name = r.name, !.ino = found.inode,
                                !.at = BlockNaming(parent, r.name)]
  BY Zenon DEF RmStarts
<1> DEFINE parent == find_dir_inode(r.dir)
           found == IF parent < 0 THEN Record(parent, NoName, "none", 0)
                    ELSE Scan(DirBlocks(parent), r.name)
           at == BlockNaming(parent, r.name)
           i == FirstOf(data[at], r.name)
<1>2. /\ ~freed /\ UNCHANGED <<inode, data>>
      /\ r.dir \in Seq(Given) /\ r.name \in Given
  BY <1>1, Starting, RequestsAssumption DEF image
<1>3. CASE Hang("rm")
  BY <1>2, <1>3, IdleSilent, LinksSilent DEF Hang
<1>4. CASE /\ found.inode > 0
           /\ tool' = [Idle EXCEPT !.op = "rm", !.pc = "clear", !.dir = parent, !.name = r.name,
                                   !.ino = found.inode, !.at = at]
  <2>1. /\ parent \in Int
        /\ parent >= 0 => parent \in Inodes /\ inode[parent].kind = "dir"
    BY <1>2, FoundDirectory
  <2> HIDE DEF parent
  <2>2. parent >= 0
    BY <1>4, <2>1 DEF Record
  <2>3. found = Scan(DirBlocks(parent), r.name)
    BY <2>1, <2>2
  <2> HIDE DEF found
  <2>4. found.inode \in Inodes
    BY <1>2, <1>4, <2>1, <2>2, <2>3, FoundRecord
  <2>5. i \in DOMAIN data[at] /\ found = data[at][i]
    BY <1>2, <1>4, <2>1, <2>2, <2>3, NamingBlock
  <2> HIDE DEF at
  <2>6. tool'.pc = "clear" /\ tool'.ino = found.inode /\ tool'.at = at /\ tool'.name = r.name
    BY <1>4 DEF Idle
  <2>7. Entry' = i
    BY <1>2, <2>6 DEF Entry
  <2> HIDE DEF i
  <2>8. ClearsOwn'
    BY <1>2, <2>4, <2>5, <2>6, <2>7 DEF ClearsOwn
  <2>9. ~Owes' /\ tool'.pc \notin Storing
    BY <2>6 DEF Owes, Storing, Naming
  <2> QED BY <1>2, <2>8, <2>9, LinksRest
<1> QED BY <1>1, <1>3, <1>4

LEMMA MkdirLinks ==
    ASSUME CountInv, UseInv, UseInv', LinkInv, Roomy, Mkdir PROVE LinkInv'
<1>1. CASE MkdirStarts
  BY <1>1, MkdirStartsLinks
<1>2. SUFFICES ASSUME ~MkdirStarts PROVE LinkInv'
  BY <1>1
<1>3. tool.op = "mkdir" /\ tool.pc \notin Freeing \cup {"idle"}
  BY <1>2 DEF Mkdir, MkdirCountInode, MkdirMarkInode, MkdirSetInode, MkdirAssignBlock,
              MkdirMarkBlock, MkdirCountBlock, Fill, MkdirFindRoom, MkdirEnter, MkdirGrow,
              MkdirGrowSize, LinkParent, At, Freeing
<1>4. ~freed
  BY <1>3 DEF UseInv
<1>6. CASE MkdirCountInode
  BY <1>4, <1>6, CountInodeLinks DEF MkdirCountInode
<1>7. CASE MkdirMarkInode
  BY <1>4, <1>7, MarkInodeLinks DEF MkdirMarkInode
<1>8. CASE MkdirSetInode
  <2>1. /\ tool.pc = "set_inode" /\ SetInode("dir", 1, 2)
        /\ <<"dir", 2, tool.op>> \in {<<"dir", 2, "mkdir">>, <<"symlink", 1, "ln_s">>}
    BY <1>3, <1>8 DEF MkdirSetInode, At
  <2> QED BY <1>4, <2>1, SetInodeLinks
<1>9. CASE MkdirAssignBlock
  BY <1>4, <1>9, AssignBlockLinks DEF MkdirAssignBlock, At
<1>10. CASE MkdirMarkBlock
  <2>1. /\ UNCHANGED <<data, inode>> /\ tool.pc \in Storing \cap Naming /\ Goto("count_block")
    BY <1>10 DEF MkdirMarkBlock, At, MarkBlock, Storing, Naming
  <2> QED BY <1>4, <2>1, GotoLinks
<1>11. CASE MkdirCountBlock
  <2>1. /\ UNCHANGED <<data, inode>> /\ tool.pc \in Storing \cap Naming
        /\ Goto(AfterBlock) /\ AfterBlock \in {"count_block", "fill", "grow"}
    BY <1>11 DEF MkdirCountBlock, At, CountBlock, Storing, Naming, AfterBlock
  <2> QED BY <1>4, <2>1, GotoLinks
<1>12. CASE Fill
  BY <1>4, <1>12, FillLinks
<1>13. CASE MkdirFindRoom
  BY <1>3, <1>4, <1>13, FindRoomLinks DEF MkdirFindRoom, At
<1>14. CASE MkdirEnter
  BY <1>3, <1>4, <1>14, EnterRecordLinks DEF MkdirEnter, At, Kinds
<1>15. CASE MkdirGrow
  BY <1>3, <1>4, <1>15, GrowRecordLinks DEF MkdirGrow, At, Kinds
<1>16. CASE MkdirGrowSize
  BY <1>4, <1>16, GrowSizeLinks DEF MkdirGrowSize, At
<1>17. CASE LinkParent
  BY <1>4, <1>17, LinkParentLinks
<1> QED BY <1>2, <1>6, <1>7, <1>8, <1>9, <1>10, <1>11, <1>12, <1>13, <1>14, <1>15, <1>16, <1>17
        DEF Mkdir

LEMMA LnLinks ==
    ASSUME CountInv, UseInv, UseInv', LinkInv, Roomy, LinksFit, Ln PROVE LinkInv'
<1>1. CASE LnStarts
  BY <1>1, LnStartsLinks
<1>2. SUFFICES ASSUME ~LnStarts PROVE LinkInv'
  BY <1>1
<1>3. tool.op \in {"ln", "ln_s"} /\ tool.pc \notin Freeing \cup {"idle"}
  BY <1>2 DEF Ln, CountLink, CheckTarget, LnCountInode, LnMarkInode, LnSetInode, LnAssignBlock,
              LnMarkBlock, LnCountBlock, WriteTarget, LnFindRoom, LnEnter, LnGrow, LnGrowSize,
              At, Linking, Freeing
<1>4. ~freed
  BY <1>3 DEF UseInv
<1>5. LinkType \in Kinds /\ tool.op \in {"mkdir", "ln", "ln_s"}
  BY <1>3 DEF LinkType, Kinds
<1>6. CASE CountLink
  BY <1>4, <1>6, CountLinkLinks
<1>7. CASE CheckTarget
  BY <1>4, <1>7, CheckTargetLinks
<1>8. CASE LnCountInode
  BY <1>4, <1>8, CountInodeLinks DEF LnCountInode
<1>9. CASE LnMarkInode
  BY <1>4, <1>9, MarkInodeLinks DEF LnMarkInode
<1>10. CASE LnSetInode
  <2>1. /\ tool.pc = "set_inode" /\ SetInode("symlink", 0, 1)
        /\ <<"symlink", 1, tool.op>> \in {<<"dir", 2, "mkdir">>, <<"symlink", 1, "ln_s">>}
    BY <1>10 DEF LnSetInode, At
  <2> QED BY <1>4, <2>1, SetInodeLinks
<1>11. CASE LnAssignBlock
  BY <1>4, <1>11, AssignBlockLinks DEF LnAssignBlock, Linking
<1>12. CASE LnMarkBlock
  <2>1. /\ UNCHANGED <<data, inode>> /\ tool.pc \in Storing \cap Naming /\ Goto("count_block")
    BY <1>12 DEF LnMarkBlock, Linking, MarkBlock, Storing, Naming
  <2> QED BY <1>4, <2>1, GotoLinks
<1>13. CASE LnCountBlock
  <2>1. /\ UNCHANGED <<data, inode>> /\ tool.pc \in Storing \cap Naming
        /\ Goto(AfterBlock) /\ AfterBlock \in {"count_block", "fill", "grow"}
    BY <1>13 DEF LnCountBlock, Linking, CountBlock, Storing, Naming, AfterBlock
  <2> QED BY <1>4, <2>1, GotoLinks
<1>14. CASE WriteTarget
  BY <1>4, <1>14, WriteTargetLinks
<1>15. CASE LnFindRoom
  BY <1>4, <1>5, <1>15, FindRoomLinks DEF LnFindRoom, Linking
<1>16. CASE LnEnter
  BY <1>4, <1>5, <1>16, EnterRecordLinks DEF LnEnter, Linking
<1>17. CASE LnGrow
  BY <1>4, <1>5, <1>17, GrowRecordLinks DEF LnGrow, Linking
<1>18. CASE LnGrowSize
  BY <1>4, <1>18, GrowSizeLinks DEF LnGrowSize, Linking
<1> QED BY <1>2, <1>6, <1>7, <1>8, <1>9, <1>10, <1>11, <1>12, <1>13, <1>14, <1>15, <1>16, <1>17,
           <1>18 DEF Ln

LEMMA RmLinks ==
    ASSUME CountInv, UseInv, UseInv', LinkInv, Rm PROVE LinkInv'
<1>1. CASE RmStarts
  BY <1>1, RmStartsLinks
<1>2. CASE ClearEntry
  BY <1>2, ClearEntryLinks DEF ClearEntry, At, UseInv, Freeing
<1>3. CASE DropLink
  BY <1>3, DropLinkLinks DEF DropLink, At, UseInv, Freeing
<1>4. CASE FreeInode
  BY <1>4 DEF FreeInode, LinkInv
<1>5. CASE FreeBlock \/ FreeIndirect
  <2>1. freed /\ freed'
    BY <1>5 DEF FreeBlock, FreeIndirect, FreeBlocks, Bookkeeping, At, CountInv, Freeing
  <2> QED BY <2>1 DEF LinkInv
<1> QED BY <1>1, <1>2, <1>3, <1>4, <1>5 DEF Rm

LEMMA StepLinks ==
    ASSUME CountInv, UseInv, UseInv', LinkInv, Roomy, LinksFit, [Next]_vars PROVE LinkInv'
<1>1. CASE Mkdir \/ Ln \/ Rm
  BY <1>1, MkdirLinks, LnLinks, RmLinks
<1>2. CASE Killed
  <2>1. UNCHANGED <<inode, data, freed>> /\ tool'.pc \in Silent
    BY <1>2, IdleSilent DEF Killed, Stop, image
  <2>2. CASE freed
    BY <2>1, <2>2 DEF LinkInv
  <2> QED BY <2>1, <2>2, LinksSilent
<1>3. CASE UNCHANGED vars
  BY <1>3 DEF vars, image, LinkInv, Covered, Owed, Owes, ClearsOwn, Entry
<1> QED BY <1>1, <1>2, <1>3 DEF Next

LEMMA InitLinks == Init => LinkInv
<1> SUFFICES ASSUME Init PROVE LinkInv
  OBVIOUS
<1>1. inode = FirstImage.inode /\ data = FirstImage.data /\ tool = Idle
  BY DEF Init
<1>2. /\ data[0] = <<>>
      /\ \A n \in Inodes : inode[n].kind # "dir" => Cardinality(Uses(data, n)) <= inode[n].links
  BY <1>1, FirstImageAssumption, Zenon
<1>3. tool.pc \in Silent
  BY <1>1, IdleSilent
<1>4. ~Owes
  BY <1>3 DEF Owes, Silent
<1>5. Typed
  BY InitUse DEF UseInv
<1>6. ASSUME NEW n \in Inodes, inode[n].kind # "dir" PROVE Covered(n)
  <2>1. Owed(n) = 0 /\ Cardinality(Uses(data, n)) \in Nat
    BY <1>4, <1>5, UsesFinite, FS_CardinalityType DEF Owed
  <2> QED BY <1>2, <1>6, <2>1 DEF Covered
<1> QED BY <1>2, <1>3, <1>6 DEF LinkInv, Silent

LEMMA ReachRecorded == UseInv => Reachable \subseteq Recorded(data) /\ Reachable \subseteq Inodes
BY RecordsReach, ReachableIn, FoundParts DEF UseInv

LEMMA NamesLie ==
    ASSUME UseInv, ~freed, data[0] = <<>>, NEW d \in Directories, NEW r \in NamedBy(d)
    PROVE  \E b, k : /\ b \in BlocksOf(d) /\ <<b, k>> \in Uses(data, r.inode)
                     /\ data[b][k] = r
<1>1. d \in Inodes /\ inode[d].kind = "dir"
  BY ReachRecorded DEF Directories
<1>2. /\ DirBlocks(d) \in Seq(0..BLOCK_NUM) /\ Len(DirBlocks(d)) = inode[d].size
      /\ \A j \in 1..inode[d].size :
            /\ DirBlocks(d)[j] = inode[d].i_block[j - 1]
            /\ DirBlocks(d)[j] \in 0..BLOCK_NUM
            /\ Records(DirBlocks(d)[j]) = data[DirBlocks(d)[j]]
  BY <1>1, DirectoryBlocks
<1>3. PICK b \in ToSet(DirBlocks(d)) : r \in ToSet(Records(b))
  BY DEF NamedBy, RecordsOf
<1>4. PICK j \in 1..inode[d].size : b = DirBlocks(d)[j]
  BY <1>2, <1>3 DEF ToSet
<1>5. b = inode[d].i_block[j - 1] /\ b \in 0..BLOCK_NUM /\ Records(b) = data[b]
  BY <1>2, <1>4
<1>6. PICK k \in DOMAIN data[b] : data[b][k] = r
  BY <1>3, <1>5 DEF ToSet
<1>7. b # 0
  BY <1>6
<1>8. <<b, k>> \in Uses(data, r.inode)
  BY <1>5, <1>6, DataParts, UsesIs DEF UseInv
<1>9. b \in BlocksOf(d)
  <2>1. inode[d].size = inode[d].nblocks /\ inode[d].nblocks \in Nat /\ inode[d].nblocks <= DIRECT
    BY <1>1, InodeParts DEF UseInv, ImageInv, DirsDirect
  <2>2. BlocksOf(d) = {inode[d].i_block[k_1] : k_1 \in 0..inode[d].nblocks - 1} \ {0}
    BY <2>1, BlocksDirect DEF BlocksOf
  <2>3. j - 1 \in 0..inode[d].nblocks - 1
    BY <2>1
  <2> QED BY <2>2, <2>3, <1>5, <1>7
<1> QED BY <1>6, <1>8, <1>9

LEMMA NameParts ==
    ASSUME NEW e \in Names
    PROVE  /\ e = [dir |-> e.dir, name |-> e.name, inode |-> e.inode] /\ e.dir \in Directories
           /\ \E r \in NamedBy(e.dir) : r.name = e.name /\ r.inode = e.inode
<1>1. PICK d \in Directories :
         e \in {[dir |-> d, name |-> r.name, inode |-> r.inode] : r \in NamedBy(d)}
  BY Zenon DEF Names
<1>2. PICK r \in NamedBy(d) : e = [dir |-> d, name |-> r.name, inode |-> r.inode]
  BY <1>1
<1>3. e.dir = d /\ e.name = r.name /\ e.inode = r.inode
  BY <1>2
<1> QED BY <1>2, <1>3

\* Every name of an inode is in a record of its own, for the blocks of two
\* directories are disjoint.
LEMMA NamesUse ==
    ASSUME UseInv, ~freed, data[0] = <<>>, NEW n
    PROVE  LET S == {e \in Names : e.inode = n} IN
           Cardinality(S) \in Nat /\ Cardinality(S) <= Cardinality(Uses(data, n))
<1> DEFINE S == {e \in Names : e.inode = n}
           T == Uses(data, n)
           Place(e) == CHOOSE p \in T : p[1] \in BlocksOf(e.dir) /\ data[p[1]][p[2]].name = e.name
           f == [e \in S |-> Place(e)]
<1>1. ASSUME NEW e \in S
      PROVE  /\ Place(e) \in T /\ Place(e)[1] \in BlocksOf(e.dir)
             /\ data[Place(e)[1]][Place(e)[2]].name = e.name
  <2>1. e.dir \in Directories /\ \E r \in NamedBy(e.dir) : r.name = e.name /\ r.inode = n
    BY NameParts
  <2>2. PICK r \in NamedBy(e.dir) : r.name = e.name /\ r.inode = n
    BY <2>1
  <2>3. PICK b, k : b \in BlocksOf(e.dir) /\ <<b, k>> \in T /\ data[b][k] = r
    BY <2>1, <2>2, NamesLie
  <2> DEFINE p == <<b, k>>
  <2>4. p \in T /\ p[1] \in BlocksOf(e.dir) /\ data[p[1]][p[2]].name = e.name
    BY <2>2, <2>3
  <2> HIDE DEF p, T
  <2> QED BY <2>4, Zenon
<1>2. ASSUME NEW e \in S, NEW g \in S, Place(e) = Place(g) PROVE e = g
  <2> HIDE DEF Place
  <2>1. e.name = g.name /\ e.inode = g.inode
    BY <1>1, <1>2
  <2>2. e.dir = g.dir
    <3>1. e.dir \in Reachable /\ g.dir \in Reachable
      BY NameParts DEF Directories
    <3>2. Reachable \subseteq Held /\ InUse(Held, inode, inode_bitmap, block_bitmap)
      BY ReachRecorded DEF UseInv, ImageInv, Held
    <3>3. Place(e)[1] \in BlocksIn(inode, e.dir) /\ Place(e)[1] \in BlocksIn(inode, g.dir)
      BY <1>1, <1>2 DEF BlocksOf
    <3> HIDE DEF S
    <3> QED BY <3>1, <3>2, <3>3 DEF InUse
  <2>3. /\ e = [dir |-> e.dir, name |-> e.name, inode |-> e.inode]
        /\ g = [dir |-> g.dir, name |-> g.name, inode |-> g.inode]
    BY NameParts
  <2> QED BY <2>1, <2>2, <2>3
<1> HIDE DEF Place, S, T
<1>3. f \in Injection(S, T)
  BY <1>1, <1>2 DEF Injection, IsInjective
<1>4. IsFiniteSet(T)
  BY UsesFinite DEF UseInv, T
<1> HIDE DEF f
<1>5. Cardinality(S) \in Nat /\ Cardinality(S) <= Cardinality(T)
  BY <1>3, <1>4, FS_Injection, FS_CardinalityType, Zenon
<1> QED BY <1>5 DEF S, T

LEMMA LinksHeld == UseInv /\ LinkInv => LinksCover
<1> SUFFICES ASSUME UseInv, LinkInv, ~freed, NEW n \in Reachable \ Directories
             PROVE  Cardinality({e \in Names : e.inode = n}) <= inode[n].links
  BY DEF LinksCover
<1>1. n \in Inodes /\ inode[n].kind # "dir"
  BY ReachRecorded DEF Directories
<1>2. Covered(n) /\ data[0] = <<>>
  BY <1>1 DEF LinkInv
<1> DEFINE a == Cardinality({e \in Names : e.inode = n})
           u == Cardinality(Uses(data, n))
<1>3. u \in Nat /\ inode[n].links \in Int
  BY <1>1, UsesFinite, FS_CardinalityType, InodeParts DEF UseInv, Typed, UShorts
<1>4. a \in Nat /\ a <= u
  BY <1>2, NamesUse
<1>5. Owed(n) \in {0, 1}
  BY DEF Owed
<1> QED BY <1>2, <1>3, <1>4, <1>5 DEF Covered

\* The property of the runs, as a theorem: no file has more names than links,
\* whatever tools ran and wherever one of them was killed, because ln raises the
\* count before it enters the name (ext2_ln.c:182) and rm takes the name away
\* before it lowers the count (ext2_rm.c:139).  It holds as long as a tool that
\* looks for a block finds one (Roomy) and no count that ln raises is at the end
\* of its unsigned short (LinksFit).
THEOREM LinksCoverNames == Spec /\ []Roomy /\ []LinksFit => []LinksCover
<1>1. Init => CountInv /\ UseInv /\ LinkInv
  BY CountInit, InitUse, InitLinks
<1>2. CountInv /\ UseInv /\ LinkInv /\ Roomy /\ LinksFit /\ [Next]_vars => CountInv' /\ UseInv' /\ LinkInv'
  BY StepUse, CountNext, StepLinks
<1> QED BY <1>1, <1>2, LinksHeld, PTL DEF Spec

-----------------------------------------------------------------------------
(* What a killed tool leaves marked.                                       *)

\* The inode a tool has marked and not yet set up, and the block it has marked
\* and not yet counted into the directory.
Unready == IF tool.pc = "set_inode" THEN {tool.ino} ELSE {}
Adding == {"count_block", "grow", "grow_size"}
Unjoined == IF Growing /\ tool.pc \in Adding THEN {tool.at} ELSE {}

Owned == UNION {BlocksOf(n) : n \in inode_bitmap}
Unset == {n \in inode_bitmap : inode[n].kind = "none"} \ Unready
Unowned == (block_bitmap \ Owned) \ Unjoined
Reserved == Cardinality(FirstImage.reserved_inodes) + Cardinality(FirstImage.reserved_blocks)

LeakInv == ~freed => Cardinality(Unset) + Cardinality(Unowned) <= Reserved + kills

LEMMA OwnedIs == ASSUME NEW b PROVE b \in Owned <=> \E n \in inode_bitmap : b \in BlocksOf(n)
BY DEF Owned

LEMMA LeaksFinite ==
    ASSUME CountInv, ~freed
    PROVE  /\ IsFiniteSet(Unset) /\ Cardinality(Unset) \in Nat
           /\ IsFiniteSet(Unowned) /\ Cardinality(Unowned) \in Nat
<1>1. Unset \in SUBSET inode_bitmap /\ Unowned \in SUBSET block_bitmap
  BY DEF Unset, Unowned
<1>2. IsFiniteSet(Unset) /\ IsFiniteSet(Unowned)
  BY <1>1, BitmapsFinite, FS_Subset, Zenon
<1> QED BY <1>2, FS_CardinalityType

LEMMA ReservedNat == Reserved \in Nat
<1>1. IsFiniteSet(FirstImage.reserved_inodes) /\ IsFiniteSet(FirstImage.reserved_blocks)
  BY FirstImageAssumption, Zenon
<1> QED BY <1>1, FS_CardinalityType DEF Reserved

\* A step that loses nothing.
LEMMA LeakKept ==
    ASSUME CountInv, LeakInv, ~freed, ~freed', kills' = kills,
           Unset' \subseteq Unset, Unowned' \subseteq Unowned
    PROVE  LeakInv'
<1>1. Cardinality(Unset') <= Cardinality(Unset) /\ IsFiniteSet(Unset')
  <2>1. Unset' \in SUBSET Unset
    OBVIOUS
  <2> QED BY <2>1, LeaksFinite, FS_Subset, Zenon
<1>2. Cardinality(Unowned') <= Cardinality(Unowned) /\ IsFiniteSet(Unowned')
  <2>1. Unowned' \in SUBSET Unowned
    OBVIOUS
  <2> QED BY <2>1, LeaksFinite, FS_Subset, Zenon
<1>3. /\ Cardinality(Unset) \in Nat /\ Cardinality(Unset') \in Nat
      /\ Cardinality(Unowned) \in Nat /\ Cardinality(Unowned') \in Nat
  BY <1>1, <1>2, LeaksFinite, FS_CardinalityType
<1>4. Reserved \in Nat /\ Reserved' = Reserved /\ kills \in Nat
  BY ReservedNat DEF CountInv, Reserved
<1> QED BY <1>1, <1>2, <1>3, <1>4 DEF LeakInv

LEMMA LeakStays ==
    ASSUME CountInv, LeakInv, ~freed, ~freed', kills' = kills,
           UNCHANGED <<inode_bitmap, block_bitmap>>, Alike,
           Unready \subseteq Unready', Unjoined \subseteq Unjoined'
    PROVE  LeakInv'
<1>1. inode_bitmap \subseteq Inodes
  BY DEF CountInv
<1>2. Unset' \subseteq Unset
  BY <1>1 DEF Unset, Alike
<1>3. Owned' = Owned
  BY <1>1 DEF Owned, Alike, BlocksOf
<1>4. Unowned' \subseteq Unowned
  BY <1>3 DEF Unowned
<1> QED BY <1>2, <1>4, LeakKept

LEMMA LeakQuiet ==
    ASSUME CountInv, LeakInv, ~freed, ~freed', kills' = kills,
           UNCHANGED <<inode_bitmap, block_bitmap>>, Alike, tool.pc \notin Adding \cup {"set_inode"}
    PROVE  LeakInv'
<1>1. Unready = {} /\ Unjoined = {}
  BY DEF Unready, Unjoined
<1> QED BY <1>1, LeakStays

LEMMA LinksAlike ==
    ASSUME Typed, NEW m, NEW x, inode' = [inode EXCEPT ![m].links = x]
    PROVE  Alike
<1>1. \A n \in Inodes : /\ inode'[n].kind = inode[n].kind
                        /\ inode'[n].nblocks = inode[n].nblocks
                        /\ inode'[n].i_block = inode[n].i_block
  BY DEF Typed, InodeType
<1> QED BY <1>1, FieldsAlike, Zenon

LEMMA MarkInodeLeaks ==
    ASSUME CountInv, UseInv, LeakInv, ~freed, tool.pc = "mark_inode", MarkInode
    PROVE  LeakInv'
<1>1. /\ UNCHANGED <<block_bitmap, inode, freed, kills>>
      /\ inode_bitmap' = inode_bitmap \cup {tool.ino}
      /\ tool' = [tool EXCEPT !.pc = "set_inode"]
  BY DEF MarkInode, set_inode_bitmap, Goto, Bookkeeping
<1>2. tool'.pc = "set_inode" /\ tool'.ino = tool.ino
  BY <1>1, GotoTyped DEF UseInv, Labels
<1>3. Unready' = {tool.ino} /\ Unready = {} /\ Unjoined = {}
  BY <1>2 DEF Unready, Unjoined, Adding
<1>4. Unset' \subseteq Unset
  BY <1>1, <1>3 DEF Unset
<1>5. Owned \subseteq Owned'
  BY <1>1 DEF Owned, BlocksOf
<1>6. Unowned' \subseteq Unowned
  BY <1>1, <1>3, <1>5 DEF Unowned
<1> QED BY <1>1, <1>4, <1>6, LeakKept

LEMMA SetInodeLeaks ==
    ASSUME CountInv, UseInv, LeakInv, ~freed, tool.pc = "set_inode",
           NEW kind \in {"dir", "symlink"}, NEW size, NEW links, SetInode(kind, size, links)
    PROVE  LeakInv'
<1> DEFINE m == tool.ino
           i == [inode[m] EXCEPT !.kind = kind, !.size = size, !.links = links, !.nblocks = 1]
<1>1. /\ UNCHANGED <<inode_bitmap, block_bitmap, freed, kills>> /\ inode' = [inode EXCEPT ![m] = i]
      /\ tool' = [tool EXCEPT !.pc = "block", !.own = TRUE]
  BY DEF SetInode, Bookkeeping
<1>2. Made(m) /\ Fresh(m)
  BY DEF UseInv, ToolInv
<1>3. m \in Inodes /\ inode[m] \in InodeType
  BY <1>2, MarkedAreInodes, InodeParts DEF Made, UseInv
<1>4. i.kind = kind
  BY <1>3 DEF InodeType
<1> HIDE DEF i
<1>5. inode'[m] = i /\ \A n \in Inodes \ {m} : inode'[n] = inode[n]
  BY <1>1, <1>3 DEF UseInv, Typed
<1>6. Unready = {m} /\ Unjoined = {} /\ inode_bitmap \subseteq Inodes
  BY DEF Unready, Unjoined, Adding, CountInv
<1>7. inode'[m].kind # "none"
  BY <1>4, <1>5
<1>8. Unset' \subseteq Unset
  <2>1. \A n \in inode_bitmap \ {m} : inode'[n].kind = inode[n].kind
    BY <1>5, <1>6
  <2> QED BY <1>1, <1>6, <1>7, <2>1 DEF Unset
<1>9. BlocksIn(inode, m) = {}
  <2>1. inode[m].nblocks = 0 /\ 0 <= DIRECT
    BY <1>2, Constants DEF Fresh
  <2>2. BlocksIn(inode, m) = {inode[m].i_block[k] : k \in 0..inode[m].nblocks - 1} \ {0}
    BY <2>1, BlocksDirect
  <2> QED BY <2>1, <2>2
<1>10. Owned \subseteq Owned'
  <2>1. \A n \in Inodes \ {m} : BlocksIn(inode', n) = BlocksIn(inode, n)
    BY <1>5, BlocksSame
  <2> QED BY <1>1, <1>6, <1>9, <2>1 DEF Owned, BlocksOf
<1>11. Unowned' \subseteq Unowned
  BY <1>1, <1>6, <1>10 DEF Unowned
<1> QED BY <1>1, <1>8, <1>11, LeakKept

LEMMA AssignBlockLeaks ==
    ASSUME CountInv, UseInv, LeakInv, ~freed, Roomy, tool.pc = "block", NEW U, AssignBlock(U)
    PROVE  LeakInv'
<1> DEFINE b == Min(get_block_bitmap)
           m == Holder
<1>1. /\ UNCHANGED <<inode_bitmap, block_bitmap, freed, kills>>
      /\ StoresPointer(m, Slot, b)
  BY DEF StoresPointer, AssignBlock, Roomy, Bookkeeping
<1>2. b \in 0..BLOCK_NUM
  <2>1. get_block_bitmap \subseteq Nat /\ get_block_bitmap \subseteq Blocks /\ get_block_bitmap # {}
    BY DEF get_block_bitmap, Blocks, Roomy
  <2>2. b \in Blocks
    BY <2>1, LeastIs
  <2> QED BY <2>2 DEF Blocks
<1> HIDE DEF b
<1>3. /\ m \in Inodes /\ Slot \in Nat /\ Slot < DIRECT
      /\ inode[m].nblocks <= Slot \/ (Slot = 0 /\ inode[m].nblocks = 1 /\ inode[m].i_block[0] = 0)
  <2>1. CASE tool.own
    <3>1. Own /\ m = tool.ino /\ Slot = 0
      BY <2>1 DEF Own, Giving, Holder, Slot
    <3>2. Made(m) /\ inode[m].nblocks = 1 /\ inode[m].i_block[0] = 0
      BY <3>1 DEF UseInv, ToolInv
    <3> QED BY <3>1, <3>2, MarkedAreInodes, Constants DEF Made
  <2>2. CASE ~tool.own
    <3>1. m = tool.dir /\ Slot = inode[m].size /\ tool.dir \in Recorded(data) /\ inode[tool.dir].kind = "dir"
      BY <2>2 DEF Holder, Slot, UseInv, ToolInv, Resting
    <3>2. m \in Inodes
      BY <3>1 DEF Recorded
    <3> QED BY <2>2, <3>1, <3>2, InodeParts DEF UseInv, ImageInv, DirsDirect, Roomy
  <2> QED BY <2>1, <2>2
<1> HIDE DEF m
<1> DEFINE s == Slot
<1>4. PICK i \in InodeType :
        /\ i.kind = inode[m].kind /\ inode'[m] = i
        /\ \A n \in Inodes \ {m} : inode'[n] = inode[n]
        /\ \A n \in Inodes : n # m \/ inode[m].nblocks <= s
                                => BlocksIn(inode', n) = BlocksIn(inode, n)
  <2>1. s \in Nat /\ s < DIRECT /\ StoresPointer(m, s, b)
    BY <1>1, <1>3
  <2> HIDE DEF s
  <2> QED BY <1>2, <1>3, <2>1, PointerSet
<1>5. BlocksIn(inode, m) \subseteq BlocksIn(inode', m)
  <2>1. CASE inode[m].nblocks <= s
    BY <1>3, <1>4, <2>1
  <2>2. CASE ~(inode[m].nblocks <= s)
    <3>1. inode[m].nblocks = 1 /\ inode[m].i_block[0] = 0 /\ 1 <= DIRECT
      BY <1>3, <2>2, Constants
    <3>2. BlocksIn(inode, m) = {inode[m].i_block[k] : k \in 0..inode[m].nblocks - 1} \ {0}
      BY <3>1, BlocksDirect
    <3>3. 0..inode[m].nblocks - 1 = {0}
      BY <3>1
    <3> QED BY <3>1, <3>2, <3>3
  <2> QED BY <2>1, <2>2
<1>6. \A n \in Inodes : /\ inode'[n].kind = inode[n].kind
                        /\ BlocksIn(inode, n) \subseteq BlocksIn(inode', n)
  BY <1>4, <1>5
<1>7. Unready = {} /\ Unjoined = {} /\ inode_bitmap \subseteq Inodes
  BY DEF Unready, Unjoined, Adding, CountInv
<1> HIDE DEF b
<1>8. Unset' \subseteq Unset
  BY <1>1, <1>6, <1>7 DEF Unset
<1>9. Owned \subseteq Owned'
  BY <1>1, <1>6, <1>7 DEF Owned, BlocksOf
<1>10. Unowned' \subseteq Unowned
  BY <1>1, <1>7, <1>9 DEF Unowned
<1> QED BY <1>1, <1>8, <1>10, LeakKept

LEMMA MarkBlockLeaks ==
    ASSUME CountInv, UseInv, LeakInv, ~freed, tool.pc = "mark_block", MarkBlock
    PROVE  LeakInv'
<1>1. /\ UNCHANGED <<inode_bitmap, inode, freed, kills>>
      /\ block_bitmap' = block_bitmap \cup {tool.at}
      /\ tool' = [tool EXCEPT !.pc = "count_block"]
  BY DEF MarkBlock, set_block_bitmap, Goto, Bookkeeping
<1>2. tool'.pc = "count_block" /\ tool'.at = tool.at /\ tool'.own = tool.own
  BY <1>1, GotoTyped DEF UseInv, Labels
<1>3. Unready = {} /\ Unready' = {} /\ Unjoined = {}
  BY <1>2 DEF Unready, Unjoined, Adding
<1>4. Unset' \subseteq Unset /\ Owned' = Owned
  BY <1>1, <1>3 DEF Unset, Owned, BlocksOf
<1>5. tool.at \in Unjoined' \/ tool.at \in Owned
  <2>1. CASE ~tool.own
    BY <1>2, <2>1 DEF Unjoined, Growing, Giving, Adding
  <2>2. CASE tool.own
    <3>1. Own
      BY <2>2 DEF Own, Giving
    <3>2. Made(tool.ino) /\ inode[tool.ino].nblocks = 1 /\ inode[tool.ino].i_block[0] = tool.at
      BY <3>1 DEF UseInv, ToolInv
    <3>3. tool.ino \in inode_bitmap
      BY <3>2 DEF Made
    <3>4. tool.at # 0 /\ 1 <= DIRECT
      BY Constants DEF CountInv, Blocks
    <3>5. BlocksIn(inode, tool.ino) = {inode[tool.ino].i_block[k] : k \in 0..inode[tool.ino].nblocks - 1} \ {0}
      BY <3>2, <3>4, BlocksDirect
    <3>6. 0 \in 0..inode[tool.ino].nblocks - 1
      BY <3>2
    <3>7. tool.at \in BlocksOf(tool.ino)
      BY <3>2, <3>4, <3>5, <3>6 DEF BlocksOf
    <3> QED BY <3>3, <3>7, OwnedIs
  <2> QED BY <2>1, <2>2
<1>6. Unowned' \subseteq Unowned
  BY <1>1, <1>3, <1>4, <1>5 DEF Unowned
<1> QED BY <1>1, <1>4, <1>6, LeakKept

LEMMA CountBlockLeaks ==
    ASSUME CountInv, UseInv, LeakInv, ~freed, tool.pc = "count_block", CountBlock
    PROVE  LeakInv'
<1>1. /\ UNCHANGED <<inode_bitmap, block_bitmap, inode, freed, kills>>
      /\ tool' = [tool EXCEPT !.pc = AfterBlock] /\ AfterBlock \in Labels
  BY DEF CountBlock, Goto, Bookkeeping, AfterBlock, Labels
<1>2. tool'.pc = AfterBlock /\ tool'.at = tool.at /\ tool'.own = tool.own
  BY <1>1, GotoTyped DEF UseInv
<1>3. Unready = {} /\ Unjoined \subseteq Unjoined'
  BY <1>2 DEF Unready, Unjoined, Adding, Growing, Giving, AfterBlock
<1> QED BY <1>1, <1>3, SameAlike, LeakStays

LEMMA GrowRecordLeaks ==
    ASSUME CountInv, UseInv, LeakInv, ~freed, tool.pc = "grow", NEW type, GrowRecord(type)
    PROVE  LeakInv'
<1>1. /\ UNCHANGED <<inode_bitmap, block_bitmap, inode, freed, kills>>
      /\ tool' = [tool EXCEPT !.pc = "grow_size"]
  BY DEF GrowRecord, Goto, Bookkeeping
<1>2. tool'.pc = "grow_size" /\ tool'.at = tool.at
  BY <1>1, GotoTyped DEF UseInv, Labels
<1>3. Unready = {} /\ Unjoined \subseteq Unjoined'
  BY <1>2 DEF Unready, Unjoined, Adding, Growing
<1> QED BY <1>1, <1>3, SameAlike, LeakStays

\* The block a directory grew by is now its own.
LEMMA GrowSizeLeaks ==
    ASSUME CountInv, UseInv, LeakInv, ~freed, tool.pc = "grow_size", NEW pc, GrowSize(pc)
    PROVE  LeakInv'
<1> DEFINE d == tool.dir
<1>1. UNCHANGED <<inode_bitmap, block_bitmap, freed, kills>>
  BY DEF GrowSize, Bookkeeping
<1>2. /\ d \in inode_bitmap /\ inode[d].kind = "dir"
      /\ BlocksIn(inode', d) = BlocksIn(inode, d) \cup {tool.at}
  BY GrowSizeAdds
<1>3. inode'[d].kind = "dir" /\ \A n \in Inodes \ {d} : inode'[n] = inode[n]
  BY GrowSizeAdds
<1> HIDE DEF d
<1>4. \A n \in Inodes \ {d} : BlocksIn(inode', n) = BlocksIn(inode, n)
  BY <1>3, BlocksSame
<1>5. inode_bitmap \subseteq Inodes /\ Unready = {} /\ Unjoined = {tool.at}
  BY DEF CountInv, Unready, Unjoined, Adding, Growing
<1>6. Unset' \subseteq Unset
  BY <1>1, <1>2, <1>3, <1>5 DEF Unset
<1>7. Owned \cup {tool.at} \subseteq Owned'
  <2>1. \A n \in inode_bitmap : BlocksIn(inode, n) \subseteq BlocksIn(inode', n)
    BY <1>2, <1>4, <1>5
  <2> QED BY <1>1, <1>2, <2>1 DEF Owned, BlocksOf
<1>8. Unowned' \subseteq Unowned
  BY <1>1, <1>5, <1>7 DEF Unowned
<1> QED BY <1>1, <1>6, <1>8, LeakKept

\* A tool that dies leaves what it had, and it had one thing.
LEMMA KilledLeaks == ASSUME CountInv, UseInv, LeakInv, ~freed, Killed PROVE LeakInv'
<1>1. /\ UNCHANGED <<inode_bitmap, block_bitmap, inode, freed>>
      /\ kills' = kills + 1 /\ tool' = Idle /\ tool'.pc = "idle"
  BY IdleTyped DEF Killed, Stop, image
<1>2. Unready' = {} /\ Unjoined' = {} /\ Owned' = Owned
  BY <1>1 DEF Unready, Unjoined, Adding, Growing, Owned, BlocksOf
<1>3. Unset' \subseteq Unset \cup Unready /\ Unowned' \subseteq Unowned \cup Unjoined
  BY <1>1, <1>2 DEF Unset, Unowned
<1>4. \/ Unready = {} /\ Unjoined = {}
      \/ Unready = {tool.ino} /\ Unjoined = {}
      \/ Unready = {} /\ Unjoined = {tool.at}
  BY DEF Unready, Unjoined, Adding
<1>6. ASSUME NEW S, NEW T, NEW x, IsFiniteSet(S), T \subseteq S \cup {x}
      PROVE  IsFiniteSet(T) /\ Cardinality(T) \in Nat /\ Cardinality(T) <= Cardinality(S) + 1
  <2>1. IsFiniteSet(S \cup {x}) /\ Cardinality(S \cup {x}) \in {Cardinality(S), Cardinality(S) + 1}
    BY <1>6, FS_AddElement
  <2>2. T \in SUBSET (S \cup {x})
    BY <1>6
  <2>3. IsFiniteSet(T) /\ Cardinality(T) <= Cardinality(S \cup {x})
    BY <2>1, <2>2, FS_Subset, Zenon
  <2> QED BY <1>6, <2>1, <2>3, FS_CardinalityType
<1>7. ASSUME NEW S, NEW T, IsFiniteSet(S), T \subseteq S
      PROVE  IsFiniteSet(T) /\ Cardinality(T) \in Nat /\ Cardinality(T) <= Cardinality(S)
  <2>1. T \in SUBSET S
    BY <1>7
  <2> QED BY <1>7, <2>1, FS_Subset, FS_CardinalityType, Zenon
<1> DEFINE a == Cardinality(Unset)
           b == Cardinality(Unowned)
           c == Cardinality(Unset')
           d == Cardinality(Unowned')
<1>8. a \in Nat /\ b \in Nat /\ IsFiniteSet(Unset) /\ IsFiniteSet(Unowned)
  BY LeaksFinite
<1>9. c \in Nat /\ d \in Nat /\ c + d <= a + b + 1
  <2>1. CASE Unready = {}
    <3>1. Unset' \subseteq Unset /\ \E x : Unowned' \subseteq Unowned \cup {x}
      BY <1>3, <1>4, <2>1
    <3>2. c \in Nat /\ c <= a
      BY <1>7, <1>8, <3>1, Zenon
    <3>3. d \in Nat /\ d <= b + 1
      BY <1>6, <1>8, <3>1, Zenon
    <3> QED BY <1>8, <3>2, <3>3
  <2>2. CASE Unjoined = {}
    <3>1. Unowned' \subseteq Unowned /\ \E x : Unset' \subseteq Unset \cup {x}
      BY <1>3, <1>4, <2>2
    <3>2. d \in Nat /\ d <= b
      BY <1>7, <1>8, <3>1, Zenon
    <3>3. c \in Nat /\ c <= a + 1
      BY <1>6, <1>8, <3>1, Zenon
    <3> QED BY <1>8, <3>2, <3>3
  <2> QED BY <1>4, <2>1, <2>2
<1>10. a + b <= Reserved + kills
  BY DEF LeakInv
<1>11. Reserved \in Nat /\ Reserved' = Reserved /\ kills \in Nat
  BY ReservedNat DEF CountInv, Reserved
<1> HIDE DEF a, b
<1>12. c + d <= Reserved + (kills + 1)
  BY <1>8, <1>9, <1>10, <1>11
<1> QED BY <1>1, <1>11, <1>12 DEF LeakInv

\* All other steps of the tools.
Others == \/ MkdirStarts \/ LnStarts \/ RmStarts
          \/ CountInode \/ FindRoom \/ Fill \/ WriteTarget \/ LinkParent
          \/ CountLink \/ CheckTarget \/ ClearEntry \/ DropLink
          \/ \E type, pc : EnterRecord(type, pc)

LEMMA OthersLeak ==
    ASSUME CountInv, UseInv, LeakInv, ~freed, tool.pc \notin Adding \cup {"set_inode"}, Others
    PROVE  LeakInv'
<1>1. UNCHANGED <<inode_bitmap, block_bitmap, kills, freed>>
  BY Starting, Zenon DEF Others, MkdirStarts, LnStarts, RmStarts, CountInode, FindRoom, Fill,
       WriteTarget, LinkParent,
         CountLink, CheckTarget, ClearEntry, DropLink, EnterRecord, Bookkeeping, image, Starts
<1>2. \/ inode' = inode
      \/ \E m, x : inode' = [inode EXCEPT ![m].links = x]
  <2>1. CASE LinkParent
    BY <2>1 DEF LinkParent
  <2>2. CASE CountLink
    BY <2>2 DEF CountLink
  <2>3. CASE DropLink
    BY <2>3 DEF DropLink
  <2>4. CASE ~(LinkParent \/ CountLink \/ DropLink)
    BY <2>4, Zenon DEF Others, MkdirStarts, LnStarts, RmStarts, CountInode, FindRoom, Fill,
         WriteTarget,
         CheckTarget, ClearEntry, EnterRecord, image
  <2> QED BY <2>1, <2>2, <2>3, <2>4
<1>3. Alike
  BY <1>2, SameAlike, LinksAlike, Zenon DEF UseInv
<1> QED BY <1>1, <1>3, LeakQuiet

LEMMA MkdirLeaks == ASSUME CountInv, UseInv, LeakInv, ~freed, Roomy, Mkdir PROVE LeakInv'
<1>1. CASE MkdirMarkInode
  BY <1>1, MarkInodeLeaks DEF MkdirMarkInode, At
<1>2. CASE MkdirSetInode
  <2>1. tool.pc = "set_inode" /\ SetInode("dir", 1, 2)
    BY <1>2 DEF MkdirSetInode, At
  <2> QED BY <2>1, SetInodeLeaks
<1>3. CASE MkdirAssignBlock
  BY <1>3, AssignBlockLeaks DEF MkdirAssignBlock, At
<1>4. CASE MkdirMarkBlock
  BY <1>4, MarkBlockLeaks DEF MkdirMarkBlock, At
<1>5. CASE MkdirCountBlock
  BY <1>5, CountBlockLeaks DEF MkdirCountBlock, At
<1>6. CASE MkdirGrow
  BY <1>6, GrowRecordLeaks DEF MkdirGrow, At
<1>7. CASE MkdirGrowSize
  BY <1>7, GrowSizeLeaks DEF MkdirGrowSize, At
<1>8. CASE MkdirStarts \/ MkdirCountInode \/ Fill \/ MkdirFindRoom \/ MkdirEnter \/ LinkParent
  <2>1. tool.pc \in {"idle", "inode", "fill", "room", "enter", "parent"}
    BY <1>8, Starting, IdleTyped DEF MkdirStarts, MkdirCountInode, Fill, MkdirFindRoom,
         MkdirEnter, LinkParent, At
  <2>2. Others
    BY <1>8 DEF Others, MkdirCountInode, MkdirFindRoom, MkdirEnter
  <2> QED BY <2>1, <2>2, OthersLeak DEF Adding
<1> QED BY <1>1, <1>2, <1>3, <1>4, <1>5, <1>6, <1>7, <1>8 DEF Mkdir

LEMMA LnLeaks == ASSUME CountInv, UseInv, LeakInv, ~freed, Roomy, Ln PROVE LeakInv'
<1>1. CASE LnMarkInode
  BY <1>1, MarkInodeLeaks DEF LnMarkInode, At
<1>2. CASE LnSetInode
  <2>1. tool.pc = "set_inode" /\ SetInode("symlink", 0, 1)
    BY <1>2 DEF LnSetInode, At
  <2> QED BY <2>1, SetInodeLeaks
<1>3. CASE LnAssignBlock
  BY <1>3, AssignBlockLeaks DEF LnAssignBlock, Linking
<1>4. CASE LnMarkBlock
  BY <1>4, MarkBlockLeaks DEF LnMarkBlock, Linking
<1>5. CASE LnCountBlock
  BY <1>5, CountBlockLeaks DEF LnCountBlock, Linking
<1>6. CASE LnGrow
  BY <1>6, GrowRecordLeaks DEF LnGrow, Linking
<1>7. CASE LnGrowSize
  BY <1>7, GrowSizeLeaks DEF LnGrowSize, Linking
<1>8. CASE LnStarts \/ CountLink \/ CheckTarget \/ LnCountInode \/ WriteTarget \/ LnFindRoom \/ LnEnter
  <2>1. tool.pc \in {"idle", "count", "check", "inode", "fill", "room", "enter"}
    BY <1>8, Starting, IdleTyped DEF LnStarts, CountLink, CheckTarget, LnCountInode, WriteTarget,
         LnFindRoom, LnEnter, At, Linking
  <2>2. Others
    BY <1>8 DEF Others, LnCountInode, LnFindRoom, LnEnter
  <2> QED BY <2>1, <2>2, OthersLeak DEF Adding
<1> QED BY <1>1, <1>2, <1>3, <1>4, <1>5, <1>6, <1>7, <1>8 DEF Ln

LEMMA RmLeaks == ASSUME CountInv, UseInv, LeakInv, ~freed, Rm PROVE LeakInv'
<1>1. CASE RmStarts \/ ClearEntry \/ DropLink
  <2>1. tool.pc \in {"idle", "clear", "drop"}
    BY <1>1, Starting, IdleTyped DEF RmStarts, ClearEntry, DropLink, At
  <2>2. Others
    BY <1>1 DEF Others
  <2> QED BY <2>1, <2>2, OthersLeak DEF Adding
<1>2. CASE FreeInode
  BY <1>2 DEF FreeInode, LeakInv
<1>3. CASE FreeBlock \/ FreeIndirect
  BY <1>3 DEF FreeBlock, FreeIndirect, At, CountInv, Freeing
<1> QED BY <1>1, <1>2, <1>3 DEF Rm

LEMMA StaysFreed == ASSUME [Next]_vars, freed PROVE freed'
<1>1. CASE Mkdir
  BY <1>1, Starting, Zenon DEF Mkdir, MkdirStarts, MkdirCountInode, MkdirMarkInode,
       MkdirSetInode, MkdirAssignBlock,
              MkdirMarkBlock, MkdirCountBlock, Fill, MkdirFindRoom, MkdirEnter, MkdirGrow,
              MkdirGrowSize, LinkParent, CountInode, MarkInode, SetInode, AssignBlock, MarkBlock,
              CountBlock,
              FindRoom, EnterRecord, GrowRecord, GrowSize, Bookkeeping
<1>2. CASE Ln
  BY <1>2, Starting, Zenon DEF Ln, LnStarts, CountLink, CheckTarget, LnCountInode, LnMarkInode,
       LnSetInode, LnAssignBlock,
              LnMarkBlock, LnCountBlock, WriteTarget, LnFindRoom, LnEnter, LnGrow, LnGrowSize,
              CountInode, MarkInode, SetInode, AssignBlock, MarkBlock, CountBlock,
              FindRoom, EnterRecord, GrowRecord, GrowSize, Bookkeeping
<1>3. CASE Rm
  BY <1>3, Starting, Zenon DEF Rm, RmStarts, ClearEntry, DropLink, FreeInode, FreeBlock,
       FreeIndirect, FreeBlocks, Bookkeeping
<1>4. CASE Killed \/ UNCHANGED vars
  BY <1>4 DEF Killed, vars
<1> QED BY <1>1, <1>2, <1>3, <1>4 DEF Next

LEMMA StepLeaks == ASSUME CountInv, UseInv, LeakInv, Roomy, [Next]_vars PROVE LeakInv'
<1>1. CASE freed
  BY <1>1, StaysFreed DEF LeakInv
<1>2. CASE ~freed
  <2>1. CASE UNCHANGED vars
    BY <2>1 DEF vars, image, LeakInv, Unset, Unowned, Owned, BlocksOf, Unready, Unjoined,
         Growing, Reserved
  <2> QED BY <1>2, <2>1, MkdirLeaks, LnLeaks, RmLeaks, KilledLeaks DEF Next
<1> QED BY <1>1, <1>2

LEMMA InitLeaks == Init => LeakInv
<1> SUFFICES ASSUME Init PROVE Cardinality(Unset) + Cardinality(Unowned) <= Reserved + kills
  BY DEF LeakInv
<1>1. /\ inode = FirstImage.inode /\ tool = Idle /\ kills = 0
      /\ inode_bitmap = FirstImage.inode_bitmap /\ block_bitmap = FirstImage.block_bitmap
  BY DEF Init
<1> DEFINE A == FirstImage.reserved_inodes
           B == FirstImage.reserved_blocks
<1>2. /\ \A n \in inode_bitmap \ A : inode[n].kind # "none"
      /\ block_bitmap \ B \subseteq UNION {BlocksIn(inode, n) : n \in inode_bitmap}
      /\ IsFiniteSet(A) /\ IsFiniteSet(B)
  <2>1. /\ \A n \in FirstImage.inode_bitmap \ FirstImage.reserved_inodes :
              FirstImage.inode[n].kind # "none"
        /\ FirstImage.block_bitmap \ FirstImage.reserved_blocks
              \subseteq UNION {BlocksIn(FirstImage.inode, n) : n \in FirstImage.inode_bitmap}
        /\ IsFiniteSet(FirstImage.reserved_inodes) /\ IsFiniteSet(FirstImage.reserved_blocks)
    BY FirstImageAssumption, Zenon
  <2> QED BY <1>1, <2>1
<1>3. Unset \in SUBSET A
  BY <1>2 DEF Unset
<1>4. Unowned \in SUBSET B
  BY <1>2 DEF Unowned, Owned, BlocksOf
<1> HIDE DEF A, B
<1>5. /\ Cardinality(Unset) <= Cardinality(A) /\ IsFiniteSet(Unset)
      /\ Cardinality(Unowned) <= Cardinality(B) /\ IsFiniteSet(Unowned)
  BY <1>2, <1>3, <1>4, FS_Subset, Zenon
<1>6. /\ Cardinality(Unset) \in Nat /\ Cardinality(A) \in Nat
      /\ Cardinality(Unowned) \in Nat /\ Cardinality(B) \in Nat
  BY <1>2, <1>5, FS_CardinalityType
<1> QED BY <1>1, <1>5, <1>6 DEF Reserved, A, B

LEMMA LeakHeld == CountInv /\ LeakInv => OneLeakPerKill
<1> SUFFICES ASSUME LeakInv, tool = Idle, ~freed PROVE OneLeakPerKill
  BY DEF OneLeakPerKill
<1>1. tool.pc = "idle"
  BY IdleTyped
<1>2. Unready = {} /\ Unjoined = {}
  BY <1>1 DEF Unready, Unjoined, Adding
<1>3. /\ Unset = {n \in inode_bitmap : inode[n].kind = "none"}
      /\ Unowned = block_bitmap \ UNION {BlocksOf(n) : n \in inode_bitmap}
  BY <1>2 DEF Unset, Unowned, Owned
<1> QED BY <1>3, Zenon DEF LeakInv, OneLeakPerKill, Reserved

\* The property of the runs, as a theorem: a killed tool costs at most one inode
\* or one block, whatever the tools and however many, because each has at most
\* one that is marked and not yet set up or joined to an inode
\* (ext2_mkdir.c:109-146, ext2_ln.c:217-251), and whatever else is marked was
\* so in the image they started with.
THEOREM LeaksBounded == Spec /\ []Roomy => []OneLeakPerKill
<1>1. Init => CountInv /\ UseInv /\ LeakInv
  BY CountInit, InitUse, InitLeaks
<1>2. CountInv /\ UseInv /\ LeakInv /\ Roomy /\ [Next]_vars => CountInv' /\ UseInv' /\ LeakInv'
  BY StepUse, CountNext, StepLeaks
<1> QED BY <1>1, <1>2, LeakHeld, PTL DEF Spec

-----------------------------------------------------------------------------
(* Every record lies in its block, and the rest has its type.              *)

\* u[k] is what the first k records take.
IsSum(u, rs) ==
    /\ u \in [0..Len(rs) -> Nat] /\ u[0] = 0
    /\ \A k \in 1..Len(rs) : u[k] = u[k - 1] + rs[k].rec_len

LEMMA UsedIs ==
    ASSUME NEW rs \in Seq(RecordType)
    PROVE  \E u : IsSum(u, rs) /\ Used(rs) = u[Len(rs)]
<1> DEFINE n == Len(rs)
           F == [p \in (1..n) \X Nat |-> p[2] + rs[p[1]].rec_len]
<1>1. n \in Nat /\ DOMAIN rs = 1..n /\ \A k \in 1..n : rs[k].rec_len \in Nat
  BY RecordParts
<1>2. IsStep(F, n, Nat) /\ 0 \in Nat
  <2>1. \A p \in (1..n) \X Nat : p[2] + rs[p[1]].rec_len \in Nat
    BY <1>1
  <2> QED BY <2>1 DEF IsStep
<1>3. \A k \in 1..n, v \in Nat : F[<<k, v>>] = v + rs[k].rec_len
  OBVIOUS
<1> HIDE DEF F, n
<1>4. PICK f : IsFold(f, F, n, Nat, 0)
  BY <1>1, <1>2, FoldExists, Zenon
<1> DEFINE Rec(g) == [s \in SUBSET DOMAIN rs |-> IF s = {} THEN 0
                                                 ELSE g[s \ {Max(s)}] + rs[Max(s)].rec_len]
           g == CHOOSE h : h = [s \in SUBSET DOMAIN rs |-> IF s = {} THEN 0
                                                 ELSE h[s \ {Max(s)}] + rs[Max(s)].rec_len]
<1>5. f = Rec(f)
  <2>1. ASSUME NEW s \in SUBSET (1..n), s # {}
        PROVE  f[s] = f[s \ {Max(s)}] + rs[Max(s)].rec_len
    <3>1. Max(s) \in s
      BY <1>1, <2>1, GreatestIs
    <3>2. Max(s) \in 1..n /\ f[s \ {Max(s)}] \in Nat
      BY <1>4, <3>1 DEF IsFold
    <3> QED BY <1>3, <1>4, <2>1, <3>2 DEF IsFold
  <2> QED BY <1>1, <1>4, <2>1 DEF IsFold
<1>6. g = Rec(g)
  BY <1>5, Zenon
<1>7. Used(rs) = g[DOMAIN rs]
  BY Zenon DEF Used, FoldLeft, MapThenFoldSet
<1> HIDE DEF g
<1>8. g[{}] = 0
  BY <1>6
<1>9. ASSUME NEW k \in 1..n PROVE g[1..k] = g[1..k - 1] + rs[k].rec_len
  <2>0. n \in Nat /\ k \in Nat /\ 1 <= k /\ k <= n
    BY <1>1
  <2>1. k \in Nat /\ 1..k \subseteq 1..k /\ 1..k # {} /\ k \in 1..k /\ 1..k \in SUBSET (1..n)
    <3>1. k \in 1..k
      BY <2>0
    <3>2. 1..k \subseteq 1..n
      BY <2>0
    <3> QED BY <2>0, <3>1, <3>2
  <2>2. Max(1..k) \in 1..k /\ \A y \in 1..k : Max(1..k) >= y
    BY <2>1, GreatestIs
  <2>3. Max(1..k) = k /\ (1..k) \ {k} = 1..k - 1
    BY <2>1, <2>2
  <2> QED BY <1>1, <1>6, <2>1, <2>3
<1> DEFINE u == [k \in 0..n |-> g[1..k]]
<1>10. u[0] = 0 /\ u[n] = g[DOMAIN rs]
  <2>1. 1..0 = {}
    OBVIOUS
  <2> QED BY <1>1, <1>8, <2>1
<1>11. \A k \in 1..n : u[k] = u[k - 1] + rs[k].rec_len
  BY <1>1, <1>9
<1> HIDE DEF u
<1>12. \A k \in 0..n : u[k] \in Nat
  <2> DEFINE Bad == {k \in 0..n : u[k] \notin Nat}
  <2> SUFFICES ASSUME Bad # {} PROVE FALSE
    OBVIOUS
  <2>1. Bad \subseteq Nat
    BY <1>1
  <2> DEFINE k == Min(Bad)
  <2>2. k \in Bad /\ \A y \in Bad : k <= y
    BY <2>1, LeastIs
  <2> HIDE DEF k
  <2>3. k \in 1..n
    BY <1>1, <1>10, <2>2
  <2>4. k - 1 \in 0..n /\ ~(k <= k - 1)
    BY <1>1, <2>3
  <2>5. u[k - 1] \in Nat
    BY <2>2, <2>4
  <2>6. u[k] = u[k - 1] + rs[k].rec_len /\ rs[k].rec_len \in Nat
    BY <1>1, <1>11, <2>3
  <2>7. u[k] \in Nat
    BY <2>5, <2>6
  <2> QED BY <2>2, <2>7
<1>13. u \in [0..n -> Nat]
  BY <1>12 DEF u
<1>14. IsSum(u, rs)
  BY <1>10, <1>11, <1>13 DEF IsSum, n
<1> QED BY <1>7, <1>10, <1>14 DEF n

LEMMA SumsAgree ==
    ASSUME NEW r, NEW s, NEW u, NEW v, IsSum(u, r), IsSum(v, s), Len(r) \in Nat, Len(s) \in Nat,
           NEW m \in Nat, m <= Len(r), m <= Len(s), \A k \in 1..m : r[k].rec_len = s[k].rec_len
    PROVE  u[m] = v[m]
<1> DEFINE Bad == {k \in 0..m : u[k] # v[k]}
<1> SUFFICES ASSUME Bad # {} PROVE FALSE
  OBVIOUS
<1>1. Bad \subseteq Nat
  OBVIOUS
<1> DEFINE k == Min(Bad)
<1>2. k \in Bad /\ \A y \in Bad : k <= y
  BY <1>1, LeastIs
<1> HIDE DEF k
<1>3. k \in 1..m
  BY <1>2 DEF IsSum
<1>4. k - 1 \in 0..m /\ ~(k <= k - 1)
  BY <1>3
<1>5. u[k - 1] = v[k - 1]
  BY <1>2, <1>4
<1>6. u[k] = u[k - 1] + r[k].rec_len /\ v[k] = v[k - 1] + s[k].rec_len
  BY <1>3 DEF IsSum
<1> QED BY <1>2, <1>3, <1>5, <1>6

LEMMA UsedEmpty == Used(<<>>) = 0
<1>1. <<>> \in Seq(RecordType) /\ Len(<<>>) = 0
  OBVIOUS
<1> QED BY <1>1, UsedIs DEF IsSum

LEMMA UsedNat == ASSUME NEW rs \in Seq(RecordType) PROVE Used(rs) \in Nat
<1>1. Len(rs) \in 0..Len(rs)
  OBVIOUS
<1> QED BY <1>1, UsedIs DEF IsSum

\* The records but for the last one take the same, and then it adds its own.
LEMMA UsedLast ==
    ASSUME NEW r \in Seq(RecordType), NEW s \in Seq(RecordType), NEW m \in Nat,
           Len(r) = m, Len(s) = m + 1, \A k \in 1..m : r[k].rec_len = s[k].rec_len
    PROVE  Used(s) = Used(r) + s[m + 1].rec_len
<1>1. PICK u : IsSum(u, r) /\ Used(r) = u[m]
  BY UsedIs
<1>2. PICK v : IsSum(v, s) /\ Used(s) = v[m + 1]
  BY UsedIs
<1>3. u[m] = v[m]
  BY <1>1, <1>2, SumsAgree
<1>4. v[m + 1] = v[m + 1 - 1] + s[m + 1].rec_len
  BY <1>2 DEF IsSum
<1> QED BY <1>1, <1>2, <1>3, <1>4

LEMMA UsedSame ==
    ASSUME NEW r \in Seq(RecordType), NEW s \in Seq(RecordType),
           Len(s) = Len(r), \A k \in 1..Len(r) : r[k].rec_len = s[k].rec_len
    PROVE  Used(s) = Used(r)
<1>1. PICK u : IsSum(u, r) /\ Used(r) = u[Len(r)]
  BY UsedIs
<1>2. PICK v : IsSum(v, s) /\ Used(s) = v[Len(r)]
  BY UsedIs
<1> QED BY <1>1, <1>2, SumsAgree

LEMMA UsedAppend ==
    ASSUME NEW r \in Seq(RecordType), NEW e \in RecordType
    PROVE  Used(Append(r, e)) = Used(r) + e.rec_len
<1> DEFINE m == Len(r)
           s == Append(r, e)
<1>1. m \in Nat /\ s \in Seq(RecordType) /\ Len(s) = m + 1 /\ s[m + 1] = e
  OBVIOUS
<1>2. \A k \in 1..m : r[k].rec_len = s[k].rec_len
  OBVIOUS
<1> HIDE DEF s, m
<1>3. Len(r) = m
  BY DEF m
<1>4. Used(s) = Used(r) + s[m + 1].rec_len
  BY <1>1, <1>2, <1>3, UsedLast
<1> QED BY <1>1, <1>4 DEF s

\* The last record is cut, or made longer.
LEMMA UsedCut ==
    ASSUME NEW r \in Seq(RecordType), NEW s \in Seq(RecordType), NEW n \in 1..Len(r),
           n = Len(r), Len(s) = n, \A k \in 1..n - 1 : r[k].rec_len = s[k].rec_len
    PROVE  Used(s) + r[n].rec_len = Used(r) + s[n].rec_len
<1>1. PICK u : IsSum(u, r) /\ Used(r) = u[n]
  BY UsedIs
<1>2. PICK v : IsSum(v, s) /\ Used(s) = v[n]
  BY UsedIs
<1>3. n \in Nat /\ n - 1 \in Nat /\ n \in 1..Len(s) /\ n - 1 \in 0..Len(r) /\ n - 1 \in 0..Len(s)
  OBVIOUS
<1>4. u[n - 1] = v[n - 1]
  BY <1>1, <1>2, <1>3, SumsAgree
<1>5. u[n] = u[n - 1] + r[n].rec_len /\ v[n] = v[n - 1] + s[n].rec_len
  BY <1>1, <1>2, <1>3 DEF IsSum
<1>6. u[n - 1] \in Nat /\ v[n - 1] \in Nat /\ r[n].rec_len \in Nat /\ s[n].rec_len \in Nat
  <2>1. r[n] \in RecordType /\ s[n] \in RecordType
    BY <1>3
  <2> QED BY <1>1, <1>2, <1>3, <2>1, RecordParts DEF IsSum
<1> QED BY <1>1, <1>2, <1>4, <1>5, <1>6

FitInv ==
    /\ \A b \in 0..BLOCK_NUM : Fits(data[b])
    /\ tool.pc = "enter" => /\ tool.rec >= EXT2_DIR_REC_LEN(tool.name)
                            /\ Used(data[tool.at]) + tool.rec <= EXT2_BLOCK_SIZE

LEMMA FitsIs ==
    ASSUME NEW rs \in Seq(RecordType)
    PROVE  Fits(rs) <=> /\ Used(rs) <= EXT2_BLOCK_SIZE
                        /\ \A k \in DOMAIN rs : rs[k].rec_len >= EXT2_DIR_REC_LEN(rs[k].name)
<1>1. \A e : e \in ToSet(rs) <=> \E k \in DOMAIN rs : e = rs[k]
  BY DEF ToSet
<1> HIDE DEF EXT2_DIR_REC_LEN
<1> QED BY <1>1 DEF Fits

LEMMA FitsEmpty == Fits(<<>>)
<1> DEFINE s == <<>>
<1>1. s \in Seq(RecordType) /\ DOMAIN s = {}
  OBVIOUS
<1>2. Used(s) <= EXT2_BLOCK_SIZE
  <2>1. EXT2_BLOCK_SIZE \in Nat
    BY Constants
  <2> QED BY <2>1, UsedEmpty
<1> HIDE DEF s
<1>3. \A k \in DOMAIN s : s[k].rec_len >= EXT2_DIR_REC_LEN(s[k].name)
  BY <1>1
<1>4. Fits(s)
  BY <1>1, <1>2, <1>3, FitsIs, Zenon
<1> QED BY <1>4 DEF s

LEMMA FitsAppended ==
    ASSUME NEW r \in Seq(RecordType), Fits(r), NEW e \in RecordType,
           e.rec_len >= EXT2_DIR_REC_LEN(e.name), Used(r) + e.rec_len <= EXT2_BLOCK_SIZE
    PROVE  Append(r, e) \in Seq(RecordType) /\ Fits(Append(r, e))
<1> DEFINE s == Append(r, e)
<1>1. s \in Seq(RecordType) /\ \A k \in DOMAIN s : s[k] = e \/ (k \in DOMAIN r /\ s[k] = r[k])
  OBVIOUS
<1>2. Used(s) <= EXT2_BLOCK_SIZE
  BY UsedAppend
<1>3. \A k \in DOMAIN r : r[k].rec_len >= EXT2_DIR_REC_LEN(r[k].name)
  BY FitsIs
<1> HIDE DEF s
<1>4. Fits(s)
  BY <1>1, <1>2, <1>3, FitsIs
<1> QED BY <1>1, <1>4 DEF s

LEMMA FitRest ==
    ASSUME FitInv, data' = data, tool'.pc # "enter" PROVE FitInv'
BY DEF FitInv

\* One block is written, and its records fit.
LEMMA FitChanged ==
    ASSUME Typed, FitInv, NEW at \in 0..BLOCK_NUM, NEW rs \in Seq(RecordType), Fits(rs),
           data' = [data EXCEPT ![at] = rs], tool'.pc # "enter"
    PROVE  FitInv'
<1>1. data'[at] = rs /\ \A b \in (0..BLOCK_NUM) \ {at} : data'[b] = data[b]
  BY BlockChanged
<1> QED BY <1>1 DEF FitInv

LEMMA FillFits == ASSUME UseInv, FitInv, Fill PROVE FitInv'
<1> DEFINE dot == EXT2_DIR_REC_LEN(".")
           e1 == Record(tool.ino, ".", "dir", dot)
           e2 == Record(tool.dir, "..", "dir", EXT2_BLOCK_SIZE - dot)
<1>1. /\ data' = [data EXCEPT ![tool.at] = <<e1, e2>>]
      /\ tool' = [tool EXCEPT !.pc = "room"]
  BY DEF Fill, Goto
<1>2. tool'.pc = "room"
  BY <1>1, GotoTyped DEF UseInv, Labels
<1>3. /\ dot \in Nat /\ EXT2_BLOCK_SIZE - dot \in Nat /\ EXT2_BLOCK_SIZE \in Nat
      /\ EXT2_BLOCK_SIZE - dot >= EXT2_DIR_REC_LEN("..")
  <2>1. EXT2_DIR_REC_LEN(".") + EXT2_DIR_REC_LEN("..") <= EXT2_BLOCK_SIZE
    BY ImageAssumption, Zenon
  <2>2. EXT2_DIR_REC_LEN("..") \in Nat /\ EXT2_DIR_REC_LEN(".") \in Nat /\ EXT2_BLOCK_SIZE \in Nat
    BY RecLen, Constants
  <2> HIDE DEF EXT2_DIR_REC_LEN
  <2> QED BY <2>1, <2>2
<1>4. /\ e1 \in RecordType /\ e1.name = "." /\ e1.rec_len = dot
      /\ e2 \in RecordType /\ e2.name = ".." /\ e2.rec_len = EXT2_BLOCK_SIZE - dot
  <2>1. tool.ino \in 0..INODE_NUM /\ tool.dir \in 0..INODE_NUM /\ "dir" \in Kinds
    BY ToolParts DEF UseInv, Kinds
  <2>2. "." \in DOMAIN NameLen /\ ".." \in DOMAIN NameLen
    BY Constants
  <2> HIDE DEF dot
  <2> QED BY <1>3, <2>1, <2>2, RecordTyped
<1> HIDE DEF e1, e2
<1>5. /\ <<>> \in Seq(RecordType) /\ <<e1>> = Append(<<>>, e1) /\ <<e1, e2>> = Append(<<e1>>, e2)
  OBVIOUS
<1>6. <<e1>> \in Seq(RecordType) /\ Fits(<<e1>>) /\ Used(<<e1>>) = dot
  <2>1. Used(<<e1>>) = dot
    <3>1. Used(<<e1>>) = Used(<<>>) + e1.rec_len
      BY <1>4, <1>5, UsedAppend, Zenon
    <3>2. dot \in Nat
      BY <1>3
    <3> HIDE DEF dot
    <3> QED BY <1>4, <3>1, <3>2, UsedEmpty
  <2>2. e1.rec_len >= EXT2_DIR_REC_LEN(e1.name) /\ Used(<<>>) + e1.rec_len <= EXT2_BLOCK_SIZE
    BY <1>3, <1>4, UsedEmpty
  <2> QED BY <1>4, <1>5, <2>1, <2>2, FitsEmpty, FitsAppended
<1>7. <<e1, e2>> \in Seq(RecordType) /\ Fits(<<e1, e2>>)
  <2>1. e2.rec_len >= EXT2_DIR_REC_LEN(e2.name) /\ Used(<<e1>>) + e2.rec_len <= EXT2_BLOCK_SIZE
    BY <1>3, <1>4, <1>6
  <2> QED BY <1>4, <1>5, <1>6, <2>1, FitsAppended
<1> QED BY <1>1, <1>2, <1>7, FitChanged, ToolParts DEF UseInv

LEMMA WriteTargetFits == ASSUME UseInv, FitInv, WriteTarget PROVE FitInv'
<1>1. data' = [data EXCEPT ![tool.at] = <<>>] /\ tool' = [tool EXCEPT !.pc = "room"]
  BY DEF WriteTarget, Goto
<1>2. tool'.pc = "room" /\ <<>> \in Seq(RecordType)
  BY <1>1, GotoTyped DEF UseInv, Labels
<1> QED BY <1>1, <1>2, FitsEmpty, FitChanged, ToolParts DEF UseInv

LEMMA GrowRecordFits ==
    ASSUME UseInv, FitInv, NEW type \in Kinds, GrowRecord(type) PROVE FitInv'
<1> DEFINE e == Record(tool.ino, tool.name, type, EXT2_BLOCK_SIZE)
<1>1. data' = [data EXCEPT ![tool.at] = <<e>>] /\ tool' = [tool EXCEPT !.pc = "grow_size"]
  BY DEF GrowRecord, Goto
<1>2. tool'.pc = "grow_size"
  BY <1>1, GotoTyped DEF UseInv, Labels
<1>3. e \in RecordType /\ e.name = tool.name /\ e.rec_len = EXT2_BLOCK_SIZE
  BY ToolParts, Constants, RecordTyped DEF UseInv
<1> HIDE DEF e
<1>4. e.rec_len >= EXT2_DIR_REC_LEN(e.name) /\ Used(<<>>) + e.rec_len <= EXT2_BLOCK_SIZE
  BY <1>3, RecLen, ToolParts, UsedEmpty, Constants DEF UseInv
<1>5. <<>> \in Seq(RecordType) /\ <<e>> = Append(<<>>, e)
  OBVIOUS
<1>6. <<e>> \in Seq(RecordType) /\ Fits(<<e>>)
  BY <1>3, <1>4, <1>5, FitsEmpty, FitsAppended
<1> QED BY <1>1, <1>2, <1>6, FitChanged, ToolParts DEF UseInv

LEMMA EnterRecordFits ==
    ASSUME UseInv, FitInv, tool.pc = "enter", NEW type \in Kinds, NEW pc \in {"idle", "parent"},
           EnterRecord(type, pc)
    PROVE  FitInv'
<1> DEFINE e == Record(tool.ino, tool.name, type, tool.rec)
<1>1. /\ data' = [data EXCEPT ![tool.at] = Append(data[tool.at], e)]
      /\ tool' = Idle \/ tool' = [tool EXCEPT !.pc = "parent"]
  BY DEF EnterRecord, Stop, Goto
<1>2. tool'.pc \in {"idle", "parent"}
  BY <1>1, IdleTyped, GotoTyped DEF UseInv, Labels
<1>3. e \in RecordType /\ e.name = tool.name /\ e.rec_len = tool.rec
  BY ToolParts, RecordTyped DEF UseInv
<1> HIDE DEF e
<1>4. tool.at \in 0..BLOCK_NUM /\ data[tool.at] \in Seq(RecordType)
  BY ToolParts, DataParts DEF UseInv
<1>5. /\ Fits(data[tool.at]) /\ e.rec_len >= EXT2_DIR_REC_LEN(e.name)
      /\ Used(data[tool.at]) + e.rec_len <= EXT2_BLOCK_SIZE
  BY <1>3, <1>4 DEF FitInv
<1> QED BY <1>1, <1>2, <1>3, <1>4, <1>5, FitsAppended, FitChanged DEF UseInv

\* A cleared record keeps its length, and without a name it needs the least.
LEMMA ClearEntryFits == ASSUME UseInv, FitInv, ClearEntry PROVE FitInv'
<1> DEFINE at == tool.at
           rs == data[at]
           ss == data'[at]
<1>1. /\ at \in 0..BLOCK_NUM /\ DOMAIN ss = DOMAIN rs
      /\ rs \in Seq(RecordType) /\ ss \in Seq(RecordType)
      /\ \A b \in (0..BLOCK_NUM) \ {at} : data'[b] = data[b]
      /\ tool'.pc = "drop"
  BY ClearsRecord, DataParts DEF UseInv
<1>2. \A k \in DOMAIN rs : \/ ss[k] = rs[k]
                           \/ ss[k].name = NoName /\ ss[k].rec_len = rs[k].rec_len
  BY ClearsRecord
<1>3. Fits(rs)
  BY <1>1 DEF FitInv
<1> HIDE DEF rs, ss, at
<1>4. /\ Used(rs) <= EXT2_BLOCK_SIZE
      /\ \A k \in DOMAIN rs : rs[k].rec_len >= EXT2_DIR_REC_LEN(rs[k].name)
  BY <1>1, <1>3, FitsIs
<1>5. Used(ss) = Used(rs)
  <2>1. Len(ss) = Len(rs) /\ \A k \in 1..Len(rs) : rs[k].rec_len = ss[k].rec_len
    BY <1>1, <1>2
  <2> QED BY <1>1, <2>1, UsedSame
<1>6. ASSUME NEW k \in DOMAIN ss PROVE ss[k].rec_len >= EXT2_DIR_REC_LEN(ss[k].name)
  <2>1. CASE ss[k] = rs[k]
    BY <1>1, <1>4, <2>1
  <2>2. CASE ss[k].name = NoName /\ ss[k].rec_len = rs[k].rec_len
    <3>1. EXT2_DIR_REC_LEN(NoName) = 8
      <4>1. NameLen[NoName] = 0
        BY ImageAssumption, Zenon
      <4> QED BY <4>1 DEF EXT2_DIR_REC_LEN
    <3>2. rs[k].rec_len \in Nat /\ rs[k].name \in DOMAIN NameLen
      BY <1>1, RecordParts
    <3>3. EXT2_DIR_REC_LEN(rs[k].name) \in Nat /\ EXT2_DIR_REC_LEN(rs[k].name) >= 8
      BY <3>2, RecLen
    <3>4. rs[k].rec_len >= EXT2_DIR_REC_LEN(rs[k].name)
      BY <1>1, <1>4
    <3>5. rs[k].rec_len >= 8
      BY <3>2, <3>3, <3>4
    <3> QED BY <2>2, <3>1, <3>5
  <2> QED BY <1>1, <1>2, <2>1, <2>2
<1>7. Fits(ss)
  BY <1>1, <1>4, <1>5, <1>6, FitsIs
<1>8. ASSUME NEW b \in 0..BLOCK_NUM PROVE Fits(data'[b])
  <2>1. CASE b = at
    BY <1>7, <2>1 DEF ss
  <2>2. CASE b # at
    BY <1>1, <2>2 DEF FitInv
  <2> QED BY <2>1, <2>2
<1> QED BY <1>1, <1>8 DEF FitInv

\* What FindRoom cuts off is what the new record gets.
LEMMA FindRoomFits ==
    ASSUME UseInv, FitInv, ~freed, tool.pc = "room", FindRoom PROVE FitInv'
<1>1. CASE tool' = [tool EXCEPT !.pc = "block", !.own = FALSE] /\ data' = data
  <2>1. tool'.pc = "block"
    BY <1>1 DEF UseInv, Typed, ToolType
  <2> QED BY <1>1, <2>1, FitRest
<1>2. CASE Hang(tool.op) /\ data' = data
  <2>1. tool'.pc = "endless"
    BY <1>2 DEF Hang, Idle
  <2> QED BY <1>2, <2>1, FitRest
<1>3. ASSUME NEW b \in 0..BLOCK_NUM, NEW e \in RecordType, Cuts(b, e) PROVE FitInv'
  <2> DEFINE n == Len(data[b])
             rs == data[b]
             ss == data'[b]
  <2>1. /\ DOMAIN ss = DOMAIN rs /\ rs \in Seq(RecordType) /\ ss \in Seq(RecordType)
        /\ n \in DOMAIN rs
        /\ \A k \in DOMAIN rs : ss[k] = IF k = n THEN e ELSE rs[k]
        /\ \A x \in (0..BLOCK_NUM) \ {b} : data'[x] = data[x]
        /\ tool'.pc = "enter" /\ tool'.name = tool.name /\ tool'.at = b
        /\ tool'.rec = rs[n].rec_len - e.rec_len
        /\ tool'.rec >= EXT2_DIR_REC_LEN(tool.name)
    BY <1>3, CutsRecords, DataParts DEF UseInv
  <2>2. e.rec_len = EXT2_DIR_REC_LEN(e.name)
    BY <1>3 DEF Cuts
  <2>3. Fits(rs)
    BY DEF FitInv
  <2>4. n = Len(rs)
    OBVIOUS
  <2> HIDE DEF n, rs, ss
  <2>5. /\ Used(rs) <= EXT2_BLOCK_SIZE
        /\ \A k \in DOMAIN rs : rs[k].rec_len >= EXT2_DIR_REC_LEN(rs[k].name)
    BY <2>1, <2>3, FitsIs
  <2>6. rs[n].rec_len \in Nat /\ e.rec_len \in Nat /\ tool'.rec \in Nat
    BY <1>3, <2>1, RecordParts, CutsRecords DEF ToolType
  <2>7. Used(ss) + rs[n].rec_len = Used(rs) + e.rec_len
    <3>1. /\ n \in 1..Len(rs) /\ Len(ss) = n /\ ss[n] = e
          /\ \A k \in 1..n - 1 : rs[k].rec_len = ss[k].rec_len
      BY <2>1, <2>4
    <3> QED BY <2>1, <2>4, <3>1, UsedCut
  <2>8. Used(rs) \in Nat /\ Used(ss) \in Nat /\ EXT2_BLOCK_SIZE \in Nat
    BY <2>1, UsedNat, Constants
  <2>9. Used(ss) + tool'.rec <= EXT2_BLOCK_SIZE /\ Used(ss) <= EXT2_BLOCK_SIZE
    BY <2>1, <2>5, <2>6, <2>7, <2>8
  <2>10. EXT2_DIR_REC_LEN(e.name) \in Nat
    BY <1>3, RecordParts, RecLen
  <2>11. \A k \in DOMAIN ss : ss[k].rec_len >= EXT2_DIR_REC_LEN(ss[k].name)
    <3> SUFFICES ASSUME NEW k \in DOMAIN ss
                 PROVE  ss[k].rec_len >= EXT2_DIR_REC_LEN(ss[k].name)
      OBVIOUS
    <3>1. CASE k = n
      <4>1. ss[k] = e
        BY <2>1, <3>1
      <4>2. EXT2_DIR_REC_LEN(e.name) >= EXT2_DIR_REC_LEN(e.name)
        BY <2>10
      <4> QED BY <2>2, <4>1, <4>2
    <3>2. CASE k # n
      BY <2>1, <2>5, <3>2
    <3> QED BY <3>1, <3>2
  <2>12. Fits(ss)
    BY <2>1, <2>9, <2>11, FitsIs
  <2>13. ASSUME NEW x \in 0..BLOCK_NUM PROVE Fits(data'[x])
    <3>1. CASE x = b
      BY <2>12, <3>1 DEF ss
    <3>2. CASE x # b
      BY <2>1, <3>2 DEF FitInv
    <3> QED BY <3>1, <3>2
  <2>14. /\ tool'.rec >= EXT2_DIR_REC_LEN(tool'.name)
         /\ Used(data'[tool'.at]) + tool'.rec <= EXT2_BLOCK_SIZE
    BY <2>1, <2>9 DEF ss
  <2> QED BY <2>13, <2>14 DEF FitInv
<1> QED BY <1>1, <1>2, <1>3, FindRoomCuts

\* All other steps leave the records alone, and none of them goes to "enter".
StartsOne == MkdirStarts \/ LnStarts \/ RmStarts
Allocates == \/ CountInode \/ MarkInode \/ MarkBlock \/ CountBlock
             \/ \E kind, size, links : SetInode(kind, size, links)
             \/ \E unassigned : AssignBlock(unassigned)
Relinks == \/ LinkParent \/ CountLink \/ CheckTarget \/ DropLink
           \/ \E pc \in {"idle", "parent"} : GrowSize(pc)
GivesBack == FreeInode \/ FreeBlock \/ FreeIndirect

LEMMA PcIs ==
    /\ \A pc : \A t : DOMAIN t = DOMAIN Idle => [t EXCEPT !.pc = pc].pc = pc
    /\ Idle.pc = "idle" /\ \A op : Hang(op) => tool'.pc = "endless"
BY DEF Hang, Idle

LEMMA StartsFit == ASSUME FitInv, StartsOne PROVE FitInv'
<1>1. data' = data
  BY Zenon DEF StartsOne, MkdirStarts, LnStarts, RmStarts, image
<1>2. CASE MkdirStarts
  <2>1. \/ Hang("mkdir")
        \/ \E d, name : tool' = [Idle EXCEPT !.op = "mkdir", !.pc = "inode", !.dir = d, !.name = name]
    BY <1>2, Zenon DEF MkdirStarts
  <2> QED BY <1>1, <2>1, PcIs, FitRest DEF Idle
<1>3. CASE LnStarts
  <2>1. PICK r \in {q \in Requests : q.op \in {"ln", "ln_s"}} : \E d, n :
           \/ Hang(r.op)
           \/ tool' = [Idle EXCEPT !.op = r.op, !.dir = d, !.name = r.name,
                        !.pc = IF r.op = "ln" THEN "count" ELSE "check", !.ino = n]
    BY <1>3, Zenon DEF LnStarts
  <2>2. ASSUME NEW d, NEW n, NEW pc \in {"count", "check"},
               tool' = [Idle EXCEPT !.op = r.op, !.dir = d, !.name = r.name, !.pc = pc, !.ino = n]
        PROVE  tool'.pc # "enter"
    BY <2>2 DEF Idle
  <2>3. (IF r.op = "ln" THEN "count" ELSE "check") \in {"count", "check"}
    OBVIOUS
  <2>4. Hang(r.op) => tool'.pc # "enter"
    BY PcIs
  <2>5. tool'.pc # "enter"
    BY <2>1, <2>2, <2>3, <2>4, Zenon
  <2> QED BY <1>1, <2>5, FitRest
<1>4. CASE RmStarts
  <2>1. PICK r \in {q \in Requests : q.op = "rm"} :
           \/ Hang("rm")
           \/ tool' = [Idle EXCEPT !.op = "rm", !.pc = "clear", !.dir = find_dir_inode(r.dir),
                        !.name = r.name,
                        !.ino = (IF find_dir_inode(r.dir) < 0
                                 THEN Record(find_dir_inode(r.dir), NoName, "none", 0)
                                 ELSE Scan(DirBlocks(find_dir_inode(r.dir)), r.name)).inode,
                        !.at = BlockNaming(find_dir_inode(r.dir), r.name)]
    BY <1>4, Zenon DEF RmStarts
  <2> DEFINE d == find_dir_inode(r.dir)
             n == (IF d < 0 THEN Record(d, NoName, "none", 0) ELSE Scan(DirBlocks(d), r.name)).inode
             b == BlockNaming(d, r.name)
  <2>2. \/ Hang("rm")
        \/ tool' = [Idle EXCEPT !.op = "rm", !.pc = "clear", !.dir = d, !.name = r.name,
                                !.ino = n, !.at = b]
    BY <2>1
  <2> HIDE DEF d, n, b
  <2>3. ASSUME tool' = [Idle EXCEPT !.op = "rm", !.pc = "clear", !.dir = d, !.name = r.name,
                                    !.ino = n, !.at = b]
        PROVE  tool'.pc # "enter"
    BY <2>3 DEF Idle
  <2>4. tool'.pc # "enter"
    BY <2>2, <2>3, PcIs
  <2> QED BY <1>1, <2>4, FitRest
<1> QED BY <1>2, <1>3, <1>4 DEF StartsOne

LEMMA AllocatesFit == ASSUME CountInv, FitInv, Allocates PROVE FitInv'
<1>1. data' = data
  BY Zenon DEF Allocates, CountInode, MarkInode, MarkBlock, CountBlock, SetInode, AssignBlock
<1>2. \/ tool' = Idle
      \/ \E n : tool' = [tool EXCEPT !.pc = "mark_inode", !.ino = n]
      \/ \E pc \in {"set_inode", "count_block", "fill", "grow"} : tool' = [tool EXCEPT !.pc = pc]
      \/ tool' = [tool EXCEPT !.pc = "block", !.own = TRUE]
      \/ \E b : \E pc \in {"mark_block", "fill", "grow"} : tool' = [tool EXCEPT !.pc = pc, !.at = b]
  <2>1. AfterBlock \in {"fill", "grow"}
    BY DEF AfterBlock
  <2> QED BY <2>1, Zenon DEF Allocates, CountInode, MarkInode, MarkBlock, CountBlock, SetInode,
                AssignBlock, Goto, Stop
<1>3. tool'.pc # "enter"
  <2>0. "pc" \in DOMAIN tool
    BY DEF CountInv, Idle
  <2>1. CASE \E n : tool' = [tool EXCEPT !.pc = "mark_inode", !.ino = n]
    BY <2>0, <2>1
  <2>2. CASE \E pc \in {"set_inode", "count_block", "fill", "grow"} : tool' = [tool EXCEPT !.pc = pc]
    BY <2>0, <2>2
  <2>3. CASE tool' = [tool EXCEPT !.pc = "block", !.own = TRUE]
    BY <2>0, <2>3
  <2>4. CASE \E b : \E pc \in {"mark_block", "fill", "grow"} : tool' = [tool EXCEPT !.pc = pc, !.at = b]
    BY <2>0, <2>4
  <2> QED BY <1>2, <2>1, <2>2, <2>3, <2>4, PcIs
<1> QED BY <1>1, <1>3, FitRest

LEMMA RelinksFit == ASSUME CountInv, FitInv, Relinks PROVE FitInv'
<1>1. data' = data
  BY Zenon DEF Relinks, LinkParent, CountLink, CheckTarget, DropLink, GrowSize, image
<1>2. \/ tool' = Idle \/ \E op : Hang(op)
      \/ \E pc \in {"check", "room", "inode", "free_inode", "idle", "parent"} : Goto(pc)
  BY Zenon DEF Relinks, LinkParent, CountLink, CheckTarget, DropLink, GrowSize, Stop
<1>3. tool'.pc # "enter"
  <2>1. CASE \E pc \in {"check", "room", "inode", "free_inode", "idle", "parent"} : Goto(pc)
    BY <2>1 DEF CountInv, Idle, Goto
  <2> QED BY <1>2, <2>1, PcIs
<1> QED BY <1>1, <1>3, FitRest

LEMMA GivesBackFit == ASSUME CountInv, FitInv, tool.pc # "enter", GivesBack PROVE FitInv'
<1>1. data' = data
  BY Zenon DEF GivesBack, FreeInode, FreeBlock, FreeIndirect, FreeBlocks
<1>2. \/ tool' = Idle
      \/ \E pc \in {"free_block", "free_indirect"} : tool' = [tool EXCEPT !.pc = pc, !.rec = 0]
      \/ tool' = [tool EXCEPT !.rec = @ + 1]
  BY Zenon DEF GivesBack, FreeInode, FreeBlock, FreeIndirect, FreeBlocks
<1>3. tool'.pc # "enter"
  <2>0. "pc" \in DOMAIN tool
    BY DEF CountInv, Idle
  <2>1. CASE \E pc \in {"free_block", "free_indirect"} : tool' = [tool EXCEPT !.pc = pc, !.rec = 0]
    BY <2>0, <2>1
  <2>2. CASE tool' = [tool EXCEPT !.rec = @ + 1]
    BY <2>0, <2>2
  <2> QED BY <1>2, <2>1, <2>2, PcIs
<1> QED BY <1>1, <1>3, FitRest

LEMMA InitFits == Init => FitInv
<1> SUFFICES ASSUME Init PROVE FitInv
  OBVIOUS
<1>1. data = FirstImage.data /\ tool.pc = "idle"
  BY IdleTyped DEF Init
<1>2. \A b \in 0..BLOCK_NUM : Fits(FirstImage.data[b])
  BY FirstImageAssumption, Zenon
<1> QED BY <1>1, <1>2 DEF FitInv

LEMMA MkdirFits == ASSUME CountInv, UseInv, FitInv, ~freed, Mkdir PROVE FitInv'
<1>1. CASE MkdirStarts
  BY <1>1, StartsFit DEF StartsOne
<1>2. CASE MkdirCountInode \/ MkdirMarkInode \/ MkdirSetInode \/ MkdirAssignBlock \/ MkdirMarkBlock
             \/ MkdirCountBlock
  <2>1. Allocates
    BY <1>2, Zenon DEF Allocates, MkdirCountInode, MkdirMarkInode, MkdirSetInode,
         MkdirAssignBlock,
         MkdirMarkBlock, MkdirCountBlock
  <2> QED BY <2>1, AllocatesFit
<1>3. CASE Fill
  BY <1>3, FillFits
<1>4. CASE MkdirFindRoom
  BY <1>4, FindRoomFits DEF MkdirFindRoom, At
<1>5. CASE MkdirEnter
  BY <1>5, EnterRecordFits DEF MkdirEnter, At, Kinds
<1>6. CASE MkdirGrow
  BY <1>6, GrowRecordFits DEF MkdirGrow, Kinds
<1>7. CASE MkdirGrowSize \/ LinkParent
  <2>1. Relinks
    BY <1>7, Zenon DEF Relinks, MkdirGrowSize
  <2> QED BY <2>1, RelinksFit
<1> QED BY <1>1, <1>2, <1>3, <1>4, <1>5, <1>6, <1>7 DEF Mkdir

LEMMA LnFits == ASSUME CountInv, UseInv, FitInv, ~freed, Ln PROVE FitInv'
<1>0. LinkType \in Kinds
  BY DEF LinkType, Kinds
<1>1. CASE LnStarts
  BY <1>1, StartsFit DEF StartsOne
<1>2. CASE LnCountInode \/ LnMarkInode \/ LnSetInode \/ LnAssignBlock \/ LnMarkBlock \/ LnCountBlock
  <2>1. Allocates
    BY <1>2, Zenon DEF Allocates, LnCountInode, LnMarkInode, LnSetInode, LnAssignBlock,
         LnMarkBlock,
         LnCountBlock
  <2> QED BY <2>1, AllocatesFit
<1>3. CASE WriteTarget
  BY <1>3, WriteTargetFits
<1>4. CASE LnFindRoom
  BY <1>4, FindRoomFits DEF LnFindRoom, Linking
<1>5. CASE LnEnter
  BY <1>0, <1>5, EnterRecordFits DEF LnEnter, Linking
<1>6. CASE LnGrow
  BY <1>0, <1>6, GrowRecordFits DEF LnGrow
<1>7. CASE LnGrowSize \/ CountLink \/ CheckTarget
  <2>1. Relinks
    BY <1>7, Zenon DEF Relinks, LnGrowSize
  <2> QED BY <2>1, RelinksFit
<1> QED BY <1>1, <1>2, <1>3, <1>4, <1>5, <1>6, <1>7 DEF Ln

LEMMA RmFits == ASSUME CountInv, UseInv, FitInv, Rm PROVE FitInv'
<1>1. CASE RmStarts
  BY <1>1, StartsFit DEF StartsOne
<1>2. CASE ClearEntry
  BY <1>2, ClearEntryFits
<1>3. CASE DropLink
  BY <1>3, RelinksFit DEF Relinks
<1>4. CASE GivesBack
  <2>1. tool.pc # "enter"
    BY <1>4 DEF GivesBack, FreeInode, FreeBlock, FreeIndirect, At
  <2> QED BY <1>4, <2>1, GivesBackFit
<1> QED BY <1>1, <1>2, <1>3, <1>4 DEF Rm, GivesBack

\* Nothing but rm runs once it gave an inode back.
LEMMA NotFreed == ASSUME UseInv, Mkdir \/ Ln PROVE ~freed
<1>1. CASE MkdirStarts \/ LnStarts
  BY <1>1, Starting DEF MkdirStarts, LnStarts
<1>2. CASE ~(MkdirStarts \/ LnStarts)
  <2>1. tool.pc \notin Freeing \cup {"idle"}
    BY <1>2 DEF Mkdir, MkdirCountInode, MkdirMarkInode, MkdirSetInode, MkdirAssignBlock,
                MkdirMarkBlock, MkdirCountBlock, Fill, MkdirFindRoom, MkdirEnter, MkdirGrow,
                MkdirGrowSize, LinkParent, Ln, CountLink, CheckTarget, LnCountInode, LnMarkInode,
                LnSetInode, LnAssignBlock, LnMarkBlock, LnCountBlock, WriteTarget, LnFindRoom,
                LnEnter, LnGrow, LnGrowSize, At, Linking, Freeing
  <2> QED BY <2>1 DEF UseInv
<1> QED BY <1>1, <1>2

LEMMA StepFits == ASSUME CountInv, UseInv, FitInv, [Next]_vars PROVE FitInv'
<1>1. CASE Mkdir \/ Ln
  BY <1>1, NotFreed, MkdirFits, LnFits
<1>2. CASE Rm
  BY <1>2, RmFits
<1>3. CASE Killed
  BY <1>3, IdleTyped, FitRest DEF Killed, Stop, image
<1>4. CASE UNCHANGED vars
  BY <1>4 DEF vars, image, FitInv
<1> QED BY <1>1, <1>2, <1>3, <1>4 DEF Next

\* mkdir and ln never go on as rm.
Works == \/ Allocates \/ Relinks \/ Fill \/ WriteTarget \/ FindRoom
         \/ \E type : GrowRecord(type)
         \/ \E type : \E pc \in {"idle", "parent"} : EnterRecord(type, pc)

LEMMA WorksOn ==
    ASSUME Mkdir \/ Ln
    PROVE  MkdirStarts \/ LnStarts \/ (Works /\ tool.op \in {"mkdir", "ln", "ln_s"})
<1>1. CASE Mkdir /\ ~MkdirStarts
  <2>1. tool.op = "mkdir"
    BY <1>1 DEF Mkdir, MkdirCountInode, MkdirMarkInode, MkdirSetInode, MkdirAssignBlock,
                MkdirMarkBlock, MkdirCountBlock, Fill, MkdirFindRoom, MkdirEnter, MkdirGrow,
                MkdirGrowSize, LinkParent, At
  <2>2. Works
    BY <1>1, Zenon DEF Works, Allocates, Relinks, Mkdir, MkdirCountInode, MkdirMarkInode,
         MkdirSetInode, MkdirAssignBlock, MkdirMarkBlock, MkdirCountBlock, MkdirFindRoom,
         MkdirEnter, MkdirGrow, MkdirGrowSize
  <2> QED BY <2>1, <2>2
<1>2. CASE Ln /\ ~LnStarts
  <2>1. tool.op \in {"ln", "ln_s"}
    BY <1>2 DEF Ln, CountLink, CheckTarget, LnCountInode, LnMarkInode, LnSetInode, LnAssignBlock,
                LnMarkBlock, LnCountBlock, WriteTarget, LnFindRoom, LnEnter, LnGrow, LnGrowSize,
                At, Linking
  <2>2. Works
    BY <1>2, Zenon DEF Works, Allocates, Relinks, Ln, LnCountInode, LnMarkInode, LnSetInode,
         LnAssignBlock, LnMarkBlock, LnCountBlock, LnFindRoom, LnEnter, LnGrow, LnGrowSize
  <2> QED BY <2>1, <2>2
<1> QED BY <1>1, <1>2

LEMMA StartsAs == ASSUME MkdirStarts \/ LnStarts PROVE tool'.op # "rm"
<1>1. ASSUME NEW op \in {"mkdir", "ln", "ln_s"}, Hang(op) PROVE tool'.op # "rm"
  BY <1>1 DEF Hang, Idle
<1>2. CASE MkdirStarts
  <2>1. \/ Hang("mkdir")
        \/ \E d, name : tool' = [Idle EXCEPT !.op = "mkdir", !.pc = "inode", !.dir = d, !.name = name]
    BY <1>2, Zenon DEF MkdirStarts
  <2> QED BY <1>1, <2>1 DEF Idle
<1>3. CASE LnStarts
  <2>1. PICK r \in {q \in Requests : q.op \in {"ln", "ln_s"}} : \E d, n :
           \/ Hang(r.op)
           \/ tool' = [Idle EXCEPT !.op = r.op, !.dir = d, !.name = r.name,
                        !.pc = IF r.op = "ln" THEN "count" ELSE "check", !.ino = n]
    BY <1>3, Zenon DEF LnStarts
  <2>2. r.op \in {"ln", "ln_s"}
    OBVIOUS
  <2>3. ASSUME NEW d, NEW n, NEW pc \in {"count", "check"},
               tool' = [Idle EXCEPT !.op = r.op, !.dir = d, !.name = r.name, !.pc = pc, !.ino = n]
        PROVE  tool'.op # "rm"
    BY <2>2, <2>3 DEF Idle
  <2>4. (IF r.op = "ln" THEN "count" ELSE "check") \in {"count", "check"}
    OBVIOUS
  <2>5. Hang(r.op) => tool'.op # "rm"
    BY <1>1, <2>2
  <2> QED BY <2>1, <2>3, <2>4, <2>5, Zenon
<1> QED BY <1>2, <1>3

LEMMA OpKept == ASSUME CountInv, Mkdir \/ Ln PROVE tool'.op # "rm"
<1>1. CASE MkdirStarts \/ LnStarts
  BY <1>1, StartsAs
<1>2. CASE Works /\ tool.op \in {"mkdir", "ln", "ln_s"}
  <2>1. \/ tool' = Idle \/ \E op : op = tool.op /\ Hang(op)
        \/ \E pc : Goto(pc)
        \/ \E pc, n : tool' = [tool EXCEPT !.pc = pc, !.ino = n]
        \/ \E pc, own : tool' = [tool EXCEPT !.pc = pc, !.own = own]
        \/ \E pc, b : tool' = [tool EXCEPT !.pc = pc, !.at = b]
        \/ \E pc, b, rec : tool' = [tool EXCEPT !.pc = pc, !.at = b, !.rec = rec]
    <3>1. CASE Allocates
      BY <3>1, Zenon DEF Allocates, CountInode, MarkInode, MarkBlock, CountBlock, SetInode,
           AssignBlock, Stop
    <3>2. CASE Relinks
      BY <3>2, Zenon DEF Relinks, LinkParent, CountLink, CheckTarget, DropLink, GrowSize, Stop
    <3>3. CASE FindRoom
      <4> DEFINE bs == DirBlocks(tool.dir)
                 stops == {k \in DOMAIN bs : Filled(bs[k]) => HasRoom(bs[k])}
                 b == bs[Min(stops)]
                 rec == Last(data[b]).rec_len - EXT2_DIR_REC_LEN(Last(data[b]).name)
      <4>1. \/ tool' = [tool EXCEPT !.pc = "block", !.own = FALSE] \/ Hang(tool.op)
            \/ tool' = [tool EXCEPT !.pc = "enter", !.at = b, !.rec = rec]
        BY <3>3, Zenon DEF FindRoom
      <4> HIDE DEF b, rec
      <4> QED BY <4>1, Zenon
    <3>4. CASE ~(Allocates \/ Relinks \/ FindRoom)
      BY <1>2, <3>4, Zenon DEF Works, Fill, WriteTarget, GrowRecord, EnterRecord, Stop
    <3> QED BY <3>1, <3>2, <3>3, <3>4
  <2>2. {"op", "pc", "ino", "own", "at", "rec"} \subseteq DOMAIN tool
    BY DEF CountInv, Idle
  <2>3. CASE tool' = Idle
    BY <2>3 DEF Idle
  <2>4. CASE \E op : op = tool.op /\ Hang(op)
    BY <1>2, <2>4 DEF Hang, Idle
  <2>5. CASE \E pc : Goto(pc)
    BY <1>2, <2>2, <2>5 DEF Goto
  <2>6. CASE \E pc, n : tool' = [tool EXCEPT !.pc = pc, !.ino = n]
    BY <1>2, <2>2, <2>6
  <2>7. CASE \E pc, own : tool' = [tool EXCEPT !.pc = pc, !.own = own]
    BY <1>2, <2>2, <2>7
  <2>8. CASE \E pc, b : tool' = [tool EXCEPT !.pc = pc, !.at = b]
    BY <1>2, <2>2, <2>8
  <2>9. CASE \E pc, b, rec : tool' = [tool EXCEPT !.pc = pc, !.at = b, !.rec = rec]
    BY <1>2, <2>2, <2>9
  <2> QED BY <2>1, <2>3, <2>4, <2>5, <2>6, <2>7, <2>8, <2>9
<1> QED BY <1>1, <1>2, WorksOn

\* How many blocks the running rm gave back; any number up to BLOCK_NUM when
\* it ended.
GivenBack == IF tool.pc = "free_block" THEN tool.rec
             ELSE IF tool.pc = "free_indirect" THEN DIRECT + tool.rec ELSE BLOCK_NUM

\* The counts and bitmaps once rm gave an inode back.
FreedRange ==
    /\ inode_bitmap \subseteq Inodes /\ block_bitmap \subseteq Blocks
    /\ free_inodes \in -MaxKills..INODE_NUM + 1
    /\ tool.pc \in Freeing => tool.ino \in Inodes
    /\ tool.pc = "free_block" => tool.rec <= inode[tool.ino].nblocks
    /\ tool.pc = "free_indirect" => DIRECT + tool.rec <= inode[tool.ino].nblocks
    /\ free_blocks \in Nat /\ free_blocks <= BLOCK_NUM + MaxKills + GivenBack

RangeInv ==
    /\ kills \in 0..MaxKills /\ started \in 0..MaxTools /\ freed \in BOOLEAN
    /\ tool.op = "rm" /\ tool.pc # "endless" => tool.ino \in Inodes
    /\ freed => FreedRange

\* Between the bits and the counts a tool is at most one inode and one block off,
\* and then there is that inode or block.
LEMMA CountsInRange ==
    ASSUME CountInv, UseInv, ~freed
    PROVE  /\ free_inodes \in -kills..INODE_NUM
           /\ free_blocks \in Nat /\ free_blocks <= BLOCK_NUM + kills
<1>1. /\ IsFiniteSet(inode_bitmap) /\ Cardinality(inode_bitmap) \in Nat
      /\ IsFiniteSet(block_bitmap) /\ Cardinality(block_bitmap) \in Nat
  BY BitmapsFinite
<1>2. /\ IsFiniteSet(Inodes) /\ Cardinality(Inodes) = INODE_NUM
      /\ IsFiniteSet(Blocks) /\ Cardinality(Blocks) = BLOCK_NUM
  BY FS_Interval DEF Inodes, Blocks
<1>3. Cardinality(inode_bitmap) + InodeOwed <= INODE_NUM
  <2>1. CASE tool.pc = "mark_inode"
    <3>1. tool.ino \in Inodes \ inode_bitmap /\ inode_bitmap \subseteq Inodes
      BY <2>1 DEF CountInv
    <3>2. inode_bitmap \cup {tool.ino} \in SUBSET Inodes
      BY <3>1
    <3>3. Cardinality(inode_bitmap \cup {tool.ino}) <= Cardinality(Inodes)
      BY <1>2, <3>2, FS_Subset
    <3>4. Cardinality(inode_bitmap \cup {tool.ino}) = Cardinality(inode_bitmap) + 1
      BY <1>1, <3>1, FS_AddElement
    <3> QED BY <1>1, <1>2, <2>1, <3>3, <3>4 DEF InodeOwed
  <2>2. CASE tool.pc # "mark_inode"
    <3>1. inode_bitmap \in SUBSET Inodes
      BY DEF CountInv
    <3>2. Cardinality(inode_bitmap) <= Cardinality(Inodes)
      BY <1>2, <3>1, FS_Subset
    <3> QED BY <1>1, <1>2, <2>2, <3>2 DEF InodeOwed
  <2> QED BY <2>1, <2>2
<1>4. Cardinality(block_bitmap) <= BLOCK_NUM
  <2>1. block_bitmap \in SUBSET Blocks
    BY DEF CountInv
  <2>2. Cardinality(block_bitmap) <= Cardinality(Blocks)
    BY <1>2, <2>1, FS_Subset
  <2> QED BY <1>2, <2>2
<1>5. BlockOwed <= Cardinality(block_bitmap)
  <2>1. CASE tool.pc = "count_block"
    <3>1. tool.own \in BOOLEAN
      BY ToolParts DEF UseInv
    <3>2. tool.at \in block_bitmap
      BY <2>1, <3>1 DEF UseInv, ToolInv, Own, Growing, Giving, Unshared
    <3>3. Cardinality(block_bitmap) # 0
      BY <1>1, <3>2, FS_EmptySet
    <3> QED BY <1>1, <2>1, <3>3 DEF BlockOwed
  <2>2. CASE tool.pc # "count_block"
    BY <1>1, <2>2 DEF BlockOwed
  <2> QED BY <2>1, <2>2
<1>6. /\ free_inodes \in Int /\ free_blocks \in Int /\ kills \in Nat
      /\ InodeGap - InodeOwed \in 0..kills /\ BlockGap - BlockOwed \in 0..kills
  BY DEF CountInv
<1>7. InodeOwed \in 0..1 /\ BlockOwed \in 0..1
  BY DEF InodeOwed, BlockOwed
<1> DEFINE a == Cardinality(inode_bitmap)
           b == Cardinality(block_bitmap)
<1>8. /\ a \in Nat /\ b \in Nat /\ a + InodeOwed <= INODE_NUM /\ b <= BLOCK_NUM /\ BlockOwed <= b
      /\ INODE_NUM - a - free_inodes - InodeOwed \in 0..kills
      /\ free_blocks - (BLOCK_NUM - b) - BlockOwed \in 0..kills
  BY <1>1, <1>3, <1>4, <1>5, <1>6 DEF InodeGap, BlockGap
<1> HIDE DEF a, b
<1> QED BY <1>6, <1>7, <1>8

LEMMA InitRange == Init => RangeInv
<1> SUFFICES ASSUME Init PROVE RangeInv
  OBVIOUS
<1>1. kills = 0 /\ started = 0 /\ freed = FALSE /\ tool = Idle
  BY DEF Init
<1>2. tool.op = "none"
  BY <1>1 DEF Idle
<1>3. 0 \in 0..MaxKills /\ 0 \in 0..MaxTools
  BY Constants
<1> QED BY <1>1, <1>2, <1>3 DEF RangeInv

\* Only a start counts as one and only a kill as one, and only rm gives back.
LEMMA Bounded ==
    ASSUME RangeInv, [Next]_vars
    PROVE  kills' \in 0..MaxKills /\ started' \in 0..MaxTools /\ freed' \in BOOLEAN
<1>1. (Mkdir \/ Ln \/ Rm) =>
         /\ kills' = kills
         /\ started' = started \/ (started < MaxTools /\ started' = started + 1)
         /\ freed' = freed \/ freed' = TRUE
  <2>1. MkdirStarts \/ LnStarts \/ RmStarts => Starts
    BY Zenon DEF MkdirStarts, LnStarts, RmStarts
  <2>2. Works => Bookkeeping
    BY Zenon DEF Works, Allocates, Relinks, CountInode, MarkInode, SetInode, AssignBlock,
         MarkBlock,
         CountBlock, Fill, WriteTarget, FindRoom, EnterRecord, GrowRecord, GrowSize, LinkParent,
         CountLink, CheckTarget, DropLink
  <2>3. Rm /\ ~RmStarts => UNCHANGED <<kills, started>> /\ (UNCHANGED freed \/ freed' = TRUE)
    BY Zenon DEF Rm, ClearEntry, DropLink, FreeInode, FreeBlock, FreeIndirect, FreeBlocks,
         Bookkeeping
  <2> QED BY <2>1, <2>2, <2>3, WorksOn DEF Starts, Bookkeeping
<1>2. Killed => /\ kills < MaxKills /\ kills' = kills + 1 /\ UNCHANGED <<started, freed>>
  BY DEF Killed
<1>3. UNCHANGED vars => UNCHANGED <<kills, started, freed>>
  BY DEF vars
<1>4. MaxKills \in Nat /\ MaxTools \in Nat
  BY Constants
<1>5. kills \in 0..MaxKills /\ started \in 0..MaxTools /\ freed \in BOOLEAN
  BY DEF RangeInv
<1>6. CASE Mkdir \/ Ln \/ Rm
  <2>1. kills' \in 0..MaxKills
    BY <1>1, <1>5, <1>6
  <2>2. started' \in 0..MaxTools
    <3>1. started' = started \/ (started < MaxTools /\ started' = started + 1)
      BY <1>1, <1>6
    <3> QED BY <1>4, <1>5, <3>1
  <2>3. freed' \in BOOLEAN
    BY <1>1, <1>5, <1>6, Zenon
  <2> QED BY <2>1, <2>2, <2>3
<1>7. CASE Killed
  BY <1>2, <1>4, <1>5, <1>7
<1>8. CASE UNCHANGED vars
  BY <1>3, <1>5, <1>8
<1> QED BY <1>6, <1>7, <1>8 DEF Next

LEMMA RmHasInode ==
    ASSUME CountInv, UseInv, RangeInv, [Next]_vars
    PROVE  tool'.op = "rm" /\ tool'.pc # "endless" => tool'.ino \in Inodes
<1>1. CASE Mkdir \/ Ln
  BY <1>1, OpKept
<1>2. CASE RmStarts
  <2>1. CASE Hang("rm")
    BY <2>1, PcIs
  <2> QED BY <1>2, <2>1, RmFinds
<1>3. CASE Rm /\ ~RmStarts
  <2>1. tool.op = "rm" /\ tool.pc # "endless"
    BY <1>3 DEF Rm, ClearEntry, DropLink, FreeInode, FreeBlock, FreeIndirect, At
  <2>2. tool.ino \in Inodes
    BY <2>1 DEF RangeInv
  <2>3. \/ tool' = Idle
        \/ \E pc : Goto(pc)
        \/ \E rec : tool' = [tool EXCEPT !.rec = rec]
        \/ \E pc, rec : tool' = [tool EXCEPT !.pc = pc, !.rec = rec]
    BY <1>3, Zenon DEF Rm, ClearEntry, DropLink, FreeInode, FreeBlock, FreeIndirect, FreeBlocks,
         Stop
  <2>4. {"ino", "pc", "rec"} \subseteq DOMAIN tool
    BY DEF CountInv, Idle
  <2>5. CASE tool' = Idle
    BY <2>5 DEF Idle
  <2>6. CASE \E pc : Goto(pc)
    BY <2>2, <2>4, <2>6 DEF Goto
  <2>7. CASE \E rec : tool' = [tool EXCEPT !.rec = rec]
    BY <2>2, <2>4, <2>7
  <2>8. CASE \E pc, rec : tool' = [tool EXCEPT !.pc = pc, !.rec = rec]
    BY <2>2, <2>4, <2>8
  <2> QED BY <2>3, <2>5, <2>6, <2>7, <2>8
<1>4. CASE Killed
  BY <1>4 DEF Killed, Stop, Idle
<1>5. CASE UNCHANGED vars
  BY <1>5 DEF vars, RangeInv
<1> QED BY <1>1, <1>2, <1>3, <1>4, <1>5 DEF Next

LEMMA FreeInodeRange ==
    ASSUME CountInv, UseInv, RangeInv, FreeInode PROVE FreedRange'
<1>1. /\ tool.pc = "free_inode" /\ tool.op = "rm"
      /\ inode_bitmap' = inode_bitmap \ BitsAt(tool.ino) /\ free_inodes' = free_inodes + 1
      /\ tool' = [tool EXCEPT !.pc = "free_block", !.rec = 0]
      /\ UNCHANGED <<block_bitmap, free_blocks, inode>>
  BY DEF FreeInode, At, set_inode_bitmap_back
<1>2. ~freed /\ tool.ino \in Inodes
  BY <1>1 DEF UseInv, RangeInv, Freeing
<1>3. tool'.pc = "free_block" /\ tool'.rec = 0 /\ tool'.ino = tool.ino
  BY <1>1 DEF UseInv, Typed, ToolType
<1>4. /\ free_inodes \in -kills..INODE_NUM
      /\ free_blocks \in Nat /\ free_blocks <= BLOCK_NUM + kills
  BY <1>2, CountsInRange
<1>5. kills \in 0..MaxKills /\ MaxKills \in Nat
  BY Constants DEF RangeInv
<1>6. inode_bitmap' \subseteq Inodes /\ block_bitmap' \subseteq Blocks
  BY <1>1, <1>2 DEF CountInv
<1>7. free_inodes' \in -MaxKills..INODE_NUM + 1
  BY <1>1, <1>4, <1>5
<1>8. inode[tool.ino].nblocks \in Nat
  BY <1>2, InodeParts DEF UseInv
<1>9. GivenBack' = 0
  BY <1>3 DEF GivenBack
<1>10. free_blocks' \in Nat /\ free_blocks' <= BLOCK_NUM + MaxKills + GivenBack'
  BY <1>1, <1>4, <1>5, <1>9
<1> QED BY <1>1, <1>2, <1>3, <1>6, <1>7, <1>8, <1>10 DEF FreedRange

LEMMA FreeBlockRange ==
    ASSUME CountInv, UseInv, FreedRange, tool.ino \in Inodes, FreeBlock PROVE FreedRange'
<1> DEFINE nblocks == inode[tool.ino].nblocks
           n == Min({DIRECT, nblocks})
           next == IF nblocks > DIRECT THEN [tool EXCEPT !.pc = "free_indirect", !.rec = 0] ELSE Idle
<1>1. /\ tool.pc = "free_block" /\ UNCHANGED <<inode_bitmap, free_inodes, inode>>
      /\ \/ /\ tool.rec < n /\ block_bitmap' = block_bitmap \ BitsAt(inode[tool.ino].i_block[tool.rec])
            /\ free_blocks' = free_blocks + 1 /\ tool' = [tool EXCEPT !.rec = tool.rec + 1]
         \/ tool.rec = n /\ tool' = next /\ UNCHANGED <<block_bitmap, free_blocks>>
  BY DEF FreeBlock, FreeBlocks, At, set_block_bitmap_back
<1>2. nblocks \in Nat /\ nblocks <= BLOCK_NUM /\ DIRECT \in Nat /\ MaxKills \in Nat /\ DIRECT <= BLOCK_NUM
  BY InodeParts, Constants DEF UseInv
<1>3. n \in {DIRECT, nblocks} /\ n <= DIRECT /\ n <= nblocks
  BY <1>2, LeastIs
<1> HIDE DEF n
<1>4. tool.rec \in Nat /\ tool \in ToolType
  BY DEF UseInv, Typed, ToolType
<1>5. /\ inode_bitmap \subseteq Inodes /\ block_bitmap \subseteq Blocks
      /\ free_inodes \in -MaxKills..INODE_NUM + 1
      /\ free_blocks \in Nat /\ free_blocks <= BLOCK_NUM + MaxKills + tool.rec
  BY <1>1 DEF FreedRange, GivenBack
<1>6. CASE /\ tool.rec < n /\ block_bitmap' = block_bitmap \ BitsAt(inode[tool.ino].i_block[tool.rec])
           /\ free_blocks' = free_blocks + 1 /\ tool' = [tool EXCEPT !.rec = tool.rec + 1]
  <2>1. tool'.pc = "free_block" /\ tool'.rec = tool.rec + 1 /\ tool'.ino = tool.ino
    BY <1>1, <1>4, <1>6 DEF ToolType
  <2>2. GivenBack' = tool.rec + 1
    BY <2>1 DEF GivenBack
  <2>3. tool.rec + 1 <= nblocks /\ inode'[tool'.ino].nblocks = nblocks
    BY <1>1, <1>2, <1>3, <1>4, <1>6, <2>1
  <2> HIDE DEF nblocks, next
  <2>4. free_blocks' \in Nat /\ free_blocks' <= BLOCK_NUM + MaxKills + GivenBack'
    BY <1>2, <1>4, <1>5, <1>6, <2>2
  <2>5. block_bitmap' \subseteq Blocks
    BY <1>5, <1>6
  <2> QED BY <1>1, <1>5, <2>1, <2>3, <2>4, <2>5 DEF FreedRange
<1>7. CASE tool.rec = n /\ tool' = next /\ UNCHANGED <<block_bitmap, free_blocks>>
  <2>1. CASE nblocks > DIRECT
    <3>1. tool'.pc = "free_indirect" /\ tool'.rec = 0 /\ tool'.ino = tool.ino
      BY <1>4, <1>7, <2>1 DEF ToolType
    <3>2. GivenBack' = DIRECT
      BY <1>2, <3>1 DEF GivenBack
    <3>3. DIRECT + tool'.rec <= inode'[tool'.ino].nblocks
      BY <1>1, <1>2, <2>1, <3>1
    <3> HIDE DEF nblocks, next
    <3>4. free_blocks' \in Nat /\ free_blocks' <= BLOCK_NUM + MaxKills + GivenBack'
      BY <1>2, <1>3, <1>4, <1>5, <1>7, <3>2
    <3> QED BY <1>1, <1>5, <1>7, <3>1, <3>3, <3>4 DEF FreedRange
  <2>2. CASE ~(nblocks > DIRECT)
    <3>1. tool'.pc = "idle"
      BY <1>7, <2>2, IdleTyped
    <3>2. GivenBack' = BLOCK_NUM
      BY <3>1 DEF GivenBack
    <3> HIDE DEF nblocks, next
    <3>3. free_blocks' \in Nat /\ free_blocks' <= BLOCK_NUM + MaxKills + GivenBack'
      BY <1>2, <1>3, <1>4, <1>5, <1>7, <3>2
    <3> QED BY <1>1, <1>5, <1>7, <3>1, <3>3 DEF FreedRange, Freeing
  <2> QED BY <2>1, <2>2
<1> QED BY <1>1, <1>6, <1>7

LEMMA FreeIndirectRange ==
    ASSUME CountInv, UseInv, FreedRange, tool.ino \in Inodes, FreeIndirect PROVE FreedRange'
<1> DEFINE nblocks == inode[tool.ino].nblocks
           n == nblocks - DIRECT
<1>1. /\ tool.pc = "free_indirect" /\ UNCHANGED <<inode_bitmap, free_inodes, inode>>
      /\ \/ /\ tool.rec < n /\ \E b : block_bitmap' = block_bitmap \ BitsAt(b)
            /\ free_blocks' = free_blocks + 1 /\ tool' = [tool EXCEPT !.rec = tool.rec + 1]
         \/ tool' = Idle /\ UNCHANGED <<block_bitmap, free_blocks>>
  BY Zenon DEF FreeIndirect, FreeBlocks, At, set_block_bitmap_back
<1>2. nblocks \in Nat /\ nblocks <= BLOCK_NUM /\ DIRECT \in Nat /\ MaxKills \in Nat
  BY InodeParts, Constants DEF UseInv
<1>4. tool.rec \in Nat /\ tool \in ToolType
  BY DEF UseInv, Typed, ToolType
<1>5. /\ inode_bitmap \subseteq Inodes /\ block_bitmap \subseteq Blocks
      /\ free_inodes \in -MaxKills..INODE_NUM + 1
      /\ DIRECT + tool.rec <= nblocks
      /\ free_blocks \in Nat /\ free_blocks <= BLOCK_NUM + MaxKills + (DIRECT + tool.rec)
  BY <1>1 DEF FreedRange, GivenBack
<1>6. CASE /\ tool.rec < n /\ \E b : block_bitmap' = block_bitmap \ BitsAt(b)
           /\ free_blocks' = free_blocks + 1 /\ tool' = [tool EXCEPT !.rec = tool.rec + 1]
  <2>1. tool'.pc = "free_indirect" /\ tool'.rec = tool.rec + 1 /\ tool'.ino = tool.ino
    BY <1>1, <1>4, <1>6 DEF ToolType
  <2>2. GivenBack' = DIRECT + (tool.rec + 1)
    BY <2>1 DEF GivenBack
  <2>3. DIRECT + (tool.rec + 1) <= nblocks /\ inode'[tool'.ino].nblocks = nblocks
    BY <1>1, <1>2, <1>4, <1>6, <2>1
  <2> HIDE DEF nblocks
  <2>4. free_blocks' \in Nat /\ free_blocks' <= BLOCK_NUM + MaxKills + GivenBack'
    BY <1>2, <1>4, <1>5, <1>6, <2>2
  <2>5. block_bitmap' \subseteq Blocks
    BY <1>5, <1>6
  <2> QED BY <1>1, <1>5, <2>1, <2>3, <2>4, <2>5 DEF FreedRange
<1>7. CASE tool' = Idle /\ UNCHANGED <<block_bitmap, free_blocks>>
  <2>1. tool'.pc = "idle"
    BY <1>7, IdleTyped
  <2>2. GivenBack' = BLOCK_NUM
    BY <2>1 DEF GivenBack
  <2> HIDE DEF nblocks
  <2>3. free_blocks' \in Nat /\ free_blocks' <= BLOCK_NUM + MaxKills + GivenBack'
    BY <1>2, <1>4, <1>5, <1>7, <2>2
  <2> QED BY <1>1, <1>5, <1>7, <2>1, <2>3 DEF FreedRange, Freeing
<1> QED BY <1>1, <1>6, <1>7

LEMMA GivenBackFits ==
    ASSUME UseInv, FreedRange PROVE GivenBack \in Nat /\ GivenBack <= BLOCK_NUM
<1>1. tool.rec \in Nat /\ DIRECT \in Nat
  BY ToolParts, Constants DEF UseInv
<1>2. tool.pc \in Freeing => inode[tool.ino].nblocks \in Nat /\ inode[tool.ino].nblocks <= BLOCK_NUM
  BY InodeParts DEF UseInv, FreedRange
<1>3. tool.pc \in Freeing => GivenBack <= inode[tool.ino].nblocks
  BY DEF FreedRange, GivenBack, Freeing
<1>4. tool.pc \notin Freeing => GivenBack = BLOCK_NUM
  BY DEF GivenBack, Freeing
<1>5. GivenBack \in Nat
  BY <1>1 DEF GivenBack
<1> QED BY <1>1, <1>2, <1>3, <1>4, <1>5

LEMMA StepRange == ASSUME CountInv, UseInv, RangeInv, [Next]_vars PROVE RangeInv'
<1>1. kills' \in 0..MaxKills /\ started' \in 0..MaxTools /\ freed' \in BOOLEAN
  BY Bounded
<1>2. tool'.op = "rm" /\ tool'.pc # "endless" => tool'.ino \in Inodes
  BY RmHasInode
<1>3. ASSUME freed' PROVE FreedRange'
  <2>1. CASE Mkdir \/ Ln
    <3>1. ~freed
      BY <2>1, NotFreed
    <3>2. UNCHANGED freed
      <4>1. MkdirStarts \/ LnStarts => UNCHANGED freed
        BY Starting DEF MkdirStarts, LnStarts
      <4>2. Works => UNCHANGED freed
        BY Zenon DEF Works, Allocates, Relinks, CountInode, MarkInode, SetInode, AssignBlock,
             MarkBlock, CountBlock, Fill, WriteTarget, FindRoom, EnterRecord, GrowRecord,
             GrowSize,
             LinkParent, CountLink, CheckTarget, DropLink, Bookkeeping
      <4> QED BY <2>1, <4>1, <4>2, WorksOn
    <3> QED BY <1>3, <3>1, <3>2
  <2>2. CASE RmStarts
    BY <1>3, <2>2, RmFinds
  <2>3. CASE ClearEntry \/ DropLink
    <3>1. ~freed /\ UNCHANGED freed
      BY <2>3 DEF ClearEntry, DropLink, At, UseInv, Freeing, Bookkeeping
    <3> QED BY <1>3, <3>1
  <2>4. CASE FreeInode
    BY <2>4, FreeInodeRange
  <2>5. CASE FreeBlock \/ FreeIndirect
    <3>1. /\ freed /\ tool.ino \in Inodes
      BY <2>5 DEF FreeBlock, FreeIndirect, At, CountInv, RangeInv, Freeing
    <3>2. FreedRange
      BY <3>1 DEF RangeInv
    <3> QED BY <2>5, <3>1, <3>2, FreeBlockRange, FreeIndirectRange
  <2>6. CASE Killed
    <3>1. freed /\ tool' = Idle /\ UNCHANGED <<inode_bitmap, block_bitmap, free_inodes, free_blocks>>
      BY <1>3, <2>6 DEF Killed, Stop, image
    <3>2. tool.pc \in Freeing \cup {"idle"} /\ tool'.pc = "idle"
      BY <3>1, IdleTyped DEF UseInv
    <3>3. FreedRange
      BY <3>1 DEF RangeInv
    <3>4. GivenBack' = BLOCK_NUM
      BY <3>2 DEF GivenBack
    <3>5. MaxKills \in Nat /\ GivenBack \in Nat /\ GivenBack <= BLOCK_NUM
      BY <3>3, GivenBackFits, Constants
    <3>6. free_blocks' \in Nat /\ free_blocks' <= BLOCK_NUM + MaxKills + GivenBack'
      <4>1. free_blocks \in Nat /\ free_blocks <= BLOCK_NUM + MaxKills + GivenBack
        BY <3>3 DEF FreedRange
      <4> QED BY <3>1, <3>4, <3>5, <4>1
    <3> QED BY <3>1, <3>2, <3>3, <3>6 DEF FreedRange, Freeing
  <2>7. CASE UNCHANGED vars
    <3>1. FreedRange
      BY <1>3, <2>7 DEF RangeInv, vars
    <3> QED BY <2>7, <3>1 DEF FreedRange, GivenBack, vars, image
  <2> QED BY <2>1, <2>2, <2>3, <2>4, <2>5, <2>6, <2>7 DEF Next, Rm
<1> QED BY <1>1, <1>2, <1>3 DEF RangeInv

LEMMA RangeHeld == CountInv /\ UseInv /\ FitInv /\ RangeInv => TypeOK
<1> SUFFICES ASSUME CountInv, UseInv, FitInv, RangeInv PROVE TypeOK
  OBVIOUS
<1>1. /\ kills \in 0..MaxKills /\ started \in 0..MaxTools /\ freed \in BOOLEAN
      /\ MaxKills \in Nat /\ DIRECT \in Nat /\ DIRECT <= BLOCK_NUM
  BY Constants DEF RangeInv
<1>2. /\ inode_bitmap \subseteq Inodes /\ block_bitmap \subseteq Blocks
      /\ free_inodes \in -MaxKills..INODE_NUM + 1
      /\ free_blocks \in 0..2 * BLOCK_NUM + MaxKills
  <2>1. CASE ~freed
    <3>1. /\ free_inodes \in -kills..INODE_NUM
          /\ free_blocks \in Nat /\ free_blocks <= BLOCK_NUM + kills
      BY <2>1, CountsInRange
    <3>2. inode_bitmap \subseteq Inodes /\ block_bitmap \subseteq Blocks
      BY <2>1 DEF CountInv
    <3>3. /\ free_inodes \in -MaxKills..INODE_NUM + 1
          /\ free_blocks \in 0..2 * BLOCK_NUM + MaxKills
      BY <1>1, <3>1
    <3> QED BY <3>2, <3>3
  <2>2. CASE freed
    <3>1. FreedRange
      BY <2>2 DEF RangeInv
    <3>2. GivenBack \in Nat /\ GivenBack <= BLOCK_NUM
      BY <3>1, GivenBackFits
    <3>3. free_blocks \in Nat /\ free_blocks <= BLOCK_NUM + MaxKills + GivenBack
      BY <3>1 DEF FreedRange
    <3>4. free_blocks \in 0..2 * BLOCK_NUM + MaxKills
      BY <1>1, <3>2, <3>3
    <3> QED BY <3>1, <3>4 DEF FreedRange
  <2> QED BY <2>1, <2>2
<1>3. inode \in [Inodes -> InodeType] /\ DOMAIN data = 0..BLOCK_NUM
  BY DEF UseInv, Typed
<1>4. ASSUME NEW b \in DOMAIN data
      PROVE  /\ Fits(data[b])
             /\ \A e \in ToSet(data[b]) : e.inode \in 0..INODE_NUM /\ e.type \in Kinds
  <2>1. Fits(data[b]) /\ data[b] \in Seq(RecordType)
    BY <1>3, DataParts DEF FitInv, UseInv
  <2>2. ASSUME NEW e \in ToSet(data[b]) PROVE e.inode \in 0..INODE_NUM /\ e.type \in Kinds
    <3>1. PICK k \in DOMAIN data[b] : e = data[b][k]
      BY DEF ToSet
    <3> QED BY <2>1, <3>1, RecordParts
  <2> QED BY <2>1, <2>2
<1>5. tool.ino \in 0..INODE_NUM /\ tool.at \in 0..BLOCK_NUM
  BY ToolParts DEF UseInv
<1> QED BY <1>1, <1>2, <1>3, <1>4, <1>5, Zenon DEF TypeOK

\* The property of the runs, as a theorem: whatever the tools do and wherever
\* they are killed, the records of every block lie inside it and each is long
\* enough for its name (ext2_mkdir.c:176-181, ext2_ln.c:274-280, and what
\* ext2_rm.c:131-134 leaves); the free counts, after rm gave an inode back too,
\* stay in range.
THEOREM RecordsFit == Spec /\ []Roomy => []TypeOK
<1>1. Init => CountInv /\ UseInv /\ FitInv /\ RangeInv
  BY CountInit, InitUse, InitFits, InitRange
<1>2. CountInv /\ UseInv /\ FitInv /\ RangeInv /\ Roomy /\ [Next]_vars
         => CountInv' /\ UseInv' /\ FitInv' /\ RangeInv'
  BY StepUse, CountNext, StepFits, StepRange
<1> QED BY <1>1, <1>2, RangeHeld, PTL DEF Spec

=============================================================================
