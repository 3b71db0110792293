CONSTANTS
    EXT2_BLOCK_SIZE = 60
    INODE_NUM = 7
    BLOCK_NUM = 13
    SLOTS = 3
    DIRECT = 2
    NameLen <- Lengths
    FirstImage <- SmallImage
    Requests <- CommandLines
    MaxKills = 0
    MaxTools = 2
    MaxParent = 1
SPECIFICATION Spec
CHECK_DEADLOCK FALSE
INVARIANT NamedInUse
