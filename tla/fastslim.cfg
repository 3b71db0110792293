CONSTANTS
    Pages = {p1, p2, p3, p4, p5, p6}
    BufferSize = 3
    MaxRefs = 11
    MaxFrames = 6
SPECIFICATION RSpec
SYMMETRY AnyPages
CHECK_DEADLOCK FALSE
 
PROPERTY DroppedHit
