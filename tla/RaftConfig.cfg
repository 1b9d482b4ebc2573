\* What the chain says of itself (-continue shows both).
SPECIFICATION Spec
SYMMETRY MCSymmetry
CONSTANTS
    o1 = o1
    o2 = o2
    o3 = o3
    Nodes <- MCNodes
    Electable <- MCElectable
    MaxInflightBlocks = 1
    Bounds <- MCBounds
INVARIANTS
    ConfigInflightExact
    NeverFull
CHECK_DEADLOCK FALSE
