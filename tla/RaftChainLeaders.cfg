\* The same with two blocks and three disturbances.
SPECIFICATION Spec
SYMMETRY MCSymmetry
CONSTANTS
    o1 = o1
    o2 = o2
    o3 = o3
    Nodes <- MCNodes
    Electable <- MCElectable
    MaxInflightBlocks = 1
    Bounds <- MoreLeaders
INVARIANTS
    LedgersAgree
    NoGap
    InflightExact
    ConfigAlone
CHECK_DEADLOCK FALSE
