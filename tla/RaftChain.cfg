\* Two orderers that may lead and a voter: two changes of leader, a crash, dropped
\* proposals, messages in front of a configuration, and one block in flight.
SPECIFICATION Spec
SYMMETRY MCSymmetry
CONSTANTS
    o1 = o1
    o2 = o2
    o3 = o3
    Nodes <- MCNodes
    Electable <- MCElectable
    MaxInflightBlocks = 1
    Bounds <- MCBounds
INVARIANTS
    LedgersAgree
    NoGap
    InflightExact
    ConfigAlone
CHECK_DEADLOCK FALSE
