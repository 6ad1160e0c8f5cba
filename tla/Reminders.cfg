SPECIFICATION Spec
CONSTANTS
    p1 = p1
    p2 = p2
    p3 = p3
    m1 = m1
    m2 = m2
    m3 = m3
    None = None
    People <- Everybody
    Matters <- Rows
    Mixes <- Combined
    Named <- Names
    Limit = 1
    MaxFaults = 1
    MaxMoves = 1
INVARIANTS OncePerWindow OneKeyWorks
PROPERTIES DueIsTold
CHECK_DEADLOCK FALSE
