SPECIFICATION FairSpec
CONSTANTS
    r1 = r1
    r2 = r2
    Ticks = 2
    Start = 5
    End = 8
    MaxAge = 3
    None = none
    Partial = partial
    Previous = previous
    Run = {r1, r2}
    Options <- Some
    Snapshots <- Few
INVARIANTS
    PublicationIsEarned
    
    OutputIsSafe
PROPERTIES
    RunEnds
CHECK_DEADLOCK FALSE
