SPECIFICATION RouterSpec
CONSTANTS
    s1 = s1
    a = a
    b = b
    u = u
    Script = {s1}
    Name = {a, b}
    EmptyName = empty
    Url = {u}
    Accepted <- Adds
    Norm <- Norms
    Legacy <- Starts
    MaxNodes = 1
    NoAdd = noadd
    NoConfig = noconfig
    Seed = seed
    Missing = missing
    Down = down
    Free = free
    Content <- Contents
    Working <- Works
SYMMETRY Symmetry
INVARIANTS
    SuccessIsCurrent
    RouterRunsChecked
PROPERTIES
    ImplementsParts
