SPECIFICATION Spec
CONSTANTS
    d1 = d1
    d2 = d2
    Deployer = {d1, d2}
    MaxRelease = 2
    OnMain = OnMain
    None = None
    Broken = Broken
    Free = Free
SYMMETRY Symmetry
INVARIANT
    ActivationHoldsLock
