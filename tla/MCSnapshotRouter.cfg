SPECIFICATION Spec
CONSTANTS
    s1 = s1
    s2 = s2
    Snapshot = {s1, s2}
    Deploy = deploy
    Free = free
    MaxVersion = 3
SYMMETRY Symmetry
INVARIANTS
    SnapshotIsOneMoment
    ManagerIsPutBack
