SPECIFICATION Spec
CONSTANTS
    u1 = u1
    u2 = u2
    Uid = {u1, u2}
    Root = root
INVARIANTS
    TypeOK
    SuccessIsOwned
PROPERTIES
    NothingIsLost
