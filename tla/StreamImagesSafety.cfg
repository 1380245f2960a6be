SPECIFICATION Spec
CONSTANTS
    Image = {i1, i2, i3}
    NoImage = NoImage
    MaxStreams = 4
    MayFail = TRUE
SYMMETRY ImageSymmetry
CHECK_DEADLOCK FALSE
INVARIANTS
    TypeOK
    CallbackSafe
    ReleasedToItsStream
    LoanTracked
    BuffersLeftAttached
PROPERTY LoanSafety
