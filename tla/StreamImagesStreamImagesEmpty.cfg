SPECIFICATION Spec
CONSTANTS
    Image = {i1, i2}
    NoImage = NoImage
    MaxStreams = 2
    MayFail = TRUE
CHECK_DEADLOCK FALSE
INVARIANTS
    StreamImagesEmpty
