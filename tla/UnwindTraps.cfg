SPECIFICATION Spec
CONSTANTS
    MaxFrames = 2
    MaxHandlers = 2
    MaxEns = 1
    Raises = TRUE
PROPERTIES TrapsHoldInEnsures
