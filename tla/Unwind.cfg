SPECIFICATION FairSpec
CONSTANTS
    MaxFrames = 3
    MaxHandlers = 2
    MaxEns = 2
    Raises = TRUE
PROPERTIES EnsuresAreAStack ExitEnds
