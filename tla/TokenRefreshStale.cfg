CONSTANTS
    Holders = {h1, h2, h3}
    MaxGeneration = 2
SPECIFICATION RefreshSpec
INVARIANT RotationIsKept
CHECK_DEADLOCK FALSE
