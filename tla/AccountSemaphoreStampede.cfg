\* Two requests on an account with one slot.
CONSTANTS
    Requests = {r1, r2}
    Settings = {1}
    DefaultMaxConcurrency = 1
    MaxQueueSize = 2
    MaxBlock = 1
SPECIFICATION Spec
SYMMETRY RequestSymmetry
PROPERTIES QueuedWorkIsHeldBack
