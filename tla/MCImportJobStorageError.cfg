SPECIFICATION Spec
CONSTANTS
    Job = {j1}
    Worker = {w1}
    Image = {i1}
    Pages = 2
    Clock = {1, 2}
    TTL = 1
    MaxTime = 3
PROPERTY StorageErrorRequeues
CHECK_DEADLOCK FALSE
