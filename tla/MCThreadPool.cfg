SPECIFICATION FairSpec
CONSTANTS
    PoolSize = 2
    MaxThreads = 3
    MaxActions = 3
    Owners = {1}
    Conns = {c1, c2}
    NoThread = NoThread
CHECK_DEADLOCK FALSE
INVARIANTS
    Delivery
    Waiting
    ThreadsHeld
PROPERTIES
    ServiceSpec
    PoolLive
