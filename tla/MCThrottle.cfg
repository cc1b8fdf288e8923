SPECIFICATION FairSpec
CONSTANTS
    Conns = {"c1", "c2"}
    Chunk = 2
    Quotas = {3, 4}
    SizeMax = 15
    MaxChanges = 2
CHECK_DEADLOCK FALSE
INVARIANTS
    Bounded
PROPERTIES
    QuotaComes
