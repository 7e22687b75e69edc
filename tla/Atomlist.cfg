CONSTANTS
    a = a
    b = b
    c = c
    t1 = t1
    t2 = t2
    t3 = t3
    Items = {a, b, c}
    Rank <- MCRank
    Threads = {t1, t2, t3}
    Usages <- MCUsages
    Fill <- MCFill
    Sweeper = t1
    Readers = {t1}
    Null = Null
    First = First
SPECIFICATION FairSpec
INVARIANTS NeverReached SweptUnheld TraversalComplete CountExact
PROPERTIES Refines Ends
CHECK_DEADLOCK FALSE
