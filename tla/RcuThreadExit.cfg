SPECIFICATION Spec
CONSTANTS
    Main = main
    w1=w1
    w2=w2
    o1=o1
    o2=o2
    Workers = {w1,w2}
    Objects = {o1,o2}
    Width = 7
    StartVal = 125
    MaxDepth = 2
    Global = rcu_seq
    None = none
    Usages <- MCExitUsages
INVARIANT ThreadFreedLast
CHECK_DEADLOCK FALSE
