CONSTANTS
    p1 = p1
    p2 = p2
    p3 = p3
    p4 = p4
    t1 = t1
    t2 = t2
    e1 = e1
    e2 = e2
    e3 = e3
    NoExec = NoExec
    Partitions <- MCPartitions
    Tables <- MCTables
    Execs <- MCExecs
    MinThreads = 2
    ConfigValues <- MCConfigValues
    SitesCounts <- MCSitesCounts
    CallersMayOverRelease = TRUE
SYMMETRY MCSymmetry
SPECIFICATION Spec
INVARIANT NoSourceOnShutdownExecutor
