\* One plugin: three templates on a disk for two or three of them, faults.
SPECIFICATION Spec
CONSTANTS
    t1 = t1
    t2 = t2
    t3 = t3
    Plugins = {"p1"}
    Templates = {t1, t2, t3}
    None = None
    Published = {t1, t2, t3}
    OldSize <- MCOldSize
    NewSize <- MCNewSize
    Overlap <- MCOverlap
    DiskSize = 9
    BufferSize = 3
    MaxRuns = 3
    MaxFaults = 1
INVARIANTS TypeOK NotInVain Tracked NoStuckPull
PROPERTIES BufferKept LeastUsedFirst
\* The runs are bounded.
CHECK_DEADLOCK FALSE
