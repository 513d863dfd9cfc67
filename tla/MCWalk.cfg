\* Two logs of failed deliveries; handlers spend the same quota, and records
\* move between the lists that the walk reads as the code moves them.
\* No symmetry: a liveness property is checked.
CONSTANTS
    j1 = j1
    Jobs = {j1}
    Logs <- MixedLogs
    PageSize = 2
    Limit = 6
    LowWater = 0
    MaxRetries = 1
    Moves <- CodeMoves
    Others = TRUE
\* The walk ends.
CHECK_DEADLOCK FALSE
SPECIFICATION FairSpec
INVARIANTS TypeOK WithinBudget OldestFirst NoFailureForgotten
PROPERTIES OrphanUnlessMoved WalkEnds
