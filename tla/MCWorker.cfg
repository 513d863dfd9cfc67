\* Two plugins: two handlers, or a receiver before or after a handler.
CONSTANTS
    N = 2
    Configs = {{}, {1}, {2}}
SPECIFICATION FairSpec
INVARIANTS TypeOK InOrder FlagsCleared
PROPERTIES ShutsDown NormalRunsEnd
\* The process ends.
CHECK_DEADLOCK FALSE
