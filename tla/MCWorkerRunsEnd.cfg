\* One handler.
CONSTANTS
    N = 1
    Configs = {{}}
SPECIFICATION FairSpec
PROPERTIES RunsEnd
\* The process ends.
CHECK_DEADLOCK FALSE
