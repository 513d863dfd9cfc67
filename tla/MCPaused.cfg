\* Two hosts, of which b always has room, and two jobs; a host is stopped,
\* crashes or fails a job, two of these in a behaviour.
CONSTANTS
    a = a
    b = b
    j1 = j1
    j2 = j2
    None = None
    Hosts = {a, b}
    Jobs = {j1, j2}
    Queue <- BothJobs
    Room <- OneRoomy
    Faults = {"stop", "crash", "fail"}
    MaxFaults = 2
SPECIFICATION FairSpec
INVARIANTS TypeOK NeverLost OneUnlessChanged
PROPERTIES PausedLeave
