\* Two hosts, of which b always has room, one job and no fault.
CONSTANTS
    a = a
    b = b
    j1 = j1
    j2 = j2
    None = None
    Hosts = {a, b}
    Jobs = {j1}
    Queue <- OneJob
    Room <- OneRoomy
    Faults = {}
    MaxFaults = 0
SPECIFICATION Spec
INVARIANTS OneRuns
