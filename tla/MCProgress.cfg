\* Two handlers, one job; one of them is stopped, cannot pull, or the receiver
\* is restarted.
\* No symmetry: a liveness property is checked.
CONSTANTS
    h1 = h1
    h2 = h2
    j1 = j1
    j2 = j2
    d1 = d1
    d2 = d2
    v1 = v1
    v2 = v2
    None = None
    Handlers = {h1, h2}
    Jobs = {j1}
    Deliveries = {j1}
    JobOf <- OncePerJob
    VMs = {v1}
    Unrunnable = {}
    MaxAttempts = 1
    MaxFaults = 1
    Faults = {"stop", "receiver", "pull"}
SPECIFICATION FairSpec
PROPERTIES JobsLeave
