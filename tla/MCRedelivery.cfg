\* The same queued event is delivered twice.
CONSTANTS
    h1 = h1
    h2 = h2
    j1 = j1
    j2 = j2
    d1 = d1
    d2 = d2
    v1 = v1
    v2 = v2
    None = None
    Handlers = {h1}
    Jobs = {j1}
    Deliveries = {d1, d2}
    JobOf <- Redelivered
    VMs = {v1}
    Unrunnable = {}
    MaxAttempts = 1
    MaxFaults = 0
    Faults = {}
SPECIFICATION Spec
INVARIANTS DuplicatesSkipped
