\* A handler crashes once.
CONSTANTS
    h1 = h1
    h2 = h2
    j1 = j1
    j2 = j2
    d1 = d1
    d2 = d2
    v1 = v1
    v2 = v2
    None = None
    Handlers = {h1}
    Jobs = {j1, j2}
    Deliveries = {j1, j2}
    JobOf <- OncePerJob
    VMs = {v1, v2}
    Unrunnable = {}
    MaxAttempts = 1
    MaxFaults = 1
    Faults = {"crash"}
SYMMETRY Symmetry
SPECIFICATION Spec
INVARIANTS CleanupFinalized
