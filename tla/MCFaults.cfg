\* One handler, two jobs of which one has no template, one fault of any kind.
CONSTANTS
    h1 = h1
    h2 = h2
    j1 = j1
    j2 = j2
    d1 = d1
    d2 = d2
    v1 = v1
    v2 = v2
    None = None
    Handlers = {h1}
    Jobs = {j1, j2}
    Deliveries = {j1, j2}
    JobOf <- OncePerJob
    VMs = {v1, v2}
    Unrunnable = {j2}
    MaxAttempts = 1
    MaxFaults = 1
    Faults = {"crash", "stop", "receiver", "redis", "anka", "capacity", "pull"}
SYMMETRY VMSymmetry
SPECIFICATION Spec
INVARIANTS TypeOK CleaningSingle VmHasJob
PROPERTIES NeverLost
