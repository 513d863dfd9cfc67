\* Two handlers race for one job while pulls fail or there is no room; GitHub may give its runner the other job.
CONSTANTS
    h1 = h1
    h2 = h2
    j1 = j1
    j2 = j2
    d1 = d1
    d2 = d2
    v1 = v1
    v2 = v2
    None = None
    Handlers = {h1, h2}
    Jobs = {j1, j2}
    Deliveries = {j1}
    JobOf <- OncePerJob
    VMs = {v1, v2}
    Unrunnable = {}
    MaxAttempts = 1
    MaxFaults = 1
    Faults = {"pull", "capacity"}
SYMMETRY HandlerSymmetry
SPECIFICATION Spec
INVARIANTS ExclusiveClaim NoVmLost
PROPERTIES LifecycleSpec
