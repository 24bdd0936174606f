\* Two overlapping invocations hand their audits back.
SPECIFICATION Spec
CONSTANTS
    r1 = r1
    r2 = r2
    h1 = h1
    h2 = h2
    act = act
    sandbox = sandbox
    Free = Free
    Runs = {r1, r2}
    Hosts = {h1}
    Slots = {act}
    MaxSwaps = 2
    MaxStarts = 2
    MaxEvents = 0
INVARIANT
    QueuedInSwapOrder
CHECK_DEADLOCK FALSE
