\* Two overlapping invocations, two hosts, three swaps over two slots.
SPECIFICATION Spec
CONSTANTS
    r1 = r1
    r2 = r2
    h1 = h1
    h2 = h2
    act = act
    sandbox = sandbox
    Free = Free
    Runs = {r1, r2}
    Hosts = {h1, h2}
    Slots = {act, sandbox}
    MaxSwaps = 3
    MaxStarts = 3
    MaxEvents = 1
SYMMETRY Symmetric
INVARIANTS
    TypeOK
    AuditsConserved
    AuditsInSwapOrder
    EffectIsTold
PROPERTIES
    NumbersNameEvents
CHECK_DEADLOCK FALSE
