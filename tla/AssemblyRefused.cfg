\* One host swaps while the other closes.
SPECIFICATION Spec
CONSTANTS
    h1 = h1
    h2 = h2
    Free = Free
    Hosts = {h1, h2}
    Offered = {"act"}
    MaxSwaps = 1
INVARIANT RefusedIsUntouched
CHECK_DEADLOCK FALSE
