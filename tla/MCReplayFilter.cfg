CONSTANTS
    Capacity = 3
    NumWindows = 2
    WindowIds = {1, 2, 3}
    Nonces = {n1, n2, n3, n4}
    NoKey = NoKey
SPECIFICATION Spec
INVARIANT TypeOK
PROPERTY ImplementsReplayMemory
