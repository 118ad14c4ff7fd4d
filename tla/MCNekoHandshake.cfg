CONSTANTS
    Clients <- MCClients
    Skew <- MCSkew
    Conns = {1, 2, 3}
    Listeners = {"a", "b"}
    ListenerOf <- MCListenerOf
    Span = 1
    FirstWindow = 4
    LastWindow = 7
    MaxSessionFrames = 3
    Capacity = 8
    NumWindows = 4
    NoKey = NoKey
SPECIFICATION Spec
\* With every connection handled the listener idles in Accept.
CHECK_DEADLOCK FALSE
INVARIANT TypeOK
INVARIANT HandshakeAcceptedOnce
