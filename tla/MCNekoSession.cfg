\* One session: three frames per direction (c2s seqs 1..2 after the
\* handshake's 0, s2c seqs 0..2), two segments per WriteFrames call, one
\* record altered by the adversary, two server windows.
CONSTANTS
    MaxSessionFrames = 3
    MaxSegments = 2
    MaxTamper = 1
    FirstWindow = 1
    LastWindow = 2
    Capacity = 2
    NumWindows = 2
    NoKey = NoKey
    Cut = Cut

SPECIFICATION Spec

\* Once both writers reach the frame limit and both readers are done, the
\* session has nothing left to do; the peers then close the connection.
CHECK_DEADLOCK FALSE

INVARIANT TypeOK
PROPERTY ImplementsRecordStream
PROPERTY CleanStreamDelivered
