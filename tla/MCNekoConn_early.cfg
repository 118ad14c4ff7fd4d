\* The target is the fallback destination; three client bytes in
\* records of one or two, relay reads of one and two bytes, two downstream
\* writes of two writeAll calls each, one noise write.
CONSTANTS
    Target = FallbackDest
    FallbackDest = FallbackDest
    MaxBytes = 3
    ReadSizes = {1, 2}
    Pieces = 2
    MaxWrites = 2
    MaxNoise = 1
    Noise = Noise

SPECIFICATION Spec

\* The stream ends when the relays stop and the socket is closed.
CHECK_DEADLOCK FALSE

INVARIANT StreamIntact
