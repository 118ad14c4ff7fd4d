\* A target other than the fallback destination; four client bytes in
\* records of one or two, relay reads of one to three bytes (shorter and
\* longer than a record), two downstream writes of writeFrame's four
\* writeAll calls each, two noise writes.
CONSTANTS
    Target = Target
    FallbackDest = FallbackDest
    MaxBytes = 4
    ReadSizes = {1, 2, 3}
    Pieces = 4
    MaxWrites = 2
    MaxNoise = 2
    Noise = Noise

SPECIFICATION Spec

\* The stream ends when the relays stop and the socket is closed.
CHECK_DEADLOCK FALSE

INVARIANT TypeOK
INVARIANT StreamIntact
INVARIANT NoiseOutsideRecords
