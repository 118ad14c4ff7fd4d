\* max-frame-len unset (the 1400 default), below the FrameMetaLen + 1
\* floor, at the floor, one above it, the default, and the largest value
\* whose payload still fits the 16-bit length field.
\* Seed bytes 0..4 give every tag split (12..16); 255 the longest payload
\* and offset; 63 and 64 the edge of the default max-offset.  max-offset
\* unset (0, the default 64), the default, and one above a seed byte.
CONSTANTS
    MaxFrameLens = {0, 5, 11, 12, 1400, 65545}
    HandshakeSeeds = {0, 1, 2, 3, 4, 63, 64, 255}
    MaxOffsets = {0, 64, 300}

SPECIFICATION Spec

\* Every run ends once the last record is read.
CHECK_DEADLOCK FALSE

INVARIANT TypeOK
INVARIANT SplitMatchesReference
INVARIANT StreamReassembled
INVARIANT HandshakeLayoutRoundTrip
INVARIANT JitterWithinRange
INVARIANT CipherParamsAgree
INVARIANT PSKParsedAsSpecified
