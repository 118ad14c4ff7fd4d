\* A datagram of three bytes after its one-item address does not fit one
\* record of maxPayloadLen 3 (max-frame-len 13); its bytes may read as
\* an IPv4 address when a record starts with them.
CONSTANTS
    Targets <- MCTargets
    DataBytes = {"plain", "v4"}
    MaxData = 3
    MaxFrameLen = 13
    MaxDatagrams = 1
    MaxReplies = 0
    MaxHits = 0
    Hit = Hit
    NoAddr = NoAddr

SPECIFICATION Spec

\* Both sides stop once the socket is closed and the bounds are used up.
CHECK_DEADLOCK FALSE

INVARIANT RequestsIntact
