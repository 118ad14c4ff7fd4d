\* Datagrams of one or two plain bytes after a one-item address: with
\* max-frame-len 13 (maxPayloadLen 3) the longest fills one record
\* exactly.  Two client datagrams, two tunnel replies, one replayed record.
CONSTANTS
    Targets <- MCTargets
    DataBytes = {"plain"}
    MaxData = 2
    MaxFrameLen = 13
    MaxDatagrams = 2
    MaxReplies = 2
    MaxHits = 1
    Hit = Hit
    NoAddr = NoAddr

SPECIFICATION Spec

\* Both sides stop once the socket is closed and the bounds are used up.
CHECK_DEADLOCK FALSE

INVARIANT TypeOK
INVARIANT RequestsIntact
INVARIANT RepliesIntact
PROPERTY ClientSeesSessionEnd
