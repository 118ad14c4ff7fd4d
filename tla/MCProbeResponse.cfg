\* The code's 20 s blackhole with its 2 s read deadline.  One address
\* (MCAddresses) and two Listen calls (so a second Listen meets the
\* address the first still holds, and a second Close meets listeners the
\* first closed); one accepted connection and one transient Accept error.
CONSTANTS
    BlackholeSecs = 20
    BlackholePollSecs = 2
    Addresses <- MCAddresses
    MaxListens = 2
    MaxAccepts = 1
    MaxAcceptErrors = 1

SPECIFICATION Spec

\* handleConn returns and its goroutine ends.
CHECK_DEADLOCK FALSE

INVARIANT TypeOK
INVARIANT BlackholeClosedInTime
PROPERTY BlackholeEventuallyClosed
PROPERTY FallbackEndsWhenProberLeaves
INVARIANT NoLeakAfterClose
PROPERTY AcceptLoopsExit
