SPECIFICATION Spec
CONSTANTS
    IdChars <- MCIdChars
    MaxIdLen = 2
    ForeignHeaders <- MCForeignHeaders
INVARIANTS
    TypeOK
    KeyIdRoundTrip
\* One header is sent and checked; then the exchange is over.
CHECK_DEADLOCK FALSE
