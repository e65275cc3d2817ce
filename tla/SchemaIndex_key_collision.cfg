SPECIFICATION Spec
CONSTANTS
    Trees <- MCTrees
    Requests <- MCRequests
    ByteOrder <- MCByteOrder
    UpperToLower <- MCUpperToLower
INVARIANTS
    SchemaMatchesRequest
\* The validator is built once and each modelled request validated once.
CHECK_DEADLOCK FALSE
