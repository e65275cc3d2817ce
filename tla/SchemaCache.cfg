\* Concurrent first-time lookups of the schema compile cache.
CONSTANTS
    Threads <- MCThreads
    Keys <- MCKeys
    Files <- MCFiles
    NoThread = NoThread
SPECIFICATION Spec
INVARIANTS
    CompilerExclusive
    CompileOnce
PROPERTIES
    CallReturns
    ImplementsMemo
