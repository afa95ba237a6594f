CONSTANTS
    MaxFaults = 3
    ProbeLimit = 2
    MaxRefsFiles = 3
    MaxScans = 3
    MaxReads = 2
    Stores <- MCStores
SPECIFICATION Spec
INVARIANT TypeOK
INVARIANT TableIsTheStore
INVARIANT ScansSeeTheTable
INVARIANT ChunkIsTheOneAsked
INVARIANT QueryReportsItsBytes
PROPERTY Settles
