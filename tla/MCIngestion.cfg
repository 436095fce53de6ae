\* Three files, one of them of old transactions.
SPECIFICATION Spec
CONSTANTS
    r1 = r1
    r2 = r2
    long = long
    short = short
    bad = bad
    NoFile = NoFile
    Runs = {r1, r2}
    Files = {long, short, bad}
    Malformed = {bad}
    Chunks <- ChunkCounts
    OldChunks <- ShortIsOld
INVARIANTS
    TypeOK
    NoDoubleCount
    CommittedIsLoaded
    OneWorkerPerFile
PROPERTIES
    CommittedIsFinal
    ImplementsLoadOnce
SYMMETRY RunSymmetry
