SPECIFICATION Spec
CONSTANTS
    Processes = {p1, p2}
    w1 = w1
    w2 = w2
    Workers <- MCWorkers
    First = w1
    old = old
    new = new
    Builds <- MCBuilds
    TagOf <- MCTagOf
    BlobLength = 1
    None = None
    MaxLives = 2
    MaxStarts = 2
CHECK_DEADLOCK FALSE
INVARIANTS
    TypeOK
    OneWorkerSaves
    NoDanglingBlob
    FilesAreWhole
    LoadsAreWhole
PROPERTIES
    StartCompletes
