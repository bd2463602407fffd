SPECIFICATION Spec
CONSTANTS
    Files = {f1, f2}
    Requests = {r1, r2}
SYMMETRY Symmetry
INVARIANTS TypeOK TaskTellsFile NoChunkWithoutFile OriginalOnDisk
    ReadyKeepsItsPoints LateDeleteIsClean
PROPERTY ImplementsLifecycle
