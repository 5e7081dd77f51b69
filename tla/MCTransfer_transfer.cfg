SPECIFICATION FairSpec
CONSTANTS
    FileSizes = {0, 1, 4, 5}
    Capacity = 4
    Block = 2
    MaxCommands = 2
CHECK_DEADLOCK FALSE
INVARIANTS
    TransferTypeOK
    StoredFileIsWhole
    FailureLeavesNoFile
PROPERTIES
    EverySessionEnds
    EveryTransferEnds
