SPECIFICATION Spec
CONSTANTS
    NumBuffers = 2
    Items = {"uniform", "lights"}
    Late = {"lights"}
    Static = {}
    MaxCount <- MCMaxCount
    MaxFailures = 0
INVARIANTS
    DataIsTransferredForThisFrame
CHECK_DEADLOCK FALSE
