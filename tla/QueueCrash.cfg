\* A crash anywhere and one restart; a queue file that comes late.
SPECIFICATION QueueSpec
CONSTANTS
    Step <- Diagnosed
    Gpu = {"round"}
    Timed = {"round"}
    After <- DiagnosedRequires
    AfterAny <- DiagnosedComesAfter
    Order <- DiagnosedOrder
    Files <- OneCohort
    Late <- OneCohort
    Hours = 2
    IdleLimit = 1
    MaxStarts = 2
INVARIANTS
    OneRecordedCommand
    InputsAreSettled
    ReceiptBehindVerdict
PROPERTY
    EveryStepSettles
CHECK_DEADLOCK FALSE
