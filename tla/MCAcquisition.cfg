CONSTANTS
    Length = 10
    MaxCounter = 10
SPECIFICATION FairAcquisitionSpec
INVARIANTS
    AverageIsOfOneTransfer
    AcquisitionGoesOn
PROPERTIES
    DisplayIsUpdated
CHECK_DEADLOCK FALSE
