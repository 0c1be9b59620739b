SPECIFICATION FairSpec
CONSTANTS
    p1 = p1
    p2 = p2
    Ports <- MCTwoPorts
    MaxCharges = 2
    MaxRows = 2
    MaxJobs = 1
    MaxFailures = 1
INVARIANT TypeOK
INVARIANT ActiveRowIsOpen
INVARIANT OpenRowsAccounted
INVARIANT EventAndRow
PROPERTY FinishedRowsStay
PROPERTY RowsSettle
