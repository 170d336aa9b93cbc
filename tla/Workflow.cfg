SPECIFICATION FairWorkflowSpec
CONSTANTS
    n1 = n1
    n2 = n2
    Order <- MCOrder
    Width <- MCWidth
    Limit <- MCLimit
    Targets <- MCTargets
    MaxTurns = 2
CHECK_DEADLOCK FALSE
INVARIANTS
    DelegationSound
    WavesSound
    ReportsTruth
PROPERTIES
    Returns
