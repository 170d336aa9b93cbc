SPECIFICATION Spec
CONSTANTS
    m1 = m1
    m2 = m2
    m3 = m3
    t1 = t1
    t2 = t2
    g1 = g1
    g2 = g2
    Msgs = {m1, m2}
    ToolIds = {t1, t2}
    NeedsApproval = {t2}
    HasApprovalHandler = TRUE
    Sigs = {g1, g2}
    NoSig = NoSig
    LoopLimit = 2
    MaxAttempts = 2
    LlmMayThrow = TRUE
    SameTickInputs = FALSE
    MayCrash = TRUE
    MaxOrphans = 1
INVARIANTS
    TypeOK
    OneActivity
PROPERTIES
    AbortStopsCalls
SYMMETRY Symmetry
