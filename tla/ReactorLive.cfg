SPECIFICATION FairSpec
CONSTANTS
    m1 = m1
    m2 = m2
    m3 = m3
    t1 = t1
    t2 = t2
    g1 = g1
    g2 = g2
    Msgs = {m1, m2}
    ToolIds = {t1, t2}
    NeedsApproval = {t2}
    HasApprovalHandler = FALSE
    Sigs = {g1}
    NoSig = NoSig
    LoopLimit = 2
    MaxAttempts = 1
    LlmMayThrow = FALSE
    SameTickInputs = FALSE
    MayCrash = FALSE
    MaxOrphans = 1
INVARIANTS
    NeverStranded
PROPERTIES
    AbortSettles
    PromptSettles
