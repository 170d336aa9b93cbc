SPECIFICATION ClientsSpec
CONSTANTS
    m1 = m1
    m2 = m2
    m3 = m3
    t1 = t1
    g1 = g1
    Msgs = {m1, m2, m3}
    ToolIds = {t1}
    NeedsApproval = {}
    HasApprovalHandler = TRUE
    Sigs = {g1}
    NoSig = NoSig
    LoopLimit = 2
    MaxAttempts = 1
    LlmMayThrow = TRUE
    SameTickInputs = TRUE
    MayCrash = TRUE
    MaxOrphans = 1
    InitialPrompts = 1
SYMMETRY Symmetry
INVARIANTS
    NothingLost
    TerminalSound
PROPERTIES
    ImplementsMailbox
