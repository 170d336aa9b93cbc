SPECIFICATION PartsSpec
CONSTANTS
    t1 = t1
    t2 = t2
    t3 = t3
    s1 = s1
    s2 = s2
    p1 = p1
    p2 = p2
    k1 = k1
    a1 = a1
    a2 = a2
    a3 = a3
    c1 = c1
    c2 = c2
    c3 = c3
    c4 = c4
    i1 = i1
    i2 = i2
    o1 = o1
    o2 = o2
    m1 = m1
    m2 = m2
    f1 = f1
    f2 = f2
    x1 = x1
    x2 = x2
    k2 = k2
    k3 = k3
    None = None
    Tasks <- MCTasks
    Sessions <- MCSessions
    Objects <- MCObjects
    Processes <- MCProcesses
    Keys = {k1}
    NoKey = NoKey
    MaxMade <- MCMade
    MaxSubs <- MCSubs
    Agents <- MCAgents
    NoAgent = NoAgent
    ToolCalls <- MCToolCalls
    NoCall = NoCall
    IsEdit <- MCEdits
    PathOf <- MCPaths
    RealPath = "real"
    TurnOf <- MCTurns
    Instances <- MCInstances
    Nobody = Nobody
    Providers <- MCProviders
    MaxIssued = 3
    MaxMishaps = 2
    Managers <- MCManagers
    Fields <- MCFields
    MaxSets = 3
    NoFile = NoFile
    Sizes = {1, 3}
    KeepRecent = 3
    MaxCalls = 2
    MaxLog = 7
    MaxRunning = 2
    Programs <- MCPrograms
    GitPackages = {k2}
    NpmPackages = {k3}
    Dirs <- MCDirs
    MaxVersion = 2
    MaxOps = 2
SYMMETRY MCSymmetry
CHECK_DEADLOCK FALSE
INVARIANTS
    PartsTypeOK
    LocksSound
    LogSound
    SettledOwnerIsAlone
    EditsKept
    ContextComplete
    PackagesKept
PROPERTIES
    ServedInOrder
    CredentialsKept
    SettingsKept
