SPECIFICATION HonestSpec
CONSTANTS
    k1 = k1
    k2 = k2
    k3 = k3
    u1 = u1
    Null = Null
    Title = Title
    None = None
    Daemons = {k1, k2}
    MaxFaults = 2
    Gap = FALSE
    SelWindows = {k1, k2}
    SelPanes = {u1, u2, u3}
    MaxShifts = 2
    MaxMisses = 1
    Watchers = {k1, k2}
    AgentStates = {"busy", "none"}
    Backlog = 2
    MaxPrints = 2
    MaxResizes = 1
    MaxFails = 1
    Openers = {k1, k2}
    Elsewhere = {}
    Returning = {k1}
    MaxConns = 2
    MaxRecords = 2
    MaxReports = 1
    Burst = 1
    PerReport = 2
    Hosted = {k1, k2}
    Bridged = {k1}
    MaxProbes = 2
    MaxRefreshes = 1
    MaxRestarts = 1
    MaxKills = 1
    ViewPanes = {k1, k2, k3}
    MaxPresses = 1
    MaxRebuilds = 1
    MaxDeaths = 1
    MaxBatches = 1
    FocusPanes = {k1, k2}
    Commanded = 8
    MaxFocus = 2
    MaxOuter = 1
    MaxBinds = 1
    StatusPanes = {k1, k2}
    StatusWins = {u1}
    StatusRows = {0, 1, 2}
    BadRow = 2
    MaxStatus = 1
    MaxLocals = 4
    MaxLosses = 1
    MaxListings = 1
    MaxQueued = 1
CHECK_DEADLOCK FALSE
INVARIANTS
    MirrorTrue Heals InputKept QueriesStripped  SelectionKept 
    Shipped OpenedOnce  ViewHonest KilledStaysGone
PROPERTIES SurgerySpares EvensOut
