CONSTANTS
    Count <- MCCount
    MaxSignals <- MCMaxSignals
SPECIFICATION FairSpec
INVARIANTS
    SuccessIsTrue
    CrashesCounted
    LauncherInv
PROPERTIES
    LauncherEnds
