CONSTANTS
    Levels <- ThreeLevels
    MinBytes <- Minima
    Sizes = {1, 3}
    MaxSamples = 3
    Window = 2
    Hysteresis = 2
    MaxRecords = 4
    Domains = 2
    ActiveDomains <- Active
SPECIFICATION FairManagerSpec
INVARIANTS PendingHasTime NewestAreKept
PROPERTIES Sustained QuietBecomesIdle CoverFollowsLevel WorkersStop
CHECK_DEADLOCK FALSE
