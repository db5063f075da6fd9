SPECIFICATION FairSpec
CONSTANTS
    Chips = {72}
    Muxes = {0, 1}
    Retries = 2
    SemMax = 2
    None = None
    Stuck = Stuck
    MayRefuse = TRUE
INVARIANTS
    FlaggedIsFresh
    ReportUntouched
PROPERTY ReportGoesOn
\* a late completion may be the end of the thread (LateDone)
CHECK_DEADLOCK FALSE
