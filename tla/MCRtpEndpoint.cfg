SPECIFICATION Spec
CONSTANTS
    Interval = 5
    ClientTimeout = 20
    ServerTimeout = 10
    MaxLate = 6
    Half = 30
INVARIANTS
    SilentClientDropped
    ReportsFlow
    RateCutOnlyWhenLate
