\* Seven ticks: room for a streak, two windows and another streak; two saves and an init
\* at any point before the client is built and after.
SPECIFICATION SettingsSpec
CONSTANTS
    Threshold = 2
    Seconds = 2
    None = None
    s1 = s1   s2 = s2
    Saves = {s1, s2}
    MaxTime = 7
INVARIANTS
    SettingsTypeOK
    ClientIsFit
    SparesProvider
PROPERTIES
    SkippedForCause
SYMMETRY Symmetries
CHECK_DEADLOCK FALSE
