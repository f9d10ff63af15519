\* Two operators at once, and one operation that dies half-way.
SPECIFICATION Spec
CONSTANTS
    o1 = o1   o2 = o2
    vague = vague   wild = wild
    Drafts = {vague, wild}
    Covers = {cover1}
    None = None
    Lint <- MCLint
    Sound <- MCSound
    Partial = Partial
    Operators = {o1, o2}
    MaxCrashes = 1
VIEW Heard
SYMMETRY Symmetries
INVARIANTS
    SignOffTypeOK
    DecisionsAreTrue
    FilesBeforeState
    AnnouncedWasReviewed
CHECK_DEADLOCK FALSE
