\* Two background calls and a synchronous one.
SPECIFICATION Spec
CONSTANTS
    a1 = a1   a2 = a2   s1 = s1
    Calls = {a1, a2, s1}
    Background = {a1, a2}
    NoCall = NoCall
INVARIANTS
    GuiTypeOK
    OnePass
PROPERTIES
    SlotIsFreed
    PollEnds
CHECK_DEADLOCK FALSE
