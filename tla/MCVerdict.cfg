\* A run and a re-lint: every fact of the risk gate, and a few of the others.
SPECIFICATION Spec
CONSTANTS
    None = None
    Title = Title
    Same = Same
    Near = Near
    Other = Other
    Hard <- MCHard
    Limits <- MCLimits
    Similar <- MCSimilar
    Texts <- MCTexts
    Cases <- MCCases
    Images <- MCImages
    Videos <- MCVideos
    Indexes <- MCIndexes
    Answers <- MCAnswers
    Copies <- MCCopies
    Templates <- MCTemplates
    Configured <- MCConfigured
INVARIANTS
    VerdictTypeOK
    UnmeasuredNeverPasses
    TerminalNeedsEvidence
    SeenIsNotUnique
    ProcessedWasWritten
CHECK_DEADLOCK FALSE
