CONSTANTS
    Themes <- MCThemes
    Answers <- MCAnswers
    Analyzed <- MCAnalyzed
    Lower <- MCLower
    ValuesFit <- MCValuesFit
    MeaningOf <- MCMeaningOf
SPECIFICATION Spec
INVARIANTS AcceptedLowers IrWellTyped LayoutsAgree ReadsAreAssigned PrivateStaysPrivate DereferencesAreMarked
CHECK_DEADLOCK FALSE
