CONSTANTS
    IntMax = 127
    Commands <- MCCommands
    Watched <- MCWatched
    FirstDays <- MCFirstDays
    Days <- MCDays
    Times <- MCTimes
SPECIFICATION Spec
INVARIANTS
    ParserTypeOK
    VerdictIsGrammar
    BitsDenote
    RowIsLoaded
    DueAsMeant
CHECK_DEADLOCK FALSE
