SPECIFICATION Spec
CONSTANTS
    CAPTURE_COUNT_MAX = 4
    REGISTER_COUNT_MAX = 255
    STACK_SIZE = 4
    StackMax = 150
    RE_MAX_CAPTURES = 256
    CaseTable1 <- LetterTable1
    CaseTable2 <- LetterTable2
    CaseExt <- LetterExt
    Regexps <- AllRegexps
    SubjectsFor <- MCSubjectsFor
INVARIANTS
    MatchesAsSpecified
    
    StackSound
    RegistersSet
PROPERTIES
    EntersRunnable
    BacktrackingExact
    Settles
CHECK_DEADLOCK FALSE
