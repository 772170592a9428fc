SPECIFICATION Spec
CONSTANTS
    CaseTable1 <- CaseSub1
    CaseTable2 <- CaseSub2
    CaseExt <- CaseSubExt
    NormalizeCalls <- MCNormalizeCalls
    CaseChars <- MCCaseChars
    CaseIntervals <- MCCaseIntervals
INVARIANTS
    LookupsExact
    NormalizesRight
    FoldsRight
CHECK_DEADLOCK FALSE
