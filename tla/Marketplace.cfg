SPECIFICATION Spec
CONSTANTS
    Operator = {o1, o2}
    Offered <- Release
    Situations <- Starts
INVARIANTS
    AnswerIsAdvertised
    ConformingIsAccepted
    SettledCatalogueIsWhole
    UnknownServiceHasCause
PROPERTIES
    FileChangesWhole
CHECK_DEADLOCK FALSE
