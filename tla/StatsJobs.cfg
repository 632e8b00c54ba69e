SPECIFICATION Spec
CONSTANTS
    Kinds <- OneOfEach
    Inhabited = FALSE
    MaxChanges = 2
    MaxFaults = 1
INVARIANTS AnswersInv
PROPERTIES FiguresKeepUp
CHECK_DEADLOCK FALSE
