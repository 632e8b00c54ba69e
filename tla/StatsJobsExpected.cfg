\* Each of the properties fails; TLC reports one at a time: keep the one in question.
SPECIFICATION Spec
CONSTANTS
    Kinds <- OneOfEach
    Inhabited = FALSE
    MaxChanges = 2
    MaxFaults = 0
INVARIANTS
    WeeksAreWhole
PROPERTIES
    NeverGoesBackAtAll
    StatisticsAreRefreshed
CHECK_DEADLOCK FALSE
