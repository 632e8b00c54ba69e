SPECIFICATION Spec
CONSTANTS
    u1 = u1
    u2 = u2
    f1 = f1
    f2 = f2
    Users <- TwoUsers
    Files <- TwoFiles
    SizeOf <- Sizes
    StatusOf <- Statuses
    DayTicks = 2
    WeekDays = 1
    MaxTick = 4
INVARIANTS FiguresInv
PROPERTIES SeriesSettle
SYMMETRY Symmetry
CHECK_DEADLOCK FALSE
