CONSTANTS
    Scales = {1, 2}
    Ports = {1, 2}
    Fixed <- FixedPorts
    Passive = {1}
    Speaks <- Devices
    Yields = {1}
    ProgramPort = 1
    Values = {1, 2}
    Queries = {1}
    MaxPolls = 1
    MaxLines = 3
    MaxKept = 2
    MaxRestarts = 1
    DayLength = 5
    LastTime = 5
    HourChoices <- TwoOrOne
    Interval = 2
    Grace = 1
    Things = {"a"}
    MaxManual = 1
SPECIFICATION WorldSpec
INVARIANTS NoPortIsLost SlotsTellOnce
PROPERTIES PrintsCountOnce WorksAgain
CHECK_DEADLOCK FALSE
