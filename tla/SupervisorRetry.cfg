CONSTANTS
    Newest = 1
    Broken = {}
    NewPackages = {}
    Records = {"a"}
    LastDay = 4
    Retention = 1
    KeepDays = 2
    KeepMin = 1
SPECIFICATION WorldSpec
PROPERTY InstalledAtLast
CHECK_DEADLOCK FALSE
