SPECIFICATION OttSpec
CONSTANTS
    Videos = {a, b}
    Default = a
    Blank = Blank
    MaxJobs = 2
    MaxOutages = 0
PROPERTY
    PortalStopTakesEffect
CHECK_DEADLOCK FALSE
