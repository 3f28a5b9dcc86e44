SPECIFICATION Spec
CONSTANTS
    MaxRetries = 1
    Events <- SweepDeaths
PROPERTY JudgedOnce
CHECK_DEADLOCK FALSE
