CONSTANTS
    StartFiles <- MCFiles
    Amended <- MCAmended
    MaxDay = 3
    MaxDeploys = 1
    MaxExperiments = 2
    MaxFills = 3
SPECIFICATION Spec
INVARIANTS FeesAreThoseOfTheDay RunsWhatItRecorded RunsOverItsOwnShares
CHECK_DEADLOCK FALSE
