CONSTANTS
    llm = llm
    vti = vti
    Builds <- MCBuilds
    Portfolios <- MCPortfolios
    MaxBoots = 4
SPECIFICATION BootSpec
INVARIANTS TypeOK PhasesAreJustified UpMeansInForce
PROPERTY HaltLeavesNoTrace
CHECK_DEADLOCK FALSE
