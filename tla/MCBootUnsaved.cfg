CONSTANTS
    llm = llm
    vti = vti
    Builds <- MCBuilds
    Portfolios <- MCPortfolios
    MaxBoots = 2
SPECIFICATION BootSpec
PROPERTY HaltsSurvive
CHECK_DEADLOCK FALSE
