CONSTANTS
    DayLength = 10
    OpenAt <- MCOpenAt
    CloseAt <- MCCloseAt
    OffsetsFromOpen <- MCFromOpen
    OffsetsFromClose <- MCFromClose
    ScanFirstOffset = 2
    ScanInterval = 2
    Symbols <- MCSymbols
    Sic <- MCSic
    Denylist <- MCDenylist
    Allowlist <- MCAllowlist
    DenySics <- MCDeny
    UniverseExcludeSics <- MCUniverseExclude
    DefaultDenySics <- MCDefaultDeny
    Domains <- MCDomains
    TopN = 1
    MaxJob = 2
    MaxLives = 2
SPECIFICATION Spec
INVARIANTS TypeOK MissedOnlyBehindAJob
PROPERTIES NoEventTwice CandidatesAreOfTheDay
CHECK_DEADLOCK FALSE
