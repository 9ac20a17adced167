SPECIFICATION FairSpec
CONSTANTS
    Texts <- MCTexts
    Duration <- MCDuration
    NumCPU = 2
    ConfigFiles <- MCConfigFiles
    CommandLines <- MCCommandLines
    Patterns <- MCPatterns
    MaxSignals = 3
INVARIANTS
    TypeOK
    RunningConfigIsValid
    PanicsExplained
    NothingLeftRunning
PROPERTY
    TermAnswered
