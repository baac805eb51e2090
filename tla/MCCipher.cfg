SPECIFICATION MCSpec
CONSTANTS
    Rounds = 4
    Split <- MCSplit
    Join <- MCJoin
    F <- MCF
    Block <- MCBlock
    ZeroBlock = {}
    Half <- MCHalf
    Key <- MCKey
    KS <- MCKS
    Samples <- MCSamples
    Blocks <- MCBlocks
    Keys <- MCKeys
    MaxGaps = 3
    MaxIdle = 2
INVARIANTS
    TypeOK
    OneOutPerIn
    OutputIsCipher
    OutputsExpected
    SBoxCriteria
    WiringsAgree
    Retraces
    ComplementFollows
CHECK_DEADLOCK FALSE
