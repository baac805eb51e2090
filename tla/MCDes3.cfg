SPECIFICATION MCSpec
CONSTANTS
    Rounds = 2
    Split <- MCSplit
    Join <- MCJoin
    F <- MCF
    Block <- MCBlock
    ZeroBlock = {}
    Half <- MCHalf
    Key <- MCKey
    KS <- MCKS
    Ports <- MCPorts
    MaxInFlight = 3
    MaxAccepted = 3
    Quiet = FALSE
INVARIANTS
    LeftoversInStep
    BlocksConserved
PROPERTIES
    ImplementsPipe
    FirstImplementsPipe
    EveryStartAnswered
