SPECIFICATION MCSpec
CONSTANTS
    Rounds = 2
    Split <- MCSplit
    Join <- MCJoin
    F <- MCF
    Block <- MCBlock
    ZeroBlock = {}
    Half <- MCHalf
    Key <- MCKey
    KS <- MCKS
    Ports = {}
    WordBits = 2
    idata1 <- MCidata1
    idata2 <- MCidata2
    key1 <- MCkey1
    key2 <- MCkey2
    key3 <- MCkey3
    MaxResets = 0
    MaxBusy = 1
    MaxWrites = 0
    Hosts = {"main"}
PROPERTY StatusClearsOnRead
