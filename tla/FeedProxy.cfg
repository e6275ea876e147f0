SPECIFICATION Spec
CONSTANTS
    Keys = {k1, k2, k3}
    MaxSymbols = 1
    MaxConnections = 2
    Clients = {c1, c2}
    Users = {u1, u2}
    NoUser = nobody
    KeepsAlive = {u2}
    Switches = FALSE
SYMMETRY FeedSymmetry
INVARIANTS TypeOK SubscribedIsIndexed PoolsAgree NoFeedWithoutClient
