SPECIFICATION Spec
CONSTANTS
    t1 = t1
    t2 = t2
    c1 = c1
    broken = broken
    Accounts <- MCAccounts
    Microsoft <- MCMicrosoft
    Connectors <- MCConnectors
    Board <- MCBoard
    Terminal = {c1}
    MaxConsents = 2
    MaxTroubles = 2
    Order <- MCOrder
    Only <- MCOnly
    Files <- MCFiles
    Stores <- MCStores
    Deployments <- MCDeployments
    Invalid = broken
    Exports = {"full"}
INVARIANT TypeOK
INVARIANT SignedInStays
PROPERTY FlowTellsTheTruth
CHECK_DEADLOCK FALSE
PROPERTY AccountsFetched
PROPERTY HealthConverges
