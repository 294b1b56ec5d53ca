SPECIFICATION PrepSpec
CONSTANTS
    Directories <- MCDirectories
    Tenants <- MCTenants
    Domains <- MCDomains
    Scores <- PreparedScores
    Deployments <- MCDeployments
    Callers <- MCCallers
INVARIANTS
    RegistryIsDirectory
    GovernedByOwnPolicy
    DecisionWithinPolicy
    RicherNeverLower
    KeysFailClosed
    OnlyRedactedLeaves
