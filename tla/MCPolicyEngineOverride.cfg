SPECIFICATION Spec
CONSTANTS
    Directories <- MCOneDirectory
    Tenants <- MCTenants
    Domains <- MCDomains
    Scores <- MCScores
INVARIANT OverrideCapped
