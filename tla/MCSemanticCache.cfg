SPECIFICATION FairSpec
CONSTANTS
    p1 = p1
    p2 = p2
    s1 = s1
    s2 = s2
    Prompts <- MCPrompts
    Scopes <- MCScopes
    Asked <- MCAsked
    MaxStores = 2
    MaxStarts = 3
INVARIANTS
    HitAnswersPrompt
    IndexMatchesEntries
    InvalidatedStaysOut
PROPERTIES
    ExpiredSwept
