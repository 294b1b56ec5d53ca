SPECIFICATION Spec
CONSTANTS
    p1 = p1
    p2 = p2
    s1 = s1
    s2 = s2
    Prompts <- MCPrompts
    Scopes <- MCScopes
    Asked <- MCAskedTogether
    MaxStores = 3
    MaxStarts = 2
INVARIANT EntryAlongsideItsVector
