CONSTANTS
    a = a
    b = b
    r1 = r1
    r2 = r2
    s1 = s1
    s2 = s2
    any = any
    legacy = legacy
    Connectors <- MCConnectors
    Kind <- MCKind
    Listed <- MCListed
    Repos = {r1, r2}
    Short <- MCShort
    Patterns = {any, legacy}
    Include <- MCInclude
    Exclude <- MCExclude
    Matches <- MCMatches
    Default <- MCDefault
    Branches <- OneBranch
    PageSize = 1
    MaxPages = 2
    Scans = {loop}
    Hooks = {h1}
    NoConnector = NoConnector
    MaxChanges = 2
SPECIFICATION FairSpec
INVARIANTS
    TypeOK
    MissRediscovers
PROPERTIES
    BindingsConverge
    HooksAnswered
