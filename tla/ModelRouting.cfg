CONSTANTS
    Replicas = {c1}
    Writers = {w1}
    NoReplica = NoReplica
    Tables = 2
    None = None
    MaxWrites = 2
    MaxFaults = 1
    LiteLLM = LiteLLM
    Headroom = Headroom
    NoUrl = NoUrl
    Urls <- MCUrls
    SettingsOf <- MCSettingsOf
    Requests = {q1}
    Pages = {s1}
SPECIFICATION RoutingFairSpec
INVARIANTS
    RoutingTypeOK
    ReadYourWrites
    CopyMatchesGeneration
    
    OpenWhileInUse

    
    
