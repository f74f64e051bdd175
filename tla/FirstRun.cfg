CONSTANTS
    Gateways = {g1}
    Indexers = {i1}
    Cli = Cli
    Runs = {b1, b2}
    Usernames = {u1, u2}
    SignIns = {s1}
    NoAccount = NoAccount
    Changed = Changed
    NoToken = NoToken
    MaxFaults = 2
SPECIFICATION Spec
INVARIANTS
    TypeOK
    
    CreatedCanSignIn
PROPERTIES
    OkMeansUsable
    
