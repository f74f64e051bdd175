CONSTANTS
    Scopes = {s1, s2}
    Requests = {r1}
    Questions = {q1, q2}
    Similar <- AllSimilar
    NoEntry = NoEntry
    NoSweep = NoSweep
    MaxGraph = 1
    MaxFaults = 1
SPECIFICATION FairSpec
INVARIANT RecalledIsOwn
 
