CONSTANTS
    Scopes = {s1}
    Requests = {r1, r2}
    Questions = {q1}
    Similar <- AllSimilar
    NoEntry = NoEntry
    NoSweep = NoSweep
    MaxGraph = 2
    MaxFaults = 0
SPECIFICATION Spec
INVARIANT NothingStaleRecalled
