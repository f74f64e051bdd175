CONSTANTS
    Scopes = {s1}
    Requests = {r1, r2}
    Questions = {q1}
    Similar <- AllSimilar
    NoEntry = NoEntry
    NoSweep = NoSweep
    MaxGraph = 3
    MaxFaults = 0
SPECIFICATION Spec
SYMMETRY Symmetry
INVARIANTS
    TypeOK
    RecalledIsFresh
PROPERTY SweepKeepsLive
