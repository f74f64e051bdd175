CONSTANTS
    Projects = {p1}
    Workers = {w1, w2}
    NoWorker = NoWorker
    NoJob = NoJob
    MaxCommit = 3
    MaxQueue = 2
    MaxFaults = 0
SPECIFICATION Spec
INVARIANT PushesConverge
