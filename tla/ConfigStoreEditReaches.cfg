CONSTANTS
    Replicas = {c1}
    Writers = {w1, w2}
    NoReplica = NoReplica
    Tables = 1
    None = None
    MaxWrites = 2
    MaxFaults = 0
SPECIFICATION FairSpec
PROPERTY EditReachesReplicas
