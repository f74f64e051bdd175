CONSTANTS
    Calls = {r1, r2}
    NoCall = NoCall
    NoReply = NoReply
    MaxStray = 1
SPECIFICATION FairSpec
CHECK_DEADLOCK FALSE
INVARIANTS
    TypeOK
    OwnReply
    AloneOnProcess
    
    
 
