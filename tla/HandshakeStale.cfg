SPECIFICATION Spec
CONSTANTS
    MsgLen <- LongMsgs
    Mss = 3
    Resume <- Never
    Blocking <- Ends
    Reorder = FALSE
    MaxDups <- Zero
    MaxCalls <- One
CHECK_DEADLOCK FALSE
INVARIANTS ReadsPeerData
