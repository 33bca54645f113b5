SPECIFICATION FairSpec
CONSTANTS
    c1 = c1  c2 = c2  c3 = c3  w1 = w1  w2 = w2
    None = None
    MaxNumber = 2
    Calls = {c1, c2, c3}
    Workers = {w1, w2}
CHECK_DEADLOCK FALSE
INVARIANTS ParcelInv OneArrivalSms CollectedIsDated NotifiedIsRecorded
PROPERTIES QueuedIsTold
