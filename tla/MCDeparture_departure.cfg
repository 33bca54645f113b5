CONSTANTS
    Passengers = {b1, b2}
    Counter = {b2}
    Calls = {c1, c2}
    Workers = {w1}
SPECIFICATION FairSpec
INVARIANTS
    DepartureInv
    OnBoardHavePaid
PROPERTIES
    NoReminderAfterCancel
    ReminderArrives
CHECK_DEADLOCK FALSE
