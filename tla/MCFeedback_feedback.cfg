CONSTANTS
    Users = {u1, u2}
    Notices = {n1, n2}
    Calls = {c1, c2, c3}
    MaxNow = 3
SPECIFICATION Spec
SYMMETRY Perms
INVARIANTS
    FeedbackInv
    FlaggedIsHidden
CHECK_DEADLOCK FALSE
