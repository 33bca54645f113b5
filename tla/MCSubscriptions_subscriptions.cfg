SPECIFICATION FairSpec
CONSTANTS
    s1 = s1  s2 = s2  k1 = k1  k2 = k2
    None = None
    Companies = {k1}
    Admins = {1, 2}
    Subs = {s1}
    CompanyOf <- OneEach
    Duration = 2
    WarningDays = 1
    Runs = {1, 2}
    LastDay = 2
CHECK_DEADLOCK FALSE
INVARIANTS SubInv DecidedOnce LapsedIsHidden RemindedOnce WarnedBeforeExpiry
PROPERTIES LapsedIsTreated
