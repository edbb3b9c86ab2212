SPECIFICATION ConnectionSpec
CONSTANTS
    Terms = {t1, t2}
    NoTerm = NoTerm
    Pressers = {c1}
    Remotes = {"home", "other", "gone", "down"}
    Parks = TRUE
    RetryMax = 2
    WakeMax = 1
    RestoreMax = 2
CHECK_DEADLOCK FALSE
INVARIANTS PublishedTrue RaiseServed BudgetHolds OutageHonest
PROPERTIES NeverStuck
