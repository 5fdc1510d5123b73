\* A caller, a failure, a change and an add_sub anywhere in the refreshes of main and of the timer.
SPECIFICATION FairSpec
CONSTANTS
    n1 = n1
    n2 = n2
    c1 = c1
    Names = {n1, n2}
    Callers = {c1}
    PageSize = 1
    MaxOffset = 2
    MaxFailures = 1
    MaxChanges = 1
    MaxAdds = 1
    MaxRefreshes = 1
INVARIANTS
    RefreshIsExact
PROPERTIES
    StandingSubKept
    ListAnswersRight
    NoRefreshAfterCleanup
    TimerGoesOn
CHECK_DEADLOCK FALSE
