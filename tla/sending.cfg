\* A message that is sent later, the worker, the login and the read handler; two
\* string buffers and three line buffers are used again.
SPECIFICATION FairSpec
CONSTANTS
    delayed = delayed
    worker = worker
    login = login
    reader = reader
    s1 = s1
    s2 = s2
    l1 = l1
    l2 = l2
    l3 = l3
    None = None
    Senders = {delayed, worker, login, reader}
    Kind <- KindOf
    Strings = {s1, s2}
    Lines = {l1, l2}
    Parts = 2
    MaxLosses = 1
INVARIANTS
    LinesTrue
    OnlyWorkerLate
PROPERTIES
    BuffersReturn
CHECK_DEADLOCK FALSE
