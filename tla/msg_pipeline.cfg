\* Two threads of the pool, as many blocks as lines can hold.
SPECIFICATION FairSpec
CONSTANTS
    m1 = m1
    m2 = m2
    m3 = m3
    u1 = u1
    u2 = u2
    u3 = u3
    w1 = w1
    w2 = w2
    Null = Null
    Slots = {m1, m2}
    Users = {u1, u2}
    Workers = {w1, w2}
    Received = {"ping", "message"}
    MaxLines = 3
INVARIANTS
    ReferencesCounted
    AuthorsKept
PROPERTIES
    PassedByValue
    BlocksReturn
CHECK_DEADLOCK FALSE
