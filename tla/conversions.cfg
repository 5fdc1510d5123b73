\* All classes of inputs that the code tells apart; the parts of a duration are
\* at most nine, for they are read independently of one another, and an id is
\* missing, too short, right or too long.
SPECIFICATION Spec
CONSTANTS
    IdLengths = {0, 10, 11, 12}
    MaxDays = 1
    MaxHours = 2
    MaxParts = 9
    MaxSongLength = 600
    ByteValues = {0, 1}
    BufferSize = 5
    OptionSize = 3
    MaxTextLength = 6
INVARIANTS
    HandledAsSent
    ReadAsWritten
    CommandRun
    LinksRead
    ToldWhy
    ParsedExactly
    ValuesArrive
