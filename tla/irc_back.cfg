\* One lost connection.
SPECIFICATION FairSpec
CONSTANTS
    MaxLines = 1
    MaxChats = 0
    MaxLosses = 1
    MaxLookups = 0
    MaxOutages = 0
PROPERTY
    ReconnectReturnsToChat
CHECK_DEADLOCK FALSE
