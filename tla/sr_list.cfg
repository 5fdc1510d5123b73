\* The list under failed queries, half-applied insertions, and a player page that
\* removes requests between any two queries of the worker.
SPECIFICATION Spec
CONSTANTS
    ann = ann
    bob = bob
    clip = clip
    tune = tune
    cloud = cloud
    reel = reel
    film = film
    epic = epic
    vile = vile
    t1 = t1
    Users = {ann}
    Mods = {}
    Subs = {}
    Regulars = {}
    SrBanned = {}
    Tracks = {clip, tune, cloud}
    SourceOf <- MCSourceOf
    LengthOf <- MCLengthOf
    InitialSongs <- NoSongs
    SubOnly = FALSE
    QueueCapacity = 5
    MaxSongLength = 600
    SongsPerMod = 5
    SongsPerSub = 5
    SongsPerRegular = 3
    SongsPerPleb = 2
    CountWord = 64
    OtherActions = {"current_song", "skip_song", "reset_songs"}
    Togglers = {}
    SiteAnswers = {"ok"}
    SiteActive = TRUE
    MaxItems = 3
    MaxDbFailures = 1
    MaxRestarts = 0
    None = None
INVARIANTS
    NoSongQueuedTwice
    PlayOrder
    PositionsContiguous
PROPERTIES
    NeverMovesBack
    ImplementsList
CHECK_DEADLOCK FALSE
