\* Switched off, idle, switched on again.
SPECIFICATION Spec
CONSTANTS
    ann = ann
    bob = bob
    clip = clip
    tune = tune
    cloud = cloud
    reel = reel
    film = film
    epic = epic
    vile = vile
    t1 = t1
    Users = {ann}
    Mods = {}
    Subs = {}
    Regulars = {}
    SrBanned = {}
    Tracks = {clip, tune}
    SourceOf <- MCSourceOf
    LengthOf <- MCLengthOf
    InitialSongs <- NoSongs
    SubOnly = FALSE
    QueueCapacity = 5
    MaxSongLength = 600
    SongsPerMod = 5
    SongsPerSub = 5
    SongsPerRegular = 3
    SongsPerPleb = 2
    CountWord = 64
    OtherActions = {}
    Togglers = {t1}
    SiteAnswers = {"ok"}
    SiteActive = FALSE
    MaxItems = 1
    MaxDbFailures = 0
    MaxRestarts = 0
    None = None
INVARIANTS
    EnabledMeansServed
CHECK_DEADLOCK FALSE
