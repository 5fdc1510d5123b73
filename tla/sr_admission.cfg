\* Who and what gets in: bans, lengths, a song stored by an earlier run, answers of a
\* site, the switch, a lost query, a crash; and that everything is served.
SPECIFICATION FairSpec
CONSTANTS
    ann = ann
    bob = bob
    clip = clip
    tune = tune
    cloud = cloud
    reel = reel
    film = film
    epic = epic
    vile = vile
    t1 = t1
    Users = {ann, bob}
    Mods = {}
    Subs = {}
    Regulars = {ann}
    SrBanned = {bob}
    Tracks = {clip, film, vile, reel}
    SourceOf <- MCSourceOf
    LengthOf <- MCLengthOf
    InitialSongs <- StoredSongs
    SubOnly = FALSE
    QueueCapacity = 5
    MaxSongLength = 600
    SongsPerMod = 5
    SongsPerSub = 5
    SongsPerRegular = 3
    SongsPerPleb = 0
    CountWord = 64
    OtherActions = {}
    Togglers = {t1}
    SiteAnswers = {"ok", "unreachable", "refused", "malformed"}
    SiteActive = FALSE
    MaxItems = 2
    MaxDbFailures = 1
    MaxRestarts = 1
    None = None
INVARIANTS
    NoTrackQueuedTwice
    LengthGuard
    BannedStayOut
PROPERTIES
    ItemsServed
    JoinReturns
CHECK_DEADLOCK FALSE
