------------------------- MODULE SongRequestProps -------------------------
(***************************************************************************)
(* What the song request module must guarantee, and what its messages and  *)
(* comments claim.                                                         *)
(***************************************************************************)
EXTENDS SongRequest

WorkerStates == {"wait", "timeout", "check", "is_user_banned", "is_queue_full",
                 "user_limit", "lookup", "retrieve", "save_song", "judge",
                 "find_existing", "next_position", "insert", "announce",
                 "current", "skip", "reset", "exited", "none", "down"}

Idle == {"wait", "timeout", "exited", "none", "down"}

HasSong == {"save_song", "judge", "find_existing", "next_position", "insert", "announce"}

Song == [id : Nat, length : Int, banned : BOOLEAN]

Replies == {"user_banned", "queue_full", "too_many", "refused", "no_such_song",
            "site_down", "too_long", "song_banned", "exists", "added",
            "current", "paused", "reset"}

\* The variables that several threads use, and the record of the replies.
SharedTypes ==
    /\ items \subseteq Item
    /\ localId \in Nat
    /\ enabled \in BOOLEAN
    /\ status \in [playing : BOOLEAN, rid : Nat] /\ change \in Nat
    /\ writers \in [Togglers -> BOOLEAN \cup {None}]
    /\ stopping \in BOOLEAN
    /\ dbEnabled \in BOOLEAN
    /\ told \subseteq Replies
    /\ answer \in Answers \cup {None}
    /\ failures \in Nat /\ restarts \in Nat /\ touched \in BOOLEAN

\* The worker has an item exactly while it handles one, and a song, with its id
\* once it is stored, while request_song holds one.
WorkerTypes ==
    /\ pc \in WorkerStates
    /\ cur \in Item \cup {None}
    /\ pc \notin Idle => cur \in Item
    /\ pc \notin Idle \cup {"current", "skip", "reset"} => cur.track \in Tracks
    /\ song \in Song \cup {None}
    /\ pc \in HasSong => song \in Song
    /\ pc \in HasSong \ {"save_song"} => song.id \in Nat \ {0}
    /\ pos \in Nat

TableTypes ==
    /\ songs \in Seq(SongRow)
    /\ requests \in Seq(Request)

\* Every variable of request_worker, of the provider and of the two tables
\* keeps its type, and no handler runs without the locals it reads.
TypeOK == SharedTypes /\ WorkerTypes /\ TableTypes

-----------------------------------------------------------------------------
(* Safety of the list. *)

\* No stored song waits twice in the queue: the look-up in find_existing and
\* the insertion two queries later are one decision, although the player page,
\* crashes and half-applied statements come between them.
NoSongQueuedTwice ==
    \A r, s \in Active : requests[r].song = requests[s].song => r = s

\* Requests play in the order in which they were added: positions grow
\* strictly with the request id, even when a request is inserted at a position
\* that was computed before another one was skipped.
PlayOrder ==
    \A r, s \in Active : r < s => requests[r].pos < requests[s].pos

\* As long as only the bot has changed the list, its positions have no gap:
\* skip_song renumbers, and next_position continues, the same sequence.
PositionsContiguous ==
    ~touched => {requests[r].pos : r \in Active} = 1 .. Cardinality(Active)

\* A request never moves back in the queue and never becomes active again,
\* whatever is skipped, reset or inserted.
NeverMovesBack ==
    [][\A r \in DOMAIN requests :
          /\ r \in DOMAIN requests'
          /\ r \in Active' => r \in Active
          /\ r \in Active' => requests'[r].pos <= requests[r].pos]_vars

\* A track of youtube waits at most once as long as no query fails, although
\* the check compares stored songs and not tracks: a track is stored once.
NoTrackQueuedTwice ==
    failures = 0 =>
        \A r, s \in Active :
            LET t == songs[requests[r].song].track
            IN  /\ SourceOf[t] = "youtube"
                /\ songs[requests[s].song].track = t
                => r = s

\* A length that fits a smallint survives the table.
Fits(t) == LengthOf[t] <= 32767

\* No track whose length fits the smallint column waits in the queue if it is
\* longer than allowed, whether its length came from the site or the table.
LengthGuard ==
    \A r \in Active :
        LET t == songs[requests[r].song].track
        IN  Fits(t) => LengthOf[t] <= MaxSongLength

\* As long as no query fails, no request of a banned user gets into the queue,
\* and no request for a track that any row of songs bans: not even through
\* another row of the same track.
BannedStayOut ==
    failures = 0 =>
        \A r \in Active :
            /\ requests[r].user \notin SrBanned
            /\ \A s \in DOMAIN songs :
                  songs[s].banned => songs[s].track # songs[requests[r].song].track

-----------------------------------------------------------------------------
(* Why the list is safe: the inductive invariants behind NoSongQueuedTwice,
   PlayOrder, PositionsContiguous and LengthGuard. *)

\* Waiting requests, and only they, have a position.
PositionsInv ==
    \A r \in DOMAIN requests : requests[r].pos = 0 <=> ~requests[r].active

\* Between find_existing and insert nobody adds the worker's song, and the
\* position it computed stays behind all others, although it may become stale:
\* what the other actors do only takes requests away.
DecisionInv ==
    /\ pc \in {"next_position", "insert"} => ~Waiting(song.id)
    /\ pc = "insert" => pos # 0 /\ \A r \in Active : requests[r].pos < pos

QueueInv == NoSongQueuedTwice /\ PlayOrder /\ PositionsInv /\ DecisionInv

\* Why there is no gap: the position that next_position computed follows the
\* last one when insert uses it.
ContiguousUpTo(n) == {requests[r].pos : r \in Active} = 1 .. n

GapInv ==
    ~touched => \E n \in Nat : ContiguousUpTo(n) /\ (pc = "insert" => pos = n + 1)

\* Every row of songs holds the wrapped length of its track, every request
\* points to a row, and no request is for a fitting track that is too long.
TableLengths ==
    /\ \A s \in DOMAIN songs : songs[s].length = Wrap16(LengthOf[songs[s].track])
    /\ \A r \in DOMAIN requests :
          /\ requests[r].song \in DOMAIN songs
          /\ LET t == songs[requests[r].song].track
             IN  Fits(t) => LengthOf[t] <= MaxSongLength

\* The worker's song has the length of its track, from the site or from the
\* table, and behind judge it is not longer than allowed.
WorkerLengths ==
    /\ pc = "save_song" => song.length = LengthOf[cur.track]
    /\ pc \in HasSong \ {"save_song"} =>
          /\ song.id \in DOMAIN songs
          /\ Fits(songs[song.id].track) => song.length = LengthOf[songs[song.id].track]
    /\ pc \in {"find_existing", "next_position", "insert"} => song.length <= MaxSongLength

LengthInv == TableLengths /\ WorkerLengths

\* A songs table in which a track of youtube has one row, as the runs leave it
\* in which no query fails; the table itself would take any number of them.
StoredOnce(table) ==
    \A a, b \in DOMAIN table :
        /\ table[a].track = table[b].track
        /\ SourceOf[table[a].track] = "youtube"
        => a = b

\* A songs table whose bans get_song finds: every row of a banned track has the
\* ban, and the link if it is looked up by it.  Bans are set by hand.
BansFound(table) ==
    \A a, b \in DOMAIN table :
        /\ table[a].banned
        /\ table[a].track = table[b].track
        => /\ table[b].banned
           /\ SourceOf[table[b].track] = "soundcloud" => table[b].linked

\* Why no track is stored, and queued, twice: what get_song has looked for and
\* not found is still not there when the site has answered.
StoredInv ==
    failures = 0 =>
        /\ StoredOnce(songs)
        /\ pc \in {"retrieve", "save_song"} /\ SourceOf[cur.track] = "youtube" =>
              \A s \in DOMAIN songs : songs[s].track # cur.track

\* Why nothing banned gets in: what the worker has asked about its user and its
\* song holds for every request it has added.
BansInv ==
    failures = 0 =>
        /\ BansFound(songs)
        /\ \A r \in DOMAIN requests :
              requests[r].user \notin SrBanned /\ ~songs[requests[r].song].banned
        /\ pc \in HasSong \cup {"is_queue_full", "user_limit", "lookup", "retrieve"} =>
              cur.user \notin SrBanned
        /\ pc \in {"retrieve", "save_song"} =>
              \A s \in DOMAIN songs : songs[s].banned => songs[s].track # cur.track
        /\ pc \in HasSong \ {"save_song"} => song.banned = songs[song.id].banned
        /\ pc \in {"save_song", "find_existing", "next_position", "insert"} => ~song.banned

-----------------------------------------------------------------------------
(* The list as the chat sees it. *)

Entries == {[id |-> r, song |-> requests[r].song, user |-> requests[r].user] : r \in Active}

List == INSTANCE SongQueue WITH list <- Entries, last <- Len(requests)

\* Crashes, failed queries and the player page included, the tables are only
\* ever changed as the abstract list allows.
ImplementsList == List!Spec

-----------------------------------------------------------------------------
(* Liveness. *)

\* Every item is taken from the queue, unless the worker has ended: it does so
\* when the module is disabled (or its configuration was never loaded) or the
\* process dies.
ItemsServed ==
    \A n \in 0 .. MaxItems - 1 :
        (\E i \in items : i.n = n)
            ~> ((\A i \in items : i.n # n) \/ pc \in {"exited", "none", "down"})

\* The destructor's join returns: the worker drains the queue and ends.
JoinReturns == stopping ~> (pc \in {"exited", "none", "down"})

-----------------------------------------------------------------------------
(* Claims of messages and comments that the code does not keep. *)

\* "Sorry, %s, the song request queue is full.": never more than the capacity.
CapacityRespected == Cardinality(Active) <= QueueCapacity

\* "you already have %i songs in the queue": a request that was answered so is
\* not added.
TooManyMeansRefused == ~({"too_many", "added"} \subseteq told)

\* "this song is longer than %i minutes": no queued track is too long.
TooLongNeverQueued ==
    \A r \in Active : LengthOf[songs[requests[r].song].track] <= MaxSongLength

\* "this song is already in the queue": no track waits twice.
TrackNeverQueuedTwice ==
    \A r, s \in Active :
        songs[requests[r].song].track = songs[requests[s].song].track => r = s

\* "Song request enabled!": while the module is enabled a worker serves it.
EnabledMeansServed == enabled => pc # "exited"

\* "your request could not be processed (site down?)": when the site was not
\* reached the requester is not told that the video does not exist.
SiteDownReported == answer = "unreachable" => "no_such_song" \notin told
=============================================================================
