---------------------------- MODULE SongRequest ----------------------------
(***************************************************************************)
(* The song request module of the bot (songrequest_provider): chat threads *)
(* enqueue items, one worker thread takes them and runs each through a     *)
(* chain of database queries and calls to the site that hosts the song,    *)
(* the broadcaster switches the module on and off from other threads, the  *)
(* player page changes the same tables, and the process may crash and be   *)
(* started again. One action is one database query, one call to a site or  *)
(* one step on shared memory: everything between two of them is invisible  *)
(* to the other actors.                                                    *)
(***************************************************************************)
EXTENDS Integers, Sequences, FiniteSets

CONSTANTS
    Users, Mods, Subs, Regulars,   \* who chats, with which badges
    SrBanned,                      \* users with users.sr_ban set
    Tracks,                        \* what a link in the chat names
    SourceOf,                      \* the site of a track
    LengthOf,                      \* seconds, as the site reports them
    InitialSongs,                  \* rows of table songs before the first start
    SubOnly, QueueCapacity, MaxSongLength,
    SongsPerMod, SongsPerSub, SongsPerRegular, SongsPerPleb,
    CountWord,                     \* 2^32: one 32-bit word of a COUNT(*)
    OtherActions,                  \* item actions besides new_song in use
    Togglers,                      \* pool threads that may run !sr on / !sr off
    SiteAnswers,                   \* how a request to a site may end
    SiteActive,                    \* does the player page act on the tables?
    MaxItems,                      \* bound: items enqueued per process run
    MaxDbFailures,                 \* bound: queries that fail
    MaxRestarts,                   \* bound: crashes and restarts
    None

Answers == {"ok", "unreachable", "missing", "refused", "malformed"}

SongRow == [track : Tracks, linked : BOOLEAN, length : Int, banned : BOOLEAN]

\* static_cast<short> of a number of seconds: 16 bits, two's complement
Wrap16(n) == ((n + 32768) % 65536) - 32768

ASSUME RolesAssumption ==
    /\ Mods \subseteq Users
    /\ Subs \subseteq Users
    /\ Regulars \subseteq Users
    /\ SrBanned \subseteq Users

ASSUME TracksAssumption ==
    /\ SourceOf \in [Tracks -> {"youtube", "soundcloud", "vimeo"}]
    /\ LengthOf \in [Tracks -> Nat]

\* The rows of earlier runs were written by the same insertion: their length
\* went through the same conversion.
ASSUME SongsAssumption ==
    /\ InitialSongs \in Seq(SongRow)
    /\ \A i \in DOMAIN InitialSongs :
          InitialSongs[i].length = Wrap16(LengthOf[InitialSongs[i].track])

ASSUME ConfigAssumption ==
    /\ SubOnly \in BOOLEAN
    /\ QueueCapacity \in Int /\ MaxSongLength \in Int
    /\ SongsPerMod \in Int /\ SongsPerSub \in Int
    /\ SongsPerRegular \in Int /\ SongsPerPleb \in Int
    /\ CountWord \in Nat \ {0}

ASSUME BoundsAssumption ==
    /\ OtherActions \subseteq {"current_song", "skip_song", "reset_songs"}
    /\ SiteAnswers \subseteq Answers
    /\ SiteActive \in BOOLEAN
    /\ MaxItems \in Nat /\ MaxDbFailures \in Nat /\ MaxRestarts \in Nat
    /\ None \notin BOOLEAN

VARIABLES
    items,      \* items_: a set, the queue keeps no order between its producers
    localId,    \* localId_
    enabled,    \* enabled_
    pc,         \* where the worker thread is in request_worker
    cur,        \* the item it works on
    song,       \* the local song of request_song
    pos,        \* the local position of request_song
    told,       \* kinds of chat replies sent for the last item taken
    answer,     \* how the site answered for that item
    status,     \* status_: RequestId and IsPlaying
    change,     \* the request id a running song_state_change has still to store
    writers,    \* the value each toggling thread has still to write, or None
    stopping,   \* has the destructor been entered?
    dbEnabled,  \* row SR_OPT_ENABLED of table sr_data
    songs,      \* table songs, the id of a row is its index
    requests,   \* table song_requests, likewise; pos 0 stands for NULL
    failures, restarts,
    touched     \* history: has the player page removed a request?

queue   == <<items, localId>>
work    == <<cur, song, pos, told, answer>>
switch  == <<enabled, writers, stopping, dbEnabled>>
player  == <<status, change>>
tables  == <<songs, requests>>
limits  == <<failures, restarts, touched>>
vars    == <<queue, pc, work, switch, player, tables, limits>>

Item == [n : Nat, id : Int, action : {"new_song"}, user : Users, track : Tracks]
        \cup [n : Nat, id : Int, action : OtherActions, user : Users, track : {None}]

Request == [song : Nat \ {0}, user : Users, active : BOOLEAN, pos : Nat]

\* The view active_song_requests: not hidden, not played, not skipped.
Active == {r \in DOMAIN requests : requests[r].active}

\* Variants: every song is looked up by its link; banned rows are not found.
FoundByLink(t) == {s \in DOMAIN songs : songs[s].track = t /\ songs[s].linked}
FoundUnbanned(t) == {s \in DOMAIN songs : songs[s].track = t /\ ~songs[s].banned}

\* The songs rows the lookup of get_song finds: by track id and source, or by
\* link, a column that its INSERT never fills.
Found(t) == {s \in DOMAIN songs :
                /\ songs[s].track = t
                /\ SourceOf[t] = "soundcloud" => songs[s].linked}

\* COUNT(*) is a bigint, read_column<int> reads its first four bytes, and the
\* most significant bytes come first.
ReadInt(count) == count \div CountWord

Limit(u) == IF u \in Mods THEN SongsPerMod
            ELSE IF u \in Subs THEN SongsPerSub
            ELSE IF u \in Regulars THEN SongsPerRegular
            ELSE SongsPerPleb

\* A row that has left the list.
Left(row) == [row EXCEPT !.active = FALSE, !.pos = 0]

\* Variants: the gap stays open; the others move the wrong way.
SkipLeavingGap(r) ==
    [i \in DOMAIN requests |-> IF i = r THEN Left(requests[i]) ELSE requests[i]]

SkipMovingBack(r) ==
    [i \in DOMAIN requests |->
        IF i = r THEN Left(requests[i])
        ELSE IF /\ r \in DOMAIN requests
                /\ requests[r].pos # 0 /\ requests[i].pos > requests[r].pos
        THEN [requests[i] EXCEPT !.pos = @ + 1]
        ELSE requests[i]]

\* SQL function skip_song: the row leaves the list and, when it had a
\* position, everything behind it moves up.
SkipInList(r) ==
    [i \in DOMAIN requests |->
        IF i = r THEN Left(requests[i])
        ELSE IF /\ r \in DOMAIN requests
                /\ requests[r].pos # 0 /\ requests[i].pos > requests[r].pos
        THEN [requests[i] EXCEPT !.pos = @ - 1]
        ELSE requests[i]]

-----------------------------------------------------------------------------
\* load_config succeeded: the worker starts with the stored switch. It failed:
\* there is no worker and the module stays disabled.
WorkerAfterLoad(loaded) == IF loaded THEN "wait" ELSE "none"

Init ==
    /\ items = {} /\ localId = 0
    /\ dbEnabled \in BOOLEAN
    /\ \E loaded \in BOOLEAN :
          /\ pc = WorkerAfterLoad(loaded)
          /\ enabled = (loaded /\ dbEnabled)
          /\ failures = IF loaded THEN 0 ELSE 1
    /\ failures <= MaxDbFailures
    /\ cur = None /\ song = None /\ pos = 0 /\ told = {} /\ answer = None
    /\ status = [playing |-> FALSE, rid |-> 0] /\ change = 0
    /\ writers = [t \in Togglers |-> None] /\ stopping = FALSE
    /\ songs = InitialSongs /\ requests = <<>>
    /\ restarts = 0 /\ touched = FALSE

\* A query succeeds or, within the bound, fails.
Query(ok) ==
    /\ ok \/ failures < MaxDbFailures
    /\ failures' = IF ok THEN failures ELSE failures + 1
    /\ UNCHANGED <<restarts, touched>>

\* A statement that writes: when the connection is lost the server may have
\* applied it all the same.
Write(ok, applied) ==
    /\ Query(ok)
    /\ ok => applied

Reply(kind) == told' = told \cup {kind}

\* The handler returns: its locals are gone, the worker waits for an item.
Finish ==
    /\ pc' = "wait"
    /\ cur' = None /\ song' = None /\ pos' = 0

GoTo(next) ==
    /\ pc' = next
    /\ UNCHANGED cur

Alive == pc # "down" /\ ~stopping

-----------------------------------------------------------------------------
(* Chat threads and the control server. *)

\* !sr <link>: request_song of the command and of the provider. Neither asks
\* whether the module is enabled.
EnqueueSong(u, t) ==
    /\ Alive /\ localId < MaxItems
    /\ items' = items \cup {[n |-> localId, id |-> localId, action |-> "new_song",
                             user |-> u, track |-> t]}
    /\ localId' = localId + 1
    /\ UNCHANGED <<pc, work, switch, player, tables, limits>>

\* The other actions the worker's switch handles; r is the request meant, or
\* -1 for the current one.
EnqueueOther(a, u, r) ==
    /\ Alive /\ localId < MaxItems
    /\ items' = items \cup {[n |-> localId, id |-> r, action |-> a,
                             user |-> u, track |-> None]}
    /\ localId' = localId + 1
    /\ UNCHANGED <<pc, work, switch, player, tables, limits>>

\* set_enabled, first half: the flag in memory ...
SetEnabled(t, b) ==
    /\ Alive /\ writers[t] = None
    /\ enabled' = b
    /\ writers' = [writers EXCEPT ![t] = b]
    /\ UNCHANGED <<stopping, dbEnabled, queue, pc, work, player, tables, limits>>

\* ... second half: the row in the database; the result is not looked at.
PersistEnabled(t, ok, applied) ==
    /\ pc # "down" /\ writers[t] # None
    /\ Write(ok, applied)
    /\ dbEnabled' = IF applied THEN writers[t] ELSE dbEnabled
    /\ writers' = [writers EXCEPT ![t] = None]
    /\ UNCHANGED <<enabled, stopping, queue, pc, work, player, tables>>

\* song_state_change, under mutex_: IsPlaying first, RequestId next. The query
\* that follows has no blanks between its string literals and always fails.
BeginStateChange(r, playing) ==
    /\ Alive /\ SiteActive /\ change = 0
    /\ status' = [status EXCEPT !.playing = playing]
    /\ change' = r
    /\ UNCHANGED <<queue, pc, work, switch, tables, limits>>

EndStateChange ==
    /\ pc # "down" /\ change # 0
    /\ status' = [status EXCEPT !.rid = change]
    /\ change' = 0
    /\ UNCHANGED <<queue, pc, work, switch, tables, limits>>

\* The player page takes a request off the list, closing the gap or not.
SiteRemove(r) ==
    /\ SiteActive /\ r \in Active
    /\ requests' \in {SkipInList(r), [requests EXCEPT ![r] = Left(@)]}
    /\ touched' = TRUE
    /\ UNCHANGED <<songs, queue, pc, work, switch, player, failures, restarts>>

-----------------------------------------------------------------------------
(* The worker thread, one action per wait, query or call to a site. *)

Handler == [new_song |-> "check", current_song |-> "current",
            skip_song |-> "skip", reset_songs |-> "reset"]

Dequeue ==
    /\ pc = "wait"
    /\ \E i \in items :
          /\ items' = items \ {i}
          /\ cur' = i
          /\ pc' = Handler[i.action]
    /\ told' = {} /\ answer' = None
    /\ UNCHANGED <<localId, song, pos, switch, player, tables, limits>>

\* wait_dequeue_timed gives up on an empty queue ...
WaitTimeout ==
    /\ pc = "wait" /\ items = {}
    /\ pc' = "timeout"
    /\ UNCHANGED <<queue, work, switch, player, tables, limits>>

\* Variants: a disabled worker looks at the switch again instead of ending; it
\* never ends.
CheckEnabledSpinning ==
    /\ pc = "timeout"
    /\ pc' = IF enabled THEN "wait" ELSE "timeout"
    /\ UNCHANGED <<queue, work, switch, player, tables, limits>>

CheckEnabledNever ==
    /\ pc = "timeout"
    /\ pc' = "wait"
    /\ UNCHANGED <<queue, work, switch, player, tables, limits>>

\* ... and the thread ends for good if the module is disabled at that moment.
CheckEnabled ==
    /\ pc = "timeout"
    /\ pc' = IF enabled THEN "wait" ELSE "exited"
    /\ UNCHANGED <<queue, work, switch, player, tables, limits>>

Admitted(u) == enabled /\ (SubOnly => u \in Subs \cup Mods)

\* request_song_check: the tests on memory
CheckRequest ==
    /\ pc = "check"
    /\ \/ ~Admitted(cur.user) /\ Finish
       \/ Admitted(cur.user) /\ GoTo("is_user_banned") /\ UNCHANGED <<song, pos>>
    /\ UNCHANGED <<told, answer, queue, switch, player, tables, limits>>

\* A failed query counts as "not banned".
IsUserBanned(ok) ==
    /\ pc = "is_user_banned"
    /\ Query(ok)
    /\ \/ ok /\ cur.user \in SrBanned /\ Reply("user_banned") /\ Finish
       \/ /\ ~(ok /\ cur.user \in SrBanned)
          /\ GoTo("is_queue_full")
          /\ UNCHANGED <<told, song, pos>>
    /\ UNCHANGED <<answer, queue, switch, player, tables>>

QueueFull == ReadInt(Cardinality(Active)) >= QueueCapacity

\* A failed query counts as "not full".
IsQueueFull(ok) ==
    /\ pc = "is_queue_full"
    /\ Query(ok)
    /\ \/ ok /\ QueueFull /\ Reply("queue_full") /\ Finish
       \/ ~(ok /\ QueueFull) /\ GoTo("user_limit") /\ UNCHANGED <<told, song, pos>>
    /\ UNCHANGED <<answer, queue, switch, player, tables>>

TooMany(u, limit) ==
    ReadInt(Cardinality({r \in Active : requests[r].user = u})) >= limit

\* The songs of the user are counted and, if only they can say so, the regulars
\* are asked for: when the count fails nothing is too many, when the second query
\* fails the user is nobody special.  The user is told about the limit, and
\* request_song_check returns true.
UserLimit(ok) ==
    /\ pc = "user_limit"
    /\ Query(ok)
    /\ \/ ok /\ TooMany(cur.user, Limit(cur.user)) /\ Reply("too_many")
       \/ ok /\ ~TooMany(cur.user, Limit(cur.user)) /\ UNCHANGED told
       \/ ~ok /\ UNCHANGED told
       \/ /\ ~ok /\ cur.user \notin Mods \cup Subs
          /\ TooMany(cur.user, SongsPerPleb) /\ Reply("too_many")
    /\ GoTo("lookup")
    /\ UNCHANGED <<song, pos, answer, queue, switch, player, tables>>

\* get_song: a stored row is used as it is; a failed query has no rows.
LookupSong(ok) ==
    /\ pc = "lookup" /\ SourceOf[cur.track] # "vimeo"
    /\ Query(ok)
    /\ \/ ok /\ \E s \in Found(cur.track) :
             /\ song' = [id |-> s, length |-> songs[s].length, banned |-> songs[s].banned]
             /\ GoTo("judge")
       \/ (ok => Found(cur.track) = {}) /\ GoTo("retrieve") /\ UNCHANGED song
    /\ UNCHANGED <<told, answer, pos, queue, switch, player, tables>>

\* The process is gone, with everything in memory.
Down ==
    /\ pc' = "down"
    /\ items' = {} /\ localId' = 0
    /\ cur' = None /\ song' = None /\ pos' = 0 /\ told' = {} /\ answer' = None
    /\ enabled' = FALSE /\ writers' = [t \in Togglers |-> None]
    /\ status' = [playing |-> FALSE, rid |-> 0] /\ change' = 0
    /\ UNCHANGED <<stopping, dbEnabled, tables>>

\* get_song, for a link to vimeo: parse_link makes the id of a group that the
\* pattern does not have, of a null pointer, so no look-up is reached.
ParseVimeoLink ==
    /\ pc = "lookup" /\ SourceOf[cur.track] = "vimeo"
    /\ Down
    /\ UNCHANGED limits

\* What the requester is told when the site does not deliver the track: after
\* a transport error youtube's retrieve_video_data returns true with no name.
Refusal(a, t) ==
    CASE a = "refused" -> "refused"
      [] a = "missing" -> "no_such_song"
      [] a = "unreachable" -> IF SourceOf[t] = "youtube" THEN "no_such_song"
                              ELSE "site_down"

\* retrieve_video_data, retrieve_song_data: nothing catches what the JSON
\* parser throws, the thread's exception ends the process.
Retrieve(a) ==
    /\ pc = "retrieve"
    /\ \/ /\ a = "ok"
          /\ song' = [id |-> 0, length |-> LengthOf[cur.track], banned |-> FALSE]
          /\ answer' = a
          /\ GoTo("save_song")
          /\ UNCHANGED <<told, pos, queue, switch, player, tables>>
       \/ /\ a \in {"unreachable", "missing", "refused"}
          /\ Reply(Refusal(a, cur.track)) /\ answer' = a /\ Finish
          /\ UNCHANGED <<queue, switch, player, tables>>
       \/ a = "malformed" /\ Down
    /\ UNCHANGED limits

\* A song that cannot be saved is dropped without a word.
SaveSong(ok, applied) ==
    /\ pc = "save_song"
    /\ Write(ok, applied)
    /\ songs' = IF applied
                THEN Append(songs, [track |-> cur.track, linked |-> FALSE,
                                    length |-> Wrap16(song.length), banned |-> FALSE])
                ELSE songs
    /\ \/ /\ ok
          /\ song' = [song EXCEPT !.id = Len(songs) + 1]
          /\ GoTo("judge") /\ UNCHANGED pos
       \/ ~ok /\ Finish
    /\ UNCHANGED <<told, answer, requests, queue, switch, player>>

\* Variant: the limit is taken for minutes.
TooLongInMinutes == song.length \div 60 > MaxSongLength

TooLong == song.length > MaxSongLength

\* A request of a banned song may also time the user out in the chat.
Judge ==
    /\ pc = "judge"
    /\ \/ TooLong /\ Reply("too_long") /\ Finish
       \/ ~TooLong /\ song.banned /\ Reply("song_banned") /\ Finish
       \/ /\ ~TooLong /\ ~song.banned
          /\ GoTo("find_existing")
          /\ UNCHANGED <<song, pos, told>>
    /\ UNCHANGED <<answer, queue, switch, player, tables, limits>>

\* Variant: only the newest request is compared.
WaitingNewest(s) == Len(requests) \in Active /\ requests[Len(requests)].song = s

Waiting(s) == \E r \in Active : requests[r].song = s

FindExisting(ok) ==
    /\ pc = "find_existing"
    /\ Query(ok)
    /\ \/ ok /\ Waiting(song.id) /\ Reply("exists") /\ Finish
       \/ ok /\ ~Waiting(song.id) /\ GoTo("next_position") /\ UNCHANGED <<told, song, pos>>
       \/ ~ok /\ Finish /\ UNCHANGED told
    /\ UNCHANGED <<answer, queue, switch, player, tables>>

\* Variant: the number of requests in place of the last position
BehindCount(p) == p = Cardinality(Active) + 1

\* COALESCE(MAX(pos), 0) + 1 over the active requests
BehindAll(p) ==
    /\ \A r \in Active : requests[r].pos < p
    /\ p = 1 \/ \E r \in Active : requests[r].pos = p - 1

NextPosition(ok) ==
    /\ pc = "next_position"
    /\ Query(ok)
    /\ \/ /\ ok
          /\ \E p \in 1 .. Len(requests) + 1 : BehindAll(p) /\ pos' = p
          /\ GoTo("insert") /\ UNCHANGED song
       \/ ~ok /\ Finish
    /\ UNCHANGED <<told, answer, queue, switch, player, tables>>

InsertRequest(ok, applied) ==
    /\ pc = "insert"
    /\ Write(ok, applied)
    /\ requests' = IF applied
                   THEN Append(requests, [song |-> song.id, user |-> cur.user,
                                          active |-> TRUE, pos |-> pos])
                   ELSE requests
    /\ \/ ok /\ GoTo("announce") /\ UNCHANGED <<song, pos>>
       \/ ~ok /\ Finish
    /\ UNCHANGED <<told, answer, songs, queue, switch, player>>

\* notify_song_list_change, whose errors are only logged, and the reply
Announce ==
    /\ pc = "announce"
    /\ Reply("added") /\ Finish
    /\ UNCHANGED <<answer, queue, switch, player, tables, limits>>

\* current_song reads status_ without mutex_.
CurrentSong ==
    /\ pc = "current"
    /\ Reply(IF status.playing THEN "current" ELSE "paused") /\ Finish
    /\ UNCHANGED <<answer, queue, switch, player, tables, limits>>

SkipSong(ok, applied) ==
    /\ pc = "skip"
    /\ Write(ok, applied)
    /\ requests' = IF applied
                   THEN SkipInList(IF cur.id = -1 THEN status.rid ELSE cur.id)
                   ELSE requests
    /\ Finish
    /\ UNCHANGED <<told, answer, songs, queue, switch, player>>

\* reset_songs announces the reset whether or not it happened.
ResetSongs(ok, applied) ==
    /\ pc = "reset"
    /\ Write(ok, applied)
    /\ requests' = IF applied
                   THEN [r \in DOMAIN requests |-> Left(requests[r])]
                   ELSE requests
    /\ Reply("reset") /\ Finish
    /\ UNCHANGED <<answer, songs, queue, switch, player>>

Worker ==
    \/ Dequeue \/ WaitTimeout \/ CheckEnabled
    \/ CheckRequest \/ ParseVimeoLink \/ Judge \/ Announce \/ CurrentSong
    \/ \E a \in SiteAnswers : Retrieve(a)
    \/ \E ok \in BOOLEAN :
          \/ IsUserBanned(ok) \/ IsQueueFull(ok) \/ UserLimit(ok)
          \/ LookupSong(ok) \/ FindExisting(ok) \/ NextPosition(ok)
          \/ \E applied \in BOOLEAN :
                \/ SaveSong(ok, applied) \/ InsertRequest(ok, applied)
                \/ SkipSong(ok, applied) \/ ResetSongs(ok, applied)

-----------------------------------------------------------------------------
(* The life of the process. *)

\* The destructor: the pool's threads have been joined before it runs.
Destroy ==
    /\ Alive
    /\ change = 0 /\ \A t \in Togglers : writers[t] = None
    /\ stopping' = TRUE /\ enabled' = FALSE
    /\ UNCHANGED <<writers, dbEnabled, queue, pc, work, player, tables, limits>>

Crash ==
    /\ Alive /\ restarts < MaxRestarts
    /\ Down
    /\ UNCHANGED limits

Restart(loaded) ==
    /\ pc = "down" /\ restarts < MaxRestarts
    /\ loaded \/ failures < MaxDbFailures
    /\ pc' = WorkerAfterLoad(loaded)
    /\ enabled' = (loaded /\ dbEnabled)
    /\ restarts' = restarts + 1
    /\ failures' = IF loaded THEN failures ELSE failures + 1
    /\ stopping' = FALSE
    /\ UNCHANGED <<writers, dbEnabled, queue, work, player, tables, touched>>

Chat ==
    \/ \E u \in Users, t \in Tracks : EnqueueSong(u, t)
    \/ \E a \in OtherActions, u \in Users, r \in {-1} \cup DOMAIN requests :
          EnqueueOther(a, u, r)
    \/ \E t \in Togglers, b \in BOOLEAN : SetEnabled(t, b)
    \/ \E t \in Togglers, ok \in BOOLEAN, applied \in BOOLEAN :
          PersistEnabled(t, ok, applied)

Player ==
    \/ \E r \in DOMAIN requests, b \in BOOLEAN : BeginStateChange(r, b)
    \/ EndStateChange
    \/ \E r \in DOMAIN requests : SiteRemove(r)

Process == Destroy \/ Crash \/ \E loaded \in BOOLEAN : Restart(loaded)

Next == Chat \/ Player \/ Worker \/ Process

Spec == Init /\ [][Next]_vars

\* The operating system runs the worker, and queries and calls to sites return
\* (an assumption: the code sets no time limit); nobody is obliged to chat.
FairSpec == Spec /\ WF_vars(Worker)
=============================================================================
