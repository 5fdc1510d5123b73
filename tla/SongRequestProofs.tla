------------------------- MODULE SongRequestProofs -------------------------
(***************************************************************************)
(* Proofs about SongRequest for every value of its constants.              *)
(***************************************************************************)
EXTENDS SongRequestProps, FiniteSetTheorems, TLAPS

-----------------------------------------------------------------------------
(* Lemmas about the operators on the table song_requests. *)

\* A sequence whose entries are replaced one by one stays a sequence.
LEMMA MapIsSeq ==
    ASSUME NEW S, NEW T, NEW s \in Seq(S),
           NEW f, f = [i \in DOMAIN s |-> f[i]],
           \A i \in DOMAIN s : f[i] \in T
    PROVE  f \in Seq(T) /\ Len(f) = Len(s) /\ DOMAIN f = DOMAIN s
<1>1. DOMAIN s = 1 .. Len(s) /\ Len(s) \in Nat
  OBVIOUS
<1>2. f \in [1 .. Len(s) -> T]
  BY <1>1
<1> QED
  BY <1>1, <1>2

\* Skipping keeps the table's type and size: no position drops below NULL.
LEMMA SkipType ==
    ASSUME requests \in Seq(Request), NEW r
    PROVE  SkipInList(r) \in Seq(Request) /\ Len(SkipInList(r)) = Len(requests)
<1> DEFINE f == SkipInList(r)
<1>1. \A i \in DOMAIN requests : requests[i] \in Request
  OBVIOUS
<1>2. ASSUME NEW i \in DOMAIN requests
      PROVE  f[i] \in Request
  <2>1. requests[i] \in Request
    BY <1>1
  <2>2. CASE i = r
    BY <2>1, <2>2 DEF SkipInList, Left, Request
  <2>3. CASE /\ i # r /\ r \in DOMAIN requests
             /\ requests[r].pos # 0 /\ requests[i].pos > requests[r].pos
    <3>1. requests[r] \in Request
      BY <1>1, <2>3
    <3>2. requests[i].pos - 1 \in Nat
      BY <2>1, <2>3, <3>1 DEF Request
    <3>3. f[i] = [requests[i] EXCEPT !.pos = @ - 1]
      BY <2>3 DEF SkipInList
    <3> QED
      BY <2>1, <3>2, <3>3 DEF Request
  <2>4. CASE /\ i # r
             /\ ~(/\ r \in DOMAIN requests
                  /\ requests[r].pos # 0 /\ requests[i].pos > requests[r].pos)
    <3>1. f[i] = requests[i]
      BY <2>4 DEF SkipInList
    <3> QED
      BY <2>1, <3>1
  <2> QED
    BY <2>2, <2>3, <2>4
<1>3. f = [i \in DOMAIN requests |-> f[i]]
  BY DEF SkipInList
<1> QED
  BY <1>2, <1>3, MapIsSeq

-----------------------------------------------------------------------------
(* Types. *)

LEMMA LeftType ==
    ASSUME NEW row \in Request
    PROVE  Left(row) \in Request
  BY DEF Left, Request

\* The tuples of variables that UNCHANGED names.
USE DEF queue, work, switch, player, tables, limits

LEMMA QueryType ==
    ASSUME failures \in Nat, restarts \in Nat, touched \in BOOLEAN, NEW ok, Query(ok)
    PROVE  failures' \in Nat /\ restarts' \in Nat /\ touched' \in BOOLEAN
  BY DEF Query

LEMMA ReplyType ==
    ASSUME told \subseteq Replies, NEW kind \in Replies, Reply(kind)
    PROVE  told' \subseteq Replies
  BY DEF Reply

LEMMA InitType == Init => TypeOK
<1> SUFFICES ASSUME Init PROVE TypeOK
  OBVIOUS
<1>1. songs \in Seq(SongRow) /\ requests \in Seq(Request)
  BY SongsAssumption DEF Init
<1>2. writers \in [Togglers -> BOOLEAN \cup {None}] /\ status \in [playing : BOOLEAN, rid : Nat]
  BY DEF Init
<1>3. failures \in Nat /\ restarts \in Nat /\ localId \in Nat /\ pos \in Nat /\ change \in Nat
  BY DEF Init
<1>4. pc \in Idle /\ touched \in BOOLEAN /\ enabled \in BOOLEAN /\ dbEnabled \in BOOLEAN /\ stopping \in BOOLEAN
  BY DEF Init, WorkerAfterLoad, Idle
<1>5. items = {} /\ told = {} /\ cur = None /\ song = None /\ answer = None
  BY DEF Init
<1> QED
  BY <1>1, <1>2, <1>3, <1>4, <1>5
  DEF TypeOK, SharedTypes, WorkerTypes, TableTypes, Idle, HasSong, WorkerStates

LEMMA ChatType ==
    ASSUME TypeOK, Chat
    PROVE  TypeOK'
<1> USE DEF TypeOK
<1>1. ASSUME NEW u \in Users, NEW t \in Tracks, EnqueueSong(u, t)
      PROVE  TypeOK'
  <2>1. SharedTypes'
    BY <1>1 DEF SharedTypes, EnqueueSong, Alive, Item
  <2>2. WorkerTypes'
    BY <1>1 DEF WorkerTypes, Idle, HasSong, WorkerStates, EnqueueSong, Alive, Item
  <2>3. TableTypes'
    BY <1>1 DEF WorkerTypes, TableTypes, EnqueueSong, Alive, Item
  <2> QED
    BY <2>1, <2>2, <2>3
<1>2. ASSUME NEW a \in OtherActions, NEW u \in Users,
             NEW r \in {-1} \cup DOMAIN requests, EnqueueOther(a, u, r)
      PROVE  TypeOK'
  <2>1. SharedTypes'
    <3>1. r \in Int
      BY DEF TableTypes
    <3>2. [n |-> localId, id |-> r, action |-> a, user |-> u, track |-> None] \in Item
      BY <3>1 DEF SharedTypes, Item
    <3> QED
      BY <1>2, <3>2 DEF SharedTypes, EnqueueOther
  <2>2. WorkerTypes'
    BY <1>2 DEF WorkerTypes, Idle, HasSong, WorkerStates, EnqueueOther, Alive, Item
  <2>3. TableTypes'
    BY <1>2 DEF WorkerTypes, TableTypes, EnqueueOther, Alive, Item
  <2> QED
    BY <2>1, <2>2, <2>3
<1>3. ASSUME NEW t \in Togglers, NEW b \in BOOLEAN, SetEnabled(t, b)
      PROVE  TypeOK'
  <2>1. SharedTypes'
    BY <1>3 DEF SharedTypes, SetEnabled, Alive
  <2>2. WorkerTypes'
    BY <1>3 DEF WorkerTypes, Idle, HasSong, WorkerStates, SetEnabled, Alive
  <2>3. TableTypes'
    BY <1>3 DEF WorkerTypes, TableTypes, SetEnabled, Alive
  <2> QED
    BY <2>1, <2>2, <2>3
<1>4. ASSUME NEW t \in Togglers, NEW ok \in BOOLEAN, NEW applied \in BOOLEAN, PersistEnabled(t, ok, applied)
      PROVE  TypeOK'
  <2>1. SharedTypes'
    BY <1>4 DEF SharedTypes, PersistEnabled, Write, Query
  <2>2. WorkerTypes'
    BY <1>4 DEF WorkerTypes, Idle, HasSong, WorkerStates, PersistEnabled, Write, Query
  <2>3. TableTypes'
    BY <1>4 DEF WorkerTypes, TableTypes, PersistEnabled, Write, Query
  <2> QED
    BY <2>1, <2>2, <2>3
<1> QED
  BY <1>1, <1>2, <1>3, <1>4 DEF Chat

LEMMA PlayerType ==
    ASSUME TypeOK, Player
    PROVE  TypeOK'
<1> USE DEF TypeOK
<1>1. ASSUME NEW r \in DOMAIN requests, NEW b \in BOOLEAN, BeginStateChange(r, b)
      PROVE  TypeOK'
  <2>1. SharedTypes'
    <3>1. r \in Nat
      BY <1>1 DEF TableTypes
    <3> QED
      BY <1>1, <3>1 DEF SharedTypes, BeginStateChange
  <2>2. WorkerTypes'
    BY <1>1 DEF WorkerTypes, Idle, HasSong, WorkerStates, BeginStateChange, Alive
  <2>3. TableTypes'
    BY <1>1 DEF WorkerTypes, TableTypes, BeginStateChange, Alive
  <2> QED
    BY <2>1, <2>2, <2>3
<1>2. CASE EndStateChange
  <2>1. SharedTypes'
    BY <1>2 DEF SharedTypes, EndStateChange
  <2>2. WorkerTypes'
    BY <1>2 DEF WorkerTypes, Idle, HasSong, WorkerStates, EndStateChange
  <2>3. TableTypes'
    BY <1>2 DEF WorkerTypes, TableTypes, EndStateChange
  <2> QED
    BY <2>1, <2>2, <2>3
<1>3. ASSUME NEW r \in DOMAIN requests, SiteRemove(r)
      PROVE  TypeOK'
  <2>1. SharedTypes'
    BY <1>3, SkipType DEF SharedTypes, SiteRemove, Request, Active
  <2>2. WorkerTypes'
    BY <1>3, SkipType DEF WorkerTypes, Idle, HasSong, WorkerStates, SiteRemove, Request, Active
  <2>3. TableTypes'
    <3> DEFINE dropped == [requests EXCEPT ![r] = Left(@)]
    <3>1. SkipInList(r) \in Seq(Request)
      BY SkipType DEF TableTypes
    <3>2. dropped \in Seq(Request)
      BY <1>3, LeftType DEF TableTypes
    <3> QED
      BY <1>3, <3>1, <3>2 DEF TableTypes, SiteRemove
  <2> QED
    BY <2>1, <2>2, <2>3
<1> QED
  BY <1>1, <1>2, <1>3 DEF Player

LEMMA WorkerType ==
    ASSUME TypeOK, Worker
    PROVE  TypeOK'
<1> USE DEF TypeOK
<1>1. CASE Dequeue
  <2>1. SharedTypes'
    BY <1>1, BoundsAssumption DEF SharedTypes, Dequeue, Item, Handler
  <2>2. WorkerTypes'
    <3>1. PICK i \in items : cur' = i /\ pc' = Handler[i.action]
      BY <1>1 DEF Dequeue
    <3>2. i \in Item
      BY DEF SharedTypes
    <3>3. UNCHANGED <<song, pos>>
      BY <1>1 DEF Dequeue
    <3>4. CASE i.action = "new_song"
      <4>1. pc' = "check" /\ i.track \in Tracks
        BY <3>1, <3>2, <3>4, BoundsAssumption DEF Item, Handler
      <4> QED
        BY <3>1, <3>2, <3>3, <4>1 DEF WorkerTypes, Idle, HasSong, WorkerStates
    <3>5. CASE i.action \in OtherActions
      <4>1. i.action \in {"current_song", "skip_song", "reset_songs"}
        BY <3>5, BoundsAssumption
      <4>2. pc' \in {"current", "skip", "reset"}
        BY <3>1, <4>1 DEF Handler
      <4> QED
        BY <3>1, <3>2, <3>3, <4>2 DEF WorkerTypes, Idle, HasSong, WorkerStates
    <3>6. i.action = "new_song" \/ i.action \in OtherActions
      BY <3>2 DEF Item
    <3> QED
      BY <3>4, <3>5, <3>6
  <2>3. TableTypes'
    BY <1>1, BoundsAssumption DEF WorkerTypes, TableTypes, Dequeue, Item, Handler
  <2> QED
    BY <2>1, <2>2, <2>3
<1>2. CASE WaitTimeout
  <2>1. SharedTypes'
    BY <1>2 DEF SharedTypes, WaitTimeout
  <2>2. WorkerTypes'
    BY <1>2 DEF WorkerTypes, Idle, HasSong, WorkerStates, WaitTimeout
  <2>3. TableTypes'
    BY <1>2 DEF WorkerTypes, TableTypes, WaitTimeout
  <2> QED
    BY <2>1, <2>2, <2>3
<1>3. CASE CheckEnabled
  <2>1. SharedTypes'
    BY <1>3 DEF SharedTypes, CheckEnabled
  <2>2. WorkerTypes'
    BY <1>3 DEF WorkerTypes, Idle, HasSong, WorkerStates, CheckEnabled
  <2>3. TableTypes'
    BY <1>3 DEF WorkerTypes, TableTypes, CheckEnabled
  <2> QED
    BY <2>1, <2>2, <2>3
<1>4. CASE CheckRequest
  <2>1. SharedTypes'
    BY <1>4 DEF SharedTypes, CheckRequest, Finish, GoTo
  <2>2. WorkerTypes'
    BY <1>4 DEF WorkerTypes, Idle, HasSong, WorkerStates, CheckRequest, Finish, GoTo
  <2>3. TableTypes'
    BY <1>4 DEF WorkerTypes, TableTypes, CheckRequest, Finish, GoTo
  <2> QED
    BY <2>1, <2>2, <2>3
<1>5. CASE Judge
  <2>1. SharedTypes'
    BY <1>5 DEF SharedTypes, Judge, Finish, GoTo, Reply, Replies
  <2>2. WorkerTypes'
    BY <1>5 DEF WorkerTypes, Idle, HasSong, WorkerStates, Judge, Finish, GoTo, Reply, Replies
  <2>3. TableTypes'
    BY <1>5 DEF WorkerTypes, TableTypes, Judge, Finish, GoTo, Reply, Replies
  <2> QED
    BY <2>1, <2>2, <2>3
<1>6. CASE Announce
  <2>1. SharedTypes'
    BY <1>6 DEF SharedTypes, Announce, Finish, Reply, Replies
  <2>2. WorkerTypes'
    BY <1>6 DEF WorkerTypes, Idle, HasSong, WorkerStates, Announce, Finish, Reply, Replies
  <2>3. TableTypes'
    BY <1>6 DEF WorkerTypes, TableTypes, Announce, Finish, Reply, Replies
  <2> QED
    BY <2>1, <2>2, <2>3
<1>7. CASE CurrentSong
  <2>1. SharedTypes'
    BY <1>7 DEF SharedTypes, CurrentSong, Finish, Reply, Replies
  <2>2. WorkerTypes'
    BY <1>7 DEF WorkerTypes, Idle, HasSong, WorkerStates, CurrentSong, Finish, Reply, Replies
  <2>3. TableTypes'
    BY <1>7 DEF WorkerTypes, TableTypes, CurrentSong, Finish, Reply, Replies
  <2> QED
    BY <2>1, <2>2, <2>3
<1>8. ASSUME NEW a \in SiteAnswers, Retrieve(a)
      PROVE  TypeOK'
  <2>1. SharedTypes'
    <3>1. CASE a = "malformed"
      <4>1. Down /\ UNCHANGED limits
        BY <1>8, <3>1 DEF Retrieve
      <4> QED
        BY <4>1 DEF SharedTypes, Down
    <3>2. CASE a = "ok"
      BY <1>8, <3>2 DEF SharedTypes, Retrieve, Answers
    <3>3. CASE a \in {"unreachable", "missing", "refused"}
      <4>1. Refusal(a, cur.track) \in Replies
        BY <3>3 DEF Refusal, Replies
      <4>2. Reply(Refusal(a, cur.track)) /\ answer' = a
        BY <1>8, <3>3 DEF Retrieve
      <4>3. told' \subseteq Replies
        BY <4>1, <4>2, ReplyType DEF SharedTypes
      <4>4. UNCHANGED <<queue, switch, player, limits>>
        BY <1>8, <3>3 DEF Retrieve
      <4> QED
        BY <3>3, <4>2, <4>3, <4>4 DEF SharedTypes, Answers
    <3> QED
      BY <3>1, <3>2, <3>3, BoundsAssumption DEF Answers
  <2>2. WorkerTypes'
    <3>1. CASE a = "ok"
      <4>1. cur \in Item /\ cur.track \in Tracks
        BY <1>8 DEF WorkerTypes, Idle, Retrieve
      <4>2. /\ song' = [id |-> 0, length |-> LengthOf[cur.track], banned |-> FALSE]
            /\ pc' = "save_song" /\ UNCHANGED <<cur, pos>>
        BY <1>8, <3>1 DEF Retrieve, GoTo
      <4>3. song' \in Song
        BY <4>1, <4>2, TracksAssumption DEF Song
      <4> QED
        BY <4>1, <4>2, <4>3 DEF WorkerTypes, Idle, HasSong, WorkerStates
    <3>2. CASE a # "ok"
      BY <1>8, <3>2, BoundsAssumption
      DEF WorkerTypes, Idle, HasSong, WorkerStates, Retrieve, Finish, Down
    <3> QED
      BY <3>1, <3>2
  <2>3. TableTypes'
    BY <1>8, BoundsAssumption, TracksAssumption DEF WorkerTypes, TableTypes, Retrieve, Finish, GoTo, Reply, Replies, Refusal, Down, Answers, Song
  <2> QED
    BY <2>1, <2>2, <2>3
<1>9. ASSUME NEW ok \in BOOLEAN, IsUserBanned(ok)
      PROVE  TypeOK'
  <2>1. SharedTypes'
    <3>1. failures' \in Nat /\ restarts' \in Nat /\ touched' \in BOOLEAN
      BY <1>9, QueryType DEF SharedTypes, IsUserBanned
    <3>2. told' \subseteq Replies
      BY <1>9, ReplyType DEF SharedTypes, IsUserBanned, Replies
    <3> QED
      BY <1>9, <3>1, <3>2 DEF SharedTypes, IsUserBanned
  <2>2. WorkerTypes'
    BY <1>9 DEF WorkerTypes, Idle, HasSong, WorkerStates, IsUserBanned, Finish, GoTo, Reply, Replies, Query
  <2>3. TableTypes'
    BY <1>9 DEF WorkerTypes, TableTypes, IsUserBanned, Finish, GoTo, Reply, Replies, Query
  <2> QED
    BY <2>1, <2>2, <2>3
<1>10. ASSUME NEW ok \in BOOLEAN, IsQueueFull(ok)
      PROVE  TypeOK'
  <2>1. SharedTypes'
    <3>1. failures' \in Nat /\ restarts' \in Nat /\ touched' \in BOOLEAN
      BY <1>10, QueryType DEF SharedTypes, IsQueueFull
    <3>2. told' \subseteq Replies
      BY <1>10, ReplyType DEF SharedTypes, IsQueueFull, Replies
    <3> QED
      BY <1>10, <3>1, <3>2 DEF SharedTypes, IsQueueFull
  <2>2. WorkerTypes'
    BY <1>10 DEF WorkerTypes, Idle, HasSong, WorkerStates, IsQueueFull, Finish, GoTo, Reply, Replies, Query
  <2>3. TableTypes'
    BY <1>10 DEF WorkerTypes, TableTypes, IsQueueFull, Finish, GoTo, Reply, Replies, Query
  <2> QED
    BY <2>1, <2>2, <2>3
<1>11. ASSUME NEW ok \in BOOLEAN, UserLimit(ok)
      PROVE  TypeOK'
  <2>1. SharedTypes'
    <3>1. failures' \in Nat /\ restarts' \in Nat /\ touched' \in BOOLEAN
      BY <1>11, QueryType DEF SharedTypes, UserLimit
    <3>2. told' \subseteq Replies
      BY <1>11, ReplyType DEF SharedTypes, UserLimit, Replies
    <3> QED
      BY <1>11, <3>1, <3>2 DEF SharedTypes, UserLimit
  <2>2. WorkerTypes'
    BY <1>11 DEF WorkerTypes, Idle, HasSong, WorkerStates, UserLimit, GoTo, Reply, Replies, Query
  <2>3. TableTypes'
    BY <1>11 DEF WorkerTypes, TableTypes, UserLimit, GoTo, Reply, Replies, Query
  <2> QED
    BY <2>1, <2>2, <2>3
<1>12. ASSUME NEW ok \in BOOLEAN, LookupSong(ok)
      PROVE  TypeOK'
  <2>1. SharedTypes'
    BY <1>12 DEF SharedTypes, LookupSong, GoTo, Query, Found, Song, SongRow
  <2>2. WorkerTypes'
    <3>1. CASE pc' = "judge"
      <4>1. PICK s \in Found(cur.track) :
                song' = [id |-> s, length |-> songs[s].length, banned |-> songs[s].banned]
        BY <1>12, <3>1 DEF LookupSong, GoTo
      <4>2. s \in Nat \ {0} /\ songs[s] \in SongRow
        BY DEF Found, TableTypes
      <4>3. song' \in Song /\ song'.id \in Nat \ {0}
        BY <4>1, <4>2 DEF Song, SongRow
      <4> QED
        BY <1>12, <3>1, <4>3 DEF WorkerTypes, Idle, HasSong, WorkerStates, LookupSong, GoTo
    <3>2. CASE pc' # "judge"
      BY <1>12, <3>2 DEF WorkerTypes, Idle, HasSong, WorkerStates, LookupSong, GoTo
    <3> QED
      BY <3>1, <3>2
  <2>3. TableTypes'
    BY <1>12 DEF WorkerTypes, TableTypes, LookupSong, GoTo, Query, Found, Song, SongRow
  <2> QED
    BY <2>1, <2>2, <2>3
<1>13. ASSUME NEW ok \in BOOLEAN, FindExisting(ok)
      PROVE  TypeOK'
  <2>1. SharedTypes'
    <3>1. failures' \in Nat /\ restarts' \in Nat /\ touched' \in BOOLEAN
      BY <1>13, QueryType DEF SharedTypes, FindExisting
    <3>2. told' \subseteq Replies
      BY <1>13, ReplyType DEF SharedTypes, FindExisting, Replies
    <3> QED
      BY <1>13, <3>1, <3>2 DEF SharedTypes, FindExisting
  <2>2. WorkerTypes'
    BY <1>13 DEF WorkerTypes, Idle, HasSong, WorkerStates, FindExisting, Finish, GoTo, Reply, Replies, Query
  <2>3. TableTypes'
    BY <1>13 DEF WorkerTypes, TableTypes, FindExisting, Finish, GoTo, Reply, Replies, Query
  <2> QED
    BY <2>1, <2>2, <2>3
<1>14. ASSUME NEW ok \in BOOLEAN, NextPosition(ok)
      PROVE  TypeOK'
  <2>1. SharedTypes'
    BY <1>14 DEF SharedTypes, NextPosition, Finish, GoTo, Query
  <2>2. WorkerTypes'
    BY <1>14 DEF WorkerTypes, Idle, HasSong, WorkerStates, NextPosition, Finish, GoTo, Query
  <2>3. TableTypes'
    BY <1>14 DEF WorkerTypes, TableTypes, NextPosition, Finish, GoTo, Query
  <2> QED
    BY <2>1, <2>2, <2>3
<1>15. ASSUME NEW ok \in BOOLEAN, NEW applied \in BOOLEAN, SaveSong(ok, applied)
      PROVE  TypeOK'
  <2>1. SharedTypes'
    BY <1>15 DEF SharedTypes, SaveSong, Finish, GoTo, Query, Write, Song, SongRow, Wrap16
  <2>2. WorkerTypes'
    BY <1>15 DEF WorkerTypes, Idle, HasSong, WorkerStates, SaveSong, Finish, GoTo, Query, Write, Song, SongRow, Wrap16
  <2>3. TableTypes'
    <3> DEFINE row == [track |-> cur.track, linked |-> FALSE,
                       length |-> Wrap16(song.length), banned |-> FALSE]
    <3>1. cur.track \in Tracks /\ song.length \in Int
      BY <1>15 DEF WorkerTypes, Idle, HasSong, SaveSong, Song
    <3>2. row \in SongRow
      BY <3>1 DEF SongRow, Wrap16
    <3>3. Append(songs, row) \in Seq(SongRow)
      BY <3>2 DEF TableTypes
    <3> QED
      BY <1>15, <3>3 DEF TableTypes, SaveSong
  <2> QED
    BY <2>1, <2>2, <2>3
<1>16. ASSUME NEW ok \in BOOLEAN, NEW applied \in BOOLEAN, InsertRequest(ok, applied)
      PROVE  TypeOK'
  <2>1. SharedTypes'
    BY <1>16 DEF SharedTypes, InsertRequest, Finish, GoTo, Query, Write, Song, Item, Request
  <2>2. WorkerTypes'
    BY <1>16 DEF WorkerTypes, Idle, HasSong, WorkerStates, InsertRequest, Finish, GoTo, Query, Write, Song, Item, Request
  <2>3. TableTypes'
    <3> DEFINE row == [song |-> song.id, user |-> cur.user, active |-> TRUE, pos |-> pos]
    <3>1. cur.user \in Users /\ song.id \in Nat \ {0} /\ pos \in Nat
      BY <1>16 DEF WorkerTypes, Idle, HasSong, InsertRequest, Item
    <3>2. row \in Request
      BY <3>1 DEF Request
    <3>3. Append(requests, row) \in Seq(Request)
      BY <3>2 DEF TableTypes
    <3> QED
      BY <1>16, <3>3 DEF TableTypes, InsertRequest
  <2> QED
    BY <2>1, <2>2, <2>3
<1>17. ASSUME NEW ok \in BOOLEAN, NEW applied \in BOOLEAN, SkipSong(ok, applied)
      PROVE  TypeOK'
  <2>1. SharedTypes'
    BY <1>17, SkipType DEF SharedTypes, SkipSong, Finish, Query, Write
  <2>2. WorkerTypes'
    BY <1>17, SkipType DEF WorkerTypes, Idle, HasSong, WorkerStates, SkipSong, Finish, Query, Write
  <2>3. TableTypes'
    BY <1>17, SkipType DEF WorkerTypes, TableTypes, SkipSong, Finish, Query, Write
  <2> QED
    BY <2>1, <2>2, <2>3
<1>18. ASSUME NEW ok \in BOOLEAN, NEW applied \in BOOLEAN, ResetSongs(ok, applied)
      PROVE  TypeOK'
  <2>1. SharedTypes'
    <3>1. failures' \in Nat /\ restarts' \in Nat /\ touched' \in BOOLEAN
      BY <1>18, QueryType DEF SharedTypes, ResetSongs, Write
    <3>2. told' \subseteq Replies
      BY <1>18, ReplyType DEF SharedTypes, ResetSongs, Replies
    <3> QED
      BY <1>18, <3>1, <3>2 DEF SharedTypes, ResetSongs
  <2>2. WorkerTypes'
    BY <1>18 DEF WorkerTypes, Idle, HasSong, WorkerStates, ResetSongs, Finish, Query, Write, Reply, Replies, Request
  <2>3. TableTypes'
    <3> DEFINE empty == [r \in DOMAIN requests |-> Left(requests[r])]
    <3>1. \A r \in DOMAIN requests : empty[r] \in Request
      BY LeftType DEF TableTypes
    <3>2. requests \in Seq(Request)
      BY DEF TableTypes
    <3>3. empty \in Seq(Request)
      BY <3>1, <3>2, MapIsSeq
    <3> QED
      BY <1>18, <3>3 DEF TableTypes, ResetSongs
  <2> QED
    BY <2>1, <2>2, <2>3
<1>19. CASE ParseVimeoLink
  <2>1. SharedTypes'
    BY <1>19 DEF SharedTypes, ParseVimeoLink, Down
  <2>2. WorkerTypes'
    BY <1>19 DEF WorkerTypes, Idle, HasSong, WorkerStates, ParseVimeoLink, Down
  <2>3. TableTypes'
    BY <1>19 DEF WorkerTypes, TableTypes, ParseVimeoLink, Down
  <2> QED
    BY <2>1, <2>2, <2>3
<1> QED
  BY <1>1, <1>2, <1>3, <1>4, <1>5, <1>6, <1>7, <1>8, <1>9, <1>10, <1>11, <1>12, <1>13, <1>14, <1>15, <1>16, <1>17, <1>18, <1>19 DEF Worker

LEMMA ProcessType ==
    ASSUME TypeOK, Process
    PROVE  TypeOK'
<1> USE DEF TypeOK
<1>1. CASE Destroy
  <2>1. SharedTypes'
    BY <1>1 DEF SharedTypes, Destroy, Alive
  <2>2. WorkerTypes'
    BY <1>1 DEF WorkerTypes, Idle, HasSong, WorkerStates, Destroy, Alive
  <2>3. TableTypes'
    BY <1>1 DEF WorkerTypes, TableTypes, Destroy, Alive
  <2> QED
    BY <2>1, <2>2, <2>3
<1>2. CASE Crash
  <2>1. SharedTypes'
    BY <1>2 DEF SharedTypes, Crash, Alive, Down
  <2>2. WorkerTypes'
    BY <1>2 DEF WorkerTypes, Idle, HasSong, WorkerStates, Crash, Alive, Down
  <2>3. TableTypes'
    BY <1>2 DEF WorkerTypes, TableTypes, Crash, Alive, Down
  <2> QED
    BY <2>1, <2>2, <2>3
<1>3. ASSUME NEW loaded \in BOOLEAN, Restart(loaded)
      PROVE  TypeOK'
  <2>1. SharedTypes'
    <3>1. UNCHANGED <<writers, dbEnabled, queue, work, player, tables>>
      BY <1>3 DEF Restart
    <3>2. enabled' \in BOOLEAN /\ stopping' = FALSE
      BY <1>3 DEF SharedTypes, Restart
    <3>3. failures' \in Nat /\ restarts' \in Nat /\ touched' \in BOOLEAN
      BY <1>3 DEF SharedTypes, Restart
    <3> QED
      BY <3>1, <3>2, <3>3 DEF SharedTypes
  <2>2. WorkerTypes'
    BY <1>3 DEF WorkerTypes, Idle, HasSong, WorkerStates, Restart, WorkerAfterLoad
  <2>3. TableTypes'
    BY <1>3 DEF WorkerTypes, TableTypes, Restart, WorkerAfterLoad
  <2> QED
    BY <2>1, <2>2, <2>3
<1> QED
  BY <1>1, <1>2, <1>3 DEF Process

LEMMA StutterType ==
    ASSUME TypeOK, UNCHANGED vars
    PROVE  TypeOK'
  BY DEF TypeOK, SharedTypes, WorkerTypes, TableTypes, Item, vars, work

LEMMA NextType ==
    ASSUME TypeOK, [Next]_vars
    PROVE  TypeOK'
  BY ChatType, PlayerType, WorkerType, ProcessType, StutterType DEF Next

\* Every variable keeps its type in every run of the bot, however many items,
\* failed queries and restarts there are.
THEOREM TypeCorrect == Spec => []TypeOK
<1>1. TypeOK /\ [Next]_vars => TypeOK'
  BY NextType
<1> QED
  BY InitType, <1>1, PTL DEF Spec

-----------------------------------------------------------------------------
(* Requests that leave the list. *)

\* What every way to take requests off the list has in common.
Shrinks ==
    /\ Len(requests') = Len(requests)
    /\ DOMAIN requests' = DOMAIN requests
    /\ \A r \in DOMAIN requests :
          /\ requests'[r].song = requests[r].song
          /\ requests'[r].user = requests[r].user
          /\ requests'[r].active => requests[r].active
          /\ requests'[r].pos \in Int /\ requests'[r].pos <= requests[r].pos

ListInv == NoSongQueuedTwice /\ PlayOrder /\ PositionsInv

LEMMA RequestTypes ==
    ASSUME TypeOK
    PROVE  /\ Len(requests) \in Nat /\ DOMAIN requests = 1 .. Len(requests)
           /\ \A r \in DOMAIN requests :
                 /\ requests[r] \in Request
                 /\ requests[r].song \in Nat \ {0} /\ requests[r].pos \in Nat
                 /\ requests[r].active \in BOOLEAN /\ requests[r].user \in Users
<1>1. requests \in Seq(Request)
  BY DEF TypeOK, TableTypes
<1>2. \A r \in DOMAIN requests : requests[r] \in Request
  BY <1>1
<1> QED
  BY <1>1, <1>2 DEF Request

LEMMA LeftFields ==
    ASSUME NEW row \in Request
    PROVE  /\ Left(row).song = row.song /\ Left(row).user = row.user
           /\ Left(row).active = FALSE /\ Left(row).pos = 0
  BY DEF Left, Request

\* The fields of the table after skip_song.
LEMMA SkipFields ==
    ASSUME TypeOK, NEW r
    PROVE  \A i \in DOMAIN requests :
              /\ SkipInList(r)[i].song = requests[i].song
              /\ SkipInList(r)[i].user = requests[i].user
              /\ i = r => SkipInList(r)[i].active = FALSE /\ SkipInList(r)[i].pos = 0
              /\ i # r => SkipInList(r)[i].active = requests[i].active
              /\ i # r => SkipInList(r)[i].pos =
                    IF r \in DOMAIN requests /\ requests[r].pos # 0
                          /\ requests[i].pos > requests[r].pos
                    THEN requests[i].pos - 1 ELSE requests[i].pos
<1> TAKE i \in DOMAIN requests
<1>1. requests[i] \in Request
  BY RequestTypes
<1>2. CASE i = r
  BY <1>1, <1>2, LeftFields DEF SkipInList
<1>3. CASE i # r
  BY <1>1, <1>3 DEF SkipInList, Request
<1> QED
  BY <1>2, <1>3

LEMMA SkipShrinks ==
    ASSUME TypeOK, ListInv, NEW r, requests' = SkipInList(r)
    PROVE  Shrinks /\ ListInv'
<1>1. Len(requests') = Len(requests) /\ DOMAIN requests' = DOMAIN requests
  BY SkipType DEF TypeOK, TableTypes, SkipInList
<1>2. \A i \in DOMAIN requests :
         /\ requests'[i].song = requests[i].song /\ requests'[i].user = requests[i].user
         /\ i = r => requests'[i].active = FALSE /\ requests'[i].pos = 0
         /\ i # r => requests'[i].active = requests[i].active
         /\ i # r => requests'[i].pos =
               IF r \in DOMAIN requests /\ requests[r].pos # 0
                     /\ requests[i].pos > requests[r].pos
               THEN requests[i].pos - 1 ELSE requests[i].pos
  BY SkipFields
<1>3. \A i \in DOMAIN requests :
         requests[i].pos \in Nat /\ requests[i].active \in BOOLEAN /\ i \in Nat
  BY RequestTypes
<1>4. Shrinks
  BY <1>1, <1>2, <1>3 DEF Shrinks
<1>5. PositionsInv'
  BY <1>1, <1>2, <1>3 DEF ListInv, PositionsInv
<1>6. NoSongQueuedTwice'
  BY <1>1, <1>4 DEF Shrinks, ListInv, NoSongQueuedTwice, Active
<1>7. PlayOrder'
  <2> SUFFICES ASSUME NEW i \in DOMAIN requests, NEW j \in DOMAIN requests,
                      requests'[i].active, requests'[j].active, i < j
               PROVE  requests'[i].pos < requests'[j].pos
    BY <1>1 DEF PlayOrder, Active
  <2>1. requests[i].active /\ requests[j].active /\ i # r /\ j # r
    BY <1>2
  <2>2. requests[i].pos < requests[j].pos
    BY <2>1 DEF ListInv, PlayOrder, Active
  <2>3. CASE r \in DOMAIN requests /\ requests[r].pos # 0
    <3>1. r \in Active
      BY <1>3, <2>3 DEF ListInv, PositionsInv, Active
    <3>2. requests[i].pos # requests[r].pos
      BY <1>3, <2>1, <2>3, <3>1 DEF ListInv, PlayOrder, Active
    <3> QED
      BY <1>2, <1>3, <2>1, <2>2, <2>3, <3>2
  <2>4. CASE ~(r \in DOMAIN requests /\ requests[r].pos # 0)
    BY <1>2, <2>1, <2>2, <2>4
  <2> QED
    BY <2>3, <2>4
<1> QED
  BY <1>4, <1>5, <1>6, <1>7 DEF ListInv

\* Rows that only lose their place, one or all of them.
LEMMA DropShrinks ==
    ASSUME TypeOK, ListInv, NEW gone,
           requests' = [i \in DOMAIN requests |->
                          IF i \in gone THEN Left(requests[i]) ELSE requests[i]]
    PROVE  Shrinks /\ ListInv'
<1>1. Len(requests') = Len(requests) /\ DOMAIN requests' = DOMAIN requests
  <2>1. \A i \in DOMAIN requests : requests'[i] \in Request
    BY RequestTypes, LeftType
  <2>2. requests \in Seq(Request)
    BY DEF TypeOK, TableTypes
  <2> QED
    BY <2>1, <2>2, MapIsSeq
<1>2. \A i \in DOMAIN requests :
         /\ requests'[i].song = requests[i].song /\ requests'[i].user = requests[i].user
         /\ i \in gone => requests'[i].active = FALSE /\ requests'[i].pos = 0
         /\ i \notin gone => requests'[i] = requests[i]
  BY RequestTypes, LeftFields
<1>3. Shrinks
  BY <1>1, <1>2, RequestTypes DEF Shrinks
<1>4. NoSongQueuedTwice' /\ PlayOrder' /\ PositionsInv'
  BY <1>1, <1>2, RequestTypes DEF ListInv, NoSongQueuedTwice, PlayOrder, PositionsInv, Active
<1> QED
  BY <1>3, <1>4 DEF ListInv

LEMMA SiteRemoveShrinks ==
    ASSUME TypeOK, ListInv, NEW r, SiteRemove(r)
    PROVE  Shrinks /\ ListInv'
<1>1. CASE requests' = SkipInList(r)
  BY <1>1, SkipShrinks
<1>2. CASE requests' = [requests EXCEPT ![r] = Left(@)]
  <2>1. requests' = [i \in DOMAIN requests |->
                       IF i \in {r} THEN Left(requests[i]) ELSE requests[i]]
    BY <1>2, RequestTypes
  <2> QED
    BY <2>1, DropShrinks
<1> QED
  BY <1>1, <1>2 DEF SiteRemove

LEMMA UnchangedShrinks ==
    ASSUME TypeOK, ListInv, UNCHANGED requests
    PROVE  Shrinks /\ ListInv'
  BY RequestTypes DEF Shrinks, ListInv, NoSongQueuedTwice, PlayOrder, PositionsInv, Active

LEMMA SkipSongShrinks ==
    ASSUME TypeOK, ListInv, NEW ok, NEW applied, SkipSong(ok, applied)
    PROVE  Shrinks /\ ListInv'
  BY SkipShrinks, UnchangedShrinks DEF SkipSong

LEMMA ResetSongsShrinks ==
    ASSUME TypeOK, ListInv, NEW ok, NEW applied, ResetSongs(ok, applied)
    PROVE  Shrinks /\ ListInv'
<1>1. CASE requests' = [r \in DOMAIN requests |-> Left(requests[r])]
  <2>1. requests' = [i \in DOMAIN requests |->
                       IF i \in DOMAIN requests THEN Left(requests[i]) ELSE requests[i]]
    BY <1>1
  <2> QED
    BY <2>1, DropShrinks
<1>2. CASE UNCHANGED requests
  BY <1>2, UnchangedShrinks
<1> QED
  BY <1>1, <1>2 DEF ResetSongs

-----------------------------------------------------------------------------
(* The list stays free of duplicates and in order. *)

\* Steps that neither touch the list nor bring the worker closer to adding.
Quiet ==
    /\ UNCHANGED requests
    /\ pc' \notin {"next_position", "insert"} \/ UNCHANGED <<pc, song, pos>>

LEMMA QuietKeepsQueue ==
    ASSUME QueueInv, Quiet
    PROVE  QueueInv'
<1>1. Active' = Active
  BY DEF Quiet, Active
<1> QED
  BY <1>1 DEF Quiet, QueueInv, NoSongQueuedTwice, PlayOrder, PositionsInv, DecisionInv, Waiting

\* A request that leaves can only make the worker's decision safer.
LEMMA ShrinkKeepsQueue ==
    ASSUME TypeOK, QueueInv, Shrinks, ListInv',
           pc' \notin {"next_position", "insert"} \/ UNCHANGED <<pc, song, pos>>
    PROVE  QueueInv'
<1>1. CASE pc' \notin {"next_position", "insert"}
  BY <1>1 DEF QueueInv, ListInv, DecisionInv
<1>2. CASE UNCHANGED <<pc, song, pos>>
  <2>1. \A r \in Active' : /\ r \in Active
                           /\ requests'[r].song = requests[r].song
                           /\ requests'[r].pos <= requests[r].pos
                           /\ requests[r].pos \in Nat /\ requests'[r].pos \in Int
    BY RequestTypes DEF Shrinks, Active
  <2>2. DecisionInv'
    BY <1>2, <2>1 DEF TypeOK, WorkerTypes, QueueInv, DecisionInv, Waiting
  <2> QED
    BY <2>2 DEF QueueInv, ListInv
<1> QED
  BY <1>1, <1>2

\* The insertion: its song is not waiting, its position is behind all others.
LEMMA InsertKeepsQueue ==
    ASSUME TypeOK, QueueInv, NEW ok, NEW applied, InsertRequest(ok, applied)
    PROVE  QueueInv'
<1>1. pc' \notin {"next_position", "insert"}
  BY DEF InsertRequest, GoTo, Finish
<1>2. CASE ~applied
  BY <1>1, <1>2, QuietKeepsQueue DEF InsertRequest, Quiet
<1>3. CASE applied
  <2> DEFINE new == [song |-> song.id, user |-> cur.user, active |-> TRUE, pos |-> pos]
             n == Len(requests) + 1
  <2>1. requests' = Append(requests, new)
    BY <1>3 DEF InsertRequest
  <2>2. /\ n \in Nat /\ DOMAIN requests' = DOMAIN requests \cup {n}
        /\ requests'[n] = new
        /\ \A r \in DOMAIN requests : requests'[r] = requests[r] /\ r < n /\ r \in Nat
    BY <2>1, RequestTypes DEF TypeOK, TableTypes
  <2>3. Active' = Active \cup {n}
    BY <2>2 DEF Active
  <2>4. /\ pos # 0 /\ \A r \in Active : requests[r].song # song.id
        /\ \A r \in Active : requests[r].pos < pos
    BY DEF InsertRequest, QueueInv, DecisionInv, Waiting
  <2>5. NoSongQueuedTwice'
    BY <2>2, <2>3, <2>4 DEF QueueInv, NoSongQueuedTwice, Active
  <2>6. PlayOrder'
    BY <2>2, <2>3, <2>4 DEF QueueInv, PlayOrder, Active
  <2>7. PositionsInv'
    BY <2>2, <2>4 DEF QueueInv, PositionsInv
  <2> QED
    BY <1>1, <2>5, <2>6, <2>7 DEF QueueInv, DecisionInv
<1> QED
  BY <1>2, <1>3

LEMMA NextPositionKeepsQueue ==
    ASSUME TypeOK, QueueInv, NEW ok, NextPosition(ok)
    PROVE  QueueInv'
<1>1. CASE pc' = "wait"
  BY <1>1, QuietKeepsQueue DEF NextPosition, Quiet
<1>2. CASE pc' = "insert"
  <2>1. PICK p \in 1 .. Len(requests) + 1 : BehindAll(p) /\ pos' = p
    BY <1>2 DEF NextPosition, Finish
  <2>2. p # 0
    BY <2>1, RequestTypes
  <2>3. UNCHANGED <<requests, song>>
    BY <1>2 DEF NextPosition, Finish
  <2>4. DecisionInv'
    BY <1>2, <2>1, <2>2, <2>3 DEF NextPosition, QueueInv, DecisionInv, BehindAll, Waiting, Active
  <2> QED
    BY <2>3, <2>4 DEF QueueInv, NoSongQueuedTwice, PlayOrder, PositionsInv, Active
<1> QED
  BY <1>1, <1>2 DEF NextPosition, GoTo, Finish

LEMMA FindExistingKeepsQueue ==
    ASSUME QueueInv, NEW ok, FindExisting(ok)
    PROVE  QueueInv'
<1>1. CASE pc' = "wait"
  BY <1>1, QuietKeepsQueue DEF FindExisting, Quiet
<1>2. CASE pc' = "next_position"
  <2>1. ~Waiting(song.id) /\ UNCHANGED <<requests, song>>
    BY <1>2 DEF FindExisting, Finish
  <2> QED
    BY <1>2, <2>1
    DEF QueueInv, NoSongQueuedTwice, PlayOrder, PositionsInv, DecisionInv, Waiting, Active
<1> QED
  BY <1>1, <1>2 DEF FindExisting, GoTo, Finish

LEMMA DequeueStates ==
    ASSUME TypeOK, Dequeue
    PROVE  pc' \in {"check", "current", "skip", "reset"}
<1>1. PICK i \in items : pc' = Handler[i.action]
  BY DEF Dequeue
<1>2. i.action = "new_song" \/ i.action \in OtherActions
  BY DEF TypeOK, SharedTypes, Item
<1>3. i.action \in {"new_song", "current_song", "skip_song", "reset_songs"}
  BY <1>2, BoundsAssumption
<1> QED
  BY <1>1, <1>3 DEF Handler

LEMMA WorkerKeepsQueue ==
    ASSUME TypeOK, QueueInv, Worker
    PROVE  QueueInv'
<1>1. CASE Dequeue
  BY <1>1, DequeueStates, QuietKeepsQueue DEF Quiet, Dequeue
<1>2. CASE WaitTimeout \/ CheckEnabled
  BY <1>2, QuietKeepsQueue DEF Quiet, WaitTimeout, CheckEnabled
<1>3. CASE CheckRequest \/ ParseVimeoLink \/ Judge \/ Announce \/ CurrentSong
  BY <1>3, QuietKeepsQueue
  DEF Quiet, CheckRequest, ParseVimeoLink, Down, Judge, Announce, CurrentSong, Finish, GoTo
<1>4. ASSUME NEW a \in SiteAnswers, Retrieve(a)
      PROVE  QueueInv'
  BY <1>4, QuietKeepsQueue DEF Quiet, Retrieve, Down, Finish, GoTo
<1>5. ASSUME NEW ok \in BOOLEAN,
             IsUserBanned(ok) \/ IsQueueFull(ok) \/ UserLimit(ok) \/ LookupSong(ok)
      PROVE  QueueInv'
  BY <1>5, QuietKeepsQueue
  DEF Quiet, IsUserBanned, IsQueueFull, UserLimit, LookupSong, Finish, GoTo
<1>6. ASSUME NEW ok \in BOOLEAN, FindExisting(ok) \/ NextPosition(ok)
      PROVE  QueueInv'
  BY <1>6, FindExistingKeepsQueue, NextPositionKeepsQueue
<1>7. ASSUME NEW ok \in BOOLEAN, NEW applied \in BOOLEAN, SaveSong(ok, applied)
      PROVE  QueueInv'
  BY <1>7, QuietKeepsQueue DEF Quiet, SaveSong, Finish, GoTo
<1>8. ASSUME NEW ok \in BOOLEAN, NEW applied \in BOOLEAN, InsertRequest(ok, applied)
      PROVE  QueueInv'
  BY <1>8, InsertKeepsQueue
<1>9. ASSUME NEW ok \in BOOLEAN, NEW applied \in BOOLEAN,
             SkipSong(ok, applied) \/ ResetSongs(ok, applied)
      PROVE  QueueInv'
  <2>1. ListInv
    BY DEF QueueInv, ListInv
  <2>2. pc' = "wait"
    BY <1>9 DEF SkipSong, ResetSongs, Finish
  <2> QED
    BY <1>9, <2>1, <2>2, SkipSongShrinks, ResetSongsShrinks, ShrinkKeepsQueue
<1> QED
  BY <1>1, <1>2, <1>3, <1>4, <1>5, <1>6, <1>7, <1>8, <1>9 DEF Worker

LEMMA OthersKeepQueue ==
    ASSUME TypeOK, QueueInv, Chat \/ Player \/ Process
    PROVE  QueueInv'
<1>1. CASE Chat
  BY <1>1, QuietKeepsQueue
  DEF Quiet, Chat, EnqueueSong, EnqueueOther, SetEnabled, PersistEnabled, work
<1>2. ASSUME NEW r \in DOMAIN requests, SiteRemove(r)
      PROVE  QueueInv'
  <2>1. ListInv
    BY DEF QueueInv, ListInv
  <2>2. UNCHANGED <<pc, song, pos>>
    BY <1>2 DEF SiteRemove, work
  <2> QED
    BY <1>2, <2>1, <2>2, SiteRemoveShrinks, ShrinkKeepsQueue
<1>3. CASE EndStateChange \/ \E r \in DOMAIN requests, b \in BOOLEAN : BeginStateChange(r, b)
  BY <1>3, QuietKeepsQueue DEF Quiet, EndStateChange, BeginStateChange, work
<1>4. CASE Process
  BY <1>4, QuietKeepsQueue DEF Quiet, Process, Destroy, Crash, Down, Restart, WorkerAfterLoad, work
<1> QED
  BY <1>1, <1>2, <1>3, <1>4 DEF Player

\* The inductive invariant: duplicates, order, and the worker's decision.
THEOREM QueueInvariant == Spec => [](TypeOK /\ QueueInv)
<1>1. Init => QueueInv
  BY DEF Init, QueueInv, NoSongQueuedTwice, PlayOrder, PositionsInv, DecisionInv, Active,
         WorkerAfterLoad
<1>2. TypeOK /\ QueueInv /\ [Next]_vars => QueueInv'
  <2>1. CASE UNCHANGED vars
    BY <2>1, QuietKeepsQueue DEF Quiet, vars, work
  <2> QED
    BY <2>1, WorkerKeepsQueue, OthersKeepQueue DEF Next
<1> QED
  BY <1>1, <1>2, TypeCorrect, PTL DEF Spec

\* No stored song waits twice in the queue, in every run: with any number of
\* users, failures, restarts and removals by the player page between the
\* worker's queries.
THEOREM SongsQueuedOnce == Spec => []NoSongQueuedTwice
<1>1. QueueInv => NoSongQueuedTwice
  BY DEF QueueInv
<1> QED
  BY <1>1, QueueInvariant, PTL

\* Requests play in the order in which they were added.
THEOREM PlayedInOrder == Spec => []PlayOrder
<1>1. QueueInv => PlayOrder
  BY DEF QueueInv
<1> QED
  BY <1>1, QueueInvariant, PTL

\* What request_song has found out when it reaches the INSERT is still true,
\* although other statements ran in between: the song is not in the queue, and
\* the position is behind all others.
THEOREM DecisionsStand == Spec => []DecisionInv
<1>1. QueueInv => DecisionInv
  BY DEF QueueInv
<1> QED
  BY <1>1, QueueInvariant, PTL

-----------------------------------------------------------------------------
(* The tables implement the abstract list. *)

\* The one way a request is added.
Grows ==
    /\ pc = "insert"
    /\ requests' = Append(requests, [song |-> song.id, user |-> cur.user,
                                     active |-> TRUE, pos |-> pos])

\* Every step adds one request or takes requests away.
LEMMA ListSteps ==
    ASSUME TypeOK, QueueInv, [Next]_vars
    PROVE  Shrinks \/ Grows
<1>1. ListInv
  BY DEF QueueInv, ListInv
<1>2. CASE UNCHANGED requests
  BY <1>1, <1>2, UnchangedShrinks
<1>3. CASE Chat \/ Process
  BY <1>2, <1>3
  DEF Chat, EnqueueSong, EnqueueOther, SetEnabled, PersistEnabled,
      Process, Destroy, Crash, Down, Restart
<1>4. CASE Player
  BY <1>1, <1>2, <1>4, SiteRemoveShrinks DEF Player, BeginStateChange, EndStateChange
<1>5. CASE Worker
  <2>1. ASSUME NEW ok \in BOOLEAN, NEW applied \in BOOLEAN, InsertRequest(ok, applied)
        PROVE  Shrinks \/ Grows
    BY <1>2, <2>1 DEF InsertRequest, Grows
  <2>2. ASSUME NEW ok \in BOOLEAN, NEW applied \in BOOLEAN,
               SkipSong(ok, applied) \/ ResetSongs(ok, applied)
        PROVE  Shrinks \/ Grows
    BY <1>1, <2>2, SkipSongShrinks, ResetSongsShrinks
  <2>3. ASSUME NEW ok \in BOOLEAN, NEW applied \in BOOLEAN, SaveSong(ok, applied)
        PROVE  UNCHANGED requests
    BY <2>3 DEF SaveSong
  <2>4. ASSUME NEW ok \in BOOLEAN,
               \/ IsUserBanned(ok) \/ IsQueueFull(ok) \/ UserLimit(ok)
               \/ LookupSong(ok) \/ FindExisting(ok) \/ NextPosition(ok)
        PROVE  UNCHANGED requests
    BY <2>4 DEF IsUserBanned, IsQueueFull, UserLimit, LookupSong, FindExisting, NextPosition
  <2>5. ASSUME NEW a \in SiteAnswers, Retrieve(a)
        PROVE  UNCHANGED requests
    BY <2>5 DEF Retrieve, Down
  <2>6. CASE \/ Dequeue \/ WaitTimeout \/ CheckEnabled
             \/ CheckRequest \/ ParseVimeoLink \/ Judge \/ Announce \/ CurrentSong
    BY <1>2, <2>6
    DEF Dequeue, WaitTimeout, CheckEnabled, CheckRequest, ParseVimeoLink, Down, Judge, Announce,
        CurrentSong
  <2> QED
    BY <1>2, <1>5, <2>1, <2>2, <2>3, <2>4, <2>5, <2>6 DEF Worker
<1>6. CASE UNCHANGED vars
  BY <1>2, <1>6 DEF vars
<1> QED
  BY <1>3, <1>4, <1>5, <1>6 DEF Next

\* The table after a request was added.
LEMMA GrowFields ==
    ASSUME TypeOK, Grows
    PROVE  /\ Len(requests') = Len(requests) + 1
           /\ DOMAIN requests' = DOMAIN requests \cup {Len(requests) + 1}
           /\ requests'[Len(requests) + 1] = [song |-> song.id, user |-> cur.user,
                                              active |-> TRUE, pos |-> pos]
           /\ \A r \in DOMAIN requests :
                 requests'[r] = requests[r] /\ r # Len(requests) + 1
  BY RequestTypes DEF Grows, TypeOK, TableTypes

\* A request never moves back in the queue and never returns to it.
THEOREM NoRequestMovesBack == Spec => NeverMovesBack
<1> DEFINE Step ==
        \A r \in DOMAIN requests :
           /\ r \in DOMAIN requests'
           /\ r \in Active' => r \in Active
           /\ r \in Active' => requests'[r].pos <= requests[r].pos
<1>1. ASSUME TypeOK, QueueInv, [Next]_vars
      PROVE  Step
  <2>1. CASE Shrinks
    BY <2>1 DEF Shrinks, Active
  <2>2. CASE Grows
    <3>1. \A r \in DOMAIN requests : r \in DOMAIN requests' /\ requests'[r] = requests[r]
      BY <1>1, <2>2, GrowFields
    <3>2. \A r \in DOMAIN requests : requests[r].pos <= requests[r].pos
      BY <1>1, RequestTypes
    <3> QED
      BY <3>1, <3>2 DEF Active
  <2> QED
    BY <1>1, <2>1, <2>2, ListSteps
<1>2. TypeOK /\ QueueInv /\ [Next]_vars => [Step]_vars
  BY <1>1
<1> QED
  BY <1>2, QueueInvariant, PTL DEF Spec, NeverMovesBack

\* Adding to the tables adds to the abstract list.
LEMMA GrowsIsAdd ==
    ASSUME TypeOK, QueueInv, Grows
    PROVE  List!Add
<1> DEFINE n == Len(requests) + 1
           new == [id |-> n, song |-> song.id, user |-> cur.user]
<1>1. Active' = Active \cup {n}
  BY GrowFields DEF Active
<1>2. Entries' = Entries \cup {new}
  BY <1>1, GrowFields DEF Entries, Active
<1>3. \A e \in Entries : e.song # new.song
  BY DEF Entries, Active, Grows, QueueInv, DecisionInv, Waiting
<1> QED
  BY <1>2, <1>3, GrowFields DEF List!Add

LEMMA ShrinksIsRemove ==
    ASSUME Shrinks
    PROVE  List!Remove
  BY DEF Shrinks, Entries, Active, List!Remove

\* Over crashes, lost replies of the database and the player page, the tables
\* change only as the list that SongQueue specifies.
THEOREM TablesImplementList == Spec => ImplementsList
<1>1. Init => List!Init
  BY DEF Init, List!Init, Entries, Active
<1>2. TypeOK /\ QueueInv /\ [Next]_vars => [List!Next]_(List!vars)
  BY ListSteps, GrowsIsAdd, ShrinksIsRemove DEF List!Next
<1> QED
  BY <1>1, <1>2, QueueInvariant, PTL DEF Spec, ImplementsList, List!Spec

-----------------------------------------------------------------------------
(* Lengths. *)

\* What fits a smallint is stored as it is.
LEMMA WrapFits ==
    ASSUME NEW n \in Nat, n <= 32767
    PROVE  Wrap16(n) = n
  BY DEF Wrap16

LEMMA SongTypes ==
    ASSUME TypeOK
    PROVE  /\ Len(songs) \in Nat /\ DOMAIN songs = 1 .. Len(songs)
           /\ \A s \in DOMAIN songs : songs[s].track \in Tracks
                                       /\ LengthOf[songs[s].track] \in Nat
<1>1. songs \in Seq(SongRow)
  BY DEF TypeOK, TableTypes
<1>2. \A s \in DOMAIN songs : songs[s] \in SongRow
  BY <1>1
<1> QED
  BY <1>1, <1>2, TracksAssumption DEF SongRow

\* Steps that keep the songs table, add no request and bring no new song.
LEMMA QuietKeepsLengths ==
    ASSUME LengthInv, UNCHANGED songs, Shrinks,
           pc' \notin HasSong \/ UNCHANGED <<pc, cur, song>>
    PROVE  LengthInv'
<1>1. TableLengths'
  BY DEF LengthInv, TableLengths, Shrinks
<1>2. WorkerLengths'
  BY DEF LengthInv, WorkerLengths, HasSong
<1> QED
  BY <1>1, <1>2 DEF LengthInv

LEMMA UnchangedIsShrinks ==
    ASSUME TypeOK, UNCHANGED requests
    PROVE  Shrinks
  BY RequestTypes DEF Shrinks

LEMMA RetrieveKeepsLengths ==
    ASSUME TypeOK, LengthInv, NEW a, Retrieve(a)
    PROVE  LengthInv'
<1>1. Shrinks /\ UNCHANGED songs
  BY UnchangedIsShrinks DEF Retrieve, Down
<1>2. CASE pc' \notin HasSong
  BY <1>1, <1>2, QuietKeepsLengths
<1>3. CASE pc' \in HasSong
  <2>1. pc' = "save_song" /\ song'.length = LengthOf[cur.track] /\ UNCHANGED cur
    BY <1>3 DEF Retrieve, Down, Finish, GoTo, HasSong
  <2>2. TableLengths'
    BY <1>1 DEF LengthInv, TableLengths, Shrinks
  <2> QED
    BY <2>1, <2>2 DEF LengthInv, WorkerLengths
<1> QED
  BY <1>2, <1>3

LEMMA SaveSongKeepsLengths ==
    ASSUME TypeOK, LengthInv, NEW ok, NEW applied, SaveSong(ok, applied)
    PROVE  LengthInv'
<1>1. UNCHANGED requests /\ pc = "save_song"
  BY DEF SaveSong
<1>2. CASE ~applied
  <2>1. UNCHANGED songs /\ pc' = "wait"
    BY <1>2 DEF SaveSong, Write, Finish
  <2> QED
    BY <1>1, <2>1, UnchangedIsShrinks, QuietKeepsLengths DEF HasSong
<1>3. CASE applied
  <2> DEFINE row == [track |-> cur.track, linked |-> FALSE,
                     length |-> Wrap16(song.length), banned |-> FALSE]
             n == Len(songs) + 1
  <2>1. songs' = Append(songs, row)
    BY <1>3 DEF SaveSong
  <2>2. /\ DOMAIN songs' = DOMAIN songs \cup {n} /\ songs'[n] = row
        /\ \A s \in DOMAIN songs : songs'[s] = songs[s]
    BY <2>1, SongTypes DEF TypeOK, TableTypes
  <2>3. song.length = LengthOf[cur.track]
    BY <1>1 DEF LengthInv, WorkerLengths
  <2>4. TableLengths'
    BY <1>1, <2>2, <2>3 DEF LengthInv, TableLengths
  <2>5. CASE ok
    <3>1. song' = [song EXCEPT !.id = n] /\ pc' = "judge" /\ song \in Song
      BY <1>1, <2>5 DEF SaveSong, GoTo, Finish, TypeOK, WorkerTypes, HasSong
    <3>2. song'.id = n /\ song'.length = song.length
      BY <3>1 DEF Song
    <3> QED
      BY <2>2, <2>3, <2>4, <3>1, <3>2 DEF LengthInv, WorkerLengths
  <2>6. CASE ~ok
    <3>1. pc' = "wait"
      BY <2>6 DEF SaveSong, Finish
    <3> QED
      BY <2>4, <3>1 DEF LengthInv, WorkerLengths, HasSong
  <2> QED
    BY <2>5, <2>6
<1> QED
  BY <1>2, <1>3

LEMMA LookupKeepsLengths ==
    ASSUME TypeOK, LengthInv, NEW ok, LookupSong(ok)
    PROVE  LengthInv'
<1>1. Shrinks /\ UNCHANGED songs
  BY UnchangedIsShrinks DEF LookupSong
<1>2. CASE pc' # "judge"
  BY <1>1, <1>2, QuietKeepsLengths DEF LookupSong, GoTo, HasSong
<1>3. CASE pc' = "judge"
  <2>1. PICK s \in Found(cur.track) :
            song' = [id |-> s, length |-> songs[s].length, banned |-> songs[s].banned]
    BY <1>3 DEF LookupSong, GoTo
  <2>2. s \in DOMAIN songs
    BY DEF Found
  <2>3. Fits(songs[s].track) => songs[s].length = LengthOf[songs[s].track]
    BY <2>2, SongTypes, WrapFits DEF LengthInv, TableLengths, Fits
  <2>4. TableLengths'
    BY <1>1 DEF LengthInv, TableLengths, Shrinks
  <2> QED
    BY <1>1, <1>3, <2>1, <2>2, <2>3, <2>4 DEF LengthInv, WorkerLengths
<1> QED
  BY <1>2, <1>3

LEMMA ChecksKeepLengths ==
    ASSUME TypeOK, LengthInv, NEW ok, Judge \/ FindExisting(ok) \/ NextPosition(ok)
    PROVE  LengthInv'
<1>1. Shrinks /\ UNCHANGED songs
  BY UnchangedIsShrinks DEF Judge, FindExisting, NextPosition
<1>2. CASE pc' = "wait"
  BY <1>1, <1>2, QuietKeepsLengths DEF HasSong
<1>3. CASE pc' # "wait"
  <2>1. UNCHANGED <<cur, song>>
    BY <1>3 DEF Judge, FindExisting, NextPosition, GoTo, Finish
  <2>2. TableLengths'
    BY <1>1 DEF LengthInv, TableLengths, Shrinks
  <2>3. CASE Judge
    <3>1. pc = "judge" /\ pc' = "find_existing" /\ song.length <= MaxSongLength
      <4>1. ~TooLong /\ pc = "judge" /\ pc' = "find_existing"
        BY <1>3, <2>3 DEF Judge, GoTo, Finish
      <4>2. song.length \in Int
        BY <4>1 DEF TypeOK, WorkerTypes, HasSong, Song
      <4> QED
        BY <4>1, <4>2, ConfigAssumption DEF TooLong
    <3> QED
      BY <1>1, <2>1, <2>2, <3>1 DEF LengthInv, WorkerLengths, HasSong
  <2>4. CASE FindExisting(ok)
    <3>1. pc = "find_existing" /\ pc' = "next_position"
      BY <1>3, <2>4 DEF FindExisting, GoTo, Finish
    <3> QED
      BY <1>1, <2>1, <2>2, <3>1 DEF LengthInv, WorkerLengths, HasSong
  <2>5. CASE NextPosition(ok)
    <3>1. pc = "next_position" /\ pc' = "insert"
      BY <1>3, <2>5 DEF NextPosition, GoTo, Finish
    <3> QED
      BY <1>1, <2>1, <2>2, <3>1 DEF LengthInv, WorkerLengths, HasSong
  <2> QED
    BY <2>3, <2>4, <2>5
<1> QED
  BY <1>2, <1>3

LEMMA InsertKeepsLengths ==
    ASSUME TypeOK, LengthInv, NEW ok, NEW applied, InsertRequest(ok, applied)
    PROVE  LengthInv'
<1>1. UNCHANGED songs /\ pc = "insert"
  BY DEF InsertRequest
<1>2. /\ song.id \in DOMAIN songs
      /\ Fits(songs[song.id].track) => LengthOf[songs[song.id].track] <= MaxSongLength
  BY <1>1 DEF LengthInv, WorkerLengths, HasSong
<1>3. TableLengths'
  <2>1. CASE applied
    <3>1. Grows
      BY <1>1, <2>1 DEF InsertRequest, Grows
    <3> QED
      <4>1. ASSUME NEW r \in DOMAIN requests'
            PROVE  \/ r \in DOMAIN requests /\ requests'[r].song = requests[r].song
                   \/ requests'[r].song = song.id
        BY <3>1, GrowFields
      <4> QED
        BY <1>1, <1>2, <4>1 DEF LengthInv, TableLengths
  <2>2. CASE ~applied
    BY <1>1, <2>2 DEF InsertRequest, LengthInv, TableLengths
  <2> QED
    BY <2>1, <2>2
<1>4. WorkerLengths'
  <2>1. pc' = "wait" \/ (pc' = "announce" /\ UNCHANGED song)
    BY DEF InsertRequest, GoTo, Finish
  <2> QED
    BY <1>1, <2>1 DEF LengthInv, WorkerLengths, HasSong
<1> QED
  BY <1>3, <1>4 DEF LengthInv

LEMMA NextKeepsLengths ==
    ASSUME TypeOK, QueueInv, LengthInv, [Next]_vars
    PROVE  LengthInv'
<1>1. ListInv
  BY DEF QueueInv, ListInv
<1>2. CASE Chat
  BY <1>2, UnchangedIsShrinks, QuietKeepsLengths
  DEF Chat, EnqueueSong, EnqueueOther, SetEnabled, PersistEnabled, work
<1>3. CASE Player
  BY <1>1, <1>3, UnchangedIsShrinks, SiteRemoveShrinks, QuietKeepsLengths
  DEF Player, BeginStateChange, EndStateChange, SiteRemove, work
<1>4. CASE Process
  BY <1>4, UnchangedIsShrinks, QuietKeepsLengths
  DEF Process, Destroy, Crash, Down, Restart, WorkerAfterLoad, work, HasSong
<1>5. CASE Worker
  <2>1. CASE Dequeue
    BY <2>1, DequeueStates, UnchangedIsShrinks, QuietKeepsLengths DEF Dequeue, HasSong
  <2>2. CASE \/ WaitTimeout \/ CheckEnabled \/ CheckRequest \/ ParseVimeoLink
             \/ Announce \/ CurrentSong
    BY <2>2, UnchangedIsShrinks, QuietKeepsLengths
    DEF WaitTimeout, CheckEnabled, CheckRequest, ParseVimeoLink, Down, Announce, CurrentSong,
        Finish, GoTo, HasSong
  <2>3. ASSUME NEW ok \in BOOLEAN, IsUserBanned(ok) \/ IsQueueFull(ok) \/ UserLimit(ok)
        PROVE  LengthInv'
    BY <2>3, UnchangedIsShrinks, QuietKeepsLengths
    DEF IsUserBanned, IsQueueFull, UserLimit, Finish, GoTo, HasSong
  <2>4. ASSUME NEW ok \in BOOLEAN, NEW applied \in BOOLEAN,
               SkipSong(ok, applied) \/ ResetSongs(ok, applied)
        PROVE  LengthInv'
    BY <1>1, <2>4, SkipSongShrinks, ResetSongsShrinks, QuietKeepsLengths
    DEF SkipSong, ResetSongs, Finish, HasSong
  <2> QED
    BY <1>5, <2>1, <2>2, <2>3, <2>4, RetrieveKeepsLengths, SaveSongKeepsLengths,
       LookupKeepsLengths, ChecksKeepLengths, InsertKeepsLengths
    DEF Worker
<1>6. CASE UNCHANGED vars
  BY <1>6, UnchangedIsShrinks, QuietKeepsLengths DEF vars, work
<1> QED
  BY <1>2, <1>3, <1>4, <1>5, <1>6 DEF Next

LEMMA InitialLengths == Init => LengthInv
<1> SUFFICES ASSUME Init PROVE LengthInv
  OBVIOUS
<1>1. songs = InitialSongs /\ requests = <<>> /\ pc \notin HasSong
  BY DEF Init, WorkerAfterLoad, HasSong
<1> QED
  BY <1>1, SongsAssumption DEF LengthInv, TableLengths, WorkerLengths, HasSong

\* No waiting request is for a track that is too long, provided its length
\* survives the 16-bit column of the songs table.
THEOREM LengthsGuarded == Spec => []LengthGuard
<1>1. Init => LengthInv
  BY InitialLengths
<1>2. TypeOK /\ QueueInv /\ LengthInv /\ [Next]_vars => LengthInv'
  BY NextKeepsLengths
<1>3. LengthInv => LengthGuard
  BY DEF LengthInv, TableLengths, LengthGuard, Active
<1> QED
  BY <1>1, <1>2, <1>3, QueueInvariant, PTL DEF Spec

-----------------------------------------------------------------------------
(* What gets in as long as no query fails. *)

Admitting == HasSong \cup {"is_queue_full", "user_limit", "lookup", "retrieve"}

LEMMA NoFailure ==
    ASSUME TypeOK, NEW ok, Query(ok), failures' = 0
    PROVE  failures = 0 /\ ok
  BY DEF Query, TypeOK, SharedTypes

\* Steps that keep the songs table, add no request and learn nothing.
LEMMA QuietKeepsAdmission ==
    ASSUME LengthInv, UNCHANGED songs, Shrinks,
           failures' = 0 => failures = 0,
           pc' \notin Admitting \/ UNCHANGED <<pc, cur, song>>
    PROVE  (StoredInv => StoredInv') /\ (BansInv => BansInv')
<1>1. ASSUME StoredInv PROVE StoredInv'
  BY <1>1 DEF StoredInv, StoredOnce, Admitting, HasSong
<1>2. ASSUME BansInv PROVE BansInv'
  <2> SUFFICES ASSUME failures' = 0 PROVE BansInv'
    BY DEF BansInv
  <2>1. \A r \in DOMAIN requests' :
           requests'[r].user \notin SrBanned /\ ~songs'[requests'[r].song].banned
    BY <1>2 DEF BansInv, Shrinks
  <2>2. BansFound(songs)'
    BY <1>2 DEF BansInv, BansFound
  <2> QED
    BY <1>2, <2>1, <2>2 DEF BansInv, Admitting, HasSong
<1> QED
  BY <1>1, <1>2

\* The tests on the user and on the queue.
LEMMA UserChecksKeepAdmission ==
    ASSUME TypeOK, LengthInv, NEW ok,
           IsUserBanned(ok) \/ IsQueueFull(ok) \/ UserLimit(ok)
    PROVE  (StoredInv => StoredInv') /\ (BansInv => BansInv')
<1>1. Shrinks /\ UNCHANGED songs /\ Query(ok)
  BY UnchangedIsShrinks DEF IsUserBanned, IsQueueFull, UserLimit
<1>2. failures' = 0 => failures = 0 /\ ok
  BY <1>1, NoFailure
<1>3. CASE pc' = "wait"
  BY <1>1, <1>2, <1>3, QuietKeepsAdmission DEF Admitting, HasSong
<1>4. CASE pc' # "wait"
  <2>1. UNCHANGED cur /\ pc' \in {"is_queue_full", "user_limit", "lookup"}
    BY <1>4 DEF IsUserBanned, IsQueueFull, UserLimit, GoTo, Finish
  <2>2. ASSUME StoredInv PROVE StoredInv'
    BY <1>1, <1>2, <2>1, <2>2 DEF StoredInv, StoredOnce
  <2>3. ASSUME BansInv PROVE BansInv'
    <3>1. failures' = 0 => cur.user \notin SrBanned
      BY <1>2, <1>4, <2>3 DEF IsUserBanned, IsQueueFull, UserLimit, Finish, BansInv
    <3>2. failures' = 0 => \A r \in DOMAIN requests' :
             requests'[r].user \notin SrBanned /\ ~songs'[requests'[r].song].banned
      BY <1>1, <1>2, <2>3 DEF BansInv, Shrinks
    <3>3. failures' = 0 => BansFound(songs)'
      BY <1>1, <1>2, <2>3 DEF BansInv, BansFound
    <3> QED
      BY <2>1, <3>1, <3>2, <3>3 DEF BansInv, HasSong
  <2> QED
    BY <2>2, <2>3
<1> QED
  BY <1>3, <1>4

\* What the look-up does not find is not there, or not banned.
LEMMA LookupKeepsAdmission ==
    ASSUME TypeOK, LengthInv, NEW ok, LookupSong(ok)
    PROVE  (StoredInv => StoredInv') /\ (BansInv => BansInv')
<1>1. UNCHANGED <<songs, requests, cur>> /\ Query(ok) /\ pc = "lookup"
  BY DEF LookupSong, GoTo
<1>2. failures' = 0 => failures = 0 /\ ok
  BY <1>1, NoFailure
<1>3. ok => pc' \in {"retrieve", "judge"}
  BY DEF LookupSong, GoTo
<1>4. ok /\ pc' = "retrieve" => Found(cur.track) = {}
  BY DEF LookupSong, GoTo
<1>5. ASSUME StoredInv, failures' = 0 PROVE StoredInv'
  <2>1. StoredOnce(songs)'
    BY <1>1, <1>2, <1>5 DEF StoredInv, StoredOnce
  <2>2. CASE pc' = "retrieve"
    <3>1. SourceOf[cur.track] = "youtube" => \A s \in DOMAIN songs : songs[s].track # cur.track
      BY <1>2, <1>4, <1>5, <2>2 DEF Found
    <3> QED
      BY <1>1, <2>1, <3>1 DEF StoredInv
  <2> QED
    BY <1>2, <1>3, <1>5, <2>1, <2>2 DEF StoredInv
<1>6. ASSUME BansInv, failures' = 0 PROVE BansInv'
  <2>1. cur.user \notin SrBanned /\ BansFound(songs)
    BY <1>1, <1>2, <1>6 DEF BansInv
  <2>2. BansFound(songs)'
    BY <1>1, <2>1 DEF BansFound
  <2>3. \A r \in DOMAIN requests' :
           requests'[r].user \notin SrBanned /\ ~songs'[requests'[r].song].banned
    BY <1>1, <1>2, <1>6 DEF BansInv
  <2>4. CASE pc' = "retrieve"
    <3>1. \A s \in DOMAIN songs : songs[s].banned => songs[s].track # cur.track
      BY <1>2, <1>4, <1>6, <2>1, <2>4 DEF Found, BansFound
    <3> QED
      BY <1>1, <2>1, <2>2, <2>3, <2>4, <3>1 DEF BansInv, HasSong
  <2>5. CASE pc' = "judge"
    <3>1. PICK s \in Found(cur.track) :
              song' = [id |-> s, length |-> songs[s].length, banned |-> songs[s].banned]
      BY <1>2, <1>6, <2>5 DEF LookupSong, GoTo
    <3>2. song'.banned = songs[song'.id].banned
      BY <3>1
    <3> QED
      BY <1>1, <2>1, <2>2, <2>3, <2>5, <3>2 DEF BansInv, HasSong
  <2> QED
    BY <1>2, <1>3, <1>6, <2>4, <2>5
<1> QED
  BY <1>5, <1>6 DEF StoredInv, BansInv

LEMMA RetrieveKeepsAdmission ==
    ASSUME TypeOK, LengthInv, NEW a, Retrieve(a)
    PROVE  (StoredInv => StoredInv') /\ (BansInv => BansInv')
<1>1. Shrinks /\ UNCHANGED <<songs, requests, failures>> /\ pc = "retrieve"
  BY UnchangedIsShrinks DEF Retrieve, Down
<1>2. CASE pc' \notin Admitting
  BY <1>1, <1>2, QuietKeepsAdmission
<1>3. CASE pc' \in Admitting
  <2>1. pc' = "save_song" /\ UNCHANGED cur /\ song'.banned = FALSE
    BY <1>3 DEF Retrieve, Down, Finish, GoTo, Admitting, HasSong
  <2>2. ASSUME StoredInv PROVE StoredInv'
    BY <1>1, <2>1, <2>2 DEF StoredInv, StoredOnce
  <2>3. ASSUME BansInv PROVE BansInv'
    BY <1>1, <2>1, <2>3 DEF BansInv, BansFound, HasSong
  <2> QED
    BY <2>2, <2>3
<1> QED
  BY <1>2, <1>3

\* The only row of its track, and not banned.
LEMMA SaveSongKeepsAdmission ==
    ASSUME TypeOK, LengthInv, NEW ok, NEW applied, SaveSong(ok, applied)
    PROVE  (StoredInv => StoredInv') /\ (BansInv => BansInv')
<1>1. UNCHANGED requests /\ pc = "save_song" /\ Query(ok) /\ (ok => applied)
  BY DEF SaveSong, Write
<1>2. failures' = 0 => failures = 0 /\ ok
  BY <1>1, NoFailure
<1> SUFFICES ASSUME failures' = 0
             PROVE  (StoredInv => StoredInv') /\ (BansInv => BansInv')
  BY DEF StoredInv, BansInv
<1> DEFINE row == [track |-> cur.track, linked |-> FALSE,
                   length |-> Wrap16(song.length), banned |-> FALSE]
           n == Len(songs) + 1
<1>3. songs' = Append(songs, row) /\ UNCHANGED cur /\ pc' = "judge" /\ song \in Song
      /\ song' = [song EXCEPT !.id = n]
  BY <1>1, <1>2 DEF SaveSong, GoTo, TypeOK, WorkerTypes, HasSong
<1>4. /\ DOMAIN songs' = DOMAIN songs \cup {n} /\ n \notin DOMAIN songs
      /\ songs'[n].track = cur.track /\ songs'[n].banned = FALSE
      /\ \A s \in DOMAIN songs : songs'[s] = songs[s]
  BY <1>3, SongTypes DEF TypeOK, TableTypes
<1>5. song'.id = n /\ song'.banned = song.banned
  BY <1>3 DEF Song
<1>6. ASSUME StoredInv PROVE StoredInv'
  <2>1. StoredOnce(songs)'
    BY <1>1, <1>2, <1>4, <1>6 DEF StoredInv, StoredOnce
  <2> QED
    BY <1>3, <2>1 DEF StoredInv
<1>7. ASSUME BansInv PROVE BansInv'
  <2>1. BansFound(songs)'
    BY <1>1, <1>2, <1>4, <1>7 DEF BansInv, BansFound
  <2>2. song.banned = FALSE
    BY <1>1, <1>2, <1>3, <1>7 DEF BansInv, Song
  <2>3. \A r \in DOMAIN requests' :
           requests'[r].user \notin SrBanned /\ ~songs'[requests'[r].song].banned
    BY <1>1, <1>2, <1>4, <1>7 DEF BansInv, LengthInv, TableLengths
  <2> QED
    BY <1>1, <1>2, <1>3, <1>4, <1>5, <1>7, <2>1, <2>2, <2>3 DEF BansInv, HasSong
<1> QED
  BY <1>6, <1>7

\* The tests on the song.
LEMMA ChecksKeepAdmission ==
    ASSUME TypeOK, LengthInv, NEW ok,
           Judge \/ FindExisting(ok) \/ NextPosition(ok)
    PROVE  (StoredInv => StoredInv') /\ (BansInv => BansInv')
<1>1. Shrinks /\ UNCHANGED <<songs, requests>>
  BY UnchangedIsShrinks DEF Judge, FindExisting, NextPosition
<1>2. failures' = 0 => failures = 0
  BY NoFailure DEF Judge, FindExisting, NextPosition
<1>3. CASE pc' = "wait"
  BY <1>1, <1>2, <1>3, QuietKeepsAdmission DEF Admitting, HasSong
<1>4. CASE pc' # "wait"
  <2>1. /\ UNCHANGED <<cur, song>> /\ pc' \in {"find_existing", "next_position", "insert"}
        /\ pc \in HasSong \ {"save_song"}
        /\ pc = "judge" \/ pc \in {"find_existing", "next_position", "insert"}
    BY <1>4 DEF Judge, FindExisting, NextPosition, GoTo, Finish, HasSong
  <2>2. pc = "judge" => ~song.banned
    BY <1>4 DEF Judge, FindExisting, NextPosition, Finish
  <2>3. ASSUME StoredInv PROVE StoredInv'
    BY <1>1, <1>2, <2>1, <2>3 DEF StoredInv, StoredOnce
  <2>4. ASSUME BansInv PROVE BansInv'
    <3>1. failures' = 0 => /\ ~song.banned /\ song.banned = songs[song.id].banned
                           /\ cur.user \notin SrBanned
      BY <1>2, <2>1, <2>2, <2>4 DEF BansInv
    <3>2. failures' = 0 => BansFound(songs)'
      BY <1>1, <1>2, <2>4 DEF BansInv, BansFound
    <3> QED
      BY <1>1, <1>2, <2>1, <2>4, <3>1, <3>2 DEF BansInv
  <2> QED
    BY <2>3, <2>4
<1> QED
  BY <1>3, <1>4

LEMMA InsertKeepsAdmission ==
    ASSUME TypeOK, LengthInv, NEW ok, NEW applied,
           InsertRequest(ok, applied)
    PROVE  (StoredInv => StoredInv') /\ (BansInv => BansInv')
<1>1. UNCHANGED songs /\ pc = "insert" /\ Query(ok) /\ (ok => applied)
  BY DEF InsertRequest, Write
<1>2. failures' = 0 => failures = 0 /\ ok
  BY <1>1, NoFailure
<1> SUFFICES ASSUME failures' = 0
             PROVE  (StoredInv => StoredInv') /\ (BansInv => BansInv')
  BY DEF StoredInv, BansInv
<1>3. Grows /\ pc' = "announce" /\ UNCHANGED <<cur, song>>
  BY <1>1, <1>2 DEF InsertRequest, Grows, GoTo
<1>4. ASSUME StoredInv PROVE StoredInv'
  BY <1>1, <1>2, <1>3, <1>4 DEF StoredInv, StoredOnce
<1>5. ASSUME BansInv PROVE BansInv'
  <2>1. ~song.banned /\ cur.user \notin SrBanned /\ song.banned = songs[song.id].banned
    BY <1>1, <1>2, <1>5 DEF BansInv, HasSong
  <2>2. BansFound(songs)'
    BY <1>1, <1>2, <1>5 DEF BansInv, BansFound
  <2>3. ASSUME NEW r \in DOMAIN requests'
        PROVE  requests'[r].user \notin SrBanned /\ ~songs'[requests'[r].song].banned
    <3>1. CASE r \in DOMAIN requests
      <4>1. requests'[r] = requests[r]
        BY <1>3, <3>1, GrowFields
      <4> QED
        BY <1>1, <1>2, <1>5, <3>1, <4>1 DEF BansInv
    <3>2. CASE r = Len(requests) + 1
      <4>1. requests'[r] = [song |-> song.id, user |-> cur.user, active |-> TRUE, pos |-> pos]
        BY <1>3, <3>2, GrowFields
      <4>2. requests'[r].song = song.id /\ requests'[r].user = cur.user
        BY <4>1
      <4> QED
        BY <1>1, <2>1, <4>2
    <3> QED
      BY <1>3, <2>3, <3>1, <3>2, GrowFields
  <2> QED
    BY <1>1, <1>3, <2>1, <2>2, <2>3 DEF BansInv
<1> QED
  BY <1>4, <1>5

LEMMA NextKeepsAdmission ==
    ASSUME TypeOK, QueueInv, LengthInv, [Next]_vars
    PROVE  (StoredInv => StoredInv') /\ (BansInv => BansInv')
<1>1. ListInv
  BY DEF QueueInv, ListInv
<1>2. CASE Chat
  <2>1. UNCHANGED <<songs, requests, pc, cur, song>>
    BY <1>2 DEF Chat, EnqueueSong, EnqueueOther, SetEnabled, PersistEnabled
  <2>2. failures' = 0 => failures = 0
    BY <1>2, NoFailure DEF Chat, EnqueueSong, EnqueueOther, SetEnabled, PersistEnabled, Write
  <2> QED
    BY <2>1, <2>2, UnchangedIsShrinks, QuietKeepsAdmission
<1>3. CASE Player
  <2>1. UNCHANGED <<songs, pc, cur, song, failures>>
    BY <1>3 DEF Player, BeginStateChange, EndStateChange, SiteRemove
  <2>2. Shrinks
    BY <1>1, <1>3, UnchangedIsShrinks, SiteRemoveShrinks
    DEF Player, BeginStateChange, EndStateChange
  <2> QED
    BY <2>1, <2>2, QuietKeepsAdmission
<1>4. CASE Process
  <2>1. UNCHANGED <<songs, requests>> /\ (pc' \notin Admitting \/ UNCHANGED <<pc, cur, song>>)
    BY <1>4 DEF Process, Destroy, Crash, Down, Restart, WorkerAfterLoad, Admitting, HasSong
  <2>2. failures' = 0 => failures = 0
    BY <1>4 DEF Process, Destroy, Crash, Restart, TypeOK, SharedTypes
  <2> QED
    BY <2>1, <2>2, UnchangedIsShrinks, QuietKeepsAdmission
<1>5. CASE Worker
  <2>1. CASE Dequeue
    BY <2>1, DequeueStates, UnchangedIsShrinks, QuietKeepsAdmission DEF Dequeue, Admitting, HasSong
  <2>2. CASE WaitTimeout \/ CheckEnabled \/ ParseVimeoLink \/ Announce \/ CurrentSong
    BY <2>2, UnchangedIsShrinks, QuietKeepsAdmission
    DEF WaitTimeout, CheckEnabled, ParseVimeoLink, Down, Announce, CurrentSong, Finish, GoTo,
        Admitting, HasSong
  <2>3. CASE CheckRequest
    <3>1. pc' \in {"wait", "is_user_banned"} /\ UNCHANGED <<songs, requests, failures>>
      BY <2>3 DEF CheckRequest, Finish, GoTo
    <3> QED
      BY <3>1, UnchangedIsShrinks, QuietKeepsAdmission DEF Admitting, HasSong
  <2>4. ASSUME NEW ok \in BOOLEAN, NEW applied \in BOOLEAN,
               SkipSong(ok, applied) \/ ResetSongs(ok, applied)
        PROVE  (StoredInv => StoredInv') /\ (BansInv => BansInv')
    <3>1. pc' = "wait" /\ UNCHANGED songs /\ Query(ok)
      BY <2>4 DEF SkipSong, ResetSongs, Finish, Write
    <3>2. Shrinks
      BY <1>1, <2>4, SkipSongShrinks, ResetSongsShrinks
    <3> QED
      BY <3>1, <3>2, NoFailure, QuietKeepsAdmission DEF Admitting, HasSong
  <2> QED
    BY <1>5, <2>1, <2>2, <2>3, <2>4, UserChecksKeepAdmission, LookupKeepsAdmission,
       RetrieveKeepsAdmission, SaveSongKeepsAdmission, ChecksKeepAdmission, InsertKeepsAdmission
    DEF Worker
<1>6. CASE UNCHANGED vars
  BY <1>6, UnchangedIsShrinks, QuietKeepsAdmission DEF vars
<1> QED
  BY <1>2, <1>3, <1>4, <1>5, <1>6 DEF Next

\* As long as no query fails, a track of youtube waits at most once, from a
\* table in which it is stored once.
THEOREM TracksQueuedOnce ==
    ASSUME StoredOnce(InitialSongs)
    PROVE  Spec => []NoTrackQueuedTwice
<1>1. Init => LengthInv /\ StoredInv
  <2> SUFFICES ASSUME Init PROVE StoredInv
    BY InitialLengths
  <2>1. songs = InitialSongs /\ pc \notin {"retrieve", "save_song"}
    BY DEF Init, WorkerAfterLoad
  <2> QED
    BY <2>1 DEF StoredInv
<1>2. TypeOK /\ QueueInv /\ LengthInv /\ StoredInv /\ [Next]_vars => LengthInv' /\ StoredInv'
  BY NextKeepsLengths, NextKeepsAdmission
<1>3. QueueInv /\ LengthInv /\ StoredInv => NoTrackQueuedTwice
  <2> SUFFICES ASSUME QueueInv, LengthInv, StoredInv, failures = 0,
                      NEW r \in Active, NEW s \in Active,
                      SourceOf[songs[requests[r].song].track] = "youtube",
                      songs[requests[s].song].track = songs[requests[r].song].track
               PROVE  r = s
    BY DEF NoTrackQueuedTwice
  <2>1. requests[r].song \in DOMAIN songs /\ requests[s].song \in DOMAIN songs
    BY DEF LengthInv, TableLengths, Active
  <2>2. requests[r].song = requests[s].song
    BY <2>1 DEF StoredInv, StoredOnce
  <2> QED
    BY <2>2 DEF QueueInv, NoSongQueuedTwice
<1> QED
  BY <1>1, <1>2, <1>3, QueueInvariant, PTL DEF Spec

\* As long as no query fails, nothing of a banned user and no banned track gets
\* into the queue, from a table whose bans get_song finds.
THEOREM BannedKeptOut ==
    ASSUME BansFound(InitialSongs)
    PROVE  Spec => []BannedStayOut
<1>1. Init => LengthInv /\ BansInv
  <2> SUFFICES ASSUME Init PROVE BansInv
    BY InitialLengths
  <2>1. songs = InitialSongs /\ requests = <<>> /\ pc \notin Admitting
    BY DEF Init, WorkerAfterLoad, Admitting, HasSong
  <2> QED
    BY <2>1 DEF BansInv, Admitting, HasSong
<1>2. TypeOK /\ QueueInv /\ LengthInv /\ BansInv /\ [Next]_vars => LengthInv' /\ BansInv'
  BY NextKeepsLengths, NextKeepsAdmission
<1>3. LengthInv /\ BansInv => BannedStayOut
  <2> SUFFICES ASSUME LengthInv, BansInv, failures = 0, NEW r \in Active
               PROVE  /\ requests[r].user \notin SrBanned
                      /\ \A s \in DOMAIN songs :
                            songs[s].banned => songs[s].track # songs[requests[r].song].track
    BY DEF BannedStayOut
  <2>1. r \in DOMAIN requests /\ requests[r].song \in DOMAIN songs
    BY DEF LengthInv, TableLengths, Active
  <2> QED
    BY <2>1 DEF BansInv, BansFound
<1> QED
  BY <1>1, <1>2, <1>3, QueueInvariant, PTL DEF Spec

-----------------------------------------------------------------------------
(* Lemmas about the positions in the table. *)

\* What it means that the positions are 1 .. n.
LEMMA PositionsRead ==
    ASSUME TypeOK, NEW n \in Nat, ContiguousUpTo(n)
    PROVE  /\ \A r \in Active : requests[r].pos \in 1 .. n
           /\ \A m \in 1 .. n : \E r \in Active : requests[r].pos = m
  BY DEF ContiguousUpTo

\* Positions that are distinct and without a gap count the requests.
LEMMA PositionsCount ==
    ASSUME TypeOK, PlayOrder, NEW n \in Nat, ContiguousUpTo(n)
    PROVE  Cardinality(Active) = n
<1> DEFINE at == [m \in 1 .. n |-> CHOOSE r \in Active : requests[r].pos = m]
<1>1. \A m \in 1 .. n : at[m] \in Active /\ requests[at[m]].pos = m
  BY PositionsRead
<1>2. \A r, s \in Active : requests[r].pos = requests[s].pos => r = s
  BY RequestTypes DEF PlayOrder, Active
<1>3. at \in [1 .. n -> Active]
  BY <1>1
<1>4. IsInjective(at)
  BY <1>1 DEF IsInjective
<1>5. \A r \in Active : requests[r].pos \in 1 .. n /\ at[requests[r].pos] = r
  BY <1>1, <1>2, PositionsRead
<1>6. \A r \in Active : \E m \in 1 .. n : at[m] = r
  BY <1>5
<1>7. at \in Bijection(1 .. n, Active)
  BY <1>3, <1>4, <1>6 DEF Bijection, Injection, Surjection
<1>8. ExistsBijection(1 .. n, Active)
  BY <1>7 DEF ExistsBijection
<1> QED
  BY <1>8, FS_CountingElements

\* skip_song closes the gap it makes.
LEMMA SkipKeepsContiguous ==
    ASSUME TypeOK, ListInv, NEW n \in Nat, ContiguousUpTo(n),
           NEW r, requests' = SkipInList(r)
    PROVE  \E m \in Nat : ContiguousUpTo(m)'
<1>1. DOMAIN requests' = DOMAIN requests
  BY DEF SkipInList
<1>2. \A i \in DOMAIN requests :
         /\ i = r => requests'[i].active = FALSE
         /\ i # r => requests'[i].active = requests[i].active
         /\ i # r => requests'[i].pos =
               IF r \in DOMAIN requests /\ requests[r].pos # 0
                     /\ requests[i].pos > requests[r].pos
               THEN requests[i].pos - 1 ELSE requests[i].pos
  BY SkipFields
<1>3. CASE r \notin Active
  <2>1. \A i \in DOMAIN requests : i # r => requests'[i].pos = requests[i].pos
    BY <1>2, <1>3 DEF ListInv, PositionsInv, Active
  <2>2. Active' = Active /\ r \notin Active
    BY <1>1, <1>2, <1>3 DEF Active
  <2>3. \A i \in Active : requests'[i].pos = requests[i].pos
    BY <2>1, <2>2 DEF Active
  <2> QED
    BY <2>2, <2>3 DEF ContiguousUpTo
<1>4. CASE r \in Active
  <2> DEFINE k == requests[r].pos
  <2>1. k \in 1 .. n /\ n - 1 \in Nat
    BY <1>4, PositionsRead
  <2>2. Active' = Active \ {r}
    BY <1>1, <1>2, <1>4 DEF Active
  <2>3. \A i \in Active' :
           /\ i \in Active /\ requests[i].pos \in 1 .. n /\ requests[i].pos # k
           /\ requests'[i].pos = IF requests[i].pos > k THEN requests[i].pos - 1
                                 ELSE requests[i].pos
    <3> TAKE i \in Active'
    <3>1. i \in Active /\ i # r
      BY <2>2
    <3>2. requests[i].pos \in 1 .. n
      BY <3>1, PositionsRead
    <3>3. requests[i].pos # k
      BY <1>4, <3>1, RequestTypes DEF ListInv, PlayOrder, Active
    <3>4. r \in DOMAIN requests /\ i \in DOMAIN requests /\ k # 0
      BY <1>4, <2>1, <3>1 DEF Active
    <3> QED
      BY <1>2, <3>1, <3>2, <3>3, <3>4
  <2>4. \A i \in Active' : requests'[i].pos \in 1 .. n - 1
    BY <2>1, <2>3
  <2>5. ASSUME NEW m \in 1 .. n - 1
        PROVE  \E i \in Active' : requests'[i].pos = m
    <3>1. CASE m < k
      <4>1. m \in 1 .. n
        BY <2>1
      <4>2. PICK i \in Active : requests[i].pos = m
        BY <4>1, PositionsRead
      <4>3. i \in Active'
        BY <2>2, <3>1, <4>2
      <4> QED
        BY <2>1, <2>3, <3>1, <4>2, <4>3
    <3>2. CASE m >= k
      <4>1. m + 1 \in 1 .. n
        BY <2>1
      <4>2. PICK i \in Active : requests[i].pos = m + 1
        BY <4>1, PositionsRead
      <4>3. i \in Active'
        BY <2>1, <2>2, <3>2, <4>2
      <4> QED
        BY <2>1, <2>3, <3>2, <4>2, <4>3
    <3> QED
      BY <2>1, <3>1, <3>2
  <2>6. ContiguousUpTo(n - 1)'
    BY <2>4, <2>5 DEF ContiguousUpTo
  <2> QED
    BY <2>1, <2>6
<1> QED
  BY <1>3, <1>4

-----------------------------------------------------------------------------
(* The invariant, action by action. *)

\* The tuples of variables that UNCHANGED names.
USE DEF queue, work, switch, player, tables, limits

\* Steps that leave the list alone and do not reach the INSERT.
LEMMA QuietKeepsGap ==
    ASSUME GapInv, UNCHANGED <<requests, touched>>,
           pc' # "insert" \/ UNCHANGED <<pc, pos>>
    PROVE  GapInv'
<1>1. Active' = Active
  BY DEF Active
<1> QED
  BY <1>1 DEF GapInv, ContiguousUpTo

\* The worker removes requests only where it has none to add.
LEMMA RemovalKeepsGap ==
    ASSUME TypeOK, QueueInv, GapInv, NEW ok, NEW applied,
           SkipSong(ok, applied) \/ ResetSongs(ok, applied)
    PROVE  GapInv'
<1>1. pc' # "insert" /\ UNCHANGED touched
  BY DEF SkipSong, ResetSongs, Finish, Write, Query
<1>2. CASE UNCHANGED requests
  BY <1>1, <1>2, QuietKeepsGap
<1>3. ASSUME NEW r, requests' = SkipInList(r), ~touched
      PROVE  GapInv'
  <2>1. PICK n \in Nat : ContiguousUpTo(n)
    BY <1>3 DEF GapInv
  <2>2. ListInv
    BY DEF QueueInv, ListInv
  <2>3. \E m \in Nat : ContiguousUpTo(m)'
    BY <1>3, <2>1, <2>2, SkipKeepsContiguous
  <2> QED
    BY <1>1, <2>3 DEF GapInv
<1>4. CASE requests' = [r \in DOMAIN requests |-> Left(requests[r])]
  <2>1. \A r \in DOMAIN requests : requests'[r].active = FALSE
    BY <1>4, RequestTypes, LeftFields
  <2>2. Active' = {}
    BY <1>4, <2>1 DEF Active
  <2>3. ContiguousUpTo(0)'
    BY <2>2 DEF ContiguousUpTo
  <2> QED
    BY <1>1, <2>3 DEF GapInv
<1>5. CASE touched
  BY <1>1, <1>5 DEF GapInv
<1> QED
  BY <1>2, <1>3, <1>4, <1>5 DEF SkipSong, ResetSongs

LEMMA NextPositionKeepsGap ==
    ASSUME TypeOK, GapInv, NEW ok, NextPosition(ok)
    PROVE  GapInv'
<1>1. UNCHANGED <<requests, touched>>
  BY DEF NextPosition, Query
<1>2. CASE pc' # "insert"
  BY <1>1, <1>2, QuietKeepsGap
<1>3. CASE pc' = "insert" /\ ~touched
  <2>1. PICK p \in 1 .. Len(requests) + 1 : BehindAll(p) /\ pos' = p
    BY <1>3 DEF NextPosition, Finish
  <2>2. PICK n \in Nat : ContiguousUpTo(n)
    BY <1>3 DEF GapInv
  <2>3. p \in Nat /\ p # 0
    BY <2>1, RequestTypes
  <2>4. n < p
    <3>1. CASE n = 0
      BY <2>3, <3>1
    <3>2. CASE n # 0
      <4>1. PICK r \in Active : requests[r].pos = n
        BY <2>2, <3>2, PositionsRead
      <4> QED
        BY <2>1, <4>1 DEF BehindAll
    <3> QED
      BY <3>1, <3>2
  <2>5. p = 1 \/ p - 1 \in 1 .. n
    BY <2>1, <2>2, PositionsRead DEF BehindAll
  <2>6. pos' = n + 1
    BY <2>1, <2>3, <2>4, <2>5
  <2>7. Active' = Active
    BY <1>1 DEF Active
  <2>8. ContiguousUpTo(n)'
    BY <1>1, <2>2, <2>7 DEF ContiguousUpTo
  <2> QED
    BY <2>6, <2>8 DEF GapInv
<1>4. CASE touched
  BY <1>1, <1>4 DEF GapInv
<1> QED
  BY <1>2, <1>3, <1>4

LEMMA InsertKeepsGap ==
    ASSUME TypeOK, GapInv, NEW ok, NEW applied, InsertRequest(ok, applied)
    PROVE  GapInv'
<1>1. pc' # "insert" /\ UNCHANGED touched
  BY DEF InsertRequest, Write, Query, GoTo, Finish
<1>2. CASE ~applied
  BY <1>1, <1>2, QuietKeepsGap DEF InsertRequest
<1>3. CASE touched
  BY <1>1, <1>3 DEF GapInv
<1>4. CASE applied /\ ~touched
  <2> DEFINE new == Len(requests) + 1
  <2>1. PICK n \in Nat : ContiguousUpTo(n) /\ pos = n + 1
    BY <1>4 DEF GapInv, InsertRequest
  <2>2. Grows
    BY <1>4 DEF InsertRequest, Grows
  <2>3. /\ requests'[new].pos = pos /\ requests'[new].active
        /\ \A r \in DOMAIN requests : requests'[r] = requests[r]
        /\ DOMAIN requests' = DOMAIN requests \cup {new}
    BY <2>2, GrowFields
  <2>4. Active' = Active \cup {new}
    BY <2>3 DEF Active
  <2>5. \A r \in Active' : requests'[r].pos \in 1 .. n + 1
    BY <2>1, <2>3, <2>4, PositionsRead DEF Active
  <2>6. ASSUME NEW m \in 1 .. n + 1
        PROVE  \E r \in Active' : requests'[r].pos = m
    <3>1. CASE m = n + 1
      BY <2>1, <2>3, <2>4, <3>1
    <3>2. CASE m # n + 1
      <4>1. m \in 1 .. n
        BY <3>2
      <4>2. PICK r \in Active : requests[r].pos = m
        BY <2>1, <4>1, PositionsRead
      <4> QED
        BY <2>3, <2>4, <4>2 DEF Active
    <3> QED
      BY <3>1, <3>2
  <2>7. ContiguousUpTo(n + 1)'
    BY <2>5, <2>6 DEF ContiguousUpTo
  <2> QED
    BY <1>1, <2>7 DEF GapInv
<1> QED
  BY <1>2, <1>3, <1>4

LEMMA WorkerKeepsGap ==
    ASSUME TypeOK, QueueInv, GapInv, Worker
    PROVE  GapInv'
<1>1. CASE Dequeue
  BY <1>1, DequeueStates, QuietKeepsGap DEF Dequeue
<1>2. CASE \/ WaitTimeout \/ CheckEnabled \/ CheckRequest \/ ParseVimeoLink
           \/ Judge \/ Announce \/ CurrentSong
  BY <1>2, QuietKeepsGap
  DEF WaitTimeout, CheckEnabled, CheckRequest, ParseVimeoLink, Down, Judge, Announce, CurrentSong,
      Finish, GoTo
<1>3. ASSUME NEW a \in SiteAnswers, Retrieve(a)
      PROVE  GapInv'
  BY <1>3, QuietKeepsGap DEF Retrieve, Down, Finish, GoTo
<1>4. ASSUME NEW ok \in BOOLEAN,
             \/ IsUserBanned(ok) \/ IsQueueFull(ok) \/ UserLimit(ok)
             \/ LookupSong(ok) \/ FindExisting(ok)
      PROVE  GapInv'
  BY <1>4, QuietKeepsGap
  DEF IsUserBanned, IsQueueFull, UserLimit, LookupSong, FindExisting, Query, Finish, GoTo
<1>5. ASSUME NEW ok \in BOOLEAN, NEW applied \in BOOLEAN, SaveSong(ok, applied)
      PROVE  GapInv'
  BY <1>5, QuietKeepsGap DEF SaveSong, Write, Query, Finish, GoTo
<1> QED
  BY <1>1, <1>2, <1>3, <1>4, <1>5, NextPositionKeepsGap, InsertKeepsGap, RemovalKeepsGap
  DEF Worker

LEMMA NextKeepsGap ==
    ASSUME TypeOK, QueueInv, GapInv, [Next]_vars
    PROVE  GapInv'
<1>1. CASE Chat
  BY <1>1, QuietKeepsGap
  DEF Chat, EnqueueSong, EnqueueOther, SetEnabled, PersistEnabled, Write, Query
<1>2. CASE Player
  <2>1. ASSUME NEW r \in DOMAIN requests, SiteRemove(r)
        PROVE  GapInv'
    BY <2>1 DEF SiteRemove, GapInv
  <2>2. CASE EndStateChange \/ \E r \in DOMAIN requests, b \in BOOLEAN : BeginStateChange(r, b)
    BY <2>2, QuietKeepsGap DEF EndStateChange, BeginStateChange
  <2> QED
    BY <1>2, <2>1, <2>2 DEF Player
<1>3. CASE Process
  BY <1>3, QuietKeepsGap DEF Process, Destroy, Crash, Down, Restart, WorkerAfterLoad
<1>4. CASE UNCHANGED vars
  BY <1>4, QuietKeepsGap DEF vars
<1> QED
  BY <1>1, <1>2, <1>3, <1>4, WorkerKeepsGap DEF Next

\* As long as the player page has removed nothing, the waiting requests have
\* the positions from 1 to their number, over failed queries, half-applied
\* statements, skips, resets, crashes and restarts.
THEOREM NoGaps == Spec => []PositionsContiguous
<1>1. Init => GapInv
  <2> SUFFICES ASSUME Init PROVE GapInv
    OBVIOUS
  <2>1. Active = {} /\ pc # "insert"
    BY DEF Init, Active, WorkerAfterLoad
  <2>2. ContiguousUpTo(0)
    BY <2>1 DEF ContiguousUpTo
  <2> QED
    BY <2>1, <2>2 DEF GapInv
<1>2. TypeOK /\ QueueInv /\ GapInv /\ [Next]_vars => GapInv'
  BY NextKeepsGap
<1>3. TypeOK /\ QueueInv /\ GapInv => PositionsContiguous
  <2> SUFFICES ASSUME TypeOK, QueueInv, GapInv, ~touched
               PROVE  {requests[r].pos : r \in Active} = 1 .. Cardinality(Active)
    BY DEF PositionsContiguous
  <2>1. PICK n \in Nat : ContiguousUpTo(n)
    BY DEF GapInv
  <2>2. Cardinality(Active) = n
    BY <2>1, PositionsCount DEF QueueInv
  <2> QED
    BY <2>1, <2>2 DEF ContiguousUpTo
<1> QED
  BY <1>1, <1>2, <1>3, QueueInvariant, PTL DEF Spec
=============================================================================
