---------------------------- MODULE InputsProofs ----------------------------
(***************************************************************************)
(* Proofs about Inputs for every value of its constants: ids of any        *)
(* length, durations of any number of hours, minutes and seconds, all the  *)
(* values of bytes, and buffers and texts of any size.                     *)
(***************************************************************************)
EXTENDS Inputs, TLAPS

\* Only inputs of its kind are ever given.
LEMMA InputsGiven == InputSpec => []InputsOK
<1>1. Init => InputsOK
  BY DEF Init, Nothing, InputsOK, Is
<1>2. InputsOK /\ [InputNext]_input => InputsOK'
  <2> SUFFICES ASSUME InputsOK, [InputNext]_input PROVE InputsOK'
    OBVIOUS
  <2>1. CASE ReadLink
    BY <2>1 DEF ReadLink, Given, InputsOK, Is
  <2>2. CASE ReadAnswer
    BY <2>2 DEF ReadAnswer, Given, InputsOK, Is
  <2>3. CASE ReadVideo
    BY <2>3 DEF ReadVideo, Given, InputsOK, Is
  <2>4. CASE Done
    BY <2>4 DEF Done, Nothing, InputsOK, Is
  <2>5. CASE PassInteger \/ PassText
    BY <2>5 DEF PassInteger, PassText, Given, InputsOK, Is
  <2>6. CASE UNCHANGED input
    BY <2>6 DEF InputsOK, Is
  <2> QED
    BY <2>1, <2>2, <2>3, <2>4, <2>5, <2>6 DEF InputNext
<1> QED
  BY <1>1, <1>2, PTL DEF InputSpec

-----------------------------------------------------------------------------
(* Durations. *)

\* What parse_duration makes of a video: its length, or nothing.
LEMMA ParseIsSeconds ==
    ASSUME NEW v \in Videos
    PROVE  Parse(v) = IF (v.seconds # 0 /\ v.days = 0) \/ Seconds(v) = 0 THEN Seconds(v) ELSE 0
<1>1. /\ v.days \in Nat /\ v.hours \in Nat /\ v.minutes \in Nat /\ v.seconds \in Nat
      /\ DOMAIN v = {"days", "hours", "minutes", "seconds"}
  BY VideoAssumption DEF Videos
<1>2. "minutes" \notin Written(v) => v.minutes = 0
  BY <1>1 DEF Written
<1>3. "hours" \notin Written(v) => v.hours = 0
  BY <1>1 DEF Written
<1>4. Matches(v) <=> (v.days = 0 /\ (v.seconds # 0 \/ (v.minutes = 0 /\ v.hours = 0)))
  BY <1>1 DEF Matches, Written
<1>5. Seconds(v) = 0 <=> v.seconds = 0 /\ v.minutes = 0 /\ v.hours = 0 /\ v.days = 0
  <2>1. PICK d \in Nat, h \in Nat, m \in Nat, n \in Nat :
           d = v.days /\ h = v.hours /\ m = v.minutes /\ n = v.seconds
    BY <1>1
  <2>2. /\ 86400 * d >= d /\ 3600 * h >= h /\ 60 * m >= m
        /\ 86400 * d \in Nat /\ 3600 * h \in Nat /\ 60 * m \in Nat
    OBVIOUS
  <2>3. 86400 * d + 3600 * h + 60 * m + n = 0 <=> n = 0 /\ m = 0 /\ h = 0 /\ d = 0
    BY <2>2
  <2> QED
    BY <2>1, <2>3 DEF Seconds
<1>6. CASE Matches(v)
  <2>1. (v.seconds # 0 /\ v.days = 0) \/ Seconds(v) = 0
    BY <1>4, <1>5, <1>6
  <2>2. Seconds(v) = 3600 * v.hours + 60 * v.minutes + v.seconds
    BY <1>1, <1>4, <1>6 DEF Seconds
  <2>3. Parse(v) = v.seconds + 60 * v.minutes + 3600 * v.hours
    BY <1>1, <1>2, <1>3, <1>6 DEF Parse
  <2> QED
    BY <1>1, <2>1, <2>2, <2>3
<1>7. CASE ~Matches(v)
  <2>1. ~((v.seconds # 0 /\ v.days = 0) \/ Seconds(v) = 0)
    BY <1>4, <1>5, <1>7
  <2> QED
    BY <1>7, <2>1 DEF Parse
<1> QED
  BY <1>6, <1>7

\* A duration that has seconds and no days is read exactly and none is read as a
\* longer one, for any number of days, hours, minutes and seconds.
THEOREM DurationsParsed == InputSpec => []ParsedExactly
<1>1. InputsOK => ParsedExactly
  <2> SUFFICES ASSUME InputsOK, Is("video")
               PROVE  /\ input.value.seconds # 0 /\ input.value.days = 0 =>
                         Parse(input.value) = Seconds(input.value)
                      /\ Parse(input.value) <= Seconds(input.value)
    BY DEF ParsedExactly
  <2>1. input.value \in Videos
    BY DEF InputsOK
  <2>2. Seconds(input.value) \in Nat
    BY <2>1, VideoAssumption DEF Videos, Seconds
  <2> QED
    BY <2>1, <2>2, ParseIsSeconds
<1> QED
  BY <1>1, InputsGiven, PTL

-----------------------------------------------------------------------------
(* Links. *)

\* A text is a bare id or has one of the hosts, and its id has a length.
LEMMA TextFields ==
    ASSUME NEW t \in Texts
    PROVE  /\ t.host \in {"", "youtube.com", "youtu.be", "soundcloud.com", "vimeo.com"}
           /\ t.scheme \in {"", "http://", "https://", "ftp://"}
           /\ t.prefix \in {"", "www.", "m.", "music."}
           /\ t.host = "" => t.path = ""
           /\ t.id \in [length : Nat, digits : BOOLEAN]
  BY IdLengthsAssumption DEF Texts, Ids

\* An id of youtube goes into a link, and comes back from it.
LEMMA StandardizedIsRead ==
    ASSUME NEW id \in [length : Nat, digits : BOOLEAN], id.length = IdLength
    PROVE  ParseLink(StandardizedLink(id)) = Named("youtube", "id", id)
<1> DEFINE t == StandardizedLink(id)
<1>1. YouTubeId(t) /\ t.id = id
  BY DEF StandardizedLink, YouTubeId, HostAndPath, InIdPaths, IdLength
<1>2. [id EXCEPT !.length = IdLength] = id
  OBVIOUS
<1> QED
  BY <1>1, <1>2 DEF ParseLink, YouTube

\* The id that is found is that of the text and can be written as a link again,
\* for ids of any length.
THEOREM TracksRead == InputSpec => []LinksRead
<1>1. InputsOK => LinksRead
  <2> SUFFICES ASSUME InputsOK, Is("link"), NEW t, t = input.value, NEW song, song = ParseLink(t)
               PROVE  /\ song.what = "id" =>
                            /\ t.host \in {"", "youtube.com", "youtu.be"}
                            /\ song.id = (IF t.host = "" THEN t.id ELSE [t.id EXCEPT !.length = IdLength])
                            /\ song.id.length = IdLength => ParseLink(StandardizedLink(song.id)) = song
                      /\ /\ t.scheme # "ftp://" /\ t.prefix # "music." /\ t.host = "youtube.com"
                         /\ t.path \in InIdPaths /\ t.id.length >= IdLength
                         => song.what = "id"
    BY DEF LinksRead
  <2>1. t \in Texts
    BY DEF InputsOK
  <2>2. t.id \in [length : Nat, digits : BOOLEAN]
    BY <2>1, TextFields
  <2>3. CASE YouTubeId(t)
    <3>1. song = Named("youtube", "id", [t.id EXCEPT !.length = IdLength])
      BY <2>3 DEF ParseLink, YouTube
    <3>2. t.host \in {"youtube.com", "youtu.be"}
      BY <2>3 DEF YouTubeId, HostAndPath
    <3>3. [t.id EXCEPT !.length = IdLength] \in [length : Nat, digits : BOOLEAN]
      BY <2>2 DEF IdLength
    <3>4. song.what = "id" /\ song.id = [t.id EXCEPT !.length = IdLength]
      BY <3>1 DEF Named
    <3> QED
      BY <3>1, <3>2, <3>3, <3>4, StandardizedIsRead
  <2>4. CASE ~YouTubeId(t)
    <3>1. t.scheme # "ftp://" /\ t.prefix # "music." /\ t.host = "youtube.com" => ~(t.path \in InIdPaths /\ t.id.length >= IdLength)
      BY <2>1, <2>4, TextFields DEF YouTubeId, HostAndPath
    <3>2. song.what = "id" => t.host = "" /\ song = Named("youtube", "id", t.id)
      <4>1. /\ Named("youtube", "undefined", NoId).what = "undefined"
            /\ Named("soundcloud", "link", NoId).what = "link"
            /\ Named("vimeo", "undefined", NoId).what = "undefined"
            /\ Named("youtube", "link", NoId).what = "link"
        BY DEF Named
      <4>2. \/ song = Named("youtube", "undefined", NoId) \/ song = Named("soundcloud", "link", NoId)
            \/ song = Named("vimeo", "undefined", NoId) \/ song = WholeText(t)
        BY <2>4 DEF ParseLink, YouTube
      <4> QED
        BY <4>1, <4>2 DEF WholeText
    <3>3. Named("youtube", "id", t.id).id = t.id
      BY DEF Named
    <3> QED
      BY <2>2, <3>1, <3>2, <3>3, StandardizedIsRead
  <2> QED
    BY <2>3, <2>4
<1> QED
  BY <1>1, InputsGiven, PTL

-----------------------------------------------------------------------------
(* Answers of the sites. *)
Playable(q) ==
    CASE q.site = "youtube" ->
           /\ q.facts.exists /\ q.facts.embeddable
           /\ q.facts.list # "none" => q.facts.here = (q.facts.list = "allowed")
      [] q.site = "soundcloud" -> q.facts.exists /\ q.facts.embeddable /\ q.facts.track
      [] q.site = "vimeo" -> q.facts.exists

\* What a reply says of the site and the video.
Holds(reply, q) ==
    CASE reply = "site down" -> q.mood \in {"unreachable", "lost"}
      [] reply = "does not exist" -> ~q.facts.exists
      [] reply = "not playable here" ->
           q.facts.list # "none" /\ q.facts.here = (q.facts.list = "blocked")
      [] reply = "not embeddable" -> ~q.facts.embeddable
      [] reply = "not a track" -> ~q.facts.track \/ ~q.facts.exists
      [] OTHER -> FALSE

\* The message of each error is the one for it.
LEMMA RepliesMatch ==
    /\ Reply("host_error") = "site down"
    /\ Reply("does_not_exist") = "does not exist"
    /\ Reply("region_restricted") = "not playable here"
    /\ Reply("not_embeddable") = "not embeddable"
    /\ Reply("not_a_track") = "not a track"
<1>1. \A i \in 1 .. 6 : Value(Errors[i]) = i - 1
  <2> SUFFICES ASSUME NEW i \in 1 .. 6 PROVE Value(Errors[i]) = i - 1
    OBVIOUS
  <2>1. DOMAIN Errors = 1 .. 6
    BY DEF Errors
  <2>2. \A j \in 1 .. 6 : Errors[j] = Errors[i] => j = i
    BY DEF Errors
  <2> QED
    BY <2>1, <2>2 DEF Value
<1>2. /\ Value("host_error") = 1 /\ Value("does_not_exist") = 2 /\ Value("region_restricted") = 3
      /\ Value("not_embeddable") = 4 /\ Value("not_a_track") = 5
  BY <1>1 DEF Errors
<1>3. /\ Replies[1] = "site down" /\ Replies[2] = "does not exist" /\ Replies[3] = "not playable here"
      /\ Replies[4] = "not embeddable" /\ Replies[5] = "not a track"
  BY DEF Replies
<1> QED
  BY <1>2, <1>3 DEF Reply

\* A video that the lists of countries leave free may be played here.
LEMMA FreeRegion ==
    ASSUME NEW f \in Facts, "free" \in Region(f), f.list # "none"
    PROVE  f.here = (f.list = "allowed")
<1>1. PICK allowed \in OnList("allowed", f), blocked \in OnList("blocked", f) :
          /\ allowed \notin {"no", "thrown"}
          /\ blocked = "no"
  BY DEF Region
<1>2. f.list \in {"allowed", "blocked"} /\ f.here \in BOOLEAN
  BY DEF Facts
<1>3. CASE f.list = "allowed"
  BY <1>1, <1>2, <1>3 DEF OnList
<1>4. CASE f.list = "blocked"
  BY <1>1, <1>2, <1>4 DEF OnList
<1> QED
  BY <1>2, <1>3, <1>4
\* What get_song returns for a video of each site.
LEMMA YoutubeAnswers ==
    ASSUME NEW q \in Queries, q.site = "youtube", NEW s \in GetSong(q)
    PROVE  \/ s = Accepted /\ Playable(q)
           \/ s = Thrown
           \/ s = Refused("does_not_exist") /\ (~q.facts.exists \/ q.mood \in {"unreachable", "refuses", "garbage"})
           \/ s = Refused("region_restricted") /\ q.facts.list # "none"
           \/ s = Refused("not_embeddable") /\ ~q.facts.embeddable
<1>1. q.facts \in Facts /\ q.mood \in Moods
  BY DEF Queries
<1>2. PICK y \in Youtube(q) : s = IF y.error = "none" /\ ~y.named THEN Refused("does_not_exist") ELSE y
  BY DEF GetSong
<1>3. CASE q.mood = "unreachable"
  <2>1. y = [error |-> "none", named |-> FALSE]
    BY <1>2, <1>3 DEF Youtube, Response, Unreached
  <2>2. s = Refused("does_not_exist")
    BY <1>2, <2>1
  <2> QED
    BY <1>3, <2>2
<1>4. CASE q.mood = "garbage"
  <2>1. y = Thrown
    BY <1>2, <1>4 DEF Youtube, Response, Answer, ParseYoutube
  <2>2. s = Thrown
    BY <1>2, <2>1 DEF Thrown
  <2> QED
    BY <2>2
<1>5. CASE q.mood = "refuses" \/ (q.mood \in {"answers"} \cup Later /\ ~q.facts.exists)
  <2>1. y = Refused("does_not_exist")
    BY <1>2, <1>5 DEF Youtube, Response, Answer, ParseYoutube, Later
  <2>2. s = Refused("does_not_exist")
    BY <1>2, <2>1 DEF Refused
  <2> QED
    BY <1>5, <2>2
<1>6. CASE q.mood \in {"answers"} \cup Later /\ q.facts.exists
  <2>1. y \in ParseYoutube("video", q.facts)
    BY <1>2, <1>6 DEF Youtube, Response, Answer, Later
  <2>2. PICK r \in Region(q.facts) :
           y = CASE r = "thrown"     -> Thrown
                 [] r = "restricted" -> Refused("region_restricted")
                 [] OTHER -> IF q.facts.embeddable THEN Accepted ELSE Refused("not_embeddable")
    BY <2>1 DEF ParseYoutube
  <2>3. s = y
    BY <1>2, <2>2 DEF Thrown, Refused, Accepted
  <2>4. r \in {"thrown", "restricted", "free"}
    BY DEF Region
  <2>5. r = "restricted" => q.facts.list # "none"
    BY DEF Region
  <2>6. r = "free" /\ q.facts.embeddable => Playable(q)
    BY <1>1, <1>6, FreeRegion DEF Playable
  <2> QED
    BY <2>2, <2>3, <2>4, <2>5, <2>6
<1> QED
  BY <1>1, <1>3, <1>4, <1>5, <1>6 DEF Moods, Later

LEMMA SoundcloudAnswers ==
    ASSUME NEW q \in Queries, q.site = "soundcloud", NEW s \in GetSong(q)
    PROVE  \/ s = Accepted /\ Playable(q)
           \/ s = Refused("host_error") /\ q.mood \in {"unreachable", "lost"}
           \/ s = Refused("not_a_track")
                 /\ (~q.facts.track \/ ~q.facts.exists \/ q.mood \in {"refuses", "garbage"})
           \/ s = Refused("not_embeddable") /\ ~q.facts.embeddable
           \/ s = Thrown
<1>1. q.facts \in Facts /\ q.mood \in Moods
  BY DEF Queries
<1>2. PICK y \in Soundcloud(q) : s = IF y.error = "none" /\ ~y.named THEN Refused("does_not_exist") ELSE y
  BY DEF GetSong
<1>3. s = y
  BY <1>2 DEF Soundcloud, ParseTrack, HostError, Refused, Accepted, Thrown
<1>4. CASE q.mood = "unreachable"
  <2>1. Response(q).error /\ Response(q).status = 0
    BY <1>4 DEF Response, Unreached
  <2> QED
    BY <1>2, <1>3, <1>4, <2>1 DEF Soundcloud, HostError
<1>5. CASE q.mood \in {"refuses", "garbage"} \/ (q.mood \in {"answers"} \cup Later /\ (~q.facts.exists \/ ~q.facts.track))
  <2>1. ~Response(q).error /\ Response(q).redirect # "tracks"
    BY <1>5 DEF Response, Answer, Later
  <2> QED
    BY <1>2, <1>3, <1>5, <2>1 DEF Soundcloud
<1>6. CASE q.mood \in {"answers"} \cup Later /\ q.facts.exists /\ q.facts.track
  <2>1. ~Response(q).error /\ Response(q).redirect = "tracks"
    BY <1>6 DEF Response, Answer, Later
  <2>2. TrackResponse(q).error <=> q.mood = "lost"
    BY DEF TrackResponse, Unreached, Answer
  <2> QED
    BY <1>2, <1>3, <1>6, <2>1, <2>2 DEF Soundcloud, ParseTrack, Playable
<1> QED
  BY <1>1, <1>4, <1>5, <1>6 DEF Moods, Facts, Later

LEMMA VimeoAnswers ==
    ASSUME NEW q \in Queries, q.site = "vimeo", NEW s \in GetSong(q)
    PROVE  \/ s = Accepted /\ Playable(q)
           \/ s = Thrown
           \/ s = Refused("host_error") /\ q.mood = "unreachable"
<1>1. q.facts \in Facts /\ q.mood \in Moods
  BY DEF Queries
<1>2. PICK y \in Vimeo(q) : s = IF y.error = "none" /\ ~y.named THEN Refused("does_not_exist") ELSE y
  BY DEF GetSong
<1>3. s = y
  BY <1>2 DEF Vimeo, HostError, Refused, Accepted, Thrown
<1>4. CASE q.mood = "unreachable"
  <2>1. Response(q).error /\ Response(q).status = 0
    BY <1>4 DEF Response, Unreached
  <2> QED
    BY <1>2, <1>3, <1>4, <2>1 DEF Vimeo, HostError
<1>5. CASE q.mood # "unreachable"
  <2>1. ~Response(q).error /\ (Response(q).data = "video" => q.facts.exists)
    BY <1>1, <1>5 DEF Response, Answer, Moods, Later
  <2> QED
    BY <1>2, <1>3, <2>1 DEF Vimeo, Playable
<1> QED
  BY <1>4, <1>5
\* Only what can be played is let in, and who is refused is told a reason that
\* holds.
THEOREM ReasonsHold == InputSpec => []ToldWhy
<1>1. InputsOK => ToldWhy
  <2> SUFFICES ASSUME InputsOK, Is("query"),
                      NEW q, q = input.value, NEW s \in GetSong(q)
               PROVE  /\ s = Accepted => Playable(q)
                      /\ /\ s.error \notin {"none", "thrown"}
                         /\ q.mood \notin {"refuses", "garbage"}
                         /\ q.site = "youtube" => q.mood # "unreachable" /\ q.facts.list = "none"
                         => Holds(Reply(s.error), q)
    BY DEF ToldWhy, Playable, Holds
  <2>1. q \in Queries /\ q.site \in {"youtube", "soundcloud", "vimeo"}
    BY DEF InputsOK, Queries
  <2>2. \A e \in {"host_error", "does_not_exist", "region_restricted", "not_embeddable", "not_a_track"} :
           Refused(e).error = e /\ Refused(e) # Accepted
    BY DEF Accepted, Refused
  <2>3. Accepted.error = "none" /\ Thrown.error = "thrown" /\ Accepted # Thrown
    BY DEF Accepted, Thrown
  <2>4. CASE s = Accepted
    <3>1. Playable(q)
      BY <2>1, <2>2, <2>3, <2>4, YoutubeAnswers, SoundcloudAnswers, VimeoAnswers
    <3> QED
      BY <2>3, <2>4, <3>1
  <2>5. CASE s = Thrown
    BY <2>3, <2>5
  <2>6. CASE s = Refused("host_error")
    <3>1. q.mood \in {"unreachable", "lost"}
      BY <2>1, <2>2, <2>3, <2>6, YoutubeAnswers, SoundcloudAnswers, VimeoAnswers
    <3> QED
      BY <2>2, <2>6, <3>1, RepliesMatch DEF Holds
  <2>7. CASE s = Refused("does_not_exist")
    <3>1. q.site = "youtube" /\ (~q.facts.exists \/ q.mood \in {"unreachable", "refuses", "garbage"})
      BY <2>1, <2>2, <2>3, <2>7, YoutubeAnswers, SoundcloudAnswers, VimeoAnswers
    <3> QED
      BY <2>2, <2>7, <3>1, RepliesMatch DEF Holds
  <2>8. CASE s = Refused("region_restricted")
    <3>1. q.site = "youtube" /\ q.facts.list # "none"
      BY <2>1, <2>2, <2>3, <2>8, YoutubeAnswers, SoundcloudAnswers, VimeoAnswers
    <3> QED
      BY <2>2, <2>8, <3>1
  <2>9. CASE s = Refused("not_embeddable")
    <3>1. ~q.facts.embeddable
      BY <2>1, <2>2, <2>3, <2>9, YoutubeAnswers, SoundcloudAnswers, VimeoAnswers
    <3> QED
      BY <2>2, <2>9, <3>1, RepliesMatch DEF Holds
  <2>10. CASE s = Refused("not_a_track")
    <3>1. ~q.facts.track \/ ~q.facts.exists \/ q.mood \in {"refuses", "garbage"}
      BY <2>1, <2>2, <2>3, <2>10, YoutubeAnswers, SoundcloudAnswers, VimeoAnswers
    <3> QED
      BY <2>2, <2>10, <3>1, RepliesMatch DEF Holds
  <2> QED
    BY <2>1, <2>4, <2>5, <2>6, <2>7, <2>8, <2>9, <2>10, YoutubeAnswers, SoundcloudAnswers, VimeoAnswers
<1> QED
  BY <1>1, InputsGiven, PTL
-----------------------------------------------------------------------------
(* Values of the database. *)

\* Turned twice, a value is itself.
LEMMA ReverseTwice ==
    ASSUME NEW S, NEW v \in Seq(S)
    PROVE  Reverse(v) \in Seq(S) /\ Len(Reverse(v)) = Len(v) /\ Reverse(Reverse(v)) = v
<1> DEFINE n == Len(v)
           f(s) == [i \in 1 .. n |-> s[(n - i) + 1]]
<1>1. n \in Nat /\ v \in [1 .. n -> S]
  OBVIOUS
<1>2. \A i \in 1 .. n : (n - i) + 1 \in 1 .. n /\ (n - ((n - i) + 1)) + 1 = i
  BY <1>1
<1>3. Reverse(v) = f(v)
  BY DEF Reverse
<1>4. f(v) \in [1 .. n -> S]
  BY <1>1, <1>2
<1>5. f(v) \in Seq(S) /\ Len(f(v)) = n
  BY <1>1, <1>4
<1>6. Reverse(f(v)) = f(f(v))
  BY <1>5 DEF Reverse
<1>7. f(f(v)) = v
  BY <1>1, <1>2, <1>4
<1> QED
  BY <1>3, <1>5, <1>6, <1>7

LEMMA BytesAreSeqs ==
    ASSUME NEW w \in Nat, NEW v \in Bytes(w)
    PROVE  v \in Seq(ByteValues) /\ Len(v) = w
  BY DEF Bytes

\* A single byte is turned into itself.
LEMMA ReverseOne ==
    ASSUME NEW S, NEW v \in Seq(S), Len(v) = 1
    PROVE  Reverse(v) = v
<1>1. v = [i \in 1 .. 1 |-> v[i]]
  OBVIOUS
<1>2. Reverse(v) = [i \in 1 .. 1 |-> v[1 - i + 1]]
  BY DEF Reverse
<1>3. \A i \in 1 .. 1 : v[1 - i + 1] = v[i]
  OBVIOUS
<1> QED
  BY <1>1, <1>2, <1>3

\* Whichever order an integer of a column's width is in, two turns restore it.
LEMMA SwapReversed ==
    ASSUME NEW v \in Seq(ByteValues), Len(v) \in {1, 2, 4, 8}
    PROVE  Swap(Reverse(v)) = v /\ Reverse(Swap(v)) = v
<1>1. Len(Reverse(v)) = Len(v) /\ Reverse(Reverse(v)) = v
  BY ReverseTwice
<1>2. Len(v) = 1 => Reverse(v) = v
  BY ReverseOne
<1> QED
  BY <1>1, <1>2 DEF Swap

\* The variables have the widths of their columns, but for counts.
LEMMA WidthsAgree ==
    /\ \A c \in DOMAIN Width : Width[c] \in {1, 2, 4, 8}
    /\ \A c \in DOMAIN ReadInto \ {"count"} : c \in DOMAIN Width /\ ReadInto[c] = Width[c]
    /\ \A c \in DOMAIN SentFrom : c \in DOMAIN Width /\ SentFrom[c] = Width[c]
    /\ \A c \in DOMAIN FillSong : SongColumns[FillSong[c] + 1] = c
<1>1. \A c \in DOMAIN Width : Width[c] \in {1, 2, 4, 8}
  BY DEF Width
<1>2. \A c \in DOMAIN ReadInto \ {"count"} : c \in DOMAIN Width /\ ReadInto[c] = Width[c]
  BY DEF ReadInto, Width
<1>3. \A c \in DOMAIN SentFrom : c \in DOMAIN Width /\ SentFrom[c] = Width[c]
  BY DEF SentFrom, Width
<1>4. \A c \in DOMAIN FillSong : SongColumns[FillSong[c] + 1] = c
  BY DEF FillSong, SongColumns
<1> QED
  BY <1>1, <1>2, <1>3, <1>4

\* A text is read up to the size of the buffer.
LEMMA TextCut ==
    ASSUME NEW S, NEW t \in Seq(S)
    PROVE  /\ IsPrefix(ReadText(t), t)
           /\ Len(t) < BufferSize => ReadText(t) = t
           /\ StaysIn(BufferSize, t)
           /\ Len(t) < OptionSize => StaysIn(OptionSize, t)
<1> DEFINE n == IF Len(t) < BufferSize - 1 THEN Len(t) ELSE BufferSize - 1
<1>1. n \in 0 .. Len(t) /\ n < BufferSize /\ (Len(t) < BufferSize => n = Len(t))
  BY BufferAssumption
<1>2. ReadText(t) = SubSeq(t, 1, n)
  BY DEF ReadText
<1>3. SubSeq(t, 1, n) \in Seq(S) /\ Len(SubSeq(t, 1, n)) = n
  BY <1>1
<1>4. SubSeq(SubSeq(t, 1, n), 1, n) = SubSeq(t, 1, n)
  BY <1>1, <1>3
<1>5. SubSeq(t, 1, Len(t)) = t
  OBVIOUS
<1>6. StaysIn(BufferSize, t) /\ (Len(t) < OptionSize => StaysIn(OptionSize, t))
  BY <1>1, <1>2, <1>3, BufferAssumption DEF StaysIn
<1> QED
  BY <1>1, <1>2, <1>3, <1>4, <1>5, <1>6 DEF IsPrefix

\* Integers of any bytes survive both ways as often as they are sent, and texts
\* of any length as far as the buffer goes, for buffers of any size.
THEOREM ValuesKept == InputSpec => []ValuesArrive
<1>1. ASSUME InputsOK, Is("integer"), NEW c, c = input.value.column,
             NEW v, v = input.value.value, Len(v) = Width[c]
      PROVE  /\ c \in DOMAIN ReadInto \ {"count"} => Read(c, v) = v
             /\ c \in DOMAIN FillSong => SongColumns[FillSong[c] + 1] = c
             /\ c \in DOMAIN SentFrom =>
                   /\ SentFrom[c] = Width[c]
                   /\ Sent(v) = v /\ SentAgain(v) = v
  <2>1. c \in DOMAIN Width /\ v \in UNION {Bytes(w) : w \in {1, 2, 4, 8}}
    BY <1>1 DEF InputsOK, IntegerValues
  <2>2. v \in Seq(ByteValues) /\ Len(v) \in {1, 2, 4, 8}
    <3>1. PICK w \in {1, 2, 4, 8} : v \in Bytes(w)
      BY <2>1
    <3> QED
      BY <3>1, BytesAreSeqs
  <2>3. ASSUME c \in DOMAIN ReadInto \ {"count"} PROVE Read(c, v) = v
    <3>1. ReadInto[c] = Len(v)
      BY <1>1, <2>3, WidthsAgree
    <3>2. SubSeq(v, 1, Len(v)) = v
      BY <2>2
    <3> QED
      BY <2>2, <3>1, <3>2, SwapReversed DEF Read, Load
  <2>4. Sent(v) = v /\ SentAgain(v) = v
    BY <2>2, SwapReversed DEF Sent, SentAgain, Store, Kept
  <2> QED
    BY <2>3, <2>4, WidthsAgree
<1>2. ASSUME InputsOK, Is("text")
      PROVE  /\ IsPrefix(ReadText(input.value), input.value)
             /\ Len(input.value) < BufferSize => ReadText(input.value) = input.value
             /\ StaysIn(BufferSize, input.value)
             /\ Len(input.value) < OptionSize => StaysIn(OptionSize, input.value)
  <2>1. input.value \in Seq({97})
    BY <1>2 DEF InputsOK, TextValues, SeqOf
  <2> QED
    BY <2>1, TextCut
<1>3. InputsOK => ValuesArrive
  BY <1>1, <1>2 DEF ValuesArrive
<1> QED
  BY <1>3, InputsGiven, PTL
=============================================================================
