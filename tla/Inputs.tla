------------------------------- MODULE Inputs -------------------------------
(***************************************************************************)
(* What the program makes of single inputs, one at a time: the link of a   *)
(* song that somebody asks for (SongLinks), what a site answers            *)
(* (SiteAnswers), the length of a video (VideoLength), and integers and    *)
(* texts on their way to the database and back (DbValues).                 *)
(***************************************************************************)
EXTENDS SongLinks, SiteAnswers, VideoLength, DbValues

VARIABLE input

Nothing == [kind |-> "nothing"]

Is(kind) == input.kind = kind

Init == input = Nothing

Given(kind, values) == Is("nothing") /\ \E v \in values : input' = [kind |-> kind, value |-> v]

ReadLink    == Given("link", Texts)
ReadAnswer  == Given("query", Queries)
ReadVideo   == Given("video", Videos)
PassInteger == Given("integer", IntegerValues)
PassText    == Given("text", TextValues)

\* The next input.
Done == ~Is("nothing") /\ input' = Nothing

InputNext == ReadLink \/ ReadAnswer \/ ReadVideo \/ PassInteger \/ PassText \/ Done

InputSpec == Init /\ [][InputNext]_input

\* An input is one of those of its kind.
InputsOK ==
    /\ Is("link") => input.value \in Texts
    /\ Is("query") => input.value \in Queries
    /\ Is("video") => input.value \in Videos
    /\ Is("integer") => input.value \in IntegerValues
    /\ Is("text") => input.value \in TextValues

-----------------------------------------------------------------------------
(* Links and sites. *)

\* An id that is found in a text is that of the text, in full, and the text is a
\* bare id or a link to youtube; a link of the form of the comment is read when
\* it is one to youtube.com; and the link that is made of a track of youtube is
\* read as the same track.
LinksRead ==
    Is("link") =>
        LET t == input.value
            song == ParseLink(t)
        IN  /\ song.what = "id" =>
                  /\ t.host \in {"", "youtube.com", "youtu.be"}
                  /\ song.id = (IF t.host = "" THEN t.id ELSE [t.id EXCEPT !.length = IdLength])
                  /\ song.id.length = IdLength => ParseLink(StandardizedLink(song.id)) = song
            /\ /\ t.scheme # "ftp://" /\ t.prefix # "music." /\ t.host = "youtube.com"
               /\ t.path \in InIdPaths /\ t.id.length >= IdLength
               => song.what = "id"

\* "^(?:https?://)?(?:www\.|m\.)?(?:youtu\.be/|...)([\w-]{11})"
\* The code does not keep this: its pattern has no slash after youtu.be.
ShortLinksRead ==
    Is("link") =>
        (input.value.host = "youtu.be" /\ input.value.path = "/" /\ input.value.id.length = IdLength
         /\ input.value.scheme = "https://" /\ input.value.prefix = "" => ParseLink(input.value).what = "id")

\* A text is a track, or the site is asked for what it says.
\* The code does not keep this: two patterns have no group, and it reads one.
NothingUndefined == Is("link") => ParseLink(input.value).what # "undefined"

\* A song is let in only if it can be played: it exists, is embeddable where the
\* site knows of that, a track, and not blocked here.  Who is refused is told a
\* reason that holds, if the site answers, or is out of reach; youtube's lists of
\* countries, of which the bot reads both where there is one, are left out, and
\* so is an unreachable youtube, which is taken for one that lacks the video.
ToldWhy ==
    Is("query") =>
        LET q == input.value
            f == q.facts
            playable == CASE q.site = "youtube" -> f.exists /\ f.embeddable /\ (f.list # "none" => f.here = (f.list = "allowed"))
                          [] q.site = "soundcloud" -> f.exists /\ f.embeddable /\ f.track
                          [] q.site = "vimeo" -> f.exists
            holds(reply) == CASE reply = "site down" -> q.mood \in {"unreachable", "lost"}
                              [] reply = "does not exist" -> ~f.exists
                              [] reply = "not playable here" -> f.list # "none" /\ f.here = (f.list = "blocked")
                              [] reply = "not embeddable" -> ~f.embeddable
                              [] reply = "not a track" -> ~f.track \/ ~f.exists
                              [] OTHER -> FALSE
        IN  \A s \in GetSong(q) :
                /\ s = Accepted => playable
                /\ /\ s.error \notin {"none", "thrown"}
                   /\ q.mood \notin {"refuses", "garbage"}
                   /\ q.site = "youtube" => q.mood # "unreachable" /\ f.list = "none"
                   => holds(Reply(s.error))

\* "Sorry, %s, this video does not exist.", for an unknown track of soundcloud
\* and video of vimeo, whose status is 404.
\* The code does not keep this: the status is read only if curl has failed.
UnknownReported ==
    Is("query") =>
        (input.value.mood = "answers" /\ ~input.value.facts.exists =>
            \A s \in GetSong(input.value) : s.error = "does_not_exist")

\* A duration that has seconds and less than a day is read exactly, and no video
\* is taken for a longer one.
ParsedExactly ==
    Is("video") =>
        LET v == input.value
        IN  /\ v.seconds # 0 /\ v.days = 0 => Parse(v) = Seconds(v)
            /\ Parse(v) <= Seconds(v)

\* "Sorry, %s, this song is longer than %i minutes.": no longer video is let in.
\* The code does not keep this: a duration of whole minutes has no length, nor
\* has one of a day or more.
LongIsRefused ==
    Is("video") => (Seconds(input.value) > MaxSongLength => TooLong(input.value))

-----------------------------------------------------------------------------
(* The database. *)

\* An integer of the width of its column is read as it was sent, except counts,
\* those of a song from the columns that have them, and sent as it is, also when
\* the same variable is an argument twice ("that way the function args stay
\* intact"); a text arrives if it fits the buffer and is cut otherwise, and nothing
\* is written behind the buffer, nor behind that of an option that is shorter.
ValuesArrive ==
    /\ Is("integer") =>
           LET c == input.value.column
               v == input.value.value
           IN  Len(v) = Width[c] =>
                  /\ c \in DOMAIN ReadInto \ {"count"} => Read(c, v) = v
                  /\ c \in DOMAIN FillSong => SongColumns[FillSong[c] + 1] = c
                  /\ c \in DOMAIN SentFrom =>
                        /\ SentFrom[c] = Width[c]
                        /\ Sent(v) = v /\ SentAgain(v) = v
    /\ Is("text") =>
           /\ IsPrefix(ReadText(input.value), input.value)
           /\ Len(input.value) < BufferSize => ReadText(input.value) = input.value
           /\ StaysIn(BufferSize, input.value)
           /\ Len(input.value) < OptionSize => StaysIn(OptionSize, input.value)

\* "value character varying(32)": every value of an option fits its array.
\* The code does not keep this: the terminator of the longest lies behind it.
OptionsFit ==
    Is("text") => (Len(input.value) <= OptionSize => StaysIn(OptionSize, input.value))

\* A count is read as it is.
\* The code does not keep this: it reads the first half of it.
CountsArrive ==
    Is("integer") =>
        (input.value.column = "count" /\ Len(input.value.value) = 8 =>
            Read("count", input.value.value) = SubSeq(input.value.value, 5, 8))
=============================================================================
