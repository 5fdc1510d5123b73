---------------------------- MODULE SiteAnswers ----------------------------
(***************************************************************************)
(* What the answers of a video site make of a request that the table of    *)
(* songs does not know: http_client, the three sites, and the message that *)
(* a refusal sends.                                                        *)
(***************************************************************************)
EXTENDS Integers, Sequences

\* Whether the site has the video or track, the list of countries that youtube
\* sends with it and whether the streamer's is on it, whether it may be embedded,
\* and whether the link is that of a track.
Facts ==
    [exists : BOOLEAN, list : {"none", "allowed", "blocked"}, here : BOOLEAN,
     embeddable : BOOLEAN, track : BOOLEAN]

\* The site answers, cannot be reached, refuses to answer, or sends no JSON; or it
\* answers, and for the second request is lost, denies it, or spoils its answer.
Later == {"lost", "denied", "spoiled"}

Moods == {"answers", "unreachable", "refuses", "garbage"} \cup Later

Queries == [site : {"youtube", "soundcloud", "vimeo"}, mood : Moods, facts : Facts]

-----------------------------------------------------------------------------
(* http_client::send_request.  A server that says 404 has answered, for      *)
(* CURLOPT_FAILONERROR is not set.                                          *)

Unreached == [error |-> TRUE, status |-> 0, redirect |-> "none", data |-> "nothing"]

Answer(status, redirect, data) ==
    [error |-> FALSE, status |-> status, redirect |-> redirect, data |-> data]

\* youtube answers for an unknown video too.
Response(q) ==
    CASE q.mood = "unreachable" -> Unreached
      [] q.mood = "garbage"     -> Answer(500, "none", "garbage")
      [] q.mood = "refuses"     -> Answer(403, "none", "other")
      [] OTHER ->
           IF q.site # "youtube" /\ ~q.facts.exists THEN Answer(404, "none", "other")
           ELSE Answer(200, IF q.facts.track THEN "tracks" ELSE "playlists",
                       IF q.facts.exists THEN "video" ELSE "other")

\* soundcloud's second request, to where the first one is redirected.
TrackResponse(q) ==
    CASE q.mood = "lost"    -> Unreached
      [] q.mood = "denied"  -> Answer(403, "none", "other")
      [] q.mood = "spoiled" -> Answer(500, "none", "garbage")
      [] OTHER              -> Answer(200, "none", "video")

-----------------------------------------------------------------------------
(* The sites.  A result is an error, "thrown", or "none" and whether there   *)
(* is a name.                                                               *)

Refused(e) == [error |-> e, named |-> FALSE]
Accepted   == [error |-> "none", named |-> TRUE]
Thrown     == [error |-> "thrown", named |-> FALSE]

\* Neither of the other lists is recognised as missing, for find's iterators are
\* compared with the end of another object: what is found there is undefined.
OnList(list, f) ==
    IF f.list # list THEN {"yes", "no", "thrown"} ELSE IF f.here THEN {"yes"} ELSE {"no"}

Region(f) ==
    IF f.list = "none" THEN {"free"}
    ELSE {CASE allowed = "no"    -> "restricted"
            [] allowed = "thrown" -> "thrown"
            [] OTHER -> IF blocked = "yes" THEN "restricted" ELSE IF blocked = "no" THEN "free" ELSE "thrown" :
          allowed \in OnList("allowed", f), blocked \in OnList("blocked", f)}

ParseYoutube(data, f) ==
    IF data = "garbage" THEN {Thrown}
    ELSE IF data # "video" THEN {Refused("does_not_exist")}
    ELSE {CASE r = "thrown"     -> Thrown
            [] r = "restricted" -> Refused("region_restricted")
            [] OTHER -> IF f.embeddable THEN Accepted ELSE Refused("not_embeddable") : r \in Region(f)}

\* An error of the transport is returned as success without a name.
Youtube(q) ==
    IF Response(q).error THEN {[error |-> "none", named |-> FALSE]}
    ELSE ParseYoutube(Response(q).data, q.facts)

HostError(r) == Refused(IF r.status = 404 THEN "does_not_exist" ELSE "host_error")

\* No JSON, or an object without the field, throws.
ParseTrack(data, f) ==
    IF data # "video" THEN Thrown
    ELSE IF f.embeddable THEN Accepted ELSE Refused("not_embeddable")

\* Variant: any redirect will do.
SoundcloudAnyLink(q) ==
    IF Response(q).error THEN {HostError(Response(q))}
    ELSE IF Response(q).redirect = "none" THEN {Refused("not_a_track")}
    ELSE IF TrackResponse(q).error THEN {Refused("host_error")}
    ELSE {ParseTrack(TrackResponse(q).data, q.facts)}

Soundcloud(q) ==
    IF Response(q).error THEN {HostError(Response(q))}
    ELSE IF Response(q).redirect # "tracks" THEN {Refused("not_a_track")}
    ELSE IF TrackResponse(q).error THEN {Refused("host_error")}
    ELSE {ParseTrack(TrackResponse(q).data, q.facts)}

\* An answer without a name throws; nobody asks whether it may be embedded.
Vimeo(q) ==
    IF Response(q).error THEN {HostError(Response(q))}
    ELSE IF Response(q).data # "video" THEN {Thrown}
    ELSE {Accepted}

\* songrequest_provider::get_song, after the look-up has found nothing.
GetSong(q) ==
    {IF s.error = "none" /\ ~s.named THEN Refused("does_not_exist") ELSE s :
        s \in CASE q.site = "youtube" -> Youtube(q)
                [] q.site = "soundcloud" -> Soundcloud(q)
                [] q.site = "vimeo" -> Vimeo(q)}

-----------------------------------------------------------------------------
(* The reply of request_song. *)

Errors == <<"none", "host_error", "does_not_exist", "region_restricted", "not_embeddable", "not_a_track">>

Value(e) == (CHOOSE i \in DOMAIN Errors : Errors[i] = e) - 1

\* MSGSTRS_SONG_ERRORS, by what the messages say of the video; indices begin at 0.
Replies == <<"site down", "does not exist", "not playable here", "not embeddable", "not a track">>

Reply(e) == Replies[Value(e)]
=============================================================================
