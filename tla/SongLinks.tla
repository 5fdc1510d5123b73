----------------------------- MODULE SongLinks -----------------------------
(***************************************************************************)
(* Which track the text of a request names: song::parse_link with its      *)
(* patterns, and the link that is made of a track again.  A text is a      *)
(* scheme, a prefix, a host, a path up to the track, the characters of the *)
(* track and what comes after them; the text of a bare id is the id.       *)
(***************************************************************************)
EXTENDS Integers, Sequences

CONSTANT IdLengths   \* bound: the lengths of what stands where an id should be

ASSUME IdLengthsAssumption == IdLengths \subseteq Nat

IdLength == 11

\* Ids by their length, and whether they are digits only.
Ids == {id \in [length : IdLengths, digits : BOOLEAN] : id.length = 0 => ~id.digits}

Paths == {"", "/", "/embed/", "/v/", "/watch?v=", "/watch?list&v=", "/shorts/"}

Texts ==
    [scheme : {"", "http://", "https://", "ftp://"}, prefix : {"", "www.", "m.", "music."},
     host : {"youtube.com", "youtu.be", "soundcloud.com", "vimeo.com"}, path : Paths, id : Ids,
     tail : {"", "&t=1"}]
    \cup [scheme : {""}, prefix : {""}, host : {""}, path : {""}, id : Ids, tail : {""}]

-----------------------------------------------------------------------------
(* The patterns. *)

InIdPaths == {"/embed/", "/v/", "/watch?v=", "/watch?list&v="}

\* In YouTubeId ">>" binds before "|": youtu.be is followed by the id itself.
HostAndPath(t) ==
    \/ t.host = "youtu.be" /\ t.path = ""
    \/ t.host = "youtube.com" /\ t.path \in InIdPaths

YouTubeId(t) ==
    /\ t.scheme \in {"", "http://", "https://"}
    /\ t.prefix \in {"", "www.", "m."}
    /\ HostAndPath(t)
    /\ t.id.length >= IdLength

\* Found anywhere, and followed by a character of ids.
YouTubeIdV(t) == t.path \in {"/watch?v=", "/watch?list&v="} /\ t.id.length > 0

VimeoId(t) == t.tail = "&t=1" \/ (t.id.digits /\ t.id.length > 0)

-----------------------------------------------------------------------------
(* parse_link.  What a text names is an id, the text as a link, or what the  *)
(* program reads through a group that the pattern does not have, which is    *)
(* undefined.                                                               *)

Named(source, what, id) == [source |-> source, what |-> what, id |-> id]

NoId == [length |-> 0, digits |-> FALSE]

\* Variant: the search comes before the match.
YouTubeSearching(t) ==
    IF ~YouTubeIdV(t) THEN Named("youtube", "id", [t.id EXCEPT !.length = IdLength])
    ELSE Named("youtube", "undefined", NoId)

YouTube(t) ==
    IF YouTubeId(t) THEN Named("youtube", "id", [t.id EXCEPT !.length = IdLength])
    ELSE Named("youtube", "undefined", NoId)

\* soundcloud is asked for the link itself.
IsSoundcloud(t) == t.host = "soundcloud.com"

IsVimeo(t) == t.host = "vimeo.com" /\ VimeoId(t)

\* youtube is asked for whatever is left.
WholeText(t) ==
    IF t.host = "" THEN Named("youtube", "id", t.id) ELSE Named("youtube", "link", NoId)

ParseLink(t) ==
    IF YouTubeId(t) \/ YouTubeIdV(t) THEN YouTube(t)
    ELSE IF IsSoundcloud(t) THEN Named("soundcloud", "link", NoId)
    ELSE IF IsVimeo(t) THEN Named("vimeo", "undefined", NoId)
    ELSE WholeText(t)

\* get_standardized_link, of a track of youtube.
StandardizedLink(id) ==
    [scheme |-> "https://", prefix |-> "www.", host |-> "youtube.com", path |-> "/watch?v=", id |-> id, tail |-> ""]
=============================================================================
