--------------------------- MODULE MCSongRequest ---------------------------
(***************************************************************************)
(* Values for the constants of SongRequest.  Tracks: two of youtube, one   *)
(* of soundcloud, one of vimeo, one longer than MaxSongLength, one whose   *)
(* length does not fit a smallint, one whose row in table songs is banned. *)
(***************************************************************************)
EXTENDS SongRequestProps

CONSTANTS ann, bob,                              \* users
          clip, tune, cloud, reel, film, epic, vile,   \* tracks
          t1                                     \* a pool thread

MCSourceOf == [t \in Tracks |-> CASE t = cloud -> "soundcloud" [] t = reel -> "vimeo" [] OTHER -> "youtube"]

MCLengthOf == [t \in Tracks |-> CASE t = film -> 700
                                  [] t = epic -> 40000
                                  [] OTHER -> 200]

\* A first start with an empty table, and one after a run that stored a song.
NoSongs == <<>>

StoredRow(t, banned) == [track |-> t, linked |-> FALSE,
                         length |-> Wrap16(MCLengthOf[t]), banned |-> banned]

StoredSongs == <<StoredRow(vile, TRUE)>>
=============================================================================
