----------------------------- MODULE SongQueue -----------------------------
(***************************************************************************)
(* What the song request list promises to the chat, whatever thread or     *)
(* database call produces it: requests enter behind all others, one at a   *)
(* time, never with a song that is already waiting, and leave in any       *)
(* order; a request that has left never returns.  The new list is stated   *)
(* as a condition on list', so that an implementation can be compared with *)
(* it without naming the songs and users there may be.                     *)
(***************************************************************************)
EXTENDS Naturals

VARIABLES list,      \* the waiting requests: a set of [id, song, user]
          last       \* the id of the newest request ever added

vars == <<list, last>>

Init == list = {} /\ last = 0

\* A request is added behind all others; its song is not waiting already.
Add ==
    /\ last' = last + 1
    /\ \E new \in list' :
          /\ new.id = last'
          /\ \A e \in list : e.song # new.song
          /\ list' = list \cup {new}

\* Requests are played, skipped or reset: they leave the list.
Remove ==
    /\ list' \subseteq list
    /\ UNCHANGED last

Next == Add \/ Remove

Spec == Init /\ [][Next]_vars
=============================================================================
