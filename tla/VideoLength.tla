---------------------------- MODULE VideoLength ----------------------------
(***************************************************************************)
(* The length of a youtube video: youtube sends it as an ISO 8601 duration *)
(* without the parts that are zero ("PT1H2M5S", "PT4M", "PT0S",            *)
(* "P1DT2H5S"), parse_duration turns it into seconds, and request_song     *)
(* compares these with the longest length it admits.                       *)
(***************************************************************************)
EXTENDS Integers

CONSTANTS
    MaxDays, MaxHours,   \* bounds: days, hours,
    MaxParts,            \* and minutes and seconds
    MaxSongLength        \* maxSongLength_, in seconds

ASSUME VideoAssumption == MaxDays \in Nat /\ MaxHours \in Nat /\ MaxParts \in Nat

Videos ==
    [days : 0 .. MaxDays, hours : 0 .. MaxHours, minutes : 0 .. MaxParts, seconds : 0 .. MaxParts]

Seconds(v) == 86400 * v.days + 3600 * v.hours + 60 * v.minutes + v.seconds

\* The parts that are written.
Written(v) ==
    LET nonzero == {p \in DOMAIN v : v[p] # 0}
    IN  IF nonzero = {} THEN {"seconds"} ELSE nonzero

\* The pattern has optional hours and minutes but demands seconds and knows of no
\* days.
Matches(v) == "seconds" \in Written(v) /\ "days" \notin Written(v)

\* Variant: an hour has a hundred minutes.
ParseHundreds(v) ==
    IF ~Matches(v) THEN 0
    ELSE 6000 * v.hours + 60 * v.minutes + v.seconds

\* What does not match has no length.
Parse(v) ==
    IF ~Matches(v) THEN 0
    ELSE v.seconds + (IF "minutes" \in Written(v) THEN 60 * v.minutes ELSE 0)
                   + (IF "hours" \in Written(v) THEN 3600 * v.hours ELSE 0)

TooLong(v) == Parse(v) > MaxSongLength
=============================================================================
