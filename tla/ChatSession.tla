---------------------------- MODULE ChatSession ----------------------------
(***************************************************************************)
(* The chat connection as the server sees it, and what registered_ says of *)
(* it, until the bot is stopped: one link at a time, which ends only when  *)
(* the peer or the network takes it and never by the bot; the login is     *)
(* sent once, in order; capabilities are asked for once the server has     *)
(* welcomed the login of this very link; and a new link is opened only     *)
(* when the old one has been forgotten.                                    *)
(***************************************************************************)
EXTENDS Naturals, Sequences

CONSTANT LoginLines   \* the last one joins the channel

VARIABLES
    up,           \* is there a link?
    taken,        \* how many links the peer or the network has taken
    heard,        \* what the server has heard, and whether it has "welcomed"
    sent,         \* how many lines of the login have been sent, or lost
    registered,
    stopped

vars == <<up, taken, heard, sent, registered, stopped>>

Init ==
    /\ up = FALSE /\ taken = 0 /\ heard = {} /\ sent = 0
    /\ registered = FALSE /\ stopped = FALSE

Open ==
    /\ ~up /\ ~registered
    /\ up' = TRUE /\ heard' = {}
    /\ UNCHANGED <<taken, sent, registered>>

\* A line of the login; it is lost without a link, or while one is made.
Say ==
    /\ sent < Len(LoginLines) /\ sent' = sent + 1
    /\ \/ up /\ heard' = heard \cup {LoginLines[sent']}
       \/ UNCHANGED heard
    /\ UNCHANGED <<up, taken, registered>>

Welcome ==
    /\ up /\ "welcomed" \notin heard
    /\ \A i \in 1 .. Len(LoginLines) - 1 : LoginLines[i] \in heard
    /\ heard' = heard \cup {"welcomed"}
    /\ UNCHANGED <<up, taken, sent, registered>>

\* The bot has read the welcome; the link may be gone by then.
Register ==
    /\ ~registered /\ "welcomed" \in heard
    /\ registered' = TRUE
    /\ heard' = IF up THEN heard \cup {"CAP"} ELSE heard
    /\ UNCHANGED <<up, taken, sent>>

Lose ==
    /\ up /\ up' = FALSE /\ taken' = taken + 1
    /\ UNCHANGED <<heard, sent, registered>>

Forget ==
    /\ ~up /\ registered' = FALSE
    /\ UNCHANGED <<up, taken, heard, sent>>

Stop == stopped' = TRUE /\ UNCHANGED <<up, taken, heard, sent, registered>>

Next ==
    \/ Stop
    \/ UNCHANGED stopped /\ (stopped \/ Open \/ Say \/ Welcome \/ Register \/ Lose \/ Forget)

Spec == Init /\ [][Next]_vars
=============================================================================
