-------------------------- MODULE MessagesByValue --------------------------
(***************************************************************************)
(* What the read handler and the pool promise to commands and modules, as  *)
(* if messages and users were values and nothing were counted, recycled or *)
(* pointed into: a chat line becomes one message, with its own text and    *)
(* author; one thread handles it, once; its author is asked about at most  *)
(* once, and served once.  What somebody has in hand is a set of at most   *)
(* one value.                                                              *)
(***************************************************************************)
EXTENDS Naturals

CONSTANT Workers

VARIABLES
    last,       \* the number of the newest line
    reading,    \* the message the read handler makes of it
    waiting,    \* messages that wait for a thread
    handling,   \* the message a thread makes a command of
    requests,   \* authors of the song requests that wait
    serving     \* the author of the one being served

vars == <<last, reading, waiting, handling, requests, serving>>

Message(n, id) == [text |-> n, author |-> [id |-> id, name |-> n]]

Init ==
    /\ last = 0
    /\ reading = {} /\ waiting = {}
    /\ handling = [t \in Workers |-> {}]
    /\ requests = {} /\ serving = {}

\* A line comes in; it is a message, with or without a user-id, or is not.
Read ==
    /\ reading = {}
    /\ last' = last + 1
    /\ \/ reading' = {}
       \/ \E id \in {0, last'} : reading' = {Message(last', id)}
    /\ UNCHANGED <<waiting, handling, requests, serving>>

Post ==
    /\ \E m \in reading : waiting' = waiting \cup {m}
    /\ reading' = {}
    /\ UNCHANGED <<last, handling, requests, serving>>

Take(t) ==
    /\ handling[t] = {}
    /\ \E m \in waiting :
          /\ waiting' = waiting \ {m}
          /\ handling' = [handling EXCEPT ![t] = {m}]
    /\ UNCHANGED <<last, reading, requests, serving>>

\* The message has been handled; its command was a song request, or was not.
Handle(t) ==
    /\ \E m \in handling[t] : requests' \in {requests, requests \cup {m.author}}
    /\ handling' = [handling EXCEPT ![t] = {}]
    /\ UNCHANGED <<last, reading, waiting, serving>>

Serve ==
    /\ serving = {}
    /\ \E a \in requests : requests' = requests \ {a} /\ serving' = {a}
    /\ UNCHANGED <<last, reading, waiting, handling>>

Served ==
    /\ serving # {} /\ serving' = {}
    /\ UNCHANGED <<last, reading, waiting, handling, requests>>

Next == Read \/ Post \/ (\E t \in Workers : Take(t) \/ Handle(t)) \/ Serve \/ Served

Spec == Init /\ [][Next]_vars
=============================================================================
