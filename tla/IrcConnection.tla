--------------------------- MODULE IrcConnection ---------------------------
(***************************************************************************)
(* The life of the chat connection (irc_connection with irc_client's login *)
(* and bot::run, bot::stop).  Two actors run the same code without a lock: *)
(* the main thread, which connects, logs in and one day stops the bot, and *)
(* the chain of read handlers on the thread pool, which reconnects when a  *)
(* read fails.  The peer and the network may fail at any moment.           *)
(***************************************************************************)
EXTENDS Integers, Sequences

CONSTANTS
    MaxLines,      \* bound: lines that wait to be read
    MaxChats,      \* bound: chat lines the server sends
    MaxLosses,     \* bound: connections lost
    MaxLookups,    \* bound: look-ups of the server's name that fail
    MaxOutages     \* bound: times the network is unreachable

ASSUME BoundsAssumption ==
    /\ MaxLines \in Nat /\ MaxChats \in Nat
    /\ MaxLosses \in Nat /\ MaxLookups \in Nat /\ MaxOutages \in Nat

Actors == {"main", "reader"}

\* What the bot writes to log in and to join the channel.
LoginLines == <<"PASS", "NICK", "USER", "JOIN">>

VARIABLES
    pc,          \* where each actor is
    connected,   \* connected_
    registered,  \* registered_
    link,        \* the socket: "closed", "opened", "up", "shut" down by us, "lost"
    inbox,       \* lines received and not yet handled; buffer_ keeps its part
    residue,     \* does buffer_ start with a part of a line of an old connection?
    reads,       \* outstanding reads, by how they can end
    got,         \* the line the reader handles
    next,        \* the index in LoginLines of what the main thread sends next
    received,    \* lines the server received on this connection
    iosStopped,  \* has tp_cleanup stopped the io_service?
    network,     \* can the server be reached?
    chats, losses, lookups, outages

flags   == <<connected, registered>>
wire    == <<link, inbox, residue>>
peer    == <<received, chats>>
world   == <<network, losses, lookups, outages>>
vars    == <<pc, flags, wire, reads, got, next, peer, iosStopped, world>>

GoTo(a, where) == pc' = [pc EXCEPT ![a] = where]

NoReads == [pending |-> 0, aborted |-> 0, bad |-> 0]

Init ==
    /\ pc = [main |-> "connect", reader |-> "idle"]
    /\ connected = FALSE /\ registered = FALSE
    /\ link = "closed" /\ inbox = <<>> /\ residue = FALSE
    /\ reads = NoReads /\ got = "none"
    /\ next = 1 /\ received = {}
    /\ iosStopped = FALSE /\ network \in BOOLEAN
    /\ chats = 0 /\ losses = 0 /\ lookups = 0 /\ outages = 0

\* read_line on an open or on a closed socket.  Whole lines in buffer_ are
\* delivered either way.
StartRead ==
    reads' = IF link = "closed" THEN [reads EXCEPT !.bad = @ + 1]
             ELSE [reads EXCEPT !.pending = @ + 1]

\* Closing the socket ends what is outstanding on it.
AbortReads == [reads EXCEPT !.pending = 0, !.aborted = @ + reads.pending]

\* Lines still on the wire are gone; those in buffer_ stay, the last of them
\* perhaps cut off.
CloseSocket ==
    /\ link' = "closed" /\ reads' = AbortReads
    /\ \E n \in 0 .. Len(inbox) : inbox' = SubSeq(inbox, 1, n)
    /\ residue' \in IF link \in {"closed", "opened"} THEN {residue} ELSE {residue, TRUE}

-----------------------------------------------------------------------------
(* connect(), run by the main thread and by reconnect(). *)

AfterConnect(a) == IF a = "main" THEN "login" ELSE "idle"

\* Nothing is done when connected_ is set already, which no schedule of the two
\* actors brings about.
Resolve(a) ==
    /\ pc[a] = "connect"
    /\ GoTo(a, IF connected THEN AfterConnect(a) ELSE "dial")
    /\ UNCHANGED <<flags, wire, reads, got, next, peer, iosStopped, world>>

\* Nobody tries again after a failed look-up.
ResolveFails(a) ==
    /\ pc[a] = "connect" /\ ~connected
    /\ lookups < MaxLookups /\ lookups' = lookups + 1
    /\ GoTo(a, AfterConnect(a))
    /\ UNCHANGED <<flags, wire, reads, got, next, peer, iosStopped, network, losses, outages>>

OtherCloses(a) == \E b \in Actors \ {a} : pc[b] = "close"

\* The loop over the addresses.  Two calls that close one descriptor at a time
\* may each find it open, and the second one then fails, which throws here.
Dial(a) ==
    /\ pc[a] = "dial"
    /\ \/ CloseSocket /\ GoTo(a, "attempt")
       \/ /\ link # "closed" /\ OtherCloses(a)
          /\ GoTo(a, "thrown")
          /\ UNCHANGED <<wire, reads>>
    /\ UNCHANGED <<flags, got, next, peer, iosStopped, world>>

\* The iterator is never advanced: the first address is tried until it answers.
Attempt(a) ==
    /\ pc[a] = "attempt"
    /\ \/ /\ network
          /\ link' = "up" /\ received' = {}
          /\ GoTo(a, "option")
       \/ /\ ~network \/ OtherCloses(a)
          /\ link' = "opened"
          /\ GoTo(a, "dial")
          /\ UNCHANGED received
    /\ UNCHANGED <<flags, inbox, residue, reads, got, next, chats, iosStopped, world>>

\* set_option throws on a socket that has been closed in the meantime.
SetOption(a) ==
    /\ pc[a] = "option"
    /\ GoTo(a, IF link = "closed" THEN "thrown" ELSE "connected")
    /\ UNCHANGED <<flags, wire, reads, got, next, peer, iosStopped, world>>

\* The ping timer's wait is started as well, see PingTimer.
Connected(a) ==
    /\ pc[a] = "connected"
    /\ connected' = TRUE
    /\ GoTo(a, "read")
    /\ UNCHANGED <<registered, wire, reads, got, next, peer, iosStopped, world>>

FirstRead(a) ==
    /\ pc[a] = "read"
    /\ StartRead
    /\ GoTo(a, AfterConnect(a))
    /\ UNCHANGED <<flags, wire, got, next, peer, iosStopped, world>>

-----------------------------------------------------------------------------
(* disconnect(), run by stop() and by reconnect(). *)

\* Variant: reconnect() only disconnects.
AfterDisconnectNothing(a) == IF a = "main" THEN "stopped" ELSE "idle"

AfterDisconnect(a) == IF a = "main" THEN "stopped" ELSE "connect"

Disconnect(a) ==
    /\ pc[a] = "disconnect"
    /\ GoTo(a, IF connected THEN "shutdown" ELSE AfterDisconnect(a))
    /\ UNCHANGED <<flags, wire, reads, got, next, peer, iosStopped, world>>

Shutdown(a) ==
    /\ pc[a] = "shutdown"
    /\ link' = IF link = "up" THEN "shut" ELSE link
    /\ GoTo(a, "close")
    /\ UNCHANGED <<flags, inbox, residue, reads, got, next, peer, iosStopped, world>>

Close(a) ==
    /\ pc[a] = "close"
    /\ CloseSocket
    /\ GoTo(a, "forget")
    /\ UNCHANGED <<flags, got, next, peer, iosStopped, world>>

Forget(a) ==
    /\ pc[a] = "forget"
    /\ connected' = FALSE /\ registered' = FALSE
    /\ GoTo(a, AfterDisconnect(a))
    /\ UNCHANGED <<wire, reads, got, next, peer, iosStopped, world>>

-----------------------------------------------------------------------------
(* The main thread: bot::run, and bot::stop with tp_cleanup. *)

\* login and join: four synchronous writes.
LineDone ==
    /\ next' = next + 1
    /\ GoTo("main", IF next = Len(LoginLines) THEN "running" ELSE "login")

\* write_line looks at connected_ first; the line is logged and lost.
Login ==
    /\ pc["main"] = "login"
    /\ IF connected THEN GoTo("main", "write") /\ UNCHANGED next ELSE LineDone
    /\ UNCHANGED <<flags, wire, reads, got, peer, iosStopped, world>>

\* The connection may have been replaced since, by one that is not yet marked.
WriteLine ==
    /\ pc["main"] = "write"
    /\ received' = IF link = "up" THEN received \cup {LoginLines[next]} ELSE received
    /\ LineDone
    /\ UNCHANGED <<flags, wire, reads, got, chats, iosStopped, world>>

\* A key is pressed; stop() asks for connected_ before it calls disconnect().
Stop ==
    /\ pc["main"] = "running"
    /\ GoTo("main", IF connected THEN "disconnect" ELSE "stopped")
    /\ UNCHANGED <<flags, wire, reads, got, next, peer, iosStopped, world>>

\* Variant: the io_service goes on.
StopIosNot ==
    /\ pc["main"] = "stopped"
    /\ GoTo("main", "join")
    /\ UNCHANGED <<iosStopped, flags, wire, reads, got, next, peer, world>>

StopIos ==
    /\ pc["main"] = "stopped"
    /\ iosStopped' = TRUE
    /\ GoTo("main", "join")
    /\ UNCHANGED <<flags, wire, reads, got, next, peer, world>>

\* join_all waits until run() returns on every thread: at once when the
\* io_service is stopped, but for the handler that runs.
Join ==
    /\ pc["main"] = "join" /\ iosStopped /\ pc["reader"] = "idle"
    /\ GoTo("main", "ended")
    /\ UNCHANGED <<flags, wire, reads, got, next, peer, iosStopped, world>>

-----------------------------------------------------------------------------
(* The read handler line_read, on a thread of the pool. *)

\* A part of a line that was left behind makes the next line unreadable.
ReadLine ==
    /\ pc["reader"] = "idle" /\ ~iosStopped /\ inbox # <<>>
    /\ \E k \in {"pending", "bad"} :
          reads[k] > 0 /\ reads' = [reads EXCEPT ![k] = @ - 1]
    /\ got' = IF residue THEN "garbled" ELSE Head(inbox)
    /\ residue' = FALSE /\ inbox' = Tail(inbox)
    /\ GoTo("reader", "line")
    /\ UNCHANGED <<flags, link, next, peer, iosStopped, world>>

\* Variant: the handler reads on while it reconnects.
ReadFailsReadingOn ==
    /\ pc["reader"] = "idle" /\ ~iosStopped /\ inbox = <<>>
    /\ \/ /\ link \in {"lost", "shut"} /\ reads.pending > 0
          /\ UNCHANGED reads
       \/ reads.bad > 0 /\ reads' = [reads EXCEPT !.bad = @ - 1]
    /\ GoTo("reader", "disconnect")
    /\ UNCHANGED <<flags, wire, got, next, peer, iosStopped, world>>

\* Any error but operation_aborted: reconnect().  A connection that we have
\* shut down ourselves reports the end of the stream, and a read started on a
\* closed socket a bad descriptor.
ReadFails ==
    /\ pc["reader"] = "idle" /\ ~iosStopped /\ inbox = <<>>
    /\ \/ /\ link \in {"lost", "shut"}
          /\ reads.pending > 0 /\ reads' = [reads EXCEPT !.pending = @ - 1]
       \/ reads.bad > 0 /\ reads' = [reads EXCEPT !.bad = @ - 1]
    /\ GoTo("reader", "disconnect")
    /\ UNCHANGED <<flags, wire, got, next, peer, iosStopped, world>>

ReadAborted ==
    /\ pc["reader"] = "idle" /\ ~iosStopped
    /\ reads.aborted > 0 /\ reads' = [reads EXCEPT !.aborted = @ - 1]
    /\ UNCHANGED <<pc, flags, wire, got, next, peer, iosStopped, world>>

\* Variant: a line that cannot be read is taken for a lost connection.
HandleLineReconnecting ==
    /\ pc["reader"] = "line"
    /\ registered' = (registered \/ got = "welcome")
    /\ received' = IF ~registered /\ got = "welcome" /\ link = "up"
                   THEN received \cup {"CAP"} ELSE received
    /\ got' = "none"
    /\ GoTo("reader", IF got = "garbled" THEN "disconnect" ELSE "rearm")
    /\ UNCHANGED <<connected, wire, reads, next, chats, iosStopped, world>>

\* parse_line sees the welcome reply; ev_logged_in asks for capabilities.
\* What a chat line does is up to the handlers of the messages.
HandleLine ==
    /\ pc["reader"] = "line"
    /\ registered' = (registered \/ got = "welcome")
    /\ received' = IF ~registered /\ got = "welcome" /\ link = "up"
                   THEN received \cup {"CAP"} ELSE received
    /\ got' = "none"
    /\ GoTo("reader", "rearm")
    /\ UNCHANGED <<connected, wire, reads, next, chats, iosStopped, world>>

Rearm ==
    /\ pc["reader"] = "rearm"
    /\ StartRead
    /\ GoTo("reader", "idle")
    /\ UNCHANGED <<flags, wire, got, next, peer, iosStopped, world>>

-----------------------------------------------------------------------------
(* The server and the network. *)

LoggedIn == {"PASS", "NICK", "USER"} \subseteq received

\* The server welcomes a login once.
Welcome ==
    /\ link = "up" /\ LoggedIn /\ "welcomed" \notin received
    /\ Len(inbox) < MaxLines
    /\ inbox' = Append(inbox, "welcome")
    /\ received' = received \cup {"welcomed"}
    /\ UNCHANGED <<pc, flags, link, residue, reads, got, next, chats, iosStopped, world>>

ChatLine ==
    /\ link = "up" /\ {"welcomed", "JOIN"} \subseteq received
    /\ Len(inbox) < MaxLines /\ chats < MaxChats
    /\ inbox' = Append(inbox, "chat")
    /\ chats' = chats + 1
    /\ UNCHANGED <<pc, flags, link, residue, reads, got, next, received, iosStopped, world>>

LinkLost ==
    /\ link = "up" /\ losses < MaxLosses
    /\ link' = "lost" /\ losses' = losses + 1
    /\ UNCHANGED <<pc, flags, inbox, residue, reads, got, next, peer, iosStopped, network, lookups, outages>>

NetworkDown ==
    /\ network /\ outages < MaxOutages
    /\ network' = FALSE /\ outages' = outages + 1
    /\ UNCHANGED <<pc, flags, wire, reads, got, next, peer, iosStopped, losses, lookups>>

NetworkUp ==
    /\ ~network
    /\ network' = TRUE
    /\ UNCHANGED <<pc, flags, wire, reads, got, next, peer, iosStopped, losses, lookups, outages>>

Procedures(a) ==
    \/ Resolve(a) \/ ResolveFails(a)
    \/ Dial(a) \/ Attempt(a) \/ SetOption(a) \/ Connected(a) \/ FirstRead(a)
    \/ Disconnect(a) \/ Shutdown(a) \/ Close(a) \/ Forget(a)

\* Nothing catches what is thrown on the pool or in main: the process ends.
Alive == \A a \in Actors : pc[a] # "thrown"

Main == Alive /\ (Procedures("main") \/ Login \/ WriteLine \/ StopIos \/ Join)

Reader ==
    Alive /\ (Procedures("reader") \/ ReadLine \/ ReadFails \/ ReadAborted \/ HandleLine \/ Rearm)

Server == Alive /\ (Welcome \/ ChatLine \/ LinkLost \/ NetworkDown \/ NetworkUp)

Next == Main \/ (Alive /\ Stop) \/ Reader \/ Server

Spec == Init /\ [][Next]_vars

\* Threads run, and the server answers a login; nobody has to stop the bot.
FairSpec == Spec /\ WF_vars(Main) /\ WF_vars(Reader) /\ WF_vars(Alive /\ Welcome)
=============================================================================
