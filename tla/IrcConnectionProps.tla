------------------------- MODULE IrcConnectionProps -------------------------
(***************************************************************************)
(* What the connection must guarantee, and what its comments and messages  *)
(* claim.                                                                  *)
(***************************************************************************)
EXTENDS IrcConnection

Places ==
    {"connect", "dial", "attempt", "option", "connected", "read", "thrown",
     "disconnect", "shutdown", "close", "forget"}

ServerKnows == {LoginLines[i] : i \in DOMAIN LoginLines} \cup {"CAP", "welcomed"}

MainPlaces == Places \cup {"login", "write", "running", "stopped", "join", "ended"}

ReaderPlaces == Places \cup {"idle", "line", "rearm"}

\* In connect().
Connecting == {"connect", "dial", "attempt", "option", "connected", "read"}

PlaceTypes ==
    /\ pc \in [Actors -> MainPlaces \cup ReaderPlaces]
    /\ pc["main"] \in MainPlaces /\ pc["reader"] \in ReaderPlaces

FlagTypes ==
    /\ connected \in BOOLEAN /\ registered \in BOOLEAN
    /\ residue \in BOOLEAN /\ iosStopped \in BOOLEAN /\ network \in BOOLEAN

ReadTypes ==
    /\ reads \in [{"pending", "aborted", "bad"} -> Nat]
    /\ got \in {"none", "welcome", "chat", "garbled"}
    /\ pc["reader"] = "line" => got # "none"

WireTypes ==
    /\ link \in {"closed", "opened", "up", "shut", "lost"}
    /\ inbox \in Seq({"welcome", "chat"})

PeerTypes ==
    /\ next \in 1 .. Len(LoginLines) + 1
    /\ pc["main"] \in Connecting \cup {"login", "write"} => next <= Len(LoginLines)
    /\ received \subseteq ServerKnows

CountTypes ==
    chats \in Nat /\ losses \in Nat /\ lookups \in Nat /\ outages \in Nat

\* Every variable keeps its type, and a handler has a line, and the main
\* thread something to send, while it needs one.
TypeOK == PlaceTypes /\ FlagTypes /\ ReadTypes /\ WireTypes /\ PeerTypes /\ CountTypes

Stopping == pc["main"] \in {"disconnect", "shutdown", "close", "forget", "stopped", "join", "ended"}

\* There is never more than one outstanding read or running read handler, over
\* failed look-ups, reconnects and a concurrent stop: buffer_, the socket and
\* the parser have no lock.
OneReader ==
    reads.pending + reads.aborted + reads.bad
        + (IF pc["reader"] = "idle" THEN 0 ELSE 1) <= 1

\* Until the bot is stopped, registered_ speaks of the current connection: it
\* is set only while the server has welcomed the login of this very link.
RegisteredIsCurrent ==
    ~Stopping /\ registered => connected /\ LoggedIn /\ "welcomed" \in received

Session == INSTANCE ChatSession
           WITH up <- link = "up", taken <- losses, heard <- received, sent <- next - 1,
                stopped <- Stopping

\* Over failures at any point of connect, login and reconnect, the server and
\* the rest of the bot see a session as ChatSession has it: a link ends only by
\* a loss on the peer's side, so that the bot gives up no live one; none is
\* opened while registered_ speaks of another; and registration follows the
\* welcome of the same link.
ImplementsSession == Session!Spec

\* A lost connection is replaced if the network stays reachable from some time
\* on, unless a look-up of the server's name has failed (nobody tries again) or
\* the bot is being stopped.
LossIsRepaired ==
    (<>[]network) => (link = "lost" ~> link = "up" \/ lookups > 0 \/ Stopping)

\* The bot ends after stop(), if the network stays reachable from some time on:
\* join_all may have to wait for a read handler that is reconnecting.  It ends
\* by returning from join_all, or at once when that handler throws because
\* stop() has closed the socket it has just connected.
ShutdownEnds == (<>[]network) => (Stopping ~> pc["main"] = "ended" \/ ~Alive)

-----------------------------------------------------------------------------
(* Claims of comments and messages that the code does not keep. *)

\* "Disconnected...": once stop() is over the bot has no connection.
StopDisconnects == pc["main"] = "ended" => ~connected

\* After "bot.stop();" main goes on to its three cleanups: nothing on the pool
\* ends the process before them.
CleanupsReached == Alive

\* "if the connection actually IS lost, read_line will fail and attempt to
\* reconnect": so nothing else needs to be done to be back in the chat.
ReconnectReturnsToChat ==
    (<>[]network) => (link = "lost" ~> (registered /\ link = "up") \/ lookups > 0 \/ Stopping)
=============================================================================
