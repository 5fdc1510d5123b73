----------------------------- MODULE PingTimer -----------------------------
(***************************************************************************)
(* The keep-alive of the chat connection: ping_timer_elapsed, check_ping,  *)
(* the handler of the PING's write and the PONG of parse_line, which run   *)
(* on any threads of the pool.  Time is whole seconds, as check_ping       *)
(* counts them; ages are kept in place of points in time and are not       *)
(* counted beyond Old.                                                     *)
(***************************************************************************)
EXTENDS Integers

CONSTANTS
    PingInterval,     \* pingInterval_
    PingTimeout,      \* pingTimeout_
    Old,              \* bound: ages from here on are not told apart
    MaxPings,         \* bound: PINGs and PONGs on their way
    MaxReconnects     \* bound: times connect() is called again

ASSUME PingAssumption ==
    /\ PingInterval \in Nat \ {0} /\ PingTimeout \in Nat \ {0}
    /\ MaxPings \in Nat /\ MaxReconnects \in Nat
    /\ Old \in Nat /\ Old >= PingTimeout /\ Old > PingInterval

VARIABLES
    registered,   \* registered_
    pingAge,      \* seconds since lastPingSent_
    pongAge,      \* seconds since lastPongReceived_
    awaiting,     \* is lastPingSent_ > lastPongReceived_?
    left,         \* seconds until the timer's expiry
    waits,        \* async_waits on the timer that are outstanding
    check,        \* handlers that have to look at the times
    deciding,     \* handlers in check_ping that have found a PING to be due
    rearm,        \* handlers that have to set the timer's expiry
    arm,          \* handlers that have to wait for it
    writing,      \* PINGs whose write has not been reported yet
    pongs,        \* PONGs on their way
    pinged,       \* has a PING been written on this connection?
    warned,       \* has the last check reported a lost connection?
    link,         \* "up", "silent": nothing arrives any more; "failed"
    late,         \* history: has a second ever passed on an expired timer or a handler?
    reconnects

clocks   == <<pingAge, pongAge, awaiting>>
handlers == <<check, deciding, rearm, arm>>
timer    == <<left, waits, handlers>>
peer     == <<writing, pongs, pinged, link>>
vars     == <<registered, clocks, timer, peer, warned, late, reconnects>>

Init ==
    /\ registered = FALSE
    /\ pingAge = 0 /\ pongAge = 0 /\ awaiting = FALSE
    /\ left = PingInterval /\ waits = 1
    /\ check = 0 /\ deciding = 0 /\ rearm = 0 /\ arm = 0
    /\ writing = 0 /\ pongs = 0 /\ pinged = FALSE
    /\ warned = FALSE /\ late = FALSE /\ link = "up"
    /\ reconnects = 0

Older(age) == IF age < Old THEN age + 1 ELSE Old

UnderWay == check + deciding + rearm + arm > 0

\* Time passes whatever the threads are at.
Tick ==
    /\ left' = IF left = 0 THEN 0 ELSE left - 1
    /\ pingAge' = Older(pingAge) /\ pongAge' = Older(pongAge)
    /\ late' = (late \/ left = 0 \/ UnderWay)
    /\ UNCHANGED <<registered, awaiting, waits, handlers, peer, warned, reconnects>>

-----------------------------------------------------------------------------
(* The timer's handlers. *)

\* The timer expires: every wait on it ends.
Expire ==
    /\ left = 0 /\ waits > 0
    /\ check' = check + waits
    /\ waits' = 0
    /\ UNCHANGED <<registered, clocks, left, deciding, rearm, arm, peer, warned, late, reconnects>>

\* Variant: at the interval, not beyond it, and whatever the age of the PING.
DueAlways == pongAge >= PingInterval

\* What the ages of the last PING and PONG must be for a PING.
Due == pingAge < PingTimeout /\ pongAge > PingInterval

\* check_ping takes the two ages, and goes on to its decision or reports a lost
\* connection and nothing else.
CheckTimes ==
    /\ check > 0 /\ check' = check - 1
    /\ \/ registered /\ Due /\ deciding' = deciding + 1 /\ UNCHANGED rearm
       \/ ~(registered /\ Due) /\ rearm' = rearm + 1 /\ UNCHANGED deciding
    /\ warned' = (registered /\ pingAge >= PingTimeout)
    /\ UNCHANGED <<registered, clocks, left, waits, arm, peer, late, reconnects>>

\* The points in time themselves are compared after that, and may have changed.
\* A server that is there will answer.
Decide ==
    /\ deciding > 0 /\ deciding' = deciding - 1
    /\ rearm' = rearm + 1
    /\ \/ /\ ~awaiting /\ writing + pongs < MaxPings
          /\ writing' = writing + 1 /\ pinged' = TRUE
          /\ pongs' = IF link = "up" THEN pongs + 1 ELSE pongs
       \/ /\ awaiting
          /\ UNCHANGED <<writing, pinged, pongs>>
    /\ UNCHANGED <<registered, clocks, left, waits, check, arm, link, warned, late, reconnects>>

\* expires_from_now cancels the waits of others, whose handlers then return at
\* once.
Reschedule ==
    /\ rearm > 0
    /\ rearm' = rearm - 1 /\ arm' = arm + 1
    /\ left' = PingInterval /\ waits' = 0
    /\ UNCHANGED <<registered, clocks, check, deciding, peer, warned, late, reconnects>>

\* Variant: the wait is started before the expiry is set.
StartWaitCancelled ==
    /\ arm > 0
    /\ arm' = arm - 1
    /\ left' = PingInterval /\ waits' = 0
    /\ UNCHANGED <<registered, clocks, check, deciding, rearm, peer, warned, late, reconnects>>

\* async_wait.  Handlers that have all set the expiry before leave a wait each.
StartWait ==
    /\ arm > 0
    /\ arm' = arm - 1
    /\ waits' = waits + 1
    /\ UNCHANGED <<registered, clocks, left, check, deciding, rearm, peer, warned, late, reconnects>>

\* The write's handler takes the time.
PingWritten ==
    /\ writing > 0 /\ link # "failed"
    /\ writing' = writing - 1
    /\ pingAge' = 0 /\ awaiting' = TRUE
    /\ UNCHANGED <<registered, pongAge, timer, pongs, pinged, warned, link, late, reconnects>>

\* The PONG takes the time as well: it may be handled before PingWritten.
PongReceived ==
    /\ pongs > 0 /\ link = "up"
    /\ pongs' = pongs - 1
    /\ pongAge' = 0 /\ awaiting' = FALSE
    /\ UNCHANGED <<registered, pingAge, timer, writing, pinged, warned, link, late, reconnects>>

-----------------------------------------------------------------------------
(* The connection and the server. *)

\* The server welcomes the login.
Register ==
    /\ ~registered /\ link = "up"
    /\ registered' = TRUE
    /\ UNCHANGED <<clocks, timer, peer, warned, late, reconnects>>

\* The peer is gone and nothing says so.
GoSilent ==
    /\ link = "up"
    /\ link' = "silent" /\ pongs' = 0
    /\ UNCHANGED <<registered, clocks, timer, writing, pinged, warned, late, reconnects>>

\* TCP gives up on data that nobody acknowledges: the read fails.
TcpGivesUp ==
    /\ link = "silent" /\ pinged
    /\ link' = "failed"
    /\ UNCHANGED <<registered, clocks, timer, writing, pongs, pinged, warned, late, reconnects>>

\* The peer closes the connection: the read fails.
PeerCloses ==
    /\ link = "up"
    /\ link' = "failed"
    /\ UNCHANGED <<registered, clocks, timer, writing, pongs, pinged, warned, late, reconnects>>

\* The read handler's reconnect(): the writes end with an error, a further wait
\* is started on the running timer, and the times are kept.
Reconnect ==
    /\ link = "failed" /\ reconnects < MaxReconnects
    /\ link' = "up" /\ registered' = FALSE
    /\ writing' = 0 /\ pongs' = 0 /\ pinged' = FALSE
    /\ waits' = waits + 1
    /\ reconnects' = reconnects + 1
    /\ UNCHANGED <<clocks, left, handlers, warned, late>>

Handlers ==
    \/ Expire \/ CheckTimes \/ Decide \/ Reschedule \/ StartWait
    \/ PingWritten \/ PongReceived

Connection == Register \/ GoSilent \/ TcpGivesUp \/ PeerCloses \/ Reconnect

Next == Tick \/ Handlers \/ Connection

Spec == Init /\ [][Next]_vars

\* Time passes, the pool runs its handlers, and TCP does not wait for ever.
FairSpec ==
    /\ Spec
    /\ WF_vars(Tick) /\ WF_vars(Expire) /\ WF_vars(CheckTimes) /\ WF_vars(Decide)
    /\ WF_vars(Reschedule) /\ WF_vars(StartWait)
    /\ WF_vars(PingWritten) /\ WF_vars(PongReceived) /\ WF_vars(TcpGivesUp)
=============================================================================
