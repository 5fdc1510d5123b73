--------------------------- MODULE PingTimerProps ---------------------------
(***************************************************************************)
(* What the keep-alive does, and what its comments and messages claim.     *)
(***************************************************************************)
EXTENDS PingTimer

FlagTypes ==
    /\ registered \in BOOLEAN /\ awaiting \in BOOLEAN
    /\ pinged \in BOOLEAN /\ warned \in BOOLEAN /\ late \in BOOLEAN

NumberTypes ==
    /\ pingAge \in 0 .. Old /\ pongAge \in 0 .. Old
    /\ left \in 0 .. PingInterval
    /\ waits \in Nat /\ check \in Nat /\ deciding \in Nat /\ rearm \in Nat /\ arm \in Nat
    /\ writing \in Nat /\ pongs \in Nat
    /\ link \in {"up", "silent", "failed"}
    /\ reconnects \in Nat

\* Every variable keeps its type: no age is counted beyond its bound, no
\* handler is taken twice.
TypeOK == FlagTypes /\ NumberTypes

Running == waits + check + deciding + rearm + arm

\* The timer never runs dry, and never has more handlers than connect() has
\* started, although handlers on several threads cancel each other's waits and
\* two that set the expiry one after the other both leave a wait.
TimerRuns == Running >= 1 /\ Running <= 1 + reconnects

\* With a timeout of no more than two intervals, as in the code, a timer whose
\* handlers have always run within the second has never sent a PING: at the
\* first expiry the last PONG is exactly one interval old, at the second the
\* last PING is too old.
PunctualNeverPings ==
    ~late /\ PingTimeout <= 2 * PingInterval => ~pinged

\* The last PING is too old, none is being written, and no handler is left that
\* has found one to be due before.
Silent == pingAge >= PingTimeout /\ writing = 0 /\ deciding = 0

\* A keep-alive that has been silent for PingTimeout is dead: no later step
\* sends a PING, not even after a reconnect, because only the handler of a
\* PING takes the time of the last one.
SilenceIsFinal == [][Silent => Silent']_vars

-----------------------------------------------------------------------------
(* Claims of comments and messages that the code does not keep. *)

\* "Ping timeout, connection lost"
TimeoutMeansLost == warned => link # "up"

\* "if the connection actually IS lost, read_line will fail and attempt to
\* reconnect"
LossIsNoticed == (registered /\ link = "silent") ~> link = "failed"
=============================================================================
