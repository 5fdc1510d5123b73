--------------------------- MODULE PingTimerProofs ---------------------------
(***************************************************************************)
(* Proofs about PingTimer for all intervals and timeouts, however late the *)
(* threads are.                                                            *)
(***************************************************************************)
EXTENDS PingTimerProps, TLAPS

\* Types and the number of handlers together: each needs the other's counts.
HandlersInv == TypeOK /\ TimerRuns

LEMMA FlagsNext == FlagTypes /\ [Next]_vars => FlagTypes'
<1> SUFFICES ASSUME FlagTypes, [Next]_vars
             PROVE  FlagTypes'
  OBVIOUS
<1> USE DEF FlagTypes, clocks, timer, handlers, peer
<1>1. CASE CheckTimes
  <2>1. warned' \in BOOLEAN
    BY <1>1, Zenon DEF CheckTimes
  <2>2. UNCHANGED <<registered, awaiting, pinged, late>>
    BY <1>1 DEF CheckTimes
  <2> QED
    BY <2>1, <2>2
<1>9. CASE Decide
  <2>1. pinged' = TRUE \/ pinged' = pinged
    BY <1>9 DEF Decide
  <2>2. UNCHANGED <<registered, awaiting, warned, late>>
    BY <1>9 DEF Decide
  <2> QED
    BY <2>1, <2>2
<1>2. CASE Tick \/ Expire \/ Reschedule \/ StartWait
  <2>1. late' \in BOOLEAN
    BY <1>2, Zenon DEF Tick, Expire, Reschedule, StartWait
  <2>2. UNCHANGED <<registered, awaiting, pinged, warned>>
    BY <1>2 DEF Tick, Expire, Reschedule, StartWait
  <2> QED
    BY <2>1, <2>2
<1>3. CASE PingWritten
  <2>1. awaiting' = TRUE /\ UNCHANGED <<registered, pinged, warned, late>>
    BY <1>3 DEF PingWritten
  <2> QED
    BY <2>1
<1>4. CASE PongReceived
  <2>1. awaiting' = FALSE /\ UNCHANGED <<registered, pinged, warned, late>>
    BY <1>4 DEF PongReceived
  <2> QED
    BY <2>1
<1>5. CASE Register
  <2>1. registered' = TRUE /\ UNCHANGED <<awaiting, pinged, warned, late>>
    BY <1>5 DEF Register
  <2> QED
    BY <2>1
<1>6. CASE GoSilent \/ TcpGivesUp \/ PeerCloses
  BY <1>6 DEF GoSilent, TcpGivesUp, PeerCloses
<1>7. CASE Reconnect
  <2>1. registered' = FALSE /\ pinged' = FALSE /\ UNCHANGED <<awaiting, warned, late>>
    BY <1>7 DEF Reconnect
  <2> QED
    BY <2>1
<1>8. CASE UNCHANGED vars
  BY <1>8 DEF vars
<1> QED
  BY <1>1, <1>2, <1>3, <1>4, <1>5, <1>6, <1>7, <1>8, <1>9 DEF Next, Handlers, Connection

LEMMA NumbersNext == NumberTypes /\ TimerRuns /\ [Next]_vars => NumberTypes' /\ TimerRuns'
<1> SUFFICES ASSUME NumberTypes, TimerRuns, [Next]_vars
             PROVE  NumberTypes' /\ TimerRuns'
  OBVIOUS
<1> USE PingAssumption DEF NumberTypes, TimerRuns, Running, clocks, timer, handlers, peer
<1>1. CASE Tick
  BY <1>1 DEF Tick, Older
<1>2. CASE Expire
  BY <1>2 DEF Expire
<1>3. CASE CheckTimes
  <2>1. /\ check' = check - 1 /\ check > 0
        /\ \/ deciding' = deciding + 1 /\ rearm' = rearm
           \/ rearm' = rearm + 1 /\ deciding' = deciding
    BY <1>3 DEF CheckTimes
  <2>2. UNCHANGED <<pingAge, pongAge, left, waits, arm, writing, pongs, link, reconnects>>
    BY <1>3 DEF CheckTimes
  <2> QED
    BY <2>1, <2>2
<1>9. CASE Decide
  <2>1. writing' \in Nat /\ pongs' \in Nat
    <3>1. writing' = writing + 1 \/ writing' = writing
      BY <1>9 DEF Decide
    <3>2. pongs' = pongs + 1 \/ pongs' = pongs
      BY <1>9 DEF Decide
    <3> QED
      BY <3>1, <3>2
  <2>2. deciding' = deciding - 1 /\ rearm' = rearm + 1 /\ deciding > 0
    BY <1>9 DEF Decide
  <2>3. UNCHANGED <<pingAge, pongAge, left, waits, check, arm, link, reconnects>>
    BY <1>9 DEF Decide
  <2> QED
    BY <2>1, <2>2, <2>3
<1>4. CASE Reschedule \/ StartWait
  BY <1>4 DEF Reschedule, StartWait
<1>5. CASE PingWritten
  <2>1. writing' = writing - 1 /\ writing > 0 /\ pingAge' = 0
    BY <1>5 DEF PingWritten
  <2>2. UNCHANGED <<pongAge, timer, pongs, link, reconnects>>
    BY <1>5 DEF PingWritten
  <2> QED
    BY <2>1, <2>2
<1>6. CASE PongReceived
  <2>1. pongs' = pongs - 1 /\ pongs > 0 /\ pongAge' = 0
    BY <1>6 DEF PongReceived
  <2>2. UNCHANGED <<pingAge, timer, writing, link, reconnects>>
    BY <1>6 DEF PongReceived
  <2> QED
    BY <2>1, <2>2
<1>7. CASE Register \/ GoSilent \/ TcpGivesUp \/ PeerCloses
  <2>1. UNCHANGED <<pingAge, pongAge, timer, writing, reconnects>>
    BY <1>7 DEF Register, GoSilent, TcpGivesUp, PeerCloses
  <2>2. link' \in {"up", "silent", "failed"} /\ pongs' \in Nat
    BY <1>7 DEF Register, GoSilent, TcpGivesUp, PeerCloses
  <2> QED
    BY <2>1, <2>2
<1>8. CASE Reconnect
  BY <1>8 DEF Reconnect
<1>0. CASE UNCHANGED vars
  BY <1>0 DEF vars
<1> QED
  BY <1>1, <1>2, <1>3, <1>4, <1>5, <1>6, <1>7, <1>8, <1>9, <1>0 DEF Next, Handlers, Connection

LEMMA HandlersInit == Init => HandlersInv
<1> SUFFICES ASSUME Init
             PROVE  FlagTypes /\ NumberTypes /\ TimerRuns
  BY DEF HandlersInv, TypeOK
<1>1. FlagTypes
  BY DEF Init, FlagTypes
<1>2. NumberTypes /\ TimerRuns
  BY PingAssumption DEF Init, NumberTypes, TimerRuns, Running
<1> QED
  BY <1>1, <1>2

LEMMA HandlersNext == HandlersInv /\ [Next]_vars => HandlersInv'
BY FlagsNext, NumbersNext DEF HandlersInv, TypeOK

\* Every variable of the keep-alive keeps its type.
THEOREM TypeCorrect == Spec => []TypeOK
<1>1. HandlersInv => TypeOK
  BY DEF HandlersInv
<1> QED
  BY <1>1, HandlersInit, HandlersNext, PTL DEF Spec

\* The timer always has a handler, waiting or running, and at most one more
\* than there were reconnects, in whatever order the threads set the expiry
\* and wait for it.
THEOREM TimerKeepsRunning == Spec => []TimerRuns
<1>1. HandlersInv => TimerRuns
  BY DEF HandlersInv
<1> QED
  BY <1>1, HandlersInit, HandlersNext, PTL DEF Spec

-----------------------------------------------------------------------------
(* The punctual timer. *)

Punctual == ~late /\ PingTimeout <= 2 * PingInterval

\* The age at which a handler runs: one interval, or two and more, or any age
\* that is too old to tell.
AtExpiry == pingAge = PingInterval \/ pingAge >= 2 * PingInterval \/ pingAge = Old

\* Both times are still those of the construction, and the timer's next expiry
\* is one interval after it, or two and more.
PunctualInv ==
    /\ ~pinged /\ writing = 0 /\ pongs = 0 /\ ~awaiting /\ deciding = 0
    /\ pingAge = pongAge
    /\ \/ pingAge + left = PingInterval
       \/ pingAge + left >= 2 * PingInterval
       \/ pingAge = Old
    /\ UnderWay => AtExpiry

LEMMA PunctualInit == Init => PunctualInv
BY PingAssumption DEF Init, PunctualInv, AtExpiry, UnderWay

\* A handler that runs at such an age sends nothing: the PONG is not older than
\* the interval, or the PING is older than the timeout.
LEMMA NothingIsDue == Punctual /\ TypeOK /\ PunctualInv /\ check > 0 => ~Due
<1> SUFFICES ASSUME Punctual, TypeOK, PunctualInv, check > 0
             PROVE  ~Due
  OBVIOUS
<1>1. AtExpiry
  BY DEF PunctualInv, UnderWay, TypeOK, NumberTypes
<1> QED
  BY <1>1, PingAssumption DEF Punctual, AtExpiry, PunctualInv, Due, TypeOK, NumberTypes

\* Who has been late stays late.
LEMMA LateStays == [Next]_vars /\ late => late'
BY DEF Next, Tick, Handlers, Expire, CheckTimes, Decide, Reschedule, StartWait, PingWritten, PongReceived,
       Connection, Register, GoSilent, TcpGivesUp, PeerCloses, Reconnect, vars

LEMMA PunctualNext ==
    HandlersInv /\ (Punctual => PunctualInv) /\ [Next]_vars => (Punctual' => PunctualInv')
<1> SUFFICES ASSUME TypeOK, TimerRuns, Punctual => PunctualInv, [Next]_vars, Punctual'
             PROVE  PunctualInv'
  BY DEF HandlersInv
<1>0. Punctual /\ PunctualInv
  BY LateStays DEF Punctual
<1> USE <1>0, PingAssumption DEF Punctual, TypeOK, NumberTypes, PunctualInv, AtExpiry,
                                 UnderWay, clocks, timer, handlers, peer
<1>1. CASE Tick
  <2>1. left > 0 /\ ~UnderWay
    <3>1. late' = (late \/ left = 0 \/ UnderWay)
      BY <1>1 DEF Tick
    <3>2. ~(left = 0) /\ ~UnderWay
      BY <3>1, Zenon DEF Punctual
    <3> QED
      BY <3>2
  <2>2. left' = left - 1 /\ pingAge' = Older(pingAge) /\ pongAge' = Older(pongAge)
    BY <1>1, <2>1 DEF Tick
  <2>3. UNCHANGED <<awaiting, handlers, peer>>
    BY <1>1 DEF Tick
  <2> QED
    BY <2>1, <2>2, <2>3 DEF Older
<1>2. CASE Expire
  <2>1. left = 0
    BY <1>2 DEF Expire
  <2>2. AtExpiry
    BY <2>1
  <2> QED
    BY <1>2, <2>2 DEF Expire
<1>3. CASE CheckTimes
  <2>1. ~Due /\ check > 0
    BY <1>3, NothingIsDue DEF CheckTimes
  <2>2. AtExpiry /\ UNCHANGED <<clocks, left, peer, deciding>>
    BY <1>3, <2>1 DEF CheckTimes
  <2> QED
    BY <2>2
<1>9. CASE Decide
  BY <1>9 DEF Decide
<1>4. CASE Reschedule \/ StartWait
  <2>1. AtExpiry /\ (left' = PingInterval \/ left' = left)
        /\ UNCHANGED <<clocks, peer, check, deciding>>
    BY <1>4 DEF Reschedule, StartWait
  <2> QED
    BY <2>1
<1>5. CASE PingWritten \/ PongReceived
  BY <1>5 DEF PingWritten, PongReceived
<1>6. CASE Register \/ GoSilent \/ TcpGivesUp \/ PeerCloses
  BY <1>6 DEF Register, GoSilent, TcpGivesUp, PeerCloses
<1>7. CASE Reconnect
  BY <1>7 DEF Reconnect
<1>8. CASE UNCHANGED vars
  BY <1>8 DEF vars
<1> QED
  BY <1>1, <1>2, <1>3, <1>4, <1>5, <1>6, <1>7, <1>8, <1>9 DEF Next, Handlers, Connection

\* A timer that has never been late has never sent a PING, if the timeout is no longer
\* than two intervals: for the 150 and 300 of the code and for any others.
THEOREM PunctualTimerNeverPings == Spec => []PunctualNeverPings
<1>1. HandlersInv /\ (Punctual => PunctualInv) /\ [Next]_vars
        => (HandlersInv /\ (Punctual => PunctualInv))'
  BY HandlersNext, PunctualNext
<1>2. Init => HandlersInv /\ (Punctual => PunctualInv)
  BY HandlersInit, PunctualInit
<1>3. (Punctual => PunctualInv) => PunctualNeverPings
  BY DEF Punctual, PunctualInv, PunctualNeverPings
<1> QED
  BY <1>1, <1>2, <1>3, PTL DEF Spec

-----------------------------------------------------------------------------
(* The dead keep-alive. *)

\* No step revives a keep-alive that has been silent for the timeout.
LEMMA SilenceStep == TypeOK /\ [Next]_vars => [Silent => Silent']_vars
<1> SUFFICES ASSUME TypeOK, [Next]_vars, Silent
             PROVE  Silent'
  OBVIOUS
<1> USE PingAssumption DEF TypeOK, NumberTypes, Silent, clocks, timer, handlers, peer
<1>1. CASE Tick
  BY <1>1 DEF Tick, Older
<1>2. CASE CheckTimes \/ Decide
  BY <1>2 DEF CheckTimes, Due, Decide
<1>3. CASE Expire \/ Reschedule \/ StartWait \/ PingWritten \/ PongReceived
  BY <1>3 DEF Expire, Reschedule, StartWait, PingWritten, PongReceived
<1>4. CASE Connection
  BY <1>4 DEF Connection, Register, GoSilent, TcpGivesUp, PeerCloses, Reconnect
<1>5. CASE UNCHANGED vars
  BY <1>5 DEF vars
<1> QED
  BY <1>1, <1>2, <1>3, <1>4, <1>5 DEF Next, Handlers

\* Once the last PING is as old as the timeout, none is being written and no
\* handler has still to decide, no PING is ever sent again, whatever the delays
\* and reconnects.
THEOREM SilenceStaysFinal == Spec => SilenceIsFinal
<1>1. TypeOK /\ [Next]_vars => [Silent => Silent']_vars
  BY SilenceStep
<1> QED
  BY <1>1, TypeCorrect, PTL DEF Spec, SilenceIsFinal
=============================================================================
