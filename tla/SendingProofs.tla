--------------------------- MODULE SendingProofs ---------------------------
(***************************************************************************)
(* Proofs about Sending for every number of senders and buffers.           *)
(***************************************************************************)
EXTENDS SendingProps, TLAPS

USE DEF buffers, writes, ending

IInv == TypeOK /\ HandsInv /\ StageInv

LastTrue == last.text = last.sender

-----------------------------------------------------------------------------
(* The three ways a step can treat the buffers. *)

\* A buffer of the pool gets the text of s and belongs to s.
Takes(s) ==
    \E b \in spare :
        /\ spare' = spare \ {b} /\ text' = [text EXCEPT ![b] = s]
        /\ \/ b \in Strings /\ str' = [str EXCEPT ![s] = b] /\ line' = line
           \/ b \in Lines /\ line' = [line EXCEPT ![s] = b] /\ str' = str

\* A buffer that s holds goes back.
Returns(s) ==
    \/ str[s] # None /\ Release(str[s]) /\ str' = [str EXCEPT ![s] = None] /\ line' = line
    \/ line[s] # None /\ Release(line[s]) /\ line' = [line EXCEPT ![s] = None] /\ str' = str

Keeps == UNCHANGED buffers

\* What a buffer that somebody holds is.
LEMMA Held ==
    ASSUME TypeOK, NEW s \in Senders
    PROVE  /\ str[s] # None => str[s] \in Strings /\ str[s] \notin Lines
           /\ line[s] # None => line[s] \in Lines /\ line[s] \notin Strings
  BY SendingAssumption DEF TypeOK

LEMMA BuffersType ==
    ASSUME TypeOK, NEW s \in Senders, Takes(s) \/ Returns(s) \/ Keeps
    PROVE  /\ str' \in [Senders -> Strings \cup {None}] /\ line' \in [Senders -> Lines \cup {None}]
           /\ text' \in [Strings \cup Lines -> Senders \cup {None}]
           /\ spare' \subseteq Strings \cup Lines
<1>1. CASE Takes(s)
  BY <1>1 DEF Takes, TypeOK
<1>2. CASE Returns(s)
  BY <1>2, Held DEF Returns, Release, TypeOK
<1>3. CASE Keeps
  BY <1>3 DEF Keeps, TypeOK
<1> QED
  BY <1>1, <1>2, <1>3

\* No way of treating them puts a buffer into two hands.
LEMMA BuffersInHand ==
    ASSUME TypeOK, HandsInv, NEW s \in Senders, Takes(s) \/ Returns(s) \/ Keeps
    PROVE  HandsInv'
<1>1. CASE Takes(s)
  <2>1. PICK b \in spare :
           /\ spare' = spare \ {b} /\ text' = [text EXCEPT ![b] = s]
           /\ \/ b \in Strings /\ str' = [str EXCEPT ![s] = b] /\ line' = line
              \/ b \in Lines /\ line' = [line EXCEPT ![s] = b] /\ str' = str
    BY <1>1 DEF Takes
  <2>2. b # None /\ b \in Strings \cup Lines
    BY SendingAssumption DEF TypeOK
  <2>3. \A t \in Senders : str[t] # b /\ line[t] # b
    BY <2>2 DEF HandsInv
  <2>4. text'[b] = s /\ \A c \in Strings \cup Lines : c # b => text'[c] = text[c]
    BY <2>1, <2>2 DEF TypeOK
  <2>5. \A t \in Senders :
           /\ str'[t] = IF t = s /\ b \in Strings THEN b ELSE str[t]
           /\ line'[t] = IF t = s /\ b \in Lines THEN b ELSE line[t]
    BY <2>1, SendingAssumption DEF TypeOK
  <2>6. ASSUME NEW t \in Senders
        PROVE  /\ str'[t] # None => str'[t] \notin spare' /\ text'[str'[t]] = t
               /\ line'[t] # None => line'[t] \notin spare' /\ text'[line'[t]] = t
    BY <2>1, <2>3, <2>4, <2>5, Held DEF HandsInv
  <2>7. ASSUME NEW t \in Senders, NEW u \in Senders \ {t}
        PROVE  /\ str'[t] # None => str'[u] # str'[t]
               /\ line'[t] # None => line'[u] # line'[t]
    BY <2>2, <2>3, <2>5 DEF HandsInv
  <2> QED
    BY <2>6, <2>7 DEF HandsInv
<1>2. CASE Returns(s)
  <2>1. PICK b \in Strings \cup Lines :
           /\ b # None /\ (b = str[s] \/ b = line[s])
           /\ spare' = spare \cup {b} /\ text' = [text EXCEPT ![b] = None]
           /\ \A t \in Senders :
                 /\ str'[t] = IF t = s /\ b = str[s] THEN None ELSE str[t]
                 /\ line'[t] = IF t = s /\ b = line[s] THEN None ELSE line[t]
    <3>1. CASE /\ str[s] # None /\ Release(str[s])
               /\ str' = [str EXCEPT ![s] = None] /\ line' = line
      <4>1. str[s] \in Strings /\ line[s] # str[s]
        BY <3>1, Held
      <4> QED
        BY <3>1, <4>1 DEF Release, TypeOK
    <3>2. CASE /\ line[s] # None /\ Release(line[s])
               /\ line' = [line EXCEPT ![s] = None] /\ str' = str
      <4>1. line[s] \in Lines /\ line[s] # str[s]
        BY <3>2, Held
      <4> QED
        BY <3>2, <4>1 DEF Release, TypeOK
    <3> QED
      BY <1>2, <3>1, <3>2 DEF Returns
  <2>2. ASSUME NEW t \in Senders
        PROVE  (str'[t] # None => str'[t] = str[t] /\ str[t] # b)
               /\ (line'[t] # None => line'[t] = line[t] /\ line[t] # b)
    BY <2>1, Held DEF HandsInv
  <2>3. \A c \in Strings \cup Lines : c # b => text'[c] = text[c]
    BY <2>1 DEF TypeOK
  <2>4. ASSUME NEW t \in Senders
        PROVE  /\ str'[t] # None => str'[t] \notin spare' /\ text'[str'[t]] = t
               /\ line'[t] # None => line'[t] \notin spare' /\ text'[line'[t]] = t
    BY <2>1, <2>2, <2>3, Held DEF HandsInv
  <2>5. ASSUME NEW t \in Senders, NEW u \in Senders \ {t}
        PROVE  /\ str'[t] # None => str'[u] # str'[t]
               /\ line'[t] # None => line'[u] # line'[t]
    BY <2>2 DEF HandsInv
  <2> QED
    BY <2>4, <2>5 DEF HandsInv
<1>3. CASE Keeps
  BY <1>3 DEF Keeps, HandsInv
<1> QED
  BY <1>1, <1>2, <1>3

\* A line is formatted from the text in the string buffer, which is the sender's.
LEMMA FormatsOwnText ==
    ASSUME IInv, NEW s \in Senders, FormatLine(s)
    PROVE  Takes(s)
<1>1. PICK b \in spare \cap Lines :
         /\ line' = [line EXCEPT ![s] = b] /\ spare' = spare \ {b} /\ str' = str
         /\ text' = [text EXCEPT ![b] = IF Kind[s] = "login" THEN s ELSE text[str[s]]]
  BY DEF FormatLine
<1>2. Kind[s] # "login" => text[str[s]] = s
  BY DEF FormatLine, IInv, HandsInv, StageInv
<1>3. text' = [text EXCEPT ![b] = s]
  BY <1>1, <1>2
<1> QED
  BY <1>1, <1>3 DEF Takes

-----------------------------------------------------------------------------
(* The actions of a sender keep types, hands and stages. *)

Sender(s) == TakeString(s) \/ RunDelayed(s) \/ TakeIncoming(s) \/ Step(s)

LEMMA SenderBuffers ==
    ASSUME IInv, NEW s \in Senders, Sender(s)
    PROVE  Takes(s) \/ Returns(s) \/ Keeps
<1> USE DEF IInv
<1>1. CASE TakeString(s)
  BY <1>1 DEF TakeString, Takes
<1>2. CASE TakeIncoming(s)
  BY <1>2 DEF TakeIncoming, Takes
<1>3. CASE FormatLine(s)
  BY <1>3, FormatsOwnText
<1>4. CASE WriteLine(s)
  BY <1>4 DEF WriteLine, StageInv, Returns, Keeps
<1>5. CASE ReleaseString(s)
  BY <1>5 DEF ReleaseString, StageInv, Returns
<1>6. CASE RunDelayed(s) \/ WritePart(s) \/ FailWrite(s)
  BY <1>6 DEF RunDelayed, WritePart, FailWrite, Keeps
<1>7. CASE Written(s) \/ WrittenSync(s) \/ LineHandled(s)
  BY <1>7 DEF Written, WrittenSync, LineHandled, StageInv, Returns
<1> QED
  BY <1>1, <1>2, <1>3, <1>4, <1>5, <1>6, <1>7 DEF Sender, Step

Steps == {"idle", "posted", "send", "write", "wait", "release", "handle", "done"}

LEMMA UseType ==
    ASSUME TypeOK, NEW u \in Senders \cup {"timer"}, NEW b, Use(u, b) \/ late' = late
    PROVE  late' \subseteq Senders \cup {"timer"}
  BY DEF Use, TypeOK

\* Where a sender goes, what its write does and what is written.
LEMMA SenderMoves ==
    ASSUME TypeOK, NEW s \in Senders, Sender(s)
    PROVE  /\ pc' \in [Senders -> Steps] /\ op' \in [Senders -> {"none", "writing", "complete"}]
           /\ \A t \in Senders \ {s} : pc'[t] = pc[t] /\ op'[t] = op[t]
<1> USE DEF TypeOK, Steps
<1>1. CASE TakeString(s) \/ RunDelayed(s) \/ TakeIncoming(s)
  BY <1>1 DEF TakeString, RunDelayed, TakeIncoming
<1>2. CASE FormatLine(s) \/ ReleaseString(s) \/ LineHandled(s)
  BY <1>2 DEF FormatLine, ReleaseString, LineHandled
<1>3. CASE WriteLine(s)
  BY <1>3 DEF WriteLine
<1>4. CASE WritePart(s) \/ FailWrite(s)
  BY <1>4 DEF WritePart, FailWrite
<1>5. CASE Written(s) \/ WrittenSync(s)
  BY <1>5 DEF Written, WrittenSync
<1> QED
  BY <1>1, <1>2, <1>3, <1>4, <1>5 DEF Sender, Step

LEMMA SenderOutput ==
    ASSUME TypeOK, NEW s \in Senders, Sender(s)
    PROVE  /\ sent' \in [Senders -> Nat] /\ lost' \in Nat
           /\ late' \subseteq Senders \cup {"timer"}
           /\ UNCHANGED <<connected, main, timer, losses>>
<1>1. CASE TakeString(s) \/ RunDelayed(s) \/ TakeIncoming(s)
  BY <1>1, UseType DEF TakeString, RunDelayed, TakeIncoming, TypeOK
<1>2. CASE FormatLine(s) \/ ReleaseString(s) \/ LineHandled(s)
  BY <1>2, UseType DEF FormatLine, ReleaseString, LineHandled, TypeOK
<1>3. CASE WriteLine(s)
  BY <1>3, UseType DEF WriteLine, TypeOK
<1>4. CASE WritePart(s) \/ FailWrite(s) \/ Written(s) \/ WrittenSync(s)
  BY <1>4 DEF WritePart, FailWrite, Written, WrittenSync, TypeOK
<1> QED
  BY <1>1, <1>2, <1>3, <1>4 DEF Sender, Step

USE DEF LastTrue

\* What is written is the text of the sender, which holds the buffer.
LEMMA SenderLast ==
    ASSUME IInv, LastTrue, NEW s \in Senders, Sender(s)
    PROVE  /\ last' \in [sender : Senders \cup {None}, text : Senders \cup {None}]
           /\ LastTrue'
<1>1. CASE UNCHANGED last
  BY <1>1 DEF IInv, TypeOK
<1>2. CASE WritePart(s)
  <2>1. text[line[s]] = s
    BY <1>2 DEF WritePart, IInv, StageInv, HandsInv
  <2> QED
    BY <1>2, <2>1 DEF WritePart
<1> QED
  BY <1>1, <1>2
  DEF Sender, Step, TakeString, RunDelayed, TakeIncoming, FormatLine, ReleaseString,
      LineHandled, WriteLine, FailWrite, Written, WrittenSync

\* The stages of the sender that moves; the buffers of the others stay.
LEMMA OthersKeepBuffers ==
    ASSUME TypeOK, NEW s \in Senders, Takes(s) \/ Returns(s) \/ Keeps
    PROVE  \A t \in Senders \ {s} : str'[t] = str[t] /\ line'[t] = line[t]
  BY DEF Takes, Returns, Keeps, TypeOK

StageOf(s) ==
    /\ pc[s] \in {"posted", "send", "release"} => str[s] # None
    /\ pc[s] \in {"idle", "posted", "send"} => line[s] = None /\ op[s] = "none"
    /\ pc[s] \in {"write", "handle"} => line[s] # None /\ op[s] = "none"
    /\ pc[s] = "write" /\ Kind[s] # "login" => str[s] # None
    /\ op[s] # "none" => line[s] # None

LEMMA SenderStage ==
    ASSUME IInv, NEW s \in Senders, Sender(s)
    PROVE  StageOf(s)'
<1>0. StageOf(s)
  BY DEF IInv, StageInv, StageOf
<1> USE SendingAssumption DEF StageOf, IInv, TypeOK
<1>1. CASE TakeString(s)
  BY <1>0, <1>1 DEF TakeString
<1>2. CASE RunDelayed(s)
  BY <1>0, <1>2 DEF RunDelayed
<1>3. CASE TakeIncoming(s)
  BY <1>0, <1>3 DEF TakeIncoming
<1>4. CASE FormatLine(s)
  BY <1>0, <1>4 DEF FormatLine
<1>5. CASE WriteLine(s)
  BY <1>0, <1>5 DEF WriteLine
<1>6. CASE ReleaseString(s)
  BY <1>0, <1>6 DEF ReleaseString
<1>7. CASE WritePart(s) \/ FailWrite(s)
  BY <1>0, <1>7 DEF WritePart, FailWrite
<1>8. CASE Written(s)
  BY <1>0, <1>8 DEF Written
<1>9. CASE WrittenSync(s)
  BY <1>0, <1>9 DEF WrittenSync
<1>10. CASE LineHandled(s)
  BY <1>0, <1>10 DEF LineHandled
<1> QED
  BY <1>1, <1>2, <1>3, <1>4, <1>5, <1>6, <1>7, <1>8, <1>9, <1>10 DEF Sender, Step

LEMMA SenderKeepsInv ==
    ASSUME IInv, LastTrue, NEW s \in Senders, Sender(s)
    PROVE  IInv' /\ LastTrue'
<1>1. Takes(s) \/ Returns(s) \/ Keeps
  BY SenderBuffers
<1>2. TypeOK'
  BY <1>1, BuffersType, SenderMoves, SenderOutput, SenderLast DEF IInv, TypeOK, Steps
<1>3. HandsInv'
  BY <1>1, BuffersInHand DEF IInv
<1>4. \A t \in Senders \ {s} : StageOf(t)'
  BY <1>1, OthersKeepBuffers, SenderMoves DEF IInv, StageInv, StageOf
<1>5. StageInv'
  BY <1>4, SenderStage DEF StageInv, StageOf
<1> QED
  BY <1>2, <1>3, <1>5, SenderLast DEF IInv

-----------------------------------------------------------------------------
(* The other steps leave senders and buffers alone. *)

Others ==
    \/ Lose \/ Regain \/ TimerElapsed \/ RearmTimer
    \/ StopBot \/ StopPool \/ JoinPool \/ DestroyClient \/ DestroyContext

LEMMA OthersLeave ==
    ASSUME TypeOK, Others
    PROVE  UNCHANGED <<pc, buffers, writes, lost>>
  BY DEF Others, Lose, Regain, TimerElapsed, RearmTimer, StopBot, StopPool, JoinPool,
         DestroyClient, DestroyContext

LEMMA OthersType ==
    ASSUME TypeOK, Others
    PROVE  TypeOK'
<1>1. late' \subseteq Senders \cup {"timer"}
  <2>1. CASE TimerElapsed \/ RearmTimer
    BY <2>1, UseType DEF TimerElapsed, RearmTimer
  <2>2. CASE late' = late
    BY <2>2 DEF TypeOK
  <2> QED
    BY <2>1, <2>2 DEF Others, Lose, Regain, StopBot, StopPool, JoinPool, DestroyClient, DestroyContext
<1>2. /\ connected' \in BOOLEAN /\ main' \in Stages /\ timer' \in {"waiting", "elapsed"}
      /\ losses' \in Nat
  <2> USE DEF TypeOK, Stages
  <2>1. CASE Lose \/ Regain
    <3>1. connected' \in {TRUE, FALSE} /\ UNCHANGED <<main, timer>>
      BY <2>1 DEF Lose, Regain
    <3>2. losses' = losses + 1 \/ losses' = losses
      BY <2>1 DEF Lose, Regain
    <3>3. losses' \in Nat
      <4> HIDE DEF TypeOK
      <4>1. losses \in Nat
        BY DEF TypeOK
      <4> QED
        BY <3>2, <4>1
    <3>4. connected' \in BOOLEAN
      BY <3>1
    <3>5. main' \in Stages /\ timer' \in {"waiting", "elapsed"}
      BY <3>1
    <3> QED
      BY <3>3, <3>4, <3>5
  <2>2. CASE TimerElapsed \/ RearmTimer
    BY <2>2 DEF TimerElapsed, RearmTimer
  <2>3. CASE StopBot \/ StopPool \/ JoinPool
    BY <2>3 DEF StopBot, StopPool, JoinPool
  <2>4. CASE DestroyClient \/ DestroyContext
    BY <2>4 DEF DestroyClient, DestroyContext
  <2> QED
    BY <2>1, <2>2, <2>3, <2>4 DEF Others
<1> QED
  BY <1>1, <1>2, OthersLeave DEF TypeOK

LEMMA LeftAlone ==
    ASSUME IInv, TypeOK', UNCHANGED <<pc, buffers, writes, lost>>
    PROVE  IInv' /\ UNCHANGED last
<1>1. HandsInv'
  BY DEF IInv, HandsInv
<1>2. StageInv'
  BY DEF IInv, StageInv
<1> QED
  BY <1>1, <1>2 DEF IInv

LEMMA NextCases == Next <=> Others \/ \E s \in Senders : Sender(s)
  BY DEF Next, Others, Sender

LEMMA NextKeepsInv ==
    ASSUME IInv, LastTrue, [Next]_vars
    PROVE  IInv' /\ LastTrue'
<1>1. CASE \E s \in Senders : Sender(s)
  BY <1>1, SenderKeepsInv
<1>2. CASE Others
  <2>1. TypeOK'
    BY <1>2, OthersType DEF IInv
  <2> QED
    BY <1>2, <2>1, OthersLeave, LeftAlone DEF IInv
<1>3. CASE UNCHANGED vars
  <2>1. TypeOK'
    BY <1>3 DEF vars, IInv, TypeOK
  <2> QED
    BY <1>3, <2>1, LeftAlone DEF vars
<1> QED
  BY <1>1, <1>2, <1>3, NextCases

LEMMA InitInv ==
    ASSUME Init
    PROVE  IInv /\ LastTrue
<1>1. TypeOK
  BY DEF Init, TypeOK, Stages
<1>2. HandsInv
  BY DEF Init, HandsInv
<1>3. StageInv
  BY DEF Init, StageInv
<1> QED
  BY <1>1, <1>2, <1>3 DEF Init, IInv

HIDE DEF LastTrue

LEMMA InvHolds == Spec => [](IInv /\ LastTrue)
<1>1. Init => IInv /\ LastTrue
  BY InitInv
<1>2. IInv /\ LastTrue /\ [Next]_vars => IInv' /\ LastTrue'
  BY NextKeepsInv
<1> QED
  BY <1>1, <1>2, PTL DEF Spec

\* Whoever holds a buffer has his own text in it, and nobody else holds it, for
\* any number of senders, buffers, lost connections, and however the bot ends.
THEOREM BuffersInOneHand == Spec => [](TypeOK /\ HandsInv)
<1>1. IInv => TypeOK /\ HandsInv
  BY DEF IInv
<1> QED
  BY <1>1, InvHolds, PTL

\* No line is written that is not the text its sender formatted, and the read
\* handler handles the line it read.
THEOREM LinesAreTrue == Spec => []LinesTrue
<1>1. IInv /\ LastTrue => LinesTrue
  BY DEF IInv, StageInv, HandsInv, LinesTrue, LastTrue
<1> QED
  BY <1>1, InvHolds, PTL

-----------------------------------------------------------------------------
(* The end of the bot. *)

Ended == main \in {"joined", "client destroyed", "context destroyed"}

\* The pool's handlers have begun before the end, or do not begin.
LEMMA SenderAfterEnd ==
    ASSUME TypeOK, EndInv, Ended, NEW s \in Senders, Sender(s)
    PROVE  Kind[s] = "worker" \/ (~Busy(s) /\ ~Busy(s)' /\ late' = late)
<1>1. ~Busy(s) /\ ~PoolRuns /\ main # "running"
  BY DEF EndInv, Ended, PoolRuns
<1>2. SUFFICES ASSUME Kind[s] # "worker"
               PROVE  ~Busy(s)' /\ late' = late
  BY <1>1
<1>3. pc[s] \in {"idle", "posted", "done"}
  BY <1>1, <1>2 DEF Busy
<1>4. Kind[s] \in Kinds
  BY SendingAssumption
<1>5. ~TakeString(s) /\ ~RunDelayed(s) /\ ~TakeIncoming(s) /\ ~FormatLine(s)
  BY <1>1, <1>2, <1>3, <1>4 DEF TakeString, RunDelayed, TakeIncoming, FormatLine, MayBegin, Kinds
<1>6. CASE WritePart(s) \/ FailWrite(s)
  BY <1>1, <1>6 DEF WritePart, FailWrite, Busy
<1> QED
  BY <1>1, <1>3, <1>5, <1>6
  DEF Sender, Step, WriteLine, ReleaseString, Written, WrittenSync, LineHandled

LEMMA NextKeepsEnd ==
    ASSUME TypeOK, EndInv, OnlyWorkerLate, [Next]_vars
    PROVE  EndInv' /\ OnlyWorkerLate'
<1>1. ASSUME NEW s \in Senders, Sender(s)
      PROVE  EndInv' /\ OnlyWorkerLate'
  <2>1. UNCHANGED <<main, timer>> /\ \A t \in Senders \ {s} : pc'[t] = pc[t]
    BY <1>1, SenderOutput, SenderMoves
  <2>2. late' = late \/ (late' = late \cup {s})
    BY <1>1
    DEF Sender, Step, TakeString, RunDelayed, TakeIncoming, FormatLine, WriteLine, ReleaseString,
        WritePart, FailWrite, Written, WrittenSync, LineHandled, Use
  <2>3. CASE ~Ended
    <3>1. ClientExists /\ ContextExists
      BY <2>3 DEF Ended, ClientExists, ContextExists
    <3>2. late' = late
      BY <1>1, <3>1
      DEF Sender, Step, TakeString, RunDelayed, TakeIncoming, FormatLine, WriteLine,
          ReleaseString, WritePart, FailWrite, Written, WrittenSync, LineHandled, Use
    <3> QED
      BY <2>1, <2>3, <3>2 DEF Ended, EndInv, OnlyWorkerLate
  <2>4. CASE Ended /\ Kind[s] = "worker"
    <3>1. OnlyWorkerLate'
      BY <2>2, <2>4, SendingAssumption DEF OnlyWorkerLate
    <3>2. EndInv'
      BY <2>1, <2>4 DEF EndInv, Ended, Busy
    <3> QED
      BY <3>1, <3>2
  <2>5. CASE Ended /\ Kind[s] # "worker"
    <3>1. ~Busy(s)' /\ late' = late
      BY <1>1, <2>5, SenderAfterEnd
    <3>2. EndInv'
      BY <2>1, <2>5, <3>1 DEF EndInv, Ended, Busy
    <3> QED
      BY <3>1, <3>2 DEF OnlyWorkerLate
  <2> QED
    BY <2>3, <2>4, <2>5
<1>2. CASE Lose \/ Regain \/ StopBot \/ StopPool \/ JoinPool \/ DestroyClient \/ DestroyContext
  <2>1. UNCHANGED <<pc, timer, late>>
    BY <1>2 DEF Lose, Regain, StopBot, StopPool, JoinPool, DestroyClient, DestroyContext
  <2>2. EndInv'
    BY <1>2, <2>1
    DEF Lose, Regain, StopBot, StopPool, JoinPool, DestroyClient, DestroyContext, EndInv, Busy
  <2> QED
    BY <2>1, <2>2 DEF OnlyWorkerLate
<1>3. CASE TimerElapsed
  <2>1. ~Ended /\ ContextExists /\ UNCHANGED main
    BY <1>3 DEF TimerElapsed, PoolRuns, Ended, ContextExists
  <2>2. late' = late
    BY <1>3, <2>1 DEF TimerElapsed, Use
  <2> QED
    BY <2>1, <2>2 DEF Ended, EndInv, OnlyWorkerLate
<1>4. CASE RearmTimer
  <2>1. ~Ended /\ UNCHANGED main
    BY <1>4 DEF RearmTimer, EndInv, Ended
  <2>2. ContextExists
    BY <2>1 DEF Ended, ContextExists
  <2>3. late' = late
    BY <1>4, <2>2 DEF RearmTimer, Use
  <2> QED
    BY <2>1, <2>3 DEF Ended, EndInv, OnlyWorkerLate
<1>5. CASE UNCHANGED vars
  BY <1>5 DEF vars, EndInv, OnlyWorkerLate, Busy
<1> QED
  BY <1>1, <1>2, <1>3, <1>4, <1>5, NextCases DEF Others

\* Of all that uses the client and the context, only the song worker can use
\* them after their destructors: handlers of the pool are joined first, and the
\* timer that is armed again after it was cancelled does not run any more.
THEOREM OnlyTheWorkerIsLate == Spec => []OnlyWorkerLate
<1>1. Init => EndInv /\ OnlyWorkerLate
  BY DEF Init, EndInv, OnlyWorkerLate
<1>2. TypeOK /\ EndInv /\ OnlyWorkerLate /\ [Next]_vars => EndInv' /\ OnlyWorkerLate'
  BY NextKeepsEnd
<1> QED
  BY <1>1, <1>2, BuffersInOneHand, PTL DEF Spec
=============================================================================
