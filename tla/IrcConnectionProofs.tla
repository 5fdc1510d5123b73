------------------------ MODULE IrcConnectionProofs ------------------------
(***************************************************************************)
(* Proofs about IrcConnection for every number of lines, losses, failed    *)
(* look-ups and outages.                                                   *)
(*                                                                         *)
(* Two invariants.  The first counts the reads and their handler: the main *)
(* thread starts a read only while it connects for the first time, when    *)
(* there is none.  The second says what reconnect() relies on until stop() *)
(* is called: its steps find the connection down, nothing in buffer_ and   *)
(* no line in hand, so that no welcome of an old connection reaches the    *)
(* parser after registered_ has been reset.                                *)
(***************************************************************************)
EXTENDS IrcConnectionProps, SequenceTheorems, TLAPS

FirstConnect == pc["main"] \in Connecting

NothingRead == reads = NoReads /\ pc["reader"] = "idle"

ReadersInv == TypeOK /\ OneReader /\ (FirstConnect => NothingRead)

WelcomeWaits == \E i \in 1 .. Len(inbox) : inbox[i] = "welcome"

Greeted == registered \/ got = "welcome" \/ WelcomeWaits

Tearing == pc["reader"] \in {"disconnect", "shutdown", "close", "forget"}

\* In connect() without a link.
Dialling(a) == pc[a] \in {"connect", "dial", "attempt"}

\* In connect() with a new link.
Linked(a) == pc[a] \in {"option", "connected", "read"}

Outstanding == reads.pending + reads.aborted + reads.bad

\* A read is outstanding or its handler runs, before any reconnect().
Reading == Outstanding > 0 \/ pc["reader"] \in {"line", "rearm"}

LinkInv ==
    /\ Reading => link \in {"up", "lost"} /\ connected
    /\ Tearing => link \in {"lost", "closed"} /\ inbox = <<>>
    /\ \A a \in Actors : Dialling(a) => link # "up" /\ inbox = <<>> /\ ~registered
    /\ \A a \in Actors : Linked(a) => link \in {"up", "lost"}
    /\ \A a \in Actors : pc[a] = "read" => connected
    /\ registered => connected
    /\ link # "shut" /\ reads.bad = 0

SessionInv == Greeted => LoggedIn /\ "welcomed" \in received

ConnectionInv ==
    /\ pc["reader"] # "line" => got = "none"
    /\ ~Stopping => LinkInv /\ SessionInv

\* connect(), disconnect() and the main thread's other steps.
Connect(a) ==
    \/ Resolve(a) \/ ResolveFails(a) \/ Dial(a) \/ Attempt(a)
    \/ SetOption(a) \/ Connected(a) \/ FirstRead(a)

Teardown(a) == Disconnect(a) \/ Shutdown(a) \/ Close(a) \/ Forget(a)

LoggingIn == Login \/ WriteLine

USE DEF flags, wire, peer, world

-----------------------------------------------------------------------------
(* Types. *)

LEMMA InitType == Init => TypeOK
<1> SUFFICES ASSUME Init
             PROVE  TypeOK
  OBVIOUS
<1>1. PlaceTypes
  BY DEF Init, PlaceTypes, Actors, MainPlaces, ReaderPlaces, Places
<1>2. ReadTypes
  BY DEF Init, ReadTypes, NoReads
<1>3. WireTypes
  BY DEF Init, WireTypes
<1>4. FlagTypes /\ CountTypes
  BY DEF Init, FlagTypes, CountTypes
<1>5. PeerTypes
  BY DEF Init, PeerTypes, LoginLines
<1> QED
  BY <1>1, <1>2, <1>3, <1>4, <1>5 DEF TypeOK

LEMMA AbortedReads ==
    ASSUME reads \in [{"pending", "aborted", "bad"} -> Nat]
    PROVE  /\ AbortReads \in [{"pending", "aborted", "bad"} -> Nat]
           /\ AbortReads.pending + AbortReads.aborted + AbortReads.bad
                = reads.pending + reads.aborted + reads.bad
           /\ AbortReads.bad = reads.bad
           /\ reads = NoReads => AbortReads = NoReads
<1>1. AbortReads.pending = 0 /\ AbortReads.aborted = reads.aborted + reads.pending
      /\ AbortReads.bad = reads.bad
  BY DEF AbortReads
<1>2. AbortReads \in [{"pending", "aborted", "bad"} -> Nat]
  <2>1. AbortReads = [k \in {"pending", "aborted", "bad"} |-> AbortReads[k]]
    BY DEF AbortReads
  <2> QED
    BY <1>1, <2>1
<1>3. reads = NoReads => AbortReads = NoReads
  <2>1. NoReads \in [{"pending", "aborted", "bad"} -> Nat]
    BY DEF NoReads
  <2>2. ASSUME reads = NoReads
        PROVE  \A k \in {"pending", "aborted", "bad"} : AbortReads[k] = NoReads[k]
    BY <1>1, <2>2 DEF NoReads
  <2> QED
    BY <1>2, <2>1, <2>2
<1> QED
  BY <1>1, <1>2, <1>3

LEMMA StartedRead ==
    ASSUME reads \in [{"pending", "aborted", "bad"} -> Nat], StartRead
    PROVE  /\ reads' \in [{"pending", "aborted", "bad"} -> Nat]
           /\ reads'.pending + reads'.aborted + reads'.bad
                = reads.pending + reads.aborted + reads.bad + 1
           /\ link # "closed" => reads'.bad = reads.bad
BY DEF StartRead

\* A read ends: the last thing the pool knows of it.
LEMMA EndedRead ==
    ASSUME reads \in [{"pending", "aborted", "bad"} -> Nat],
           NEW k \in {"pending", "aborted", "bad"},
           reads[k] > 0, reads' = [reads EXCEPT ![k] = @ - 1]
    PROVE  /\ reads' \in [{"pending", "aborted", "bad"} -> Nat]
           /\ reads'.pending + reads'.aborted + reads'.bad
                = reads.pending + reads.aborted + reads.bad - 1
           /\ k # "bad" => reads'.bad = reads.bad
OBVIOUS

\* Closing the socket leaves a part of what has been received.
LEMMA ClosedInbox ==
    ASSUME inbox \in Seq({"welcome", "chat"}), CloseSocket
    PROVE  inbox' \in Seq({"welcome", "chat"}) /\ (inbox = <<>> => inbox' = <<>>)
<1>1. PICK n \in 0 .. Len(inbox) : inbox' = SubSeq(inbox, 1, n)
  BY DEF CloseSocket
<1>2. n \in Int /\ \A i \in 1 .. n : inbox[i] \in {"welcome", "chat"}
  BY <1>1
<1>3. inbox' \in Seq({"welcome", "chat"})
  BY <1>1, <1>2, SubSeqProperties
<1>4. ASSUME inbox = <<>>
      PROVE  inbox' = <<>>
  <2>1. n < 1
    BY <1>1, <1>4
  <2> QED
    BY <1>1, <1>2, <2>1, SubSeqEmpty
<1> QED
  BY <1>3, <1>4

\* Every step of connect() and of disconnect() moves its actor.
LEMMA OneMoves ==
    ASSUME PlaceTypes, NEW a \in Actors, Procedures(a)
    PROVE  /\ \A b \in Actors \ {a} : pc'[b] = pc[b]
           /\ \E p \in Places \cup {"login", "idle", "stopped"} : pc' = [pc EXCEPT ![a] = p]
<1>1. \E p \in Places \cup {"login", "idle", "stopped"} : pc' = [pc EXCEPT ![a] = p]
  <2> USE DEF Places, GoTo
  <2>1. CASE Resolve(a) \/ ResolveFails(a) \/ FirstRead(a)
    BY <2>1 DEF Resolve, ResolveFails, FirstRead, AfterConnect
  <2>2. CASE Dial(a) \/ Attempt(a) \/ SetOption(a) \/ Connected(a)
    BY <2>2 DEF Dial, Attempt, SetOption, Connected
  <2>3. CASE Teardown(a)
    BY <2>3 DEF Teardown, Disconnect, Shutdown, Close, Forget, AfterDisconnect
  <2> QED
    BY <2>1, <2>2, <2>3 DEF Procedures, Teardown
<1> QED
  BY <1>1 DEF PlaceTypes, Actors

\* An actor that moves stays within its places.
LEMMA PlaceNext == PlaceTypes /\ [Next]_vars => PlaceTypes'
<1> SUFFICES ASSUME PlaceTypes, [Next]_vars
             PROVE  PlaceTypes'
  OBVIOUS
<1> USE DEF PlaceTypes, Actors, MainPlaces, ReaderPlaces, Places, GoTo
<1>1. ASSUME NEW a \in Actors, Procedures(a)
      PROVE  PlaceTypes'
  <2>1. CASE Resolve(a) \/ ResolveFails(a) \/ FirstRead(a)
    BY <2>1 DEF Resolve, ResolveFails, FirstRead, AfterConnect
  <2>2. CASE Dial(a) \/ Attempt(a) \/ SetOption(a) \/ Connected(a)
    BY <2>2 DEF Dial, Attempt, SetOption, Connected
  <2>3. CASE Disconnect(a) \/ Forget(a)
    BY <2>3 DEF Disconnect, Forget, AfterDisconnect
  <2>4. CASE Shutdown(a) \/ Close(a)
    BY <2>4 DEF Shutdown, Close
  <2> QED
    BY <1>1, <2>1, <2>2, <2>3, <2>4 DEF Procedures
<1>2. CASE LoggingIn \/ Stop
  BY <1>2 DEF LoggingIn, Login, WriteLine, LineDone, Stop
<1>3. CASE StopIos \/ Join
  BY <1>3 DEF StopIos, Join
<1>4. CASE ReadLine \/ ReadFails \/ ReadAborted
  BY <1>4 DEF ReadLine, ReadFails, ReadAborted
<1>5. CASE HandleLine \/ Rearm
  BY <1>5 DEF HandleLine, Rearm
<1>6. CASE Server
  BY <1>6 DEF Server, Welcome, ChatLine, LinkLost, NetworkDown, NetworkUp
<1>7. CASE UNCHANGED vars
  BY <1>7 DEF vars
<1> QED
  BY <1>1, <1>2, <1>3, <1>4, <1>5, <1>6, <1>7 DEF Next, Main, Reader, LoggingIn

LEMMA FlagNext == FlagTypes /\ [Next]_vars => FlagTypes'
<1> SUFFICES ASSUME FlagTypes, [Next]_vars
             PROVE  FlagTypes'
  OBVIOUS
<1> USE DEF FlagTypes
<1>1. ASSUME NEW a \in Actors, Procedures(a)
      PROVE  FlagTypes'
  <2>1. CASE Dial(a) \/ Close(a)
    BY <2>1 DEF Dial, Close, CloseSocket
  <2>2. CASE Attempt(a) \/ SetOption(a) \/ Connected(a) \/ FirstRead(a)
    BY <2>2 DEF Attempt, SetOption, Connected, FirstRead
  <2>3. CASE Resolve(a) \/ ResolveFails(a) \/ Disconnect(a) \/ Shutdown(a) \/ Forget(a)
    BY <2>3 DEF Resolve, ResolveFails, Disconnect, Shutdown, Forget
  <2> QED
    BY <1>1, <2>1, <2>2, <2>3 DEF Procedures
<1>2. CASE LoggingIn \/ Stop \/ StopIos \/ Join
  BY <1>2 DEF LoggingIn, Login, WriteLine, LineDone, Stop, StopIos, Join
<1>3. CASE ReadLine \/ ReadFails \/ ReadAborted \/ Rearm
  BY <1>3 DEF ReadLine, ReadFails, ReadAborted, Rearm
<1>4. CASE HandleLine
  <2>1. registered' \in BOOLEAN
    BY <1>4, Zenon DEF HandleLine
  <2>2. UNCHANGED <<connected, residue, iosStopped, network>>
    BY <1>4 DEF HandleLine
  <2> QED
    BY <2>1, <2>2
<1>5. CASE Server
  BY <1>5 DEF Server, Welcome, ChatLine, LinkLost, NetworkDown, NetworkUp
<1>6. CASE UNCHANGED vars
  BY <1>6 DEF vars
<1> QED
  BY <1>1, <1>2, <1>3, <1>4, <1>5, <1>6 DEF Next, Main, Reader, LoggingIn, Actors

LEMMA ReadNext == PlaceTypes /\ ReadTypes /\ WireTypes /\ [Next]_vars => ReadTypes'
<1> SUFFICES ASSUME PlaceTypes, ReadTypes, WireTypes, [Next]_vars
             PROVE  ReadTypes'
  OBVIOUS
<1> USE DEF PlaceTypes, ReadTypes, Actors, GoTo
<1>1. ASSUME NEW a \in Actors, Procedures(a)
      PROVE  ReadTypes'
  <2>1. CASE Resolve(a) \/ ResolveFails(a)
    BY <2>1 DEF Resolve, ResolveFails, AfterConnect
  <2>2. CASE Dial(a)
    <3>1. (reads' = AbortReads \/ UNCHANGED reads) /\ UNCHANGED got
      BY <2>2 DEF Dial, CloseSocket
    <3>2. pc'["reader"] # "line" \/ UNCHANGED <<pc["reader"]>>
      BY <2>2 DEF Dial
    <3> QED
      BY <3>1, <3>2, AbortedReads
  <2>3. CASE FirstRead(a)
    <3>1. StartRead /\ UNCHANGED got
      BY <2>3 DEF FirstRead
    <3>2. pc'["reader"] # "line" \/ UNCHANGED <<pc["reader"]>>
      BY <2>3 DEF FirstRead, AfterConnect
    <3> QED
      BY <3>1, <3>2, StartedRead
  <2>7. CASE Attempt(a) \/ SetOption(a) \/ Connected(a)
    BY <2>7 DEF Attempt, SetOption, Connected
  <2>4. CASE Disconnect(a) \/ Forget(a)
    BY <2>4 DEF Disconnect, Forget, AfterDisconnect
  <2>5. CASE Shutdown(a)
    BY <2>5 DEF Shutdown
  <2>6. CASE Close(a)
    <3>1. reads' = AbortReads /\ UNCHANGED got
      BY <2>6 DEF Close, CloseSocket
    <3>2. pc'["reader"] # "line" \/ UNCHANGED <<pc["reader"]>>
      BY <2>6 DEF Close
    <3> QED
      BY <3>1, <3>2, AbortedReads
  <2> QED
    BY <1>1, <2>1, <2>2, <2>3, <2>4, <2>5, <2>6, <2>7 DEF Procedures
<1>2. CASE LoggingIn \/ Stop
  BY <1>2 DEF LoggingIn, Login, WriteLine, LineDone, Stop
<1>3. CASE StopIos \/ Join
  BY <1>3 DEF StopIos, Join
<1>4. CASE ReadLine
  <2>1. PICK k \in {"pending", "bad"} : reads[k] > 0 /\ reads' = [reads EXCEPT ![k] = @ - 1]
    BY <1>4 DEF ReadLine
  <2>2. reads' \in [{"pending", "aborted", "bad"} -> Nat]
    BY <2>1, EndedRead
  <2>3. Head(inbox) \in {"welcome", "chat"}
    BY <1>4 DEF ReadLine, WireTypes
  <2>4. got' \in {"welcome", "chat", "garbled"}
    BY <1>4, <2>3 DEF ReadLine
  <2> QED
    BY <2>2, <2>4
<1>5. CASE ReadFails
  <2>1. PICK k \in {"pending", "bad"} : reads[k] > 0 /\ reads' = [reads EXCEPT ![k] = @ - 1]
    BY <1>5 DEF ReadFails
  <2>2. pc'["reader"] = "disconnect" /\ UNCHANGED got
    BY <1>5 DEF ReadFails
  <2> QED
    BY <2>1, <2>2, EndedRead
<1>6. CASE ReadAborted
  <2>1. UNCHANGED <<pc, got>>
    BY <1>6 DEF ReadAborted
  <2> QED
    BY <1>6, <2>1, EndedRead DEF ReadAborted
<1>7. CASE HandleLine
  BY <1>7 DEF HandleLine
<1>8. CASE Rearm
  <2>1. StartRead /\ UNCHANGED got /\ pc'["reader"] = "idle"
    BY <1>8 DEF Rearm
  <2> QED
    BY <2>1, StartedRead
<1>9. CASE Server
  BY <1>9 DEF Server, Welcome, ChatLine, LinkLost, NetworkDown, NetworkUp
<1>0. CASE UNCHANGED vars
  BY <1>0 DEF vars
<1> QED
  BY <1>1, <1>2, <1>3, <1>4, <1>5, <1>6, <1>7, <1>8, <1>9, <1>0 DEF Next, Main, Reader, LoggingIn, Actors

LEMMA WireNext == WireTypes /\ [Next]_vars => WireTypes'
<1> SUFFICES ASSUME WireTypes, [Next]_vars
             PROVE  WireTypes'
  OBVIOUS
<1> USE DEF WireTypes
<1>1. ASSUME NEW a \in Actors, Procedures(a)
      PROVE  WireTypes'
  <2>1. CASE Resolve(a) \/ ResolveFails(a) \/ SetOption(a) \/ Connected(a) \/ FirstRead(a)
    BY <2>1 DEF Resolve, ResolveFails, SetOption, Connected, FirstRead
  <2>2. CASE Attempt(a) \/ Disconnect(a) \/ Shutdown(a) \/ Forget(a)
    BY <2>2 DEF Attempt, Disconnect, Shutdown, Forget
  <2>3. CASE Dial(a) \/ Close(a)
    <3>1. CloseSocket \/ UNCHANGED wire
      BY <2>3 DEF Dial, Close
    <3>2. CASE CloseSocket
      <4>1. link' = "closed"
        BY <3>2 DEF CloseSocket
      <4> QED
        BY <3>2, <4>1, ClosedInbox
    <3>3. CASE UNCHANGED wire
      BY <3>3
    <3> QED
      BY <3>1, <3>2, <3>3
  <2> QED
    BY <1>1, <2>1, <2>2, <2>3 DEF Procedures
<1>2. CASE LoggingIn \/ Stop \/ StopIos \/ Join
  BY <1>2 DEF LoggingIn, Login, WriteLine, LineDone, Stop, StopIos, Join
<1>3. CASE ReadLine
  <2>1. inbox' = Tail(inbox) /\ inbox # <<>> /\ UNCHANGED link
    BY <1>3 DEF ReadLine
  <2> QED
    BY <2>1
<1>4. CASE ReadFails \/ ReadAborted \/ HandleLine \/ Rearm
  BY <1>4 DEF ReadFails, ReadAborted, HandleLine, Rearm
<1>5. CASE Welcome \/ ChatLine
  <2>1. inbox' = Append(inbox, "welcome") \/ inbox' = Append(inbox, "chat")
    BY <1>5 DEF Welcome, ChatLine
  <2>2. UNCHANGED link
    BY <1>5 DEF Welcome, ChatLine
  <2> QED
    BY <2>1, <2>2
<1>6. CASE LinkLost \/ NetworkDown \/ NetworkUp
  BY <1>6 DEF LinkLost, NetworkDown, NetworkUp
<1>7. CASE UNCHANGED vars
  BY <1>7 DEF vars
<1> QED
  BY <1>1, <1>2, <1>3, <1>4, <1>5, <1>6, <1>7 DEF Next, Main, Reader, Server, LoggingIn, Actors

LEMMA LoginLength ==
    /\ Len(LoginLines) = 4
    /\ \A i \in 1 .. 4 : LoginLines[i] \in {"PASS", "NICK", "USER", "JOIN"}
BY DEF LoginLines

LEMMA LoginIsKnown ==
    /\ \A i \in 1 .. 4 : LoginLines[i] \in ServerKnows
    /\ {"CAP", "welcomed"} \subseteq ServerKnows
BY DEF LoginLines, ServerKnows

LEMMA PeerNext == PlaceTypes /\ PeerTypes /\ [Next]_vars => PeerTypes'
<1> SUFFICES ASSUME PlaceTypes, PeerTypes, [Next]_vars
             PROVE  PeerTypes'
  OBVIOUS
<1> USE LoginLength DEF PlaceTypes, PeerTypes, Actors, GoTo, Connecting
<1>1. ASSUME NEW a \in Actors, Procedures(a)
      PROVE  PeerTypes'
  <2>1. CASE Resolve(a) \/ ResolveFails(a) \/ FirstRead(a)
    BY <2>1 DEF Resolve, ResolveFails, FirstRead, AfterConnect
  <2>2. CASE Dial(a) \/ Attempt(a)
    BY <2>2 DEF Dial, Attempt
  <2>3. CASE SetOption(a) \/ Connected(a)
    BY <2>3 DEF SetOption, Connected
  <2>4. CASE Disconnect(a) \/ Forget(a)
    BY <2>4 DEF Disconnect, Forget, AfterDisconnect
  <2>5. CASE Shutdown(a) \/ Close(a)
    BY <2>5 DEF Shutdown, Close
  <2> QED
    BY <1>1, <2>1, <2>2, <2>3, <2>4, <2>5 DEF Procedures
<1>2. CASE LoggingIn
  <2>1. next \in 1 .. 4 /\ pc["main"] \in {"login", "write"}
    BY <1>2 DEF LoggingIn, Login, WriteLine
  <2>2. /\ next' = next \/ next' = next + 1
        /\ pc'["main"] = "running" \/ (next' <= 4 /\ pc'["main"] \in {"login", "write"})
    BY <1>2, <2>1 DEF LoggingIn, Login, WriteLine, LineDone
  <2>3. received' \subseteq ServerKnows
    BY <1>2, <2>1, LoginIsKnown DEF LoggingIn, Login, WriteLine
  <2> QED
    BY <2>1, <2>2, <2>3
<1>3. CASE Stop \/ StopIos \/ Join
  BY <1>3 DEF Stop, StopIos, Join
<1>4. CASE ReadLine \/ ReadFails \/ ReadAborted \/ Rearm
  BY <1>4 DEF ReadLine, ReadFails, ReadAborted, Rearm
<1>5. CASE HandleLine \/ Welcome
  BY <1>5, LoginIsKnown DEF HandleLine, Welcome
<1>6. CASE ChatLine \/ LinkLost \/ NetworkDown \/ NetworkUp
  BY <1>6 DEF ChatLine, LinkLost, NetworkDown, NetworkUp
<1>7. CASE UNCHANGED vars
  BY <1>7 DEF vars
<1> QED
  BY <1>1, <1>2, <1>3, <1>4, <1>5, <1>6, <1>7 DEF Next, Main, Reader, Server, LoggingIn

LEMMA CountNext == CountTypes /\ [Next]_vars => CountTypes'
<1> SUFFICES ASSUME CountTypes, [Next]_vars
             PROVE  CountTypes'
  OBVIOUS
<1> USE DEF CountTypes
<1>1. ASSUME NEW a \in Actors, Procedures(a)
      PROVE  CountTypes'
  <2>1. CASE ResolveFails(a)
    BY <2>1 DEF ResolveFails
  <2>2. CASE ~ResolveFails(a)
    BY <1>1, <2>2 DEF Procedures, Resolve, Dial, Attempt, SetOption, Connected, FirstRead,
                      Disconnect, Shutdown, Close, Forget
  <2> QED
    BY <2>1, <2>2
<1>2. CASE LoggingIn \/ Stop \/ StopIos \/ Join
  BY <1>2 DEF LoggingIn, Login, WriteLine, LineDone, Stop, StopIos, Join
<1>3. CASE ReadLine \/ ReadFails \/ ReadAborted \/ HandleLine \/ Rearm
  BY <1>3 DEF ReadLine, ReadFails, ReadAborted, HandleLine, Rearm
<1>4. CASE Server
  BY <1>4 DEF Server, Welcome, ChatLine, LinkLost, NetworkDown, NetworkUp
<1>5. CASE UNCHANGED vars
  BY <1>5 DEF vars
<1> QED
  BY <1>1, <1>2, <1>3, <1>4, <1>5 DEF Next, Main, Reader, LoggingIn, Actors

LEMMA NextType == TypeOK /\ [Next]_vars => TypeOK'
BY PlaceNext, FlagNext, ReadNext, WireNext, PeerNext, CountNext DEF TypeOK

\* Every variable keeps its type, and an actor has what it works on while it
\* needs it, however many lines, losses and look-ups there are.
THEOREM TypeCorrect == Spec => []TypeOK
BY InitType, NextType, PTL DEF Spec

-----------------------------------------------------------------------------
(* There is one reader. *)

LEMMA ReadersNext == ReadersInv /\ [Next]_vars => ReadersInv'
<1> SUFFICES ASSUME ReadersInv, [Next]_vars
             PROVE  OneReader' /\ (FirstConnect => NothingRead)'
  BY NextType DEF ReadersInv
<1> USE DEF ReadersInv, OneReader, FirstConnect, NothingRead, NoReads, TypeOK, PlaceTypes,
            ReadTypes, Actors, GoTo, Connecting
<1>1. ASSUME NEW a \in Actors, Procedures(a)
      PROVE  OneReader' /\ (FirstConnect => NothingRead)'
  <2>1. ASSUME a = "main", pc["main"] \in Connecting, ~FirstRead(a)
        PROVE  OneReader' /\ (FirstConnect => NothingRead)'
    <3>1. NothingRead /\ pc'["reader"] = "idle"
      BY <1>1, <2>1, OneMoves
    <3>2. UNCHANGED reads \/ reads' = AbortReads
      BY <1>1, <2>1 DEF Procedures, Resolve, ResolveFails, Dial, CloseSocket, Attempt, SetOption,
                        Connected, Disconnect, Shutdown, Close, Forget
    <3>3. reads' = NoReads
      BY <3>1, <3>2, AbortedReads
    <3> QED
      BY <3>1, <3>3
  <2>2. ASSUME a = "reader", pc["reader"] \in Connecting, ~FirstRead(a)
        PROVE  OneReader' /\ (FirstConnect => NothingRead)'
    <3>1. pc'["main"] = pc["main"] /\ ~FirstConnect /\ Outstanding = 0
      BY <1>1, <2>2, OneMoves DEF Outstanding
    <3>2. UNCHANGED reads \/ reads' = AbortReads
      BY <1>1, <2>2 DEF Procedures, Resolve, ResolveFails, Dial, CloseSocket, Attempt, SetOption,
                        Connected, Disconnect, Shutdown, Close, Forget
    <3>3. reads'.pending + reads'.aborted + reads'.bad = 0
      BY <3>1, <3>2, AbortedReads DEF Outstanding
    <3> QED
      BY <3>1, <3>3
  <2>3. CASE FirstRead(a)
    <3>1. Outstanding = 0
      BY <2>3 DEF FirstRead, Outstanding
    <3>2. reads' \in [{"pending", "aborted", "bad"} -> Nat]
          /\ reads'.pending + reads'.aborted + reads'.bad = 1
      BY <2>3, <3>1, StartedRead DEF FirstRead, Outstanding
    <3> QED
      BY <2>3, <3>2 DEF FirstRead, AfterConnect
  <2>4. CASE Disconnect(a) \/ Forget(a)
    BY <2>4 DEF Disconnect, Forget, AfterDisconnect
  <2>5. CASE Shutdown(a)
    BY <2>5 DEF Shutdown
  <2>6. CASE Close(a)
    <3>1. reads' = AbortReads
      BY <2>6 DEF Close, CloseSocket
    <3> QED
      BY <2>6, <3>1, AbortedReads DEF Close
  <2>7. CASE pc[a] \in Connecting
    BY <2>1, <2>2, <2>3, <2>7
  <2>8. CASE pc[a] \notin Connecting
    <3>1. Teardown(a)
      BY <1>1, <2>8 DEF Procedures, Teardown, Resolve, ResolveFails, Dial, Attempt, SetOption,
                        Connected, FirstRead
    <3> QED
      BY <2>4, <2>5, <2>6, <3>1 DEF Teardown
  <2> QED
    BY <2>7, <2>8
<1>2. CASE LoggingIn \/ Stop
  BY <1>2 DEF LoggingIn, Login, WriteLine, LineDone, Stop
<1>3. CASE StopIos \/ Join
  BY <1>3 DEF StopIos, Join
<1>4. CASE ReadLine \/ ReadFails
  <2>1. PICK k \in {"pending", "bad"} : reads[k] > 0 /\ reads' = [reads EXCEPT ![k] = @ - 1]
    BY <1>4 DEF ReadLine, ReadFails
  <2>2. pc["reader"] = "idle" /\ pc'["main"] = pc["main"]
    BY <1>4 DEF ReadLine, ReadFails
  <2> QED
    BY <2>1, <2>2, EndedRead
<1>5. CASE ReadAborted
  <2>1. UNCHANGED pc
    BY <1>5 DEF ReadAborted
  <2> QED
    BY <1>5, <2>1, EndedRead DEF ReadAborted
<1>6. CASE HandleLine
  BY <1>6 DEF HandleLine
<1>7. CASE Rearm
  <2>1. StartRead /\ pc'["reader"] = "idle" /\ pc'["main"] = pc["main"]
    BY <1>7 DEF Rearm
  <2>2. pc["reader"] = "rearm"
    BY <1>7 DEF Rearm
  <2> QED
    BY <2>1, <2>2, StartedRead
<1>8. CASE Server
  BY <1>8 DEF Server, Welcome, ChatLine, LinkLost, NetworkDown, NetworkUp
<1>9. CASE UNCHANGED vars
  BY <1>9 DEF vars
<1> QED
  BY <1>1, <1>2, <1>3, <1>4, <1>5, <1>6, <1>7, <1>8, <1>9 DEF Next, Main, Reader, LoggingIn, Actors

LEMMA ReadersInit == Init => ReadersInv
BY InitType DEF Init, ReadersInv, OneReader, NothingRead, NoReads

\* One read or one read handler at a time, although two threads start reads
\* and stop() closes the socket under them.
THEOREM AtMostOneReader == Spec => []OneReader
<1>1. ReadersInv => OneReader
  BY DEF ReadersInv
<1> QED
  BY <1>1, ReadersInit, ReadersNext, PTL DEF Spec

-----------------------------------------------------------------------------
(* Until stop() is called, registered_ speaks of the current connection. *)

LEMMA GotNext == ReadersInv /\ ConnectionInv /\ [Next]_vars => (pc["reader"] # "line" => got = "none")'
<1> SUFFICES ASSUME ReadersInv, ConnectionInv, [Next]_vars
             PROVE  (pc["reader"] # "line" => got = "none")'
  OBVIOUS
<1> USE DEF ReadersInv, TypeOK, PlaceTypes, ConnectionInv, Actors, GoTo
<1>1. ASSUME NEW a \in Actors, Procedures(a)
      PROVE  (pc["reader"] # "line" => got = "none")'
  <2>1. pc[a] # "line" /\ UNCHANGED got
    BY <1>1 DEF Procedures, Resolve, ResolveFails, Dial, Attempt, SetOption, Connected,
                FirstRead, Disconnect, Shutdown, Close, Forget
  <2>2. PICK p : pc' = [pc EXCEPT ![a] = p]
    BY <1>1, OneMoves
  <2> QED
    BY <2>1, <2>2
<1>2. CASE LoggingIn \/ Stop \/ StopIos \/ Join
  BY <1>2 DEF LoggingIn, Login, WriteLine, LineDone, Stop, StopIos, Join
<1>3. CASE ReadLine
  BY <1>3 DEF ReadLine
<1>4. CASE ReadFails \/ ReadAborted
  BY <1>4 DEF ReadFails, ReadAborted
<1>5. CASE HandleLine \/ Rearm
  BY <1>5 DEF HandleLine, Rearm
<1>6. CASE Server
  BY <1>6 DEF Server, Welcome, ChatLine, LinkLost, NetworkDown, NetworkUp
<1>7. CASE UNCHANGED vars
  BY <1>7 DEF vars
<1> QED
  BY <1>1, <1>2, <1>3, <1>4, <1>5, <1>6, <1>7 DEF Next, Main, Reader, LoggingIn, Actors

\* Nothing comes back from stop().
LEMMA StopStays == TypeOK /\ Stopping /\ [Next]_vars => Stopping'
<1> SUFFICES ASSUME TypeOK, Stopping, [Next]_vars
             PROVE  Stopping'
  OBVIOUS
<1> USE DEF TypeOK, PlaceTypes, Stopping, Actors, GoTo
<1>1. ASSUME NEW a \in Actors, Procedures(a)
      PROVE  Stopping'
  <2>1. CASE Resolve(a) \/ ResolveFails(a) \/ FirstRead(a)
    BY <2>1 DEF Resolve, ResolveFails, FirstRead, AfterConnect
  <2>2. CASE Dial(a) \/ Attempt(a) \/ SetOption(a) \/ Connected(a)
    BY <2>2 DEF Dial, Attempt, SetOption, Connected
  <2>3. CASE Disconnect(a) \/ Forget(a)
    BY <2>3 DEF Disconnect, Forget, AfterDisconnect
  <2>4. CASE Shutdown(a) \/ Close(a)
    BY <2>4 DEF Shutdown, Close
  <2> QED
    BY <1>1, <2>1, <2>2, <2>3, <2>4 DEF Procedures
<1>2. CASE LoggingIn \/ Stop \/ StopIos \/ Join
  BY <1>2 DEF LoggingIn, Login, WriteLine, LineDone, Stop, StopIos, Join
<1>3. CASE ReadLine \/ ReadFails \/ ReadAborted
  BY <1>3 DEF ReadLine, ReadFails, ReadAborted
<1>4. CASE HandleLine \/ Rearm
  BY <1>4 DEF HandleLine, Rearm
<1>5. CASE Server
  BY <1>5 DEF Server, Welcome, ChatLine, LinkLost, NetworkDown, NetworkUp
<1>6. CASE UNCHANGED vars
  BY <1>6 DEF vars
<1> QED
  BY <1>1, <1>2, <1>3, <1>4, <1>5, <1>6 DEF Next, Main, Reader, LoggingIn, Actors

\* While one connects, nothing is read.
LEMMA NothingIsRead ==
    ASSUME ReadersInv, NEW a \in Actors, pc[a] \in Connecting
    PROVE  ~Reading
<1> USE DEF ReadersInv, TypeOK, ReadTypes, Reading, Outstanding, Connecting
<1>1. CASE a = "main"
  BY <1>1 DEF FirstConnect, NothingRead, NoReads
<1>2. CASE a = "reader"
  BY <1>2 DEF OneReader
<1> QED
  BY <1>1, <1>2 DEF Actors

\* connect(), by either actor.
LEMMA ConnectKeeps ==
    ASSUME ReadersInv, LinkInv, SessionInv, pc["reader"] # "line" => got = "none",
           NEW a \in Actors, Connect(a)
    PROVE  LinkInv' /\ SessionInv'
<1> USE DEF ReadersInv, TypeOK, PlaceTypes, ReadTypes, WireTypes, Actors, GoTo, LinkInv,
            SessionInv, Reading, Outstanding, Tearing, Dialling, Linked, Greeted, WelcomeWaits,
            LoggedIn, FirstConnect, NothingRead, NoReads, OneReader, Connecting
<1>1. CASE Resolve(a) \/ ResolveFails(a)
  <2>1. pc[a] = "connect" /\ UNCHANGED <<flags, wire, reads, got, received>>
    BY <1>1 DEF Resolve, ResolveFails
  <2>2. pc' = [pc EXCEPT ![a] = "dial"] \/ pc' = [pc EXCEPT ![a] = AfterConnect(a)]
    BY <1>1 DEF Resolve, ResolveFails
  <2>3. SessionInv'
    BY <2>1
  <2>4. LinkInv'
    BY <2>1, <2>2 DEF AfterConnect
  <2> QED
    BY <2>3, <2>4
<1>2. CASE Dial(a)
  <2>0. pc[a] = "dial" /\ UNCHANGED <<flags, got, received>>
    BY <1>2 DEF Dial
  <2>1. inbox = <<>> /\ ~Reading /\ pc[a] = "dial" /\ UNCHANGED <<flags, got, received>>
    BY <2>0, NothingIsRead
  <2>2. pc' = [pc EXCEPT ![a] = "attempt"] \/ pc' = [pc EXCEPT ![a] = "thrown"]
    BY <1>2 DEF Dial
  <2>3. CASE CloseSocket
    <3>1. link' = "closed" /\ reads' = AbortReads /\ inbox' = <<>>
      BY <2>1, <2>3, ClosedInbox DEF CloseSocket
    <3>2. reads'.pending + reads'.aborted + reads'.bad = 0 /\ reads'.bad = 0
      BY <2>1, <3>1, AbortedReads
    <3>3. \A b \in Actors : ~Linked(b)'
      BY <2>1, <2>2
    <3>4. LinkInv'
      BY <2>1, <2>2, <3>1, <3>2, <3>3
    <3>5. SessionInv'
      BY <2>1, <3>1
    <3> QED
      BY <3>4, <3>5
  <2>4. CASE UNCHANGED <<wire, reads>>
    BY <2>1, <2>2, <2>4
  <2> QED
    BY <1>2, <2>3, <2>4 DEF Dial
<1>3. CASE Attempt(a)
  <2>0. pc[a] = "attempt" /\ UNCHANGED <<flags, inbox, reads, got>>
    BY <1>3 DEF Attempt
  <2>1. inbox = <<>> /\ ~Reading /\ ~registered /\ pc[a] = "attempt"
        /\ UNCHANGED <<flags, inbox, reads, got>>
    BY <2>0, NothingIsRead
  <2>2. \/ link' = "up" /\ pc' = [pc EXCEPT ![a] = "option"]
        \/ link' = "opened" /\ pc' = [pc EXCEPT ![a] = "dial"]
    BY <1>3 DEF Attempt
  <2>3. ~Greeted'
    BY <2>1
  <2>4. \A b \in Actors \ {a} : pc[b] \notin Connecting
    BY <2>1
  <2>5. LinkInv'
    BY <2>1, <2>2, <2>4
  <2>6. SessionInv'
    BY <1>3, <2>1, <2>3 DEF Attempt
  <2> QED
    BY <2>5, <2>6
<1>4. CASE SetOption(a)
  <2>1. pc[a] = "option" /\ UNCHANGED <<flags, wire, reads, got, received>>
    BY <1>4 DEF SetOption
  <2>2. pc' = [pc EXCEPT ![a] = "connected"]
    BY <1>4, <2>1 DEF SetOption
  <2> QED
    BY <2>1, <2>2
<1>5. CASE Connected(a)
  <2>1. pc[a] = "connected" /\ connected' = TRUE
        /\ UNCHANGED <<registered, wire, reads, got, received>>
    BY <1>5 DEF Connected
  <2>2. pc' = [pc EXCEPT ![a] = "read"]
    BY <1>5 DEF Connected
  <2> QED
    BY <2>1, <2>2
<1>6. CASE FirstRead(a)
  <2>1. pc[a] = "read" /\ connected /\ UNCHANGED <<flags, wire, got, received>>
    BY <1>6 DEF FirstRead
  <2>2. pc' = [pc EXCEPT ![a] = AfterConnect(a)]
    BY <1>6 DEF FirstRead
  <2>3. link # "closed" /\ StartRead
    BY <1>6, <2>1 DEF FirstRead
  <2>4. SessionInv'
    BY <2>1
  <2>5. LinkInv'
    BY <2>1, <2>2, <2>3, StartedRead DEF AfterConnect
  <2> QED
    BY <2>4, <2>5
<1> QED
  BY <1>1, <1>2, <1>3, <1>4, <1>5, <1>6 DEF Connect

\* disconnect(), as part of reconnect().
LEMMA DisconnectKeeps ==
    ASSUME ReadersInv, LinkInv, SessionInv, got = "none",
           Disconnect("reader") \/ Shutdown("reader") \/ Close("reader") \/ Forget("reader")
    PROVE  LinkInv' /\ SessionInv'
<1> USE DEF ReadersInv, TypeOK, PlaceTypes, ReadTypes, WireTypes, Actors, GoTo, LinkInv,
            SessionInv, Reading, Outstanding, Tearing, Dialling, Linked, Greeted, WelcomeWaits,
            LoggedIn, FirstConnect, Connecting, NothingRead, OneReader
<1>1. CASE Disconnect("reader")
  <2>1. pc["reader"] = "disconnect" /\ UNCHANGED <<flags, wire, reads, got, received>>
    BY <1>1 DEF Disconnect
  <2>2. pc' = [pc EXCEPT !["reader"] = IF connected THEN "shutdown" ELSE "connect"]
    BY <1>1 DEF Disconnect, AfterDisconnect
  <2>3. ~connected => ~registered
    BY <2>1
  <2> QED
    BY <2>1, <2>2, <2>3
<1>2. CASE Shutdown("reader")
  <2>1. pc["reader"] = "shutdown" /\ UNCHANGED <<flags, wire, reads, got, received>>
    BY <1>2 DEF Shutdown
  <2>2. pc' = [pc EXCEPT !["reader"] = "close"]
    BY <1>2 DEF Shutdown
  <2> QED
    BY <2>1, <2>2
<1>3. CASE Close("reader")
  <2>1. pc["reader"] = "close" /\ link' = "closed" /\ reads' = AbortReads
        /\ UNCHANGED <<flags, got, received>>
    BY <1>3 DEF Close, CloseSocket
  <2>2. pc' = [pc EXCEPT !["reader"] = "forget"]
    BY <1>3 DEF Close
  <2>3. inbox' = <<>>
    BY <1>3, <2>1, ClosedInbox DEF Close
  <2>4. Outstanding = 0 /\ ~FirstConnect
    BY <2>1
  <2>5. reads'.pending + reads'.aborted + reads'.bad = 0 /\ reads'.bad = 0
    BY <2>1, <2>4, AbortedReads
  <2>6. LinkInv'
    <3>1. ~Reading'
      BY <2>2, <2>5
    <3>2. \A b \in Actors : ~Linked(b)' /\ ~Dialling(b)'
      BY <2>2, <2>4
    <3> QED
      BY <2>1, <2>2, <2>3, <2>5, <3>1, <3>2
  <2>7. SessionInv'
    BY <2>1, <2>3
  <2> QED
    BY <2>6, <2>7
<1>4. CASE Forget("reader")
  <2>1. pc["reader"] = "forget" /\ UNCHANGED <<wire, reads, got, received>>
        /\ connected' = FALSE /\ registered' = FALSE
    BY <1>4 DEF Forget
  <2>2. pc' = [pc EXCEPT !["reader"] = "connect"]
    BY <1>4 DEF Forget, AfterDisconnect
  <2> QED
    BY <2>1, <2>2
<1> QED
  BY <1>1, <1>2, <1>3, <1>4

\* The read handler, but for what it does in reconnect().
LEMMA HandlerKeeps ==
    ASSUME ReadersInv, LinkInv, SessionInv,
           ReadLine \/ ReadFails \/ ReadAborted \/ HandleLine \/ Rearm
    PROVE  LinkInv' /\ SessionInv'
<1> USE DEF ReadersInv, TypeOK, PlaceTypes, ReadTypes, WireTypes, Actors, GoTo, LinkInv,
            SessionInv, Reading, Outstanding, Tearing, Dialling, Linked, Greeted, WelcomeWaits,
            LoggedIn, FirstConnect, Connecting, NothingRead, NoReads
<1>1. CASE ReadLine
  <2>1. pc["reader"] = "idle" /\ inbox # <<>> /\ inbox' = Tail(inbox)
        /\ UNCHANGED <<flags, link, received>>
    BY <1>1 DEF ReadLine
  <2>2. pc' = [pc EXCEPT !["reader"] = "line"]
    BY <1>1 DEF ReadLine
  <2>3. PICK k \in {"pending", "bad"} : reads[k] > 0 /\ reads' = [reads EXCEPT ![k] = @ - 1]
    BY <1>1 DEF ReadLine
  <2>4. k = "pending" /\ ~FirstConnect
    BY <2>3
  <2>5. LinkInv'
    BY <2>1, <2>2, <2>3, <2>4
  <2>6. Greeted' => Greeted
    <3>1. got' = "garbled" \/ got' = inbox[1]
      BY <1>1 DEF ReadLine
    <3>2. \A i \in 1 .. Len(inbox') : inbox'[i] = inbox[i + 1] /\ i + 1 \in 1 .. Len(inbox)
      BY <2>1
    <3>3. 1 \in 1 .. Len(inbox)
      BY <2>1
    <3> QED
      BY <2>1, <3>1, <3>2, <3>3
  <2>7. SessionInv'
    BY <2>1, <2>6
  <2> QED
    BY <2>5, <2>7
<1>2. CASE ReadFails
  <2>1. pc["reader"] = "idle" /\ inbox = <<>> /\ UNCHANGED <<flags, wire, got, received>>
    BY <1>2 DEF ReadFails
  <2>2. pc' = [pc EXCEPT !["reader"] = "disconnect"]
    BY <1>2 DEF ReadFails
  <2>3. link = "lost" /\ reads.pending > 0 /\ reads' = [reads EXCEPT !.pending = @ - 1]
    BY <1>2 DEF ReadFails
  <2> QED
    BY <2>1, <2>2, <2>3
<1>3. CASE ReadAborted
  BY <1>3 DEF ReadAborted
<1>4. CASE HandleLine
  <2>1. pc["reader"] = "line" /\ UNCHANGED <<connected, wire, reads>>
        /\ pc' = [pc EXCEPT !["reader"] = "rearm"] /\ got' = "none"
    BY <1>4 DEF HandleLine
  <2>2. registered' => registered \/ got = "welcome"
    BY <1>4 DEF HandleLine
  <2>3. received \subseteq received' /\ (received' = received \/ got = "welcome")
    BY <1>4 DEF HandleLine
  <2>4. LinkInv'
    <3>1. ~FirstConnect
      BY <2>1
    <3> QED
      BY <2>1, <3>1
  <2>5. SessionInv'
    BY <2>1, <2>2, <2>3
  <2> QED
    BY <2>4, <2>5
<1>5. CASE Rearm
  <2>1. pc["reader"] = "rearm" /\ StartRead /\ UNCHANGED <<flags, wire, got, received>>
    BY <1>5 DEF Rearm
  <2>2. pc' = [pc EXCEPT !["reader"] = "idle"]
    BY <1>5 DEF Rearm
  <2> QED
    BY <2>1, <2>2, StartedRead
<1> QED
  BY <1>1, <1>2, <1>3, <1>4, <1>5

\* The main thread's login, and whatever the server and the network do.
LEMMA PeerKeeps ==
    ASSUME ReadersInv, LinkInv, SessionInv, LoggingIn \/ Server
    PROVE  LinkInv' /\ SessionInv'
<1> USE DEF ReadersInv, TypeOK, PlaceTypes, ReadTypes, WireTypes, Actors, GoTo, LinkInv,
            SessionInv, Reading, Outstanding, Tearing, Dialling, Linked, Greeted, WelcomeWaits,
            LoggedIn, FirstConnect, Connecting, NothingRead
<1>1. CASE LoggingIn
  <2>1. UNCHANGED <<flags, wire, reads, got>> /\ received \subseteq received'
    BY <1>1 DEF LoggingIn, Login, WriteLine
  <2>2. pc' = [pc EXCEPT !["main"] = pc'["main"]]
        /\ pc'["main"] \in {"login", "write", "running"}
    BY <1>1 DEF LoggingIn, Login, WriteLine, LineDone
  <2> QED
    BY <2>1, <2>2
<1>2. CASE Welcome
  <2>1. UNCHANGED <<pc, flags, link, reads, got>> /\ link = "up"
        /\ received' = received \cup {"welcomed"} /\ LoggedIn
    BY <1>2 DEF Welcome
  <2>2. ~Tearing /\ \A a \in Actors : ~Dialling(a)
    BY <2>1
  <2> QED
    BY <2>1, <2>2
<1>3. CASE ChatLine
  <2>1. UNCHANGED <<pc, flags, link, reads, got, received>> /\ link = "up"
        /\ inbox' = Append(inbox, "chat")
    BY <1>3 DEF ChatLine
  <2>2. ~Tearing /\ \A a \in Actors : ~Dialling(a)
    BY <2>1
  <2>3. WelcomeWaits' => WelcomeWaits
    BY <2>1
  <2> QED
    BY <2>1, <2>2, <2>3
<1>4. CASE LinkLost
  BY <1>4 DEF LinkLost
<1>5. CASE NetworkDown \/ NetworkUp
  BY <1>5 DEF NetworkDown, NetworkUp
<1> QED
  BY <1>1, <1>2, <1>3, <1>4, <1>5 DEF Server

LEMMA ConnectionNext == ReadersInv /\ ConnectionInv /\ [Next]_vars => ConnectionInv'
<1> SUFFICES ASSUME ReadersInv, ConnectionInv, [Next]_vars, ~Stopping'
             PROVE  LinkInv' /\ SessionInv'
  BY GotNext DEF ConnectionInv
<1>1. ~Stopping
  BY StopStays DEF ReadersInv
<1>2. LinkInv /\ SessionInv
  BY <1>1 DEF ConnectionInv
<1>3. ASSUME NEW a \in Actors, Procedures(a)
      PROVE  LinkInv' /\ SessionInv'
  <2>1. CASE Connect(a)
    BY <1>2, <2>1, ConnectKeeps DEF ConnectionInv
  <2>2. CASE Teardown(a)
    <3>1. a = "reader" /\ pc["reader"] # "line"
      BY <1>1, <2>2 DEF Stopping, Teardown, Actors, Disconnect, Shutdown, Close, Forget
    <3>2. got = "none"
      BY <3>1 DEF ConnectionInv
    <3> QED
      BY <1>2, <2>2, <3>1, <3>2, DisconnectKeeps DEF Teardown
  <2> QED
    BY <1>3, <2>1, <2>2 DEF Procedures, Connect, Teardown
<1>4. CASE StopIos \/ Join \/ Stop
  <2>1. Stopping'
    BY <1>4 DEF StopIos, Join, Stop, Stopping, GoTo, ReadersInv, TypeOK, PlaceTypes, Actors
  <2> QED
    BY <2>1
<1>5. CASE UNCHANGED vars
  BY <1>2, <1>5 DEF vars, LinkInv, SessionInv, Reading, Outstanding, Tearing, Dialling, Linked,
                    FirstConnect, Greeted, WelcomeWaits, LoggedIn
<1> QED
  BY <1>2, <1>3, <1>4, <1>5, HandlerKeeps, PeerKeeps DEF Next, Main, Reader, LoggingIn, Actors

LEMMA ConnectionInit == Init => ConnectionInv
BY DEF Init, ConnectionInv, LinkInv, SessionInv, Reading, Outstanding, Tearing, Dialling, Linked,
       FirstConnect, Greeted, WelcomeWaits, LoggedIn, NoReads, Stopping, Actors

\* Until stop() is called, registered_ is set only while the server has welcomed
\* the login of the very connection that is open, over any number of reconnects.
THEOREM RegistrationIsCurrent == Spec => []RegisteredIsCurrent
<1>1. ReadersInv /\ ConnectionInv => RegisteredIsCurrent
  BY DEF ConnectionInv, LinkInv, SessionInv, Greeted, RegisteredIsCurrent
<1>2. Init => ReadersInv /\ ConnectionInv
  BY ReadersInit, ConnectionInit
<1>3. ReadersInv /\ ConnectionInv /\ [Next]_vars => (ReadersInv /\ ConnectionInv)'
  BY ReadersNext, ConnectionNext
<1> QED
  BY <1>1, <1>2, <1>3, PTL DEF Spec

-----------------------------------------------------------------------------
(* The session. *)

\* What is not seen in a session.
Unseen == (link' = "up" <=> link = "up") /\ UNCHANGED <<received, next, registered, losses>>

LEMMA UnseenIsStutter ==
    ASSUME Unseen, ~Stopping, ~Stopping'
    PROVE  UNCHANGED Session!vars
<1>1. (link = "up")' = (link = "up")
  BY DEF Unseen
<1>2. Stopping' = Stopping
  BY DEF Stopping
<1>3. UNCHANGED <<received, next - 1, registered, losses>>
  BY DEF Unseen
<1> QED
  BY <1>1, <1>2, <1>3 DEF Session!vars

\* Until stop() is called, a step is one of the session's, or is not seen.
LEMMA ConnectIsSession ==
    ASSUME LinkInv, TypeOK, NEW a \in Actors, Connect(a)
    PROVE  Session!Open \/ Unseen
<1>1. CASE Dial(a)
  <2>1. link # "up" /\ UNCHANGED <<received, next, registered, losses>>
    BY <1>1 DEF Dial, LinkInv, Dialling
  <2>2. link' # "up"
    BY <1>1, <2>1 DEF Dial, CloseSocket
  <2> QED
    BY <2>1, <2>2 DEF Unseen
<1>2. CASE Attempt(a)
  <2>1. link # "up" /\ registered = FALSE
    BY <1>2 DEF Attempt, LinkInv, Dialling, TypeOK, FlagTypes
  <2>2. UNCHANGED <<next, registered, losses>>
    BY <1>2 DEF Attempt
  <2>3. (link' = "up" /\ received' = {}) \/ (link' = "opened" /\ received' = received)
    BY <1>2 DEF Attempt
  <2> QED
    BY <2>1, <2>2, <2>3 DEF Session!Open, Unseen
<1>3. CASE Resolve(a) \/ ResolveFails(a)
  BY <1>3 DEF Resolve, ResolveFails, Unseen
<1>4. CASE SetOption(a) \/ Connected(a) \/ FirstRead(a)
  BY <1>4 DEF SetOption, Connected, FirstRead, Unseen
<1> QED
  BY <1>1, <1>2, <1>3, <1>4 DEF Connect

LEMMA DisconnectIsSession ==
    ASSUME LinkInv, NEW a \in Actors, ~Stopping, Teardown(a)
    PROVE  Session!Forget \/ Unseen
<1>1. a = "reader"
  BY DEF Teardown, Disconnect, Shutdown, Close, Forget, Stopping, Actors
<1>2. link \in {"lost", "closed"}
  BY <1>1 DEF LinkInv, Tearing, Teardown, Disconnect, Shutdown, Close, Forget
<1>3. CASE Disconnect(a)
  BY <1>3 DEF Disconnect, Unseen
<1>4. CASE Shutdown(a)
  BY <1>2, <1>4 DEF Shutdown, Unseen
<1>5. CASE Close(a)
  BY <1>2, <1>5 DEF Close, CloseSocket, Unseen
<1>6. CASE Forget(a)
  <2>1. link' = link /\ registered' = FALSE /\ UNCHANGED <<received, next, losses>>
    BY <1>6 DEF Forget
  <2> QED
    BY <1>2, <2>1 DEF Session!Forget
<1> QED
  BY <1>3, <1>4, <1>5, <1>6 DEF Teardown

LEMMA HandlerIsSession ==
    ASSUME TypeOK, SessionInv, ReadLine \/ ReadFails \/ ReadAborted \/ HandleLine \/ Rearm
    PROVE  Session!Register \/ Unseen
<1>1. CASE HandleLine
  <2>1. /\ registered \in BOOLEAN
        /\ registered' = (registered \/ got = "welcome")
        /\ received' = IF ~registered /\ got = "welcome" /\ link = "up"
                       THEN received \cup {"CAP"} ELSE received
        /\ link' = link /\ next' = next /\ losses' = losses
    BY <1>1 DEF HandleLine, TypeOK, FlagTypes
  <2>2. CASE ~registered /\ got = "welcome"
    <3>1. "welcomed" \in received
      BY <2>2 DEF SessionInv, Greeted
    <3> QED
      BY <2>1, <2>2, <3>1 DEF Session!Register
  <2>3. CASE ~(~registered /\ got = "welcome")
    BY <2>1, <2>3 DEF Unseen
  <2> QED
    BY <2>2, <2>3
<1>2. CASE ReadLine \/ ReadFails \/ ReadAborted \/ Rearm
  BY <1>2 DEF ReadLine, ReadFails, ReadAborted, Rearm, Unseen
<1> QED
  BY <1>1, <1>2

LEMMA PeerIsSession ==
    ASSUME TypeOK, LoggingIn \/ Server
    PROVE  Session!Say \/ Session!Welcome \/ Session!Lose \/ Unseen
<1>1. CASE LoggingIn
  <2>1. next \in 1 .. 4 /\ Len(LoginLines) = 4
    BY <1>1, LoginLength DEF LoggingIn, Login, WriteLine, TypeOK, PeerTypes
  <2>2. /\ link' = link /\ registered' = registered /\ losses' = losses
        /\ \/ next' = next /\ received' = received
           \/ /\ next' = next + 1
              /\ \/ link = "up" /\ received' = received \cup {LoginLines[next]}
                 \/ received' = received
    BY <1>1 DEF LoggingIn, Login, WriteLine, LineDone
  <2>3. CASE next' = next /\ received' = received
    BY <2>2, <2>3 DEF Unseen
  <2>4. CASE next' = next + 1
    <3>1. next - 1 < Len(LoginLines) /\ next' - 1 = (next - 1) + 1 /\ next' - 1 = next
      BY <2>1, <2>4
    <3> QED
      BY <2>2, <2>4, <3>1 DEF Session!Say
  <2> QED
    BY <2>2, <2>3, <2>4
<1>2. CASE Welcome
  <2>1. \A i \in 1 .. Len(LoginLines) - 1 : LoginLines[i] \in {"PASS", "NICK", "USER"}
    BY LoginLength DEF LoginLines
  <2> QED
    BY <1>2, <2>1 DEF Welcome, LoggedIn, Session!Welcome
<1>3. CASE LinkLost
  BY <1>3 DEF LinkLost, Session!Lose
<1>4. CASE ChatLine \/ NetworkDown \/ NetworkUp
  BY <1>4 DEF ChatLine, NetworkDown, NetworkUp, Unseen
<1> QED
  BY <1>1, <1>2, <1>3, <1>4 DEF Server

LEMMA OnlyStopStops ==
    ASSUME TypeOK, ~Stopping, [Next]_vars, ~Stop
    PROVE  ~Stopping'
<1> USE DEF TypeOK, PlaceTypes, Stopping, Actors, GoTo
<1>1. ASSUME NEW a \in Actors, Procedures(a)
      PROVE  ~Stopping'
  <2>1. CASE Resolve(a) \/ ResolveFails(a) \/ FirstRead(a)
    BY <2>1 DEF Resolve, ResolveFails, FirstRead, AfterConnect
  <2>2. CASE Dial(a) \/ Attempt(a) \/ SetOption(a) \/ Connected(a)
    BY <2>2 DEF Dial, Attempt, SetOption, Connected
  <2>3. CASE Teardown(a)
    BY <2>3 DEF Teardown, Disconnect, Shutdown, Close, Forget
  <2> QED
    BY <1>1, <2>1, <2>2, <2>3 DEF Procedures, Teardown
<1>2. CASE LoggingIn \/ StopIos \/ Join
  BY <1>2 DEF LoggingIn, Login, WriteLine, LineDone, StopIos, Join
<1>3. CASE ReadLine \/ ReadFails \/ ReadAborted \/ HandleLine \/ Rearm
  BY <1>3 DEF ReadLine, ReadFails, ReadAborted, HandleLine, Rearm
<1>4. CASE Server
  BY <1>4 DEF Server, Welcome, ChatLine, LinkLost, NetworkDown, NetworkUp
<1>5. CASE UNCHANGED vars
  BY <1>5 DEF vars
<1> QED
  BY <1>1, <1>2, <1>3, <1>4, <1>5 DEF Next, Main, Reader, LoggingIn

LEMMA SessionNext ==
    ReadersInv /\ ConnectionInv /\ [Next]_vars => [Session!Next]_(Session!vars)
<1> SUFFICES ASSUME ReadersInv, ConnectionInv, [Next]_vars
             PROVE  [Session!Next]_(Session!vars)
  OBVIOUS
<1>1. TypeOK /\ TypeOK'
  BY NextType DEF ReadersInv
<1>2. CASE Stopping
  <2>1. Stopping'
    BY <1>1, <1>2, StopStays
  <2> QED
    BY <1>2, <2>1 DEF Session!Next
<1>3. CASE ~Stopping /\ Stopping'
  <2>1. Stop
    BY <1>1, <1>3, OnlyStopStops
  <2>2. Stopping' = TRUE /\ UNCHANGED <<link, received, next, registered, losses>>
    BY <1>3, <2>1 DEF Stop, Stopping
  <2> QED
    BY <2>2 DEF Session!Next, Session!Stop
<1>4. CASE ~Stopping /\ ~Stopping'
  <2>1. LinkInv /\ SessionInv
    BY <1>4 DEF ConnectionInv
  <2>2. CASE Unseen
    BY <1>4, <2>2, UnseenIsStutter
  <2> DEFINE Step == \/ Session!Open \/ Session!Say \/ Session!Welcome
                     \/ Session!Register \/ Session!Lose \/ Session!Forget
  <2>3. CASE Step
    <3>1. Stopping' = Stopping
      BY <1>4 DEF Stopping
    <3> QED
      BY <2>3, <3>1 DEF Session!Next
  <2>4. ASSUME NEW a \in Actors, Procedures(a)
        PROVE  [Session!Next]_(Session!vars)
    <3>1. CASE Connect(a)
      BY <1>1, <2>1, <2>2, <2>3, <3>1, ConnectIsSession
    <3>2. CASE Teardown(a)
      BY <1>4, <2>1, <2>2, <2>3, <3>2, DisconnectIsSession
    <3> QED
      BY <2>4, <3>1, <3>2 DEF Procedures, Connect, Teardown
  <2>5. ~(StopIos \/ Join \/ Stop)
    <3>1. ~(StopIos \/ Join)
      BY <1>4 DEF StopIos, Join, Stopping
    <3>2. ~Stop
      BY <1>1, <1>4 DEF Stop, Stopping, GoTo, TypeOK, PlaceTypes, Actors
    <3> QED
      BY <3>1, <3>2
  <2>6. CASE ReadLine \/ ReadFails \/ ReadAborted \/ HandleLine \/ Rearm
    BY <1>1, <2>1, <2>2, <2>6, <2>3, HandlerIsSession
  <2>7. CASE LoggingIn \/ Server
    BY <1>1, <2>2, <2>7, <2>3, PeerIsSession
  <2>8. CASE UNCHANGED vars
    BY <2>2, <2>8 DEF vars, Unseen
  <2> QED
    BY <2>4, <2>5, <2>6, <2>7, <2>8 DEF Next, Main, Reader, LoggingIn, Actors
<1> QED
  BY <1>2, <1>3, <1>4

\* For any number of lines, losses, failed look-ups and outages, the code
\* implements the session: before stop() a link ends only when the peer or the
\* network takes it, none is opened while registered_ speaks of another, and
\* registered_ and the request for capabilities belong to the welcome of the
\* link that is open.
THEOREM ConnectionKeepsSession == Spec => ImplementsSession
<1>1. Init => Session!Init
  BY DEF Init, Session!Init, Stopping
<1>2. Init => ReadersInv /\ ConnectionInv
  BY ReadersInit, ConnectionInit
<1> QED
  BY <1>1, <1>2, ReadersNext, ConnectionNext, SessionNext, PTL
  DEF Spec, ImplementsSession, Session!Spec
=============================================================================
