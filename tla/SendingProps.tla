---------------------------- MODULE SendingProps ----------------------------
(***************************************************************************)
(* What the buffers must guarantee to the senders that share them, and     *)
(* what the end of the bot must leave alone.                               *)
(***************************************************************************)
EXTENDS Sending

TypeOK ==
    /\ pc \in [Senders -> {"idle", "posted", "send", "write", "wait", "release", "handle", "done"}]
    /\ str \in [Senders -> Strings \cup {None}] /\ line \in [Senders -> Lines \cup {None}]
    /\ op \in [Senders -> {"none", "writing", "complete"}] /\ sent \in [Senders -> Nat]
    /\ text \in [Strings \cup Lines -> Senders \cup {None}]
    /\ spare \subseteq Strings \cup Lines /\ lost \in Nat
    /\ last \in [sender : Senders \cup {None}, text : Senders \cup {None}]
    /\ connected \in BOOLEAN
    /\ main \in Stages /\ timer \in {"waiting", "elapsed"}
    /\ late \subseteq Senders \cup {"timer"} /\ losses \in Nat

\* Every part that is on the wire is of the text that its sender has formatted,
\* and the read handler finds the line it has read, however often buffers are
\* taken, written from by other threads, and returned.
LinesTrue ==
    /\ last.text = last.sender
    /\ \A s \in Senders : pc[s] = "handle" => text[line[s]] = s

\* Nobody uses the client or the context after its destructor, but the song
\* worker: it is joined by the destructor of the context, and the client is
\* destroyed before.
OnlyWorkerLate == \A s \in late : s # "timer" /\ Kind[s] = "worker"

\* A buffer that was taken comes back, or another in its place, whatever
\* becomes of the connection, unless the pool has been stopped under it.
BuffersReturn ==
    \A b \in Strings \cup Lines : b \notin spare ~> b \in spare \/ ~PoolRuns

-----------------------------------------------------------------------------
(* Why lines are true: the inductive invariants behind LinesTrue and         *)
(* OnlyWorkerLate.                                                           *)

\* A buffer is in one hand: who holds one has its text in it, nobody else
\* holds it, and the pool does not have it.
HandsInv ==
    \A s \in Senders :
        /\ str[s] # None => str[s] \notin spare /\ text[str[s]] = s
        /\ line[s] # None => line[s] \notin spare /\ text[line[s]] = s
        /\ \A t \in Senders \ {s} :
              /\ str[s] # None => str[t] # str[s]
              /\ line[s] # None => line[t] # line[s]

\* Which buffers a sender holds where.
StageInv ==
    \A s \in Senders :
        /\ pc[s] \in {"posted", "send", "release"} => str[s] # None
        /\ pc[s] \in {"idle", "posted", "send"} => line[s] = None /\ op[s] = "none"
        /\ pc[s] \in {"write", "handle"} => line[s] # None /\ op[s] = "none"
        /\ pc[s] = "write" /\ Kind[s] # "login" => str[s] # None
        /\ op[s] # "none" => line[s] # None

\* Behind the join nothing of the pool runs and nothing can begin.
EndInv ==
    main \in {"joined", "client destroyed", "context destroyed"} =>
        timer = "waiting" /\ \A s \in Senders : ~Busy(s)

-----------------------------------------------------------------------------
(* Claims that the code does not keep. *)

\* A line is on the wire in one piece.
LinesArriveWhole ==
    [][\A s \in Senders : sent'[s] > sent[s] /\ sent[s] > 0 => last.sender = s]_vars

\* Nobody uses what is gone.
ClientAlive == late = {}

\* Every buffer comes back.
NothingLost == lost = 0
=============================================================================
