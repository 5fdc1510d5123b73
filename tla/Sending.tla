------------------------------- MODULE Sending -------------------------------
(***************************************************************************)
(* How lines get from their senders to the socket, and how the bot ends    *)
(* under them.  A sender formats its text into a string buffer, the client *)
(* formats a line from it into a buffer of the connection, which belongs to *)
(* the write until its handler has run.  Senders are commands on the pool   *)
(* ("reply"), messages that are sent a second later ("delayed"), the song  *)
(* worker on its own thread ("worker"), and main, which writes the login   *)
(* and waits for it ("login"); the read handler ("incoming") takes line     *)
(* buffers for what it reads.  The main thread stops the bot and destroys   *)
(* it, the client before the context whose destructor joins the worker.    *)
(*                                                                         *)
(* A sender sends one line; the text it wants to send is the sender.       *)
(***************************************************************************)
EXTENDS Naturals

CONSTANTS
    Senders,
    Kind,          \* of a sender
    Strings,       \* buffers of the string pool
    Lines,         \* line buffers of the connection
    None,          \* no buffer
    Parts,         \* in how many parts the socket takes a line
    MaxLosses      \* bound: connections lost

Kinds == {"reply", "delayed", "worker", "login", "incoming"}

ASSUME SendingAssumption ==
    /\ Kind \in [Senders -> Kinds] /\ "timer" \notin Senders
    /\ Strings \cap Lines = {}
    /\ None \notin Strings \cup Lines
    /\ Parts \in Nat \ {0}
    /\ MaxLosses \in Nat

VARIABLES
    pc,          \* where a sender is
    str, line,   \* its buffers
    op,          \* its write: none, going on, complete
    sent,        \* how many parts of its line have been written
    text,        \* what is in a buffer
    spare,       \* buffers that their pools may hand out
    lost,        \* how many line buffers were not returned
    last,        \* the part of a line that was written to the socket last
    connected,   \* connected_
    main,        \* how far the main thread is
    timer,       \* the second timer: waiting, or its handler runs
    late,        \* who has used the client or the context after its end
    losses

buffers == <<str, line, text, spare>>
writes  == <<op, sent, last>>
ending  == <<main, timer>>
vars    == <<pc, buffers, writes, lost, connected, ending, late, losses>>

Init ==
    /\ pc = [s \in Senders |-> "idle"]
    /\ str = [s \in Senders |-> None] /\ line = [s \in Senders |-> None]
    /\ op = [s \in Senders |-> "none"] /\ sent = [s \in Senders |-> 0]
    /\ text = [b \in Strings \cup Lines |-> None]
    /\ spare = Strings \cup Lines /\ lost = 0
    /\ last = [sender |-> None, text |-> None]
    /\ connected = TRUE
    /\ main = "running" /\ timer = "waiting" /\ late = {} /\ losses = 0

-----------------------------------------------------------------------------
(* The order of the end: main has come back from run, bot.stop, tp_cleanup's *)
(* two steps, and the destructors of the client and of the context.          *)

Stages == {"running", "stopped", "pool stopped", "joined", "client destroyed", "context destroyed"}

\* Handlers that have not begun do not run any more.
PoolRuns == main \in {"running", "stopped"}

ClientExists == main \notin {"client destroyed", "context destroyed"}

ContextExists == main # "context destroyed"

\* A thread that may begin: Ios runs a handler, or the worker takes an item.
MayBegin(s) ==
    CASE Kind[s] \in {"reply", "delayed", "incoming"} -> PoolRuns
      [] Kind[s] = "worker" -> ContextExists
      [] Kind[s] = "login"  -> main = "running"

\* What uses the client or the context is late when that is gone.
Use(user, exists) == late' = IF exists THEN late ELSE late \cup {user}

\* release_string, release_line_buffer.  What stays in a buffer is forgotten, for
\* everybody who takes one formats into it before he reads.
Release(b) == spare' = spare \cup {b} /\ text' = [text EXCEPT ![b] = None]

-----------------------------------------------------------------------------
(* The senders. *)

\* vsend_message, send_message_async: get_string and vsnprintf.
TakeString(s) ==
    /\ pc[s] = "idle" /\ Kind[s] \in {"reply", "delayed", "worker"} /\ MayBegin(s)
    /\ \E b \in spare \cap Strings :
        /\ str' = [str EXCEPT ![s] = b]
        /\ text' = [text EXCEPT ![b] = s]
        /\ spare' = spare \ {b}
    /\ pc' = [pc EXCEPT ![s] = IF Kind[s] = "delayed" THEN "posted" ELSE "send"]
    /\ Use(s, ContextExists)
    /\ UNCHANGED <<line, writes, lost, connected, ending, losses>>

\* The lambda that was posted begins, and sleeps.
RunDelayed(s) ==
    /\ pc[s] = "posted" /\ PoolRuns
    /\ pc' = [pc EXCEPT ![s] = "send"]
    /\ UNCHANGED <<buffers, writes, lost, connected, ending, late, losses>>

\* irc_client::send_message, login and join: the line is in a buffer.
FormatLine(s) ==
    /\ \/ pc[s] = "send"
       \/ pc[s] = "idle" /\ Kind[s] = "login" /\ MayBegin(s)
    /\ \E b \in spare \cap Lines :
        /\ line' = [line EXCEPT ![s] = b]
        /\ text' = [text EXCEPT ![b] = IF Kind[s] = "login" THEN s ELSE text[str[s]]]
        /\ spare' = spare \ {b}
    /\ pc' = [pc EXCEPT ![s] = "write"]
    /\ Use(s, ClientExists)
    /\ UNCHANGED <<str, writes, lost, connected, ending, losses>>

\* Variant: the buffer goes back as soon as the write has begun.
WriteLineReleasing(s) ==
    /\ pc[s] = "write"
    /\ pc' = [pc EXCEPT ![s] = IF Kind[s] = "login" THEN "wait" ELSE "release"]
    /\ op' = [op EXCEPT ![s] = "writing"] /\ Release(line[s])
    /\ Use(s, ClientExists)
    /\ UNCHANGED <<str, line, sent, last, lost, connected, ending, losses>>

\* write_line without a connection returns and keeps the buffer, for which the
\* pool will allocate another; otherwise the write begins, and a login waits.
WriteLine(s) ==
    /\ pc[s] = "write"
    /\ IF connected
       THEN /\ op' = [op EXCEPT ![s] = "writing"]
            /\ pc' = [pc EXCEPT ![s] = IF Kind[s] = "login" THEN "wait" ELSE "release"]
            /\ UNCHANGED <<line, text, spare, lost>>
       ELSE /\ lost' = lost + 1
            /\ Release(line[s]) /\ line' = [line EXCEPT ![s] = None]
            /\ pc' = [pc EXCEPT ![s] = IF Kind[s] = "login" THEN "done" ELSE "release"]
            /\ op' = op
    /\ Use(s, ClientExists)
    /\ UNCHANGED <<str, sent, last, connected, ending, losses>>

\* release_string, at once after send_message.
ReleaseString(s) ==
    /\ pc[s] = "release"
    /\ Release(str[s]) /\ str' = [str EXCEPT ![s] = None]
    /\ pc' = [pc EXCEPT ![s] = "done"]
    /\ UNCHANGED <<line, writes, lost, connected, ending, late, losses>>

-----------------------------------------------------------------------------
(* The writes.  async_write and write take a line in parts; nothing orders   *)
(* the parts of one with those of others.                                   *)

WritePart(s) ==
    /\ op[s] = "writing" /\ connected /\ ClientExists
    /\ last' = [sender |-> s, text |-> text[line[s]]]
    /\ sent' = [sent EXCEPT ![s] = @ + 1]
    /\ op' = [op EXCEPT ![s] = IF sent[s] + 1 = Parts THEN "complete" ELSE "writing"]
    /\ UNCHANGED <<pc, buffers, lost, connected, ending, late, losses>>

\* The connection is gone: the write ends with an error.
FailWrite(s) ==
    /\ op[s] = "writing" /\ ~connected
    /\ op' = [op EXCEPT ![s] = "complete"]
    /\ UNCHANGED <<pc, buffers, sent, last, lost, connected, ending, late, losses>>

\* Variant: after an error the handler returns.
WrittenUnlessFailed(s) ==
    /\ op[s] = "complete" /\ Kind[s] # "login" /\ PoolRuns
    /\ op' = [op EXCEPT ![s] = "none"] /\ sent' = [sent EXCEPT ![s] = 0]
    /\ IF sent[s] = Parts THEN Release(line[s]) ELSE UNCHANGED <<spare, text>>
    /\ line' = [line EXCEPT ![s] = None]
    /\ UNCHANGED <<pc, str, last, lost, connected, ending, late, losses>>

\* The handler of write_line.
Written(s) ==
    /\ op[s] = "complete" /\ Kind[s] # "login" /\ PoolRuns
    /\ op' = [op EXCEPT ![s] = "none"] /\ sent' = [sent EXCEPT ![s] = 0]
    /\ Release(line[s]) /\ line' = [line EXCEPT ![s] = None]
    /\ UNCHANGED <<pc, str, last, lost, connected, ending, late, losses>>

\* write has returned.
WrittenSync(s) ==
    /\ pc[s] = "wait" /\ op[s] = "complete"
    /\ op' = [op EXCEPT ![s] = "none"] /\ sent' = [sent EXCEPT ![s] = 0]
    /\ Release(line[s]) /\ line' = [line EXCEPT ![s] = None]
    /\ pc' = [pc EXCEPT ![s] = "done"]
    /\ UNCHANGED <<str, last, lost, connected, ending, late, losses>>

-----------------------------------------------------------------------------
(* The read handler: line_read takes a buffer, and returns it when the line  *)
(* has been handled.                                                        *)

TakeIncoming(s) ==
    /\ pc[s] = "idle" /\ Kind[s] = "incoming" /\ MayBegin(s) /\ connected
    /\ \E b \in spare \cap Lines :
        /\ line' = [line EXCEPT ![s] = b]
        /\ text' = [text EXCEPT ![b] = s]
        /\ spare' = spare \ {b}
    /\ pc' = [pc EXCEPT ![s] = "handle"]
    /\ Use(s, ClientExists)
    /\ UNCHANGED <<str, writes, lost, connected, ending, losses>>

LineHandled(s) ==
    /\ pc[s] = "handle"
    /\ Release(line[s]) /\ line' = [line EXCEPT ![s] = None]
    /\ pc' = [pc EXCEPT ![s] = "done"]
    /\ Use(s, ClientExists)
    /\ UNCHANGED <<str, writes, lost, connected, ending, losses>>

-----------------------------------------------------------------------------
(* The connection and the one-second timer.                                 *)

\* reconnect, in the two steps that senders see.
Lose ==
    /\ connected /\ PoolRuns /\ losses < MaxLosses
    /\ connected' = FALSE /\ losses' = losses + 1
    /\ UNCHANGED <<pc, buffers, writes, lost, ending, late>>

Regain ==
    /\ ~connected /\ PoolRuns
    /\ connected' = TRUE
    /\ UNCHANGED <<pc, buffers, writes, lost, ending, late, losses>>

\* second_timer_elapsed does not ask whether it was cancelled.
TimerElapsed ==
    /\ timer = "waiting" /\ PoolRuns
    /\ timer' = "elapsed"
    /\ Use("timer", ContextExists)
    /\ UNCHANGED <<pc, buffers, writes, lost, connected, main, losses>>

RearmTimer ==
    /\ timer = "elapsed"
    /\ timer' = "waiting"
    /\ Use("timer", ContextExists)
    /\ UNCHANGED <<pc, buffers, writes, lost, connected, main, losses>>

-----------------------------------------------------------------------------
(* The main thread. *)

\* A handler of the pool has begun and not returned.
Busy(s) == Kind[s] # "worker" /\ pc[s] \notin {"idle", "posted", "done"}

\* bot.stop: client_.stop, after the timer was cancelled, which is armed again.
StopBot ==
    /\ main = "running"
    /\ \A s \in Senders : Kind[s] = "login" => pc[s] = "done"
    /\ main' = "stopped" /\ connected' = FALSE
    /\ UNCHANGED <<pc, buffers, writes, lost, timer, late, losses>>

\* tp_cleanup
StopPool ==
    /\ main = "stopped"
    /\ main' = "pool stopped"
    /\ UNCHANGED <<pc, buffers, writes, lost, connected, timer, late, losses>>

\* Variant: nobody waits for the handlers.
JoinNobody ==
    /\ main = "pool stopped"
    /\ main' = "joined"
    /\ UNCHANGED <<pc, buffers, writes, lost, connected, timer, late, losses>>

JoinPool ==
    /\ main = "pool stopped"
    /\ timer = "waiting" /\ \A s \in Senders : ~Busy(s)
    /\ main' = "joined"
    /\ UNCHANGED <<pc, buffers, writes, lost, connected, timer, late, losses>>

\* The members of bot, the last one first.
DestroyClient ==
    /\ main = "joined"
    /\ main' = "client destroyed"
    /\ UNCHANGED <<pc, buffers, writes, lost, connected, timer, late, losses>>

\* ~channel_context deletes the song request module, which joins its worker.
DestroyContext ==
    /\ main = "client destroyed"
    /\ \A s \in Senders : Kind[s] = "worker" => pc[s] \in {"idle", "done"}
    /\ main' = "context destroyed"
    /\ UNCHANGED <<pc, buffers, writes, lost, connected, timer, late, losses>>

-----------------------------------------------------------------------------
Step(s) ==
    \/ FormatLine(s) \/ WriteLine(s) \/ ReleaseString(s)
    \/ WritePart(s) \/ FailWrite(s) \/ Written(s) \/ WrittenSync(s)
    \/ LineHandled(s)

Next ==
    \/ \E s \in Senders : TakeString(s) \/ RunDelayed(s) \/ TakeIncoming(s) \/ Step(s)
    \/ Lose \/ Regain \/ TimerElapsed \/ RearmTimer
    \/ StopBot \/ StopPool \/ JoinPool \/ DestroyClient \/ DestroyContext

Spec == Init /\ [][Next]_vars

\* Threads run, posted handlers are run, a write ends; nothing makes people
\* write, connections break or the bot stop.
Fairness ==
    /\ \A s \in Senders : WF_vars(Step(s)) /\ WF_vars(RunDelayed(s))
    /\ WF_vars(RearmTimer)

FairSpec == Spec /\ Fairness
=============================================================================
