-------------------------- MODULE MessagePipeline --------------------------
(***************************************************************************)
(* A line's way through the bot: the read handler parses it into a block   *)
(* of irc_message_data's cache and posts messages of users to the pool,    *)
(* whose threads turn them into commands; a song request outlives the      *)
(* command and keeps the twitch_user, a block of a second cache.  Blocks   *)
(* are counted references, go back to their cache with the last of them,   *)
(* and are used again with what their last user has left in them.          *)
(*                                                                         *)
(* A line is known by its number; its author is called, and identified in  *)
(* the tags, by the same number.                                           *)
(***************************************************************************)
EXTENDS Naturals, FiniteSets

CONSTANTS
    Slots,       \* addresses of irc_message_data
    Users,       \* addresses of twitch_user
    Workers,     \* threads of the pool
    Null,        \* nullptr
    Received,    \* the types of the lines that come in
    MaxLines     \* bound: lines read

ASSUME PipelineAssumption ==
    /\ Null \notin Slots \cup Users
    /\ IsFiniteSet(Slots) /\ IsFiniteSet(Workers)
    /\ {"reader", "songs"} \cap Workers = {}
    /\ Received \subseteq {"ping", "message", "query", "action", "other"}
    /\ MaxLines \in Nat

Threads == Workers \cup {"reader", "songs"}

\* Receive types as far as anything depends on them: messages and actions are
\* those to the channel, queries those to the bot; "info" is the zero of a new
\* block.
Types == {"info", "ping", "message", "query", "action", "other"}

VARIABLES
    refs, type, tag, user, text,   \* of an irc_message_data: refs_, receiveType_,
                                   \* tags_["user-id"] (0: none), user_, message_
    fresh, free,                   \* its cache: never allocated; freeBlocks_
    userRefs, owner,               \* of a twitch_user: refs_, and its id and name
    freshUsers, freeUsers,         \* its cache
    pc,                            \* where a thread is
    slot,                          \* the message it holds
    cmdUser,                       \* user_ of its command, RequestedBy of its item
    line,                          \* the number of the line it is about
    raw,                           \* the line the reader parses
    posted,                        \* messages posted to the pool
    items,                         \* song requests that wait in items_
    lines                          \* lines read

messages == <<refs, type, tag, user, text>>
users    == <<userRefs, owner, freeUsers, freshUsers>>
blocks   == <<fresh, free>>
threads  == <<pc, slot, cmdUser, line>>
queues   == <<posted, items>>
vars     == <<messages, users, blocks, threads, raw, queues, lines>>

NoLine == [type |-> "other", id |-> 0]

Init ==
    /\ refs = [s \in Slots |-> 0] /\ type = [s \in Slots |-> "info"]
    /\ tag = [s \in Slots |-> 0] /\ text = [s \in Slots |-> 0]
    /\ user = [s \in Slots |-> Null]
    /\ fresh = Slots /\ free = {}
    /\ userRefs = [u \in Users |-> 0]
    /\ owner = [u \in Users |-> [id |-> 0, name |-> 0]]
    /\ freshUsers = Users /\ freeUsers = {}
    /\ pc = [t \in Threads |-> "idle"]
    /\ slot = [t \in Threads |-> Null]
    /\ cmdUser = [t \in Threads |-> Null]
    /\ line = [t \in Threads |-> 0]
    /\ raw = NoLine
    /\ posted = {} /\ items = {}
    /\ lines = 0

GoTo(t, where) == pc' = [pc EXCEPT ![t] = where]

\* A handler that returns leaves its variables behind.
Continue(t, where) ==
    /\ GoTo(t, where)
    /\ IF where = "idle"
       THEN /\ slot' = [slot EXCEPT ![t] = Null] /\ line' = [line EXCEPT ![t] = 0]
       ELSE UNCHANGED <<slot, line>>

\* get_block: a released block, a new one if there is none.
Blocks(released, new) == IF released # {} THEN released ELSE new

\* The last reference to a user puts it back into its cache.
ReleaseUser(u) ==
    /\ userRefs' = [userRefs EXCEPT ![u] = @ - 1]
    /\ freeUsers' = IF userRefs[u] = 1 THEN freeUsers \cup {u} ELSE freeUsers

-----------------------------------------------------------------------------
(* The read handler: ev_line_read. *)

\* Lines of users carry a user-id once the server has acknowledged the tags; JOIN
\* is sent before they are asked for.  The ids of the server are numbers: stoll
\* would throw for another text.
Kinds(n) == {k \in [type : Received, id : {0, n}] : k.type = "ping" => k.id = 0}

\* irc_message_data::create
GetLine ==
    /\ pc["reader"] = "idle" /\ lines < MaxLines
    /\ lines' = lines + 1
    /\ raw' \in Kinds(lines + 1)
    /\ line' = [line EXCEPT !["reader"] = lines + 1]
    /\ \E s \in Blocks(free, fresh) :
          /\ free' = free \ {s} /\ fresh' = fresh \ {s}
          /\ refs' = [refs EXCEPT ![s] = @ + 1]
          /\ slot' = [slot EXCEPT !["reader"] = s]
    /\ GoTo("reader", "parse")
    /\ UNCHANGED <<type, tag, user, text, users, cmdUser, queues>>

\* requires_user_id looks at receiveType_, which parse_message sets later.
RequiresUserId(s) == type[s] \in {"message", "action"}

\* What dispatch_message gives to the channel context.
ForPool == {"message", "query"}

\* parse_message: the tags of the line are added, the user is updated, the text
\* of a message is copied (what other lines leave there is not looked at), and
\* the type is set.
ParseLine ==
    /\ pc["reader"] = "parse"
    /\ LET s == slot["reader"]
           n == line["reader"]
           id == IF raw.id # 0 THEN raw.id ELSE tag[s]
       IN  /\ tag' = [tag EXCEPT ![s] = id]
           /\ \/ /\ RequiresUserId(s) /\ id = 0
                 /\ GoTo("reader", "aborted")
                 /\ UNCHANGED <<type, user, text, users, raw>>
              \/ /\ ~(RequiresUserId(s) /\ id = 0)
                 /\ \E u \in Blocks(freeUsers, freshUsers) :
                       /\ freeUsers' = freeUsers \ {u}
                       /\ freshUsers' = freshUsers \ {u}
                       /\ userRefs' = [userRefs EXCEPT ![u] = @ + 1]
                       /\ owner' = [owner EXCEPT ![u] = [id |-> id, name |-> n]]
                       /\ user' = [user EXCEPT ![s] = u]
                 /\ text' = [text EXCEPT ![s] = IF raw.type \in ForPool THEN n ELSE @]
                 /\ type' = [type EXCEPT ![s] = raw.type]
                 /\ raw' = NoLine
                 /\ GoTo("reader", "dispatch")
    /\ UNCHANGED <<refs, blocks, slot, cmdUser, line, queues, lines>>

\* Variant: the posted handler keeps a plain pointer.
DispatchPointer ==
    /\ pc["reader"] = "dispatch"
    /\ posted' = IF type[slot["reader"]] \in ForPool
                 THEN posted \cup {[slot |-> slot["reader"], line |-> line["reader"]]}
                 ELSE posted
    /\ GoTo("reader", "drop")
    /\ UNCHANGED <<messages, users, blocks, slot, cmdUser, line, raw, items, lines>>

\* dispatch_message: a PING is answered at once, a message to the channel or to
\* the bot is posted, with a reference of its own.
Dispatch ==
    /\ pc["reader"] = "dispatch"
    /\ LET s == slot["reader"]
       IN  \/ /\ type[s] \in ForPool
              /\ refs' = [refs EXCEPT ![s] = @ + 1]
              /\ posted' = posted \cup {[slot |-> s, line |-> line["reader"]]}
           \/ /\ type[s] \notin ForPool
              /\ UNCHANGED <<refs, posted>>
    /\ GoTo("reader", "drop")
    /\ UNCHANGED <<type, tag, user, text, users, blocks, slot, cmdUser, line, raw, items, lines>>

-----------------------------------------------------------------------------
(* A thread of the pool: process_message_core. *)

Take(t) ==
    /\ pc[t] = "idle"
    /\ \E p \in posted :
          /\ posted' = posted \ {p}
          /\ slot' = [slot EXCEPT ![t] = p.slot]
          /\ line' = [line EXCEPT ![t] = p.line]
    /\ GoTo(t, "command")
    /\ UNCHANGED <<messages, users, blocks, cmdUser, raw, items, lines>>

\* parse_message: no command, or none for this author; or a command that
\* refers to the author and points into the message's text.
MakeCommand(t) ==
    /\ pc[t] = "command"
    /\ \/ /\ GoTo(t, "drop")
          /\ UNCHANGED <<cmdUser, userRefs>>
       \/ /\ cmdUser' = [cmdUser EXCEPT ![t] = user[slot[t]]]
          /\ userRefs' = [userRefs EXCEPT ![user[slot[t]]] = @ + 1]
          /\ GoTo(t, "execute")
    /\ UNCHANGED <<messages, owner, freeUsers, freshUsers, blocks, slot, line, raw, queues, lines>>

\* execute: the song request is queued with its user; other commands reply.
Execute(t) ==
    /\ pc[t] = "execute"
    /\ \/ UNCHANGED <<items, userRefs>>
       \/ /\ items' = items \cup {[user |-> cmdUser[t], line |-> line[t]]}
          /\ userRefs' = [userRefs EXCEPT ![cmdUser[t]] = @ + 1]
    /\ GoTo(t, "finish")
    /\ UNCHANGED <<messages, owner, freeUsers, freshUsers, blocks, slot, cmdUser, line, raw, posted, lines>>

\* The song request worker takes a request; it uses the user until it is done.
Serve ==
    /\ pc["songs"] = "idle"
    /\ \E i \in items :
          /\ items' = items \ {i}
          /\ cmdUser' = [cmdUser EXCEPT !["songs"] = i.user]
          /\ line' = [line EXCEPT !["songs"] = i.line]
    /\ GoTo("songs", "finish")
    /\ UNCHANGED <<messages, users, blocks, slot, raw, posted, lines>>

AfterFinish(t) == IF t = "songs" THEN "idle" ELSE "drop"

\* Variant: the song request worker does not give its user back.
FinishKeeping(t) ==
    /\ pc[t] = "finish"
    /\ IF t = "songs" THEN UNCHANGED <<userRefs, freeUsers>> ELSE ReleaseUser(cmdUser[t])
    /\ cmdUser' = [cmdUser EXCEPT ![t] = Null]
    /\ Continue(t, AfterFinish(t))
    /\ UNCHANGED <<messages, owner, freshUsers, blocks, raw, queues, lines>>

\* The command, or the item, is destroyed.
Finish(t) ==
    /\ pc[t] = "finish"
    /\ ReleaseUser(cmdUser[t])
    /\ cmdUser' = [cmdUser EXCEPT ![t] = Null]
    /\ Continue(t, AfterFinish(t))
    /\ UNCHANGED <<messages, owner, freshUsers, blocks, raw, queues, lines>>

-----------------------------------------------------------------------------
(* irc_message_data::release, by the reader and by the pool. *)

\* Variant: the block goes back before its fields are reset.
AfterReleaseSwapped == [drop |-> "enqueue", enqueue |-> "reset", reset |-> "idle"]

\* release_impl: the fields are reset, then the block goes back.
AfterRelease == [drop |-> "reset", reset |-> "enqueue", enqueue |-> "idle"]

Drop(t) ==
    /\ pc[t] = "drop"
    /\ refs' = [refs EXCEPT ![slot[t]] = @ - 1]
    /\ Continue(t, IF refs[slot[t]] = 1 THEN AfterRelease.drop ELSE "idle")
    /\ UNCHANGED <<type, tag, user, text, users, blocks, cmdUser, raw, queues, lines>>

\* Variant: the tags stay.
ResetUserOnly(t) ==
    /\ pc[t] = "reset"
    /\ LET s == slot[t]
       IN  /\ IF user[s] # Null THEN ReleaseUser(user[s]) ELSE UNCHANGED <<userRefs, freeUsers>>
           /\ user' = [user EXCEPT ![s] = Null]
    /\ Continue(t, AfterRelease.reset)
    /\ UNCHANGED <<tag, refs, type, text, owner, freshUsers, blocks, cmdUser, raw, queues, lines>>

\* user_ and tags_ are reset; receiveType_ and message_ stay.
Reset(t) ==
    /\ pc[t] = "reset"
    /\ LET s == slot[t]
       IN  /\ IF user[s] # Null THEN ReleaseUser(user[s]) ELSE UNCHANGED <<userRefs, freeUsers>>
           /\ user' = [user EXCEPT ![s] = Null]
           /\ tag' = [tag EXCEPT ![s] = 0]
    /\ Continue(t, AfterRelease.reset)
    /\ UNCHANGED <<refs, type, text, owner, freshUsers, blocks, cmdUser, raw, queues, lines>>

Enqueue(t) ==
    /\ pc[t] = "enqueue"
    /\ free' = free \cup {slot[t]}
    /\ Continue(t, AfterRelease.enqueue)
    /\ UNCHANGED <<messages, users, fresh, cmdUser, raw, queues, lines>>

Thread(t) == Finish(t) \/ Drop(t) \/ Reset(t) \/ Enqueue(t)

\* abort() ends the process.
Running == pc["reader"] # "aborted"

Read == Running /\ GetLine

Reader == Running /\ (ParseLine \/ Dispatch \/ Thread("reader"))

Worker(t) == Running /\ (Take(t) \/ MakeCommand(t) \/ Execute(t) \/ Thread(t))

Songs == Running /\ (Serve \/ Thread("songs"))

Next == Read \/ Reader \/ (\E t \in Workers : Worker(t)) \/ Songs

Spec == Init /\ [][Next]_vars
=============================================================================
