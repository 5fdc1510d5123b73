------------------------ MODULE MessagePipelineProps ------------------------
(***************************************************************************)
(* What the caches and their references must guarantee to the threads that *)
(* share the messages and the users.                                       *)
(***************************************************************************)
EXTENDS MessagePipeline

Aborted == pc["reader"] = "aborted"

\* Who holds a reference to the message in a block.
HoldsMessage(t, s) ==
    /\ slot[t] = s
    /\ pc[t] \in {"parse", "aborted", "dispatch", "command", "execute", "finish", "drop"}

Recycles(t, s) == slot[t] = s /\ pc[t] \in {"reset", "enqueue"}

\* Every variable keeps its type, and a command that runs has its user.
TypeOK ==
    /\ refs \in [Slots -> Nat] /\ type \in [Slots -> Types]
    /\ tag \in [Slots -> Nat] /\ text \in [Slots -> Nat]
    /\ user \in [Slots -> Users \cup {Null}]
    /\ fresh \subseteq Slots /\ free \subseteq Slots
    /\ userRefs \in [Users -> Nat] /\ owner \in [Users -> [id : Nat, name : Nat]]
    /\ freshUsers \subseteq Users /\ freeUsers \subseteq Users
    /\ pc \in [Threads -> {"idle", "parse", "aborted", "dispatch", "command",
                           "execute", "finish", "drop", "reset", "enqueue"}]
    /\ slot \in [Threads -> Slots \cup {Null}]
    /\ cmdUser \in [Threads -> Users \cup {Null}]
    /\ \A t \in Threads : pc[t] \in {"execute", "finish"} => cmdUser[t] # Null
    /\ line \in [Threads -> Nat]
    /\ raw \in [type : Types, id : Nat]
    /\ posted \subseteq [slot : Slots, line : Nat]
    /\ items \subseteq [user : Users, line : Nat]
    /\ lines \in Nat

\* The count of a block is the number of its holders, over threads, posted
\* handlers, commands and queued requests; a block is in its cache exactly when
\* nobody holds it and nobody is about to put it there, and only one thread
\* ever is.
MessagesCounted ==
    \A s \in Slots :
        /\ refs[s] = Cardinality({t \in Threads : HoldsMessage(t, s)})
                     + Cardinality({p \in posted : p.slot = s})
        /\ Cardinality({t \in Threads : Recycles(t, s)})
             = (IF refs[s] = 0 /\ s \notin free \cup fresh THEN 1 ELSE 0)
        /\ s \in free \cup fresh => refs[s] = 0

UsersCounted ==
    \A u \in Users :
        /\ userRefs[u] = Cardinality({s \in Slots : user[s] = u})
                         + Cardinality({t \in Threads : cmdUser[t] = u})
                         + Cardinality({i \in items : i.user = u})
        /\ u \in freeUsers \cup freshUsers <=> userRefs[u] = 0

ReferencesCounted == MessagesCounted /\ UsersCounted

\* A message that waits for a thread, or is being handled by one, is still the
\* one that was posted, text and author, although its block is recycled by any
\* thread and filled by another: commands point into it.
MessageKept ==
    /\ \A p \in posted :
          /\ text[p.slot] = p.line /\ user[p.slot] # Null
          /\ owner[user[p.slot]].name = p.line
    /\ \A t \in Workers :
          pc[t] \in {"command", "execute", "finish"} =>
             /\ text[slot[t]] = line[t] /\ user[slot[t]] # Null
             /\ owner[user[slot[t]]].name = line[t]

\* "commands/modules can hold it beyond the lifetime of its irc_message_data":
\* a command or a song request that holds a user sees the author of its own
\* message to the end.
UserKept ==
    /\ \A t \in Threads : cmdUser[t] # Null => owner[cmdUser[t]].name = line[t]
    /\ \A i \in items : owner[i.user].name = i.line

\* A line without a user-id does not find that of an earlier line in its block.
OwnIdOrNone ==
    \A u \in Users : userRefs[u] > 0 => owner[u].id \in {0, owner[u].name}

\* Nobody is ever taken for somebody else: commands and song requests see the
\* author of their own message, and that author has his own user-id or none.
AuthorsKept == UserKept /\ OwnIdOrNone

-----------------------------------------------------------------------------
(* The messages as their readers see them. *)

Author(u) == IF u \in Users THEN owner[u] ELSE [id |-> 0, name |-> 0]

\* A message of which a command is made; a command keeps its author and points
\* into its text.
Content(s, u) == [text |-> text[s], author |-> Author(u)]

Reading ==
    LET n == line["reader"]
        s == slot["reader"]
    IN  CASE pc["reader"] \in {"parse", "aborted"} /\ raw.type \in ForPool ->
                {[text |-> n, author |-> [id |-> raw.id, name |-> n]]}
          [] pc["reader"] = "dispatch" /\ type[s] \in ForPool -> {Content(s, user[s])}
          [] OTHER -> {}

Waiting == {Content(p.slot, user[p.slot]) : p \in posted}

Handled(t) ==
    CASE pc[t] = "command" -> {Content(slot[t], user[slot[t]])}
      [] pc[t] = "execute" -> {Content(slot[t], cmdUser[t])}
      [] OTHER -> {}

Requests == {Author(i.user) : i \in items}

Served == IF pc["songs"] = "finish" THEN {Author(cmdUser["songs"])} ELSE {}

ByValue == INSTANCE MessagesByValue
           WITH last <- lines, reading <- Reading, waiting <- Waiting,
                handling <- [t \in Workers |-> Handled(t)],
                requests <- Requests, serving <- Served

\* Although blocks are counted, recycled and pointed into by several threads,
\* nobody could tell that messages and authors are not passed by value.
PassedByValue == ByValue!Spec

-----------------------------------------------------------------------------
\* The pool's threads run, and whoever holds a block comes to an end.
FairSpec ==
    /\ Spec
    /\ WF_vars(Reader) /\ WF_vars(Songs)
    /\ \A t \in Workers : WF_vars(Worker(t))

\* Every block comes back to its cache.
BlocksReturn ==
    /\ \A s \in Slots : s \notin free \cup fresh ~> s \in free \/ Aborted
    /\ \A u \in Users : u \notin freeUsers \cup freshUsers ~> u \in freeUsers \/ Aborted

-----------------------------------------------------------------------------
(* Claims of the code that it does not keep. *)


\* The check exists so that no message is handled without the id of its author.
MessagesHaveIds == \A p \in posted : owner[user[p.slot]].id # 0
=============================================================================
