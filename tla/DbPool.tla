------------------------------- MODULE DbPool -------------------------------
(***************************************************************************)
(* The database access of the bot (class db): every thread that runs a     *)
(* query takes a connection from a lock-free queue or opens a new one,     *)
(* runs the statement and puts the connection back, broken or not.  The    *)
(* database server may go down and come back at any moment; libpq learns   *)
(* of it only when a statement is run on the connection.                   *)
(***************************************************************************)
EXTENDS Integers, FiniteSets

CONSTANTS
    Threads,      \* threads that call db::query
    Handles,      \* addresses a PGconn may have
    Null,         \* nullptr
    MaxMisses,    \* bound: times try_dequeue fails on a queue that is not empty
    MaxOutages    \* bound: outages of the server

ASSUME PoolAssumption ==
    /\ IsFiniteSet(Threads)
    /\ Null \notin Handles
    /\ MaxMisses \in Nat /\ MaxOutages \in Nat

VARIABLES
    pool,      \* connectionPool_: the connections in it ...
    nulls,     \* ... and the null pointers in it
    status,    \* PQstatus of the PGconn at an address: "ok", "bad" or "free"
    session,   \* does the server still know that connection?
    pc,        \* where a thread is in db::query
    pconn,     \* its local pc
    effect,    \* how often its statement has taken effect
    result,    \* the db_result of its last query
    up,        \* does the server accept connections?
    outages,
    misses,
    lost       \* queries that failed on their connection since the server is up

entries == <<pool, nulls>>
conns   == <<status, session>>
local   == <<pc, pconn, effect, result>>
server  == <<up, outages>>
vars    == <<entries, conns, local, server, misses, lost>>

States == {"idle", "dequeue", "check", "connect", "exec", "wait", "release"}

\* From here to release_connection a thread stands for one entry of the pool.
Owning == {t \in Threads : pc[t] \in {"check", "connect", "exec", "wait", "release"}}

\* pconn[t] is a PGconn that is neither freed nor in the pool.
Using(t) == pc[t] \in {"check", "exec", "wait", "release"} /\ pconn[t] # Null

Init ==
    /\ pool = {} /\ nulls = 0
    /\ status = [h \in Handles |-> "free"]
    /\ session = [h \in Handles |-> FALSE]
    /\ pc = [t \in Threads |-> "idle"]
    /\ pconn = [t \in Threads |-> Null]
    /\ effect = [t \in Threads |-> 0]
    /\ result = [t \in Threads |-> "none"]
    /\ up \in BOOLEAN
    /\ outages = 0 /\ misses = 0 /\ lost = 0

GoTo(t, next) == pc' = [pc EXCEPT ![t] = next]

Hold(t, h) == pconn' = [pconn EXCEPT ![t] = h]

-----------------------------------------------------------------------------
Query(t) ==
    /\ pc[t] = "idle"
    /\ GoTo(t, "dequeue")
    /\ effect' = [effect EXCEPT ![t] = 0]
    /\ result' = [result EXCEPT ![t] = "none"]
    /\ UNCHANGED <<pconn, entries, conns, server, misses, lost>>

\* try_dequeue gives one of the entries; null pointers are entries too.
Dequeue(t) ==
    /\ pc[t] = "dequeue"
    /\ \/ \E h \in pool :
             /\ pool' = pool \ {h} /\ Hold(t, h)
             /\ UNCHANGED nulls
       \/ /\ nulls > 0
          /\ nulls' = nulls - 1 /\ Hold(t, Null)
          /\ UNCHANGED pool
    /\ GoTo(t, "check")
    /\ UNCHANGED <<effect, result, conns, server, misses, lost>>

\* The queue is empty.  The library does not rule out that try_dequeue misses
\* an entry while other threads dequeue.
DequeueNothing(t) ==
    /\ pc[t] = "dequeue"
    /\ \/ /\ pool = {} /\ nulls = 0
          /\ UNCHANGED misses
       \/ /\ misses < MaxMisses
          /\ \E s \in Threads \ {t} : pc[s] = "dequeue"
          /\ misses' = misses + 1
    /\ GoTo(t, "connect")
    /\ UNCHANGED <<pconn, effect, result, entries, conns, server, lost>>

\* Variants: the status is not asked for; a broken connection is not closed but
\* put back; a connection is closed before it is looked at.
CheckNothing(t) ==
    /\ pc[t] = "check"
    /\ IF pconn[t] = Null THEN GoTo(t, "connect") ELSE GoTo(t, "exec")
    /\ UNCHANGED <<pconn, effect, result, entries, conns, server, misses, lost>>

CheckPuttingBack(t) ==
    /\ pc[t] = "check"
    /\ \/ /\ pconn[t] # Null /\ status[pconn[t]] = "ok"
          /\ GoTo(t, "exec")
          /\ UNCHANGED pool
       \/ /\ pconn[t] # Null /\ status[pconn[t]] # "ok"
          /\ pool' = pool \cup {pconn[t]}
          /\ GoTo(t, "connect")
       \/ /\ pconn[t] = Null
          /\ GoTo(t, "connect")
          /\ UNCHANGED pool
    /\ UNCHANGED <<pconn, effect, result, nulls, conns, server, misses, lost>>

CheckClosing(t) ==
    /\ pc[t] = "check"
    /\ IF pconn[t] # Null /\ status[pconn[t]] = "ok" THEN GoTo(t, "exec") ELSE GoTo(t, "connect")
    /\ status' = [h \in Handles |-> IF h = pconn[t] THEN "free" ELSE status[h]]
    /\ session' = [h \in Handles |-> session[h] /\ h # pconn[t]]
    /\ UNCHANGED <<pconn, effect, result, entries, server, misses, lost>>

\* A connection libpq knows to be broken is closed, its memory may be used
\* again; PQstatus of a null pointer is bad and PQfinish ignores it.
Check(t) ==
    /\ pc[t] = "check"
    /\ LET h == pconn[t]
       IN  \/ /\ h # Null /\ status[h] = "ok"
              /\ GoTo(t, "exec")
              /\ UNCHANGED conns
           \/ /\ h # Null /\ status[h] # "ok"
              /\ status' = [status EXCEPT ![h] = "free"]
              /\ session' = [session EXCEPT ![h] = FALSE]
              /\ GoTo(t, "connect")
           \/ /\ h = Null
              /\ GoTo(t, "connect")
              /\ UNCHANGED conns
    /\ UNCHANGED <<pconn, effect, result, entries, server, misses, lost>>

Connect(t) ==
    /\ pc[t] = "connect" /\ up
    /\ \E h \in Handles :
          /\ status[h] = "free"
          /\ Hold(t, h)
          /\ status' = [status EXCEPT ![h] = "ok"]
          /\ session' = [session EXCEPT ![h] = TRUE]
    /\ GoTo(t, "exec")
    /\ UNCHANGED <<effect, result, entries, server, misses, lost>>

\* PQconnectdb returns an object that says why it failed; get_connection
\* returns a null pointer and, without PQfinish, loses the object: its address
\* is never used again and it plays no further part.
ConnectFails(t) ==
    /\ pc[t] = "connect" /\ ~up
    /\ Hold(t, Null)
    /\ GoTo(t, "exec")
    /\ UNCHANGED <<effect, result, entries, conns, server, misses, lost>>

\* PQexecParams: the server runs the statement, or rejects it, or never sees it.
Execute(t) ==
    /\ pc[t] = "exec"
    /\ \/ /\ pconn[t] # Null /\ session[pconn[t]]
          /\ effect' = [effect EXCEPT ![t] = @ + 1]
       \/ UNCHANGED effect
    /\ GoTo(t, "wait")
    /\ UNCHANGED <<pconn, result, entries, conns, server, misses, lost>>

\* The connection the thread waits on has a server behind it.
Answers(t) == pconn[t] # Null /\ session[pconn[t]]

\* Variant: no answer counts as ok.
ReceiveTrusting(t) ==
    /\ pc[t] = "wait"
    /\ result' = [result EXCEPT ![t] = IF Answers(t) /\ effect[t] = 0 THEN "failed" ELSE "ok"]
    /\ GoTo(t, "release")
    /\ UNCHANGED <<pconn, effect, entries, conns, server, misses, lost>>

\* The answer, or the news that the connection is gone.
Receive(t) ==
    /\ pc[t] = "wait"
    /\ \/ /\ Answers(t)
          /\ result' = [result EXCEPT ![t] = IF effect[t] > 0 THEN "ok" ELSE "failed"]
          /\ UNCHANGED <<status, lost>>
       \/ /\ ~Answers(t)
          /\ result' = [result EXCEPT ![t] = "failed"]
          /\ status' = [h \in Handles |-> IF h = pconn[t] THEN "bad" ELSE status[h]]
          /\ lost' = IF up THEN lost + 1 ELSE lost
    /\ GoTo(t, "release")
    /\ UNCHANGED <<pconn, effect, session, entries, server, misses>>

Release(t) ==
    /\ pc[t] = "release"
    /\ \/ /\ pconn[t] # Null
          /\ pool' = pool \cup {pconn[t]}
          /\ UNCHANGED nulls
       \/ /\ pconn[t] = Null
          /\ nulls' = nulls + 1
          /\ UNCHANGED pool
    /\ GoTo(t, "idle")
    /\ UNCHANGED <<pconn, effect, result, conns, server, misses, lost>>

-----------------------------------------------------------------------------
(* The database server. *)

Outage ==
    /\ up /\ outages < MaxOutages
    /\ up' = FALSE /\ outages' = outages + 1
    /\ session' = [h \in Handles |-> FALSE]
    /\ UNCHANGED <<status, local, entries, misses, lost>>

Recover ==
    /\ ~up
    /\ up' = TRUE /\ lost' = 0
    /\ UNCHANGED <<outages, local, entries, conns, misses>>

Thread(t) ==
    \/ Dequeue(t) \/ DequeueNothing(t) \/ Check(t)
    \/ Connect(t) \/ ConnectFails(t)
    \/ Execute(t) \/ Receive(t) \/ Release(t)

Next == (\E t \in Threads : Query(t) \/ Thread(t)) \/ Outage \/ Recover

Spec == Init /\ [][Next]_vars
=============================================================================
