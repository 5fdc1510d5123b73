---------------------------- MODULE DbPoolProps ----------------------------
(***************************************************************************)
(* What the pool must guarantee to the threads that share it.              *)
(***************************************************************************)
EXTENDS DbPool

\* Every variable keeps its type, and whoever runs a statement has asked for a
\* connection before.
TypeOK ==
    /\ pool \subseteq Handles /\ nulls \in Nat
    /\ status \in [Handles -> {"ok", "bad", "free"}]
    /\ session \in [Handles -> BOOLEAN]
    /\ pc \in [Threads -> States]
    /\ pconn \in [Threads -> Handles \cup {Null}]
    /\ effect \in [Threads -> Nat]
    /\ result \in [Threads -> {"none", "ok", "failed"}]
    /\ up \in BOOLEAN
    /\ outages \in Nat /\ misses \in Nat /\ lost \in Nat

\* A PGconn is used by one thread at a time: libpq does not lock it.  Nobody
\* has a pointer to a connection that is in the pool or in another thread's
\* hands, or that has been freed, although the addresses are used again.
ExclusiveUse ==
    /\ \A t \in Threads : Using(t) => status[pconn[t]] # "free" /\ pconn[t] \notin pool
    /\ \A s, t \in Threads : Using(s) /\ Using(t) /\ pconn[s] = pconn[t] => s = t
    /\ \A h \in pool : status[h] # "free"

\* The pool never holds more connections than there are threads, although
\* every query that finds the queue empty opens one and nothing ever closes a
\* working one.  Only entries that try_dequeue has missed come on top.
PoolBounded ==
    Cardinality(pool) + nulls + Cardinality(Owning) <= Cardinality(Threads) + misses

\* A connection that libpq knows to be broken runs no further statement,
\* however often it went through the pool.
BrokenNeverRuns == \A t \in Threads : pc[t] = "exec" /\ pconn[t] # Null => status[pconn[t]] = "ok"

\* An outage costs at most one failed query per thread: after the server is
\* back, every dead connection and every null pointer fails once and is then
\* replaced.
OutageCost == lost <= Cardinality(Threads) + misses

\* Each call of query keeps the contract of DbCall, over outages, reused
\* addresses and null pointers in the pool.
Phase == [t \in Threads |-> CASE pc[t] = "idle" -> "idle"
                              [] pc[t] = "release" -> "answered"
                              [] OTHER -> "running"]

Call == INSTANCE DbCall WITH phase <- Phase

ImplementsCall == Call!Spec

=============================================================================
