---------------------------- MODULE DbPoolProofs ----------------------------
(***************************************************************************)
(* Proofs about DbPool for any number of threads, addresses, outages and   *)
(* missed entries.                                                         *)
(***************************************************************************)
EXTENDS DbPoolProps, FiniteSetTheorems, TLAPS

-----------------------------------------------------------------------------
(* Types. *)

LEMMA TypeInit == Init => TypeOK
BY DEF Init, TypeOK, States

LEMMA TypeNext == TypeOK /\ [Next]_vars => TypeOK'
<1> SUFFICES ASSUME TypeOK, [Next]_vars
             PROVE  TypeOK'
  OBVIOUS
<1> USE DEF TypeOK, States, GoTo, Hold, entries, conns, local, server
<1>1. ASSUME NEW t \in Threads, Query(t) PROVE TypeOK'
  BY <1>1 DEF Query
<1>2. ASSUME NEW t \in Threads, Dequeue(t) PROVE TypeOK'
  BY <1>2 DEF Dequeue
<1>3. ASSUME NEW t \in Threads, DequeueNothing(t) PROVE TypeOK'
  BY <1>3 DEF DequeueNothing
<1>4. ASSUME NEW t \in Threads, Check(t) PROVE TypeOK'
  BY <1>4 DEF Check
<1>5. ASSUME NEW t \in Threads, Connect(t) PROVE TypeOK'
  BY <1>5 DEF Connect
<1>6. ASSUME NEW t \in Threads, ConnectFails(t) PROVE TypeOK'
  BY <1>6 DEF ConnectFails
<1>7. ASSUME NEW t \in Threads, Execute(t) PROVE TypeOK'
  BY <1>7 DEF Execute
<1>8. ASSUME NEW t \in Threads, Receive(t) PROVE TypeOK'
  BY <1>8 DEF Receive
<1>9. ASSUME NEW t \in Threads, Release(t) PROVE TypeOK'
  <2>1. pconn[t] \in Handles \cup {Null}
    OBVIOUS
  <2>2. pool' \subseteq Handles /\ nulls' \in Nat
    BY <1>9, <2>1 DEF Release
  <2>3. pc' \in [Threads -> States]
    BY <1>9 DEF Release
  <2>4. UNCHANGED <<pconn, effect, result, conns, server, misses, lost>>
    BY <1>9 DEF Release
  <2> QED
    BY <2>2, <2>3, <2>4
<1>10. ASSUME Outage PROVE TypeOK'
  <2>1. up' \in BOOLEAN
    BY <1>10 DEF Outage
  <2>2. session' \in [Handles -> BOOLEAN]
    BY <1>10, Zenon DEF Outage
  <2> QED
    BY <1>10, <2>1, <2>2 DEF Outage
<1>11. ASSUME Recover PROVE TypeOK'
  BY <1>11 DEF Recover
<1>12. CASE UNCHANGED vars
  BY <1>12 DEF vars
<1> QED
  BY <1>1, <1>2, <1>3, <1>4, <1>5, <1>6, <1>7, <1>8, <1>9, <1>10, <1>11, <1>12
     DEF Next, Thread

\* Every variable of the pool keeps its type.
THEOREM TypeCorrect == Spec => []TypeOK
<1>1. Init => TypeOK
  BY TypeInit
<1>2. TypeOK /\ [Next]_vars => TypeOK'
  BY TypeNext
<1> QED
  BY <1>1, <1>2, PTL DEF Spec

-----------------------------------------------------------------------------
(* Exclusive use.  BrokenNeverRuns rests on it: nobody else can break the
   connection that a thread has just found in order. *)

ConnectionInv == TypeOK /\ ExclusiveUse /\ BrokenNeverRuns

LEMMA ConnectionInit == Init => ConnectionInv
BY TypeInit DEF Init, ConnectionInv, ExclusiveUse, BrokenNeverRuns, Using

LEMMA ConnectionNext == ConnectionInv /\ [Next]_vars => ConnectionInv'
<1> SUFFICES ASSUME TypeOK, ExclusiveUse, BrokenNeverRuns, [Next]_vars
             PROVE  ExclusiveUse' /\ BrokenNeverRuns'
  BY TypeNext DEF ConnectionInv
<1> USE PoolAssumption DEF TypeOK, ExclusiveUse, BrokenNeverRuns, Using, States, GoTo, Hold,
            entries, conns, local, server
<1>1. ASSUME NEW t \in Threads, Query(t) PROVE ExclusiveUse' /\ BrokenNeverRuns'
  BY <1>1 DEF Query
<1>2. ASSUME NEW t \in Threads, Dequeue(t) PROVE ExclusiveUse' /\ BrokenNeverRuns'
  BY <1>2 DEF Dequeue
<1>3. ASSUME NEW t \in Threads, DequeueNothing(t) PROVE ExclusiveUse' /\ BrokenNeverRuns'
  BY <1>3 DEF DequeueNothing
<1>4. ASSUME NEW t \in Threads, Check(t) PROVE ExclusiveUse' /\ BrokenNeverRuns'
  BY <1>4 DEF Check
<1>5. ASSUME NEW t \in Threads, Connect(t) PROVE ExclusiveUse' /\ BrokenNeverRuns'
  BY <1>5 DEF Connect
<1>6. ASSUME NEW t \in Threads, ConnectFails(t) PROVE ExclusiveUse' /\ BrokenNeverRuns'
  BY <1>6 DEF ConnectFails
<1>7. ASSUME NEW t \in Threads, Execute(t) PROVE ExclusiveUse' /\ BrokenNeverRuns'
  BY <1>7 DEF Execute
<1>8. ASSUME NEW t \in Threads, Receive(t) PROVE ExclusiveUse' /\ BrokenNeverRuns'
  BY <1>8 DEF Receive
<1>9. ASSUME NEW t \in Threads, Release(t) PROVE ExclusiveUse' /\ BrokenNeverRuns'
  BY <1>9 DEF Release
<1>10. ASSUME Outage PROVE ExclusiveUse' /\ BrokenNeverRuns'
  BY <1>10 DEF Outage
<1>11. ASSUME Recover PROVE ExclusiveUse' /\ BrokenNeverRuns'
  BY <1>11 DEF Recover
<1>12. CASE UNCHANGED vars
  BY <1>12 DEF vars
<1> QED
  BY <1>1, <1>2, <1>3, <1>4, <1>5, <1>6, <1>7, <1>8, <1>9, <1>10, <1>11, <1>12
     DEF Next, Thread

\* A connection is used by one thread at a time, is never in the pool
\* meanwhile and is not used after PQfinish.
THEOREM ConnectionsExclusive == Spec => []ExclusiveUse
<1>1. Init => ConnectionInv
  BY ConnectionInit
<1>2. ConnectionInv /\ [Next]_vars => ConnectionInv'
  BY ConnectionNext
<1>3. ConnectionInv => ExclusiveUse
  BY DEF ConnectionInv
<1> QED
  BY <1>1, <1>2, <1>3, PTL DEF Spec

\* A connection known to be broken runs no statement.
THEOREM BrokenConnectionsIdle == Spec => []BrokenNeverRuns
<1>1. Init => ConnectionInv
  BY ConnectionInit
<1>2. ConnectionInv /\ [Next]_vars => ConnectionInv'
  BY ConnectionNext
<1>3. ConnectionInv => BrokenNeverRuns
  BY DEF ConnectionInv
<1> QED
  BY <1>1, <1>2, <1>3, PTL DEF Spec

-----------------------------------------------------------------------------
(* The size of the pool. *)

\* How many entries there are, in the pool and in the hands of threads.
Total == Cardinality(pool) + nulls + Cardinality(Owning)

SizeInv == TypeOK /\ IsFiniteSet(pool) /\ PoolBounded

\* The threads that own an entry are finitely many, at most all.
LEMMA OwningFinite ==
    /\ IsFiniteSet(Owning) /\ Cardinality(Owning) \in Nat
    /\ Cardinality(Owning) <= Cardinality(Threads)
    /\ IsFiniteSet(Owning') /\ Cardinality(Owning') \in Nat
    /\ Cardinality(Owning') <= Cardinality(Threads)
    /\ Cardinality(Threads) \in Nat
<1>1. Owning \subseteq Threads /\ Owning' \subseteq Threads
  BY DEF Owning
<1> QED
  BY <1>1, PoolAssumption, FS_Subset, FS_CardinalityType

\* A thread that takes an entry, or gives one back, changes the number of
\* owners by one; any other step of it changes nothing.
LEMMA OwningStep ==
    ASSUME TypeOK, NEW t \in Threads, NEW next \in States, GoTo(t, next)
    PROVE  /\ pc[t] \in {"idle", "dequeue"} /\ next \notin {"idle", "dequeue"}
                => Cardinality(Owning') = Cardinality(Owning) + 1
           /\ pc[t] \notin {"idle", "dequeue"} /\ next \in {"idle", "dequeue"}
                => Cardinality(Owning') = Cardinality(Owning) - 1
           /\ (pc[t] \in {"idle", "dequeue"} <=> next \in {"idle", "dequeue"})
                => Cardinality(Owning') = Cardinality(Owning)
<1>1. IsFiniteSet(Owning)
  BY OwningFinite
<1>2. CASE pc[t] \in {"idle", "dequeue"} /\ next \notin {"idle", "dequeue"}
  <2>1. Owning' = Owning \cup {t} /\ t \notin Owning
    BY <1>2 DEF Owning, GoTo, TypeOK, States
  <2> QED
    BY <1>1, <1>2, <2>1, FS_AddElement
<1>3. CASE pc[t] \notin {"idle", "dequeue"} /\ next \in {"idle", "dequeue"}
  <2>1. Owning' = Owning \ {t} /\ t \in Owning
    BY <1>3 DEF Owning, GoTo, TypeOK, States
  <2> QED
    BY <1>1, <1>3, <2>1, FS_RemoveElement
<1>4. CASE pc[t] \in {"idle", "dequeue"} <=> next \in {"idle", "dequeue"}
  <2>1. Owning' = Owning
    BY <1>4 DEF Owning, GoTo, TypeOK, States
  <2> QED
    BY <1>4, <2>1
<1> QED
  BY <1>2, <1>3, <1>4

LEMMA SizeInit == Init => SizeInv
<1> SUFFICES ASSUME Init
             PROVE  IsFiniteSet(pool) /\ PoolBounded
  BY TypeInit DEF SizeInv
<1>1. IsFiniteSet(pool) /\ Cardinality(pool) = 0
  BY FS_EmptySet DEF Init
<1>2. Cardinality(Owning) <= Cardinality(Threads) /\ Cardinality(Owning) \in Nat
      /\ Cardinality(Threads) \in Nat
  BY OwningFinite
<1> QED
  BY <1>1, <1>2 DEF Init, PoolBounded

LEMMA SizeNext == SizeInv /\ [Next]_vars => SizeInv'
<1> SUFFICES ASSUME TypeOK, IsFiniteSet(pool), PoolBounded, [Next]_vars
             PROVE  IsFiniteSet(pool') /\ PoolBounded'
  BY TypeNext DEF SizeInv
<1>a. /\ Cardinality(pool) \in Nat /\ nulls \in Nat /\ misses \in Nat
      /\ Cardinality(Owning) \in Nat /\ Cardinality(Threads) \in Nat
      /\ Cardinality(Owning') \in Nat /\ Cardinality(Owning') <= Cardinality(Threads)
  BY OwningFinite, FS_CardinalityType DEF TypeOK
<1>b. Total <= Cardinality(Threads) + misses
  BY DEF PoolBounded, Total
<1>c. ASSUME UNCHANGED <<entries, misses>>, Cardinality(Owning') = Cardinality(Owning)
      PROVE  IsFiniteSet(pool') /\ PoolBounded'
  BY <1>c, <1>b DEF entries, PoolBounded, Total
<1>1. ASSUME NEW t \in Threads, Query(t) PROVE IsFiniteSet(pool') /\ PoolBounded'
  <2>1. Cardinality(Owning') = Cardinality(Owning)
    BY <1>1, OwningStep DEF Query, States
  <2> QED
    BY <1>1, <2>1, <1>c DEF Query
<1>2. ASSUME NEW t \in Threads, Dequeue(t) PROVE IsFiniteSet(pool') /\ PoolBounded'
  <2>1. Cardinality(Owning') = Cardinality(Owning) + 1
    BY <1>2, OwningStep DEF Dequeue, States
  <2>2. CASE \E h \in pool : pool' = pool \ {h} /\ UNCHANGED nulls
    <3>1. IsFiniteSet(pool') /\ Cardinality(pool') = Cardinality(pool) - 1
      BY <2>2, FS_RemoveElement
    <3> QED
      BY <1>2, <1>a, <1>b, <2>1, <2>2, <3>1 DEF Dequeue, PoolBounded, Total
  <2>3. CASE nulls > 0 /\ nulls' = nulls - 1 /\ UNCHANGED pool
    BY <1>2, <1>a, <1>b, <2>1, <2>3 DEF Dequeue, PoolBounded, Total
  <2> QED
    BY <1>2, <2>2, <2>3 DEF Dequeue
<1>3. ASSUME NEW t \in Threads, DequeueNothing(t) PROVE IsFiniteSet(pool') /\ PoolBounded'
  <2>1. Cardinality(Owning') = Cardinality(Owning) + 1
    BY <1>3, OwningStep DEF DequeueNothing, States
  <2>2. CASE pool = {} /\ nulls = 0 /\ UNCHANGED misses
    <3>1. Cardinality(pool) = 0
      BY <2>2, FS_EmptySet
    <3> QED
      BY <1>3, <1>a, <2>2, <3>1 DEF DequeueNothing, entries, PoolBounded
  <2>3. CASE misses' = misses + 1
    BY <1>3, <1>a, <1>b, <2>1, <2>3 DEF DequeueNothing, entries, PoolBounded, Total
  <2> QED
    BY <1>3, <2>2, <2>3 DEF DequeueNothing
<1>4. ASSUME NEW t \in Threads,
             Check(t) \/ Connect(t) \/ ConnectFails(t) \/ Execute(t) \/ Receive(t)
      PROVE  IsFiniteSet(pool') /\ PoolBounded'
  <2>1. \E next \in {"connect", "exec", "wait", "release"} : GoTo(t, next)
    BY <1>4 DEF Check, Connect, ConnectFails, Execute, Receive
  <2>2. pc[t] \in {"check", "connect", "exec", "wait"}
    BY <1>4 DEF Check, Connect, ConnectFails, Execute, Receive
  <2>3. Cardinality(Owning') = Cardinality(Owning)
    BY <2>1, <2>2, OwningStep DEF States
  <2>4. UNCHANGED <<entries, misses>>
    BY <1>4 DEF Check, Connect, ConnectFails, Execute, Receive
  <2> QED
    BY <2>3, <2>4, <1>c
<1>5. ASSUME NEW t \in Threads, Release(t) PROVE IsFiniteSet(pool') /\ PoolBounded'
  <2>1. Cardinality(Owning') = Cardinality(Owning) - 1
    BY <1>5, OwningStep DEF Release, States
  <2>2. CASE pool' = pool \cup {pconn[t]} /\ UNCHANGED nulls
    <3>1. /\ IsFiniteSet(pool') /\ Cardinality(pool') \in Nat
          /\ Cardinality(pool') <= Cardinality(pool) + 1
      <4>1. CASE pconn[t] \in pool
        <5>1. pool' = pool
          BY <2>2, <4>1
        <5> QED
          BY <1>a, <5>1
      <4>2. CASE pconn[t] \notin pool
        BY <1>a, <2>2, <4>2, FS_AddElement
      <4> QED
        BY <4>1, <4>2
    <3> QED
      BY <1>5, <1>a, <1>b, <2>1, <2>2, <3>1 DEF Release, PoolBounded, Total
  <2>3. CASE nulls' = nulls + 1 /\ UNCHANGED pool
    BY <1>5, <1>a, <1>b, <2>1, <2>3 DEF Release, PoolBounded, Total
  <2> QED
    BY <1>5, <2>2, <2>3 DEF Release
<1>6. ASSUME Outage \/ Recover \/ UNCHANGED vars PROVE IsFiniteSet(pool') /\ PoolBounded'
  <2>1. UNCHANGED <<entries, misses, pc>>
    BY <1>6 DEF Outage, Recover, vars, local
  <2>2. Cardinality(Owning') = Cardinality(Owning)
    BY <2>1 DEF Owning
  <2> QED
    BY <2>1, <2>2, <1>c
<1> QED
  BY <1>1, <1>2, <1>3, <1>4, <1>5, <1>6 DEF Next, Thread

\* There are never more connections in the pool and in use than threads, plus
\* the entries that try_dequeue has missed.
THEOREM PoolSizeBounded == Spec => []PoolBounded
<1>1. Init => SizeInv
  BY SizeInit
<1>2. SizeInv /\ [Next]_vars => SizeInv'
  BY SizeNext
<1>3. SizeInv => PoolBounded
  BY DEF SizeInv
<1> QED
  BY <1>1, <1>2, <1>3, PTL DEF Spec

-----------------------------------------------------------------------------
(* The cost of an outage.  While the server is up, whoever is going to fail
   uses a dead connection that libpq takes for a good one, or none at all; each
   failure ends one such use, and nothing begins another. *)

DeadUnknown(h) == status[h] = "ok" /\ ~session[h]

DoomedPool == {h \in pool : DeadUnknown(h)}

DoomedThreads ==
    {t \in Threads : \/ pc[t] \in {"check", "release"} /\ pconn[t] # Null /\ DeadUnknown(pconn[t])
                     \/ pc[t] \in {"exec", "wait"} /\ ~Answers(t)}

CostInv ==
    /\ OutageCost
    /\ up => lost + Cardinality(DoomedPool) + Cardinality(DoomedThreads)
               <= Cardinality(Threads) + misses

LEMMA DoomedFinite ==
    ASSUME SizeInv
    PROVE  /\ IsFiniteSet(DoomedPool) /\ Cardinality(DoomedPool) \in Nat
           /\ IsFiniteSet(DoomedThreads) /\ Cardinality(DoomedThreads) \in Nat
           /\ Cardinality(DoomedPool) <= Cardinality(pool)
           /\ Cardinality(DoomedThreads) <= Cardinality(Owning)
<1>1. DoomedPool \subseteq pool /\ IsFiniteSet(pool)
  BY DEF DoomedPool, SizeInv
<1>2. DoomedThreads \subseteq Owning /\ IsFiniteSet(Owning)
  BY OwningFinite DEF DoomedThreads, Owning
<1> QED
  BY <1>1, <1>2, FS_Subset, FS_CardinalityType

\* What makes nobody doomed.
LEMMA NobodyDoomed ==
    ASSUME SizeInv, CostInv, DoomedPool' \subseteq DoomedPool, DoomedThreads' \subseteq DoomedThreads,
           UNCHANGED <<lost, up>>, misses' >= misses, misses' \in Nat
    PROVE  CostInv'
<1>1. /\ Cardinality(DoomedPool') \in Nat /\ Cardinality(DoomedPool') <= Cardinality(DoomedPool)
      /\ Cardinality(DoomedThreads') \in Nat
      /\ Cardinality(DoomedThreads') <= Cardinality(DoomedThreads)
  BY DoomedFinite, FS_Subset, FS_CardinalityType
<1>2. lost \in Nat /\ misses \in Nat /\ Cardinality(Threads) \in Nat
  BY OwningFinite DEF SizeInv, TypeOK
<1>3. OutageCost'
  BY <1>2 DEF CostInv, OutageCost
<1>4. ASSUME up'
      PROVE  lost' + Cardinality(DoomedPool') + Cardinality(DoomedThreads')
               <= Cardinality(Threads) + misses'
  BY <1>1, <1>2, <1>4, DoomedFinite DEF CostInv
<1> QED
  BY <1>3, <1>4 DEF CostInv

LEMMA CostInit == Init => CostInv
<1> SUFFICES ASSUME Init PROVE CostInv
  OBVIOUS
<1>1. DoomedPool = {} /\ DoomedThreads = {}
  BY DEF Init, DoomedPool, DoomedThreads
<1>2. Cardinality({}) = 0
  BY FS_EmptySet
<1> QED
  BY <1>1, <1>2, OwningFinite DEF Init, CostInv, OutageCost

LEMMA DownCost ==
    ASSUME SizeInv, CostInv, ~up', UNCHANGED lost, misses' >= misses, misses' \in Nat
    PROVE  CostInv'
  BY OwningFinite DEF CostInv, OutageCost, SizeInv, TypeOK

LEMMA CostNext == ConnectionInv /\ SizeInv /\ CostInv /\ [Next]_vars => CostInv'
<1> SUFFICES ASSUME TypeOK, ExclusiveUse, SizeInv, CostInv, [Next]_vars PROVE CostInv'
  BY DEF ConnectionInv
<1> USE DEF GoTo, Hold, entries, conns, local, server
<1>a. /\ lost \in Nat /\ misses \in Nat /\ nulls \in Nat /\ Cardinality(Threads) \in Nat
      /\ Cardinality(pool) \in Nat /\ Cardinality(Owning) \in Nat
  BY OwningFinite, FS_CardinalityType DEF TypeOK, SizeInv
<1>b. Null \notin Handles
  BY PoolAssumption
<1>1. ASSUME NEW t \in Threads, Query(t) PROVE CostInv'
  <2>1. DoomedPool' \subseteq DoomedPool /\ DoomedThreads' \subseteq DoomedThreads
    BY <1>1 DEF Query, DoomedPool, DoomedThreads, DeadUnknown, Answers, TypeOK
  <2> QED
    BY <1>1, <1>a, <2>1, NobodyDoomed DEF Query
<1>2. ASSUME NEW t \in Threads, Dequeue(t) PROVE CostInv'
  <2>0. UNCHANGED <<conns, up, lost, misses>> /\ pc[t] = "dequeue" /\ pc' = [pc EXCEPT ![t] = "check"]
    BY <1>2 DEF Dequeue
  <2>1. CASE nulls > 0 /\ Hold(t, Null) /\ UNCHANGED pool
    <3>1. DoomedPool' \subseteq DoomedPool /\ DoomedThreads' \subseteq DoomedThreads
      BY <2>0, <2>1 DEF DoomedPool, DoomedThreads, DeadUnknown, Answers, TypeOK
    <3> QED
      BY <1>a, <2>0, <3>1, NobodyDoomed
  <2>2. ASSUME NEW h \in pool, pool' = pool \ {h}, Hold(t, h) PROVE CostInv'
    <3>1. DoomedPool' = DoomedPool \ {h}
      BY <2>0, <2>2 DEF DoomedPool, DeadUnknown
    <3>2. CASE DeadUnknown(h)
      <4>1. h \in DoomedPool /\ t \notin DoomedThreads
        BY <2>0, <3>2 DEF DoomedPool, DoomedThreads
      <4>2. DoomedThreads' \subseteq DoomedThreads \cup {t}
        BY <2>0, <2>2 DEF DoomedThreads, DeadUnknown, Answers, TypeOK
      <4>3. Cardinality(DoomedPool') = Cardinality(DoomedPool) - 1
        BY <3>1, <4>1, DoomedFinite, FS_RemoveElement
      <4>4. /\ Cardinality(DoomedThreads \cup {t}) = Cardinality(DoomedThreads) + 1
            /\ IsFiniteSet(DoomedThreads \cup {t})
        BY <4>1, DoomedFinite, FS_AddElement
      <4>5. /\ Cardinality(DoomedThreads') \in Nat
            /\ Cardinality(DoomedThreads') <= Cardinality(DoomedThreads) + 1
        BY <4>2, <4>4, FS_Subset, FS_CardinalityType
      <4> QED
        BY <1>a, <2>0, <4>3, <4>5, DoomedFinite DEF CostInv, OutageCost
    <3>3. CASE ~DeadUnknown(h)
      <4>1. DoomedThreads' \subseteq DoomedThreads
        BY <2>0, <2>2, <3>3 DEF DoomedThreads, DeadUnknown, Answers, TypeOK
      <4> QED
        BY <1>a, <2>0, <3>1, <4>1, NobodyDoomed
    <3> QED
      BY <3>2, <3>3
  <2> QED
    BY <1>2, <2>1, <2>2 DEF Dequeue
<1>3. ASSUME NEW t \in Threads, DequeueNothing(t) PROVE CostInv'
  <2>1. DoomedPool' \subseteq DoomedPool /\ DoomedThreads' \subseteq DoomedThreads
    BY <1>3 DEF DequeueNothing, DoomedPool, DoomedThreads, DeadUnknown, Answers, TypeOK
  <2> QED
    BY <1>3, <1>a, <2>1, NobodyDoomed DEF DequeueNothing
<1>4. ASSUME NEW t \in Threads, Check(t) PROVE CostInv'
  <2>1. DoomedPool' \subseteq DoomedPool
    BY <1>4 DEF Check, DoomedPool, DeadUnknown, TypeOK
  <2>2. DoomedThreads' \subseteq DoomedThreads
    BY <1>4, <1>b DEF Check, DoomedThreads, DeadUnknown, Answers, TypeOK, ExclusiveUse, Using
  <2> QED
    BY <1>4, <1>a, <2>1, <2>2, NobodyDoomed DEF Check
<1>5. ASSUME NEW t \in Threads, Connect(t) PROVE CostInv'
  <2>1. DoomedPool' \subseteq DoomedPool
    BY <1>5 DEF Connect, DoomedPool, DeadUnknown, TypeOK
  <2>2. DoomedThreads' \subseteq DoomedThreads
    BY <1>5, <1>b DEF Connect, DoomedThreads, DeadUnknown, Answers, TypeOK
  <2> QED
    BY <1>5, <1>a, <2>1, <2>2, NobodyDoomed DEF Connect
<1>6. ASSUME NEW t \in Threads, ConnectFails(t) PROVE CostInv'
  BY <1>6, <1>a, DownCost DEF ConnectFails
<1>7. ASSUME NEW t \in Threads, Execute(t) PROVE CostInv'
  <2>1. DoomedPool' \subseteq DoomedPool /\ DoomedThreads' \subseteq DoomedThreads
    BY <1>7 DEF Execute, DoomedPool, DoomedThreads, DeadUnknown, Answers, TypeOK
  <2> QED
    BY <1>7, <1>a, <2>1, NobodyDoomed DEF Execute
<1>8. ASSUME NEW t \in Threads, Receive(t) PROVE CostInv'
  <2>0. UNCHANGED <<session, pconn, entries, server, misses>> /\ pc[t] = "wait"
        /\ pc' = [pc EXCEPT ![t] = "release"]
    BY <1>8 DEF Receive
  <2>1. CASE Answers(t) /\ UNCHANGED <<status, lost>>
    <3>1. DoomedPool' \subseteq DoomedPool /\ DoomedThreads' \subseteq DoomedThreads
      BY <2>0, <2>1 DEF DoomedPool, DoomedThreads, DeadUnknown, Answers, TypeOK
    <3> QED
      BY <1>a, <2>0, <2>1, <3>1, NobodyDoomed
  <2>2. CASE /\ ~Answers(t)
             /\ status' = [h \in Handles |-> IF h = pconn[t] THEN "bad" ELSE status[h]]
             /\ lost' = IF up THEN lost + 1 ELSE lost
    <3>1. DoomedPool' \subseteq DoomedPool
      BY <2>0, <2>2 DEF DoomedPool, DeadUnknown, TypeOK
    <3>2. DoomedThreads' \subseteq DoomedThreads \ {t} /\ t \in DoomedThreads
      BY <2>0, <2>2 DEF DoomedThreads, DeadUnknown, Answers, TypeOK
    <3>3. /\ Cardinality(DoomedThreads \ {t}) = Cardinality(DoomedThreads) - 1
          /\ IsFiniteSet(DoomedThreads \ {t})
      BY <3>2, DoomedFinite, FS_RemoveElement
    <3>4. /\ Cardinality(DoomedThreads') \in Nat
          /\ Cardinality(DoomedThreads') <= Cardinality(DoomedThreads) - 1
      BY <3>2, <3>3, FS_Subset, FS_CardinalityType
    <3>5. /\ Cardinality(DoomedPool') \in Nat
          /\ Cardinality(DoomedPool') <= Cardinality(DoomedPool)
      BY <3>1, DoomedFinite, FS_Subset, FS_CardinalityType
    <3>6. CASE up
      <4>1. lost' + Cardinality(DoomedPool') + Cardinality(DoomedThreads')
               <= Cardinality(Threads) + misses'
        BY <1>a, <2>0, <2>2, <3>4, <3>5, <3>6, DoomedFinite DEF CostInv
      <4>2. lost' \in Nat
        BY <1>a, <2>2
      <4>3. OutageCost'
        BY <1>a, <2>0, <3>4, <3>5, <4>1, <4>2 DEF OutageCost
      <4> QED
        BY <4>1, <4>3 DEF CostInv
    <3>7. CASE ~up
      BY <1>a, <2>0, <2>2, <3>7, DownCost
    <3> QED
      BY <3>6, <3>7
  <2> QED
    BY <1>8, <2>1, <2>2 DEF Receive
<1>9. ASSUME NEW t \in Threads, Release(t) PROVE CostInv'
  <2>0. UNCHANGED <<conns, pconn, up, lost, misses>> /\ pc[t] = "release" /\ pc' = [pc EXCEPT ![t] = "idle"]
    BY <1>9 DEF Release
  <2>1. DoomedThreads' = DoomedThreads \ {t}
    BY <2>0 DEF DoomedThreads, DeadUnknown, Answers, TypeOK
  <2>2. CASE pconn[t] # Null /\ pool' = pool \cup {pconn[t]} /\ DeadUnknown(pconn[t])
    <3>1. DoomedPool' = DoomedPool \cup {pconn[t]} /\ t \in DoomedThreads
      BY <2>0, <2>2 DEF DoomedPool, DoomedThreads, DeadUnknown
    <3>2. Cardinality(DoomedThreads') = Cardinality(DoomedThreads) - 1
      BY <2>1, <3>1, DoomedFinite, FS_RemoveElement
    <3>3. pconn[t] \notin DoomedPool
      BY <2>0, <2>2 DEF ExclusiveUse, Using, DoomedPool
    <3>4. Cardinality(DoomedPool') = Cardinality(DoomedPool) + 1
      BY <3>1, <3>3, DoomedFinite, FS_AddElement
    <3> QED
      BY <1>a, <2>0, <3>2, <3>4, DoomedFinite DEF CostInv, OutageCost
  <2>3. CASE \/ pool' = pool
             \/ pconn[t] # Null /\ pool' = pool \cup {pconn[t]} /\ ~DeadUnknown(pconn[t])
    <3>1. DoomedPool' \subseteq DoomedPool /\ DoomedThreads' \subseteq DoomedThreads
      BY <2>0, <2>1, <2>3 DEF DoomedPool, DeadUnknown
    <3> QED
      BY <1>a, <2>0, <3>1, NobodyDoomed
  <2> QED
    BY <1>9, <2>2, <2>3 DEF Release
<1>10. CASE Outage
  BY <1>10, <1>a, DownCost DEF Outage
<1>11. CASE Recover
  <2>1. DoomedPool' = DoomedPool /\ DoomedThreads' = DoomedThreads
    BY <1>11 DEF Recover, DoomedPool, DoomedThreads, DeadUnknown, Answers
  <2>2. Cardinality(DoomedPool) + Cardinality(DoomedThreads) <= Cardinality(Threads) + misses
    BY <1>a, DoomedFinite DEF SizeInv, PoolBounded
  <2> QED
    BY <1>11, <1>a, <2>1, <2>2, DoomedFinite DEF Recover, CostInv, OutageCost
<1>12. CASE UNCHANGED vars
  <2>1. DoomedPool' \subseteq DoomedPool /\ DoomedThreads' \subseteq DoomedThreads
    BY <1>12 DEF vars, DoomedPool, DoomedThreads, DeadUnknown, Answers
  <2> QED
    BY <1>12, <1>a, <2>1, NobodyDoomed DEF vars
<1> QED
  BY <1>1, <1>2, <1>3, <1>4, <1>5, <1>6, <1>7, <1>8, <1>9, <1>10, <1>11, <1>12 DEF Next, Thread

\* An outage costs each thread at most one failed query, and one more for each
\* entry that try_dequeue has missed, however often the threads query.
THEOREM OutagesCostLittle == Spec => []OutageCost
<1>1. Init => ConnectionInv /\ SizeInv /\ CostInv
  BY ConnectionInit, SizeInit, CostInit
<1>2. ConnectionInv /\ SizeInv /\ CostInv /\ [Next]_vars => (ConnectionInv /\ SizeInv /\ CostInv)'
  BY ConnectionNext, SizeNext, CostNext
<1>3. CostInv => OutageCost
  BY DEF CostInv
<1> QED
  BY <1>1, <1>2, <1>3, PTL DEF Spec

-----------------------------------------------------------------------------
(* The contract of a call.  A thread that has not run its statement has no
   effect yet, so the one step that adds an effect is the abstract Apply. *)

EffectInv ==
    \A t \in Threads :
        /\ pc[t] \in {"dequeue", "check", "connect", "exec"} => effect[t] = 0
        /\ effect[t] \in {0, 1}
        /\ pc[t] # "idle" /\ pc[t] # "release" => result[t] = "none"

CallInv == TypeOK /\ EffectInv

LEMMA CallNext == CallInv /\ [Next]_vars => CallInv'
<1> SUFFICES ASSUME TypeOK, EffectInv, [Next]_vars
             PROVE  EffectInv'
  BY TypeNext DEF CallInv
<1> USE DEF TypeOK, States, EffectInv, GoTo, entries, conns, local, server
<1>1. ASSUME NEW t \in Threads, Query(t) PROVE EffectInv'
  BY <1>1 DEF Query
<1>2. ASSUME NEW t \in Threads, Thread(t) PROVE EffectInv'
  BY <1>2 DEF Thread, Dequeue, DequeueNothing, Check, Connect, ConnectFails, Execute,
              Receive, Release
<1>3. CASE Outage \/ Recover \/ UNCHANGED vars
  BY <1>3 DEF Outage, Recover, vars
<1> QED
  BY <1>1, <1>2, <1>3 DEF Next

\* Every step of a thread is a step of its call or no step of it.
LEMMA CallStep == CallInv /\ [Next]_vars => [Call!Next]_Call!vars
<1> SUFFICES ASSUME TypeOK, EffectInv, [Next]_vars
             PROVE  [Call!Next]_Call!vars
  BY DEF CallInv
<1> USE DEF TypeOK, States, GoTo
<1>a. ASSUME NEW t \in Threads, NEW next \in States, GoTo(t, next),
             UNCHANGED <<effect, result>>,
             pc[t] \in {"dequeue", "check", "connect", "exec", "wait"},
             next \in {"dequeue", "check", "connect", "exec", "wait"}
      PROVE  UNCHANGED Call!vars
  <2>1. Phase' = Phase
    BY <1>a DEF Phase
  <2> QED
    BY <1>a, <2>1 DEF Call!vars
<1>1. ASSUME NEW t \in Threads, Query(t) PROVE Call!Call(t)
  <2>1. Phase' = [Phase EXCEPT ![t] = "running"] /\ Phase[t] = "idle"
    BY <1>1 DEF Query, Phase
  <2> QED
    BY <1>1, <2>1 DEF Query, Call!Call
<1>2. ASSUME NEW t \in Threads,
             Dequeue(t) \/ DequeueNothing(t) \/ Check(t) \/ Connect(t) \/ ConnectFails(t)
      PROVE  UNCHANGED Call!vars
  <2>1. \E next \in {"check", "connect", "exec"} : GoTo(t, next)
    BY <1>2 DEF Dequeue, DequeueNothing, Check, Connect, ConnectFails
  <2>2. pc[t] \in {"dequeue", "check", "connect"} /\ UNCHANGED <<effect, result>>
    BY <1>2 DEF Dequeue, DequeueNothing, Check, Connect, ConnectFails
  <2> QED
    BY <2>1, <2>2, <1>a
<1>3. ASSUME NEW t \in Threads, Execute(t) PROVE Call!Apply(t) \/ UNCHANGED Call!vars
  <2>1. Phase' = Phase /\ Phase[t] = "running"
    BY <1>3 DEF Execute, Phase
  <2>2. effect[t] = 0
    BY <1>3 DEF Execute, EffectInv
  <2>3. effect' = [effect EXCEPT ![t] = 1] \/ UNCHANGED effect
    BY <1>3, <2>2 DEF Execute
  <2> QED
    BY <1>3, <2>1, <2>2, <2>3 DEF Execute, Call!Apply, Call!vars
<1>4. ASSUME NEW t \in Threads, Receive(t) PROVE Call!Answer(t)
  <2>1. Phase' = [Phase EXCEPT ![t] = "answered"] /\ Phase[t] = "running"
    BY <1>4 DEF Receive, Phase
  <2>2. \/ effect[t] = 1 /\ result' = [result EXCEPT ![t] = "ok"]
        \/ result' = [result EXCEPT ![t] = "failed"]
    BY <1>4 DEF Receive, EffectInv
  <2> QED
    BY <1>4, <2>1, <2>2 DEF Receive, Call!Answer
<1>5. ASSUME NEW t \in Threads, Release(t) PROVE Call!Return(t)
  <2>1. Phase' = [Phase EXCEPT ![t] = "idle"] /\ Phase[t] = "answered"
    BY <1>5 DEF Release, Phase
  <2> QED
    BY <1>5, <2>1 DEF Release, Call!Return
<1>6. ASSUME Outage \/ Recover \/ UNCHANGED vars PROVE UNCHANGED Call!vars
  BY <1>6 DEF Outage, Recover, vars, local, Phase, Call!vars
<1> QED
  BY <1>1, <1>2, <1>3, <1>4, <1>5, <1>6 DEF Next, Thread, Call!Next

\* Every call of query keeps its contract: at most one effect, and one if the
\* result is ok.
THEOREM CallsKeepContract == Spec => ImplementsCall
<1>1. Init => CallInv
  BY TypeInit DEF Init, CallInv, EffectInv
<1>2. CallInv /\ [Next]_vars => CallInv'
  BY CallNext
<1>3. Init => Call!Init
  BY DEF Init, Call!Init, Phase
<1>4. CallInv /\ [Next]_vars => [Call!Next]_Call!vars
  BY CallStep
<1> QED
  BY <1>1, <1>2, <1>3, <1>4, PTL DEF Spec, ImplementsCall, Call!Spec
=============================================================================
