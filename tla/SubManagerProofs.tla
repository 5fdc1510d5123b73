-------------------------- MODULE SubManagerProofs --------------------------
(***************************************************************************)
(* Proofs about SubManager for every list of subscribers and every size of *)
(* a page.                                                                 *)
(***************************************************************************)
EXTENDS SubManagerProps, FiniteSetTheorems, TLAPS

USE DEF table, caller, clock, world

-----------------------------------------------------------------------------
(* The list at Twitch. *)

LEMMA ListType ==
    ASSUME NEW s
    PROVE  s \in Lists <=> /\ s \in Seq(Names) /\ Len(s) <= Cardinality(Names)
                           /\ IsInjective(s)
<1>1. Cardinality(Names) \in Nat
  BY SubAssumption, FS_CardinalityType
<1>2. ASSUME s \in Lists
      PROVE  s \in Seq(Names) /\ Len(s) <= Cardinality(Names) /\ IsInjective(s)
  <2>1. PICK k \in 0 .. Cardinality(Names) : s \in [1 .. k -> Names]
    BY <1>2 DEF Lists
  <2>2. s \in Seq(Names) /\ Len(s) = k
    BY <1>1, <2>1
  <2> QED
    BY <1>1, <1>2, <2>2 DEF Lists
<1>3. ASSUME s \in Seq(Names), Len(s) <= Cardinality(Names), IsInjective(s)
      PROVE  s \in Lists
  <2>1. s \in [1 .. Len(s) -> Names] /\ Len(s) \in 0 .. Cardinality(Names)
    BY <1>1, <1>3
  <2> QED
    BY <1>3, <2>1 DEF Lists
<1> QED
  BY <1>2, <1>3

\* Nobody is on a list twice, so that it is no longer than there are names.
LEMMA ShortEnough ==
    ASSUME NEW s \in Seq(Names), IsInjective(s)
    PROVE  s \in Lists
<1>1. s \in Injection(1 .. Len(s), Names)
  BY DEF Injection
<1>2. Cardinality(1 .. Len(s)) <= Cardinality(Names)
  BY <1>1, SubAssumption, FS_Injection
<1>3. Cardinality(1 .. Len(s)) = Len(s)
  <2>1. Len(s) \in Nat
    OBVIOUS
  <2>2. Cardinality(1 .. Len(s)) = IF 1 > Len(s) THEN 0 ELSE Len(s) - 1 + 1
    BY <2>1, FS_Interval
  <2> QED
    BY <2>1, <2>2
<1> QED
  BY <1>2, <1>3, ListType

LEMMA Subscribed ==
    ASSUME twitch \in Lists, NEW n \in Names, n \notin ToSet(twitch)
    PROVE  <<n>> \o twitch \in Lists
<1> DEFINE s == <<n>> \o twitch
<1>1. twitch \in Seq(Names) /\ IsInjective(twitch)
  BY ListType
<1>2. s \in Seq(Names) /\ Len(s) = Len(twitch) + 1
  BY <1>1
<1>3. \A i \in 1 .. Len(s) : s[i] = IF i = 1 THEN n ELSE twitch[i - 1]
  BY <1>1
<1>4. \A i \in 1 .. Len(twitch) : twitch[i] # n
  BY <1>1 DEF ToSet
<1>5. IsInjective(s)
  <2>1. SUFFICES ASSUME NEW a \in 1 .. Len(s), NEW b \in 1 .. Len(s), s[a] = s[b]
                 PROVE  a = b
    BY <1>2 DEF IsInjective
  <2>2. CASE a # 1 /\ b # 1
    <3>1. a - 1 \in 1 .. Len(twitch) /\ b - 1 \in 1 .. Len(twitch)
      BY <1>1, <1>2, <2>1, <2>2
    <3>2. twitch[a - 1] = twitch[b - 1]
      BY <1>3, <2>1, <2>2
    <3> QED
      BY <1>1, <3>1, <3>2 DEF IsInjective
  <2>3. CASE a = 1 \/ b = 1
    BY <1>1, <1>2, <1>3, <1>4, <2>1, <2>3
  <2> QED
    BY <2>2, <2>3
<1> QED
  BY <1>2, <1>5, ShortEnough

LEMMA Unsubscribed ==
    ASSUME twitch \in Lists, NEW i \in DOMAIN twitch
    PROVE  RemoveAt(twitch, i) \in Lists
<1> DEFINE s == RemoveAt(twitch, i)
<1>1. twitch \in Seq(Names) /\ IsInjective(twitch)
  BY ListType
<1>2. /\ s \in Seq(Names) /\ Len(s) = Len(twitch) - 1
      /\ \A j \in 1 .. Len(s) : s[j] = IF j < i THEN twitch[j] ELSE twitch[j + 1]
  <2> DEFINE before == SubSeq(twitch, 1, i - 1)
             after == SubSeq(twitch, i + 1, Len(twitch))
  <2>1. i \in 1 .. Len(twitch)
    BY <1>1
  <2>2. /\ before \in Seq(Names) /\ Len(before) = i - 1
        /\ \A j \in 1 .. i - 1 : before[j] = twitch[j]
    BY <1>1, <2>1
  <2>3. /\ after \in Seq(Names) /\ Len(after) = Len(twitch) - i
        /\ \A j \in 1 .. Len(twitch) - i : after[j] = twitch[i + j]
    BY <1>1, <2>1
  <2>4. s = before \o after
    BY DEF RemoveAt
  <2> HIDE DEF s, before, after
  <2>5. /\ s \in Seq(Names) /\ Len(s) = Len(twitch) - 1
        /\ \A j \in 1 .. Len(s) : s[j] = IF j < i THEN before[j] ELSE after[j - i + 1]
    BY <1>1, <2>1, <2>2, <2>3, <2>4
  <2>6. ASSUME NEW j \in 1 .. Len(s) PROVE s[j] = IF j < i THEN twitch[j] ELSE twitch[j + 1]
    <3>1. CASE j < i
      <4>1. j \in 1 .. i - 1
        BY <1>1, <2>1, <2>5, <3>1
      <4>2. before[j] = twitch[j]
        BY <2>2, <4>1
      <4> QED
        BY <2>5, <3>1, <4>2
    <3>2. CASE j >= i
      <4>1. j - i + 1 \in 1 .. Len(twitch) - i
        BY <1>1, <2>1, <2>5, <3>2
      <4>2. i + (j - i + 1) = j + 1
        BY <1>1, <2>1, <2>5
      <4>3. after[j - i + 1] = twitch[j + 1]
        BY <2>3, <4>1, <4>2
      <4> QED
        BY <1>1, <2>1, <2>5, <3>2, <4>3
    <3> QED
      BY <1>1, <2>1, <2>5, <3>1, <3>2
  <2> QED
    BY <2>5, <2>6
<1>3. IsInjective(s)
  <2>1. SUFFICES ASSUME NEW a \in 1 .. Len(s), NEW b \in 1 .. Len(s), s[a] = s[b]
                 PROVE  a = b
    BY <1>2 DEF IsInjective
  <2> DEFINE At(j) == IF j < i THEN j ELSE j + 1
  <2>2. At(a) \in 1 .. Len(twitch) /\ At(b) \in 1 .. Len(twitch)
    BY <1>1, <1>2
  <2>3. twitch[At(a)] = twitch[At(b)]
    BY <1>2, <2>1
  <2>4. At(a) = At(b)
    BY <1>1, <2>2, <2>3 DEF IsInjective
  <2> QED
    BY <1>1, <1>2, <2>4
<1> QED
  BY <1>2, <1>3, ShortEnough

\* The pages: what the pages before o hold.
Fetched(o) == {twitch[i] : i \in {j \in 1 .. Len(twitch) : j <= o}}

LEMMA Pages ==
    ASSUME twitch \in Lists, NEW o \in Nat
    PROVE  /\ Len(Page(o)) \in 0 .. PageSize /\ (Len(Page(o)) = 0 => Len(twitch) <= o)
           /\ ToSet(Page(o)) \subseteq Names
           /\ Fetched(o) \cup ToSet(Page(o)) = Fetched(o + PageSize)
<1> DEFINE end == IF o + PageSize < Len(twitch) THEN o + PageSize ELSE Len(twitch)
<1>1. twitch \in Seq(Names) /\ PageSize \in Nat \ {0}
  BY ListType, SubAssumption
<1>2. Len(twitch) \in Nat /\ end \in 0 .. Len(twitch)
  BY <1>1
<1>3. Page(o) = SubSeq(twitch, o + 1, end)
  BY DEF Page
<1>4. /\ Len(Page(o)) = (IF o + 1 <= end THEN end - o ELSE 0) /\ Page(o) \in Seq(Names)
      /\ \A j \in 1 .. Len(Page(o)) : Page(o)[j] = twitch[o + j]
  BY <1>1, <1>2, <1>3
<1>5. ToSet(Page(o)) = {twitch[i] : i \in {j \in 1 .. Len(twitch) : o < j /\ j <= o + PageSize}}
  <2>1. ASSUME NEW x \in ToSet(Page(o))
        PROVE  x \in {twitch[i] : i \in {j \in 1 .. Len(twitch) : o < j /\ j <= o + PageSize}}
    <3>1. PICK j \in 1 .. Len(Page(o)) : x = Page(o)[j]
      BY <1>4, <2>1 DEF ToSet
    <3> QED
      BY <1>1, <1>2, <1>4, <3>1
  <2>2. ASSUME NEW i \in 1 .. Len(twitch), o < i, i <= o + PageSize
        PROVE  twitch[i] \in ToSet(Page(o))
    <3>1. i - o \in 1 .. Len(Page(o)) /\ o + (i - o) = i
      BY <1>1, <1>2, <1>4, <2>2
    <3>2. Page(o)[i - o] = twitch[i]
      BY <1>4, <3>1
    <3> QED
      BY <1>4, <3>1, <3>2 DEF ToSet
  <2> QED
    BY <2>1, <2>2
<1>6. \A j \in 1 .. Len(twitch) : j <= o + PageSize <=> j <= o \/ (o < j /\ j <= o + PageSize)
  BY <1>1
<1> QED
  BY <1>1, <1>2, <1>4, <1>5, <1>6 DEF Fetched

LEMMA FetchedAll ==
    ASSUME twitch \in Lists, NEW o \in Nat, Len(twitch) <= o
    PROVE  Fetched(o) = Subs
  BY ListType DEF Fetched, Subs, ToSet

LEMMA FetchedCount ==
    ASSUME twitch \in Lists, NEW o \in Nat, Cardinality(Fetched(o)) < o
    PROVE  Len(twitch) < o
<1>1. twitch \in Seq(Names) /\ IsInjective(twitch)
  BY ListType
<1>2. SUFFICES ASSUME o <= Len(twitch) PROVE FALSE
  BY <1>1
<1> DEFINE f == [i \in 1 .. o |-> twitch[i]]
<1>3. Fetched(o) = {twitch[i] : i \in 1 .. o}
  BY <1>1, <1>2 DEF Fetched
<1>4. f \in Bijection(1 .. o, Fetched(o))
  <2>1. f \in [1 .. o -> Fetched(o)] /\ \A x \in Fetched(o) : \E i \in 1 .. o : f[i] = x
    BY <1>3
  <2>2. \A a, b \in 1 .. o : f[a] = f[b] => a = b
    BY <1>1, <1>2 DEF IsInjective
  <2> QED
    BY <2>1, <2>2 DEF Bijection, Injection, Surjection, IsInjective
<1>5. Cardinality(Fetched(o)) = o
  BY <1>4, FS_CountingElements DEF ExistsBijection
<1> QED
  BY <1>5

-----------------------------------------------------------------------------
(* Types. *)

LEMMA TypeInit ==
    Init => TypeOK
<1> SUFFICES ASSUME Init PROVE TypeOK
  OBVIOUS
<1>1. 0 \in 0 .. MaxOffset - 1
  BY SubAssumption
<1>2. "main" \notin Callers /\ "timer" \notin Callers /\ "none" \notin Callers
  BY SubAssumption
<1> QED
  BY <1>1, <1>2 DEF Init, TypeOK, Refreshers

InRefresh == {"fetch", "subs", "nonsubs", "unlock", "terminated"}

\* A step of r under the lock.
LEMMA UnderTheLock ==
    ASSUME TypeOK, NEW r \in Refreshers, NEW x \in InRefresh, pc[r] \in InRefresh,
           pc' = [pc EXCEPT ![r] = x], mutex' = mutex
    PROVE  /\ pc' \in [Refreshers \cup Callers ->
                 {"idle", "lock", "fetch", "subs", "nonsubs", "unlock", "rearm",
                  "running", "ended", "terminated", "table", "add"}]
           /\ \A q \in Refreshers : pc'[q] \in InRefresh <=> mutex' = q
<1>1. pc \in [Refreshers \cup Callers ->
                 {"idle", "lock", "fetch", "subs", "nonsubs", "unlock", "rearm",
                  "running", "ended", "terminated", "table", "add"}]
  BY DEF TypeOK
<1>2. \A q \in Refreshers : pc'[q] = IF q = r THEN x ELSE pc[q]
  BY <1>1
<1>3. \A q \in Refreshers : pc[q] \in InRefresh <=> mutex = q
  BY DEF TypeOK, InRefresh
<1> QED
  BY <1>1, <1>2, <1>3 DEF InRefresh

LEMMA OutcomeType ==
    ASSUME TypeOK, Fails \/ Succeeds
    PROVE  failures' \in Nat /\ steady' \in BOOLEAN
<1>1. failures \in Nat
  BY DEF TypeOK
<1>2. steady \in BOOLEAN
  BY DEF TypeOK
<1>3. failures' = failures \/ failures' = failures + 1
  BY DEF Fails, Succeeds
<1>4. steady' = steady \/ steady' = FALSE
  BY DEF Fails, Succeeds
<1>5. failures' \in Nat
  BY <1>1, <1>3
<1>6. steady' \in BOOLEAN
  BY <1>2, <1>4
<1> QED
  BY <1>5, <1>6

LEMMA RefreshType ==
    ASSUME TypeOK, NEW r \in Refreshers, Refresh(r)
    PROVE  TypeOK'
<1> USE DEF GoTo
<1>0. r \in {"main", "timer"} /\ r \notin Callers /\ MaxOffset \in Nat \ {0} /\ PageSize \in Nat \ {0}
  BY SubAssumption DEF Refreshers
<1>1. CASE Lock(r)
  BY <1>0, <1>1 DEF Lock, TypeOK, Refreshers
<1>2. CASE Fetch(r)
  <2>1. offset[r] \in 0 .. MaxOffset - 1 /\ twitch \in Lists
    BY DEF TypeOK
  <2>2. PICK result \in 0 .. PageSize, part \in SUBSET ToSet(Page(offset[r])) :
          /\ subscribers' = subscribers \cup part
          /\ IF MorePages(r, result, subscribers')
             THEN offset' = [offset EXCEPT ![r] = @ + PageSize] /\ UNCHANGED pc
             ELSE GoTo(r, IF subscribers' = {} THEN "unlock" ELSE "subs") /\ UNCHANGED offset
    BY <1>2 DEF Fetch
  <2>3. subscribers' \subseteq Names
    BY <2>1, <2>2, Pages DEF TypeOK
  <2>4. Fails \/ Succeeds
    BY <1>2 DEF Fetch
  <2>5. offset' \in [Refreshers -> 0 .. MaxOffset - 1]
    <3>1. CASE MorePages(r, result, subscribers')
      <4>1. offset[r] + PageSize \in 0 .. MaxOffset - 1
        BY <1>0, <2>1, <3>1 DEF MorePages
      <4> QED
        BY <2>2, <3>1, <4>1 DEF TypeOK
    <3>2. CASE ~MorePages(r, result, subscribers')
      BY <2>2, <3>2 DEF TypeOK
    <3> QED
      BY <3>1, <3>2
  <2>6. pc[r] = "fetch" /\ (pc' = pc \/ pc' = [pc EXCEPT ![r] = "unlock"] \/ pc' = [pc EXCEPT ![r] = "subs"])
    BY <1>2, <2>2 DEF Fetch
  <2>7. UNCHANGED <<mutex, world, table, caller, clock, adds>>
    BY <1>2 DEF Fetch
  <2>8. failures' \in Nat /\ steady' \in BOOLEAN
    BY <2>4, OutcomeType
  <2>9. \E x \in InRefresh : pc' = [pc EXCEPT ![r] = x]
    BY <2>6 DEF TypeOK, InRefresh
  <2> QED
    BY <2>3, <2>5, <2>6, <2>7, <2>8, <2>9, UnderTheLock DEF TypeOK, InRefresh
<1>3. CASE FetchGarbage(r)
  <2>1. pc[r] = "fetch" /\ pc' = [pc EXCEPT ![r] = "terminated"] /\ mutex' = mutex
    BY <1>3 DEF FetchGarbage
  <2>2. failures' \in Nat /\ steady' \in BOOLEAN
    BY <1>3, OutcomeType DEF FetchGarbage
  <2>3. UNCHANGED <<subscribers, offset, world, table, caller, clock, adds>>
    BY <1>3 DEF FetchGarbage
  <2> QED
    BY <2>1, <2>2, <2>3, UnderTheLock DEF TypeOK, InRefresh
<1>4. CASE UpdateSubs(r)
  <2>1. pc[r] = "subs" /\ pc' = [pc EXCEPT ![r] = "nonsubs"] /\ mutex' = mutex
    BY <1>4 DEF UpdateSubs
  <2>2. failures' \in Nat /\ steady' \in BOOLEAN
    BY <1>4, OutcomeType DEF UpdateSubs
  <2>3. known' \subseteq Names /\ subscribed' \subseteq known'
    BY <1>4 DEF UpdateSubs, TypeOK
  <2>4. UNCHANGED <<subscribers, world, offset, caller, clock, adds>>
    BY <1>4 DEF UpdateSubs
  <2> QED
    BY <2>1, <2>2, <2>3, <2>4, UnderTheLock DEF TypeOK, InRefresh
<1>5. CASE UpdateNonSubs(r)
  <2>1. pc[r] = "nonsubs" /\ pc' = [pc EXCEPT ![r] = "unlock"] /\ mutex' = mutex
    BY <1>5 DEF UpdateNonSubs
  <2>2. failures' \in Nat /\ steady' \in BOOLEAN
    BY <1>5, OutcomeType DEF UpdateNonSubs
  <2>3. subscribed' \subseteq known
    BY <1>5 DEF UpdateNonSubs, TypeOK
  <2>4. UNCHANGED <<known, subscribers, world, offset, caller, clock, adds>>
    BY <1>5 DEF UpdateNonSubs
  <2> QED
    BY <2>1, <2>2, <2>3, <2>4, UnderTheLock DEF TypeOK, InRefresh
<1>6. CASE Unlock(r)
  <2>1. pc[r] = "unlock" /\ mutex = r /\ mutex' = "none"
    BY <1>6 DEF Unlock, TypeOK
  <2>2. \/ pc' = [pc EXCEPT ![r] = "running"]
        \/ pc' = [pc EXCEPT ![r] = "rearm"]
    BY <1>6 DEF Unlock
  <2>3. UNCHANGED <<subscribers, world, table, offset, caller, clock, steady, failures, adds>>
    BY <1>6 DEF Unlock
  <2> QED
    BY <1>0, <2>1, <2>2, <2>3 DEF TypeOK, Refreshers
<1> QED
  BY <1>1, <1>2, <1>3, <1>4, <1>5, <1>6 DEF Refresh

\* A step of anybody who is not in a refresh.
LEMMA WithoutTheLock ==
    ASSUME TypeOK, NEW p \in Refreshers \cup Callers,
           NEW x \in {"idle", "lock", "rearm", "running", "ended", "table", "add"},
           p \in Refreshers => pc[p] \notin InRefresh,
           pc' = [pc EXCEPT ![p] = x], mutex' = mutex
    PROVE  /\ pc' \in [Refreshers \cup Callers ->
                 {"idle", "lock", "fetch", "subs", "nonsubs", "unlock", "rearm",
                  "running", "ended", "terminated", "table", "add"}]
           /\ \A q \in Refreshers : pc'[q] \in InRefresh <=> mutex' = q
<1>1. pc \in [Refreshers \cup Callers ->
                 {"idle", "lock", "fetch", "subs", "nonsubs", "unlock", "rearm",
                  "running", "ended", "terminated", "table", "add"}]
  BY DEF TypeOK
<1>2. \A q \in Refreshers : pc'[q] = IF q = p THEN x ELSE pc[q]
  BY <1>1
<1>3. \A q \in Refreshers : pc[q] \in InRefresh <=> mutex = q
  BY DEF TypeOK, InRefresh
<1>4. x \notin InRefresh
  BY DEF InRefresh
<1> QED
  BY <1>1, <1>2, <1>3, <1>4 DEF InRefresh

LEMMA CallerType ==
    ASSUME TypeOK, NEW c \in Callers, Caller(c)
    PROVE  TypeOK'
<1> USE DEF GoTo
<1>0. c \notin Refreshers
  BY SubAssumption DEF Refreshers
<1>1. CASE IsSubInTable(c)
  <2>1. pc' = [pc EXCEPT ![c] = "idle"] /\ mutex' = mutex
    BY <1>1 DEF IsSubInTable
  <2>2. failures' \in Nat /\ steady' \in BOOLEAN
    BY <1>1, OutcomeType DEF IsSubInTable
  <2>3. answer' = [answer EXCEPT ![c] = "yes"] \/ answer' = [answer EXCEPT ![c] = "no"]
    BY <1>1 DEF IsSubInTable, Answer
  <2>4. UNCHANGED <<name, subscribers, world, table, offset, clock, adds>>
    BY <1>1 DEF IsSubInTable
  <2> QED
    BY <1>0, <2>1, <2>2, <2>3, <2>4, WithoutTheLock DEF TypeOK, InRefresh
<1>2. CASE AddSubToTable(c)
  <2>1. pc' = [pc EXCEPT ![c] = "idle"] /\ mutex' = mutex
    BY <1>2 DEF AddSubToTable
  <2>2. failures' \in Nat
    BY <1>2 DEF AddSubToTable, Fails, TypeOK
  <2>3. steady' \in BOOLEAN
    BY <1>2 DEF AddSubToTable, Fails
  <2>4. subscribed' \subseteq known
    BY <1>2 DEF AddSubToTable, TypeOK
  <2>5. UNCHANGED <<known, caller, subscribers, world, offset, clock, adds>>
    BY <1>2 DEF AddSubToTable
  <2> QED
    BY <1>0, <2>1, <2>2, <2>3, <2>4, <2>5, WithoutTheLock DEF TypeOK, InRefresh
<1>3. ASSUME NEW n \in Names, IsSub(c, n) PROVE TypeOK'
  <2>1. pc' = pc \/ pc' = [pc EXCEPT ![c] = "table"]
    BY <1>3 DEF IsSub
  <2>2. \/ answer' = [answer EXCEPT ![c] = "yes"]
        \/ answer' = [answer EXCEPT ![c] = "no"]
        \/ answer' = answer
    BY <1>3 DEF IsSub, Answer
  <2>3. name' = [name EXCEPT ![c] = n]
    BY <1>3 DEF IsSub
  <2>4. UNCHANGED <<subscribers, mutex, world, table, offset, clock, steady, failures, adds>>
    BY <1>3 DEF IsSub
  <2>5. pc' = [pc EXCEPT ![c] = pc[c]] \/ pc' = [pc EXCEPT ![c] = "table"]
    BY <2>1 DEF TypeOK
  <2>6. pc[c] = "idle"
    BY <1>3 DEF IsSub
  <2> QED
    BY <1>0, <2>2, <2>3, <2>4, <2>5, <2>6, WithoutTheLock DEF TypeOK, InRefresh
<1>4. ASSUME NEW n \in Names, AddSub(c, n) PROVE TypeOK'
  <2>1. pc' = [pc EXCEPT ![c] = "add"] /\ mutex' = mutex
    BY <1>4 DEF AddSub
  <2>2. name' = [name EXCEPT ![c] = n] /\ subscribers' = subscribers \cup {n}
    BY <1>4 DEF AddSub
  <2>3. adds' \in Nat
    BY <1>4 DEF AddSub, TypeOK
  <2>4. steady' \in BOOLEAN
    BY <1>4 DEF AddSub
  <2>5. UNCHANGED <<answer, world, table, offset, clock, failures>>
    BY <1>4 DEF AddSub
  <2> QED
    BY <1>0, <2>1, <2>2, <2>3, <2>4, <2>5, WithoutTheLock DEF TypeOK, InRefresh
<1> QED
  BY <1>1, <1>2, <1>3, <1>4 DEF Caller

\* The timer waits, or its handler is to be told that the wait was cancelled,
\* only while the handler is not running.
ClockInv == timer \in {"waiting", "cancelled"} => pc["timer"] = "idle"

LEMMA ClockType ==
    ASSUME TypeOK, ClockInv, Expire \/ Cleanup \/ Timer
    PROVE  TypeOK'
<1> USE DEF GoTo
<1>0. "main" \in Refreshers /\ "timer" \in Refreshers
  BY DEF Refreshers
<1>1. CASE Expire
  <2>0. pc["timer"] \notin InRefresh
    BY <1>1 DEF Expire, ClockInv, InRefresh
  <2>1. pc' = [pc EXCEPT !["timer"] = "lock"] /\ mutex' = mutex
    BY <1>1 DEF Expire
  <2>2. timer' = "expired" /\ refreshes' \in Nat
    BY <1>1 DEF Expire, TypeOK
  <2>3. UNCHANGED <<subscribers, world, table, offset, caller, deleted, steady, failures, adds>>
    BY <1>1 DEF Expire
  <2> QED
    BY <1>0, <2>0, <2>1, <2>2, <2>3, WithoutTheLock DEF TypeOK, InRefresh
<1>2. CASE Cleanup
  <2>1. pc["main"] = "running" /\ pc' = [pc EXCEPT !["main"] = "ended"] /\ mutex' = mutex
    BY <1>2 DEF Cleanup
  <2>2. deleted' = TRUE /\ (timer' = timer \/ timer' = "cancelled")
    BY <1>2 DEF Cleanup
  <2>3. UNCHANGED <<subscribers, world, table, offset, caller, refreshes, steady, failures, adds>>
    BY <1>2 DEF Cleanup
  <2> QED
    BY <1>0, <2>1, <2>2, <2>3, WithoutTheLock DEF TypeOK, InRefresh
<1>3. CASE Rearm
  <2>1. pc["timer"] = "rearm" /\ pc' = [pc EXCEPT !["timer"] = "idle"] /\ mutex' = mutex
    BY <1>3 DEF Rearm
  <2>2. timer' = timer \/ timer' = "waiting"
    BY <1>3 DEF Rearm
  <2>3. UNCHANGED <<subscribers, world, table, offset, caller, deleted, refreshes, steady, failures, adds>>
    BY <1>3 DEF Rearm
  <2> QED
    BY <1>0, <2>1, <2>2, <2>3, WithoutTheLock DEF TypeOK, InRefresh
<1>4. CASE Cancelled
  BY <1>4 DEF Cancelled, TypeOK
<1> QED
  BY <1>1, <1>2, <1>3, <1>4 DEF Timer

LEMMA TwitchType ==
    ASSUME TypeOK, NEW n \in Names, Subscribe(n) \/ Unsubscribe(n)
    PROVE  TypeOK'
<1>1. twitch \in Lists /\ changes \in Nat
  BY DEF TypeOK
<1>2. twitch' \in Lists
  <2>1. CASE Subscribe(n)
    BY <1>1, <2>1, Subscribed DEF Subscribe
  <2>2. CASE Unsubscribe(n)
    BY <1>1, <2>2, Unsubscribed DEF Unsubscribe
  <2> QED
    BY <2>1, <2>2
<1>3. changes' \in Nat
  BY <1>1 DEF Subscribe, Unsubscribe
<1>4. steady' \in BOOLEAN
  BY DEF Subscribe, Unsubscribe
<1>5. UNCHANGED <<subscribers, mutex, table, pc, offset, caller, clock, failures, adds>>
  BY DEF Subscribe, Unsubscribe
<1> QED
  BY <1>2, <1>3, <1>4, <1>5 DEF TypeOK

LEMMA ClockStep ==
    ASSUME TypeOK, ClockInv, [Next]_vars
    PROVE  ClockInv'
<1> USE DEF GoTo, ClockInv
<1>0. pc \in [Refreshers \cup Callers ->
                 {"idle", "lock", "fetch", "subs", "nonsubs", "unlock", "rearm",
                  "running", "ended", "terminated", "table", "add"}]
      /\ "timer" \in Refreshers /\ "timer" \notin Callers
  BY SubAssumption DEF TypeOK, Refreshers
<1>1. ASSUME NEW r \in Refreshers, Refresh(r) PROVE ClockInv'
  <2>1. pc[r] # "idle" /\ timer' = timer
    BY <1>1 DEF Refresh, Lock, Fetch, FetchGarbage, UpdateSubs, UpdateNonSubs, Unlock
  <2>2. r # "timer" => pc'["timer"] = pc["timer"]
    BY <1>0, <1>1 DEF Refresh, Lock, Fetch, FetchGarbage, UpdateSubs, UpdateNonSubs, Unlock
  <2> QED
    BY <2>1, <2>2
<1>2. CASE Timer
  BY <1>0, <1>2 DEF Timer, Rearm, Cancelled
<1>3. CASE Expire
  BY <1>3 DEF Expire
<1>4. CASE Cleanup
  BY <1>0, <1>4 DEF Cleanup
<1>5. ASSUME NEW c \in Callers, Caller(c) PROVE ClockInv'
  BY <1>0, <1>5 DEF Caller, IsSubInTable, AddSubToTable, IsSub, AddSub
<1>6. ASSUME NEW n \in Names, Subscribe(n) \/ Unsubscribe(n) PROVE ClockInv'
  BY <1>6 DEF Subscribe, Unsubscribe
<1>7. CASE UNCHANGED vars
  BY <1>7 DEF vars
<1> QED
  BY <1>1, <1>2, <1>3, <1>4, <1>5, <1>6, <1>7 DEF Next

LEMMA TypeStep ==
    ASSUME TypeOK, ClockInv, [Next]_vars
    PROVE  TypeOK'
<1>1. CASE UNCHANGED vars
  BY <1>1 DEF vars, TypeOK
<1> QED
  BY <1>1, RefreshType, CallerType, ClockType, TwitchType DEF Next

\* Every variable keeps its type, whoever is in the middle of a refresh holds
\* the lock (get_subs), and a timer that waits has no handler under way.
THEOREM TypeCorrect == Spec => [](TypeOK /\ ClockInv)
<1>1. Init => TypeOK /\ ClockInv
  BY TypeInit DEF Init, ClockInv, Refreshers
<1>2. TypeOK /\ ClockInv /\ [Next]_vars => (TypeOK /\ ClockInv)'
  BY TypeStep, ClockStep
<1> QED
  BY <1>1, <1>2, PTL DEF Spec

-----------------------------------------------------------------------------
(* What a refresh has done so far. *)

\* A refresh in which nothing failed or changed has the pages before its offset
\* in the list, then everybody; it has set the flags of these, then taken those
\* of everybody else.  What it leaves in the list stays true while the list at
\* Twitch does not change.
RefreshInv ==
    steady /\ InReach =>
        /\ \A r \in Refreshers :
              /\ pc[r] = "fetch" => subscribers = Fetched(offset[r])
              /\ pc[r] \in {"subs", "nonsubs", "unlock"} => subscribers = Subs
              /\ pc[r] = "nonsubs" => Subs \subseteq subscribed
              /\ pc[r] = "unlock" => subscribed = Subs
        /\ mutex = "none" /\ subscribers # {} => subscribers = Subs

IInv == TypeOK /\ ClockInv /\ RefreshInv

\* Only the one who holds the lock is in a refresh.
LEMMA OneRefresh ==
    ASSUME TypeOK, NEW r \in Refreshers, NEW q \in Refreshers, pc[r] \in InRefresh, pc[q] \in InRefresh
    PROVE  q = r /\ mutex = r /\ mutex # "none"
  BY DEF TypeOK, InRefresh, Refreshers

\* get_subs stops only when it has everybody.
LEMMA LastPage ==
    ASSUME TypeOK, InReach, NEW r \in Refreshers, NEW result \in Nat,
           result = Len(Page(offset[r])),
           ~MorePages(r, result, Fetched(offset[r] + PageSize))
    PROVE  Fetched(offset[r] + PageSize) = Subs
<1> DEFINE o == offset[r] + PageSize
<1>1. /\ twitch \in Lists /\ offset[r] \in Nat /\ o \in Nat /\ Len(twitch) \in Nat
      /\ PageSize \in Nat \ {0} /\ MaxOffset \in Nat
  BY SubAssumption, ListType DEF TypeOK
<1>2. CASE result = 0
  <2>1. Len(twitch) <= offset[r]
    BY <1>1, <1>2, Pages
  <2> QED
    BY <1>1, <2>1, FetchedAll
<1>3. CASE o >= MaxOffset
  BY <1>1, <1>3, FetchedAll DEF InReach
<1>4. CASE ~(Cardinality(Fetched(o)) >= PageSize)
  <2>1. IsFiniteSet(Fetched(o))
    <3>1. Fetched(o) \subseteq Names
      BY <1>1, ListType DEF Fetched
    <3> QED
      BY <3>1, SubAssumption, FS_Subset
  <2>2. Cardinality(Fetched(o)) < o
    BY <1>1, <1>4, <2>1, FS_CardinalityType
  <2> QED
    BY <1>1, <2>2, FetchedCount, FetchedAll
<1> QED
  BY <1>1, <1>2, <1>3, <1>4 DEF MorePages

LEMMA FetchStep ==
    ASSUME TypeOK, RefreshInv, NEW r \in Refreshers, Fetch(r)
    PROVE  RefreshInv'
<1> USE DEF GoTo
<1>1. SUFFICES ASSUME steady', InReach' PROVE RefreshInv'
  BY DEF RefreshInv
<1>2. pc[r] = "fetch" /\ mutex = r /\ mutex' = r /\ UNCHANGED <<twitch, table>> /\ r # "none"
  BY DEF Fetch, TypeOK, Refreshers
<1>3. steady /\ InReach
  <2>1. InReach
    BY <1>1, <1>2 DEF InReach
  <2> QED
    BY <1>1, <2>1 DEF Fetch, Succeeds, Fails
<1>4. offset[r] \in Nat /\ PageSize \in Nat \ {0} /\ twitch \in Lists
  BY SubAssumption DEF TypeOK
<1>5. subscribers = Fetched(offset[r])
  BY <1>2, <1>3 DEF RefreshInv
<1>6. PICK result \in 0 .. PageSize, part \in SUBSET ToSet(Page(offset[r])) :
          /\ part = ToSet(Page(offset[r]))
          /\ result = IF twitch = <<>> THEN 1 ELSE Len(Page(offset[r]))
          /\ subscribers' = subscribers \cup part
          /\ IF MorePages(r, result, subscribers')
             THEN offset' = [offset EXCEPT ![r] = @ + PageSize] /\ UNCHANGED pc
             ELSE GoTo(r, IF subscribers' = {} THEN "unlock" ELSE "subs") /\ UNCHANGED offset
  BY <1>1 DEF Fetch, Fails
<1>7. result = Len(Page(offset[r])) /\ result \in Nat
  BY <1>3, <1>4, <1>6 DEF InReach
<1>8. subscribers' = Fetched(offset[r] + PageSize)
  BY <1>4, <1>5, <1>6, Pages
<1>9. \A q \in Refreshers : q # r => pc[q] \notin InRefresh /\ pc'[q] = pc[q]
  BY <1>2, <1>6, OneRefresh DEF InRefresh, TypeOK
<1>10. CASE MorePages(r, result, subscribers')
  <2>1. pc'[r] = "fetch" /\ offset'[r] = offset[r] + PageSize
    BY <1>2, <1>6, <1>10 DEF TypeOK
  <2>2. subscribers' = Fetched(offset[r])'
    BY <1>2, <1>8, <2>1 DEF Fetched
  <2> QED
    BY <1>2, <1>9, <2>1, <2>2 DEF RefreshInv, InRefresh
<1>11. CASE ~MorePages(r, result, subscribers')
  <2>1. subscribers' = Subs
    BY <1>3, <1>7, <1>8, <1>11, LastPage
  <2>2. Subs # {} /\ Subs' = Subs
    <3>1. twitch \in Seq(Names) /\ twitch # <<>>
      BY <1>3, <1>4, ListType DEF InReach
    <3>2. 1 \in DOMAIN twitch
      BY <3>1
    <3> QED
      BY <1>2, <3>2 DEF Subs, ToSet
  <2>3. pc'[r] = "subs"
    BY <1>6, <1>11, <2>1, <2>2 DEF TypeOK
  <2> QED
    BY <1>2, <1>9, <2>1, <2>2, <2>3 DEF RefreshInv, InRefresh
<1> QED
  BY <1>10, <1>11

\* A step of r in the refresh that leaves the list and its offset alone.
LEMMA WritesStep ==
    ASSUME TypeOK, RefreshInv, NEW r \in Refreshers,
           UpdateSubs(r) \/ UpdateNonSubs(r) \/ Unlock(r)
    PROVE  RefreshInv'
<1> USE DEF GoTo
<1>1. SUFFICES ASSUME steady', InReach' PROVE RefreshInv'
  BY DEF RefreshInv
<1>2. UNCHANGED <<twitch, subscribers, offset>> /\ mutex = r /\ pc[r] \in InRefresh
  BY DEF UpdateSubs, UpdateNonSubs, Unlock, TypeOK, InRefresh
<1>3. steady /\ InReach /\ Subs' = Subs
  <2>1. InReach /\ Subs' = Subs
    BY <1>1, <1>2 DEF InReach, Subs
  <2> QED
    BY <1>1, <2>1 DEF UpdateSubs, UpdateNonSubs, Unlock, Succeeds, Fails
<1>4. \A q \in Refreshers : q # r => pc[q] \notin InRefresh /\ pc'[q] = pc[q]
  BY <1>2, OneRefresh DEF UpdateSubs, UpdateNonSubs, Unlock, TypeOK
<1>5. CASE UpdateSubs(r)
  <2>1. pc[r] = "subs" /\ pc'[r] = "nonsubs" /\ mutex' = r /\ r # "none"
    BY <1>2, <1>5 DEF UpdateSubs, TypeOK, Refreshers
  <2>2. subscribers = Subs
    BY <1>3, <2>1 DEF RefreshInv
  <2>3. subscribed' = subscribed \cup Subs
    BY <1>1, <1>5, <2>2 DEF UpdateSubs, Fails
  <2> QED
    BY <1>2, <1>3, <1>4, <2>1, <2>2, <2>3 DEF RefreshInv, InRefresh
<1>6. CASE UpdateNonSubs(r)
  <2>1. pc[r] = "nonsubs" /\ pc'[r] = "unlock" /\ mutex' = r /\ r # "none"
    BY <1>2, <1>6 DEF UpdateNonSubs, TypeOK, Refreshers
  <2>2. subscribers = Subs /\ Subs \subseteq subscribed
    BY <1>3, <2>1 DEF RefreshInv
  <2>3. subscribed' = Subs
    BY <1>1, <1>6, <2>2 DEF UpdateNonSubs, Fails
  <2> QED
    BY <1>2, <1>3, <1>4, <2>1, <2>2, <2>3 DEF RefreshInv, InRefresh
<1>7. CASE Unlock(r)
  <2>1. pc[r] = "unlock" /\ pc'[r] \in {"running", "rearm"}
    BY <1>7 DEF Unlock, TypeOK
  <2>2. subscribers = Subs
    BY <1>3, <2>1 DEF RefreshInv
  <2> QED
    BY <1>2, <1>3, <1>4, <2>1, <2>2 DEF RefreshInv, InRefresh
<1> QED
  BY <1>5, <1>6, <1>7

LEMMA RefreshStep ==
    ASSUME IInv, [Next]_vars
    PROVE  RefreshInv'
<1> USE DEF GoTo, IInv
<1>1. ASSUME NEW r \in Refreshers, Lock(r) PROVE RefreshInv'
  <2>1. /\ \A q \in Refreshers : pc[q] \notin InRefresh
        /\ \A q \in Refreshers : pc'[q] = IF q = r THEN "fetch" ELSE pc[q]
        /\ mutex' = r /\ r # "none" /\ subscribers' = {} /\ offset'[r] = 0
    BY <1>1 DEF Lock, TypeOK, InRefresh, Refreshers
  <2>2. Fetched(offset[r])' = {}
    BY <2>1 DEF Fetched
  <2> QED
    BY <2>1, <2>2 DEF RefreshInv, InRefresh
<1>2. ASSUME NEW r \in Refreshers, FetchGarbage(r) PROVE RefreshInv'
  BY <1>2 DEF FetchGarbage, Fails, RefreshInv
<1>3. ASSUME UNCHANGED <<twitch, subscribers, mutex, subscribed, offset, steady>>,
             \A q \in Refreshers : pc'[q] = pc[q] \/ pc'[q] \in {"idle", "lock", "ended"}
      PROVE  RefreshInv'
  <2>1. InReach' = InReach /\ Subs' = Subs /\ \A q \in Refreshers : Fetched(offset[q])' = Fetched(offset[q])
    BY <1>3 DEF InReach, Subs, Fetched
  <2> QED
    BY <1>3, <2>1 DEF RefreshInv
<1>4. CASE Timer \/ Expire \/ Cleanup
  BY <1>3, <1>4 DEF Timer, Rearm, Cancelled, Expire, Cleanup, TypeOK
<1>5. ASSUME NEW c \in Callers, Caller(c) PROVE RefreshInv'
  <2>1. \A q \in Refreshers : pc'[q] = pc[q]
    <3>1. pc' = pc \/ \E x : pc' = [pc EXCEPT ![c] = x]
      BY <1>5 DEF Caller, IsSubInTable, AddSubToTable, IsSub, AddSub
    <3>2. c \notin Refreshers
      BY SubAssumption DEF Refreshers
    <3> QED
      BY <3>1, <3>2 DEF TypeOK
  <2>2. CASE steady' = FALSE
    BY <2>2 DEF RefreshInv
  <2>3. CASE UNCHANGED <<twitch, subscribers, mutex, subscribed, offset, steady>>
    BY <1>3, <2>1, <2>3
  <2> QED
    BY <1>5, <2>2, <2>3
       DEF Caller, IsSubInTable, AddSubToTable, IsSub, AddSub, Fails, Succeeds
<1>6. ASSUME NEW n \in Names, Subscribe(n) \/ Unsubscribe(n) PROVE RefreshInv'
  BY <1>6 DEF Subscribe, Unsubscribe, RefreshInv
<1>7. CASE UNCHANGED vars
  BY <1>3, <1>7 DEF vars
<1> QED
  BY <1>1, <1>2, <1>4, <1>5, <1>6, <1>7, FetchStep, WritesStep DEF Next, Refresh

LEMMA RefreshInductive == Spec => []IInv
<1>1. Init => RefreshInv
  BY DEF Init, RefreshInv
<1>2. IInv /\ [Next]_vars => RefreshInv'
  BY RefreshStep
<1> QED
  BY <1>1, <1>2, TypeCorrect, PTL DEF Spec, IInv

-----------------------------------------------------------------------------
(* The theorems. *)

\* A refresh (get_subs) in which nothing failed and nothing changed leaves
\* exactly the subscribers in the list and in the table, for every number of
\* subscribers, pages and threads.
THEOREM RefreshLeavesSubscribers == Spec => []RefreshIsExact
<1>1. IInv => RefreshIsExact
  BY DEF IInv, RefreshInv, RefreshIsExact
<1> QED
  BY <1>1, RefreshInductive, PTL

\* No step takes the flag of somebody who is and stays a subscriber:
\* update_subs and update_nonsubs may be observed between their statements.
THEOREM FlagsStay == Spec => StandingSubKept
<1> DEFINE Kept == \A n \in Subs \cap subscribed : steady /\ steady' /\ InReach => n \in subscribed'
<1>1. ASSUME IInv, [Next]_vars PROVE [Kept]_vars
  <2>1. SUFFICES ASSUME steady, steady', InReach, NEW n \in Subs \cap subscribed
                 PROVE  n \in subscribed'
    OBVIOUS
  <2>2. ASSUME NEW r \in Refreshers, UpdateNonSubs(r) PROVE n \in subscribed'
    <3>1. subscribers = Subs
      BY <1>1, <2>1, <2>2 DEF UpdateNonSubs, IInv, RefreshInv
    <3> QED
      BY <2>1, <2>2, <3>1 DEF UpdateNonSubs, Fails
  <2>3. ASSUME NEW r \in Refreshers, Refresh(r), ~UpdateNonSubs(r) PROVE n \in subscribed'
    BY <2>1, <2>3 DEF Refresh, Lock, Fetch, FetchGarbage, UpdateSubs, Unlock
  <2>4. ASSUME NEW c \in Callers, Caller(c) PROVE n \in subscribed'
    BY <2>1, <2>4 DEF Caller, IsSubInTable, AddSubToTable, IsSub, AddSub
  <2>5. CASE Timer \/ Expire \/ Cleanup
    BY <2>1, <2>5 DEF Timer, Rearm, Cancelled, Expire, Cleanup
  <2>6. ASSUME NEW m \in Names, Subscribe(m) \/ Unsubscribe(m) PROVE n \in subscribed'
    BY <2>1, <2>6 DEF Subscribe, Unsubscribe
  <2>7. CASE UNCHANGED vars
    BY <2>1, <2>7 DEF vars
  <2> QED
    BY <1>1, <2>2, <2>3, <2>4, <2>5, <2>6, <2>7 DEF Next
<1>2. IInv /\ [Next]_vars => [Kept]_vars
  BY <1>1
<1> QED
  BY <1>2, RefreshInductive, PTL DEF Spec, StandingSubKept

\* is_sub never answers from a list that get_subs is filling: while the list at
\* Twitch stands, its answer is the truth.
THEOREM AnswersRight == Spec => ListAnswersRight
<1> DEFINE Right == \A c \in Callers, n \in Names :
          IsSub(c, n) /\ steady /\ InReach /\ subscribers # {} =>
             (answer'[c] = "yes" <=> n \in Subs)
<1>1. ASSUME IInv PROVE Right
  <2>1. SUFFICES ASSUME NEW c \in Callers, NEW n \in Names, IsSub(c, n),
                        steady, InReach, subscribers # {}
                 PROVE  answer'[c] = "yes" <=> n \in Subs
    OBVIOUS
  <2>2. subscribers = Subs
    BY <1>1, <2>1 DEF IsSub, IInv, RefreshInv
  <2>3. answer' = [answer EXCEPT ![c] = IF n \in subscribers THEN "yes" ELSE "no"]
    BY <2>1 DEF IsSub, Answer
  <2>4. answer \in [Callers -> {"none", "yes", "no"}]
    BY <1>1 DEF IInv, TypeOK
  <2> QED
    BY <2>2, <2>3, <2>4
<1>2. IInv /\ [Next]_vars => [Right]_vars
  BY <1>1
<1> QED
  BY <1>2, RefreshInductive, PTL DEF Spec, ListAnswersRight

\* After cleanup the handler of the timer, which deleting the timer runs, begins
\* no refresh, wherever it was when the timer was deleted.
THEOREM CleanupIsFinal == Spec => NoRefreshAfterCleanup
<1> DEFINE Quiet == deleted /\ pc["timer"] = "idle" => pc'["timer"] = "idle"
<1>1. ASSUME IInv, [Next]_vars PROVE [Quiet]_vars
  <2>1. SUFFICES ASSUME deleted, pc["timer"] = "idle" PROVE pc'["timer"] = "idle"
    OBVIOUS
  <2>2. pc \in [Refreshers \cup Callers ->
                 {"idle", "lock", "fetch", "subs", "nonsubs", "unlock", "rearm",
                  "running", "ended", "terminated", "table", "add"}]
        /\ "timer" \in Refreshers /\ "timer" \notin Callers
    BY <1>1, SubAssumption DEF IInv, TypeOK, Refreshers
  <2>3. ASSUME NEW r \in Refreshers, Refresh(r) PROVE pc'["timer"] = "idle"
    <3>1. pc[r] # "idle"
      BY <2>3 DEF Refresh, Lock, Fetch, FetchGarbage, UpdateSubs, UpdateNonSubs, Unlock
    <3> QED
      BY <2>1, <2>2, <2>3, <3>1
         DEF Refresh, Lock, Fetch, FetchGarbage, UpdateSubs, UpdateNonSubs, Unlock, GoTo
  <2>4. CASE Timer \/ Expire \/ Cleanup
    BY <2>1, <2>2, <2>4 DEF Timer, Rearm, Cancelled, Expire, Cleanup, GoTo
  <2>5. ASSUME NEW c \in Callers, Caller(c) PROVE pc'["timer"] = "idle"
    BY <2>1, <2>2, <2>5 DEF Caller, IsSubInTable, AddSubToTable, IsSub, AddSub, GoTo
  <2>6. ASSUME NEW n \in Names, Subscribe(n) \/ Unsubscribe(n) PROVE pc'["timer"] = "idle"
    BY <2>1, <2>6 DEF Subscribe, Unsubscribe
  <2>7. CASE UNCHANGED vars
    BY <2>1, <2>7 DEF vars
  <2> QED
    BY <1>1, <2>3, <2>4, <2>5, <2>6, <2>7 DEF Next
<1>2. IInv /\ [Next]_vars => [Quiet]_vars
  BY <1>1
<1> QED
  BY <1>2, RefreshInductive, PTL DEF Spec, NoRefreshAfterCleanup
=============================================================================
