----------------------- MODULE MessagePipelineProofs -----------------------
(***************************************************************************)
(* Proofs about MessagePipeline for every number of blocks, users, threads *)
(* of the pool and lines.                                                  *)
(***************************************************************************)
EXTENDS MessagePipelineProps, FiniteSetTheorems, TLAPS

USE DEF messages, users, blocks, threads, queues, Threads

-----------------------------------------------------------------------------
(* The invariant. *)

\* Where each thread may be, and what it holds there.
Positions ==
    /\ pc["reader"] \in {"idle", "parse", "aborted", "dispatch", "drop", "reset", "enqueue"}
    /\ \A t \in Workers :
          pc[t] \in {"idle", "command", "execute", "finish", "drop", "reset", "enqueue"}
    /\ pc["songs"] \in {"idle", "finish"} /\ slot["songs"] = Null
    /\ \A t \in Workers \cup {"reader"} : slot[t] = Null <=> pc[t] = "idle"
    /\ \A t \in Threads : cmdUser[t] = Null <=> pc[t] \notin {"execute", "finish"}

\* The line being read is later than every other; a line is either posted, or
\* with one worker that makes its command, or requested, once.
LinesApart ==
    /\ \A p \in posted : p.line <= lines
    /\ \A i \in items : i.line <= lines
    /\ \A t \in Threads : line[t] <= lines
    /\ pc["reader"] \in {"parse", "dispatch"} =>
          /\ line["reader"] = lines
          /\ \A p \in posted : p.line < lines
          /\ \A i \in items : i.line < lines
          /\ \A t \in Workers : line[t] < lines
    /\ \A p, q \in posted : p.line = q.line => p = q
    /\ \A i, j \in items : i.line = j.line => i = j
    /\ \A p \in posted : \A i \in items : p.line # i.line
    /\ \A t \in Workers : pc[t] \in {"command", "execute"} =>
          /\ \A p \in posted : p.line # line[t]
          /\ \A i \in items : i.line # line[t]
          /\ \A o \in Workers \ {t} :
                pc[o] \in {"command", "execute"} => line[o] # line[t]

\* The reader shares a block with nobody until it has posted it.
ReaderAlone ==
    pc["reader"] \in {"parse", "aborted"} =>
        /\ \A p \in posted : p.slot # slot["reader"]
        /\ \A t \in Workers : slot[t] # slot["reader"]

\* A block comes out of the cache without the user and the tags of the line it
\* held before.
Clean(s) == user[s] = Null /\ tag[s] = 0

BlocksClean ==
    /\ \A s \in free \cup fresh : Clean(s)
    /\ \A t \in Threads : pc[t] = "enqueue" => Clean(slot[t])
    /\ pc["reader"] = "parse" => Clean(slot["reader"])

\* The line the reader has parsed is in its block.
Parsed ==
    /\ pc["reader"] = "parse" => raw \in Kinds(line["reader"])
    /\ pc["reader"] = "dispatch" /\ type[slot["reader"]] \in ForPool =>
          /\ text[slot["reader"]] = line["reader"]
          /\ user[slot["reader"]] # Null
          /\ owner[user[slot["reader"]]].name = line["reader"]

IInv ==
    /\ TypeOK /\ IsFiniteSet(posted) /\ IsFiniteSet(items)
    /\ Positions
    /\ MessagesCounted /\ UsersCounted
    /\ LinesApart
    /\ ReaderAlone /\ BlocksClean
    /\ Parsed /\ MessageKept /\ AuthorsKept

-----------------------------------------------------------------------------
(* Steps, and what they count. *)

LEMMA NextCases ==
    ASSUME Next
    PROVE  Running /\ ( \/ GetLine \/ ParseLine \/ Dispatch \/ Serve
                        \/ \E t \in Workers : Take(t) \/ MakeCommand(t) \/ Execute(t)
                        \/ \E t \in Threads : Thread(t))
BY DEF Next, Read, Reader, Worker, Songs

\* A step is one thread's.
MovesOnly(t) ==
    \A o \in Threads \ {t} :
        /\ pc'[o] = pc[o] /\ slot'[o] = slot[o]
        /\ cmdUser'[o] = cmdUser[o] /\ line'[o] = line[o]

LEMMA ThreadsFinite == IsFiniteSet(Threads) /\ "reader" \in Threads /\ "songs" \in Threads
<1>1. IsFiniteSet(Workers \cup {"reader"})
  BY PipelineAssumption, FS_AddElement
<1>2. IsFiniteSet((Workers \cup {"reader"}) \cup {"songs"})
  BY <1>1, FS_AddElement
<1> QED
  BY <1>2

Count(P) == IF P THEN 1 ELSE 0

\* A set that changes at one element changes its size by what that element did.
LEMMA OneChange ==
    ASSUME NEW S, NEW T, NEW x, IsFiniteSet(S),
           \A y : y # x => (y \in S <=> y \in T)
    PROVE  /\ IsFiniteSet(T) /\ Cardinality(S) \in Nat /\ Cardinality(T) \in Nat
           /\ Cardinality(T) + Count(x \in S) = Cardinality(S) + Count(x \in T)
<1> DEFINE R == S \ {x}
<1>1. IsFiniteSet(R) /\ Cardinality(R) \in Nat
  BY FS_RemoveElement, FS_CardinalityType
<1>2. IsFiniteSet(R \cup {x}) /\ Cardinality(R \cup {x}) = Cardinality(R) + 1
  BY <1>1, FS_AddElement
<1>3. S = (IF x \in S THEN R \cup {x} ELSE R) /\ T = (IF x \in T THEN R \cup {x} ELSE R)
  OBVIOUS
<1> HIDE DEF R
<1>4. /\ Cardinality(S) = Cardinality(R) + Count(x \in S)
      /\ Cardinality(T) = Cardinality(R) + Count(x \in T)
  <2>1. /\ Cardinality(IF x \in S THEN R \cup {x} ELSE R) = Cardinality(R) + Count(x \in S)
        /\ Cardinality(IF x \in T THEN R \cup {x} ELSE R) = Cardinality(R) + Count(x \in T)
    BY <1>1, <1>2 DEF Count
  <2> QED
    BY <1>3, <2>1
<1>5. IsFiniteSet(T)
  BY <1>1, <1>2, <1>3
<1>6. Count(x \in S) \in Nat /\ Count(x \in T) \in Nat
  BY DEF Count
<1> QED
  BY <1>1, <1>4, <1>5, <1>6

Holders(s)    == {t \in Threads : HoldsMessage(t, s)}
Recyclers(s)  == {t \in Threads : Recycles(t, s)}
PostedWith(s) == {p \in posted : p.slot = s}
InMessages(u) == {s \in Slots : user[s] = u}
InThreads(u)  == {t \in Threads : cmdUser[t] = u}
InItems(u)    == {i \in items : i.user = u}

LEMMA ThreadCounts ==
    ASSUME NEW t \in Threads, MovesOnly(t)
    PROVE  /\ \A s \in Slots :
                 /\ Cardinality(Holders(s)) \in Nat /\ Cardinality(Holders(s)') \in Nat
                 /\ Cardinality(Holders(s)') + Count(HoldsMessage(t, s))
                      = Cardinality(Holders(s)) + Count(HoldsMessage(t, s)')
                 /\ Cardinality(Recyclers(s)) \in Nat /\ Cardinality(Recyclers(s)') \in Nat
                 /\ Cardinality(Recyclers(s)') + Count(Recycles(t, s))
                      = Cardinality(Recyclers(s)) + Count(Recycles(t, s)')
           /\ \A u \in Users :
                 /\ Cardinality(InThreads(u)) \in Nat /\ Cardinality(InThreads(u)') \in Nat
                 /\ Cardinality(InThreads(u)') + Count(cmdUser[t] = u)
                      = Cardinality(InThreads(u)) + Count(cmdUser'[t] = u)
<1>1. ASSUME NEW s \in Slots
      PROVE  /\ Cardinality(Holders(s)) \in Nat /\ Cardinality(Holders(s)') \in Nat
             /\ Cardinality(Holders(s)') + Count(HoldsMessage(t, s))
                  = Cardinality(Holders(s)) + Count(HoldsMessage(t, s)')
  <2>1. IsFiniteSet(Holders(s))
    BY ThreadsFinite, FS_Subset DEF Holders
  <2>2. \A y : y # t => (y \in Holders(s) <=> y \in Holders(s)')
    BY DEF Holders, HoldsMessage, MovesOnly
  <2>3. /\ t \in Holders(s) <=> HoldsMessage(t, s)
        /\ t \in Holders(s)' <=> HoldsMessage(t, s)'
    BY DEF Holders, HoldsMessage
  <2> QED
    BY <2>1, <2>2, <2>3, OneChange DEF Count
<1>2. ASSUME NEW s \in Slots
      PROVE  /\ Cardinality(Recyclers(s)) \in Nat /\ Cardinality(Recyclers(s)') \in Nat
             /\ Cardinality(Recyclers(s)') + Count(Recycles(t, s))
                  = Cardinality(Recyclers(s)) + Count(Recycles(t, s)')
  <2>1. IsFiniteSet(Recyclers(s))
    BY ThreadsFinite, FS_Subset DEF Recyclers
  <2>2. \A y : y # t => (y \in Recyclers(s) <=> y \in Recyclers(s)')
    BY DEF Recyclers, Recycles, MovesOnly
  <2>3. /\ t \in Recyclers(s) <=> Recycles(t, s)
        /\ t \in Recyclers(s)' <=> Recycles(t, s)'
    BY DEF Recyclers, Recycles
  <2> QED
    BY <2>1, <2>2, <2>3, OneChange DEF Count
<1>3. ASSUME NEW u \in Users
      PROVE  /\ Cardinality(InThreads(u)) \in Nat /\ Cardinality(InThreads(u)') \in Nat
             /\ Cardinality(InThreads(u)') + Count(cmdUser[t] = u)
                  = Cardinality(InThreads(u)) + Count(cmdUser'[t] = u)
  <2>1. IsFiniteSet(InThreads(u))
    BY ThreadsFinite, FS_Subset DEF InThreads
  <2>2. \A y : y # t => (y \in InThreads(u) <=> y \in InThreads(u)')
    BY DEF InThreads, MovesOnly
  <2>3. /\ t \in InThreads(u) <=> cmdUser[t] = u
        /\ t \in InThreads(u)' <=> cmdUser'[t] = u
    BY DEF InThreads
  <2> QED
    BY <2>1, <2>2, <2>3, OneChange DEF Count
<1> QED
  BY <1>1, <1>2, <1>3

LEMMA PostedCounts ==
    ASSUME NEW p, IsFiniteSet(posted), posted' \ {p} = posted \ {p}
    PROVE  \A s \in Slots :
              /\ Cardinality(PostedWith(s)) \in Nat /\ Cardinality(PostedWith(s)') \in Nat
              /\ Cardinality(PostedWith(s)') + Count(p \in posted /\ p.slot = s)
                   = Cardinality(PostedWith(s)) + Count(p \in posted' /\ p.slot = s)
<1> SUFFICES ASSUME NEW s \in Slots
             PROVE  /\ Cardinality(PostedWith(s)) \in Nat /\ Cardinality(PostedWith(s)') \in Nat
                    /\ Cardinality(PostedWith(s)') + Count(p \in posted /\ p.slot = s)
                         = Cardinality(PostedWith(s)) + Count(p \in posted' /\ p.slot = s)
  OBVIOUS
<1>1. IsFiniteSet(PostedWith(s))
  BY FS_Subset DEF PostedWith
<1>2. \A y : y # p => (y \in PostedWith(s) <=> y \in PostedWith(s)')
  BY DEF PostedWith
<1>3. /\ p \in PostedWith(s) <=> p \in posted /\ p.slot = s
      /\ p \in PostedWith(s)' <=> p \in posted' /\ p.slot = s
  BY DEF PostedWith
<1> QED
  BY <1>1, <1>2, <1>3, OneChange DEF Count

LEMMA ItemsCounts ==
    ASSUME NEW i, IsFiniteSet(items), items' \ {i} = items \ {i}
    PROVE  \A u \in Users :
              /\ Cardinality(InItems(u)) \in Nat /\ Cardinality(InItems(u)') \in Nat
              /\ Cardinality(InItems(u)') + Count(i \in items /\ i.user = u)
                   = Cardinality(InItems(u)) + Count(i \in items' /\ i.user = u)
<1> SUFFICES ASSUME NEW u \in Users
             PROVE  /\ Cardinality(InItems(u)) \in Nat /\ Cardinality(InItems(u)') \in Nat
                    /\ Cardinality(InItems(u)') + Count(i \in items /\ i.user = u)
                         = Cardinality(InItems(u)) + Count(i \in items' /\ i.user = u)
  OBVIOUS
<1>1. IsFiniteSet(InItems(u))
  BY FS_Subset DEF InItems
<1>2. \A y : y # i => (y \in InItems(u) <=> y \in InItems(u)')
  BY DEF InItems
<1>3. /\ i \in InItems(u) <=> i \in items /\ i.user = u
      /\ i \in InItems(u)' <=> i \in items' /\ i.user = u
  BY DEF InItems
<1> QED
  BY <1>1, <1>2, <1>3, OneChange DEF Count

LEMMA MessageUserCounts ==
    ASSUME NEW s \in Slots, \A o \in Slots \ {s} : user'[o] = user[o]
    PROVE  \A u \in Users :
              /\ Cardinality(InMessages(u)) \in Nat /\ Cardinality(InMessages(u)') \in Nat
              /\ Cardinality(InMessages(u)') + Count(user[s] = u)
                   = Cardinality(InMessages(u)) + Count(user'[s] = u)
<1> SUFFICES ASSUME NEW u \in Users
             PROVE  /\ Cardinality(InMessages(u)) \in Nat /\ Cardinality(InMessages(u)') \in Nat
                    /\ Cardinality(InMessages(u)') + Count(user[s] = u)
                         = Cardinality(InMessages(u)) + Count(user'[s] = u)
  OBVIOUS
<1>1. IsFiniteSet(InMessages(u))
  BY PipelineAssumption, FS_Subset DEF InMessages
<1>2. \A y : y # s => (y \in InMessages(u) <=> y \in InMessages(u)')
  BY DEF InMessages
<1>3. /\ s \in InMessages(u) <=> user[s] = u
      /\ s \in InMessages(u)' <=> user'[s] = u
  BY DEF InMessages
<1> QED
  BY <1>1, <1>2, <1>3, OneChange DEF Count

LEMMA NoneCounted ==
    ASSUME NEW S, IsFiniteSet(S)
    PROVE  Cardinality(S) \in Nat /\ (Cardinality(S) = 0 <=> S = {})
BY FS_CardinalityType, FS_EmptySet

\* What the count of a block says about those who refer to it.
LEMMA MessageHolders ==
    ASSUME IInv, NEW s \in Slots
    PROVE  /\ refs[s] = Cardinality(Holders(s)) + Cardinality(PostedWith(s))
           /\ Cardinality(Holders(s)) \in Nat /\ Cardinality(PostedWith(s)) \in Nat
           /\ Cardinality(Recyclers(s))
                = Count(refs[s] = 0 /\ s \notin free \cup fresh)
           /\ \A t \in Threads : HoldsMessage(t, s) => refs[s] > 0
           /\ \A p \in posted : p.slot = s => refs[s] > 0
           /\ \A t \in Threads : Recycles(t, s) => refs[s] = 0 /\ s \notin free \cup fresh
           /\ s \in free \cup fresh => refs[s] = 0
<1>1. /\ refs[s] = Cardinality(Holders(s)) + Cardinality(PostedWith(s))
      /\ Cardinality(Recyclers(s)) = Count(refs[s] = 0 /\ s \notin free \cup fresh)
      /\ s \in free \cup fresh => refs[s] = 0
  BY DEF IInv, MessagesCounted, Holders, PostedWith, Recyclers, Count
<1>2. IsFiniteSet(Holders(s)) /\ IsFiniteSet(PostedWith(s)) /\ IsFiniteSet(Recyclers(s))
  BY ThreadsFinite, FS_Subset DEF Holders, PostedWith, Recyclers, IInv
<1>3. /\ Cardinality(Holders(s)) \in Nat /\ (Cardinality(Holders(s)) = 0 <=> Holders(s) = {})
      /\ Cardinality(PostedWith(s)) \in Nat /\ (Cardinality(PostedWith(s)) = 0 <=> PostedWith(s) = {})
      /\ Cardinality(Recyclers(s)) \in Nat /\ (Cardinality(Recyclers(s)) = 0 <=> Recyclers(s) = {})
  BY <1>2, NoneCounted
<1>4. ASSUME NEW t \in Threads, HoldsMessage(t, s) PROVE refs[s] > 0
  <2>1. Holders(s) # {}
    BY <1>4 DEF Holders
  <2> QED
    BY <1>1, <1>3, <2>1
<1>5. ASSUME NEW p \in posted, p.slot = s PROVE refs[s] > 0
  <2>1. PostedWith(s) # {}
    BY <1>5 DEF PostedWith
  <2> QED
    BY <1>1, <1>3, <2>1
<1>6. ASSUME NEW t \in Threads, Recycles(t, s)
      PROVE  refs[s] = 0 /\ s \notin free \cup fresh
  <2>1. Recyclers(s) # {}
    BY <1>6 DEF Recyclers
  <2> QED
    BY <1>1, <1>3, <2>1 DEF Count
<1> QED
  BY <1>1, <1>3, <1>4, <1>5, <1>6

LEMMA UserHolders ==
    ASSUME IInv, NEW u \in Users
    PROVE  /\ userRefs[u] = Cardinality(InMessages(u)) + Cardinality(InThreads(u))
                            + Cardinality(InItems(u))
           /\ Cardinality(InMessages(u)) \in Nat /\ Cardinality(InThreads(u)) \in Nat
           /\ Cardinality(InItems(u)) \in Nat
           /\ u \in freeUsers \cup freshUsers <=> userRefs[u] = 0
           /\ \A s \in Slots : user[s] = u => userRefs[u] > 0
           /\ \A t \in Threads : cmdUser[t] = u => userRefs[u] > 0
           /\ \A i \in items : i.user = u => userRefs[u] > 0
<1>1. /\ userRefs[u] = Cardinality(InMessages(u)) + Cardinality(InThreads(u))
                       + Cardinality(InItems(u))
      /\ u \in freeUsers \cup freshUsers <=> userRefs[u] = 0
  BY DEF IInv, UsersCounted, InMessages, InThreads, InItems
<1>2. IsFiniteSet(InMessages(u)) /\ IsFiniteSet(InThreads(u)) /\ IsFiniteSet(InItems(u))
  BY ThreadsFinite, PipelineAssumption, FS_Subset DEF InMessages, InThreads, InItems, IInv
<1>3. /\ Cardinality(InMessages(u)) \in Nat /\ (Cardinality(InMessages(u)) = 0 <=> InMessages(u) = {})
      /\ Cardinality(InThreads(u)) \in Nat /\ (Cardinality(InThreads(u)) = 0 <=> InThreads(u) = {})
      /\ Cardinality(InItems(u)) \in Nat /\ (Cardinality(InItems(u)) = 0 <=> InItems(u) = {})
  BY <1>2, NoneCounted
<1>4. ASSUME NEW s \in Slots, user[s] = u PROVE userRefs[u] > 0
  <2>1. InMessages(u) # {}
    BY <1>4 DEF InMessages
  <2> QED
    BY <1>1, <1>3, <2>1
<1>5. ASSUME NEW t \in Threads, cmdUser[t] = u PROVE userRefs[u] > 0
  <2>1. InThreads(u) # {}
    BY <1>5 DEF InThreads
  <2> QED
    BY <1>1, <1>3, <2>1
<1>6. ASSUME NEW i \in items, i.user = u PROVE userRefs[u] > 0
  <2>1. InItems(u) # {}
    BY <1>6 DEF InItems
  <2> QED
    BY <1>1, <1>3, <2>1
<1> QED
  BY <1>1, <1>3, <1>4, <1>5, <1>6

\* What a thread has where it is.
LEMMA Holding ==
    ASSUME IInv, NEW t \in Threads
    PROVE  /\ t # "songs" /\ pc[t] # "idle" => slot[t] \in Slots
           /\ pc[t] \in {"execute", "finish"} => cmdUser[t] \in Users
           /\ pc[t] \in {"drop", "reset", "enqueue"} =>
                 t # "songs" /\ slot[t] \in Slots /\ cmdUser[t] = Null
BY DEF IInv, TypeOK, Positions

LEMMA Counts ==
    /\ \A s \in Slots : IInv => refs[s] \in Nat
    /\ \A u \in Users : IInv => userRefs[u] \in Nat
BY DEF IInv, TypeOK

\* The types of what a thread has.
ThreadTypes ==
    /\ pc \in [Threads -> {"idle", "parse", "aborted", "dispatch", "command",
                           "execute", "finish", "drop", "reset", "enqueue"}]
    /\ slot \in [Threads -> Slots \cup {Null}]
    /\ cmdUser \in [Threads -> Users \cup {Null}]
    /\ line \in [Threads -> Nat]

LEMMA ThreadTypesStep ==
    ASSUME IInv, Next
    PROVE  ThreadTypes'
<1>1. ThreadTypes
  BY DEF IInv, TypeOK, ThreadTypes
<1>2. lines \in Nat /\ free \subseteq Slots /\ fresh \subseteq Slots
  BY DEF IInv, TypeOK
<1>3. CASE GetLine
  BY <1>1, <1>2, <1>3 DEF GetLine, GoTo, Blocks, ThreadTypes
<1>4. CASE ParseLine
  BY <1>1, <1>4 DEF ParseLine, GoTo, ThreadTypes
<1>5. CASE Dispatch
  BY <1>1, <1>5 DEF Dispatch, GoTo, ThreadTypes
<1>6. CASE Serve
  <2>1. items \subseteq [user : Users, line : Nat]
    BY DEF IInv, TypeOK
  <2> QED
    BY <1>1, <1>6, <2>1 DEF Serve, GoTo, ThreadTypes
<1>7. ASSUME NEW t \in Workers, Take(t) \/ MakeCommand(t) \/ Execute(t)
      PROVE  ThreadTypes'
  <2>1. posted \subseteq [slot : Slots, line : Nat] /\ user \in [Slots -> Users \cup {Null}]
    BY DEF IInv, TypeOK
  <2>2. CASE Take(t)
    BY <1>1, <2>1, <2>2 DEF Take, GoTo, ThreadTypes
  <2>3. CASE MakeCommand(t)
    <3>1. t \in Threads /\ t # "songs" /\ pc[t] = "command"
      BY <2>3, PipelineAssumption DEF MakeCommand
    <3>2. slot[t] \in Slots
      BY <3>1, Holding
    <3> QED
      BY <1>1, <2>1, <2>3, <3>2 DEF MakeCommand, GoTo, ThreadTypes
  <2>4. CASE Execute(t)
    BY <1>1, <2>4 DEF Execute, GoTo, ThreadTypes
  <2> QED
    BY <1>7, <2>2, <2>3, <2>4
<1>8. ASSUME NEW t \in Threads, Thread(t)
      PROVE  ThreadTypes'
  <2>1. CASE Finish(t)
    BY <1>1, <2>1 DEF Finish, Continue, AfterFinish, GoTo, ThreadTypes
  <2>2. CASE Drop(t)
    BY <1>1, <2>2 DEF Drop, Continue, AfterRelease, GoTo, ThreadTypes
  <2>3. CASE Reset(t)
    BY <1>1, <2>3 DEF Reset, Continue, AfterRelease, GoTo, ThreadTypes
  <2>4. CASE Enqueue(t)
    BY <1>1, <2>4 DEF Enqueue, Continue, AfterRelease, GoTo, ThreadTypes
  <2> QED
    BY <1>8, <2>1, <2>2, <2>3, <2>4 DEF Thread
<1> QED
  BY <1>3, <1>4, <1>5, <1>6, <1>7, <1>8, NextCases

\* The count of a user that is given back was positive.
LEMMA Released ==
    ASSUME IInv, NEW u \in Users, userRefs[u] > 0, ReleaseUser(u)
    PROVE  userRefs' \in [Users -> Nat] /\ freeUsers' \subseteq Users
BY DEF IInv, TypeOK, ReleaseUser

\* The types of the blocks, and of what waits.
DataTypes ==
    /\ refs \in [Slots -> Nat] /\ type \in [Slots -> Types]
    /\ tag \in [Slots -> Nat] /\ text \in [Slots -> Nat]
    /\ user \in [Slots -> Users \cup {Null}]
    /\ fresh \subseteq Slots /\ free \subseteq Slots
    /\ userRefs \in [Users -> Nat] /\ owner \in [Users -> [id : Nat, name : Nat]]
    /\ freshUsers \subseteq Users /\ freeUsers \subseteq Users
    /\ raw \in [type : Types, id : Nat]
    /\ posted \subseteq [slot : Slots, line : Nat] /\ IsFiniteSet(posted)
    /\ items \subseteq [user : Users, line : Nat] /\ IsFiniteSet(items)
    /\ lines \in Nat

LEMMA DataTypesStep ==
    ASSUME IInv, Next
    PROVE  DataTypes'
<1>1. DataTypes /\ ThreadTypes
  BY DEF IInv, TypeOK, DataTypes, ThreadTypes
<1>2. CASE GetLine
  <2>1. raw' \in [type : Types, id : Nat]
    <3>1. Received \subseteq Types
      BY PipelineAssumption DEF Types
    <3>2. raw' \in [type : Received, id : {0, lines + 1}] /\ lines \in Nat
      BY <1>1, <1>2 DEF GetLine, Kinds, DataTypes
    <3> QED
      BY <3>1, <3>2
  <2> QED
    BY <1>1, <1>2, <2>1 DEF GetLine, Blocks, DataTypes
<1>3. CASE ParseLine
  <2>1. slot["reader"] \in Slots /\ line["reader"] \in Nat
    BY <1>1, <1>3, Holding, ThreadsFinite DEF ParseLine, ThreadTypes
  <2>2. raw' \in [type : Types, id : Nat]
    BY <1>1, <1>3 DEF ParseLine, DataTypes, NoLine, Types
  <2>3. tag' \in [Slots -> Nat] /\ text' \in [Slots -> Nat] /\ type' \in [Slots -> Types]
    BY <1>1, <1>3, <2>1 DEF ParseLine, DataTypes
  <2>4. /\ user' \in [Slots -> Users \cup {Null}] /\ userRefs' \in [Users -> Nat]
        /\ freshUsers' \subseteq Users /\ freeUsers' \subseteq Users
    BY <1>1, <1>3, <2>1 DEF ParseLine, DataTypes, Blocks
  <2>5. owner' \in [Users -> [id : Nat, name : Nat]]
    <3>1. raw.id \in Nat /\ tag[slot["reader"]] \in Nat
      BY <1>1, <2>1 DEF DataTypes
    <3> QED
      BY <1>1, <1>3, <2>1, <3>1 DEF ParseLine, DataTypes
  <2> QED
    BY <1>1, <1>3, <2>2, <2>3, <2>4, <2>5 DEF ParseLine, DataTypes
<1>4. CASE Dispatch
  <2>1. slot["reader"] \in Slots /\ line["reader"] \in Nat
    BY <1>1, <1>4, Holding, ThreadsFinite DEF Dispatch, ThreadTypes
  <2>2. /\ posted' \subseteq [slot : Slots, line : Nat] /\ IsFiniteSet(posted')
        /\ refs' \in [Slots -> Nat]
    <3> DEFINE p == [slot |-> slot["reader"], line |-> line["reader"]]
    <3>1. IsFiniteSet(posted \cup {p})
      BY <1>1, FS_AddElement DEF DataTypes
    <3>2. posted' = posted \/ posted' = posted \cup {p}
      BY <1>4 DEF Dispatch
    <3>3. p \in [slot : Slots, line : Nat] /\ refs' \in [Slots -> Nat]
      BY <1>1, <1>4, <2>1 DEF Dispatch, DataTypes
    <3> QED
      BY <1>1, <3>1, <3>2, <3>3 DEF DataTypes
  <2> QED
    BY <1>1, <1>4, <2>2 DEF Dispatch, DataTypes
<1>5. CASE Serve
  <2>1. items' \subseteq items /\ IsFiniteSet(items')
    BY <1>1, <1>5, FS_RemoveElement DEF Serve, DataTypes
  <2> QED
    BY <1>1, <1>5, <2>1 DEF Serve, DataTypes
<1>6. ASSUME NEW t \in Workers, Take(t) \/ MakeCommand(t) \/ Execute(t)
      PROVE  DataTypes'
  <2>1. CASE Take(t)
    <3>1. posted' \subseteq posted /\ IsFiniteSet(posted')
      BY <1>1, <2>1, FS_RemoveElement DEF Take, DataTypes
    <3> QED
      BY <1>1, <2>1, <3>1 DEF Take, DataTypes
  <2>2. CASE MakeCommand(t)
    <3>1. userRefs' \in [Users -> Nat]
      BY <1>1, <2>2 DEF MakeCommand, DataTypes
    <3> QED
      BY <1>1, <2>2, <3>1 DEF MakeCommand, DataTypes
  <2>3. CASE Execute(t)
    <3>1. cmdUser[t] \in Users /\ line[t] \in Nat
      BY <1>1, <2>3, Holding DEF Execute, ThreadTypes
    <3>2. /\ userRefs' \in [Users -> Nat] /\ IsFiniteSet(items')
          /\ items' \subseteq [user : Users, line : Nat]
      <4> DEFINE i == [user |-> cmdUser[t], line |-> line[t]]
      <4>1. IsFiniteSet(items \cup {i})
        BY <1>1, FS_AddElement DEF DataTypes
      <4>2. items' = items \/ items' = items \cup {i}
        BY <2>3 DEF Execute
      <4>3. i \in [user : Users, line : Nat] /\ userRefs' \in [Users -> Nat]
        BY <1>1, <2>3, <3>1 DEF Execute, DataTypes
      <4> QED
        BY <1>1, <4>1, <4>2, <4>3 DEF DataTypes
    <3> QED
      BY <1>1, <2>3, <3>2 DEF Execute, DataTypes
  <2> QED
    BY <1>6, <2>1, <2>2, <2>3
<1>7. ASSUME NEW t \in Threads, Thread(t)
      PROVE  DataTypes'
  <2>1. CASE Finish(t)
    <3>1. cmdUser[t] \in Users
      BY <2>1, Holding DEF Finish
    <3>2. userRefs' \in [Users -> Nat] /\ freeUsers' \subseteq Users
      BY <2>1, <3>1, UserHolders, Released DEF Finish
    <3> QED
      BY <1>1, <2>1, <3>2 DEF Finish, DataTypes
  <2>2. CASE Drop(t)
    <3>1. slot[t] \in Slots /\ HoldsMessage(t, slot[t])
      BY <2>2, Holding DEF Drop, HoldsMessage
    <3>2. refs[slot[t]] > 0
      BY <3>1, MessageHolders
    <3>3. refs' \in [Slots -> Nat]
      BY <1>1, <2>2, <3>1, <3>2 DEF Drop, DataTypes
    <3> QED
      BY <1>1, <2>2, <3>3 DEF Drop, DataTypes
  <2>3. CASE Reset(t)
    <3>1. slot[t] \in Slots
      BY <2>3, Holding DEF Reset
    <3>2. userRefs' \in [Users -> Nat] /\ freeUsers' \subseteq Users
      <4>1. CASE user[slot[t]] # Null
        <5>1. user[slot[t]] \in Users
          BY <1>1, <3>1, <4>1 DEF DataTypes
        <5> QED
          BY <2>3, <3>1, <4>1, <5>1, UserHolders, Released DEF Reset
      <4>2. CASE user[slot[t]] = Null
        BY <1>1, <2>3, <4>2 DEF Reset, DataTypes
      <4> QED
        BY <4>1, <4>2
    <3>3. user' \in [Slots -> Users \cup {Null}] /\ tag' \in [Slots -> Nat]
      BY <1>1, <2>3, <3>1 DEF Reset, DataTypes
    <3> QED
      BY <1>1, <2>3, <3>2, <3>3 DEF Reset, DataTypes
  <2>4. CASE Enqueue(t)
    <3>1. slot[t] \in Slots
      BY <2>4, Holding DEF Enqueue
    <3> QED
      BY <1>1, <2>4, <3>1 DEF Enqueue, DataTypes
  <2> QED
    BY <1>7, <2>1, <2>2, <2>3, <2>4 DEF Thread
<1> QED
  BY <1>2, <1>3, <1>4, <1>5, <1>6, <1>7, NextCases

LEMMA PositionsStep ==
    ASSUME IInv, Next
    PROVE  Positions'
<1>1. ThreadTypes /\ Positions /\ Null \notin Slots \cup Users
  BY PipelineAssumption DEF IInv, TypeOK, ThreadTypes
<1>2. {"reader", "songs"} \cap Workers = {}
  BY PipelineAssumption
<1>3. CASE GetLine
  <2>1. free \subseteq Slots /\ fresh \subseteq Slots
    BY DEF IInv, TypeOK
  <2> QED
    BY <1>1, <1>2, <1>3, <2>1 DEF GetLine, GoTo, Blocks, ThreadTypes, Positions
<1>4. CASE ParseLine
  BY <1>1, <1>2, <1>4 DEF ParseLine, GoTo, ThreadTypes, Positions
<1>5. CASE Dispatch
  BY <1>1, <1>2, <1>5 DEF Dispatch, GoTo, ThreadTypes, Positions
<1>6. CASE Serve
  <2>1. items \subseteq [user : Users, line : Nat]
    BY DEF IInv, TypeOK
  <2> QED
    BY <1>1, <1>2, <1>6, <2>1 DEF Serve, GoTo, ThreadTypes, Positions
<1>7. ASSUME NEW t \in Workers, Take(t) \/ MakeCommand(t) \/ Execute(t)
      PROVE  Positions'
  <2>1. posted \subseteq [slot : Slots, line : Nat] /\ user \in [Slots -> Users \cup {Null}]
    BY DEF IInv, TypeOK
  <2>2. CASE Take(t)
    BY <1>1, <1>2, <2>1, <2>2 DEF Take, GoTo, ThreadTypes, Positions
  <2>3. CASE MakeCommand(t)
    <3>1. t \in Threads /\ t # "songs" /\ pc[t] = "command"
      BY <2>3, PipelineAssumption DEF MakeCommand
    <3>2. user[slot[t]] # Null
      BY <3>1 DEF IInv, MessageKept
    <3> QED
      BY <1>1, <1>2, <2>3, <3>2 DEF MakeCommand, GoTo, ThreadTypes, Positions
  <2>4. CASE Execute(t)
    BY <1>1, <1>2, <2>4 DEF Execute, GoTo, ThreadTypes, Positions
  <2> QED
    BY <1>7, <2>2, <2>3, <2>4
<1>8. ASSUME NEW t \in Threads, Thread(t)
      PROVE  Positions'
  <2>1. CASE Finish(t)
    BY <1>1, <1>2, <2>1 DEF Finish, Continue, AfterFinish, GoTo, ThreadTypes, Positions
  <2>2. CASE Drop(t)
    BY <1>1, <1>2, <2>2 DEF Drop, Continue, AfterRelease, GoTo, ThreadTypes, Positions
  <2>3. CASE Reset(t)
    BY <1>1, <1>2, <2>3 DEF Reset, Continue, AfterRelease, GoTo, ThreadTypes, Positions
  <2>4. CASE Enqueue(t)
    BY <1>1, <1>2, <2>4 DEF Enqueue, Continue, AfterRelease, GoTo, ThreadTypes, Positions
  <2> QED
    BY <1>8, <2>1, <2>2, <2>3, <2>4 DEF Thread
<1> QED
  BY <1>3, <1>4, <1>5, <1>6, <1>7, <1>8, NextCases

LEMMA TypeStep ==
    ASSUME IInv, Next
    PROVE  TypeOK' /\ IsFiniteSet(posted') /\ IsFiniteSet(items')
BY ThreadTypesStep, DataTypesStep, PositionsStep DEF TypeOK, ThreadTypes, DataTypes, Positions

-----------------------------------------------------------------------------
(* The counts agree with the holders. *)

LEMMA OneMoves ==
    ASSUME IInv, NEW t \in Threads
    PROVE  /\ GetLine \/ ParseLine \/ Dispatch => MovesOnly("reader")
           /\ Serve => MovesOnly("songs")
           /\ Take(t) \/ MakeCommand(t) \/ Execute(t) \/ Thread(t) => MovesOnly(t)
<1>1. ThreadTypes
  BY DEF IInv, TypeOK, ThreadTypes
<1>2. GetLine \/ ParseLine \/ Dispatch => MovesOnly("reader")
  BY <1>1 DEF GetLine, ParseLine, Dispatch, GoTo, ThreadTypes, MovesOnly
<1>3. Serve => MovesOnly("songs")
  BY <1>1 DEF Serve, GoTo, ThreadTypes, MovesOnly
<1>4. Take(t) \/ MakeCommand(t) \/ Execute(t) => MovesOnly(t)
  BY <1>1 DEF Take, MakeCommand, Execute, GoTo, ThreadTypes, MovesOnly
<1>5. Thread(t) => MovesOnly(t)
  BY <1>1 DEF Thread, Finish, Drop, Reset, Enqueue, Continue, GoTo, ThreadTypes, MovesOnly
<1> QED
  BY <1>2, <1>3, <1>4, <1>5

\* A thread that moves without taking or dropping a reference.
LEMMA SameHolders ==
    ASSUME IInv, NEW t \in Threads, MovesOnly(t),
           UNCHANGED <<refs, blocks, posted>>,
           \A s \in Slots : /\ HoldsMessage(t, s)' <=> HoldsMessage(t, s)
                            /\ Recycles(t, s)' <=> Recycles(t, s)
    PROVE  MessagesCounted'
<1>1. SUFFICES ASSUME NEW s \in Slots
               PROVE  /\ refs'[s] = Cardinality(Holders(s)') + Cardinality(PostedWith(s)')
                      /\ Cardinality(Recyclers(s)') = Count(refs'[s] = 0 /\ s \notin free' \cup fresh')
                      /\ s \in free' \cup fresh' => refs'[s] = 0
  BY DEF MessagesCounted, Holders, PostedWith, Recyclers, Count
<1>2. /\ Holders(s)' = Holders(s) /\ Recyclers(s)' = Recyclers(s)
      /\ PostedWith(s)' = PostedWith(s)
  BY DEF Holders, Recyclers, PostedWith, MovesOnly, HoldsMessage, Recycles
<1> QED
  BY <1>2, MessageHolders DEF Count

LEMMA MessagesStep ==
    ASSUME IInv, Next
    PROVE  MessagesCounted'
<1>1. ThreadTypes /\ ThreadTypes' /\ DataTypes /\ Positions /\ Positions'
  BY ThreadTypesStep, PositionsStep DEF IInv, TypeOK, ThreadTypes, DataTypes
<1>2. /\ {"reader", "songs"} \cap Workers = {} /\ Null \notin Slots \cup Users
      /\ "reader" \in Threads /\ "songs" \in Threads
  BY PipelineAssumption
<1> DEFINE Right(s) ==
               /\ refs'[s] = Cardinality(Holders(s)') + Cardinality(PostedWith(s)')
               /\ Cardinality(Recyclers(s)') = Count(refs'[s] = 0 /\ s \notin free' \cup fresh')
               /\ s \in free' \cup fresh' => refs'[s] = 0
<1>3. ASSUME \A s \in Slots : Right(s) PROVE MessagesCounted'
  BY <1>3 DEF MessagesCounted, Holders, PostedWith, Recyclers, Count
<1>4. ASSUME NEW s, posted' = posted PROVE PostedWith(s)' = PostedWith(s)
  BY <1>4 DEF PostedWith
<1>5. CASE GetLine
  <2>1. SUFFICES ASSUME NEW s \in Slots PROVE Right(s)
    BY <1>3
  <2>2. /\ pc["reader"] = "idle" /\ pc'["reader"] = "parse" /\ slot["reader"] = Null
        /\ slot'["reader"] \in free \cup fresh
        /\ free' = free \ {slot'["reader"]} /\ fresh' = fresh \ {slot'["reader"]}
        /\ refs' = [refs EXCEPT ![slot'["reader"]] = @ + 1]
        /\ posted' = posted
    BY <1>1, <1>2, <1>5 DEF GetLine, GoTo, Blocks, ThreadTypes, DataTypes, Positions
  <2>3. /\ ~HoldsMessage("reader", s) /\ ~Recycles("reader", s) /\ ~Recycles("reader", s)'
        /\ HoldsMessage("reader", s)' <=> s = slot'["reader"]
    BY <1>2, <2>2 DEF HoldsMessage, Recycles
  <2>4. /\ Cardinality(Holders(s)') = Cardinality(Holders(s)) + Count(s = slot'["reader"])
        /\ Cardinality(Recyclers(s)') = Cardinality(Recyclers(s))
    BY <1>2, <1>5, <2>3, OneMoves, ThreadCounts DEF Count
  <2>5. refs'[s] = refs[s] + Count(s = slot'["reader"])
    BY <1>1, <2>2 DEF Count, DataTypes
  <2>6. refs'[s] = Cardinality(Holders(s)') + Cardinality(PostedWith(s)')
    BY <1>4, <2>2, <2>4, <2>5, MessageHolders DEF Count
  <2>7. s = slot'["reader"] => s \in free \cup fresh /\ refs[s] = 0
    BY <2>2, MessageHolders
  <2>8. s \in free' \cup fresh' <=> s \in free \cup fresh /\ s # slot'["reader"]
    BY <2>2
  <2>9. CASE s = slot'["reader"]
    BY <2>4, <2>5, <2>6, <2>7, <2>8, <2>9, MessageHolders DEF Count
  <2>10. CASE s # slot'["reader"]
    <3>1. refs'[s] = refs[s]
      BY <2>5, <2>10, MessageHolders DEF Count
    <3> QED
      BY <2>4, <2>6, <2>8, <2>10, <3>1, MessageHolders
  <2> QED
    BY <2>9, <2>10
<1>6. CASE ParseLine
  <2>1. \A s \in Slots : /\ HoldsMessage("reader", s)' <=> HoldsMessage("reader", s)
                         /\ Recycles("reader", s)' <=> Recycles("reader", s)
    BY <1>1, <1>2, <1>6 DEF ParseLine, GoTo, ThreadTypes, HoldsMessage, Recycles
  <2>2. UNCHANGED <<refs, blocks, posted>>
    BY <1>6 DEF ParseLine
  <2> QED
    BY <1>2, <1>6, <2>1, <2>2, OneMoves, SameHolders
<1>7. CASE Dispatch
  <2>1. \A s \in Slots : /\ HoldsMessage("reader", s)' <=> HoldsMessage("reader", s)
                         /\ Recycles("reader", s)' <=> Recycles("reader", s)
    BY <1>1, <1>2, <1>7 DEF Dispatch, GoTo, ThreadTypes, HoldsMessage, Recycles
  <2>2. CASE UNCHANGED <<refs, posted>>
    <3>1. UNCHANGED blocks
      BY <1>7 DEF Dispatch
    <3> QED
      BY <1>2, <1>7, <2>1, <2>2, <3>1, OneMoves, SameHolders
  <2> DEFINE p == [slot |-> slot["reader"], line |-> line["reader"]]
  <2>3. CASE /\ refs' = [refs EXCEPT ![slot["reader"]] = @ + 1]
             /\ posted' = posted \cup {p}
    <3>1. SUFFICES ASSUME NEW s \in Slots PROVE Right(s)
      BY <1>3
    <3>2. /\ slot["reader"] \in Slots /\ HoldsMessage("reader", slot["reader"])
          /\ pc["reader"] = "dispatch" /\ free' = free /\ fresh' = fresh
      BY <1>2, <1>7, Holding DEF Dispatch, HoldsMessage
    <3>3. p \notin posted
      <4>1. p.line = line["reader"] /\ line["reader"] = lines /\ lines \in Nat
        BY <1>1, <3>2 DEF IInv, LinesApart, DataTypes
      <4>2. \A q \in posted : q.line < lines
        BY <3>2 DEF IInv, LinesApart
      <4> QED
        BY <4>1, <4>2
    <3>4. /\ Cardinality(PostedWith(s)') = Cardinality(PostedWith(s)) + Count(s = slot["reader"])
          /\ Cardinality(PostedWith(s)') \in Nat
      <4>1. posted' \ {p} = posted \ {p} /\ p \in posted' /\ p.slot = slot["reader"]
        BY <2>3
      <4> HIDE DEF p
      <4> QED
        BY <1>1, <3>3, <4>1, PostedCounts DEF DataTypes, Count
    <3>5. /\ Cardinality(Holders(s)') = Cardinality(Holders(s))
          /\ Cardinality(Recyclers(s)') = Cardinality(Recyclers(s))
      BY <1>2, <1>7, <2>1, OneMoves, ThreadCounts DEF Count
    <3>6. s = slot["reader"] => refs[s] > 0
      BY <1>2, <3>2, MessageHolders
    <3> QED
      BY <1>1, <2>3, <3>2, <3>4, <3>5, <3>6, MessageHolders DEF Count, DataTypes
  <2> QED
    BY <1>7, <2>2, <2>3 DEF Dispatch
<1>8. CASE Serve
  <2>1. \A s \in Slots : /\ ~HoldsMessage("songs", s)' /\ ~HoldsMessage("songs", s)
                         /\ ~Recycles("songs", s)' /\ ~Recycles("songs", s)
    BY <1>1, <1>2 DEF Positions, HoldsMessage, Recycles
  <2>2. UNCHANGED <<refs, blocks, posted>>
    BY <1>8 DEF Serve
  <2> QED
    BY <1>2, <1>8, <2>1, <2>2, OneMoves, SameHolders
<1>9. ASSUME NEW t \in Workers, Take(t) PROVE MessagesCounted'
  <2>1. PICK p \in posted : /\ posted' = posted \ {p}
                            /\ slot' = [slot EXCEPT ![t] = p.slot]
    BY <1>9 DEF Take
  <2>2. SUFFICES ASSUME NEW s \in Slots PROVE Right(s)
    BY <1>3
  <2>3. /\ p.slot \in Slots /\ slot[t] = Null /\ slot'[t] = p.slot /\ pc'[t] = "command"
        /\ free' = free /\ fresh' = fresh /\ refs' = refs
    BY <1>1, <1>2, <1>9, <2>1 DEF Take, GoTo, Positions, ThreadTypes, DataTypes
  <2>4. /\ Cardinality(PostedWith(s)') + Count(s = p.slot) = Cardinality(PostedWith(s))
        /\ Cardinality(PostedWith(s)') \in Nat
    <3>1. posted' \ {p} = posted \ {p} /\ p \notin posted'
      BY <2>1
    <3> QED
      BY <1>1, <2>1, <3>1, PostedCounts DEF DataTypes, Count
  <2>5. /\ Cardinality(Holders(s)') = Cardinality(Holders(s)) + Count(s = p.slot)
        /\ Cardinality(Recyclers(s)') = Cardinality(Recyclers(s))
    <3>1. /\ ~HoldsMessage(t, s) /\ ~Recycles(t, s) /\ ~Recycles(t, s)'
          /\ HoldsMessage(t, s)' <=> s = p.slot
      BY <1>2, <2>3 DEF HoldsMessage, Recycles
    <3> QED
      BY <1>9, <3>1, OneMoves, ThreadCounts DEF Count
  <2>6. refs'[s] = Cardinality(Holders(s)') + Cardinality(PostedWith(s)')
    BY <1>1, <2>3, <2>4, <2>5, MessageHolders DEF Count, DataTypes
  <2>7. /\ Cardinality(Recyclers(s)') = Count(refs'[s] = 0 /\ s \notin free' \cup fresh')
        /\ s \in free' \cup fresh' => refs'[s] = 0
    BY <2>3, <2>5, MessageHolders
  <2> QED
    BY <2>6, <2>7
<1>10. ASSUME NEW t \in Workers, MakeCommand(t) \/ Execute(t) PROVE MessagesCounted'
  <2>1. \A s \in Slots : /\ HoldsMessage(t, s)' <=> HoldsMessage(t, s)
                         /\ Recycles(t, s)' <=> Recycles(t, s)
    BY <1>1, <1>2, <1>10 DEF MakeCommand, Execute, GoTo, ThreadTypes, HoldsMessage, Recycles
  <2>2. UNCHANGED <<refs, blocks, posted>>
    BY <1>10 DEF MakeCommand, Execute
  <2> QED
    BY <1>10, <2>1, <2>2, OneMoves, SameHolders
<1>11. ASSUME NEW t \in Threads, Finish(t) PROVE MessagesCounted'
  <2>1. \A s \in Slots : /\ HoldsMessage(t, s)' <=> HoldsMessage(t, s)
                         /\ Recycles(t, s)' <=> Recycles(t, s)
    <3>1. CASE t = "songs"
      BY <1>1, <1>2, <3>1 DEF Positions, HoldsMessage, Recycles
    <3>2. CASE t # "songs"
      BY <1>1, <1>2, <1>11, <3>2
      DEF Finish, Continue, AfterFinish, GoTo, ThreadTypes, HoldsMessage, Recycles
    <3> QED
      BY <3>1, <3>2
  <2>2. UNCHANGED <<refs, blocks, posted>>
    BY <1>11 DEF Finish
  <2> QED
    BY <1>11, <2>1, <2>2, OneMoves, SameHolders DEF Thread
<1>12. ASSUME NEW t \in Threads, Drop(t) PROVE MessagesCounted'
  <2>1. SUFFICES ASSUME NEW s \in Slots PROVE Right(s)
    BY <1>3
  <2>2. /\ pc[t] = "drop" /\ slot[t] \in Slots
        /\ refs' = [refs EXCEPT ![slot[t]] = @ - 1]
        /\ free' = free /\ fresh' = fresh /\ posted' = posted
    BY <1>12, Holding DEF Drop
  <2>3. /\ refs[slot[t]] = 1 => pc'[t] = "reset" /\ slot'[t] = slot[t]
        /\ refs[slot[t]] # 1 => pc'[t] = "idle"
    BY <1>1, <1>12 DEF Drop, Continue, AfterRelease, GoTo, ThreadTypes
  <2>4. /\ HoldsMessage(t, s) <=> s = slot[t]
        /\ ~HoldsMessage(t, s)' /\ ~Recycles(t, s)
        /\ Recycles(t, s)' <=> s = slot[t] /\ refs[s] = 1
    BY <2>2, <2>3 DEF HoldsMessage, Recycles
  <2>5. /\ Cardinality(Holders(s)') + Count(s = slot[t]) = Cardinality(Holders(s))
        /\ Cardinality(Recyclers(s)') = Cardinality(Recyclers(s)) + Count(s = slot[t] /\ refs[s] = 1)
        /\ Cardinality(Recyclers(s)) \in Nat /\ Cardinality(Holders(s)') \in Nat
    BY <1>12, <2>4, OneMoves, ThreadCounts DEF Thread, Count
  <2>6. s = slot[t] => refs[s] > 0
    BY <2>4, MessageHolders
  <2> QED
    BY <1>1, <1>4, <2>2, <2>5, <2>6, MessageHolders DEF Count, DataTypes
<1>13. ASSUME NEW t \in Threads, Reset(t) PROVE MessagesCounted'
  <2>1. \A s \in Slots : /\ HoldsMessage(t, s)' <=> HoldsMessage(t, s)
                         /\ Recycles(t, s)' <=> Recycles(t, s)
    BY <1>1, <1>2, <1>13
    DEF Reset, Continue, AfterRelease, GoTo, ThreadTypes, HoldsMessage, Recycles
  <2>2. UNCHANGED <<refs, blocks, posted>>
    BY <1>13 DEF Reset
  <2> QED
    BY <1>13, <2>1, <2>2, OneMoves, SameHolders DEF Thread
<1>14. ASSUME NEW t \in Threads, Enqueue(t) PROVE MessagesCounted'
  <2>1. SUFFICES ASSUME NEW s \in Slots PROVE Right(s)
    BY <1>3
  <2>2. /\ pc[t] = "enqueue" /\ slot[t] \in Slots /\ pc'[t] = "idle"
        /\ free' = free \cup {slot[t]} /\ fresh' = fresh
        /\ refs' = refs /\ posted' = posted
    BY <1>1, <1>14, Holding DEF Enqueue, Continue, AfterRelease, GoTo, ThreadTypes
  <2>3. /\ ~HoldsMessage(t, s) /\ ~HoldsMessage(t, s)' /\ ~Recycles(t, s)'
        /\ Recycles(t, s) <=> s = slot[t]
    BY <2>2 DEF HoldsMessage, Recycles
  <2>4. /\ Cardinality(Holders(s)') = Cardinality(Holders(s))
        /\ Cardinality(Recyclers(s)') + Count(s = slot[t]) = Cardinality(Recyclers(s))
        /\ Cardinality(Recyclers(s)') \in Nat
    BY <1>14, <2>3, OneMoves, ThreadCounts DEF Thread, Count
  <2>5. s = slot[t] => refs[s] = 0 /\ s \notin free \cup fresh
    BY <1>14, <2>3, MessageHolders
  <2>6. s \in free' \cup fresh' <=> s \in free \cup fresh \/ s = slot[t]
    BY <2>2
  <2>7. refs'[s] = Cardinality(Holders(s)') + Cardinality(PostedWith(s)')
    BY <1>4, <2>2, <2>4, MessageHolders
  <2> QED
    BY <2>2, <2>4, <2>5, <2>6, <2>7, MessageHolders DEF Count
<1> QED
  BY <1>5, <1>6, <1>7, <1>8, <1>9, <1>10, <1>11, <1>12, <1>13, <1>14, NextCases DEF Thread

\* One more reference to a user, or one less: he is in the cache when that was
\* the last.
LEMMA UserGained ==
    ASSUME IInv, NEW u \in Users, NEW o \in Users,
           userRefs' = [userRefs EXCEPT ![u] = @ + 1],
           freeUsers' = freeUsers \ {u}, freshUsers' = freshUsers \ {u}
    PROVE  /\ userRefs'[o] = userRefs[o] + Count(u = o)
           /\ o \in freeUsers' \cup freshUsers' <=> userRefs'[o] = 0
<1>1. userRefs \in [Users -> Nat]
  BY DEF IInv, TypeOK
<1>2. o \in freeUsers \cup freshUsers <=> userRefs[o] = 0
  BY UserHolders
<1>3. CASE o = u
  BY <1>1, <1>3 DEF Count
<1>4. CASE o # u
  BY <1>1, <1>2, <1>4 DEF Count
<1> QED
  BY <1>3, <1>4

LEMMA UserLost ==
    ASSUME IInv, NEW u \in Users, NEW o \in Users, userRefs[u] > 0,
           ReleaseUser(u), freshUsers' = freshUsers
    PROVE  /\ userRefs'[o] + Count(u = o) = userRefs[o]
           /\ o \in freeUsers' \cup freshUsers' <=> userRefs'[o] = 0
<1>1. userRefs \in [Users -> Nat]
  BY DEF IInv, TypeOK
<1>2. o \in freeUsers \cup freshUsers <=> userRefs[o] = 0
  BY UserHolders
<1>3. CASE o = u
  <2>1. userRefs'[o] = userRefs[o] - 1
    BY <1>1, <1>3 DEF ReleaseUser
  <2>2. o \in freeUsers' \cup freshUsers' <=> userRefs[o] = 1
    BY <1>1, <1>2, <1>3 DEF ReleaseUser
  <2> QED
    BY <1>1, <1>3, <2>1, <2>2 DEF Count
<1>4. CASE o # u
  BY <1>1, <1>2, <1>4 DEF Count, ReleaseUser
<1> QED
  BY <1>3, <1>4

LEMMA UsersStep ==
    ASSUME IInv, Next
    PROVE  UsersCounted'
<1>1. ThreadTypes /\ ThreadTypes' /\ DataTypes /\ Positions /\ Positions'
  BY ThreadTypesStep, PositionsStep DEF IInv, TypeOK, ThreadTypes, DataTypes
<1>2. /\ {"reader", "songs"} \cap Workers = {} /\ Null \notin Slots \cup Users
      /\ "reader" \in Threads /\ "songs" \in Threads
  BY PipelineAssumption
<1> DEFINE Right(u) ==
               /\ userRefs'[u] = Cardinality(InMessages(u)') + Cardinality(InThreads(u)')
                                 + Cardinality(InItems(u)')
               /\ u \in freeUsers' \cup freshUsers' <=> userRefs'[u] = 0
<1>3. ASSUME \A u \in Users : Right(u) PROVE UsersCounted'
  BY <1>3 DEF UsersCounted, InMessages, InThreads, InItems
<1>4. /\ user' = user => \A u : InMessages(u)' = InMessages(u)
      /\ cmdUser' = cmdUser => \A u : InThreads(u)' = InThreads(u)
      /\ items' = items => \A u : InItems(u)' = InItems(u)
  BY DEF InMessages, InThreads, InItems
<1>5. CASE UNCHANGED <<users, user, cmdUser, items>>
  BY <1>3, <1>4, <1>5, UserHolders
<1>6. CASE ParseLine /\ ~UNCHANGED users
  <2>1. /\ slot["reader"] \in Slots /\ pc["reader"] = "parse"
        /\ user[slot["reader"]] = Null
    BY <1>2, <1>6, Holding DEF ParseLine, IInv, BlocksClean, Clean
  <2>2. PICK w \in Users :
            /\ userRefs' = [userRefs EXCEPT ![w] = @ + 1]
            /\ freeUsers' = freeUsers \ {w} /\ freshUsers' = freshUsers \ {w}
            /\ user' = [user EXCEPT ![slot["reader"]] = w]
            /\ cmdUser' = cmdUser /\ items' = items
    BY <1>1, <1>6 DEF ParseLine, Blocks, DataTypes
  <2>3. SUFFICES ASSUME NEW u \in Users PROVE Right(u)
    BY <1>3
  <2>4. Cardinality(InMessages(u)') = Cardinality(InMessages(u)) + Count(w = u)
    <3>1. user'[slot["reader"]] = w /\ \A o \in Slots \ {slot["reader"]} : user'[o] = user[o]
      BY <1>1, <2>1, <2>2 DEF DataTypes
    <3> QED
      BY <1>2, <2>1, <3>1, MessageUserCounts DEF Count
  <2>5. /\ userRefs'[u] = userRefs[u] + Count(w = u)
        /\ u \in freeUsers' \cup freshUsers' <=> userRefs'[u] = 0
    BY <2>2, UserGained
  <2>6. userRefs'[u] = Cardinality(InMessages(u)') + Cardinality(InThreads(u)')
                        + Cardinality(InItems(u)')
    BY <1>1, <1>4, <2>2, <2>4, <2>5, UserHolders, TypeStep DEF Count, TypeOK
  <2> QED
    BY <2>5, <2>6
<1>7. ASSUME NEW t \in Workers, MakeCommand(t), ~UNCHANGED users PROVE UsersCounted'
  <2>1. slot[t] \in Slots /\ pc[t] = "command" /\ cmdUser[t] = Null
    BY <1>1, <1>2, <1>7, Holding DEF MakeCommand, Positions
  <2>2. user[slot[t]] \in Users
    BY <1>1, <1>7, <2>1 DEF IInv, MessageKept, DataTypes
  <2> DEFINE w == user[slot[t]]
  <2>3. /\ cmdUser' = [cmdUser EXCEPT ![t] = w]
        /\ userRefs' = [userRefs EXCEPT ![w] = @ + 1]
        /\ user' = user /\ items' = items
        /\ freeUsers' = freeUsers /\ freshUsers' = freshUsers
    BY <1>7 DEF MakeCommand
  <2>4. userRefs[w] > 0 /\ w \notin freeUsers \cup freshUsers
    BY <2>1, <2>2, UserHolders
  <2> HIDE DEF w
  <2>5. SUFFICES ASSUME NEW u \in Users PROVE Right(u)
    BY <1>3
  <2>6. Cardinality(InThreads(u)') = Cardinality(InThreads(u)) + Count(w = u)
    <3>1. cmdUser'[t] = w
      BY <1>1, <2>3 DEF ThreadTypes
    <3>2. MovesOnly(t)
      BY <1>7, OneMoves
    <3> QED
      BY <1>2, <2>1, <3>1, <3>2, ThreadCounts DEF Count
  <2>7. w \in Users /\ freeUsers' = freeUsers \ {w} /\ freshUsers' = freshUsers \ {w}
    BY <2>2, <2>3, <2>4 DEF w
  <2>8. /\ userRefs'[u] = userRefs[u] + Count(w = u)
        /\ u \in freeUsers' \cup freshUsers' <=> userRefs'[u] = 0
    BY <2>3, <2>7, UserGained
  <2>9. userRefs'[u] = Cardinality(InMessages(u)') + Cardinality(InThreads(u)')
                        + Cardinality(InItems(u)')
    BY <1>1, <1>4, <2>3, <2>6, <2>8, UserHolders, TypeStep DEF Count, TypeOK
  <2> QED
    BY <2>8, <2>9
<1>8. ASSUME NEW t \in Workers, Execute(t), ~UNCHANGED users PROVE UsersCounted'
  <2>1. cmdUser[t] \in Users /\ pc[t] = "execute"
    BY <1>8, Holding DEF Execute
  <2> DEFINE i == [user |-> cmdUser[t], line |-> line[t]]
             w == cmdUser[t]
  <2>2. /\ items' = items \cup {i} /\ i.user = w /\ i.line = line[t]
        /\ userRefs' = [userRefs EXCEPT ![w] = @ + 1]
        /\ user' = user /\ cmdUser' = cmdUser
        /\ freeUsers' = freeUsers /\ freshUsers' = freshUsers
    BY <1>8 DEF Execute
  <2>3. i \notin items
    BY <2>1 DEF IInv, LinesApart
  <2>4. w \in Users /\ userRefs[w] > 0 /\ w \notin freeUsers \cup freshUsers
    BY <2>1, UserHolders
  <2> HIDE DEF w, i
  <2>5. SUFFICES ASSUME NEW u \in Users PROVE Right(u)
    BY <1>3
  <2>6. Cardinality(InItems(u)') = Cardinality(InItems(u)) + Count(w = u)
    <3>1. items' \ {i} = items \ {i} /\ i \in items'
      BY <2>2
    <3> QED
      BY <1>1, <2>2, <2>3, <3>1, ItemsCounts DEF DataTypes, Count
  <2>7. /\ w \in Users /\ userRefs' = [userRefs EXCEPT ![w] = @ + 1]
        /\ freeUsers' = freeUsers \ {w} /\ freshUsers' = freshUsers \ {w}
    BY <2>2, <2>4
  <2>8. /\ userRefs'[u] = userRefs[u] + Count(w = u)
        /\ u \in freeUsers' \cup freshUsers' <=> userRefs'[u] = 0
    BY <2>7, UserGained
  <2>9. userRefs'[u] = Cardinality(InMessages(u)') + Cardinality(InThreads(u)')
                        + Cardinality(InItems(u)')
    BY <1>1, <1>4, <2>2, <2>6, <2>8, UserHolders, TypeStep DEF Count, TypeOK
  <2> QED
    BY <2>8, <2>9
<1>9. CASE Serve
  <2>1. PICK i \in items : /\ items' = items \ {i}
                           /\ cmdUser' = [cmdUser EXCEPT !["songs"] = i.user]
    BY <1>9 DEF Serve
  <2>2. /\ cmdUser["songs"] = Null /\ cmdUser'["songs"] = i.user
        /\ UNCHANGED <<users, user>>
    BY <1>1, <1>2, <1>9, <2>1 DEF Serve, ThreadTypes, Positions
  <2>3. SUFFICES ASSUME NEW u \in Users PROVE Right(u)
    BY <1>3
  <2>4. /\ Cardinality(InItems(u)') + Count(i.user = u) = Cardinality(InItems(u))
        /\ Cardinality(InItems(u)') \in Nat
    <3>1. items' \ {i} = items \ {i} /\ i \notin items'
      BY <2>1
    <3> QED
      BY <1>1, <2>1, <3>1, ItemsCounts DEF DataTypes, Count
  <2>5. Cardinality(InThreads(u)') = Cardinality(InThreads(u)) + Count(i.user = u)
    <3>1. MovesOnly("songs")
      BY <1>2, <1>9, OneMoves
    <3> QED
      BY <1>2, <2>2, <3>1, ThreadCounts DEF Count
  <2>6. userRefs'[u] = Cardinality(InMessages(u)') + Cardinality(InThreads(u)') + Cardinality(InItems(u)')
    BY <1>4, <2>2, <2>4, <2>5, UserHolders DEF Count
  <2> QED
    BY <2>2, <2>6, UserHolders
<1>10. ASSUME NEW t \in Threads, Finish(t) PROVE UsersCounted'
  <2> DEFINE w == cmdUser[t]
  <2>1. /\ w \in Users /\ ReleaseUser(w) /\ cmdUser' = [cmdUser EXCEPT ![t] = Null]
        /\ user' = user /\ items' = items /\ freshUsers' = freshUsers
    BY <1>10, Holding DEF Finish
  <2>2. cmdUser[t] = w /\ cmdUser'[t] = Null
    BY <1>1, <2>1 DEF ThreadTypes
  <2> HIDE DEF w
  <2>3. userRefs[w] > 0
    BY <2>1, <2>2, UserHolders
  <2>4. SUFFICES ASSUME NEW u \in Users PROVE Right(u)
    BY <1>3
  <2>5. /\ Cardinality(InThreads(u)') + Count(w = u) = Cardinality(InThreads(u))
        /\ Cardinality(InThreads(u)') \in Nat
    BY <1>2, <1>10, <2>2, OneMoves, ThreadCounts DEF Thread, Count
  <2>6. /\ userRefs'[u] + Count(w = u) = userRefs[u]
        /\ u \in freeUsers' \cup freshUsers' <=> userRefs'[u] = 0
    BY <2>1, <2>3, UserLost
  <2>7. userRefs'[u] = Cardinality(InMessages(u)') + Cardinality(InThreads(u)')
                        + Cardinality(InItems(u)')
    BY <1>1, <1>4, <2>1, <2>5, <2>6, UserHolders, TypeStep DEF Count, TypeOK
  <2> QED
    BY <2>6, <2>7
<1>11. ASSUME NEW t \in Threads, Reset(t), ~UNCHANGED users PROVE UsersCounted'
  <2> DEFINE w == user[slot[t]]
  <2>1. slot[t] \in Slots
    BY <1>11, Holding DEF Reset
  <2>2. /\ w \in Users /\ ReleaseUser(w) /\ user' = [user EXCEPT ![slot[t]] = Null]
        /\ cmdUser' = cmdUser /\ items' = items /\ freshUsers' = freshUsers
    BY <1>1, <1>11, <2>1 DEF Reset, DataTypes
  <2>3. /\ user[slot[t]] = w /\ user'[slot[t]] = Null
        /\ \A o \in Slots \ {slot[t]} : user'[o] = user[o]
    BY <1>1, <2>1, <2>2 DEF DataTypes
  <2> HIDE DEF w
  <2>4. userRefs[w] > 0
    BY <2>1, <2>2, <2>3, UserHolders
  <2>5. SUFFICES ASSUME NEW u \in Users PROVE Right(u)
    BY <1>3
  <2>6. /\ Cardinality(InMessages(u)') + Count(w = u) = Cardinality(InMessages(u))
        /\ Cardinality(InMessages(u)') \in Nat
    BY <1>2, <2>1, <2>3, MessageUserCounts DEF Count
  <2>7. /\ userRefs'[u] + Count(w = u) = userRefs[u]
        /\ u \in freeUsers' \cup freshUsers' <=> userRefs'[u] = 0
    BY <2>2, <2>4, UserLost
  <2>8. userRefs'[u] = Cardinality(InMessages(u)') + Cardinality(InThreads(u)')
                        + Cardinality(InItems(u)')
    BY <1>1, <1>4, <2>2, <2>6, <2>7, UserHolders, TypeStep DEF Count, TypeOK
  <2> QED
    BY <2>7, <2>8
<1>12. ASSUME NEW t \in Threads, Reset(t), UNCHANGED users PROVE UsersCounted'
  <2>1. slot[t] \in Slots
    BY <1>12, Holding DEF Reset
  <2>2. CASE user[slot[t]] # Null
    <3>1. userRefs[user[slot[t]]] \in Nat /\ user[slot[t]] \in Users
      BY <1>1, <2>1, <2>2 DEF DataTypes
    <3> QED
      BY <1>1, <1>12, <2>2, <3>1 DEF Reset, ReleaseUser, DataTypes
  <2>3. CASE user[slot[t]] = Null
    <3>1. user' = user /\ cmdUser' = cmdUser /\ items' = items
      BY <1>1, <1>12, <2>1, <2>3 DEF Reset, DataTypes
    <3> QED
      BY <1>5, <1>12, <3>1
  <2> QED
    BY <2>2, <2>3
<1>13. ASSUME NEW t \in Workers, MakeCommand(t), UNCHANGED users PROVE UsersCounted'
  <2>1. slot[t] \in Slots /\ pc[t] = "command"
    BY <1>2, <1>13, Holding DEF MakeCommand
  <2>2. userRefs[user[slot[t]]] \in Nat /\ user[slot[t]] \in Users
    BY <1>1, <2>1 DEF IInv, MessageKept, DataTypes
  <2>3. cmdUser' = cmdUser
    BY <1>1, <1>13, <2>2 DEF MakeCommand, DataTypes
  <2> QED
    BY <1>5, <1>13, <2>3 DEF MakeCommand
<1>14. ASSUME NEW t \in Workers, Execute(t), UNCHANGED users PROVE UsersCounted'
  <2>1. userRefs[cmdUser[t]] \in Nat /\ cmdUser[t] \in Users
    BY <1>1, <1>14, Holding DEF Execute, DataTypes
  <2>2. items' = items
    BY <1>1, <1>14, <2>1 DEF Execute, DataTypes
  <2> QED
    BY <1>5, <1>14, <2>2 DEF Execute
<1>15. ASSUME ParseLine, UNCHANGED users PROVE UsersCounted'
  <2>1. CASE UNCHANGED user
    BY <1>5, <1>15, <2>1 DEF ParseLine
  <2>2. CASE \E w \in Users : userRefs' = [userRefs EXCEPT ![w] = @ + 1]
    BY <1>1, <1>15, <2>2 DEF DataTypes
  <2> QED
    BY <1>1, <1>15, <2>1, <2>2 DEF ParseLine, Blocks, DataTypes
<1>16. ASSUME NEW t \in Threads, \/ GetLine \/ Dispatch \/ Take(t) \/ Drop(t) \/ Enqueue(t)
       PROVE  UsersCounted'
  BY <1>5, <1>16 DEF GetLine, Dispatch, Take, Drop, Enqueue
<1> QED
  BY <1>6, <1>7, <1>8, <1>9, <1>10, <1>11, <1>12, <1>13, <1>14, <1>15, <1>16, <1>2, NextCases
  DEF Thread

-----------------------------------------------------------------------------
(* Each line is with one holder at a time. *)

LEMMA LinesStep ==
    ASSUME IInv, Next
    PROVE  LinesApart'
<1>1. ThreadTypes /\ ThreadTypes' /\ DataTypes /\ Positions /\ Positions' /\ LinesApart
  BY ThreadTypesStep, PositionsStep DEF IInv, TypeOK, ThreadTypes, DataTypes
<1>2. /\ {"reader", "songs"} \cap Workers = {}
      /\ "reader" \in Threads /\ "songs" \in Threads
  BY PipelineAssumption
<1>3. CASE GetLine
  <2>1. /\ lines' = lines + 1 /\ posted' = posted /\ items' = items
        /\ line' = [line EXCEPT !["reader"] = lines + 1]
        /\ pc' = [pc EXCEPT !["reader"] = "parse"]
    BY <1>3 DEF GetLine, GoTo
  <2> QED
    BY <1>1, <1>2, <2>1 DEF LinesApart, ThreadTypes, DataTypes
<1>4. CASE ParseLine
  <2>1. /\ lines' = lines /\ posted' = posted /\ items' = items /\ line' = line
        /\ pc["reader"] = "parse" /\ \A t \in Workers : pc'[t] = pc[t]
    BY <1>1, <1>2, <1>4 DEF ParseLine, GoTo, ThreadTypes
  <2> QED
    BY <1>1, <1>2, <2>1 DEF LinesApart, ThreadTypes, DataTypes
<1>5. CASE Dispatch
  <2> DEFINE p == [slot |-> slot["reader"], line |-> line["reader"]]
  <2>1. /\ lines' = lines /\ items' = items /\ line' = line
        /\ pc["reader"] = "dispatch" /\ pc'["reader"] = "drop"
        /\ \A t \in Workers : pc'[t] = pc[t]
        /\ posted' = posted \/ posted' = posted \cup {p}
    BY <1>1, <1>2, <1>5 DEF Dispatch, GoTo, ThreadTypes
  <2>2. p.line = lines /\ lines \in Nat
    BY <1>1, <2>1 DEF LinesApart, DataTypes
  <2> HIDE DEF p
  <2> QED
    BY <1>1, <1>2, <2>1, <2>2 DEF LinesApart, ThreadTypes, DataTypes
<1>6. CASE Serve
  <2>1. PICK i \in items : /\ items' = items \ {i}
                           /\ line' = [line EXCEPT !["songs"] = i.line]
    BY <1>6 DEF Serve
  <2>2. /\ lines' = lines /\ posted' = posted
        /\ \A t \in Workers \cup {"reader"} : pc'[t] = pc[t]
    BY <1>1, <1>2, <1>6 DEF Serve, GoTo, ThreadTypes
  <2> QED
    BY <1>1, <1>2, <2>1, <2>2 DEF LinesApart, ThreadTypes, DataTypes
<1>7. ASSUME NEW t \in Workers, Take(t) PROVE LinesApart'
  <2>1. PICK p \in posted : /\ posted' = posted \ {p}
                            /\ line' = [line EXCEPT ![t] = p.line]
    BY <1>7 DEF Take
  <2>2. /\ lines' = lines /\ items' = items
        /\ pc' = [pc EXCEPT ![t] = "command"]
    BY <1>7 DEF Take, GoTo
  <2> QED
    BY <1>1, <1>2, <2>1, <2>2 DEF LinesApart, ThreadTypes, DataTypes
<1>8. ASSUME NEW t \in Workers, MakeCommand(t) PROVE LinesApart'
  <2>1. /\ lines' = lines /\ posted' = posted /\ items' = items /\ line' = line
        /\ pc[t] = "command" /\ \A o \in Threads \ {t} : pc'[o] = pc[o]
    BY <1>1, <1>2, <1>8 DEF MakeCommand, GoTo, ThreadTypes
  <2> QED
    BY <1>1, <1>2, <2>1 DEF LinesApart, ThreadTypes, DataTypes
<1>9. ASSUME NEW t \in Workers, Execute(t) PROVE LinesApart'
  <2> DEFINE i == [user |-> cmdUser[t], line |-> line[t]]
  <2>1. /\ lines' = lines /\ posted' = posted /\ line' = line
        /\ items' = items \/ items' = items \cup {i}
        /\ pc[t] = "execute" /\ pc' = [pc EXCEPT ![t] = "finish"]
    BY <1>9 DEF Execute, GoTo
  <2>2. i.line = line[t]
    OBVIOUS
  <2> HIDE DEF i
  <2> QED
    BY <1>1, <1>2, <2>1, <2>2 DEF LinesApart, ThreadTypes, DataTypes
<1>10. ASSUME NEW t \in Threads, Thread(t) PROVE LinesApart'
  <2>1. /\ lines' = lines /\ posted' = posted /\ items' = items
        /\ line'[t] \in {0, line[t]}
        /\ pc'[t] \in {"idle", "drop", "reset", "enqueue"}
        /\ \A o \in Threads \ {t} : pc'[o] = pc[o] /\ line'[o] = line[o]
    BY <1>1, <1>10
    DEF Thread, Finish, Drop, Reset, Enqueue, Continue, AfterFinish, AfterRelease, GoTo, ThreadTypes
  <2> QED
    BY <1>1, <1>2, <2>1 DEF LinesApart, ThreadTypes, DataTypes
<1> QED
  BY <1>3, <1>4, <1>5, <1>6, <1>7, <1>8, <1>9, <1>10, NextCases

-----------------------------------------------------------------------------
(* What is held is left alone. *)

\* A user who is held is not written again.
LEMMA UserLeftAlone ==
    ASSUME IInv, Next, NEW u \in Users, userRefs[u] > 0
    PROVE  owner'[u] = owner[u]
<1>1. DataTypes
  BY DEF IInv, TypeOK, DataTypes
<1>2. CASE ParseLine
  <2>1. u \notin freeUsers \cup freshUsers
    BY UserHolders
  <2> QED
    BY <1>1, <1>2, <2>1 DEF ParseLine, Blocks, DataTypes
<1>3. CASE GetLine \/ Dispatch \/ Serve
  BY <1>3 DEF GetLine, Dispatch, Serve
<1>4. ASSUME NEW t \in Workers, Take(t) \/ MakeCommand(t) \/ Execute(t)
      PROVE  owner'[u] = owner[u]
  BY <1>4 DEF Take, MakeCommand, Execute
<1>5. ASSUME NEW t \in Threads, Thread(t)
      PROVE  owner'[u] = owner[u]
  BY <1>5 DEF Thread, Finish, Drop, Reset, Enqueue
<1> QED
  BY <1>2, <1>3, <1>4, <1>5, NextCases

\* A block is written by the reader while it is his alone, and when the last
\* holder gives it back.
LEMMA MessageLeftAlone ==
    ASSUME IInv, Next, NEW s \in Slots, refs[s] > 0,
           pc["reader"] = "parse" => slot["reader"] # s
    PROVE  text'[s] = text[s] /\ user'[s] = user[s] /\ type'[s] = type[s]
<1>1. DataTypes
  BY DEF IInv, TypeOK, DataTypes
<1>2. CASE ParseLine
  BY <1>1, <1>2 DEF ParseLine, DataTypes
<1>3. CASE GetLine \/ Dispatch \/ Serve
  BY <1>3 DEF GetLine, Dispatch, Serve
<1>4. ASSUME NEW t \in Workers, Take(t) \/ MakeCommand(t) \/ Execute(t)
      PROVE  text'[s] = text[s] /\ user'[s] = user[s] /\ type'[s] = type[s]
  BY <1>4 DEF Take, MakeCommand, Execute
<1>5. ASSUME NEW t \in Threads, Finish(t) \/ Drop(t) \/ Enqueue(t)
      PROVE  text'[s] = text[s] /\ user'[s] = user[s] /\ type'[s] = type[s]
  BY <1>5 DEF Finish, Drop, Enqueue
<1>6. ASSUME NEW t \in Threads, Reset(t)
      PROVE  text'[s] = text[s] /\ user'[s] = user[s] /\ type'[s] = type[s]
  <2>1. slot[t] # s
    BY <1>6, MessageHolders DEF Reset, Recycles
  <2> QED
    BY <1>1, <1>6, <2>1 DEF Reset, DataTypes
<1> QED
  BY <1>2, <1>3, <1>4, <1>5, <1>6, NextCases DEF Thread

\* A message that is posted or handled keeps its text, and its author his name.
LEMMA LeftAlone ==
    ASSUME IInv, Next, NEW s \in Slots,
           \/ \E p \in posted : p.slot = s
           \/ \E t \in Workers : slot[t] = s /\ HoldsMessage(t, s)
           \/ pc["reader"] = "dispatch" /\ slot["reader"] = s,
           user[s] # Null
    PROVE  /\ text'[s] = text[s] /\ user'[s] = user[s] /\ type'[s] = type[s]
           /\ owner'[user'[s]] = owner[user[s]]
<1>1. refs[s] > 0
  BY ThreadsFinite, MessageHolders DEF HoldsMessage
<1>2. pc["reader"] = "parse" => slot["reader"] # s
  BY DEF IInv, ReaderAlone
<1>3. text'[s] = text[s] /\ user'[s] = user[s] /\ type'[s] = type[s]
  BY <1>1, <1>2, MessageLeftAlone
<1>4. user[s] \in Users
  BY DEF IInv, TypeOK
<1>5. userRefs[user[s]] > 0
  BY <1>4, UserHolders
<1>6. owner'[user[s]] = owner[user[s]]
  BY <1>4, <1>5, UserLeftAlone
<1> QED
  BY <1>3, <1>6

LEMMA AloneStep ==
    ASSUME IInv, Next
    PROVE  ReaderAlone'
<1>1. ThreadTypes /\ DataTypes /\ Positions /\ Positions' /\ ReaderAlone
  BY PositionsStep DEF IInv, TypeOK, ThreadTypes, DataTypes
<1>2. /\ {"reader", "songs"} \cap Workers = {} /\ Null \notin Slots \cup Users
      /\ "reader" \in Threads /\ "songs" \in Threads
  BY PipelineAssumption
<1>3. CASE GetLine
  <2>1. /\ slot'["reader"] \in free \cup fresh /\ slot'["reader"] \in Slots
        /\ posted' = posted /\ \A t \in Workers : slot'[t] = slot[t]
    BY <1>1, <1>2, <1>3 DEF GetLine, Blocks, ThreadTypes, DataTypes
  <2>2. \A p \in posted : p.slot # slot'["reader"]
    BY <2>1, MessageHolders
  <2>3. ASSUME NEW t \in Workers PROVE slot[t] # slot'["reader"]
    <3>1. slot[t] \in Slots => HoldsMessage(t, slot[t]) \/ Recycles(t, slot[t])
      BY <1>1, <1>2 DEF Positions, HoldsMessage, Recycles
    <3> QED
      BY <2>1, <3>1, MessageHolders
  <2> QED
    BY <2>1, <2>2, <2>3 DEF ReaderAlone
<1>4. CASE ParseLine
  BY <1>1, <1>4 DEF ParseLine, ReaderAlone
<1>5. CASE Dispatch
  BY <1>1, <1>2, <1>5 DEF Dispatch, GoTo, ThreadTypes, ReaderAlone
<1>6. CASE Serve
  BY <1>1, <1>2, <1>6 DEF Serve, GoTo, ThreadTypes, ReaderAlone
<1>7. ASSUME NEW t \in Workers, Take(t) \/ MakeCommand(t) \/ Execute(t)
      PROVE  ReaderAlone'
  BY <1>1, <1>2, <1>7 DEF Take, MakeCommand, Execute, GoTo, ThreadTypes, ReaderAlone
<1>8. ASSUME NEW t \in Threads, Thread(t)
      PROVE  ReaderAlone'
  <2>1. /\ posted' = posted /\ slot'[t] \in {slot[t], Null}
        /\ pc'[t] \in {"idle", "drop", "reset", "enqueue"}
        /\ \A o \in Threads \ {t} : slot'[o] = slot[o] /\ pc'[o] = pc[o]
    BY <1>1, <1>8
    DEF Thread, Finish, Drop, Reset, Enqueue, Continue, AfterFinish, AfterRelease, GoTo, ThreadTypes
  <2>2. slot["reader"] \in Slots \/ pc["reader"] = "idle"
    BY <1>2, Holding
  <2> QED
    BY <1>1, <1>2, <2>1, <2>2 DEF ReaderAlone
<1> QED
  BY <1>3, <1>4, <1>5, <1>6, <1>7, <1>8, NextCases

LEMMA CleanStep ==
    ASSUME IInv, Next
    PROVE  BlocksClean'
<1>1. ThreadTypes /\ DataTypes /\ Positions /\ Positions' /\ BlocksClean
  BY PositionsStep DEF IInv, TypeOK, ThreadTypes, DataTypes
<1>2. /\ {"reader", "songs"} \cap Workers = {} /\ Null \notin Slots \cup Users
      /\ "reader" \in Threads /\ "songs" \in Threads
  BY PipelineAssumption
<1>3. CASE GetLine
  <2>1. /\ slot'["reader"] \in free \cup fresh
        /\ free' \subseteq free /\ fresh' \subseteq fresh
        /\ user' = user /\ tag' = tag /\ pc'["reader"] = "parse"
        /\ \A t \in Threads \ {"reader"} : slot'[t] = slot[t] /\ pc'[t] = pc[t]
    BY <1>1, <1>2, <1>3 DEF GetLine, GoTo, Blocks, ThreadTypes, DataTypes
  <2> QED
    BY <1>1, <1>2, <2>1 DEF BlocksClean, Clean
<1>4. CASE ParseLine
  <2>1. /\ slot["reader"] \in Slots /\ pc["reader"] = "parse"
        /\ HoldsMessage("reader", slot["reader"])
    BY <1>2, <1>4, Holding DEF ParseLine, HoldsMessage
  <2>2. slot["reader"] \notin free \cup fresh
    BY <1>2, <2>1, MessageHolders
  <2>3. \A t \in Workers : slot[t] # slot["reader"]
    BY <2>1 DEF IInv, ReaderAlone
  <2>4. /\ UNCHANGED <<free, fresh, slot>> /\ pc'["reader"] \in {"aborted", "dispatch"}
        /\ \A t \in Threads \ {"reader"} : pc'[t] = pc[t]
        /\ \A s \in Slots \ {slot["reader"]} : user'[s] = user[s] /\ tag'[s] = tag[s]
    BY <1>1, <1>2, <1>4 DEF ParseLine, GoTo, ThreadTypes, DataTypes
  <2>5. \A s \in free \cup fresh : Clean(s)'
    BY <1>1, <2>2, <2>4 DEF BlocksClean, Clean, DataTypes
  <2>6. ASSUME NEW t \in Threads, pc'[t] = "enqueue" PROVE Clean(slot[t])'
    <3>1. t \in Workers
      BY <1>1, <2>4, <2>6 DEF Positions
    <3>2. slot[t] \in Slots \ {slot["reader"]} /\ pc[t] = "enqueue"
      BY <1>2, <2>3, <2>4, <2>6, <3>1, Holding
    <3> QED
      BY <1>1, <2>4, <3>2 DEF BlocksClean, Clean
  <2> QED
    BY <2>4, <2>5, <2>6 DEF BlocksClean
<1>5. CASE Dispatch
  <2>1. /\ UNCHANGED <<free, fresh, slot, user, tag>> /\ pc'["reader"] = "drop"
        /\ \A t \in Threads \ {"reader"} : pc'[t] = pc[t]
    BY <1>1, <1>2, <1>5 DEF Dispatch, GoTo, ThreadTypes
  <2> QED
    BY <1>1, <2>1 DEF BlocksClean, Clean
<1>6. CASE Serve
  <2>1. /\ UNCHANGED <<free, fresh, slot, user, tag>> /\ pc'["songs"] = "finish"
        /\ \A t \in Threads \ {"songs"} : pc'[t] = pc[t]
    BY <1>1, <1>2, <1>6 DEF Serve, GoTo, ThreadTypes
  <2> QED
    BY <1>1, <1>2, <2>1 DEF BlocksClean, Clean
<1>7. ASSUME NEW t \in Workers, Take(t) \/ MakeCommand(t) \/ Execute(t)
      PROVE  BlocksClean'
  <2>1. /\ UNCHANGED <<free, fresh, user, tag>>
        /\ pc'[t] \in {"command", "drop", "execute", "finish"}
        /\ \A o \in Threads \ {t} : pc'[o] = pc[o] /\ slot'[o] = slot[o]
    BY <1>1, <1>7 DEF Take, MakeCommand, Execute, GoTo, ThreadTypes
  <2> QED
    BY <1>1, <1>2, <2>1 DEF BlocksClean, Clean
<1>8. ASSUME NEW t \in Threads, Finish(t) \/ Drop(t)
      PROVE  BlocksClean'
  <2>1. /\ UNCHANGED <<free, fresh, user, tag>>
        /\ pc'[t] \in {"idle", "drop", "reset"}
        /\ \A o \in Threads \ {t} : pc'[o] = pc[o] /\ slot'[o] = slot[o]
    BY <1>1, <1>8
    DEF Finish, Drop, Continue, AfterFinish, AfterRelease, GoTo, ThreadTypes
  <2> QED
    BY <1>1, <1>2, <2>1 DEF BlocksClean, Clean
<1>9. ASSUME NEW t \in Threads, Reset(t)
      PROVE  BlocksClean'
  <2>1. slot[t] \in Slots
    BY <1>9, Holding DEF Reset
  <2>2. /\ UNCHANGED <<free, fresh, slot>> /\ pc'[t] = "enqueue"
        /\ \A o \in Threads \ {t} : pc'[o] = pc[o]
        /\ user' = [user EXCEPT ![slot[t]] = Null] /\ tag' = [tag EXCEPT ![slot[t]] = 0]
    BY <1>1, <1>9 DEF Reset, Continue, AfterRelease, GoTo, ThreadTypes
  <2>3. \A s \in Slots : Clean(s) \/ s = slot[t] => Clean(s)'
    BY <1>1, <2>1, <2>2 DEF Clean, DataTypes
  <2>4. \A o \in Threads : pc[o] = "enqueue" => slot[o] \in Slots
    BY Holding
  <2>5. pc["reader"] = "parse" => slot["reader"] \in Slots
    BY <1>2, Holding
  <2> QED
    BY <1>1, <1>2, <2>1, <2>2, <2>3, <2>4, <2>5 DEF BlocksClean, DataTypes
<1>10. ASSUME NEW t \in Threads, Enqueue(t)
       PROVE  BlocksClean'
  <2>1. /\ UNCHANGED <<fresh, user, tag>> /\ pc'[t] = "idle"
        /\ \A o \in Threads \ {t} : pc'[o] = pc[o] /\ slot'[o] = slot[o]
        /\ free' = free \cup {slot[t]} /\ pc[t] = "enqueue"
    BY <1>1, <1>10 DEF Enqueue, Continue, AfterRelease, GoTo, ThreadTypes
  <2> QED
    BY <1>1, <1>2, <2>1 DEF BlocksClean, Clean
<1> QED
  BY <1>3, <1>4, <1>5, <1>6, <1>7, <1>8, <1>9, <1>10, NextCases DEF Thread

-----------------------------------------------------------------------------
(* Messages and authors. *)

LEMMA ParsedStep ==
    ASSUME IInv, Next
    PROVE  Parsed'
<1>1. ThreadTypes /\ DataTypes /\ Positions /\ Parsed
  BY DEF IInv, TypeOK, ThreadTypes, DataTypes
<1>2. /\ {"reader", "songs"} \cap Workers = {} /\ Null \notin Slots \cup Users
      /\ "reader" \in Threads /\ "songs" \in Threads
  BY PipelineAssumption
<1>3. CASE GetLine
  <2>1. /\ raw' \in Kinds(lines + 1) /\ line'["reader"] = lines + 1
        /\ pc'["reader"] = "parse"
    BY <1>1, <1>2, <1>3 DEF GetLine, GoTo, ThreadTypes
  <2> QED
    BY <2>1 DEF Parsed, Kinds
<1>4. CASE ParseLine
  <2>1. slot["reader"] \in Slots /\ line["reader"] \in Nat
    BY <1>1, <1>2, <1>4, Holding DEF ParseLine, ThreadTypes
  <2>2. slot' = slot /\ line' = line /\ pc'["reader"] # "parse"
    BY <1>1, <1>2, <1>4 DEF ParseLine, GoTo, ThreadTypes
  <2>3. ASSUME pc'["reader"] = "dispatch", type'[slot["reader"]] \in ForPool
        PROVE  /\ text'[slot["reader"]] = line["reader"]
               /\ user'[slot["reader"]] \in Users
               /\ owner'[user'[slot["reader"]]].name = line["reader"]
    <3>1. PICK u \in Users :
              /\ user' = [user EXCEPT ![slot["reader"]] = u]
              /\ \E id : owner' = [owner EXCEPT ![u] = [id |-> id, name |-> line["reader"]]]
              /\ text' = [text EXCEPT ![slot["reader"]] =
                             IF raw.type \in ForPool THEN line["reader"] ELSE @]
              /\ type' = [type EXCEPT ![slot["reader"]] = raw.type]
      BY <1>1, <1>2, <1>4, <2>3 DEF ParseLine, GoTo, Blocks, ThreadTypes, DataTypes
    <3>2. raw.type \in ForPool
      BY <1>1, <2>1, <2>3, <3>1 DEF DataTypes
    <3> QED
      BY <1>1, <2>1, <3>1, <3>2 DEF DataTypes
  <2> QED
    BY <1>2, <2>2, <2>3 DEF Parsed
<1>5. ASSUME NEW t \in Threads,
             \/ t = "reader" /\ Thread(t)
             \/ /\ t # "reader"
                /\ \/ t = "songs" /\ Serve
                   \/ t \in Workers /\ (Take(t) \/ MakeCommand(t) \/ Execute(t))
                   \/ Thread(t)
      PROVE  Parsed'
  <2>1. CASE t = "reader" /\ Thread(t)
    <3>1. pc'["reader"] \notin {"parse", "dispatch"}
      BY <1>1, <1>2, <2>1
      DEF Thread, Finish, Drop, Reset, Enqueue, Continue, AfterFinish, AfterRelease,
          GoTo, ThreadTypes
    <3> QED
      BY <3>1 DEF Parsed
  <2>2. CASE t # "reader"
    <3>1. MovesOnly(t)
      BY <1>2, <1>5, <2>2, OneMoves, <2>1
    <3>2. /\ pc'["reader"] = pc["reader"] /\ slot'["reader"] = slot["reader"]
          /\ line'["reader"] = line["reader"]
      BY <1>2, <2>2, <3>1 DEF MovesOnly
    <3>3. raw' = raw /\ type' = type
      BY <1>5, <2>2, <2>1
      DEF Serve, Take, MakeCommand, Execute, Thread, Finish, Drop, Reset, Enqueue
    <3>4. ASSUME pc["reader"] = "dispatch", type[slot["reader"]] \in ForPool
          PROVE  /\ text'[slot["reader"]] = line["reader"]
                 /\ user'[slot["reader"]] # Null
                 /\ owner'[user'[slot["reader"]]].name = line["reader"]
      <4>1. /\ text[slot["reader"]] = line["reader"] /\ user[slot["reader"]] # Null
            /\ owner[user[slot["reader"]]].name = line["reader"]
        BY <1>1, <3>4 DEF Parsed
      <4>2. slot["reader"] \in Slots
        BY <1>2, <3>4, Holding
      <4>3. text'[slot["reader"]] = text[slot["reader"]] /\ user'[slot["reader"]] = user[slot["reader"]] /\ owner'[user'[slot["reader"]]] = owner[user[slot["reader"]]]
        BY <3>4, <4>1, <4>2, LeftAlone
      <4> QED
        BY <4>1, <4>3
    <3> QED
      BY <1>1, <3>2, <3>3, <3>4 DEF Parsed
  <2> QED
    BY <1>5, <2>1, <2>2
<1>6. CASE Serve
  BY <1>2, <1>5, <1>6
<1>7. ASSUME NEW t \in Workers, Take(t) \/ MakeCommand(t) \/ Execute(t) PROVE Parsed'
  <2>1. t \in Threads /\ t # "reader"
    BY <1>2
  <2> QED
    BY <1>5, <1>7, <2>1
<1>8. ASSUME NEW t \in Threads, Thread(t) PROVE Parsed'
  BY <1>5, <1>8
<1>9. CASE Dispatch
  <2>1. pc'["reader"] = "drop"
    BY <1>1, <1>2, <1>9 DEF Dispatch, GoTo, ThreadTypes
  <2> QED
    BY <2>1 DEF Parsed
<1> QED
  BY <1>3, <1>4, <1>6, <1>7, <1>8, <1>9, NextCases

LEMMA KeptStep ==
    ASSUME IInv, Next
    PROVE  MessageKept'
<1>1. ThreadTypes /\ DataTypes /\ Positions /\ MessageKept
  BY DEF IInv, TypeOK, ThreadTypes, DataTypes
<1>2. /\ {"reader", "songs"} \cap Workers = {} /\ Null \notin Slots \cup Users
      /\ "reader" \in Threads /\ "songs" \in Threads
  BY PipelineAssumption
<1> DEFINE Keeps(s, n) == text[s] = n /\ user[s] # Null /\ owner[user[s]].name = n
           Works(t) == t \in Workers /\ pc[t] \in {"command", "execute", "finish"}
<1>3. ASSUME NEW p \in posted PROVE Keeps(p.slot, p.line)'
  <2>1. p.slot \in Slots /\ Keeps(p.slot, p.line)
    BY <1>1 DEF DataTypes, MessageKept
  <2> QED
    BY <2>1, LeftAlone
<1>4. ASSUME NEW p \in posted' \ posted PROVE Keeps(p.slot, p.line)'
  <2>1. Dispatch
    <3>1. \A t \in Threads : ~Thread(t)
      BY <1>4 DEF Thread, Finish, Drop, Reset, Enqueue
    <3>2. ~GetLine /\ ~ParseLine /\ ~Serve
      BY <1>4 DEF GetLine, ParseLine, Serve
    <3>3. \A t \in Workers : ~(Take(t) \/ MakeCommand(t) \/ Execute(t))
      BY <1>4 DEF Take, MakeCommand, Execute
    <3> QED
      BY <3>1, <3>2, <3>3, NextCases
  <2>2. /\ p.slot = slot["reader"] /\ p.line = line["reader"]
        /\ type[slot["reader"]] \in ForPool /\ pc["reader"] = "dispatch"
        /\ UNCHANGED <<text, user, owner>>
    BY <1>4, <2>1 DEF Dispatch
  <2> QED
    BY <2>2 DEF IInv, Parsed
<1>5. ASSUME NEW t \in Workers, Works(t)'
      PROVE  \/ Works(t) /\ slot'[t] = slot[t] /\ line'[t] = line[t]
             \/ \E p \in posted : slot'[t] = p.slot /\ line'[t] = p.line
  <2>1. CASE Take(t)
    BY <1>1, <2>1 DEF Take, ThreadTypes
  <2>2. CASE MakeCommand(t) \/ Execute(t)
    BY <1>1, <1>5, <2>2 DEF MakeCommand, Execute, GoTo, ThreadTypes
  <2>3. CASE Thread(t)
    BY <1>1, <1>5, <2>3
    DEF Thread, Finish, Drop, Reset, Enqueue, Continue, AfterFinish, AfterRelease, GoTo, ThreadTypes
  <2>4. ASSUME NEW o \in Threads, MovesOnly(o), o # t
        PROVE  Works(t) /\ slot'[t] = slot[t] /\ line'[t] = line[t]
    BY <1>5, <2>4 DEF MovesOnly
  <2> QED
    BY <1>2, <2>1, <2>2, <2>3, <2>4, OneMoves, NextCases
<1>6. ASSUME NEW t \in Workers, Works(t)' PROVE Keeps(slot[t], line[t])'
  <2>1. CASE \E p \in posted : slot'[t] = p.slot /\ line'[t] = p.line
    BY <1>3, <2>1
  <2>2. CASE Works(t) /\ slot'[t] = slot[t] /\ line'[t] = line[t]
    <3>1. slot[t] \in Slots /\ HoldsMessage(t, slot[t])
      BY <1>2, <2>2, Holding DEF HoldsMessage
    <3>2. Keeps(slot[t], line[t])
      BY <1>1, <2>2 DEF MessageKept
    <3> QED
      BY <2>2, <3>1, <3>2, LeftAlone
  <2> QED
    BY <1>5, <1>6, <2>1, <2>2
<1> QED
  BY <1>3, <1>4, <1>6 DEF MessageKept

LEMMA AuthorsStep ==
    ASSUME IInv, Next
    PROVE  AuthorsKept'
<1>1. ThreadTypes /\ ThreadTypes' /\ DataTypes /\ DataTypes' /\ Positions /\ Positions' /\ UserKept
  BY ThreadTypesStep, DataTypesStep, PositionsStep
  DEF IInv, TypeOK, ThreadTypes, DataTypes, AuthorsKept
<1>2. /\ {"reader", "songs"} \cap Workers = {} /\ Null \notin Slots \cup Users
      /\ "reader" \in Threads /\ "songs" \in Threads
  BY PipelineAssumption
<1> DEFINE Named(u, n) == u \in Users /\ userRefs[u] > 0 /\ owner[u].name = n
<1>3. ASSUME NEW u, NEW n, Named(u, n) PROVE owner'[u].name = n
  BY <1>3, UserLeftAlone
<1>4. ASSUME NEW t \in Threads, cmdUser[t] # Null PROVE Named(cmdUser[t], line[t])
  <2>1. cmdUser[t] \in Users
    BY <1>1, <1>4 DEF ThreadTypes
  <2> QED
    BY <1>1, <1>4, <2>1, UserHolders DEF UserKept
<1>5. ASSUME NEW i \in items PROVE Named(i.user, i.line)
  <2>1. i.user \in Users
    BY <1>1 DEF DataTypes
  <2> QED
    BY <1>1, <2>1, UserHolders DEF UserKept
<1>6. ASSUME NEW t \in Threads, cmdUser'[t] # Null
      PROVE  \E u \in Users, n \in Nat : Named(u, n) /\ cmdUser'[t] = u /\ line'[t] = n
  <2>1. CASE t = "songs" /\ Serve
    <3>1. PICK i \in items : cmdUser'[t] = i.user /\ line'[t] = i.line
      BY <1>1, <1>2, <2>1 DEF Serve, ThreadTypes
    <3> QED
      BY <1>1, <1>5, <3>1 DEF DataTypes
  <2>2. CASE t \in Workers /\ MakeCommand(t)
    <3>1. pc[t] = "command" /\ slot[t] \in Slots /\ cmdUser[t] = Null /\ line'[t] = line[t]
      BY <1>1, <1>2, <2>2, Holding DEF MakeCommand, Positions
    <3>2. cmdUser'[t] = user[slot[t]]
      BY <1>1, <1>6, <2>2, <3>1 DEF MakeCommand, ThreadTypes
    <3>3. /\ user[slot[t]] \in Users
          /\ owner[user[slot[t]]].name = line[t]
      BY <1>1, <2>2, <3>1 DEF IInv, MessageKept, DataTypes
    <3>4. userRefs[user[slot[t]]] > 0
      BY <3>1, <3>3, UserHolders
    <3> QED
      BY <1>1, <3>1, <3>2, <3>3, <3>4 DEF ThreadTypes
  <2>3. CASE t \in Workers /\ Execute(t)
    <3>1. cmdUser'[t] = cmdUser[t] /\ line'[t] = line[t]
      BY <2>3 DEF Execute
    <3> QED
      BY <1>1, <1>4, <1>6, <3>1 DEF ThreadTypes
  <2>4. CASE t = "reader"
    BY <1>1, <1>6, <2>4 DEF Positions
  <2>5. CASE t \in Workers /\ Take(t)
    <3>1. pc'[t] = "command"
      BY <1>1, <2>5 DEF Take, GoTo, ThreadTypes
    <3> QED
      BY <1>1, <1>6, <3>1 DEF Positions
  <2>6. CASE Thread(t)
    <3>1. pc'[t] \in {"idle", "drop", "reset", "enqueue"}
      BY <1>1, <2>6
      DEF Thread, Finish, Drop, Reset, Enqueue, Continue, AfterFinish, AfterRelease, GoTo, ThreadTypes
    <3> QED
      BY <1>1, <1>6, <3>1 DEF Positions
  <2>7. ASSUME NEW o \in Threads, MovesOnly(o), o # t
        PROVE  cmdUser'[t] = cmdUser[t] /\ line'[t] = line[t]
    BY <2>7 DEF MovesOnly
  <2>8. CASE cmdUser'[t] = cmdUser[t] /\ line'[t] = line[t]
    BY <1>1, <1>4, <1>6, <2>8 DEF ThreadTypes
  <2> QED
    BY <1>2, <2>1, <2>2, <2>3, <2>4, <2>5, <2>6, <2>7, <2>8, OneMoves, NextCases
<1>7. ASSUME NEW i \in items' PROVE Named(i.user, i.line)
  <2>1. CASE i \in items
    BY <1>5, <2>1
  <2>2. CASE \E t \in Workers : Execute(t) /\ i = [user |-> cmdUser[t], line |-> line[t]]
    <3>1. PICK t \in Workers : Execute(t) /\ i = [user |-> cmdUser[t], line |-> line[t]]
      BY <2>2
    <3>2. cmdUser[t] # Null
      BY <1>1, <3>1 DEF Execute, Positions
    <3> QED
      BY <1>4, <3>1, <3>2
  <2>3. ASSUME i \notin items, NEW t \in Workers, Execute(t)
        PROVE  i = [user |-> cmdUser[t], line |-> line[t]]
    BY <1>7, <2>3 DEF Execute
  <2>4. CASE i \notin items /\ ~\E t \in Workers : Execute(t)
    <3>1. \A t \in Threads : ~Thread(t)
      BY <1>7, <2>4 DEF Thread, Finish, Drop, Reset, Enqueue
    <3>2. ~GetLine /\ ~ParseLine /\ ~Serve /\ ~Dispatch
      BY <1>7, <2>4 DEF GetLine, ParseLine, Serve, Dispatch
    <3>3. \A t \in Workers : ~(Take(t) \/ MakeCommand(t))
      BY <1>7, <2>4 DEF Take, MakeCommand
    <3> QED
      BY <2>4, <3>1, <3>2, <3>3, NextCases
  <2> QED
    BY <2>1, <2>2, <2>3, <2>4
<1>8. UserKept'
  <2>1. ASSUME NEW t \in Threads, cmdUser'[t] # Null PROVE owner'[cmdUser'[t]].name = line'[t]
    BY <1>3, <1>6, <2>1
  <2>2. ASSUME NEW i \in items' PROVE owner'[i.user].name = i.line
    BY <1>3, <1>7
  <2> QED
    BY <2>1, <2>2 DEF UserKept
<1>9. ASSUME NEW u \in Users, userRefs'[u] > 0
      PROVE  owner'[u].id \in {0, owner'[u].name}
  <2>1. CASE userRefs[u] > 0
    <3>1. owner[u].id \in {0, owner[u].name}
      BY <2>1 DEF IInv, AuthorsKept, OwnIdOrNone
    <3> QED
      BY <2>1, <3>1, UserLeftAlone
  <2>2. CASE userRefs[u] = 0
    <3>1. ParseLine
      <4>1. userRefs' # userRefs
        BY <1>9, <2>2
      <4>2. ~(GetLine \/ Dispatch \/ Serve)
        BY <4>1 DEF GetLine, Dispatch, Serve
      <4>3. ASSUME NEW t \in Workers PROVE ~(Take(t) \/ Execute(t) \/ MakeCommand(t))
        <5>1. ~Take(t)
          BY <4>1 DEF Take
        <5>2. ~Execute(t)
          <6>1. SUFFICES ASSUME Execute(t) PROVE FALSE
            OBVIOUS
          <6>2. cmdUser[t] \in Users /\ userRefs[cmdUser[t]] > 0
            BY <1>1, <6>1, Holding, UserHolders DEF Execute
          <6> QED
            BY <1>1, <1>9, <2>2, <6>1, <6>2 DEF Execute, DataTypes
        <5>3. ~MakeCommand(t)
          <6>1. SUFFICES ASSUME MakeCommand(t) PROVE FALSE
            OBVIOUS
          <6>2. slot[t] \in Slots /\ pc[t] = "command"
            BY <1>2, <6>1, Holding DEF MakeCommand
          <6>3. user[slot[t]] \in Users
            BY <1>1, <6>2 DEF IInv, MessageKept, DataTypes
          <6>4. userRefs[user[slot[t]]] > 0
            BY <6>2, <6>3, UserHolders
          <6> QED
            BY <1>1, <1>9, <2>2, <6>1, <6>3, <6>4 DEF MakeCommand, DataTypes
        <5> QED
          BY <5>1, <5>2, <5>3
      <4>4. ASSUME NEW t \in Threads PROVE ~Thread(t)
        <5>1. ~(Drop(t) \/ Enqueue(t))
          BY <4>1 DEF Drop, Enqueue
        <5>2. ~\E w \in Users : ReleaseUser(w) /\ userRefs[w] > 0
          BY <1>1, <1>9, <2>2 DEF ReleaseUser, DataTypes
        <5>3. Finish(t) => \E w \in Users : ReleaseUser(w) /\ userRefs[w] > 0
          BY Holding, UserHolders DEF Finish
        <5>4. Reset(t) => \E w \in Users : ReleaseUser(w) /\ userRefs[w] > 0
          BY <1>1, <4>1, Holding, UserHolders DEF Reset, DataTypes
        <5> QED
          BY <5>1, <5>2, <5>3, <5>4 DEF Thread
      <4> QED
        BY <4>2, <4>3, <4>4, NextCases
    <3>2. pc["reader"] = "parse" /\ slot["reader"] \in Slots /\ line["reader"] \in Nat
      BY <1>1, <1>2, <3>1, Holding DEF ParseLine, ThreadTypes
    <3>3. tag[slot["reader"]] = 0 /\ raw.id \in {0, line["reader"]}
      BY <3>2 DEF IInv, BlocksClean, Clean, Parsed, Kinds
    <3>4. PICK w \in Users, id \in {0, line["reader"]} :
              /\ userRefs' = [userRefs EXCEPT ![w] = @ + 1]
              /\ owner' = [owner EXCEPT ![w] = [id |-> id, name |-> line["reader"]]]
      BY <1>1, <1>9, <2>2, <3>1, <3>3 DEF ParseLine, Blocks, DataTypes
    <3>5. u = w
      BY <1>1, <1>9, <2>2, <3>4 DEF DataTypes
    <3> QED
      BY <1>1, <3>4, <3>5 DEF DataTypes
  <2> QED
    BY <1>1, <2>1, <2>2 DEF DataTypes
<1> QED
  BY <1>8, <1>9 DEF AuthorsKept, OwnIdOrNone

-----------------------------------------------------------------------------
(* A step, as the readers of the messages see it. *)

\* A message that is posted or handled keeps its content.
LEMMA ContentKept ==
    ASSUME IInv, Next, NEW s \in Slots,
           \/ \E p \in posted : p.slot = s
           \/ \E t \in Workers : slot[t] = s /\ HoldsMessage(t, s)
           \/ pc["reader"] = "dispatch" /\ slot["reader"] = s,
           user[s] # Null
    PROVE  user'[s] = user[s] /\ Content(s, user[s])' = Content(s, user[s])
<1>1. user[s] \in Users
  BY DEF IInv, TypeOK
<1>2. text'[s] = text[s] /\ user'[s] = user[s] /\ owner'[user'[s]] = owner[user[s]]
  BY LeftAlone
<1> QED
  BY <1>1, <1>2 DEF Content, Author

\* A user whom a thread or a request holds keeps his name and id.
LEMMA AuthorKept ==
    ASSUME IInv, Next, NEW u \in Users,
           (\E t \in Threads : cmdUser[t] = u) \/ (\E i \in items : i.user = u)
    PROVE  Author(u)' = Author(u)
<1>1. userRefs[u] > 0
  BY UserHolders
<1> QED
  BY <1>1, UserLeftAlone DEF Author

LEMMA SameWaiting ==
    ASSUME IInv, Next
    PROVE  \A p \in posted : Content(p.slot, user[p.slot])' = Content(p.slot, user[p.slot])
<1> SUFFICES ASSUME NEW p \in posted
             PROVE  Content(p.slot, user[p.slot])' = Content(p.slot, user[p.slot])
  OBVIOUS
<1>1. p.slot \in Slots /\ user[p.slot] # Null
  BY DEF IInv, TypeOK, MessageKept
<1> QED
  BY <1>1, ContentKept

LEMMA SameRequests ==
    ASSUME IInv, Next
    PROVE  \A i \in items : i.user \in Users /\ Author(i.user)' = Author(i.user)
<1> SUFFICES ASSUME NEW i \in items
             PROVE  i.user \in Users /\ Author(i.user)' = Author(i.user)
  OBVIOUS
<1>1. i.user \in Users
  BY DEF IInv, TypeOK
<1> QED
  BY <1>1, AuthorKept

\* A worker that stays where it is has the same message in hand.
LEMMA SameHandled ==
    ASSUME IInv, Next, NEW t \in Workers,
           pc'[t] = pc[t], slot'[t] = slot[t], cmdUser'[t] = cmdUser[t]
    PROVE  Handled(t)' = Handled(t)
<1>1. t \in Threads /\ t # "songs"
  BY PipelineAssumption
<1>2. CASE pc[t] \in {"command", "execute"}
  <2>1. slot[t] \in Slots /\ HoldsMessage(t, slot[t])
    BY <1>1, <1>2, Holding DEF HoldsMessage
  <2>2. user[slot[t]] # Null
    BY <1>2 DEF IInv, MessageKept
  <2>3. /\ user'[slot[t]] = user[slot[t]]
        /\ Content(slot[t], user[slot[t]])' = Content(slot[t], user[slot[t]])
    BY <2>1, <2>2, ContentKept
  <2>4. pc[t] = "execute" => cmdUser[t] \in Users /\ Author(cmdUser[t])' = Author(cmdUser[t])
    BY <1>1, Holding, AuthorKept
  <2>5. text'[slot[t]] = text[slot[t]]
    BY <2>1, <2>2, LeftAlone
  <2> QED
    BY <1>2, <2>3, <2>4, <2>5 DEF Handled, Content
<1>3. CASE pc[t] \notin {"command", "execute"}
  BY <1>3 DEF Handled
<1> QED
  BY <1>2, <1>3

LEMMA SameServed ==
    ASSUME IInv, Next, pc'["songs"] = pc["songs"], cmdUser'["songs"] = cmdUser["songs"]
    PROVE  Served' = Served
<1>1. pc["songs"] = "finish" =>
         cmdUser["songs"] \in Users /\ Author(cmdUser["songs"])' = Author(cmdUser["songs"])
  BY ThreadsFinite, Holding, AuthorKept
<1> QED
  BY <1>1 DEF Served

LEMMA SameReading ==
    ASSUME IInv, Next, UNCHANGED raw, pc'["reader"] = pc["reader"],
           slot'["reader"] = slot["reader"], line'["reader"] = line["reader"]
    PROVE  Reading' = Reading
<1>1. CASE pc["reader"] = "dispatch"
  <2>1. slot["reader"] \in Slots /\ HoldsMessage("reader", slot["reader"])
    BY <1>1, ThreadsFinite, Holding DEF HoldsMessage
  <2>2. refs[slot["reader"]] > 0
    BY <2>1, ThreadsFinite, MessageHolders
  <2>3. type'[slot["reader"]] = type[slot["reader"]]
    BY <1>1, <2>1, <2>2, MessageLeftAlone
  <2>4. type[slot["reader"]] \in ForPool =>
           Content(slot["reader"], user[slot["reader"]])' = Content(slot["reader"], user[slot["reader"]])
    BY <1>1, <2>1, ContentKept DEF IInv, Parsed
  <2> QED
    BY <1>1, <2>3, <2>4 DEF Reading
<1>2. CASE pc["reader"] # "dispatch"
  BY <1>2 DEF Reading
<1> QED
  BY <1>1, <1>2

\* What a thread does not touch looks the same after its step.
LEMMA SameForOthers ==
    ASSUME IInv, Next, NEW t \in Threads, MovesOnly(t)
    PROVE  /\ t # "reader" /\ raw' = raw => Reading' = Reading
           /\ \A o \in Workers \ {t} : Handled(o)' = Handled(o)
           /\ t # "songs" => Served' = Served
           /\ posted' = posted => Waiting' = Waiting
           /\ items' = items => Requests' = Requests
<1>1. t # "reader" /\ raw' = raw => Reading' = Reading
  BY ThreadsFinite, SameReading DEF MovesOnly
<1>2. ASSUME NEW o \in Workers \ {t} PROVE Handled(o)' = Handled(o)
  BY SameHandled DEF MovesOnly
<1>3. t # "songs" => Served' = Served
  BY ThreadsFinite, SameServed DEF MovesOnly
<1>4. posted' = posted => Waiting' = Waiting
  BY SameWaiting DEF Waiting
<1>5. items' = items => Requests' = Requests
  BY SameRequests DEF Requests
<1> QED
  BY <1>1, <1>2, <1>3, <1>4, <1>5

\* What the workers have in hand, when one of them moves, or none.
InHand == [t \in Workers |-> Handled(t)]

LEMMA InHandSame ==
    ASSUME IInv, Next, NEW t \in Threads, MovesOnly(t), t \in Workers => Handled(t)' = Handled(t)
    PROVE  InHand' = InHand
<1>1. \A o \in Workers : Handled(o)' = Handled(o)
  BY SameForOthers
<1> QED
  BY <1>1 DEF InHand

LEMMA InHandStep ==
    ASSUME IInv, Next, NEW t \in Workers, MovesOnly(t)
    PROVE  InHand' = [InHand EXCEPT ![t] = Handled(t)']
<1>1. \A o \in Workers \ {t} : Handled(o)' = Handled(o)
  BY SameForOthers
<1>2. \A o \in Workers : InHand'[o] = [InHand EXCEPT ![t] = Handled(t)'][o]
  BY <1>1 DEF InHand
<1> QED
  BY <1>2 DEF InHand

\* The read handler's steps.
LEMMA ReaderByValue ==
    ASSUME IInv, Next, GetLine \/ ParseLine \/ Dispatch
    PROVE  ByValue!Read \/ ByValue!Post \/ UNCHANGED ByValue!vars
<1>1. /\ ThreadTypes /\ ThreadTypes' /\ DataTypes /\ DataTypes' /\ Positions
      /\ Null \notin Slots \cup Users
      /\ {"reader", "songs"} \cap Workers = {} /\ "reader" \in Threads
  BY ThreadTypesStep, DataTypesStep, PipelineAssumption DEF IInv, TypeOK, ThreadTypes, DataTypes
<1>2. MovesOnly("reader") /\ items' = items
  BY <1>1, OneMoves DEF GetLine, ParseLine, Dispatch
<1>3. Served' = Served /\ Requests' = Requests /\ InHand' = InHand
  BY <1>1, <1>2, SameForOthers, InHandSame
<1>4. posted' = posted => Waiting' = Waiting
  BY <1>1, <1>2, SameForOthers
<1>5. CASE GetLine
  <2>1. Reading = {} /\ posted' = posted /\ lines' = lines + 1
    BY <1>5 DEF GetLine, Reading
  <2>2. /\ pc'["reader"] = "parse" /\ line'["reader"] = lines + 1
        /\ raw' \in Kinds(lines + 1)
    BY <1>1, <1>5 DEF GetLine, GoTo, ThreadTypes
  <2>3. \/ Reading' = {}
        \/ \E id \in {0, lines'} : Reading' = {ByValue!Message(lines', id)}
    BY <2>1, <2>2 DEF Reading, Kinds, ByValue!Message
  <2> QED
    BY <1>3, <1>4, <2>1, <2>3 DEF ByValue!Read, InHand
<1>6. CASE ParseLine
  <2> DEFINE s == slot["reader"]
             n == line["reader"]
  <2>1. /\ pc["reader"] = "parse" /\ s \in Slots /\ n \in Nat
        /\ slot' = slot /\ line' = line /\ posted' = posted /\ lines' = lines
    BY <1>1, <1>6, Holding DEF ParseLine, ThreadTypes
  <2>2. tag[s] = 0 /\ raw \in Kinds(n) /\ raw.id \in Nat
    BY <1>1, <2>1 DEF IInv, BlocksClean, Clean, Parsed, DataTypes
  <2>3. CASE pc'["reader"] = "aborted"
    <3>1. raw' = raw
      BY <1>1, <1>6, <2>3 DEF ParseLine, GoTo, ThreadTypes
    <3> QED
      BY <1>3, <1>4, <2>1, <2>3, <3>1 DEF Reading, ByValue!vars, InHand
  <2>4. CASE pc'["reader"] # "aborted"
    <3>1. PICK u \in Users :
             /\ owner' = [owner EXCEPT ![u] = [id |-> raw.id, name |-> n]]
             /\ user' = [user EXCEPT ![s] = u]
             /\ text' = [text EXCEPT ![s] = IF raw.type \in ForPool THEN n ELSE @]
             /\ type' = [type EXCEPT ![s] = raw.type]
             /\ pc' = [pc EXCEPT !["reader"] = "dispatch"]
      BY <1>1, <1>6, <2>1, <2>2, <2>4 DEF ParseLine, Blocks, GoTo, ThreadTypes, DataTypes
    <3>2. pc'["reader"] = "dispatch" /\ type'[s] = raw.type /\ user'[s] = u
      BY <1>1, <2>1, <3>1 DEF ThreadTypes, DataTypes
    <3>3. owner'[u] = [id |-> raw.id, name |-> n]
      BY <1>1, <3>1 DEF DataTypes
    <3>4. raw.type \in ForPool => text'[s] = n
      BY <1>1, <2>1, <3>1 DEF DataTypes
    <3>5. raw.type \in ForPool =>
             Content(s, user[s])' = [text |-> n, author |-> [id |-> raw.id, name |-> n]]
      BY <2>1, <3>2, <3>3, <3>4 DEF Content, Author
    <3>6. Reading' = Reading
      BY <2>1, <3>2, <3>5 DEF Reading
    <3> QED
      BY <1>3, <1>4, <2>1, <3>6 DEF ByValue!vars, InHand
  <2> QED
    BY <2>3, <2>4
<1>7. CASE Dispatch
  <2>1. /\ pc["reader"] = "dispatch" /\ pc'["reader"] = "drop" /\ lines' = lines
        /\ UNCHANGED <<text, user, owner>>
    BY <1>1, <1>7 DEF Dispatch, GoTo, ThreadTypes
  <2>2. Reading' = {}
    BY <2>1 DEF Reading
  <2>3. CASE type[slot["reader"]] \in ForPool
    <3>1. Reading = {Content(slot["reader"], user[slot["reader"]])}
      BY <2>1, <2>3 DEF Reading
    <3>2. posted' = posted \cup {[slot |-> slot["reader"], line |-> line["reader"]]}
      BY <1>7, <2>3 DEF Dispatch
    <3> DEFINE p == [slot |-> slot["reader"], line |-> line["reader"]]
               Of(q) == Content(q.slot, user[q.slot])
    <3>3. \A q : Of(q)' = Of(q)
      BY <2>1 DEF Content, Author
    <3>4. Waiting = {Of(q) : q \in posted} /\ Waiting' = {Of(q) : q \in posted'}
      BY <3>3 DEF Waiting
    <3>5. Waiting' = Waiting \cup {Of(p)}
      <4> HIDE DEF Of, p
      <4> QED
        BY <3>2, <3>4 DEF p
    <3>6. Waiting' = Waiting \cup {Content(slot["reader"], user[slot["reader"]])}
      BY <3>5
    <3> QED
      BY <1>3, <2>1, <2>2, <3>1, <3>6 DEF ByValue!Post, InHand
  <2>4. CASE type[slot["reader"]] \notin ForPool
    <3>1. Reading = {} /\ posted' = posted
      BY <1>7, <2>1, <2>4 DEF Reading, Dispatch
    <3> QED
      BY <1>3, <1>4, <2>1, <2>2, <3>1 DEF ByValue!vars, InHand
  <2> QED
    BY <2>3, <2>4
<1> QED
  BY <1>5, <1>6, <1>7

\* The steps of a thread of the pool.
LEMMA WorkerByValue ==
    ASSUME IInv, Next, NEW t \in Workers, Take(t) \/ MakeCommand(t) \/ Execute(t)
    PROVE  ByValue!Take(t) \/ ByValue!Handle(t) \/ UNCHANGED ByValue!vars
<1>1. /\ ThreadTypes /\ DataTypes /\ Positions /\ t \in Threads
      /\ t # "reader" /\ t # "songs" /\ Null \notin Slots \cup Users
  BY PipelineAssumption DEF IInv, TypeOK, ThreadTypes, DataTypes
<1>2. MovesOnly(t)
  BY <1>1, OneMoves
<1>3. lines' = lines /\ raw' = raw /\ UNCHANGED <<text, user, owner>>
  BY DEF Take, MakeCommand, Execute
<1>4. Reading' = Reading /\ Served' = Served
  BY <1>1, <1>2, <1>3, SameForOthers
<1>5. InHand' = [InHand EXCEPT ![t] = Handled(t)'] /\ InHand[t] = Handled(t)
  BY <1>2, InHandStep DEF InHand
<1>6. posted' = posted => Waiting' = Waiting
  BY <1>1, <1>2, SameForOthers
<1>7. items' = items => Requests' = Requests
  BY <1>1, <1>2, SameForOthers
<1>8. CASE Take(t)
  <2> DEFINE Of(q) == Content(q.slot, user[q.slot])
  <2>1. PICK p \in posted : posted' = posted \ {p} /\ slot'[t] = p.slot
    BY <1>1, <1>8 DEF Take, ThreadTypes
  <2>2. items' = items /\ pc[t] = "idle" /\ pc'[t] = "command"
    BY <1>1, <1>8 DEF Take, GoTo, ThreadTypes
  <2>3. Handled(t) = {} /\ Handled(t)' = {Of(p)}
    BY <1>3, <2>1, <2>2 DEF Handled, Content, Author
  <2>4. \A q \in posted \ {p} : Of(q) # Of(p)
    <3>1. \A q \in posted : Of(q).text = q.line
      BY DEF IInv, MessageKept, Content
    <3> QED
      BY <2>1, <3>1 DEF IInv, LinesApart
  <2>5. \A q : Of(q)' = Of(q)
    BY <1>3 DEF Content, Author
  <2>6. Waiting = {Of(q) : q \in posted} /\ Waiting' = {Of(q) : q \in posted'}
    BY <2>5 DEF Waiting
  <2>7. Of(p) \in Waiting /\ Waiting' = Waiting \ {Of(p)}
    <3> HIDE DEF Of
    <3> QED
      BY <2>1, <2>4, <2>6
  <2>8. InHand[t] = {} /\ InHand' = [InHand EXCEPT ![t] = {Of(p)}]
    BY <1>5, <2>3
  <2> HIDE DEF Of
  <2>9. ByValue!Take(t)
    BY <1>3, <1>4, <1>7, <2>2, <2>7, <2>8 DEF ByValue!Take, InHand
  <2> QED
    BY <2>9
<1>9. CASE MakeCommand(t)
  <2>1. pc[t] = "command" /\ slot'[t] = slot[t] /\ slot[t] \in Slots
        /\ posted' = posted /\ items' = items
    BY <1>1, <1>9, Holding DEF MakeCommand
  <2>2. Handled(t) = {Content(slot[t], user[slot[t]])}
    BY <2>1 DEF Handled
  <2>3. CASE pc'[t] = "drop"
    <3>1. InHand' = [InHand EXCEPT ![t] = {}]
      BY <1>5, <2>3 DEF Handled
    <3> QED
      BY <1>3, <1>4, <1>5, <1>6, <1>7, <2>1, <2>2, <3>1 DEF ByValue!Handle, InHand
  <2>4. CASE pc'[t] # "drop"
    <3>1. pc'[t] = "execute" /\ cmdUser'[t] = user[slot[t]]
      BY <1>1, <1>9, <2>4 DEF MakeCommand, GoTo, ThreadTypes
    <3>2. Handled(t)' = Handled(t)
      BY <1>3, <2>1, <2>2, <3>1 DEF Handled, Content, Author
    <3>3. InHand' = InHand
      BY <1>1, <1>2, <3>2, InHandSame
    <3> QED
      BY <1>3, <1>4, <1>6, <1>7, <2>1, <3>3 DEF ByValue!vars, InHand
  <2> QED
    BY <2>3, <2>4
<1>10. CASE Execute(t)
  <2>1. pc[t] = "execute" /\ pc'[t] = "finish" /\ posted' = posted
    BY <1>1, <1>10 DEF Execute, GoTo, ThreadTypes
  <2>2. Handled(t) = {Content(slot[t], cmdUser[t])} /\ Handled(t)' = {}
    BY <2>1 DEF Handled
  <2>3. Requests' \in {Requests, Requests \cup {Author(cmdUser[t])}}
    <3> DEFINE i == [user |-> cmdUser[t], line |-> line[t]]
               By(j) == Author(j.user)
    <3>1. \A j : By(j)' = By(j)
      BY <1>3 DEF Author
    <3>2. Requests = {By(j) : j \in items} /\ Requests' = {By(j) : j \in items'}
      BY <3>1 DEF Requests
    <3>3. items' = items \/ items' = items \cup {i}
      BY <1>10 DEF Execute
    <3>4. Requests' = Requests \/ Requests' = Requests \cup {By(i)}
      <4> HIDE DEF By, i
      <4> QED
        BY <3>2, <3>3
    <3> QED
      BY <3>4
  <2>4. Content(slot[t], cmdUser[t]).author = Author(cmdUser[t])
    BY DEF Content
  <2>5. InHand' = [InHand EXCEPT ![t] = {}]
    BY <1>5, <2>2
  <2> QED
    BY <1>3, <1>4, <1>5, <1>6, <2>1, <2>2, <2>3, <2>4, <2>5 DEF ByValue!Handle, InHand
<1> QED
  BY <1>8, <1>9, <1>10

\* The song request worker takes a request.
LEMMA ServeByValue ==
    ASSUME IInv, Next, Serve
    PROVE  ByValue!Serve
<1>1. ThreadTypes /\ DataTypes /\ "songs" \in Threads /\ "songs" \notin Workers
  BY PipelineAssumption DEF IInv, TypeOK, ThreadTypes, DataTypes
<1>2. MovesOnly("songs")
  BY <1>1, OneMoves
<1>3. /\ lines' = lines /\ raw' = raw /\ posted' = posted
      /\ pc["songs"] = "idle" /\ pc'["songs"] = "finish" /\ owner' = owner
  BY <1>1 DEF Serve, GoTo, ThreadTypes
<1>4. Reading' = Reading /\ Waiting' = Waiting /\ InHand' = InHand
  BY <1>1, <1>2, <1>3, SameForOthers, InHandSame
<1> DEFINE By(j) == Author(j.user)
<1>5. PICK i \in items : items' = items \ {i} /\ cmdUser'["songs"] = i.user
  BY <1>1 DEF Serve, ThreadTypes
<1>6. \A j \in items \ {i} : By(j) # By(i)
  <2>1. \A j \in items : By(j).name = j.line
    BY <1>1 DEF IInv, AuthorsKept, UserKept, Author, DataTypes
  <2> QED
    BY <1>5, <2>1 DEF IInv, LinesApart
<1>7. Served = {} /\ Served' = {By(i)}
  BY <1>3, <1>5 DEF Served, Author
<1>8. \A j : By(j)' = By(j)
  BY <1>3 DEF Author
<1>9. Requests = {By(j) : j \in items} /\ Requests' = {By(j) : j \in items'}
  BY <1>8 DEF Requests
<1>10. By(i) \in Requests /\ Requests' = Requests \ {By(i)}
  <2> HIDE DEF By
  <2> QED
    BY <1>5, <1>6, <1>9
<1> HIDE DEF By
<1> QED
  BY <1>3, <1>4, <1>7, <1>10 DEF ByValue!Serve, InHand

\* What is done to counts and blocks only is not seen.
LEMMA ThreadByValue ==
    ASSUME IInv, Next, NEW t \in Threads, Thread(t)
    PROVE  ByValue!Served \/ UNCHANGED ByValue!vars
<1>1. /\ ThreadTypes /\ Positions /\ "songs" \in Threads
      /\ {"reader", "songs"} \cap Workers = {}
  BY PipelineAssumption DEF IInv, TypeOK, ThreadTypes
<1>2. MovesOnly(t)
  BY OneMoves
<1>3. /\ lines' = lines /\ raw' = raw /\ posted' = posted /\ items' = items
      /\ pc[t] \in {"finish", "drop", "reset", "enqueue"}
      /\ pc'[t] \in {"idle", "drop", "reset", "enqueue"}
  BY <1>1 DEF Thread, Finish, Drop, Reset, Enqueue, Continue, AfterFinish, AfterRelease, GoTo, ThreadTypes
<1>4. Waiting' = Waiting /\ Requests' = Requests
  BY <1>2, <1>3, SameForOthers
<1>5. InHand' = InHand
  <2>1. Handled(t) = {} /\ Handled(t)' = {}
    BY <1>3 DEF Handled
  <2> QED
    BY <1>2, <2>1, InHandSame
<1>6. Reading' = Reading
  <2>1. CASE t = "reader"
    BY <1>3, <2>1 DEF Reading
  <2> QED
    BY <1>2, <1>3, <2>1, SameForOthers
<1>7. CASE t = "songs"
  <2>1. Served = {Author(cmdUser["songs"])} /\ Served' = {}
    BY <1>1, <1>3, <1>7 DEF Positions, Served
  <2> QED
    BY <1>3, <1>4, <1>5, <1>6, <2>1 DEF ByValue!Served, InHand
<1>8. CASE t # "songs"
  <2>1. Served' = Served
    BY <1>2, <1>8, SameForOthers
  <2> QED
    BY <1>3, <1>4, <1>5, <1>6, <2>1 DEF ByValue!vars, InHand
<1> QED
  BY <1>7, <1>8

-----------------------------------------------------------------------------
(* The theorems. *)

LEMMA InvInit == Init => IInv
<1> SUFFICES ASSUME Init PROVE IInv
  OBVIOUS
<1>1. /\ {"reader", "songs"} \cap Workers = {} /\ Null \notin Slots \cup Users
      /\ "reader" \in Threads /\ "songs" \in Threads
  BY PipelineAssumption
<1>2. TypeOK
  <2>1. raw \in [type : Types, id : Nat]
    BY DEF Init, NoLine, Types
  <2> QED
    BY <2>1 DEF Init, TypeOK, Types
<1>3. IsFiniteSet(posted) /\ IsFiniteSet(items)
  BY FS_EmptySet DEF Init
<1>4. Positions /\ LinesApart /\ ReaderAlone /\ BlocksClean /\ Parsed
  BY <1>1 DEF Init, Positions, LinesApart, ReaderAlone, BlocksClean, Clean, Parsed
<1>5. MessageKept /\ AuthorsKept
  BY <1>1 DEF Init, MessageKept, AuthorsKept, UserKept, OwnIdOrNone
<1>6. MessagesCounted
  <2>1. SUFFICES ASSUME NEW s \in Slots
                 PROVE  /\ refs[s] = Cardinality(Holders(s)) + Cardinality(PostedWith(s))
                        /\ Cardinality(Recyclers(s)) = Count(refs[s] = 0 /\ s \notin free \cup fresh)
                        /\ s \in free \cup fresh => refs[s] = 0
    BY DEF MessagesCounted, Holders, PostedWith, Recyclers, Count
  <2>2. Holders(s) = {} /\ PostedWith(s) = {} /\ Recyclers(s) = {}
    BY DEF Init, Holders, PostedWith, Recyclers, HoldsMessage, Recycles
  <2> QED
    BY <2>2, FS_EmptySet DEF Init, Count
<1>7. UsersCounted
  <2>1. SUFFICES ASSUME NEW u \in Users
                 PROVE  /\ userRefs[u] = Cardinality(InMessages(u)) + Cardinality(InThreads(u))
                                         + Cardinality(InItems(u))
                        /\ u \in freeUsers \cup freshUsers <=> userRefs[u] = 0
    BY DEF UsersCounted, InMessages, InThreads, InItems
  <2>2. InMessages(u) = {} /\ InThreads(u) = {} /\ InItems(u) = {}
    BY <1>1 DEF Init, InMessages, InThreads, InItems
  <2> QED
    BY <2>2, FS_EmptySet DEF Init
<1> QED
  BY <1>2, <1>3, <1>4, <1>5, <1>6, <1>7 DEF IInv

LEMMA InvStep == IInv /\ [Next]_vars => IInv'
<1> SUFFICES ASSUME IInv, [Next]_vars PROVE IInv'
  OBVIOUS
<1>1. CASE Next
  BY <1>1, TypeStep, PositionsStep, MessagesStep, UsersStep, LinesStep, AloneStep, CleanStep,
     ParsedStep, KeptStep, AuthorsStep DEF IInv
<1>2. CASE UNCHANGED vars
  <2>1. /\ (TypeOK /\ IsFiniteSet(posted) /\ IsFiniteSet(items))' /\ Positions'
        /\ LinesApart' /\ ReaderAlone' /\ BlocksClean' /\ Parsed'
    BY <1>2 DEF IInv, vars, TypeOK, Positions, LinesApart, ReaderAlone, BlocksClean, Clean, Parsed
  <2>2. MessagesCounted' /\ UsersCounted'
    BY <1>2 DEF IInv, vars, MessagesCounted, UsersCounted, HoldsMessage, Recycles
  <2>3. MessageKept' /\ AuthorsKept'
    BY <1>2 DEF IInv, vars, MessageKept, AuthorsKept, UserKept, OwnIdOrNone
  <2> QED
    BY <2>1, <2>2, <2>3 DEF IInv
<1> QED
  BY <1>1, <1>2

\* The inductive invariant: whose each block is, and which line it is about.
THEOREM Invariant == Spec => []IInv
BY InvInit, InvStep, PTL DEF Spec

\* Every variable keeps its type, and a command that runs has its user.
THEOREM TypeCorrect == Spec => []TypeOK
<1>1. IInv => TypeOK
  BY DEF IInv
<1> QED
  BY <1>1, Invariant, PTL

\* However many threads pass messages, commands and song requests on, each
\* block's count is the number of its holders, and it is in its cache, or on
\* its way there with exactly one thread, when nobody is left.
THEOREM EveryReferenceCounted == Spec => []ReferencesCounted
<1>1. IInv => ReferencesCounted
  BY DEF IInv, ReferencesCounted
<1> QED
  BY <1>1, Invariant, PTL

\* No message is overwritten while it waits for a thread or is handled by one.
THEOREM EveryMessageKept == Spec => []MessageKept
<1>1. IInv => MessageKept
  BY DEF IInv
<1> QED
  BY <1>1, Invariant, PTL

\* No command and no song request is ever taken for somebody else's.
THEOREM EveryAuthorKept == Spec => []AuthorsKept
<1>1. IInv => AuthorsKept
  BY DEF IInv
<1> QED
  BY <1>1, Invariant, PTL

\* Threads that count, recycle, fill and point into shared blocks implement the
\* passing of messages and authors by value: each chat line is handled by one
\* thread, once, with its own text and author, and asks for at most one song.
THEOREM MessagesPassedByValue == Spec => PassedByValue
<1>1. Init => ByValue!Init
  <2> SUFFICES ASSUME Init PROVE ByValue!Init
    OBVIOUS
  <2>1. \A t \in Workers : Handled(t) = {}
    BY DEF Init, Handled
  <2>2. Reading = {} /\ Waiting = {} /\ Requests = {} /\ Served = {} /\ lines = 0
    BY PipelineAssumption DEF Init, Reading, Waiting, Requests, Served
  <2> QED
    BY <2>1, <2>2 DEF ByValue!Init
<1>2. IInv /\ [Next]_vars => [ByValue!Next]_(ByValue!vars)
  <2> SUFFICES ASSUME IInv, [Next]_vars PROVE [ByValue!Next]_(ByValue!vars)
    OBVIOUS
  <2>1. CASE Next
    <3>1. CASE GetLine \/ ParseLine \/ Dispatch
      BY <2>1, <3>1, ReaderByValue DEF ByValue!Next
    <3>2. ASSUME NEW t \in Workers, Take(t) \/ MakeCommand(t) \/ Execute(t)
          PROVE  [ByValue!Next]_(ByValue!vars)
      BY <2>1, <3>2, WorkerByValue DEF ByValue!Next
    <3>3. CASE Serve
      BY <2>1, <3>3, ServeByValue DEF ByValue!Next
    <3>4. ASSUME NEW t \in Threads, Thread(t) PROVE [ByValue!Next]_(ByValue!vars)
      BY <2>1, <3>4, ThreadByValue DEF ByValue!Next
    <3> QED
      BY <2>1, <3>1, <3>2, <3>3, <3>4, NextCases
  <2>2. CASE UNCHANGED vars
    BY <2>2 DEF vars, ByValue!vars, Reading, Waiting, Handled, Requests, Served, Content, Author
  <2> QED
    BY <2>1, <2>2
<1> QED
  BY <1>1, <1>2, Invariant, PTL DEF Spec, PassedByValue, ByValue!Spec
=============================================================================
