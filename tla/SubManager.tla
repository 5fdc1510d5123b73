----------------------------- MODULE SubManager -----------------------------
(***************************************************************************)
(* The list of subscribers: get_subs fetches it page by page from Twitch,  *)
(* under a lock, and writes it to the users table in two statements; main  *)
(* does so once, a timer's handler on the pool every twelve hours.  The    *)
(* list at Twitch changes meanwhile, newest subscribers first, and any     *)
(* request or query may fail.  is_sub and add_sub are the other two        *)
(* functions of the interface under the lock; no call of them is in the    *)
(* repository.                                                             *)
(***************************************************************************)
EXTENDS Integers, Sequences, FiniteSets, SequencesExt

CONSTANTS
    Names,         \* users of Twitch
    Callers,       \* threads that would call is_sub and add_sub
    PageSize,      \* 100
    MaxOffset,     \* 10000
    MaxFailures,   \* bound: requests and queries that fail
    MaxChanges,    \* bound: subscriptions that start or end
    MaxAdds,       \* bound: calls of add_sub
    MaxRefreshes   \* bound: times the timer expires

ASSUME SubAssumption ==
    /\ IsFiniteSet(Names)
    /\ PageSize \in Nat \ {0} /\ MaxOffset \in Nat \ {0}
    /\ MaxFailures \in Nat /\ MaxChanges \in Nat
    /\ MaxAdds \in Nat /\ MaxRefreshes \in Nat
    /\ {"main", "timer", "none"} \cap Callers = {}

\* Who runs get_subs(true): main, and the timer's handler.
Refreshers == {"main", "timer"}

VARIABLES
    twitch,       \* the subscribers, newest first
    subscribers,  \* Subscribers
    mutex,        \* who keeps Mutex from one step to the next
    known,        \* the users table: its rows ...
    subscribed,   \* ... and those whose flag is set
    pc,           \* where a thread is
    offset,       \* of the page to be fetched
    name,         \* whom a caller asks for
    answer,       \* what is_sub has answered
    timer,        \* its async_wait: "waiting", "expired" or "cancelled"
    deleted,      \* has cleanup deleted the timer?
    steady,       \* history: no failure, change or add_sub since Mutex was taken
    failures, changes, adds, refreshes

table  == <<known, subscribed>>
caller == <<name, answer>>
clock  == <<timer, deleted, refreshes>>
world  == <<twitch, changes>>
vars   == <<world, subscribers, mutex, table, pc, offset, caller, clock, steady, failures, adds>>

Lists == {s \in UNION {[1 .. k -> Names] : k \in 0 .. Cardinality(Names)} : IsInjective(s)}

Init ==
    /\ twitch \in Lists
    /\ subscribers = {} /\ mutex = "none"
    /\ known \in SUBSET Names /\ subscribed \in SUBSET known
    /\ pc = [p \in Refreshers \cup Callers |-> IF p = "main" THEN "lock" ELSE "idle"]
    /\ offset = [r \in Refreshers |-> 0]
    /\ name = [c \in Callers |-> "nobody"] /\ answer = [c \in Callers |-> "none"]
    /\ timer = "waiting" /\ deleted = FALSE
    /\ steady = FALSE
    /\ failures = 0 /\ changes = 0 /\ adds = 0 /\ refreshes = 0

GoTo(p, where) == pc' = [pc EXCEPT ![p] = where]

Fails == failures < MaxFailures /\ failures' = failures + 1 /\ steady' = FALSE

Succeeds == UNCHANGED <<failures, steady>>

-----------------------------------------------------------------------------
(* get_subs(true), called by r. *)

\* Variant: the list is not locked.
LockNot(r) ==
    /\ pc[r] = "lock" /\ mutex = "none"
    /\ subscribers' = {} /\ steady' = TRUE
    /\ offset' = [offset EXCEPT ![r] = 0]
    /\ GoTo(r, "fetch")
    /\ UNCHANGED <<mutex, world, table, caller, clock, failures, adds>>

\* The list is locked for the whole refresh, and emptied.
Lock(r) ==
    /\ pc[r] = "lock" /\ mutex = "none"
    /\ mutex' = r
    /\ subscribers' = {} /\ steady' = TRUE
    /\ offset' = [offset EXCEPT ![r] = 0]
    /\ GoTo(r, "fetch")
    /\ UNCHANGED <<world, table, caller, clock, failures, adds>>

Page(o) == SubSeq(twitch, o + 1, IF o + PageSize < Len(twitch) THEN o + PageSize ELSE Len(twitch))

\* Variant: one page is taken for the whole list.
MorePagesIfMany(r, result, list) ==
    result # 0 /\ Cardinality(list) > PageSize /\ offset[r] + PageSize < MaxOffset

\* Is there another page, after one that get_channel_subscribers counts as
\* result and that leads to this list?
MorePages(r, result, list) ==
    result # 0 /\ Cardinality(list) >= PageSize /\ offset[r] + PageSize < MaxOffset

\* A page; or those of its elements that can be read, none without an answer;
\* or an answer without "_total", such as an error's, which counts as 1 just as
\* an empty list does.
Fetch(r) ==
    /\ pc[r] = "fetch"
    /\ \E result \in 0 .. PageSize, part \in SUBSET ToSet(Page(offset[r])) :
          /\ \/ /\ part = ToSet(Page(offset[r])) /\ Succeeds
                /\ result = IF twitch = <<>> THEN 1 ELSE Len(Page(offset[r]))
             \/ result = Cardinality(part) /\ Fails
             \/ result = 1 /\ part = {} /\ Fails
          /\ subscribers' = subscribers \cup part
          /\ IF MorePages(r, result, subscribers')
             THEN offset' = [offset EXCEPT ![r] = @ + PageSize] /\ UNCHANGED pc
             ELSE GoTo(r, IF subscribers' = {} THEN "unlock" ELSE "subs") /\ UNCHANGED offset
    /\ UNCHANGED <<mutex, world, table, caller, clock, adds>>

\* An answer that is not JSON: the exception leaves the thread's function.
FetchGarbage(r) ==
    /\ pc[r] = "fetch" /\ Fails
    /\ GoTo(r, "terminated")
    /\ UNCHANGED <<subscribers, offset, mutex, world, table, caller, clock, adds>>

\* update_subs sets the flag of everybody in the list, with a row if need be.
UpdateSubs(r) ==
    /\ pc[r] = "subs"
    /\ \/ /\ known' = known \cup subscribers
          /\ subscribed' = subscribed \cup subscribers
          /\ (Succeeds \/ Fails)
       \/ Fails /\ UNCHANGED table
    /\ GoTo(r, "nonsubs")
    /\ UNCHANGED <<subscribers, mutex, world, offset, caller, clock, adds>>

\* Variant: the flags of former subscribers stay.
UpdateNonSubsNot(r) ==
    /\ pc[r] = "nonsubs"
    /\ GoTo(r, "unlock")
    /\ UNCHANGED <<table, steady, failures, subscribers, mutex, world, offset, caller, clock, adds>>

\* The second statement takes the flag from everybody else.
UpdateNonSubs(r) ==
    /\ pc[r] = "nonsubs"
    /\ \/ subscribed' = subscribed \cap subscribers /\ (Succeeds \/ Fails)
       \/ Fails /\ UNCHANGED subscribed
    /\ GoTo(r, "unlock")
    /\ UNCHANGED <<known, subscribers, mutex, world, offset, caller, clock, adds>>

Unlock(r) ==
    /\ pc[r] = "unlock"
    /\ mutex' = "none"
    /\ GoTo(r, IF r = "main" THEN "running" ELSE "rearm")
    /\ UNCHANGED <<subscribers, world, table, offset, caller, clock, steady, failures, adds>>

-----------------------------------------------------------------------------
(* The timer, and main's cleanup. *)

Expire ==
    /\ timer = "waiting" /\ ~deleted /\ refreshes < MaxRefreshes
    /\ timer' = "expired" /\ refreshes' = refreshes + 1
    /\ GoTo("timer", "lock")
    /\ UNCHANGED <<subscribers, mutex, world, table, offset, caller, deleted, steady, failures, adds>>

\* Variant: the timer waits again only after a refresh with a result.
RearmIfAny ==
    /\ pc["timer"] = "rearm"
    /\ timer' = IF deleted \/ subscribers = {} THEN timer ELSE "waiting"
    /\ GoTo("timer", "idle")
    /\ UNCHANGED <<subscribers, mutex, world, table, offset, caller, deleted, refreshes, steady, failures, adds>>

\* The timer is restarted.  If cleanup has deleted it meanwhile this has no
\* defined effect; the process is about to end.
Rearm ==
    /\ pc["timer"] = "rearm"
    /\ timer' = IF deleted THEN timer ELSE "waiting"
    /\ GoTo("timer", "idle")
    /\ UNCHANGED <<subscribers, mutex, world, table, offset, caller, deleted, refreshes, steady, failures, adds>>

\* Deleting the timer cancels its wait.
Cleanup ==
    /\ pc["main"] = "running"
    /\ deleted' = TRUE
    /\ timer' = IF timer = "waiting" THEN "cancelled" ELSE timer
    /\ GoTo("main", "ended")
    /\ UNCHANGED <<subscribers, mutex, world, table, offset, caller, refreshes, steady, failures, adds>>

\* Variant: every error is logged and the refresh goes on.
CancelledRefreshing ==
    /\ timer = "cancelled" /\ pc["timer"] = "idle"
    /\ timer' = "expired"
    /\ GoTo("timer", "lock")
    /\ UNCHANGED <<subscribers, mutex, world, table, offset, caller, deleted, refreshes, steady, failures, adds>>

\* The handler of a cancelled wait returns at once.
Cancelled ==
    /\ timer = "cancelled" /\ pc["timer"] = "idle"
    /\ timer' = "expired"
    /\ UNCHANGED <<pc, subscribers, mutex, world, table, offset, caller, deleted, refreshes, steady, failures, adds>>

-----------------------------------------------------------------------------
(* The rest of the interface: functions without a caller in the repository. *)

Answer(c, yes) == answer' = [answer EXCEPT ![c] = IF yes THEN "yes" ELSE "no"]

\* is_sub asks the list, or the table when the list is empty.
IsSub(c, n) ==
    /\ pc[c] = "idle" /\ mutex = "none"
    /\ name' = [name EXCEPT ![c] = n]
    /\ IF subscribers # {}
       THEN Answer(c, n \in subscribers) /\ UNCHANGED pc
       ELSE GoTo(c, "table") /\ UNCHANGED answer
    /\ UNCHANGED <<subscribers, mutex, world, table, offset, clock, steady, failures, adds>>

IsSubInTable(c) ==
    /\ pc[c] = "table"
    /\ \/ Answer(c, name[c] \in subscribed) /\ Succeeds
       \/ Answer(c, FALSE) /\ Fails
    /\ GoTo(c, "idle")
    /\ UNCHANGED <<name, subscribers, mutex, world, table, offset, clock, adds>>

\* add_sub puts a name into the list, and then into the table.
AddSub(c, n) ==
    /\ pc[c] = "idle" /\ mutex = "none"
    /\ adds < MaxAdds /\ adds' = adds + 1
    /\ name' = [name EXCEPT ![c] = n]
    /\ subscribers' = subscribers \cup {n}
    /\ steady' = FALSE
    /\ GoTo(c, "add")
    /\ UNCHANGED <<answer, mutex, world, table, offset, clock, failures>>

\* Without a row, or when its look-up fails, the id is -1 and no row changes.
AddSubToTable(c) ==
    /\ pc[c] = "add"
    /\ \/ subscribed' = subscribed \cup ({name[c]} \cap known) /\ steady' = FALSE /\ UNCHANGED failures
       \/ Fails /\ UNCHANGED subscribed
    /\ GoTo(c, "idle")
    /\ UNCHANGED <<known, caller, subscribers, mutex, world, offset, clock, adds>>

-----------------------------------------------------------------------------
(* Twitch. *)

Subscribe(n) ==
    /\ changes < MaxChanges /\ n \notin ToSet(twitch)
    /\ changes' = changes + 1 /\ twitch' = <<n>> \o twitch
    /\ steady' = FALSE
    /\ UNCHANGED <<subscribers, mutex, table, pc, offset, caller, clock, failures, adds>>

Unsubscribe(n) ==
    /\ changes < MaxChanges /\ changes' = changes + 1
    /\ \E i \in DOMAIN twitch : twitch[i] = n /\ twitch' = RemoveAt(twitch, i)
    /\ steady' = FALSE
    /\ UNCHANGED <<subscribers, mutex, table, pc, offset, caller, clock, failures, adds>>

Running == \A r \in Refreshers : pc[r] # "terminated"

Refresh(r) ==
    /\ Running
    /\ Lock(r) \/ Fetch(r) \/ FetchGarbage(r) \/ UpdateSubs(r) \/ UpdateNonSubs(r) \/ Unlock(r)

Timer == Running /\ (Rearm \/ Cancelled)

Caller(c) == IsSubInTable(c) \/ AddSubToTable(c) \/ \E n \in Names : IsSub(c, n) \/ AddSub(c, n)

Next ==
    \/ \E r \in Refreshers : Refresh(r)
    \/ Timer
    \/ Running /\ (Expire \/ Cleanup)
    \/ Running /\ \E c \in Callers : Caller(c)
    \/ Running /\ \E n \in Names : Subscribe(n) \/ Unsubscribe(n)

Spec == Init /\ [][Next]_vars
=============================================================================
