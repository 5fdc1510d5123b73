-------------------------- MODULE SubManagerProps --------------------------
(***************************************************************************)
(* What the list and the table owe to those who read them.                 *)
(***************************************************************************)
EXTENDS SubManager

\* Every variable keeps its type, and whoever is in the middle of a refresh
\* holds the lock.
TypeOK ==
    /\ twitch \in Lists
    /\ subscribers \subseteq Names
    /\ mutex \in Refreshers \cup {"none"}
    /\ \A r \in Refreshers :
          pc[r] \in {"fetch", "subs", "nonsubs", "unlock", "terminated"} <=> mutex = r
    /\ known \subseteq Names /\ subscribed \subseteq known
    /\ pc \in [Refreshers \cup Callers ->
                 {"idle", "lock", "fetch", "subs", "nonsubs", "unlock", "rearm",
                  "running", "ended", "terminated", "table", "add"}]
    /\ offset \in [Refreshers -> 0 .. MaxOffset - 1]
    /\ name \in [Callers -> Names \cup {"nobody"}]
    /\ answer \in [Callers -> {"none", "yes", "no"}]
    /\ timer \in {"waiting", "expired", "cancelled"}
    /\ deleted \in BOOLEAN /\ steady \in BOOLEAN
    /\ failures \in Nat /\ changes \in Nat /\ adds \in Nat /\ refreshes \in Nat

Subs == ToSet(twitch)

\* get_subs asks for no more than MaxOffset subscribers, and writes nothing to
\* the table when there is none.
InReach == Len(twitch) <= MaxOffset /\ twitch # <<>>

\* A refresh in which nothing failed and nothing changed leaves exactly the
\* subscribers in the list and in the table, whatever either held before.
RefreshIsExact ==
    \A r \in Refreshers :
        pc[r] = "unlock" /\ steady /\ InReach => subscribers = Subs /\ subscribed = Subs

\* Somebody who is and stays a subscriber does not lose the flag, not even
\* between the two statements: get_user_access_level reads the table without
\* the lock.
StandingSubKept ==
    [][\A n \in Subs \cap subscribed : steady /\ steady' /\ InReach => n \in subscribed']_vars

\* is_sub, should a thread call it during a refresh, never answers from a list
\* that is being filled.
ListAnswersRight ==
    [][\A c \in Callers, n \in Names :
          IsSub(c, n) /\ steady /\ InReach /\ subscribers # {} =>
             (answer'[c] = "yes" <=> n \in Subs)]_vars

\* After cleanup no refresh begins, though deleting the timer runs its handler:
\* only one that was under way can still touch the deleted timer.
NoRefreshAfterCleanup ==
    [][deleted /\ pc["timer"] = "idle" => pc'["timer"] = "idle"]_vars

\* The requests and the queries of a refresh return.
FairSpec == Spec /\ WF_vars(Timer) /\ \A r \in Refreshers : WF_vars(Refresh(r))

\* After each expiry the timer waits again, whatever failed, until the bot is
\* stopped or an answer that cannot be parsed ends it.
TimerGoesOn == timer = "expired" ~> timer = "waiting" \/ deleted \/ ~Running

-----------------------------------------------------------------------------
(* Claims of messages that the code does not keep. *)

\* "Refreshed subs": the list holds the subscribers.
RefreshedMeansAll == pc["timer"] = "rearm" => subscribers = Subs
=============================================================================
