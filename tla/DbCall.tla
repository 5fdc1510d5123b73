------------------------------- MODULE DbCall -------------------------------
(***************************************************************************)
(* What a call of db::query promises to the thread that makes it: the      *)
(* statement takes effect at most once, between the call and its return,   *)
(* and it has taken effect if the result is ok.  It may have taken effect  *)
(* when the result is not.  SongRequest is written against this contract.  *)
(***************************************************************************)
EXTENDS Naturals

CONSTANT Threads

VARIABLES
    phase,     \* of a thread's call
    effect,    \* how often its statement has taken effect
    result

vars == <<phase, effect, result>>

Init ==
    /\ phase = [t \in Threads |-> "idle"]
    /\ effect = [t \in Threads |-> 0]
    /\ result = [t \in Threads |-> "none"]

Call(t) ==
    /\ phase[t] = "idle"
    /\ phase' = [phase EXCEPT ![t] = "running"]
    /\ effect' = [effect EXCEPT ![t] = 0]
    /\ result' = [result EXCEPT ![t] = "none"]

\* The statement takes effect.
Apply(t) ==
    /\ phase[t] = "running" /\ effect[t] = 0
    /\ effect' = [effect EXCEPT ![t] = 1]
    /\ UNCHANGED <<phase, result>>

Answer(t) ==
    /\ phase[t] = "running"
    /\ phase' = [phase EXCEPT ![t] = "answered"]
    /\ \/ effect[t] = 1 /\ result' = [result EXCEPT ![t] = "ok"]
       \/ result' = [result EXCEPT ![t] = "failed"]
    /\ UNCHANGED effect

Return(t) ==
    /\ phase[t] = "answered"
    /\ phase' = [phase EXCEPT ![t] = "idle"]
    /\ UNCHANGED <<effect, result>>

Next == \E t \in Threads : Call(t) \/ Apply(t) \/ Answer(t) \/ Return(t)

Spec == Init /\ [][Next]_vars
=============================================================================
