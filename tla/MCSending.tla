----------------------------- MODULE MCSending -----------------------------
(***************************************************************************)
(* The instance of Sending: senders and buffers are model values.          *)
(***************************************************************************)
EXTENDS SendingProps, TLC

CONSTANTS delayed, worker, login, reader, s1, s2, l1, l2, l3

KindOf == delayed :> "delayed" @@ worker :> "worker" @@ login :> "login" @@ reader :> "incoming"
=============================================================================
