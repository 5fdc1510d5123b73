---------------------------- MODULE MCSubManager ----------------------------
(***************************************************************************)
(* The instance of SubManager: pages of one, two users of Twitch.          *)
(***************************************************************************)
EXTENDS SubManagerProps

CONSTANTS n1, n2, c1
=============================================================================
