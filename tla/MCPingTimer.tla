---------------------------- MODULE MCPingTimer ----------------------------
(***************************************************************************)
(* The instance of PingTimer: an interval of three units and a timeout of  *)
(* six, in the ratio of the code's 150 and 300 seconds.                    *)
(***************************************************************************)
EXTENDS PingTimerProps
=============================================================================
