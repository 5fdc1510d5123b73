-------------------------- MODULE MCIrcConnection --------------------------
(***************************************************************************)
(* The instances of IrcConnection that are checked differ only in bounds.  *)
(***************************************************************************)
EXTENDS IrcConnectionProps
=============================================================================
