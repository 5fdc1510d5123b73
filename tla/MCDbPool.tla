------------------------------ MODULE MCDbPool ------------------------------
(***************************************************************************)
(* Values for the constants of DbPool.                                     *)
(***************************************************************************)
EXTENDS DbPoolProps

CONSTANTS p1, p2,       \* threads of the pool
          h1, h2, h3    \* addresses
=============================================================================
