------------------------------ MODULE MCPayout ------------------------------
(***************************************************************************)
(* Small instances of Payout for TLC.  Accounts and processes are not      *)
(* declared symmetric: the runs check liveness.                            *)
(***************************************************************************)
EXTENDS Payout

=============================================================================
