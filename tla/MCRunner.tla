-------------------------------- MODULE MCRunner --------------------------------
(***************************************************************************)
(* Runner for TLC: two processes on one volume, one lease.                 *)
(***************************************************************************)
EXTENDS Runner, TLC

================================================================================
