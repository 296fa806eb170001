-------------------------------- MODULE MCReview --------------------------------
(***************************************************************************)
(* Review for TLC: one figure, two descriptions, one issue.                *)
(***************************************************************************)
EXTENDS Review, TLC

================================================================================
