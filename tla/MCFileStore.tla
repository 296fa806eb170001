------------------------------ MODULE MCFileStore ------------------------------
(***************************************************************************)
(* FileStore for TLC.  The files of two jobs never meet: no key, prefix or *)
(* row of one is used for the other, and the alarm treats them one by one. *)
(* What two jobs do share is the order in which one cleaner visits them.   *)
(***************************************************************************)
EXTENDS FileStore, TLC

Uploads == Permutations(Job)

===============================================================================
