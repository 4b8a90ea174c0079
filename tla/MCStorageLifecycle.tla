------------------------- MODULE MCStorageLifecycle -------------------------
(***************************************************************************)
(* Model-checking instance of StorageLifecycle.  One run checks liveness,  *)
(* so no symmetry is declared.                                             *)
(***************************************************************************)
EXTENDS StorageLifecycle
=============================================================================
