------------------------------ MODULE MCOutbox ------------------------------
(***************************************************************************)
(* Model-checking instance of Outbox.                                      *)
(***************************************************************************)
EXTENDS Outbox, TLC

\* Workers and producers are interchangeable; used by the safety
\* run only.
Symmetry == Permutations(Workers) \cup Permutations(Producers)
=============================================================================
