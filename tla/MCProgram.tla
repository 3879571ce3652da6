----------------------------- MODULE MCProgram -----------------------------
(***************************************************************************)
(* Small instances of Program.                                             *)
(***************************************************************************)
EXTENDS Program, TLC

(* Workers and clients are interchangeable; for the safety run. *)
Symmetry == Permutations(Workers) \cup Permutations(Clients)
=============================================================================
