---------------------------- MODULE MCHttpServer ----------------------------
(***************************************************************************)
(* Small instances of HttpServer.                                          *)
(***************************************************************************)
EXTENDS HttpServer, TLC

(* Workers, clients and signals are interchangeable; sound for the safety  *)
(* runs.                                                                   *)
Symmetry ==
  Permutations(Workers) \cup Permutations(Clients) \cup Permutations(Signals)
=============================================================================
