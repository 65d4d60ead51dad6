-------------------------- MODULE MCRequestPipeline --------------------------
EXTENDS RequestPipeline, TLC

(***************************************************************************)
(* Connections are interchangeable, and so are work threads.               *)
(***************************************************************************)
Symmetry == Permutations(Conns) \cup Permutations(Workers)
==============================================================================
