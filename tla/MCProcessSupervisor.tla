------------------------- MODULE MCProcessSupervisor -------------------------
(* Instances of ProcessSupervisor for TLC; the bounds are in the .cfg files. *)
EXTENDS ProcessSupervisor, TLC

CONSTANTS t1, t2

(***************************************************************************)
(* Tasks are interchangeable when all their programs are known.            *)
(***************************************************************************)
Symmetry == Permutations(Tasks)

\* No ID begins with another, or that of t2 begins with that of t1.
MCDistinct == [t \in Tasks |-> {t}]
MCPrefix == [t \in Tasks |-> IF t = t1 THEN Tasks ELSE {t}]
==============================================================================
