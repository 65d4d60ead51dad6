--------------------------- MODULE MCDBTransaction ---------------------------
EXTENDS DBTransaction, TLC

CONSTANTS k1, k2, v1, v2

(***************************************************************************)
(* One call of each kind, such that every two of them disturb each other.  *)
(***************************************************************************)
MCCalls ==
    {[kind |-> "query",   keys |-> {k1, k2}, val |-> v1],
     [kind |-> "erase",   keys |-> {k1},     val |-> v1],
     [kind |-> "update",  keys |-> {k1, k2}, val |-> v2],
     [kind |-> "add",     keys |-> {k1, k2}, val |-> v1],
     [kind |-> "replace", keys |-> {k2},     val |-> v1]}

(***************************************************************************)
(* Every kind of call, on the whole of the table.                          *)
(***************************************************************************)
MCWholeCalls == [kind : Kinds, keys : {Keys}, val : Vals]

Symmetry == Permutations(Threads)
==============================================================================
