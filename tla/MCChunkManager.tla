--------------------------- MODULE MCChunkManager ---------------------------
(***************************************************************************)
(* Two chunks for TLC; the bounds are in the .cfg file.  Deadlock is not   *)
(* checked: a loop that waits on MetaBolCrontab for good may stand still   *)
(* while the clients have reached the bounds.                              *)
(***************************************************************************)
EXTENDS ChunkManager

CONSTANTS d1, m1

ChunkOf(region, bytes, mapped) ==
    [region |-> region, bytes |-> bytes, grow |-> TRUE, shrink |-> TRUE, mapped |-> mapped]

(***************************************************************************)
(* d1 is a shared memory whose creation may fail; m1 is a mapped file of   *)
(* which a shrink and the writing of the account may fail.                 *)
(***************************************************************************)
MCRows ==
    [n \in Names |->
        CASE n = d1 -> {ChunkOf("data", b, FALSE) : b \in {2, 3}}
          [] n = m1 -> {ChunkOf("temp", b, TRUE) : b \in {1, 2}}]

MCFailures ==
    [n \in Names |-> CASE n = d1 -> {"create"} [] n = m1 -> {"shrink", "account"}]
============================================================================
