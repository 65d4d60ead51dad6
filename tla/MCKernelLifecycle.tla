------------------------- MODULE MCKernelLifecycle -------------------------
(* Instances of KernelLifecycle for TLC; the bounds are in the .cfg file. *)
EXTENDS KernelLifecycle

CONSTANTS h, b, c
==============================================================================
