----------------------------- MODULE MCMemstore -----------------------------
(***************************************************************************)
(* Memstore for TLC.                                                       *)
(***************************************************************************)
EXTENDS Memstore, TLC

CONSTANTS Cap

Caps == [j \in Jobs |-> Cap]

JobSymmetry == Permutations(Jobs)
=============================================================================
