------------------------------ MODULE MCCoreProject ----------------------------
(***************************************************************************)
(* Small instances of CoreProject for TLC.  Objects other than the root    *)
(* are interchangeable: nothing in the specification tells them apart.     *)
(***************************************************************************)
EXTENDS CoreProject

Symmetry == Permutations(Uuid \ {Root})

================================================================================
