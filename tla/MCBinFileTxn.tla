------------------------------ MODULE MCBinFileTxn -----------------------------
(***************************************************************************)
(* Small instances of BinFileTxn for TLC.  Objects other than the root are *)
(* interchangeable: nothing in the specification tells them apart.         *)
(***************************************************************************)
EXTENDS BinFileTxn

Symmetry == Permutations(Uuid \ {Root})

================================================================================
