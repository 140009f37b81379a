------------------------------ MODULE MCBinFileSave ----------------------------
(***************************************************************************)
(* A small instance of BinFileSave for TLC.  No symmetry is used: it has   *)
(* two names and few states.                                               *)
(***************************************************************************)
EXTENDS BinFileSave

================================================================================
