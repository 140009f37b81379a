------------------------------ MODULE MCMetaProject ----------------------------
(***************************************************************************)
(* A small instance of MetaProject for TLC.                                *)
(***************************************************************************)
EXTENDS MetaProject

================================================================================
