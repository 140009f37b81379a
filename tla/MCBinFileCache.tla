----------------------------- MODULE MCBinFileCache ----------------------------
(***************************************************************************)
(* Small instances of BinFileCache for TLC.  Objects that are alike in     *)
(* what the constants say of them are interchangeable.                     *)
(***************************************************************************)
EXTENDS BinFileCache

Alike(u, w) ==
  /\ u # Root /\ w # Root
  /\ u \in Saved <=> w \in Saved
  /\ u \in Writable <=> w \in Writable

Symmetry == {p \in Permutations(Uuid) : \A u \in Uuid : u = p[u] \/ Alike(u, p[u])}

================================================================================
