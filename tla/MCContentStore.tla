---------------------------- MODULE MCContentStore ----------------------------
(***************************************************************************)
(* Manifests with the same chunks, as a file and its copy have; they are   *)
(* interchangeable.                                                        *)
(***************************************************************************)
EXTENDS ContentStore, TLC

MCChunksOf == [m \in Manifests |-> Chunks]
Symmetry == Permutations(Manifests) \cup Permutations(Chunks)

===============================================================================
