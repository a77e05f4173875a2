--------------------------- MODULE MCNucleusLists ---------------------------
(* Instances of NucleusLists for TLC: table entries are interchangeable. *)
EXTENDS NucleusLists, TLC

Symmetry == Permutations(PCB) \cup Permutations(Semd)
=============================================================================
