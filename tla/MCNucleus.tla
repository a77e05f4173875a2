----------------------------- MODULE MCNucleus -----------------------------
(* Instances of Nucleus for TLC: the PCBs are interchangeable. *)
EXTENDS Nucleus, TLC

Symmetry == Permutations(PCB)
=============================================================================
