------------------------------- MODULE MCNfs -------------------------------
(* Neither tasks nor retry configurations are told apart.                   *)
EXTENDS Nfs, TLC

MCSymmetry == Permutations(Callers) \cup Permutations(Configs)
=============================================================================
