----------------------------- MODULE MCNetwork -----------------------------
(* Instances of Network for TLC: callers, connections and Stagehand numbers *)
(* are interchangeable.                                                     *)
EXTENDS Network, TLC

MCSymmetry ==
    Permutations(Callers) \cup Permutations(Conns) \cup Permutations(StagehandIds)
=============================================================================
