---------------------------- MODULE MCStrategyBatch ----------------------------
(* Instance of StrategyBatch for TLC. *)
EXTENDS StrategyBatch, TLC

Symmetry == Permutations(Clients) \cup Permutations(Batches)
===============================================================================
