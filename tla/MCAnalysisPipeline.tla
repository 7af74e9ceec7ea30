-------------------------- MODULE MCAnalysisPipeline --------------------------
(* TLC instance of AnalysisPipeline: files and requests are interchangeable. *)
EXTENDS AnalysisPipeline, TLC

Symmetry == Permutations(Files) \cup Permutations(Calls)
=============================================================================
