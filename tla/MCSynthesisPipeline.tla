------------------------ MODULE MCSynthesisPipeline ------------------------
(* Small instances of SynthesisPipeline for TLC: one or two embed jobs run *)
(* beside the chain.                                                       *)
EXTENDS SynthesisPipeline, TLC

Symmetry == Permutations(Chunks)
=============================================================================
