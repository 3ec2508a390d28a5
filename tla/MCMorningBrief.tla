---------------------------- MODULE MCMorningBrief ----------------------------
(* Instances of MorningBrief: keys that nothing tells apart. *)
EXTENDS MorningBrief, TLC

Interchangeable == Permutations(Keys)
=============================================================================
