----------------------------- MODULE MCWorldOrbit -----------------------------
(* Instance of WorldOrbit: two or three refreshes that nothing tells apart. *)
EXTENDS WorldOrbit, TLC

Interchangeable == Permutations(Workers)
=============================================================================
