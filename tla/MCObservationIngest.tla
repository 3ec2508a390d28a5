------------------------- MODULE MCObservationIngest -------------------------
EXTENDS ObservationIngest, TLC

CONSTANTS d1, d2, k1, k2, k3, x, y, n1, n2, n3

\* d1 posts k1 and k2, a corrected k1 with its old k2 in either version, the first name
\* again with changed content, and a key of unprovable ownership; d2 shares d1's keys.
Posted ==
  {[device |-> d1, name |-> n1, version |-> "v1", session |-> TRUE, content |-> (k1 :> x @@ k2 :> x)],
   [device |-> d1, name |-> n1, version |-> "v2", session |-> FALSE, content |-> (k1 :> x)],
   [device |-> d1, name |-> n2, version |-> "v2", session |-> FALSE, content |-> (k1 :> y @@ k2 :> x)],
   [device |-> d1, name |-> n3, version |-> "v1", session |-> FALSE, content |-> (k1 :> y @@ k2 :> x)],
   [device |-> d1, name |-> n3, version |-> "v2", session |-> FALSE, content |-> (k2 :> x @@ k3 :> x)],
   [device |-> d2, name |-> n1, version |-> "v1", session |-> TRUE, content |-> (k1 :> y)]}

Interchangeable == Permutations(Calls)
=============================================================================
