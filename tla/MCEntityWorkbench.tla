-------------------------- MODULE MCEntityWorkbench --------------------------
EXTENDS EntityWorkbench, TLC

Interchangeable == Permutations(Entities) \cup Permutations(Devices) \cup Permutations(Versions)
=============================================================================
