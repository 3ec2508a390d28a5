-------------------------- MODULE MCCorrectionPanel --------------------------
EXTENDS CorrectionPanel, TLC

Interchangeable == Permutations(Entities) \cup Permutations(Keys) \cup Permutations(Sends)
=============================================================================
