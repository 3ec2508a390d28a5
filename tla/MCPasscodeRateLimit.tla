------------------------- MODULE MCPasscodeRateLimit -------------------------
EXTENDS PasscodeRateLimit, TLC

Interchangeable == Permutations(Calls)
=============================================================================
