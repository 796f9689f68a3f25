------------------------- MODULE MCMessageDelivery --------------------------
EXTENDS MessageDelivery, TLC

Interchangeable == Permutations(Sessions) \cup Permutations(Callers)
=============================================================================
