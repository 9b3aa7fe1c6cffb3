--------------------------- MODULE MCRateLimiter ---------------------------
EXTENDS RateLimiter, TLC

MCSymmetry == Permutations(Clients) \cup Permutations(Calls)
=============================================================================
