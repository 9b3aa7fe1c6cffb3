-------------------------- MODULE MCDigestScheduler --------------------------
EXTENDS DigestScheduler, TLC

MCSymmetry == Permutations(Floods)
=============================================================================
