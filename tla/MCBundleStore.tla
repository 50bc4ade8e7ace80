---------------------------- MODULE MCBundleStore ----------------------------
EXTENDS BundleStore, FiniteSetsExt, TLC

CONSTANT b1

\* b1 is one unit, b2 two: with a limit of two, each fits and both do not.
MCSize == [b \in Bundles |-> IF b = b1 THEN 1 ELSE 2]
MCSum(f) == MapThenSumSet(LAMBDA c : f[c], DOMAIN f)

\* Users, concurrent requests and retention runs are interchangeable.
Symmetry == Permutations(Users) \cup Permutations(Requests) \cup Permutations(Purgers)

=============================================================================
