-------------------------- MODULE MCSafeSpotStore --------------------------
EXTENDS SafeSpotStore, TLC
CONSTANTS r1, r2, x1, x2, v1, vk, c1, c2, p1, p2
Symmetric == Permutations({r1, r2}) \cup Permutations({x1, x2})
             \cup Permutations({c1, c2}) \cup Permutations({p1, p2})
=============================================================================
