----------------------------- MODULE MCFavorites -----------------------------
\* A 2.1 device and one of the revision protocol: the answers it loses leave it
\* with an old copy, as the writes of a second one would.
EXTENDS Favorites, TLC
CONSTANTS p, o, k1, k2, k3
MCKeys       == {k1, k2, k3}
MCRevisioned == {p}
MCLegacy     == {o}
MCHearts     == o :> {k1, k2}
MCSymmetry   == Permutations({k1, k2})
=============================================================================
