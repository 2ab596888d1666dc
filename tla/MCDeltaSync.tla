---------------------------- MODULE MCDeltaSync ----------------------------
\* Two paths: a full sync has two pages, and a delta can have one deletion more
\* than its cap.  The contents are interchangeable.
EXTENDS DeltaSync, TLC
CONSTANTS c1, c2
MCPaths    == 1..2
MCClock    == {0, 4}
MCContents == {c1, c2}
MCSymmetry == Permutations(MCContents)
=============================================================================
