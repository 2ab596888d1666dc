-------------------------- MODULE MCUpscaleBatches --------------------------
\* One batch of two files, and requests for single files that stand for every other
\* way a rendition of one of them comes to be under way.
EXTENDS UpscaleBatches, TLC
CONSTANTS p1, p2, b1, w1, w2
MCPaths   == {p1, p2}
MCBatches == {b1}
MCWorkers == {w1, w2}
MCFiles   == b1 :> <<p1, p2>>
MCLaneOf  == b1 :> "background"
=============================================================================
