----------------------------- MODULE MCPlayerIDs -----------------------------
\* Two controllers.  The bound of the values ends the runs: a start takes a block
\* of them, and is refused when there is none left.
EXTENDS PlayerIDs
CONSTANTS c1, c2
MCControllers == {c1, c2}
=============================================================================
