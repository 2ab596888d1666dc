------------------------------ MODULE MCTransport ------------------------------
\* Two controllers and a queue of two entries.
EXTENDS Transport
CONSTANTS c1, c2
MCControllers == {c1, c2}
MCEntries == {1, 2}
=============================================================================
