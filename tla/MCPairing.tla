----------------------------- MODULE MCPairing -----------------------------
\* Two requests and one place among the pending; a tick is as long as the TTL.
EXTENDS Pairing
CONSTANTS r1, r2
MCRequests == {r1, r2}
MCStreaming == {r1}
=============================================================================
