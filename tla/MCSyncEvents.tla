---------------------------- MODULE MCSyncEvents ----------------------------
\* Three changes of the library, with scans before, between and after them.
EXTENDS SyncEvents
=============================================================================
