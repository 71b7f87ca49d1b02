---------------------------- MODULE MC_SyncQueue ----------------------------
EXTENDS SyncQueue

\* Two producers (the camera thread and an HTTP handler thread) and two
\* consumer threads, as section 4.1 permits several of each.
MCProducers == {"cam", "http"}
MCConsumers == {"c1", "c2"}
=============================================================================
