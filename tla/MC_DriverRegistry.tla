------------------------- MODULE MC_DriverRegistry -------------------------
EXTENDS DriverRegistry

\* Three plugins: enough for a reload between two new loads, so that ids
\* shift and a reload is seen as a no-op.
MCNames == {"asi", "toup", "uvc"}
=============================================================================
