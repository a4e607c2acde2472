--------------------------- MODULE MCIndexRevision ---------------------------
\* Works and planners are model values.
EXTENDS IndexRevision
=============================================================================
