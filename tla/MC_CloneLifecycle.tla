--------------------------- MODULE MC_CloneLifecycle ---------------------------
EXTENDS CloneLifecycle
=============================================================================
