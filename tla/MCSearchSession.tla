--------------------------- MODULE MCSearchSession ---------------------------
EXTENDS SearchSession
================================================================================
