----------------------------- MODULE MCScreens -----------------------------
\* An instance of Screens for TLC: no symmetry, because the run checks liveness.
EXTENDS Screens
=============================================================================
