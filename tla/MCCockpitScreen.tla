--------------------------- MODULE MCCockpitScreen ---------------------------
\* The instance of CockpitScreen for TLC; no symmetry, since it checks liveness.
EXTENDS CockpitScreen
=============================================================================
