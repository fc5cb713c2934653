---------------------------- MODULE MCUsageMeter ----------------------------
\* The instance of UsageMeter for TLC: its threads and requests are model values
\* of UsageMeter.cfg.  No symmetry, since the run checks liveness.
EXTENDS UsageMeter
=============================================================================
