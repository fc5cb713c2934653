---------------------------- MODULE MCJsonStore -----------------------------
\* The instance of JsonStore for TLC: its threads, keys and values are model
\* values of JsonStore.cfg.  No symmetry, since the run checks liveness.
EXTENDS JsonStore
=============================================================================
