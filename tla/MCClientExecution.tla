------------------------- MODULE MCClientExecution --------------------------
\* The instance of ClientExecution for TLC: its threads, clients and executions
\* are model values of ClientExecution.cfg.  No symmetry, since the run checks
\* liveness.
EXTENDS ClientExecution
=============================================================================
