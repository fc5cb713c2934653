-------------------------- MODULE MCCockpitControls --------------------------
\* The instance of CockpitControls for TLC; threads and executions are symmetric.
EXTENDS CockpitControls, TLC
Symmetry == Permutations(Threads) \cup Permutations(Executions)
=============================================================================
