--------------------------- MODULE MCWorkflowEngine ---------------------------
\* The instances of WorkflowEngine for TLC: threads and workflow instances are
\* model values of the .cfg files.  No symmetry, since a run checks liveness.
EXTENDS WorkflowEngine
=============================================================================
