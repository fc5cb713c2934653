------------------------- MODULE MCOutboundRequests -------------------------
\* The instances of OutboundRequests for TLC, with model values for the calls.
\* No symmetry, since a run checks liveness.
EXTENDS OutboundRequests
=============================================================================
