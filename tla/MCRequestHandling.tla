--------------------------- MODULE MCRequestHandling ---------------------------
\* One connection takes requests of every shape, the other one an unknown path
\* (a second one of every kind is out of reach).  No symmetry, since the run checks liveness.
EXTENDS RequestHandling

CONSTANTS c1, c2

Post(handler) == [handler |-> handler, method |-> "POST", known |-> TRUE,
                  resolved |-> TRUE, body |-> "declared", role |-> "user"]

\* The handlers of the pipeline, of the monetization and of the connectors differ
\* from others in the codes of their tables only.
MCHandlers == (DOMAIN ErrorsOf \ {"pipeline", "monetization", "connectors"}) \cup {"tasks"}

MCRequests ==
    {Post(h) : h \in MCHandlers}
    \cup {[Post(h) EXCEPT !.known = FALSE] : h \in {"tasks", "onboarding", "cockpit"}}
    \cup {[Post("tasks") EXCEPT !.role = role] : role \in {"invalid", "anonymous", "readonly"}}
    \cup {[Post(h) EXCEPT !.resolved = FALSE, !.role = "anonymous"] : h \in {"clients", "unknown"}}
    \cup {[Post(h) EXCEPT !.body = "misdeclared"] : h \in {"workflows", "cockpit"}}
    \cup {[Post("cockpit") EXCEPT !.body = "none"]}
    \cup {[Post("tasks") EXCEPT !.method = "DELETE", !.body = "none", !.role = "admin"]}

MCThreads == {c1, c2}
MCRequestsOf == [t \in MCThreads |-> IF t = c1 THEN MCRequests
                                     ELSE {NoRequest}]
=============================================================================
