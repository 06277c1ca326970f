--------------------------- MODULE MCExternalLeaf ---------------------------
EXTENDS ExternalLeaf

\* Reads without and writes with and without an idempotency key, whose backends can and
\* cannot be cancelled, a Model turn and a Context query.
MCAdmissions ==
    [domain : {"capability"}, effect : Effect, cancellation : BOOLEAN]
    \cup [domain : {"model", "context"}, effect : {"read"}, cancellation : {FALSE}]

MCContextAdmissions == [domain : {"context"}, effect : {"read"}, cancellation : {FALSE}]
=============================================================================
