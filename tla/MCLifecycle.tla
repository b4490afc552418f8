----------------------------- MODULE MCLifecycle -----------------------------
(* Small instances of Lifecycle for TLC, and what a docstring says of it that *)
(* the code does not keep.                                                   *)
EXTENDS Lifecycle

\* invoicing/services.py:190-193, UC-005 2a: a submission is cancelled instead of
\* registering an anulacion for a record that was never accepted.
CancelledNotRegistered ==
    [][\A k \in 1..Len(recs) :
          "cancelled" \in Statuses(k)' \ Statuses(k) => recs[k].rec \notin aeat]_vars
=============================================================================
