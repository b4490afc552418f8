----------------------------- MODULE MCRetention -----------------------------
(* Small instances of Retention for TLC, and what purge_expired_data.py      *)
(* promises of a run.                                                        *)
EXTENDS Retention, TLC

MCSymmetry == Permutations(Users)

\* purge_expired_data.py:136-138: a run deletes the expired invoices, "cascade in
\* the DB removes LineItems, VerifactuRecords (compliance), and SubmissionAttempts".
ExpiredInvoicesAreDeleted ==
    pc \in {"done", "failed"} => \A i \in Invoices : inv[i] # None => inv[i].date >= cut - Window
=============================================================================
