----------------------------- MODULE MCIssuance -----------------------------
(* Small instances of Issuance for TLC. *)
EXTENDS Issuance, TLC

CONSTANTS w1, w2, w3, a, b, c, d, A, B

\* Three drafts in series A, one of them without line items, one in series B.
MCSeriesOf == (a :> A) @@ (b :> A) @@ (c :> B) @@ (d :> A)

MCSymmetry == Permutations(Workers)
=============================================================================
