-------------------------------- MODULE Paths --------------------------------
(***************************************************************************)
(* The surfaces of the development process (scripts/openup-claims.py): a   *)
(* path is the sequence of its segments, as _norm and the comparison leave *)
(* it: without "./", doubled or trailing slashes.                          *)
(***************************************************************************)
EXTENDS Sequences, Naturals

IsPathPrefix(a, b) == Len(a) <= Len(b) /\ \A i \in 1..Len(a) : a[i] = b[i]

\* Mistake to detect: only the first path may be the enclosing one.
CollideOneWay(a, b) == a # << >> /\ b # << >> /\ IsPathPrefix(a, b)

\* One path encloses the other, segment by segment, or they are equal.
SegPrefixCollide(a, b) ==
    /\ a # << >> /\ b # << >>
    /\ IsPathPrefix(a, b) \/ IsPathPrefix(b, a)

TouchesOverlap(A, B) == \E a \in A, b \in B : SegPrefixCollide(a, b)
=============================================================================
