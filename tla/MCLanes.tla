------------------------------- MODULE MCLanes -------------------------------
(* A small instance of Lanes for TLC: t2 may depend on t1 and is quick. *)
EXTENDS Lanes

CONSTANTS t1, t2,
          MaxClaims  \* bound: the claims that pass their pre-flight

VARIABLE claims

Models == <<"invoicing", "models.py">>

MCOrder == <<t1, t2>>
MCMayDepend == [t \in {t1, t2} |-> IF t = t2 THEN {t1} ELSE {}]

\* A directory, a file in it, another directory, and nothing declared.
MCMayTouch == [t \in {t1, t2} |-> IF t = t1 THEN {{<<"invoicing">>}, {<<"clients">>}}
                                           ELSE {{Models}, {<<"clients">>}, {}}]
MCFiles == {Models}

MCSymmetry == Permutations(Sessions)

MCInit == Init /\ claims = 0

MCNext ==
    /\ Next
    /\ IF \E s \in Sessions : cleared[s] = None /\ cleared'[s] # None
       THEN claims < MaxClaims /\ claims' = claims + 1
       ELSE UNCHANGED claims

MCSpec == MCInit /\ [][MCNext]_<<vars, claims>>
=============================================================================
