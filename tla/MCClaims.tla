------------------------------ MODULE MCClaims ------------------------------
(* Two things of the development process that depend on nothing else, on a   *)
(* small instance for TLC; a behaviour is about one of them: the claims of   *)
(* two clones that share the remote, two sessions in one of them, or the     *)
(* commits of work products.                                                 *)
EXTENDS Claims, Traceability, TLC

CONSTANTS a, b, m,
          MaxCommands  \* bound: the commands that the sessions begin

VARIABLES about, begun

MCClones == {"ab", "m"}
MCCloneOf == [s \in Sessions |-> IF s = m THEN "m" ELSE "ab"]
MCTouches == [t \in Tasks |-> {<<"invoicing">>}]

MCSymmetry == Permutations({a, b}) \cup Permutations(Files) \cup Permutations(Names)

MCInit ==
    /\ about \in {"claims", "documents"}
    /\ begun = 0
    /\ Init /\ TraceInit

MCNext ==
    \/ /\ about = "claims"
       /\ Next
       /\ IF \E s \in Sessions : pc[s] = "idle" /\ pc'[s] \notin {"idle", "dead"}
          THEN begun < MaxCommands /\ begun' = begun + 1
          ELSE UNCHANGED begun
       /\ UNCHANGED <<docs, about>>
    \/ about = "documents" /\ TraceNext /\ UNCHANGED <<vars, about, begun>>

MCSpec == MCInit /\ [][MCNext]_<<vars, docs, about, begun>>
=============================================================================
