----------------------------- MODULE MCNumbering -----------------------------
(* Two things that several processes number at once, and that depend on     *)
(* nothing else, on a small instance for TLC; a behaviour is about one of   *)
(* them: the records of the issuers' hash chains, or the ids of tasks.      *)
EXTENDS HashChain, Reservations

VARIABLE about

MCInit ==
    /\ Init /\ IdsInit
    /\ \/ about = "records" /\ trunk = {}
       \/ about = "ids" /\ rowLocks

MCNext ==
    /\ \/ about = "records" /\ Next /\ UNCHANGED idsVars
       \/ about = "ids" /\ IdsNext /\ UNCHANGED vars
    /\ UNCHANGED about

MCSpec == MCInit /\ [][MCNext]_<<vars, idsVars, about>> /\ Fairness /\ IdsFairness
=============================================================================
