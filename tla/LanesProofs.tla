----------------------------- MODULE LanesProofs -----------------------------
(***************************************************************************)
(* Proofs about Lanes, for any number of tasks and sessions, any surfaces  *)
(* and any bound on the edits.                                             *)
(*                                                                         *)
(* ClaimedLanesAreDisjoint is inductive in the form LeasesApart, about     *)
(* pairs of leases, together with UnwrittenApart: a claim that has passed  *)
(* its pre-flight still overlaps with no lease but those it has missed.    *)
(* BoardIsRight speaks of one state, but needs PlanInv: where a plan is    *)
(* says what its body and its row may say.                                 *)
(*                                                                         *)
(* BatchCanStart is about a recursive function: that the lanes topN takes  *)
(* are compatible is shown by induction on the tasks in the order of the   *)
(* board.  The library's induction theorems take an operator as their      *)
(* parameter, which cannot be instantiated here; the lemmas LeastNumber,   *)
(* Induction and Recursion take sets and functions instead.                *)
(***************************************************************************)
EXTENDS Lanes, WellFoundedInduction, TLAPS

\* Only an archived plan has a completed row; only a plan that is on the trunk, or
\* has been, has left "proposed".
PlanInv ==
    \A t \in Tasks :
        /\ plan[t].place # "archive" => row[t] = "proposed"
        /\ plan[t].place \in {"none", "branch"} => plan[t].status = "proposed"

Kept(t) == Leased(t) /\ t \notin widened

LeasesApart ==
    \A t, u \in Tasks : t # u /\ Kept(t) /\ Kept(u) /\ {t, u} \notin raced =>
        ~TouchesOverlap(lease[t].touches, lease[u].touches)

UnwrittenApart ==
    \A s \in Sessions, u \in Tasks :
        /\ cleared[s] # None
        /\ u # cleared[s].task /\ Kept(u) /\ u \notin missed[s]
        => ~TouchesOverlap(cleared[s].touches, lease[u].touches)

IInv == TypeOK /\ PlanInv /\ LeasesApart /\ UnwrittenApart

----------------------------------------------------------------------------
(* Paths *)

LEMMA CollideSymmetric == \A a, b : SegPrefixCollide(a, b) <=> SegPrefixCollide(b, a)
BY DEF SegPrefixCollide

LEMMA OverlapSymmetric == \A A, B : TouchesOverlap(A, B) <=> TouchesOverlap(B, A)
BY CollideSymmetric DEF TouchesOverlap

\* Two paths that do not collide part at some segment.
LEMMA PathsPart ==
    ASSUME NEW a \in Seq(STRING) \ {<< >>}, NEW b \in Seq(STRING) \ {<< >>},
           ~SegPrefixCollide(a, b)
    PROVE  \E i \in 1..Len(a) : i <= Len(b) /\ a[i] # b[i]
<1>1. Len(a) \in Nat /\ Len(b) \in Nat
  OBVIOUS
<1>2. ~IsPathPrefix(a, b) /\ ~IsPathPrefix(b, a)
  BY DEF SegPrefixCollide
<1>3. CASE Len(a) <= Len(b)
  <2>1. PICK i \in 1..Len(a) : a[i] # b[i]
    BY <1>2, <1>3 DEF IsPathPrefix
  <2>2. QED
    BY <1>1, <1>3, <2>1
<1>4. CASE Len(b) < Len(a)
  <2>1. PICK i \in 1..Len(b) : b[i] # a[i]
    BY <1>1, <1>2, <1>4 DEF IsPathPrefix
  <2>2. QED
    BY <1>1, <1>4, <2>1
<1>5. QED
  BY <1>1, <1>3, <1>4

\* Two paths that enclose a third collide.
LEMMA PrefixesCollide ==
    ASSUME NEW a \in Seq(STRING) \ {<< >>}, NEW b \in Seq(STRING) \ {<< >>}, NEW f,
           IsPathPrefix(a, f), IsPathPrefix(b, f)
    PROVE  SegPrefixCollide(a, b)
<1>1. Len(a) \in Nat /\ Len(b) \in Nat
  OBVIOUS
<1>2. CASE Len(a) <= Len(b)
  BY <1>1, <1>2 DEF IsPathPrefix, SegPrefixCollide
<1>3. CASE Len(b) <= Len(a)
  BY <1>1, <1>3 DEF IsPathPrefix, SegPrefixCollide
<1>4. QED
  BY <1>1, <1>2, <1>3

----------------------------------------------------------------------------
(* Recursive functions *)

\* A set of numbers that is not empty has a least one.
LEMMA LeastNumber ==
    ASSUME NEW S, S \subseteq Nat, S # {}
    PROVE  \E n \in S : \A m \in S : n <= m
<1>1. PICK R : R = OpToRel(<, Nat)
  OBVIOUS
<1>2. IsWellFoundedOn(R, Nat)
  BY <1>1, NatLessThanWellFounded
<1>3. PICK n \in S : \A m \in S : ~(<<m, n>> \in R)
  BY <1>2, WFMin
<1>4. \A m, k \in Nat : <<m, k>> \in R <=> m < k
  BY <1>1 DEF OpToRel
<1>5. ASSUME NEW m \in S PROVE n <= m
  <2>1. m \in Nat /\ n \in Nat
    OBVIOUS
  <2>2. ~(m < n)
    BY <1>3, <1>4, <2>1
  <2>3. QED
    BY <2>1, <2>2
<1>6. QED
  BY <1>5

\* What holds of 0, and of i whenever it holds of i - 1, holds up to n.
LEMMA Induction ==
    ASSUME NEW n \in Nat, NEW S, 0 \in S,
           \A i \in 1..n : i - 1 \in S => i \in S
    PROVE  0..n \subseteq S
<1> SUFFICES ASSUME 0..n \ S # {} PROVE FALSE
  OBVIOUS
<1> DEFINE Rest == 0..n \ S
<1>5. Rest \subseteq Nat /\ Rest # {}
  OBVIOUS
<1>1. PICK i \in Rest : \A j \in Rest : i <= j
  <2> HIDE DEF Rest
  <2>1. QED
    BY <1>5, LeastNumber
<1>2. i \in 1..n /\ i - 1 \in 0..n
  OBVIOUS
<1>3. i - 1 \in S
  BY <1>1, <1>2
<1>4. QED
  BY <1>1, <1>2, <1>3

\* f[i] is what the first i steps make of x.
Iterates(f, n, x, step) == f = [i \in 0..n |-> IF i = 0 THEN x ELSE step[i][f[i - 1]]]

\* There is such a function, and what every step keeps within S stays there.
LEMMA Recursion ==
    ASSUME NEW n \in Nat, NEW S, NEW x \in S, NEW step \in [1..n -> [S -> S]]
    PROVE  \E f : Iterates(f, n, x, step) /\ \A i \in 0..n : f[i] \in S
<1> DEFINE Upto(f, m) == /\ f \in [0..m -> S] /\ f[0] = x
                         /\ \A i \in 1..m : f[i] = step[i][f[i - 1]]
           Done == {m \in 0..n : \E f : Upto(f, m)}
<1>1. 0 \in Done
  <2>1. PICK f : f = [i \in 0..0 |-> x]
    OBVIOUS
  <2>2. Upto(f, 0)
    BY <2>1
  <2>3. QED
    BY <2>2
<1>2. ASSUME NEW m \in 1..n, m - 1 \in Done PROVE m \in Done
  <2>1. PICK f : Upto(f, m - 1)
    BY <1>2
  <2>2. m - 1 \in 0..(m - 1) /\ f[m - 1] \in S
    BY <2>1
  <2>3. PICK y : y = step[m][f[m - 1]]
    OBVIOUS
  <2>4. y \in S
    BY <2>2, <2>3
  <2>5. PICK g : g = [i \in 0..m |-> IF i = m THEN y ELSE f[i]]
    OBVIOUS
  <2>6. \A i \in 0..m : i # m => i \in 0..(m - 1)
    OBVIOUS
  <2>7. g \in [0..m -> S] /\ g[0] = x /\ g[m] = y /\ \A i \in 0..(m - 1) : g[i] = f[i]
    BY <2>1, <2>4, <2>5, <2>6
  <2>8. ASSUME NEW i \in 1..m PROVE g[i] = step[i][g[i - 1]]
    <3>1. i - 1 \in 0..(m - 1) /\ g[i - 1] = f[i - 1]
      BY <2>7
    <3>2. CASE i = m
      BY <2>3, <2>7, <3>1, <3>2
    <3>3. CASE i # m
      <4>1. i \in 1..(m - 1) /\ i \in 0..(m - 1)
        BY <3>3
      <4>2. QED
        BY <2>1, <2>7, <3>1, <4>1
    <3>4. QED
      BY <3>2, <3>3
  <2>9. QED
    BY <2>7, <2>8
<1>3. 0..n \subseteq Done
  <2> HIDE DEF Done
  <2>1. QED
    BY <1>1, <1>2, Induction
<1>4. PICK f : Upto(f, n)
  <2>1. n \in Done
    BY <1>3
  <2>2. QED
    BY <2>1
<1>5. Iterates(f, n, x, step)
  <2>1. \A i \in 0..n : i # 0 => i \in 1..n
    OBVIOUS
  <2>2. QED
    BY <1>4, <2>1 DEF Iterates
<1>6. QED
  BY <1>4, <1>5

----------------------------------------------------------------------------
(* The batch *)

\* Lanes that can be started together, as far as the board can see.
Compatible(S) ==
    /\ S \subseteq Ready
    /\ \A t, u \in S : t # u => ~TouchesOverlap(plan[t].touches, plan[u].touches)

\* cmd_top_n hands out ready lanes that do not overlap each other.
LEMMA TopIsCompatible == ASSUME NEW n \in Nat PROVE Compatible(TopN(n))
<1> DEFINE Batches == {S \in SUBSET Ready : Compatible(S)}
           Fits(t, S) == /\ t \in Ready /\ Cardinality(S) < n
                         /\ \A u \in S : ~TouchesOverlap(plan[t].touches, plan[u].touches)
           Taken(t, S) == IF Fits(t, S) THEN S \cup {t} ELSE S
           step == [i \in 1..Len(Order) |-> [S \in Batches |-> Taken(Order[i], S)]]
<1>1. {} \in Batches
  BY DEF Compatible
<1>2. ASSUME NEW S \in Batches, NEW t PROVE Taken(t, S) \in Batches
  BY OverlapSymmetric DEF Compatible
<1>3. Len(Order) \in Nat
  BY LanesAssumption
<1>4. step \in [1..Len(Order) -> [Batches -> Batches]]
  <2> HIDE DEF Batches, Taken
  <2>1. QED
    BY <1>2
<1>5. PICK f : Iterates(f, Len(Order), {}, step) /\ \A i \in 0..Len(Order) : f[i] \in Batches
  <2> HIDE DEF Batches, step
  <2>1. QED
    BY <1>1, <1>3, <1>4, Recursion
<1>6. ASSUME NEW i \in 0..Len(Order)
      PROVE  f[i] = IF i = 0 THEN {} ELSE Taken(Order[i], f[i - 1])
  <2> HIDE DEF Batches, Taken
  <2>1. f[i] = IF i = 0 THEN {} ELSE step[i][f[i - 1]]
    <3> HIDE DEF step
    <3>1. QED
      BY <1>5 DEF Iterates
  <2>2. CASE i = 0
    BY <2>1, <2>2
  <2>3. CASE i # 0
    <3>1. i \in 1..Len(Order) /\ i - 1 \in 0..Len(Order)
      BY <1>3, <2>3
    <3>2. step[i][f[i - 1]] = Taken(Order[i], f[i - 1])
      BY <1>5, <3>1
    <3>3. QED
      BY <2>1, <2>3, <3>2
  <2>4. QED
    BY <2>2, <2>3
<1> DEFINE Chosen == CHOOSE g : g = [i \in 0..Len(Order) |->
                                       IF i = 0 THEN {} ELSE Taken(Order[i], g[i - 1])]
<1>7. f = [i \in 0..Len(Order) |-> IF i = 0 THEN {} ELSE Taken(Order[i], f[i - 1])]
  <2> HIDE DEF Batches, Taken
  <2>1. f = [i \in 0..Len(Order) |-> f[i]]
    <3> HIDE DEF step
    <3>1. QED
      BY <1>5 DEF Iterates
  <2>2. QED
    BY <1>6, <2>1
<1>8. Chosen = [i \in 0..Len(Order) |-> IF i = 0 THEN {} ELSE Taken(Order[i], Chosen[i - 1])]
  <2> HIDE DEF Taken
  <2>1. QED
    BY <1>7
<1>9. TopN(n) = Chosen[Len(Order)]
  BY DEF TopN
<1> HIDE DEF Chosen
<1>10. ASSUME NEW i \in 0..Len(Order)
      PROVE  Chosen[i] = IF i = 0 THEN {} ELSE Taken(Order[i], Chosen[i - 1])
  <2> HIDE DEF Taken
  <2>1. QED
    BY <1>8
<1> DEFINE Good == {i \in 0..Len(Order) : Chosen[i] \in Batches}
<1>11. 0..Len(Order) \subseteq Good
  <2> HIDE DEF Batches, Taken
  <2>1. 0 \in Good
    BY <1>1, <1>3, <1>10
  <2>2. ASSUME NEW i \in 1..Len(Order), i - 1 \in Good PROVE i \in Good
    <3>1. i \in 0..Len(Order) /\ i # 0
      BY <1>3
    <3>2. QED
      BY <1>2, <1>10, <2>2, <3>1
  <2> HIDE DEF Good
  <2>3. QED
    BY <1>3, <2>1, <2>2, Induction
<1>12. QED
  BY <1>3, <1>9, <1>11

----------------------------------------------------------------------------
(* The initial state *)

LEMMA NoPlanType == NoPlan \in Plans
BY DEF NoPlan, Plans, Statuses

LEMMA InitIInv == Init => IInv
<1> SUFFICES ASSUME Init PROVE IInv
  OBVIOUS
<1>1. \A t \in Tasks : lease[t] = None /\ ~Leased(t)
  BY DEF Init, Leased
<1>2. plan \in [Tasks -> Plans]
  BY NoPlanType DEF Init
<1>4. TypeOK
  BY <1>1, <1>2, LanesAssumption DEF TypeOK, Init, Plans
<1>5. PlanInv
  BY DEF PlanInv, Init, NoPlan
<1>6. LeasesApart
  BY <1>1 DEF LeasesApart, Kept
<1>7. UnwrittenApart
  BY DEF UnwrittenApart, Init
<1>8. QED
  BY <1>4, <1>5, <1>6, <1>7 DEF IInv

----------------------------------------------------------------------------
(* The steps keep the type *)

LEMMA TouchesDeclared == \A t \in Tasks : MayTouch[t] \subseteq Surfaces
BY DEF Surfaces

\* A plan stays a plan when its place, status, touches or question change.
LEMMA PlanEdits ==
    ASSUME NEW p \in Plans
    PROVE  /\ \A place \in {"active", "archive"}, st \in Statuses :
                 [p EXCEPT !.place = place, !.status = st] \in Plans
           /\ \A surface \in Surfaces : [p EXCEPT !.touches = surface] \in Plans
           /\ \A st \in Statuses : [p EXCEPT !.status = st] \in Plans
           /\ [p EXCEPT !.place = "active"] \in Plans
           /\ [p EXCEPT !.asks = TRUE] \in Plans
           /\ p.status \in Statuses
<1>1. ASSUME NEW place \in {"active", "archive"}, NEW st \in Statuses
      PROVE  [p EXCEPT !.place = place, !.status = st] \in Plans
  BY DEF Plans
<1>2. ASSUME NEW surface \in Surfaces PROVE [p EXCEPT !.touches = surface] \in Plans
  BY DEF Plans
<1>3. ASSUME NEW st \in Statuses PROVE [p EXCEPT !.status = st] \in Plans
  BY DEF Plans
<1>4. [p EXCEPT !.place = "active"] \in Plans
  BY DEF Plans
<1>5. [p EXCEPT !.asks = TRUE] \in Plans
  BY DEF Plans
<1>6. p.status \in Statuses
  BY DEF Plans
<1>7. QED
  BY <1>1, <1>2, <1>3, <1>4, <1>5, <1>6

LEMMA TypeStep == TypeOK /\ [Next]_vars => TypeOK'
<1> SUFFICES ASSUME TypeOK, [Next]_vars PROVE TypeOK'
  OBVIOUS
<1> USE LanesAssumption
<1> USE DEF claiming
<1>1. ASSUME NEW t \in Tasks, NEW surface \in MayTouch[t], AddPlan(t, surface) PROVE TypeOK'
  <2>1. PICK place \in {"branch", "active"}, depends \in SUBSET MayDepend[t] :
          plan' = [plan EXCEPT ![t] = [NoPlan EXCEPT !.place = place, !.touches = surface,
                                                     !.depends = depends]]
    BY <1>1 DEF AddPlan
  <2>2. [NoPlan EXCEPT !.place = place, !.touches = surface, !.depends = depends] \in Plans
    BY NoPlanType, TouchesDeclared DEF Plans
  <2>3. QED
    BY <1>1, <2>1, <2>2 DEF AddPlan, TypeOK, Leased
<1>2. ASSUME NEW t \in Tasks, LandPlan(t) PROVE TypeOK'
  <2>1. [plan[t] EXCEPT !.place = "active"] \in Plans
    BY PlanEdits DEF TypeOK
  <2>2. QED
    BY <1>2, <2>1 DEF LandPlan, TypeOK, Leased
<1>3. ASSUME NEW t \in Tasks, EditPlan(t) PROVE TypeOK'
  <2>1. plan[t] \in Plans
    BY DEF TypeOK
  <2>2. ASSUME \E st \in Statuses \ {"done"} :
                   plan' = [plan EXCEPT ![t] = [@ EXCEPT !.status = st]]
        PROVE  plan' \in [Tasks -> Plans]
    <3>1. PICK st \in Statuses : plan' = [plan EXCEPT ![t] = [plan[t] EXCEPT !.status = st]]
      BY <2>2 DEF TypeOK
    <3>2. [plan[t] EXCEPT !.status = st] \in Plans
      BY <2>1, PlanEdits
    <3>3. QED
      BY <3>1, <3>2 DEF TypeOK
  <2>3. ASSUME \E surface \in MayTouch[t] :
                   plan' = [plan EXCEPT ![t] = [@ EXCEPT !.touches = surface]]
        PROVE  plan' \in [Tasks -> Plans]
    <3>1. PICK surface \in MayTouch[t] :
            plan' = [plan EXCEPT ![t] = [plan[t] EXCEPT !.touches = surface]]
      BY <2>3 DEF TypeOK
    <3>2. [plan[t] EXCEPT !.touches = surface] \in Plans
      BY <2>1, PlanEdits, TouchesDeclared
    <3>3. QED
      BY <3>1, <3>2 DEF TypeOK
  <2>4. plan' \in [Tasks -> Plans]
    BY <1>3, <2>2, <2>3 DEF EditPlan, TypeOK
  <2>5. QED
    BY <1>3, <2>4 DEF EditPlan, TypeOK, Leased
<1>4. ASSUME NEW s \in Sessions, NEW n \in 1..2, Pick(s, n) PROVE TypeOK'
  BY <1>4 DEF Pick, TypeOK, Leased
<1>5. ASSUME NEW s \in Sessions, NEW t \in Tasks, Preflight(s, t) PROVE TypeOK'
  <2>1. [task |-> t, touches |-> plan[t].touches] \in Unwritten
    BY DEF TypeOK, Plans, Unwritten
  <2>2. QED
    BY <1>5, <2>1 DEF Preflight, TypeOK, Leased
<1>6. ASSUME NEW s \in Sessions, NEW t \in Tasks, ClaimRefused(s, t) PROVE TypeOK'
  BY <1>6 DEF ClaimRefused, TypeOK, Leased
<1>7. ASSUME NEW t \in Tasks, Reclaim(t) PROVE TypeOK'
  <2>1. lease[t] \in Leases
    BY <1>7 DEF Reclaim, TypeOK, Leased
  <2>2. plan[t].touches \in Surfaces \cup {{}}
    BY DEF TypeOK, Plans
  <2>3. [lease[t] EXCEPT !.touches = plan[t].touches] \in Leases
    BY <2>1, <2>2 DEF Leases
  <2>4. QED
    BY <1>7, <2>3 DEF Reclaim, TypeOK, Leased
<1>8. ASSUME NEW t \in Tasks, NEW f \in Files, Change(t, f) PROVE TypeOK'
  BY <1>8 DEF Change, TypeOK, Leased
<1>9. ASSUME NEW t \in Tasks, ReclaimRefused(t) PROVE TypeOK'
  BY <1>9 DEF ReclaimRefused, Without, TypeOK, Leased
<1>10. ASSUME NEW t \in Tasks, Ask(t) PROVE TypeOK'
  <2>1. [plan[t] EXCEPT !.asks = TRUE] \in Plans
    BY PlanEdits DEF TypeOK
  <2>2. QED
    BY <1>10, <2>1 DEF Ask, TypeOK, Leased
<1>11. ASSUME NEW t \in Tasks, Answer(t) PROVE TypeOK'
  BY <1>11 DEF Answer, TypeOK, Leased
<1>12. ASSUME NEW t \in Tasks, Resume(t) PROVE TypeOK'
  BY <1>12 DEF Resume, TypeOK, Leased
<1>13. ASSUME NEW t \in Tasks, Complete(t) PROVE TypeOK'
  <2>1. PICK st \in {plan[t].status, "done"} :
          plan' = [plan EXCEPT ![t] = [plan[t] EXCEPT !.place = "archive", !.status = st]]
    BY <1>13 DEF Complete, TypeOK
  <2>2. plan[t] \in Plans
    BY DEF TypeOK
  <2>3. st \in Statuses
    BY <2>2, PlanEdits DEF Statuses
  <2>4. [plan[t] EXCEPT !.place = "archive", !.status = st] \in Plans
    BY <2>2, <2>3, PlanEdits
  <2>5. plan' \in [Tasks -> Plans]
    BY <2>1, <2>4 DEF TypeOK
  <2>7. QED
    BY <1>13, <2>5 DEF Complete, Without, TypeOK, Leased
<1>14. ASSUME NEW t \in Tasks, Retire(t) PROVE TypeOK'
  <2>1. [plan[t] EXCEPT !.place = "archive", !.status = "deferred"] \in Plans
    BY PlanEdits DEF TypeOK, Statuses
  <2>2. QED
    BY <1>14, <2>1 DEF Retire, TypeOK, Leased
<1>15. ASSUME Migrate PROVE TypeOK'
  <2>1. \A t \in Tasks : [plan[t] EXCEPT !.status = "done"] \in Plans
    BY PlanEdits DEF TypeOK, Statuses
  <2>2. plan' \in [Tasks -> Plans]
    BY <1>15, <2>1 DEF Migrate, TypeOK
  <2>3. QED
    BY <1>15, <2>2 DEF Migrate, TypeOK, Leased
<1>16. ASSUME NEW t \in Tasks, Spoil(t) PROVE TypeOK'
  BY <1>16 DEF Spoil, TypeOK, Leased
<1>17. ASSUME NEW t \in Tasks, RemoveCorrupt(t) PROVE TypeOK'
  BY <1>17 DEF RemoveCorrupt, Without, TypeOK, Leased
<1>18. ASSUME NEW s \in Sessions, WriteLease(s) PROVE TypeOK'
  <2>1. PICK t, T : t = cleared[s].task /\ T = cleared[s].touches
    OBVIOUS
  <2>2. t \in Tasks /\ T \in Surfaces \cup {{}}
    BY <1>18, <2>1 DEF WriteLease, TypeOK, Unwritten
  <2>3. PICK p : p = [by |-> s, touches |-> T]
    OBVIOUS
  <2>4. p \in Leases /\ p # None
    BY <2>2, <2>3, LanesAssumption DEF Leases
  <2>5. /\ lease' = [lease EXCEPT ![t] = p]
        /\ missed' = [v \in Sessions |-> IF v = s \/ cleared[v] = None THEN {}
                                         ELSE missed[v] \cup {t}]
        /\ raced' = Without(t) \cup {{t, u} : u \in {w \in missed[s] : w # t /\ Leased(w)}}
        /\ widened' = widened \ {t}
        /\ cleared' = [cleared EXCEPT ![s] = None]
    BY <1>18, <2>1, <2>3 DEF WriteLease
  <2>6. raced' \subseteq SUBSET Tasks
    BY <2>2, <2>5 DEF Without, TypeOK
  <2>7. missed' \in [Sessions -> SUBSET Tasks]
    BY <2>2, <2>5 DEF TypeOK
  <2>8. \A v \in Sessions : missed'[v] # {} => cleared'[v] # None
    BY <2>5 DEF TypeOK
  <2>9. lease' \in [Tasks -> Leases \cup {None, Corrupt}] /\ lease'[t] = p
    BY <2>2, <2>4, <2>5 DEF TypeOK
  <2>10. widened' \subseteq {u \in Tasks : lease'[u] # None}
    BY <2>2, <2>4, <2>5 DEF TypeOK
  <2>11. cleared' \in [Sessions -> Unwritten \cup {None}]
    BY <2>5 DEF TypeOK
  <2>12. UNCHANGED <<plan, row, question, diff, todo, edits>>
    BY <1>18 DEF WriteLease
  <2>13. QED
    BY <2>6, <2>7, <2>8, <2>9, <2>10, <2>11, <2>12 DEF TypeOK
<1>19. ASSUME NEW s \in Sessions, WriteRefused(s) PROVE TypeOK'
  <2>1. PICK t : t = cleared[s].task
    OBVIOUS
  <2>2. t \in Tasks
    BY <1>19, <2>1 DEF WriteRefused, TypeOK, Unwritten
  <2>3. QED
    BY <1>19, <2>1, <2>2 DEF WriteRefused, Without, TypeOK
<1>20. CASE UNCHANGED vars
  BY <1>20 DEF vars, TypeOK, Leased
<1>21. QED
  BY <1>1, <1>2, <1>3, <1>4, <1>5, <1>6, <1>7, <1>8, <1>9, <1>10, <1>11, <1>12,
     <1>13, <1>14, <1>15, <1>16, <1>17, <1>18, <1>19, <1>20 DEF Next

----------------------------------------------------------------------------
(* The steps keep what a plan's place says *)

\* Most steps change neither plans nor rows.
LEMMA PlanInvKept == PlanInv /\ UNCHANGED <<plan, row>> => PlanInv'
BY DEF PlanInv

LEMMA PlanStep == TypeOK /\ PlanInv /\ [Next]_vars => PlanInv'
<1> SUFFICES ASSUME TypeOK, PlanInv, [Next]_vars PROVE PlanInv'
  OBVIOUS
<1>1. ASSUME NEW t \in Tasks, NEW surface \in MayTouch[t], AddPlan(t, surface) PROVE PlanInv'
  <2>1. PICK place \in {"branch", "active"}, depends \in SUBSET MayDepend[t] :
          plan' = [plan EXCEPT ![t] = [NoPlan EXCEPT !.place = place, !.touches = surface,
                                                     !.depends = depends]]
    BY <1>1 DEF AddPlan
  <2>2. plan'[t].place # "archive" /\ plan'[t].status = "proposed"
    BY <2>1 DEF TypeOK, NoPlan
  <2>3. row[t] = "proposed"
    BY <1>1 DEF AddPlan, PlanInv
  <2>4. QED
    BY <1>1, <2>1, <2>2, <2>3 DEF AddPlan, PlanInv, TypeOK
<1>2. ASSUME NEW t \in Tasks, LandPlan(t) PROVE PlanInv'
  <2>1. plan'[t].place = "active" /\ \A u \in Tasks \ {t} : plan'[u] = plan[u]
    BY <1>2 DEF LandPlan, TypeOK, Plans
  <2>2. QED
    BY <1>2, <2>1 DEF LandPlan, PlanInv
<1>3. ASSUME NEW t \in Tasks, EditPlan(t) PROVE PlanInv'
  <2>1. plan'[t].place = "active" /\ \A u \in Tasks \ {t} : plan'[u] = plan[u]
    BY <1>3 DEF EditPlan, TypeOK, Plans
  <2>2. QED
    BY <1>3, <2>1 DEF EditPlan, PlanInv
<1>4. ASSUME NEW t \in Tasks, Ask(t) PROVE PlanInv'
  <2>1. plan'[t].place = "active" /\ \A u \in Tasks \ {t} : plan'[u] = plan[u]
    BY <1>4 DEF Ask, TypeOK, Plans
  <2>2. QED
    BY <1>4, <2>1 DEF Ask, PlanInv
<1>5. ASSUME NEW t \in Tasks, Complete(t) PROVE PlanInv'
  <2>1. plan'[t].place = "archive" /\ \A u \in Tasks \ {t} : plan'[u] = plan[u]
    BY <1>5 DEF Complete, TypeOK, Plans
  <2>2. \A u \in Tasks \ {t} : row'[u] = row[u]
    BY <1>5 DEF Complete, TypeOK
  <2>3. QED
    BY <2>1, <2>2 DEF PlanInv
<1>6. ASSUME NEW t \in Tasks, Retire(t) PROVE PlanInv'
  <2>1. plan'[t].place = "archive" /\ \A u \in Tasks \ {t} : plan'[u] = plan[u]
    BY <1>6 DEF Retire, TypeOK, Plans
  <2>2. QED
    BY <1>6, <2>1 DEF Retire, PlanInv
<1>7. ASSUME Migrate PROVE PlanInv'
  <2>1. \A t \in Tasks : /\ plan'[t].place = plan[t].place
                         /\ plan[t].place # "archive" => plan'[t] = plan[t]
    BY <1>7 DEF Migrate, Stale, TypeOK, Plans
  <2>2. QED
    BY <1>7, <2>1 DEF Migrate, PlanInv
<1>8. CASE UNCHANGED <<plan, row>>
  BY <1>8, PlanInvKept
<1>9. QED
  BY <1>1, <1>2, <1>3, <1>4, <1>5, <1>6, <1>7, <1>8
     DEF Next, vars, Reclaim, ReclaimRefused, Change, Answer, Resume, Spoil, RemoveCorrupt,
         Pick, Preflight, ClaimRefused, WriteLease, WriteRefused

----------------------------------------------------------------------------
(* The steps keep the leases apart *)

\* A step that clears no claim and gives no lease, and forgets only races of leases that
\* end, keeps the leases apart, and what the pre-flights have cleared.
LEMMA ApartKept ==
    ASSUME LeasesApart, UnwrittenApart,
           \A t \in Tasks : Kept(t)' => Kept(t) /\ lease'[t] = lease[t],
           \A t, u \in Tasks : Kept(t)' /\ Kept(u)' /\ {t, u} \in raced => {t, u} \in raced',
           \A s \in Sessions : cleared'[s] # None =>
               cleared'[s] = cleared[s] /\ missed'[s] = missed[s]
    PROVE  LeasesApart' /\ UnwrittenApart'
BY DEF LeasesApart, UnwrittenApart

LEMMA ApartStep ==
    TypeOK /\ LeasesApart /\ UnwrittenApart /\ [Next]_vars => LeasesApart' /\ UnwrittenApart'
<1> SUFFICES ASSUME TypeOK, LeasesApart, UnwrittenApart, [Next]_vars
             PROVE  LeasesApart' /\ UnwrittenApart'
  OBVIOUS
<1> DEFINE Goal == LeasesApart' /\ UnwrittenApart'
<1>1. ASSUME NEW s \in Sessions, NEW t \in Tasks, Preflight(s, t) PROVE Goal
  <2>1. \A u \in Tasks : Kept(u)' <=> Kept(u)
    BY <1>1 DEF Preflight, Kept, Leased
  <2>2. LeasesApart'
    BY <1>1, <2>1 DEF Preflight, LeasesApart
  <2>3. cleared'[s].touches = plan[t].touches /\ cleared'[s].task = t
    BY <1>1 DEF Preflight, TypeOK
  <2>4. \A u \in Tasks \ {t} : Kept(u) => ~TouchesOverlap(plan[t].touches, lease[u].touches)
    BY <1>1 DEF Preflight, PreflightClear, Kept
  <2>5. ASSUME NEW v \in Sessions, NEW u \in Tasks, cleared'[v] # None,
               u # cleared'[v].task, Kept(u)', u \notin missed'[v]
        PROVE  ~TouchesOverlap(cleared'[v].touches, lease'[u].touches)
    <3>1. CASE v = s
      BY <1>1, <2>1, <2>3, <2>4, <2>5, <3>1 DEF Preflight
    <3>2. CASE v # s
      BY <1>1, <2>1, <2>5, <3>2 DEF Preflight, UnwrittenApart, TypeOK
    <3>3. QED
      BY <3>1, <3>2
  <2>6. QED
    BY <2>2, <2>5 DEF UnwrittenApart
<1>2. ASSUME NEW s \in Sessions, WriteLease(s) PROVE Goal
  <2>1. PICK t, T : t = cleared[s].task /\ T = cleared[s].touches
    OBVIOUS
  <2>2. t \in Tasks
    BY <1>2, <2>1 DEF WriteLease, TypeOK, Unwritten
  <2>3. PICK p : p = [by |-> s, touches |-> T]
    OBVIOUS
  <2>4. /\ lease' = [lease EXCEPT ![t] = p]
        /\ missed' = [v \in Sessions |-> IF v = s \/ cleared[v] = None THEN {}
                                         ELSE missed[v] \cup {t}]
        /\ raced' = Without(t) \cup {{t, u} : u \in {w \in missed[s] : w # t /\ Leased(w)}}
        /\ widened' = widened \ {t}
        /\ cleared' = [cleared EXCEPT ![s] = None]
        /\ cleared[s] # None
    BY <1>2, <2>1, <2>3 DEF WriteLease
  <2>5. lease'[t] = p /\ p.touches = T
    BY <2>2, <2>3, <2>4 DEF TypeOK
  <2>6. \A u \in Tasks \ {t} : lease'[u] = lease[u] /\ (Kept(u)' <=> Kept(u))
    BY <2>2, <2>4 DEF TypeOK, Kept, Leased
  <2>7. ASSUME NEW u \in Tasks \ {t}, Kept(u), {t, u} \notin raced'
        PROVE  ~TouchesOverlap(T, lease[u].touches)
    <3>1. u \notin missed[s]
      BY <2>4, <2>7 DEF Kept
    <3>2. QED
      BY <2>1, <2>4, <2>7, <3>1 DEF UnwrittenApart
  <2>8. ASSUME NEW u \in Tasks \ {t}, NEW w \in Tasks \ {t}, {u, w} \notin raced'
        PROVE  {u, w} \notin raced
    BY <2>4, <2>8 DEF Without
  <2>9. LeasesApart'
    <3> SUFFICES ASSUME NEW u \in Tasks, NEW w \in Tasks, u # w, Kept(u)', Kept(w)',
                        {u, w} \notin raced'
                 PROVE  ~TouchesOverlap(lease'[u].touches, lease'[w].touches)
      BY DEF LeasesApart
    <3>1. CASE u = t
      BY <2>5, <2>6, <2>7, <3>1
    <3>2. CASE w = t
      <4>1. {t, u} = {u, w}
        BY <3>2
      <4>2. ~TouchesOverlap(T, lease[u].touches)
        BY <2>6, <2>7, <3>2, <4>1
      <4>3. QED
        BY <2>5, <2>6, <3>2, <4>2, OverlapSymmetric
    <3>3. CASE u # t /\ w # t
      BY <2>6, <2>8, <3>3 DEF LeasesApart
    <3>4. QED
      BY <3>1, <3>2, <3>3
  <2>10. ASSUME NEW v \in Sessions, NEW u \in Tasks, cleared'[v] # None,
                u # cleared'[v].task, Kept(u)', u \notin missed'[v]
         PROVE  ~TouchesOverlap(cleared'[v].touches, lease'[u].touches)
    <3>1. v # s /\ cleared'[v] = cleared[v]
      BY <2>4, <2>10 DEF TypeOK
    <3>2. u # t /\ u \notin missed[v]
      BY <2>4, <2>10, <3>1
    <3>3. QED
      BY <2>6, <2>10, <3>1, <3>2 DEF UnwrittenApart
  <2>11. QED
    BY <2>9, <2>10 DEF UnwrittenApart
<1>3. ASSUME NEW s \in Sessions, WriteRefused(s) PROVE Goal
  <2>1. PICK t : t = cleared[s].task
    OBVIOUS
  <2>2. t \in Tasks
    BY <1>3, <2>1 DEF WriteRefused, TypeOK, Unwritten
  <2>3. QED
    BY <1>3, <2>1, <2>2, ApartKept DEF WriteRefused, Without, TypeOK, Kept, Leased
<1>4. ASSUME NEW t \in Tasks, Reclaim(t) PROVE Goal
  BY <1>4, ApartKept DEF Reclaim, claiming, TypeOK, Kept, Leased
<1>5. ASSUME NEW t \in Tasks, ReclaimRefused(t) PROVE Goal
  BY <1>5, ApartKept DEF ReclaimRefused, Without, claiming, TypeOK, Kept, Leased
<1>6. ASSUME NEW t \in Tasks, Complete(t) PROVE Goal
  BY <1>6, ApartKept DEF Complete, Without, claiming, TypeOK, Kept, Leased
<1>7. ASSUME NEW t \in Tasks, Spoil(t) PROVE Goal
  BY <1>7, ApartKept DEF Spoil, claiming, TypeOK, Kept, Leased
<1>8. ASSUME NEW t \in Tasks, RemoveCorrupt(t) PROVE Goal
  BY <1>8, ApartKept DEF RemoveCorrupt, Without, claiming, TypeOK, Kept, Leased
<1>9. CASE UNCHANGED <<lease, widened, raced, cleared, missed>>
  BY <1>9, ApartKept DEF Kept, Leased
<1>10. QED
  BY <1>1, <1>2, <1>3, <1>4, <1>5, <1>6, <1>7, <1>8, <1>9
     DEF Next, vars, claiming, AddPlan, LandPlan, EditPlan, Change, Ask, Answer, Resume,
         Retire, Pick, ClaimRefused, Migrate

----------------------------------------------------------------------------
(* The properties *)

LEMMA IInvHolds == Spec => []IInv
<1>1. IInv /\ [Next]_vars => IInv'
  BY TypeStep, PlanStep, ApartStep DEF IInv
<1>2. QED
  BY InitIInv, <1>1, PTL DEF Spec

\* The board reads the same files as the pre-flight, in another order: what it calls
\* ready, whatever the state of the files, the pre-flight clears.
LEMMA ReadyIsClear ==
    ASSUME NEW t \in Tasks, State(t) = "ready"
    PROVE  PreflightClear(t) /\ ~Leased(t)
<1>1. /\ OnBoard(t)
      /\ ~Leased(t)
      /\ ~(\E d \in plan[t].depends : ~DepSatisfied(d))
      /\ ~Collides(t)
  BY DEF State
<1>2. QED
  BY <1>1 DEF PreflightClear, Collides

LEMMA BlockedWaits ==
    ASSUME NEW t \in Tasks, State(t) = "blocked", plan[t].status # "blocked"
    PROVE  \E d \in plan[t].depends : ~DepSatisfied(d)
BY DEF State

\* openup-board.py:17-20, openup-claims.py:258-265: the board and the pre-flight agree,
\* and a lane is blocked for a task that is done neither in its plan nor in the roadmap.
THEOREM TheBoardIsRight == Spec => []BoardIsRight
<1>1. IInv => BoardIsRight
  <2> SUFFICES ASSUME IInv, NEW t \in Tasks
               PROVE  /\ State(t) = "ready" => PreflightClear(t) /\ ~Leased(t)
                      /\ State(t) = "blocked" /\ plan[t].status # "blocked" =>
                            \E d \in plan[t].depends :
                                row[d] # "completed" /\ plan[d].status # "done"
    BY DEF BoardIsRight
  <2>1. ASSUME State(t) = "blocked", plan[t].status # "blocked"
        PROVE  \E d \in plan[t].depends : row[d] # "completed" /\ plan[d].status # "done"
    <3>1. PICK d \in plan[t].depends : ~DepSatisfied(d)
      BY <2>1, BlockedWaits
    <3>2. d \in Tasks /\ plan[d] \in Plans
      BY DEF IInv, TypeOK, Plans
    <3>3. plan[d].place \in {"none", "branch", "active", "archive"}
      BY <3>2 DEF Plans
    <3>4. CASE plan[d].place \in {"active", "archive"}
      BY <3>1, <3>2, <3>4 DEF DepSatisfied, Satisfied, IInv, PlanInv
    <3>5. CASE plan[d].place \in {"none", "branch"}
      BY <3>1, <3>2, <3>5 DEF DepSatisfied, Satisfied, IInv, PlanInv
    <3>6. QED
      BY <3>3, <3>4, <3>5
  <2>2. QED
    BY <2>1, ReadyIsClear
<1>2. QED
  BY <1>1, IInvHolds, PTL

LEMMA TouchesArePaths ==
    ASSUME TypeOK, NEW t \in Tasks, Leased(t), NEW a \in lease[t].touches
    PROVE  a \in Seq(STRING) \ {<< >>} /\ \E S \in Surfaces : a \in S
<1>1. lease[t].touches \in Surfaces \cup {{}}
  BY DEF TypeOK, Leased, Leases
<1>2. QED
  BY <1>1, PathsAssumption

\* What the pre-flight is for (parallel-lanes.md:3-5): two leases share no path if neither
\* pre-flight missed the other and neither was refreshed since, although nothing locks the
\* board, the pre-flight, the claims and the plans together.
THEOREM LeasesAreDisjoint == Spec => []ClaimedLanesAreDisjoint
<1>1. IInv => ClaimedLanesAreDisjoint
  <2> SUFFICES ASSUME IInv, NEW t \in Tasks, NEW u \in Tasks, Apart(t, u),
                      NEW a \in lease[t].touches, NEW b \in lease[u].touches
               PROVE  \E i \in 1..Len(a) : i <= Len(b) /\ a[i] # b[i]
    BY DEF ClaimedLanesAreDisjoint, IInv
  <2>1. a \in Seq(STRING) \ {<< >>} /\ b \in Seq(STRING) \ {<< >>}
    BY TouchesArePaths DEF IInv, Apart
  <2>2. ~SegPrefixCollide(a, b)
    BY DEF IInv, LeasesApart, Kept, TouchesOverlap, Apart
  <2>3. QED
    BY <2>1, <2>2, PathsPart
<1>2. QED
  BY <1>1, IInvHolds, PTL

\* A file within a declared surface lies below one of its paths.
LEMMA WithinEncloses ==
    ASSUME TypeOK, NEW t \in Tasks, Leased(t), NEW f \in Files, Within(f, lease[t].touches)
    PROVE  \E a \in lease[t].touches : IsPathPrefix(a, f)
<1>1. PICK a \in lease[t].touches : SegPrefixCollide(f, a)
  BY DEF Within
<1>2. PICK S \in Surfaces : a \in S
  BY TouchesArePaths
<1>3. CASE IsPathPrefix(f, a)
  BY <1>2, <1>3, PathsAssumption
<1>4. CASE IsPathPrefix(a, f)
  BY <1>4
<1>5. QED
  BY <1>1, <1>3, <1>4 DEF SegPrefixCollide

\* openup-fence.py:5-12: what two such lanes both change, when the fence compares their
\* changes with the trunk and passes, is shared by rule: the views, the shared surfaces, a
\* lane's own folders.
THEOREM FencedChangesAreDisjoint == Spec => []FencedLanesAreDisjoint
<1>1. IInv => FencedLanesAreDisjoint
  <2> SUFFICES ASSUME IInv, NEW t \in Tasks, NEW u \in Tasks, Apart(t, u),
                      lease[t].touches # {}, lease[u].touches # {},
                      FencePasses(t, {}, TRUE), FencePasses(u, {}, TRUE),
                      NEW f \in diff[t] \cap diff[u],
                      f \notin Shared, f \notin Views,
                      ~Within(f, OwnFolders(t) \cup OwnFolders(u))
               PROVE  FALSE
    BY DEF FencedLanesAreDisjoint, IInv, TypeOK
  <2> USE DEF Apart
  <2>1. f \in Files
    BY DEF IInv, TypeOK
  <2>2. ASSUME NEW v \in {t, u} PROVE Within(f, lease[v].touches)
    <3>1. FenceTouches(v) = lease[v].touches
      BY <2>2 DEF FenceTouches
    <3>2. ~Unfenced(v)
      BY <2>2, <3>1 DEF Unfenced
    <3>4. Within(f, FenceTouches(v) \cup OwnFolders(v) \cup {})
      BY <2>2, <3>2 DEF FencePasses
    <3>5. ~Within(f, OwnFolders(v))
      BY <2>2 DEF Within
    <3>6. QED
      BY <3>1, <3>4, <3>5 DEF Within
  <2>3. PICK a \in lease[t].touches : IsPathPrefix(a, f)
    BY <2>1, <2>2, WithinEncloses DEF IInv
  <2>4. PICK b \in lease[u].touches : IsPathPrefix(b, f)
    BY <2>1, <2>2, WithinEncloses DEF IInv
  <2>5. SegPrefixCollide(a, b)
    BY <2>3, <2>4, TouchesArePaths, PrefixesCollide DEF IInv
  <2>6. QED
    BY <2>5 DEF IInv, LeasesApart, Kept, TouchesOverlap
<1>2. QED
  BY <1>1, IInvHolds, PTL

\* What the board hands out to one dispatcher can be started together: the lanes have
\* a plan on the trunk and are free, overlap neither each other nor a lease, and wait
\* for no answer.
THEOREM BatchesCanStart == Spec => BatchCanStart
<1>1. ASSUME NEW t \in Ready
      PROVE  /\ t \in Tasks /\ plan[t].place = "active"
             /\ ~Leased(t) /\ (plan[t].asks => question[t] # "pending")
             /\ \A u \in Tasks :
                   Leased(u) => ~TouchesOverlap(plan[t].touches, lease[u].touches)
  <2>1. t \in Tasks /\ OnBoard(t) /\ ~Suspended(t) /\ ~Leased(t) /\ ~Collides(t)
    BY DEF Ready, State
  <2>2. QED
    BY <2>1 DEF OnBoard, Suspended, Collides
<1>2. ASSUME IInv, [Next]_vars, NEW s \in Sessions, NEW t \in todo'[s] \ todo[s]
      PROVE  todo'[s] \subseteq Ready /\ t \in Ready
             /\ \A u \in todo'[s] \ {t} : ~TouchesOverlap(plan[t].touches, plan[u].touches)
  <2>1. PICK r \in Sessions, n \in 1..2 : Pick(r, n)
    <3>1. todo' # todo
      BY <1>2
    <3>2. ASSUME NEW r \in Sessions, NEW u \in Tasks, Preflight(r, u) \/ ClaimRefused(r, u)
          PROVE  FALSE
      <4>1. todo' = [todo EXCEPT ![r] = @ \ {u}]
        BY <3>2 DEF Preflight, ClaimRefused
      <4>2. todo'[s] \subseteq todo[s]
        BY <1>2, <4>1 DEF IInv, TypeOK
      <4>3. QED
        BY <1>2, <4>2
    <3>3. QED
      BY <1>2, <3>1, <3>2
         DEF Next, vars, claiming, AddPlan, LandPlan, EditPlan, Reclaim, ReclaimRefused,
             Change, Ask, Answer, Resume, Complete, Retire, Migrate, Spoil, RemoveCorrupt,
             WriteLease, WriteRefused
  <2>2. todo'[s] = TopN(n)
    BY <1>2, <2>1 DEF Pick, IInv, TypeOK
  <2>3. Compatible(TopN(n))
    BY TopIsCompatible
  <2>4. QED
    BY <1>2, <2>2, <2>3 DEF Compatible
<1>3. IInv /\ [Next]_vars => \A s \in Sessions : \A t \in todo'[s] \ todo[s] :
          /\ t \in Tasks /\ plan[t].place = "active"
          /\ ~Leased(t) /\ (plan[t].asks => question[t] # "pending")
          /\ \A u \in todo'[s] \ {t} : ~TouchesOverlap(plan[t].touches, plan[u].touches)
          /\ \A u \in Tasks : Leased(u) => ~TouchesOverlap(plan[t].touches, lease[u].touches)
  BY <1>1, <1>2
<1>4. QED
  BY <1>3, IInvHolds, PTL DEF Spec, BatchCanStart
=============================================================================
