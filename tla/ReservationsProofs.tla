-------------------------- MODULE ReservationsProofs --------------------------
(***************************************************************************)
(* Proofs about Reservations, for any number of lanes and commands.        *)
(*                                                                         *)
(* DistinctIds is not inductive: a reservation that was released may be    *)
(* linked again.  Landed says why it is not, when the task has landed: the *)
(* repository has the number, and so has every allocation under way, or    *)
(* the id it will try is a greater one (explicit: another one).            *)
(***************************************************************************)
EXTENDS Reservations, FiniteSetTheorems, WellFoundedInduction, TLAPS

\* The lanes with a command under way, and the greatest number that there can
\* be: each finished command has added one at most.
Busy == {l \in Lanes : stage[l] # "idle"}

Limit == MaxExplicit + commands - Cardinality(Busy)

NumbersUpTo(k) ==
    /\ \A i \in Ids : reserved[i] # None => SeqOf(i) <= k
    /\ \A n \in trunk : n <= k
    /\ \A l \in Lanes : /\ \A n \in work[l] \cup taken[l] : n <= k
                        /\ \A i \in mine[l] : SeqOf(i) <= k
                        /\ stage[l] = "link" => SeqOf(want[l]) <= k + 1
                        /\ stage[l] = "explicit" => SeqOf(want[l]) <= MaxExplicit

LimitInv == IsFiniteSet(Busy) /\ Cardinality(Busy) <= commands /\ NumbersUpTo(Limit)

\* No allocation under way, or to come, ends with id i.
Landed(i) ==
    /\ SeqOf(i) \in origin
    /\ \A l \in Lanes : /\ stage[l] = "auto" => SeqOf(i) \in taken[l]
                        /\ stage[l] = "link" => SeqOf(i) < SeqOf(want[l])
                        /\ stage[l] = "explicit" => want[l] # i

Held == \A l \in Lanes : \A i \in mine[l] \ freed : reserved[i] = l \/ Landed(i)

\* What an allocation has read covers its worktree and the numbers that have
\* been reserved since it began.
ReadInv ==
    \A l \in Lanes :
        /\ stage[l] = "auto" => work[l] \subseteq taken[l] /\ before[l] \subseteq Reserved
        /\ stage[l] = "link" => \A n \in work[l] \cup before[l] : n < SeqOf(want[l])

Distinct == \A l, m \in Lanes : l # m => mine[l] \cap mine[m] \subseteq freed

IInv == IdsTypeOK /\ LimitInv /\ Held /\ ReadInv /\ Distinct

----------------------------------------------------------------------------
(* The greatest number *)

LEMMA MaxProperty ==
    ASSUME NEW S \in SUBSET Nat, S # {}, NEW k \in Nat, \A n \in S : n <= k
    PROVE  Max(S) \in S /\ \A n \in S : n <= Max(S)
<1> DEFINE R == OpToRel(<, Nat)
           U == {u \in Nat : \A n \in S : n <= u}
<1>1. k \in U /\ U \subseteq Nat
  OBVIOUS
<1>2. IsWellFoundedOn(R, Nat)
  BY NatLessThanWellFounded
<1>3. PICK u \in U : \A v \in U : <<v, u>> \notin R
  <2> HIDE DEF R, U
  <2>1. U # {}
    BY <1>1
  <2>2. QED
    BY <1>1, <1>2, <2>1, WFMin
<1>4. \A v \in U : ~(v < u)
  BY <1>3 DEF OpToRel
<1>5. u \in S
  <2> SUFFICES ASSUME u \notin S PROVE FALSE
    OBVIOUS
  <2>1. PICK n \in S : TRUE
    OBVIOUS
  <2>2. u - 1 \in Nat /\ u - 1 < u
    BY <2>1
  <2>3. \A m \in S : m <= u - 1
    OBVIOUS
  <2>4. u - 1 \in U
    BY <2>2, <2>3
  <2>5. QED
    BY <1>4, <2>2, <2>4
<1>6. \E x \in S : \A y \in S : x >= y
  BY <1>5
<1>7. Max(S) \in S /\ \A y \in S : Max(S) >= y
  BY <1>6 DEF Max
<1>8. QED
  BY <1>7

LEMMA IdFields ==
    /\ \A i \in Ids : SeqOf(i) \in Seqs /\ SeqOf(i) \in Nat \ {0} /\ i # None
    /\ \A i \in Ids : i = <<SeqOf(i), i[2]>> /\ i[2] \in {"padded", "short"}
    /\ \A n \in Seqs, s \in {"padded", "short"} : <<n, s>> \in Ids /\ SeqOf(<<n, s>>) = n
    /\ Seqs \subseteq Nat
    /\ \A l \in Lanes : l # None
BY ReservationsAssumption DEF Ids, SeqOf, Seqs

LEMMA LimitFacts ==
    ASSUME IdsTypeOK, LimitInv
    PROVE  /\ Limit \in Nat /\ MaxExplicit <= Limit /\ MaxExplicit \in Nat
           /\ Cardinality(Busy) \in Nat /\ commands \in Nat
           /\ \A l \in Lanes : stage[l] # "idle" => Limit + 1 <= MaxExplicit + MaxCommands
<1>1. Cardinality(Busy) \in Nat
  BY FS_CardinalityType DEF LimitInv
<1>2. \A l \in Lanes : stage[l] # "idle" => Cardinality(Busy) # 0
  BY FS_EmptySet DEF LimitInv, Busy
<1>3. commands \in Nat /\ commands <= MaxCommands /\ MaxExplicit \in Nat /\ MaxCommands \in Nat
  BY ReservationsAssumption DEF IdsTypeOK
<1>4. QED
  BY <1>1, <1>2, <1>3 DEF LimitInv, Limit

\* What a lane tries to link fits the type.
LEMMA NextFreeProperty ==
    ASSUME IdsTypeOK, LimitInv, NEW l \in Lanes, stage[l] = "auto"
    PROVE  LET i == NextFree(taken[l] \cup Reserved)
           IN  /\ i \in Ids /\ SeqOf(i) <= Limit + 1
               /\ \A n \in taken[l] \cup Reserved : n < SeqOf(i)
<1> DEFINE S == taken[l] \cup Reserved \cup {0}
<1>1. \A n \in Reserved : n \in Nat /\ n <= Limit
  BY IdFields DEF LimitInv, NumbersUpTo, Reserved
<1>2. \A n \in taken[l] : n \in Nat /\ n <= Limit
  BY IdFields DEF LimitInv, NumbersUpTo, IdsTypeOK
<1>3. S \in SUBSET Nat /\ S # {} /\ Limit \in Nat /\ \A n \in S : n <= Limit
  BY <1>1, <1>2, LimitFacts
<1>4. Max(S) \in S /\ \A n \in S : n <= Max(S)
  <2> HIDE DEF S
  <2> QED
    BY <1>3, MaxProperty
<1>5. Max(S) \in Nat /\ Max(S) <= Limit
  BY <1>3, <1>4
<1>6. Max(S) + 1 \in Seqs
  BY <1>5, LimitFacts, ReservationsAssumption DEF Seqs
<1>7. \A n \in taken[l] \cup Reserved : n < Max(S) + 1
  BY <1>3, <1>4, <1>5
<1>8. NextFree(taken[l] \cup Reserved) = <<Max(S) + 1, "padded">>
  BY DEF NextFree
<1>9. PICK m : m = Max(S) + 1
  OBVIOUS
<1>10. <<m, "padded">> \in Ids /\ SeqOf(<<m, "padded">>) = m
  BY <1>6, <1>9, IdFields
<1>11. m <= Limit + 1
  BY <1>3, <1>5, <1>9
<1>12. QED
  BY <1>7, <1>8, <1>9, <1>10, <1>11

LEMMA AdvanceProperty ==
    ASSUME IdsTypeOK, LimitInv, NEW l \in Lanes, stage[l] = "link", ~Unreserved(want[l])
    PROVE  /\ want[l] \in Ids /\ SeqOf(want[l]) \in Nat /\ Advance(want[l]) \in Ids
           /\ SeqOf(Advance(want[l])) = SeqOf(want[l]) + 1
           /\ SeqOf(want[l]) + 1 <= Limit + 1
<1>1. want[l] \in Ids
  BY DEF IdsTypeOK
<1>2. SeqOf(want[l]) \in Nat /\ SeqOf(want[l]) <= Limit
  BY <1>1, IdFields DEF Unreserved, LimitInv, NumbersUpTo
<1>3. SeqOf(want[l]) + 1 \in Seqs
  BY <1>2, LimitFacts, ReservationsAssumption DEF Seqs
<1>4. want[l][2] \in {"padded", "short"}
  BY <1>1, IdFields
<1>5. Advance(want[l]) \in Ids /\ SeqOf(Advance(want[l])) = SeqOf(want[l]) + 1
  BY <1>3, <1>4, IdFields DEF Advance
<1>6. QED
  BY <1>1, <1>2, <1>5, LimitFacts

----------------------------------------------------------------------------
(* How commands move the limit *)

LEMMA LimitUnmoved ==
    ASSUME IdsTypeOK, LimitInv, Busy' = Busy, commands' = commands
    PROVE  IsFiniteSet(Busy)' /\ (Cardinality(Busy) <= commands)' /\ Limit' = Limit
BY DEF LimitInv, Limit

LEMMA LimitAtBegin ==
    ASSUME IdsTypeOK, LimitInv, NEW l \in Lanes, l \notin Busy,
           Busy' = Busy \cup {l}, commands' = commands + 1
    PROVE  IsFiniteSet(Busy)' /\ (Cardinality(Busy) <= commands)' /\ Limit' = Limit
<1>1. IsFiniteSet(Busy') /\ Cardinality(Busy') = Cardinality(Busy) + 1
  BY FS_AddElement DEF LimitInv
<1>2. QED
  BY <1>1, LimitFacts DEF LimitInv, Limit

LEMMA LimitAtEnd ==
    ASSUME IdsTypeOK, LimitInv, NEW l \in Lanes, l \in Busy,
           Busy' = Busy \ {l}, commands' = commands
    PROVE  IsFiniteSet(Busy)' /\ (Cardinality(Busy) <= commands)' /\ Limit' = Limit + 1
<1>1. IsFiniteSet(Busy') /\ Cardinality(Busy') = Cardinality(Busy) - 1
  BY FS_RemoveElement DEF LimitInv
<1>2. QED
  BY <1>1, LimitFacts DEF LimitInv, Limit

LEMMA LimitStep ==
    ASSUME NEW k, Limit' = k, NumbersUpTo(k)',
           IsFiniteSet(Busy)', (Cardinality(Busy) <= commands)'
    PROVE  LimitInv'
BY DEF LimitInv, NumbersUpTo

\* Whether an id has landed changes only by allocations and by a fetch.
LEMMA LandedStays ==
    ASSUME NEW i \in Ids, Landed(i), origin \subseteq origin',
           \A l \in Lanes :
              \/ stage'[l] = "idle"
              \/ stage'[l] = stage[l] /\ taken'[l] = taken[l] /\ want'[l] = want[l]
    PROVE  Landed(i)'
BY DEF Landed

----------------------------------------------------------------------------
(* Each action preserves the invariant *)

LEMMA InitInv == IdsInit => IInv
<1> SUFFICES ASSUME IdsInit PROVE IInv
  OBVIOUS
<1>1. PICK n \in 0..1 : trunk = 1..n /\ origin = 1..n /\ work = [l \in Lanes |-> 1..n]
  BY DEF IdsInit
<1>2. 1..n \subseteq Seqs /\ \A m \in 1..n : m <= MaxExplicit
  BY <1>1, ReservationsAssumption DEF Seqs
<1>3. IdsTypeOK
  BY <1>1, <1>2, ReservationsAssumption DEF IdsInit, IdsTypeOK
<1>4. Busy = {}
  BY DEF IdsInit, Busy
<1>5. IsFiniteSet(Busy) /\ Cardinality(Busy) = 0
  BY <1>4, FS_EmptySet
<1>6. Limit = MaxExplicit
  BY <1>5, ReservationsAssumption DEF IdsInit, Limit
<1>7. NumbersUpTo(Limit)
  BY <1>1, <1>2, <1>6 DEF IdsInit, NumbersUpTo
<1>8. LimitInv
  BY <1>5, <1>7 DEF IdsInit, LimitInv
<1>9. Held /\ ReadInv /\ Distinct
  BY DEF IdsInit, Held, ReadInv, Distinct
<1>10. QED
  BY <1>3, <1>8, <1>9 DEF IInv

\* git moves numbers about while no command of the lane is under way.
LEMMA GitStep ==
    ASSUME IInv, UNCHANGED <<reserved, stage, taken, want, mine, before, freed, commands>>,
           work' \in [Lanes -> SUBSET Seqs], trunk' \subseteq Seqs, origin' \subseteq trunk',
           \A n \in trunk' : n <= Limit,
           \A l \in Lanes : \A n \in work'[l] : n <= Limit,
           \A l \in Lanes : work'[l] # work[l] => stage[l] = "idle",
           origin \subseteq origin'
    PROVE  IInv'
<1>1. IdsTypeOK'
  BY DEF IInv, IdsTypeOK
<1>2. PICK k : k = Limit
  OBVIOUS
<1>3. Busy' = Busy
  BY DEF Busy
<1>4. IsFiniteSet(Busy)' /\ (Cardinality(Busy) <= commands)' /\ Limit' = k
  BY <1>2, <1>3, LimitUnmoved DEF IInv
<1>5. NumbersUpTo(k)'
  BY <1>2 DEF IInv, LimitInv, NumbersUpTo
<1>6. LimitInv'
  BY <1>4, <1>5, LimitStep
<1>7. Held'
  <2>1. \A i \in Ids : Landed(i) => Landed(i)'
    BY LandedStays
  <2>2. \A l \in Lanes : mine[l] \subseteq Ids
    BY DEF IInv, IdsTypeOK
  <2>3. QED
    BY <2>1, <2>2 DEF IInv, Held
<1>8. ReadInv'
  BY DEF IInv, ReadInv, Reserved
<1>9. Distinct'
  BY DEF IInv, Distinct
<1>10. QED
  BY <1>1, <1>6, <1>7, <1>8, <1>9 DEF IInv

LEMMA PlanStep ==
    ASSUME IInv, NEW l \in Lanes, NEW i \in Ids, Plan(l, i)
    PROVE  IInv'
<1>1. /\ UNCHANGED <<reserved, trunk, origin, stage, taken, want, mine, before, freed, commands>>
      /\ stage[l] = "idle" /\ i \in mine[l]
      /\ work'[l] = work[l] \cup {SeqOf(i)}
      /\ \A m \in Lanes \ {l} : work'[m] = work[m]
  BY DEF Plan, IInv, IdsTypeOK
<1>2. SeqOf(i) \in Seqs /\ SeqOf(i) <= Limit
  BY <1>1, IdFields DEF IInv, LimitInv, NumbersUpTo
<1>3. work' \in [Lanes -> SUBSET Seqs]
  BY <1>2 DEF Plan, IInv, IdsTypeOK
<1>4. /\ \A n \in trunk : n <= Limit
      /\ \A m \in Lanes : \A n \in work[m] : n <= Limit
  BY DEF IInv, LimitInv, NumbersUpTo
<1>5. trunk' \subseteq Seqs /\ origin' \subseteq trunk'
  BY <1>1 DEF IInv, IdsTypeOK
<1>6. \A m \in Lanes : \A n \in work'[m] : n <= Limit
  BY <1>1, <1>2, <1>4
<1>7. QED
  BY <1>1, <1>3, <1>4, <1>5, <1>6, GitStep

LEMMA MergeStep ==
    ASSUME IInv, NEW l \in Lanes, Merge(l)
    PROVE  IInv'
<1>1. /\ UNCHANGED <<reserved, work, origin, stage, taken, want, mine, before, freed, commands>>
      /\ trunk' = trunk \cup work[l]
  BY DEF Merge
<1>2. /\ work' \in [Lanes -> SUBSET Seqs] /\ trunk' \subseteq Seqs /\ origin' \subseteq trunk'
  BY <1>1 DEF IInv, IdsTypeOK
<1>3. /\ \A n \in trunk' : n <= Limit
      /\ \A m \in Lanes : \A n \in work'[m] : n <= Limit
  BY <1>1 DEF IInv, LimitInv, NumbersUpTo
<1>4. QED
  BY <1>1, <1>2, <1>3, GitStep

LEMMA FetchStep ==
    ASSUME IInv, Fetch
    PROVE  IInv'
<1>1. /\ UNCHANGED <<reserved, work, trunk, stage, taken, want, mine, before, freed, commands>>
      /\ origin' = trunk
  BY DEF Fetch
<1>2. /\ work' \in [Lanes -> SUBSET Seqs] /\ trunk' \subseteq Seqs /\ origin' \subseteq trunk'
      /\ origin \subseteq origin'
  BY <1>1 DEF IInv, IdsTypeOK
<1>3. /\ \A n \in trunk' : n <= Limit
      /\ \A m \in Lanes : \A n \in work'[m] : n <= Limit
  BY <1>1 DEF IInv, LimitInv, NumbersUpTo
<1>4. QED
  BY <1>1, <1>2, <1>3, GitStep

LEMMA RebaseStep ==
    ASSUME IInv, NEW l \in Lanes, Rebase(l)
    PROVE  IInv'
<1>1. /\ UNCHANGED <<reserved, trunk, origin, stage, taken, want, mine, before, freed, commands>>
      /\ stage[l] = "idle"
      /\ work'[l] = work[l] \cup origin
      /\ \A m \in Lanes \ {l} : work'[m] = work[m]
      /\ work' \in [Lanes -> SUBSET Seqs]
  BY DEF Rebase, IInv, IdsTypeOK
<1>2. trunk' \subseteq Seqs /\ origin' \subseteq trunk'
  BY <1>1 DEF IInv, IdsTypeOK
<1>3. /\ \A n \in trunk : n <= Limit
      /\ \A n \in origin : n <= Limit
      /\ \A m \in Lanes : \A n \in work[m] : n <= Limit
  BY DEF IInv, LimitInv, NumbersUpTo, IdsTypeOK
<1>4. \A m \in Lanes : \A n \in work'[m] : n <= Limit
  BY <1>1, <1>3
<1>5. QED
  BY <1>1, <1>2, <1>3, <1>4, GitStep

\* A command begins.
LEMMA BeginStep ==
    ASSUME IInv, NEW l \in Lanes, NEW place \in {"explicit", "auto"}, Begin(l, place),
           NEW i \in Ids,
           \/ /\ place = "explicit" /\ want' = [want EXCEPT ![l] = i] /\ taken' = taken
              /\ SeqOf(i) <= MaxExplicit /\ SeqOf(i) \notin Used(l)
           \/ /\ place = "auto" /\ want' = want /\ taken' = [taken EXCEPT ![l] = Used(l)]
    PROVE  IInv'
<1>1. /\ UNCHANGED <<reserved, work, trunk, origin, mine, freed>>
      /\ stage[l] = "idle" /\ stage'[l] = place
      /\ commands' = commands + 1 /\ commands' \in 0..MaxCommands
      /\ before'[l] = Reserved
      /\ \A m \in Lanes \ {l} : stage'[m] = stage[m] /\ before'[m] = before[m]
      /\ stage' \in [Lanes -> {"idle", "explicit", "auto", "link"}]
  <2>1. {n \in Seqs : \E j \in Ids : SeqOf(j) = n /\ reserved[j] # None} = Reserved
    BY IdFields DEF Reserved
  <2>2. /\ before' = [before EXCEPT ![l] = Reserved]
        /\ UNCHANGED <<reserved, work, trunk, origin, mine, freed>>
        /\ stage[l] = "idle" /\ stage' = [stage EXCEPT ![l] = place]
        /\ commands < MaxCommands /\ commands' = commands + 1
    BY <2>1 DEF Begin, repository
  <2>3. QED
    BY <2>2, ReservationsAssumption DEF IInv, IdsTypeOK
<1>2. before' \in [Lanes -> SUBSET Seqs]
  BY DEF Begin, IInv, IdsTypeOK
<1>3. Used(l) = work[l] \cup origin /\ Used(l) \subseteq Seqs
  BY DEF Used, IInv, IdsTypeOK
<1>4. want[l] = None
  BY <1>1 DEF IInv, IdsTypeOK
<1>5. /\ want' \in [Lanes -> Ids \cup {None}] /\ taken' \in [Lanes -> SUBSET Seqs]
      /\ \A m \in Lanes \ {l} : want'[m] = want[m] /\ taken'[m] = taken[m]
      /\ place = "explicit" => /\ want'[l] = i /\ taken'[l] = taken[l]
                               /\ SeqOf(i) <= MaxExplicit /\ SeqOf(i) \notin work[l] \cup origin
      /\ place = "auto" => want'[l] = None /\ taken'[l] = work[l] \cup origin
  BY <1>3, <1>4 DEF IInv, IdsTypeOK
<1>6. IdsTypeOK'
  <2>1. \A m \in Lanes : stage'[m] \in {"explicit", "link"} <=> want'[m] # None
    <3>1. i # None
      BY IdFields
    <3>2. QED
      BY <1>1, <1>5, <3>1 DEF IInv, IdsTypeOK
  <2>2. QED
    BY <1>1, <1>2, <1>5, <2>1 DEF IInv, IdsTypeOK
<1>7. PICK k : k = Limit
  OBVIOUS
<1>8. IsFiniteSet(Busy)' /\ (Cardinality(Busy) <= commands)' /\ Limit' = k
  <2>1. l \notin Busy /\ Busy' = Busy \cup {l}
    BY <1>1 DEF Busy
  <2>2. QED
    BY <1>1, <1>7, <2>1, LimitAtBegin DEF IInv
<1>9. NumbersUpTo(k)'
  <2>1. \A n \in work[l] \cup origin : n <= k
    BY <1>7 DEF IInv, LimitInv, NumbersUpTo, IdsTypeOK
  <2>2. NumbersUpTo(k)
    BY <1>7 DEF IInv, LimitInv
  <2>3. QED
    BY <1>1, <1>5, <2>1, <2>2 DEF NumbersUpTo
<1>10. LimitInv'
  BY <1>8, <1>9, LimitStep
<1>11. Held'
  <2>1. \A j \in Ids : Landed(j) => Landed(j)'
    BY <1>1, <1>5 DEF Landed
  <2>2. \A m \in Lanes : mine[m] \subseteq Ids
    BY DEF IInv, IdsTypeOK
  <2>3. QED
    BY <1>1, <2>1, <2>2 DEF IInv, Held
<1>12. ReadInv'
  <2>1. Reserved' = Reserved
    BY <1>1 DEF Reserved
  <2>2. QED
    BY <1>1, <1>5, <2>1 DEF IInv, ReadInv
<1>13. Distinct'
  BY <1>1 DEF IInv, Distinct
<1>14. QED
  BY <1>6, <1>10, <1>11, <1>12, <1>13 DEF IInv

LEMMA ReserveStep ==
    ASSUME IInv, NEW l \in Lanes, Reserve(l)
    PROVE  IInv'
<1>1. PICK i : i \in Ids
  <2>1. 1 \in Seqs
    BY ReservationsAssumption DEF Seqs
  <2>2. <<1, "padded">> \in Ids
    BY <2>1, IdFields
  <2>3. QED
    BY <2>2
<1>2. QED
  BY <1>1, BeginStep DEF Reserve

LEMMA ReserveExplicitStep ==
    ASSUME IInv, NEW l \in Lanes, NEW i \in Ids, ReserveExplicit(l, i)
    PROVE  IInv'
BY BeginStep DEF ReserveExplicit

\* An allocation chooses the number to try: one that is greater than all it has
\* read.
LEMMA ChooseStep ==
    ASSUME IInv, NEW l \in Lanes, NEW i \in Ids, stage[l] \in {"auto", "link"},
           want' = [want EXCEPT ![l] = i], stage' = [stage EXCEPT ![l] = "link"],
           UNCHANGED <<reserved, work, trunk, origin, taken, mine, before, freed, commands>>,
           SeqOf(i) <= Limit + 1,
           stage[l] = "auto" => \A n \in taken[l] \cup Reserved : n < SeqOf(i),
           stage[l] = "link" => SeqOf(want[l]) < SeqOf(i)
    PROVE  IInv'
<1>1. /\ want'[l] = i /\ stage'[l] = "link" /\ i # None
      /\ \A m \in Lanes \ {l} : want'[m] = want[m] /\ stage'[m] = stage[m]
      /\ want' \in [Lanes -> Ids \cup {None}]
      /\ stage' \in [Lanes -> {"idle", "explicit", "auto", "link"}]
  BY IdFields DEF IInv, IdsTypeOK
<1>2. IdsTypeOK'
  BY <1>1 DEF IInv, IdsTypeOK
<1>3. PICK k : k = Limit
  OBVIOUS
<1>4. Busy' = Busy
  BY <1>1 DEF Busy
<1>5. IsFiniteSet(Busy)' /\ (Cardinality(Busy) <= commands)' /\ Limit' = k
  BY <1>3, <1>4, LimitUnmoved DEF IInv
<1>6. NumbersUpTo(k)'
  BY <1>1, <1>3 DEF IInv, LimitInv, NumbersUpTo
<1>7. LimitInv'
  BY <1>5, <1>6, LimitStep
<1>8. \A m \in Lanes : mine[m] \subseteq Ids
  BY DEF IInv, IdsTypeOK
<1>9. SeqOf(i) \in Nat
  BY IdFields
<1>10. stage[l] = "link" => want[l] \in Ids /\ SeqOf(want[l]) \in Nat
  BY IdFields DEF IInv, IdsTypeOK
<1>11. Held'
  <2>1. ASSUME NEW j \in Ids, Landed(j) PROVE Landed(j)'
    <3>1. SeqOf(j) \in Nat
      BY IdFields
    <3>2. SeqOf(j) < SeqOf(i)
      BY <1>9, <1>10, <2>1, <3>1 DEF Landed
    <3>3. QED
      BY <1>1, <2>1, <3>2 DEF Landed
  <2>2. QED
    BY <1>8, <2>1 DEF IInv, Held
<1>12. ReadInv'
  <2>1. Reserved' = Reserved
    BY DEF Reserved
  <2>2. \A n \in work[l] \cup before[l] : n < SeqOf(i)
    <3>1. \A n \in work[l] \cup before[l] : n \in Nat
      BY IdFields DEF IInv, IdsTypeOK
    <3>2. CASE stage[l] = "auto"
      BY <3>2 DEF IInv, ReadInv
    <3>3. CASE stage[l] = "link"
      <4>1. \A n \in work[l] \cup before[l] : n < SeqOf(want[l])
        BY <3>3 DEF IInv, ReadInv
      <4>2. QED
        BY <1>9, <1>10, <3>1, <3>3, <4>1
    <3>4. QED
      BY <3>2, <3>3
  <2>3. QED
    BY <1>1, <2>1, <2>2 DEF IInv, ReadInv
<1>13. Distinct'
  BY DEF IInv, Distinct
<1>14. QED
  BY <1>2, <1>7, <1>11, <1>12, <1>13 DEF IInv

LEMMA ReadReservedStep ==
    ASSUME IInv, NEW l \in Lanes, ReadReserved(l)
    PROVE  IInv'
<1>1. PICK i : i = NextFree(taken[l] \cup Reserved)
  OBVIOUS
<1>2. /\ i \in Ids /\ SeqOf(i) <= Limit + 1
      /\ \A n \in taken[l] \cup Reserved : n < SeqOf(i)
  BY <1>1, NextFreeProperty DEF ReadReserved, IInv
<1>3. /\ stage[l] = "auto" /\ want' = [want EXCEPT ![l] = i] /\ stage' = [stage EXCEPT ![l] = "link"]
      /\ UNCHANGED <<reserved, work, trunk, origin, taken, mine, before, freed, commands>>
  BY <1>1 DEF ReadReserved, repository
<1>4. QED
  BY <1>2, <1>3, ChooseStep

LEMMA LoseRaceStep ==
    ASSUME IInv, NEW l \in Lanes, LoseRace(l)
    PROVE  IInv'
<1>1. PICK i : i = Advance(want[l])
  OBVIOUS
<1>2. /\ i \in Ids /\ SeqOf(i) <= Limit + 1 /\ SeqOf(want[l]) < SeqOf(i)
  BY <1>1, AdvanceProperty DEF LoseRace, IInv
<1>3. /\ stage[l] = "link" /\ want' = [want EXCEPT ![l] = i] /\ stage' = [stage EXCEPT ![l] = "link"]
      /\ UNCHANGED <<reserved, work, trunk, origin, taken, mine, before, freed, commands>>
  BY <1>1 DEF LoseRace, repository, IInv, IdsTypeOK
<1>4. QED
  BY <1>2, <1>3, ChooseStep

\* A command ends; the lane has got id i, or nothing.
LEMMA FinishStep ==
    ASSUME IInv, NEW l \in Lanes, stage[l] # "idle", Finish(l), NEW i \in Ids,
           UNCHANGED <<work, trunk, origin, before, freed, commands>>,
           SeqOf(i) <= Limit + 1,
           \/ /\ mine' = mine /\ reserved' = reserved
           \/ /\ mine' = [mine EXCEPT ![l] = @ \cup {i}]
              /\ \/ Unreserved(i) /\ reserved' = [reserved EXCEPT ![i] = l]
                 \/ reserved[i] = l /\ reserved' = reserved
              /\ ~Landed(i)
    PROVE  IInv'
<1>1. /\ stage'[l] = "idle" /\ taken'[l] = {} /\ want'[l] = None
      /\ \A m \in Lanes \ {l} : stage'[m] = stage[m] /\ taken'[m] = taken[m] /\ want'[m] = want[m]
      /\ stage' \in [Lanes -> {"idle", "explicit", "auto", "link"}]
      /\ taken' \in [Lanes -> SUBSET Seqs]
      /\ want' \in [Lanes -> Ids \cup {None}]
  BY DEF Finish, IInv, IdsTypeOK
<1>2. /\ mine' \in [Lanes -> SUBSET Ids]
      /\ reserved' \in [Ids -> Lanes \cup {None}]
      /\ \A m \in Lanes \ {l} : mine'[m] = mine[m]
      /\ mine[l] \subseteq mine'[l] /\ mine'[l] \subseteq mine[l] \cup {i}
      /\ \A j \in Ids : reserved[j] # None => reserved'[j] = reserved[j]
      /\ \A j \in Ids : reserved'[j] # reserved[j] => j = i
      /\ i \in mine'[l] /\ i \notin mine[l] =>
            /\ reserved[i] \in {None, l} /\ reserved'[i] = l /\ ~Landed(i)
  BY DEF IInv, IdsTypeOK, Unreserved
<1>3. IdsTypeOK'
  <2>1. \A m \in Lanes : stage'[m] \in {"explicit", "link"} <=> want'[m] # None
    BY <1>1 DEF IInv, IdsTypeOK
  <2>2. QED
    BY <1>1, <1>2, <2>1 DEF IInv, IdsTypeOK
<1>4. PICK k : k = Limit
  OBVIOUS
<1>5. IsFiniteSet(Busy)' /\ (Cardinality(Busy) <= commands)' /\ Limit' = k + 1
  <2>1. l \in Busy /\ Busy' = Busy \ {l}
    BY <1>1 DEF Busy
  <2>2. QED
    BY <1>4, <2>1, LimitAtEnd DEF IInv
<1>6. NumbersUpTo(k + 1)'
  <2>1. k \in Nat
    BY <1>4, LimitFacts DEF IInv
  <2>2. NumbersUpTo(k)
    BY <1>4 DEF IInv, LimitInv
  <2>3. /\ \A j \in Ids : SeqOf(j) \in Nat
        /\ \A n \in trunk : n \in Nat
        /\ \A m \in Lanes : \A n \in work[m] \cup taken[m] : n \in Nat
        /\ \A m \in Lanes : mine[m] \subseteq Ids
    BY IdFields DEF IInv, IdsTypeOK
  <2>4. \A j \in Ids : reserved'[j] # None => SeqOf(j) <= k + 1
    BY <1>2, <1>4, <2>1, <2>2, <2>3 DEF NumbersUpTo
  <2>5. \A m \in Lanes : \A j \in mine'[m] : SeqOf(j) <= k + 1
    <3>1. \A m \in Lanes : \A j \in mine[m] : SeqOf(j) <= k + 1
      BY <2>1, <2>2, <2>3 DEF NumbersUpTo
    <3>2. QED
      BY <1>2, <1>4, <3>1
  <2>6. \A n \in trunk : n <= k + 1
    BY <2>1, <2>2, <2>3 DEF NumbersUpTo
  <2>7. \A m \in Lanes : \A n \in work[m] \cup taken'[m] : n <= k + 1
    <3>1. \A m \in Lanes : \A n \in work[m] \cup taken[m] : n <= k + 1
      BY <2>1, <2>2, <2>3 DEF NumbersUpTo
    <3>2. QED
      BY <1>1, <3>1
  <2>8. ASSUME NEW m \in Lanes
        PROVE  /\ stage'[m] = "link" => SeqOf(want'[m]) <= k + 1 + 1
               /\ stage'[m] = "explicit" => SeqOf(want'[m]) <= MaxExplicit
    <3>1. CASE m = l
      BY <1>1, <3>1
    <3>2. CASE m # l
      <4>1. stage[m] = "link" => SeqOf(want[m]) \in Nat /\ SeqOf(want[m]) <= k + 1
        BY <2>2, IdFields DEF NumbersUpTo, IInv, IdsTypeOK
      <4>2. stage[m] = "explicit" => SeqOf(want[m]) <= MaxExplicit
        BY <2>2 DEF NumbersUpTo
      <4>3. QED
        BY <1>1, <2>1, <3>2, <4>1, <4>2
    <3>3. QED
      BY <3>1, <3>2
  <2>9. QED
    BY <2>4, <2>5, <2>6, <2>7, <2>8 DEF NumbersUpTo
<1>7. LimitInv'
  <2>1. PICK h : h = k + 1
    OBVIOUS
  <2>2. Limit' = h /\ NumbersUpTo(h)'
    BY <1>5, <1>6, <2>1 DEF NumbersUpTo
  <2>3. QED
    BY <1>5, <2>2, LimitStep
<1>8. \A j \in Ids : Landed(j) => Landed(j)'
  BY <1>1, LandedStays
<1>9. \A m \in Lanes : mine[m] \subseteq Ids /\ m # None
  BY IdFields DEF IInv, IdsTypeOK
<1>10. Held'
  <2> SUFFICES ASSUME NEW m \in Lanes, NEW j \in mine'[m], j \notin freed
               PROVE  reserved'[j] = m \/ Landed(j)'
    BY DEF Held
  <2>1. CASE j \in mine[m]
    <3>1. reserved[j] = m \/ Landed(j)
      BY <2>1 DEF IInv, Held
    <3>2. QED
      BY <1>2, <1>8, <1>9, <2>1, <3>1
  <2>2. CASE j \notin mine[m]
    BY <1>2, <2>2
  <2>3. QED
    BY <2>1, <2>2
<1>11. ReadInv'
  <2>1. Reserved \subseteq Reserved'
    BY <1>2 DEF Reserved
  <2>2. QED
    BY <1>1, <2>1 DEF IInv, ReadInv
<1>12. Distinct'
  <2>1. ASSUME i \notin mine[l], i \in mine'[l], NEW m \in Lanes, m # l, i \in mine[m]
        PROVE  i \in freed
    BY <1>2, <1>9, <2>1 DEF IInv, Held
  <2>2. QED
    BY <1>2, <2>1 DEF IInv, Distinct
<1>13. QED
  BY <1>3, <1>7, <1>10, <1>11, <1>12 DEF IInv

LEMMA LinkStep ==
    ASSUME IInv, NEW l \in Lanes, Link(l)
    PROVE  IInv'
<1>1. PICK i : i = want[l]
  OBVIOUS
<1>2. i \in Ids /\ SeqOf(i) \in Nat /\ SeqOf(i) <= Limit + 1 /\ stage[l] = "link"
  BY <1>1, IdFields DEF Link, IInv, IdsTypeOK, LimitInv, NumbersUpTo
<1>3. ~Landed(i)
  BY <1>1, <1>2 DEF Landed
<1>4. QED
  BY <1>1, <1>2, <1>3, FinishStep DEF Link, repository

LEMMA LinkExplicitStep ==
    ASSUME IInv, NEW l \in Lanes, LinkExplicit(l)
    PROVE  IInv'
<1>1. PICK i : i = want[l]
  OBVIOUS
<1>2. i \in Ids /\ SeqOf(i) \in Nat /\ stage[l] = "explicit" /\ SeqOf(i) <= MaxExplicit
  BY <1>1, IdFields DEF LinkExplicit, IInv, IdsTypeOK, LimitInv, NumbersUpTo
<1>3. SeqOf(i) <= Limit + 1
  BY <1>2, LimitFacts DEF IInv
<1>4. ~Landed(i)
  BY <1>1, <1>2 DEF Landed
<1>5. UNCHANGED <<work, trunk, origin, before, freed, commands>> /\ Finish(l)
  BY DEF LinkExplicit, repository
<1>6. CASE Unreserved(i)
  BY <1>1, <1>2, <1>3, <1>4, <1>5, <1>6, FinishStep DEF LinkExplicit
<1>7. CASE ~Unreserved(i) /\ reserved[i] = l
  BY <1>1, <1>2, <1>3, <1>4, <1>5, <1>7, FinishStep DEF LinkExplicit
<1>8. CASE ~Unreserved(i) /\ reserved[i] # l
  <2>1. mine' = mine /\ reserved' = reserved
    <3>1. mine' = [mine EXCEPT ![l] = @ \cup {}] /\ reserved' = reserved
      BY <1>1, <1>8 DEF LinkExplicit
    <3>2. mine \in [Lanes -> SUBSET Ids]
      BY DEF IInv, IdsTypeOK
    <3>3. QED
      BY <3>1, <3>2
  <2>2. QED
    BY <1>2, <1>3, <1>5, <2>1, FinishStep
<1>9. QED
  BY <1>6, <1>7, <1>8

\* A reservation is removed: of a task that was given up, of one that everybody
\* knows of, or too early (freed).
LEMMA ReleaseIdStep ==
    ASSUME IInv, NEW l \in Lanes, NEW i \in Ids, ReleaseId(l, i)
    PROVE  IInv'
<1>1. /\ UNCHANGED <<work, trunk, origin, stage, taken, want, commands>>
      /\ stage[l] = "idle" /\ reserved[i] = l
      /\ reserved'[i] = None /\ \A j \in Ids \ {i} : reserved'[j] = reserved[j]
      /\ reserved' \in [Ids -> Lanes \cup {None}]
      /\ \A m \in Lanes : before'[m] = before[m] \ {SeqOf(i)}
      /\ before' \in [Lanes -> SUBSET Seqs]
  BY DEF ReleaseId, repository, IInv, IdsTypeOK
<1>2. \/ mine' = [mine EXCEPT ![l] = @ \ {i}] /\ freed' = freed
      \/ mine' = mine /\ freed' = freed \cup {i}
      \/ /\ mine' = mine /\ freed' = freed
         /\ SeqOf(i) \in origin /\ \A m \in Lanes : stage[m] = "idle"
  BY DEF ReleaseId
<1>3. /\ \A m \in Lanes : mine'[m] \subseteq mine[m]
      /\ mine' \in [Lanes -> SUBSET Ids]
      /\ freed \subseteq freed' /\ freed' \subseteq Ids
  BY <1>2 DEF IInv, IdsTypeOK
<1>4. IdsTypeOK'
  BY <1>1, <1>3 DEF IInv, IdsTypeOK
<1>5. PICK k : k = Limit
  OBVIOUS
<1>6. Busy' = Busy
  BY <1>1 DEF Busy
<1>7. IsFiniteSet(Busy)' /\ (Cardinality(Busy) <= commands)' /\ Limit' = k
  BY <1>1, <1>5, <1>6, LimitUnmoved DEF IInv
<1>8. NumbersUpTo(k)'
  BY <1>1, <1>3, <1>5 DEF IInv, LimitInv, NumbersUpTo
<1>9. LimitInv'
  BY <1>7, <1>8, LimitStep
<1>10. \A j \in Ids : Landed(j) => Landed(j)'
  BY <1>1 DEF Landed
<1>11. \A m \in Lanes : mine[m] \subseteq Ids
  BY DEF IInv, IdsTypeOK
<1>12. Held'
  <2> SUFFICES ASSUME NEW m \in Lanes, NEW j \in mine'[m], j \notin freed'
               PROVE  reserved'[j] = m \/ Landed(j)'
    BY DEF Held
  <2>1. j \in Ids /\ (reserved[j] = m \/ Landed(j))
    BY <1>3, <1>11 DEF IInv, Held
  <2>2. CASE j # i \/ m # l
    BY <1>1, <1>10, <2>1, <2>2
  <2>3. CASE j = i /\ m = l
    <3>1. SeqOf(i) \in origin /\ \A n \in Lanes : stage[n] = "idle"
      BY <1>2, <2>3 DEF IInv, IdsTypeOK
    <3>2. Landed(i)'
      BY <1>1, <3>1 DEF Landed
    <3>3. QED
      BY <2>3, <3>2
  <2>4. QED
    BY <2>2, <2>3
<1>13. ReadInv'
  <2>1. Reserved \ {SeqOf(i)} \subseteq Reserved'
    BY <1>1 DEF Reserved
  <2>2. QED
    BY <1>1, <2>1 DEF IInv, ReadInv
<1>14. Distinct'
  BY <1>3 DEF IInv, Distinct
<1>15. QED
  BY <1>4, <1>9, <1>12, <1>13, <1>14 DEF IInv

LEMMA InvStep == IInv /\ [IdsNext]_idsVars => IInv'
<1> SUFFICES ASSUME IInv, [IdsNext]_idsVars PROVE IInv'
  OBVIOUS
<1>1. CASE UNCHANGED idsVars
  <2>1. UNCHANGED <<reserved, work, trunk, origin, stage, taken, want, mine, before, freed, commands>>
    BY <1>1 DEF idsVars
  <2>2. IdsTypeOK' /\ Distinct' /\ ReadInv'
    BY <2>1 DEF IInv, IdsTypeOK, Distinct, ReadInv, Reserved
  <2>3. LimitInv' /\ Held'
    BY <2>1 DEF IInv, LimitInv, Limit, Busy, NumbersUpTo, Held, Landed
  <2>4. QED
    BY <2>2, <2>3 DEF IInv
<1>2. QED
  BY <1>1, LinkExplicitStep, ReadReservedStep, LinkStep, LoseRaceStep, ReserveStep, MergeStep,
     RebaseStep, ReserveExplicitStep, ReleaseIdStep, PlanStep, FetchStep DEF IdsNext, Allocate

LEMMA InvAlways == IdsSpec => []IInv
BY InitInv, InvStep, PTL DEF IdsSpec

----------------------------------------------------------------------------
(* What follows *)

\* parallel-lanes.md:135-137: however many lanes reserve, release, merge and
\* fetch, no two are given one id, unless a reservation was removed too early.
THEOREM IdsAreDistinct == IdsSpec => []DistinctIds
<1>1. IInv => DistinctIds
  BY DEF IInv, Distinct, DistinctIds
<1>2. QED
  BY <1>1, InvAlways, PTL

FreshStep ==
    \A l \in Lanes : stage[l] = "link" => \A i \in mine'[l] \ mine[l] :
        SeqOf(i) \notin work[l] \cup before[l]

\* openup-claims.py, next_free_seq: a number that is linked is new to the
\* worktree and was not reserved all along, whatever others did since the
\* repository and the reservations were read.
THEOREM AllocatedNumberIsNew == IdsSpec => NewNumberIsFresh
<1>1. IInv /\ [IdsNext]_idsVars => [FreshStep]_idsVars
  <2> SUFFICES ASSUME IInv, IdsNext, NEW l \in Lanes, stage[l] = "link",
                      NEW i \in mine'[l], i \notin mine[l]
               PROVE  SeqOf(i) \notin work[l] \cup before[l]
    BY DEF FreshStep
  <2>1. CASE Link(l)
    <3>1. i = want[l]
      BY <2>1 DEF Link, IInv, IdsTypeOK
    <3>2. SeqOf(i) \in Nat
      BY <3>1, IdFields DEF IInv, IdsTypeOK
    <3>3. \A n \in work[l] \cup before[l] : n < SeqOf(i)
      BY <3>1 DEF IInv, ReadInv
    <3>4. QED
      BY <3>2, <3>3
  <2>2. ASSUME NEW m \in Lanes, m # l, Link(m) \/ LinkExplicit(m) PROVE mine'[l] = mine[l]
    BY <2>2 DEF Link, LinkExplicit, IInv, IdsTypeOK
  <2>3. ~LinkExplicit(l)
    BY DEF LinkExplicit
  <2>4. ASSUME NEW m \in Lanes, NEW j \in Ids, ReleaseId(m, j) PROVE mine'[l] \subseteq mine[l]
    BY <2>4 DEF ReleaseId, IInv, IdsTypeOK
  <2>5. CASE mine' = mine
    BY <2>5
  <2>6. QED
    BY <2>1, <2>2, <2>3, <2>4, <2>5
       DEF IdsNext, Allocate, ReadReserved, LoseRace, Reserve, Begin, Merge, Rebase, ReserveExplicit,
           Plan, Fetch
<1>2. QED
  BY <1>1, InvAlways, PTL DEF IdsSpec, NewNumberIsFresh, FreshStep
=============================================================================
