----------------------------- MODULE Reservations -----------------------------
(***************************************************************************)
(* Task ids (scripts/openup-claims.py, reserve-id and release-id).  The    *)
(* lanes of a clone, each in its worktree, allocate the number of a task   *)
(* before any of its files exists: a reservation is a file, named for the  *)
(* id, that is linked into a directory the worktrees share.  A number is   *)
(* taken too when the worktree or origin/main, as last fetched, has it.    *)
(* An allocation is three steps: read the repository, read the             *)
(* reservations, link; nothing is locked meanwhile.                        *)
(***************************************************************************)
EXTENDS Naturals, FiniteSetsExt

CONSTANTS Lanes,
          MaxExplicit,  \* bound: the highest number that is asked for by name
          MaxCommands,  \* bound: reserve-id commands
          None

Seqs == 1..(MaxExplicit + MaxCommands)

\* T-031 and T-31 have one number and are two names.
Ids == Seqs \X {"padded", "short"}
SeqOf(i) == i[1]

\* The one task that there may be at first is among those asked for by name.
ASSUME ReservationsAssumption ==
    /\ MaxExplicit \in Nat \ {0} /\ MaxCommands \in Nat
    /\ None \notin Lanes \cup Ids

VARIABLES
    reserved,  \* the reservation files: who reserved each id
    work,      \* the numbers used in each lane's worktree (plans and roadmap)
    trunk,     \* those on the remote's main
    origin,    \* those on origin/main, as the clone last fetched it
    stage,     \* where each lane's reserve-id is
    taken,     \* the numbers it has read
    want,      \* the id it tries to link
    mine,      \* the ids each lane has been given for a task of its own
    before,    \* history: the numbers reserved since its command began
    freed,     \* history: ids released too early
    commands

idsVars == <<reserved, work, trunk, origin, stage, taken, want, mine, before, freed, commands>>
repository == <<work, trunk, origin>>

----------------------------------------------------------------------------
\* Mistake to detect: origin/main is not consulted.
UsedHere(l) == work[l]

\* used_seqs_in_repo, in lane l.
Used(l) == work[l] \cup origin

\* Mistake to detect: only names written as the allocator writes them count.
ReservedPadded == {n \in Seqs : reserved[<<n, "padded">>] # None}

\* reserved_seqs: the numbers of the reservation files, however they are written.
Reserved == {SeqOf(i) : i \in {j \in Ids : reserved[j] # None}}

\* next_free_seq and format_id.
NextFree(seqs) == <<Max(seqs \cup {0}) + 1, "padded">>

\* create_reservation_exclusive: a link fails if the name is there.
Unreserved(i) == reserved[i] = None

IdsInit ==
    /\ reserved = [i \in Ids |-> None]
    /\ \E n \in 0..1 : trunk = 1..n /\ origin = 1..n /\ work = [l \in Lanes |-> 1..n]
    /\ stage = [l \in Lanes |-> "idle"]
    /\ taken = [l \in Lanes |-> {}]
    /\ want = [l \in Lanes |-> None]
    /\ mine = [l \in Lanes |-> {}]
    /\ before = [l \in Lanes |-> {}]
    /\ freed = {}
    /\ commands = 0

----------------------------------------------------------------------------
(* reserve-id *)

Finish(l) ==
    /\ stage' = [stage EXCEPT ![l] = "idle"]
    /\ taken' = [taken EXCEPT ![l] = {}]
    /\ want' = [want EXCEPT ![l] = None]

Begin(l, place) ==
    /\ stage[l] = "idle" /\ commands < MaxCommands
    /\ commands' = commands + 1
    /\ before' = [before EXCEPT ![l] =
                     {n \in Seqs : \E i \in Ids : SeqOf(i) = n /\ reserved[i] # None}]
    /\ stage' = [stage EXCEPT ![l] = place]
    /\ UNCHANGED <<reserved, repository, mine, freed>>

\* With --task-id: refused if the repository has the number, whatever is reserved.
ReserveExplicit(l, i) ==
    /\ SeqOf(i) <= MaxExplicit
    /\ SeqOf(i) \notin Used(l)
    /\ Begin(l, "explicit")
    /\ want' = [want EXCEPT ![l] = i]
    /\ UNCHANGED taken

\* Linked, or the lane's own already, or refused.
LinkExplicit(l) ==
    /\ stage[l] = "explicit"
    /\ LET i == want[l] IN
       IF Unreserved(i)
       THEN /\ reserved' = [reserved EXCEPT ![i] = l]
            /\ mine' = [mine EXCEPT ![l] = @ \cup {i}]
       ELSE /\ mine' = [mine EXCEPT ![l] = @ \cup IF reserved[i] = l THEN {i} ELSE {}]
            /\ UNCHANGED reserved
    /\ Finish(l)
    /\ UNCHANGED <<repository, before, freed, commands>>

\* Without: the highest number anywhere, plus one.
Reserve(l) ==
    /\ Begin(l, "auto")
    /\ taken' = [taken EXCEPT ![l] = Used(l)]
    /\ UNCHANGED want

ReadReserved(l) ==
    /\ stage[l] = "auto"
    /\ want' = [want EXCEPT ![l] = NextFree(taken[l] \cup Reserved)]
    /\ stage' = [stage EXCEPT ![l] = "link"]
    /\ UNCHANGED <<reserved, repository, taken, mine, before, freed, commands>>

Link(l) ==
    /\ stage[l] = "link" /\ Unreserved(want[l])
    /\ reserved' = [reserved EXCEPT ![want[l]] = l]
    /\ mine' = [mine EXCEPT ![l] = @ \cup {want[l]}]
    /\ Finish(l)
    /\ UNCHANGED <<repository, before, freed, commands>>

\* Mistake to detect: the lane tries the same number again.
Same(i) == i

Advance(i) == <<SeqOf(i) + 1, i[2]>>

LoseRace(l) ==
    /\ stage[l] = "link" /\ ~Unreserved(want[l])
    /\ want' = [want EXCEPT ![l] = Advance(@)]
    /\ UNCHANGED <<reserved, repository, stage, taken, mine, before, freed, commands>>

----------------------------------------------------------------------------
(* release-id, by the lane that reserved: it gives the task up, or the task is   *)
(* on the remote's main.  In between, git carries the numbers around.            *)

ReleaseId(l, i) ==
    /\ stage[l] = "idle"
    /\ reserved[i] = l
    /\ reserved' = [reserved EXCEPT ![i] = None]
    /\ before' = [m \in Lanes |-> before[m] \ {SeqOf(i)}]
    /\ \/ /\ SeqOf(i) \notin work[l]
          /\ mine' = [mine EXCEPT ![l] = @ \ {i}]
          /\ UNCHANGED freed
       \/ /\ SeqOf(i) \in trunk
          /\ freed' = IF SeqOf(i) \in origin /\ \A m \in Lanes : stage[m] = "idle"
                      THEN freed ELSE freed \cup {i}
          /\ UNCHANGED mine
    /\ UNCHANGED <<repository, stage, taken, want, commands>>

\* A change folder or a roadmap row for the id.
Plan(l, i) ==
    /\ stage[l] = "idle" /\ i \in mine[l]
    /\ SeqOf(i) \notin work[l]
    /\ work' = [work EXCEPT ![l] = @ \cup {SeqOf(i)}]
    /\ UNCHANGED <<reserved, trunk, origin, stage, taken, want, mine, before, freed, commands>>

Merge(l) ==
    /\ stage[l] = "idle" /\ ~(work[l] \subseteq trunk)
    /\ trunk' = trunk \cup work[l]
    /\ UNCHANGED <<reserved, work, origin, stage, taken, want, mine, before, freed, commands>>

Fetch ==
    /\ origin' = trunk /\ origin # trunk
    /\ UNCHANGED <<reserved, work, trunk, stage, taken, want, mine, before, freed, commands>>

Rebase(l) ==
    /\ stage[l] = "idle" /\ ~(origin \subseteq work[l])
    /\ work' = [work EXCEPT ![l] = @ \cup origin]
    /\ UNCHANGED <<reserved, trunk, origin, stage, taken, want, mine, before, freed, commands>>

Allocate(l) == LinkExplicit(l) \/ ReadReserved(l) \/ Link(l) \/ LoseRace(l)

IdsNext ==
    \/ \E l \in Lanes :
          \/ Allocate(l) \/ Reserve(l) \/ Merge(l) \/ Rebase(l)
          \/ \E i \in Ids : ReserveExplicit(l, i) \/ ReleaseId(l, i) \/ Plan(l, i)
    \/ Fetch

\* A command that has started runs to its end.
IdsFairness == \A l \in Lanes : WF_idsVars(Allocate(l))

IdsSpec == IdsInit /\ [][IdsNext]_idsVars /\ IdsFairness

----------------------------------------------------------------------------
(* Properties *)

\* The state keeps its type, and a command's local variables are there when it
\* uses them.
IdsTypeOK ==
    /\ reserved \in [Ids -> Lanes \cup {None}]
    /\ work \in [Lanes -> SUBSET Seqs] /\ trunk \subseteq Seqs /\ origin \subseteq trunk
    /\ stage \in [Lanes -> {"idle", "explicit", "auto", "link"}]
    /\ taken \in [Lanes -> SUBSET Seqs]
    /\ want \in [Lanes -> Ids \cup {None}]
    /\ \A l \in Lanes : stage[l] \in {"explicit", "link"} <=> want[l] # None
    /\ mine \in [Lanes -> SUBSET Ids]
    /\ before \in [Lanes -> SUBSET Seqs]
    /\ freed \subseteq Ids
    /\ commands \in 0..MaxCommands

\* parallel-lanes.md:135-137: the state keeps its type, and lanes that reserve at
\* once get distinct ids, and go on to do so when a task has landed and its
\* reservation is removed, provided the clone has fetched it and nobody is in the
\* middle of an allocation.
DistinctIds ==
    /\ IdsTypeOK
    /\ \A l, m \in Lanes : l # m => mine[l] \cap mine[m] \subseteq freed

\* used_seqs_in_repo and reserved_seqs: an allocated number is new to the lane's own
\* worktree, and is not one that was reserved, under any name, all along.
NewNumberIsFresh ==
    [][\A l \in Lanes : stage[l] = "link" => \A i \in mine'[l] \ mine[l] :
          SeqOf(i) \notin work[l] \cup before[l]]_idsVars

\* openup-claims.py:1008-1010: the allocation ends, since a lane that loses a number
\* goes on to the next.
AllocationEnds == \A l \in Lanes : stage[l] = "auto" ~> stage[l] = "idle"
=============================================================================
