-------------------------------- MODULE Lanes --------------------------------
(***************************************************************************)
(* The lanes of the development process: a lane is a task with a plan in   *)
(* docs/changes, a row in the roadmap, perhaps a lease (its claim) and     *)
(* perhaps a question to a person.  Three tools derive what a session may  *)
(* do from these files: the board says which lanes are ready               *)
(* (scripts/openup-board.py), the pre-flight whether a lane may be claimed *)
(* (scripts/openup-claims.py), the fence whether its changes may be merged *)
(* (scripts/openup-fence.py); scripts/openup-input.py finds the lanes      *)
(* whose question has been answered.                                       *)
(*                                                                         *)
(* The sessions work in one clone.  Nothing locks the files that the tools *)
(* read: between the board and the pre-flight, and between the pre-flight  *)
(* and the writing of the claim, anything may happen, so that two claims   *)
(* that overlap can both pass.  What the pre-flight is worth is therefore  *)
(* stated for claims that did not miss each other; missed and raced say    *)
(* which did.  The other steps of a claim, the remote's, are in Claims.    *)
(***************************************************************************)
EXTENDS Paths, SequencesExt

CONSTANTS Sessions,
          Order,       \* the tasks, by priority and then by id
          MayDepend,   \* the tasks each plan may depend on
          MayTouch,    \* the touches each plan may declare
          Files,       \* the files a lane may change
          Shared,      \* files under ALWAYS_ALLOWED
          Views,       \* docs/roadmap.md, docs/project-status.md
          Quick,       \* the tasks on the quick track
          Askers,      \* bound: the tasks that ask a question
          MaxDiff,     \* bound: the files a branch changes
          MaxEdits,    \* bound: a person's edits of plans, and files that get corrupted
          None, Corrupt

Tasks == ToSet(Order)

Surfaces == UNION {MayTouch[t] : t \in Tasks}

Statuses == {"proposed", "in-progress", "blocked", "deferred", "done"}
Satisfied == {"done", "verified", "completed"}

\* A plan.md: where it is, and its front matter.
Plans == [place : {"none", "branch", "active", "archive"}, status : Statuses,
          touches : Surfaces \cup {{}}, depends : SUBSET Tasks, asks : BOOLEAN]

\* A claim: who holds it, and the touches it copied from the plan.
Leases == [by : Sessions, touches : Surfaces \cup {{}}]

\* A claim that has passed its pre-flight and is not yet written.
Unwritten == [task : Tasks, touches : Surfaces \cup {{}}]

ASSUME LanesAssumption ==
    /\ Order \in Seq(Tasks) /\ IsInjective(Order)
    /\ MayDepend \in [Tasks -> SUBSET Tasks] /\ DOMAIN MayTouch = Tasks
    /\ None # Corrupt /\ {None, Corrupt} \cap Leases = {} /\ None \notin Unwritten
    /\ MaxDiff \in Nat /\ MaxEdits \in Nat

\* Touches name paths below the root, and what a branch changes are files: no
\* directory that encloses a path somebody declares.
ASSUME PathsAssumption ==
    /\ \A S \in Surfaces : \A p \in S : p \in Seq(STRING) \ {<< >>}
    /\ \A f \in Files : f \in Seq(STRING) \ {<< >>}
    /\ \A f \in Files : \A S \in Surfaces : \A p \in S : IsPathPrefix(f, p) => f = p

VARIABLES
    plan,      \* each task's plan.md
    row,       \* its status in the roadmap
    question,  \* its input request
    lease,     \* its claim
    diff,      \* the files its branch changes
    todo,      \* what each session has read off the board
    cleared,   \* the claim each session has cleared and not yet written
    missed,    \* history: the tasks leased since that pre-flight
    raced,     \* history: pairs of leases of which one missed the other
    widened,   \* history: leases refreshed with other touches
    edits

claiming == <<todo, cleared, missed>>

vars == <<plan, row, question, lease, diff, claiming, raced, widened, edits>>

----------------------------------------------------------------------------
Leased(t) == lease[t] \notin {None, Corrupt}

\* Mistake to detect: the body of an archived plan decides.
SatisfiedByBody(t) ==
    IF plan[t].place \in {"active", "archive"} THEN plan[t].status \in Satisfied
    ELSE row[t] \in Satisfied

\* dep_satisfied: the body of a plan on the trunk decides, but one that is archived
\* may be stale; then, and without a plan, the roadmap does.
DepSatisfied(t) ==
    \/ plan[t].place \in {"active", "archive"} /\ plan[t].status \in Satisfied
    \/ plan[t].place # "active" /\ row[t] \in Satisfied

\* preflight: dependencies, then the leases of the other tasks.
PreflightClear(t) ==
    /\ \A d \in plan[t].depends : DepSatisfied(d)
    /\ \A u \in Tasks \ {t} :
          /\ lease[u] # Corrupt
          /\ Leased(u) => ~TouchesOverlap(plan[t].touches, lease[u].touches)

----------------------------------------------------------------------------
(* The board *)

\* collider_for
Collides(t) ==
    \E u \in Tasks \ {t} :
        \/ lease[u] = Corrupt
        \/ Leased(u) /\ TouchesOverlap(plan[t].touches, lease[u].touches)

Suspended(t) == plan[t].asks /\ question[t] = "pending"

\* active_plans and build_lane: a plan on the trunk that is not done.
OnBoard(t) == plan[t].place = "active" /\ plan[t].status \notin Satisfied

\* classify, in the order of its tests; a leased task without a lane is elsewhere.
State(t) ==
    CASE ~OnBoard(t) -> IF Leased(t) THEN "elsewhere" ELSE "none"
      [] plan[t].status = "deferred" -> "deferred"
      [] Suspended(t) -> "suspended"
      [] plan[t].status = "blocked" -> "blocked"
      [] Leased(t) \/ plan[t].status = "in-progress" -> "in-progress"
      [] \E d \in plan[t].depends : ~DepSatisfied(d) -> "blocked"
      [] Collides(t) -> "colliding"
      [] OTHER -> "ready"

Ready == {t \in Tasks : State(t) = "ready"}

\* Mistake to detect: the first n ready lanes.
FirstN(n) ==
    LET chosen[i \in 0..Len(Order)] ==
          IF i = 0 THEN {}
          ELSE LET before == chosen[i - 1]
                   t == Order[i]
               IN  IF t \in Ready /\ Cardinality(before) < n
                   THEN before \cup {t} ELSE before
    IN  chosen[Len(Order)]

\* cmd_top_n: the ready lanes in order, but those that overlap one taken before.
TopN(n) ==
    LET chosen[i \in 0..Len(Order)] ==
          IF i = 0 THEN {}
          ELSE LET before == chosen[i - 1]
                   t == Order[i]
               IN  IF /\ t \in Ready /\ Cardinality(before) < n
                      /\ \A u \in before : ~TouchesOverlap(plan[t].touches, plan[u].touches)
                   THEN before \cup {t} ELSE before
    IN  chosen[Len(Order)]

\* openup-input.py resumable
Resumable == {t \in Tasks : question[t] = "answered"}

----------------------------------------------------------------------------
(* The fence *)

OwnFolders(t) == {<<"docs", "changes", t>>, <<"docs", "changes", "archive", t>>}

\* Mistake to detect: the fence asks the plan, which changes after the claim.
FenceTouchesOfPlan(t) == plan[t].touches

\* task_touches: the lease's unless they are empty, else the plan's.
FenceTouches(t) ==
    IF Leased(t) /\ lease[t].touches # {} THEN lease[t].touches
    ELSE IF plan[t].place # "none" THEN plan[t].touches ELSE {}

Within(f, S) == \E e \in S : SegPrefixCollide(f, e)

Unfenced(t) == t \in Quick /\ FenceTouches(t) = {}

\* What check finds when it has a base to compare with; without one, or if git cannot
\* compare, it passes.  --allow names more paths, and then a quick lane is fenced too;
\* the views may change on a branch that contains the trunk, or with --allow-views.
FencePasses(t, more, views) ==
    \A f \in diff[t] :
        \/ f \in Shared
        \/ Within(f, FenceTouches(t) \cup OwnFolders(t) \cup more)
        \/ f \in Views /\ views
        \/ f \notin Views /\ Unfenced(t) /\ more = {}

----------------------------------------------------------------------------
NoPlan == [place |-> "none", status |-> "proposed", touches |-> {}, depends |-> {},
           asks |-> FALSE]

Init ==
    /\ plan = [t \in Tasks |-> NoPlan]
    /\ row = [t \in Tasks |-> "proposed"]
    /\ question = [t \in Tasks |-> "none"]
    /\ lease = [t \in Tasks |-> None]
    /\ diff = [t \in Tasks |-> {}]
    /\ todo = [s \in Sessions |-> {}]
    /\ cleared = [s \in Sessions |-> None]
    /\ missed = [s \in Sessions |-> {}]
    /\ raced = {}
    /\ widened = {}
    /\ edits = 0

\* A plan is written on a branch of its own or on the trunk, and then merged.
AddPlan(t, surface) ==
    /\ plan[t].place = "none"
    /\ \E place \in {"branch", "active"}, depends \in SUBSET MayDepend[t] :
          plan' = [plan EXCEPT ![t] = [NoPlan EXCEPT !.place = place, !.touches = surface,
                                                     !.depends = depends]]
    /\ UNCHANGED <<row, question, lease, diff, claiming, raced, widened, edits>>

LandPlan(t) ==
    /\ plan[t].place = "branch"
    /\ plan' = [plan EXCEPT ![t] = [@ EXCEPT !.place = "active"]]
    /\ UNCHANGED <<row, question, lease, diff, claiming, raced, widened, edits>>

EditPlan(t) ==
    /\ plan[t].place = "active" /\ plan[t].status # "done"
    /\ edits < MaxEdits /\ edits' = edits + 1
    /\ \/ \E st \in Statuses \ {"done"} :
             plan' = [plan EXCEPT ![t] = [@ EXCEPT !.status = st]]
       \/ \E surface \in MayTouch[t] :
             plan' = [plan EXCEPT ![t] = [@ EXCEPT !.touches = surface]]
    /\ UNCHANGED <<row, question, lease, diff, claiming, raced, widened>>

\* A session reads the top of the board; a dispatcher, several lanes.
Pick(s, n) ==
    /\ todo[s] = {} /\ Ready # {}
    /\ todo' = [todo EXCEPT ![s] = TopN(n)]
    /\ UNCHANGED <<plan, row, question, lease, diff, cleared, missed, raced, widened, edits>>

\* claim reads the touches, then the lease, refused if it is another session's, a
\* corrupt one counting as none; then comes the pre-flight.  The reads follow
\* each other at once and are taken as one; the write of the claim is not.
Preflight(s, t) ==
    /\ t \in todo[s] /\ cleared[s] = None
    /\ ~Leased(t) /\ PreflightClear(t)
    /\ cleared' = [cleared EXCEPT ![s] = [task |-> t, touches |-> plan[t].touches]]
    /\ todo' = [todo EXCEPT ![s] = @ \ {t}]
    /\ UNCHANGED <<plan, row, question, lease, diff, missed, raced, widened, edits>>

ClaimRefused(s, t) ==
    /\ t \in todo[s] /\ cleared[s] = None
    /\ Leased(t) \/ ~PreflightClear(t)
    /\ todo' = [todo EXCEPT ![s] = @ \ {t}]
    /\ UNCHANGED <<plan, row, question, lease, diff, cleared, missed, raced, widened,
                   edits>>

Without(t) == {pair \in raced : t \notin pair}

\* The claim is written over whatever is there by now.
WriteLease(s) ==
    /\ cleared[s] # None
    /\ LET t == cleared[s].task
       IN  /\ lease' = [lease EXCEPT ![t] = [by |-> s, touches |-> cleared[s].touches]]
           /\ missed' = [v \in Sessions |-> IF v = s \/ cleared[v] = None THEN {}
                                            ELSE missed[v] \cup {t}]
           /\ raced' = Without(t) \cup {{t, u} : u \in {w \in missed[s] : w # t /\ Leased(w)}}
           /\ widened' = widened \ {t}
    /\ cleared' = [cleared EXCEPT ![s] = None]
    /\ UNCHANGED <<plan, row, question, diff, todo, edits>>

\* The remote has another claim: the file just written is removed.
WriteRefused(s) ==
    /\ cleared[s] # None
    /\ LET t == cleared[s].task
       IN  /\ lease' = [lease EXCEPT ![t] = None]
           /\ raced' = Without(t)
           /\ widened' = widened \ {t}
    /\ cleared' = [cleared EXCEPT ![s] = None]
    /\ missed' = [missed EXCEPT ![s] = {}]
    /\ UNCHANGED <<plan, row, question, diff, todo, edits>>

\* The same session claims again, which the fence advises after an edit of the
\* touches: the lease is refreshed without a pre-flight.
Reclaim(t) ==
    /\ Leased(t) /\ plan[t].place = "active"
    /\ lease[t].touches # plan[t].touches
    /\ lease' = [lease EXCEPT ![t] = [@ EXCEPT !.touches = plan[t].touches]]
    /\ widened' = widened \cup {t}
    /\ UNCHANGED <<plan, row, question, diff, claiming, raced, edits>>

\* With a remote the session's own ref rejects the refreshed claim, and the file goes.
ReclaimRefused(t) ==
    /\ Leased(t)
    /\ lease' = [lease EXCEPT ![t] = None]
    /\ raced' = Without(t)
    /\ widened' = widened \ {t}
    /\ UNCHANGED <<plan, row, question, diff, claiming, edits>>

Change(t, f) ==
    /\ Leased(t) /\ f \notin diff[t] /\ Cardinality(diff[t]) < MaxDiff
    /\ diff' = [diff EXCEPT ![t] = @ \cup {f}]
    /\ UNCHANGED <<plan, row, question, lease, claiming, raced, widened, edits>>

\* A lane stops with a question, a person answers, the request is processed.
Ask(t) ==
    /\ t \in Askers /\ Leased(t) /\ plan[t].place = "active" /\ question[t] = "none"
    /\ question' = [question EXCEPT ![t] = "pending"]
    /\ plan' = [plan EXCEPT ![t] = [@ EXCEPT !.asks = TRUE]]
    /\ UNCHANGED <<row, lease, diff, claiming, raced, widened, edits>>

Answer(t) ==
    /\ question[t] = "pending"
    /\ question' = [question EXCEPT ![t] = "answered"]
    /\ UNCHANGED <<plan, row, lease, diff, claiming, raced, widened, edits>>

Resume(t) ==
    /\ t \in Resumable
    /\ question' = [question EXCEPT ![t] = "archived"]
    /\ UNCHANGED <<plan, row, lease, diff, claiming, raced, widened, edits>>

\* complete-task, after the fence, which is no guard, since it may be inapplicable: the
\* plan is archived, its body's status perhaps left as it was, the row completed, the
\* lease released.
Complete(t) ==
    /\ Leased(t) /\ plan[t].place = "active"
    /\ \E st \in {plan[t].status, "done"} :
          plan' = [plan EXCEPT ![t] = [@ EXCEPT !.place = "archive", !.status = st]]
    /\ row' = [row EXCEPT ![t] = "completed"]
    /\ lease' = [lease EXCEPT ![t] = None]
    /\ diff' = [diff EXCEPT ![t] = {}]
    /\ raced' = Without(t) /\ widened' = widened \ {t}
    /\ UNCHANGED <<question, claiming, edits>>

\* Retired without being done: the row does not say completed.
Retire(t) ==
    /\ plan[t].place = "active" /\ lease[t] = None
    /\ edits < MaxEdits /\ edits' = edits + 1
    /\ plan' = [plan EXCEPT ![t] = [@ EXCEPT !.place = "archive", !.status = "deferred"]]
    /\ UNCHANGED <<row, question, lease, diff, claiming, raced, widened>>

\* migrate_archived_status: what the roadmap vouches for.
Stale(t) ==
    plan[t].place = "archive" /\ plan[t].status \notin Satisfied /\ row[t] \in Satisfied

Migrate ==
    /\ \E t \in Tasks : Stale(t)
    /\ plan' = [t \in Tasks |-> IF Stale(t) THEN [plan[t] EXCEPT !.status = "done"]
                                            ELSE plan[t]]
    /\ UNCHANGED <<row, question, lease, diff, claiming, raced, widened, edits>>

\* A killed mirror leaves half a file; a person removes it.
Spoil(t) ==
    /\ Leased(t) /\ edits < MaxEdits /\ edits' = edits + 1
    /\ lease' = [lease EXCEPT ![t] = Corrupt]
    /\ UNCHANGED <<plan, row, question, diff, claiming, raced, widened>>

RemoveCorrupt(t) ==
    /\ lease[t] = Corrupt
    /\ lease' = [lease EXCEPT ![t] = None]
    /\ diff' = [diff EXCEPT ![t] = {}]
    /\ raced' = Without(t) /\ widened' = widened \ {t}
    /\ UNCHANGED <<plan, row, question, claiming, edits>>

Next ==
    \/ \E t \in Tasks :
          \/ \E surface \in MayTouch[t] : AddPlan(t, surface)
          \/ LandPlan(t) \/ EditPlan(t) \/ Reclaim(t) \/ ReclaimRefused(t)
          \/ \E f \in Files : Change(t, f)
          \/ Ask(t) \/ Answer(t) \/ Resume(t) \/ Complete(t) \/ Retire(t)
          \/ Spoil(t) \/ RemoveCorrupt(t)
    \/ \E s \in Sessions : \/ \E n \in 1..2 : Pick(s, n)
                           \/ \E t \in Tasks : Preflight(s, t) \/ ClaimRefused(s, t)
                           \/ WriteLease(s) \/ WriteRefused(s)
    \/ Migrate

Spec == Init /\ [][Next]_vars

----------------------------------------------------------------------------
(* Properties *)

\* The state keeps its type; a claim misses others only while it is unwritten, and only
\* what has a claim file has been widened.
TypeOK ==
    /\ plan \in [Tasks -> Plans]
    /\ row \in [Tasks -> {"proposed", "completed"}]
    /\ question \in [Tasks -> {"none", "pending", "answered", "archived"}]
    /\ lease \in [Tasks -> Leases \cup {None, Corrupt}]
    /\ diff \in [Tasks -> SUBSET Files]
    /\ DOMAIN todo = Sessions
    /\ cleared \in [Sessions -> Unwritten \cup {None}]
    /\ missed \in [Sessions -> SUBSET Tasks]
    /\ \A s \in Sessions : missed[s] # {} => cleared[s] # None
    /\ raced \subseteq SUBSET Tasks
    /\ widened \subseteq {t \in Tasks : lease[t] # None}
    /\ edits \in 0..MaxEdits

\* Both leases were taken through the pre-flight, neither of them while the other was
\* past it and unwritten, and neither has been refreshed since.
Apart(t, u) ==
    t # u /\ Leased(t) /\ Leased(u) /\ {t, u} \cap widened = {} /\ {t, u} \notin raced

\* openup-board.py:17-20, openup-claims.py:258-265: in every state of the plans, the
\* roadmap and the leases, a lane the board calls ready is one the pre-flight would
\* clear; and one it calls blocked, unless its own plan says so, waits for a task
\* that neither its plan nor the roadmap calls done.
BoardIsRight ==
    \A t \in Tasks :
        /\ State(t) = "ready" => PreflightClear(t) /\ ~Leased(t)
        /\ State(t) = "blocked" /\ plan[t].status # "blocked" =>
              \E d \in plan[t].depends : row[d] # "completed" /\ plan[d].status # "done"

\* What the pre-flight is for (parallel-lanes.md:3-5): the state keeps its type, and two
\* leases share no path if neither pre-flight missed the other, although each read a board
\* that was stale by then, plans were edited, leases ended, were spoiled and were taken
\* over in between.
ClaimedLanesAreDisjoint ==
    /\ TypeOK
    /\ \A t, u \in Tasks : Apart(t, u) =>
        \A a \in lease[t].touches, b \in lease[u].touches :
            \E i \in 1..Len(a) : i <= Len(b) /\ a[i] # b[i]

\* openup-fence.py:5-12: two such lanes that declared their surface, and whose changes the
\* fence compares with the trunk and passes without --allow, change no file both, but for
\* the views, the shared surfaces and a lane's own folders.
FencedLanesAreDisjoint ==
    \A t, u \in Tasks :
        /\ Apart(t, u)
        /\ lease[t].touches # {} /\ lease[u].touches # {}
        /\ FencePasses(t, {}, TRUE) /\ FencePasses(u, {}, TRUE)
        => diff[t] \cap diff[u] \subseteq
             Shared \cup Views \cup {f \in Files : Within(f, OwnFolders(t) \cup OwnFolders(u))}

\* What the board hands out to one dispatcher can be started together: the lanes have
\* a plan on the trunk and are free, overlap neither each other nor a lease, and wait
\* for no answer.
BatchCanStart ==
    [][\A s \in Sessions : \A t \in todo'[s] \ todo[s] :
          /\ t \in Tasks /\ plan[t].place = "active"
          /\ ~Leased(t) /\ (plan[t].asks => question[t] # "pending")
          /\ \A u \in todo'[s] \ {t} : ~TouchesOverlap(plan[t].touches, plan[u].touches)
          /\ \A u \in Tasks :
                Leased(u) => ~TouchesOverlap(plan[t].touches, lease[u].touches)]_vars
=============================================================================
