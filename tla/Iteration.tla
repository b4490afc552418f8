------------------------------ MODULE Iteration ------------------------------
(***************************************************************************)
(* The record of the current iteration and the views derived from it:      *)
(* scripts/openup-state.py (.openup/state.json, .openup/retro.json, the    *)
(* archived copies) and scripts/sync-status.py (roadmap, project status).  *)
(*                                                                         *)
(* The session of one work tree runs the commands one after the other and  *)
(* is the only writer, so a command is what it is to write, computed when  *)
(* it starts.  Every file is opened for writing, which empties it, and     *)
(* filled when it is closed; the command may be killed at any of these     *)
(* steps, and the session goes on with another command.                    *)
(*                                                                         *)
(* Left out: the fields of the state that no command interprets, the       *)
(* schema check (every state built here passes it), the run log and the    *)
(* status notes, which are copied, and wording.                            *)
(***************************************************************************)
EXTENDS Naturals, Sequences

CONSTANTS Tasks,
          Tracks,     \* the tracks iterations are begun on
          SkillGates, \* the gates skills set with set-gate
          MaxBegun,   \* bound: iterations begun
          Threshold,  \* RETRO_DEFAULT_THRESHOLD
          MaxCount,   \* bound: the counter is not incremented past this
          MaxDays,    \* bound: the last day
          MaxKills,   \* bound: commands killed
          Missing,    \* no such file
          Empty       \* a file emptied by open("w") and not yet filled

\* Skills set SkillGates; only the retro commands set retro_due.
States == [task : Tasks, track : Tracks,
           gates : SUBSET (SkillGates \cup {"roadmap_synced", "retro_due"})]

Days == 1..MaxDays

\* A Status cell: planned, in-progress or completed (day).
Cells == [status : {"planned", "in-progress"}, day : {0}]
             \cup [status : {"completed"}, day : Days]

\* The header of project-status.md.
Headers == [task : Tasks \cup {Missing}, status : {"in-progress", "completed"}, updated : Days]

\* The archived state of an iteration is a file named after its task.
Files == {"state", "retro", "roadmap", "page"} \cup Tasks

ASSUME IterationAssumption ==
    /\ Tracks \subseteq {"quick", "standard", "full"}
    /\ SkillGates \subseteq {"team_deployed", "log_written", "roadmap_synced"}
    /\ MaxBegun \in Nat /\ Threshold \in Nat /\ MaxCount \in Nat /\ MaxKills \in Nat
    /\ MaxDays \in Nat \ {0}
    /\ Tasks \cap {"state", "retro", "roadmap", "page"} = {}
    /\ {Missing, Empty} \cap (States \cup 0..MaxCount \cup Headers \cup [Tasks -> Cells]) = {}
    /\ Missing # Empty

\* The documents of the last commit.
Committed == [roadmap |-> [t \in Tasks |-> [status |-> "planned", day |-> 0]],
              page |-> [task |-> Missing,
                        status |-> "in-progress", updated |-> 1]]

VARIABLES
    disk,    \* the content of each file
    todo,    \* what the running command has still to write
    day,     \* the UTC date
    begun,   \* iterations begun so far
    kills,   \* commands killed so far
    broken,  \* history: files that killed commands did not write
    synced   \* history: the last command was sync-status

vars == <<disk, todo, day, begun, kills, broken, synced>>

----------------------------------------------------------------------------
Readable(f) == disk[f] \notin {Missing, Empty}

\* read_retro_count: a missing or unreadable counter is 0.
Count == IF Readable("retro") THEN disk["retro"] ELSE 0

Write(f, content) == << [file |-> f, content |-> content] >>

\* write_state: a command that read no state, or could not parse it, stops.
WriteState(gates) ==
    IF Readable("state") THEN Write("state", [disk["state"] EXCEPT !.gates = gates]) ELSE << >>

Gates == IF Readable("state") THEN disk["state"].gates ELSE {}

\* The gates a track needs: TRACK_REQUIRED.
Required(track) ==
    {"log_written", "roadmap_synced"} \cup (IF track = "full" THEN {"team_deployed"} ELSE {})

\* Mistake to detect: the gate this run is about to set is read from the file.
DerivedBeforeTheGate(s) == IF Required(s.track) \subseteq s.gates THEN "completed" ELSE "in-progress"

\* main and derive_status: roadmap_synced counts as set by this run.
Derived(s) ==
    IF Required(s.track) \subseteq s.gates \cup {"roadmap_synced"} THEN "completed" ELSE "in-progress"

\* update_roadmap: a completed row keeps its date.
Stamp(old, status) ==
    IF status = "completed" /\ old.status = "completed" THEN old
    ELSE [status |-> status, day |-> IF status = "completed" THEN day ELSE 0]

Rows(s) == [disk["roadmap"] EXCEPT ![s.task] = Stamp(@, Derived(s))]

\* Mistake to detect: the header keeps the task of the previous iteration.
HeaderOfFirst(s) ==
    [task |-> IF Readable("page") /\ disk["page"].task # Missing THEN disk["page"].task ELSE s.task,
     status |-> Derived(s), updated |-> day]

Header(s) == [task |-> s.task, status |-> Derived(s), updated |-> day]

\* A view is written only if its text changes.
Refresh(f, content) == IF disk[f] = content THEN << >> ELSE Write(f, content)

\* An emptied document has no row and no field to replace, and stays as it is.
SyncWrites(s) ==
    (IF Readable("roadmap") THEN Refresh("roadmap", Rows(s)) ELSE << >>)
    \o (IF Readable("page") THEN Refresh("page", Header(s)) ELSE << >>)

----------------------------------------------------------------------------
Init ==
    /\ disk = [f \in Files |->
                 IF f \in {"roadmap", "page"} THEN Committed[f] ELSE Missing]
    /\ todo = << >>
    /\ day = 1
    /\ begun = 0
    /\ kills = 0
    /\ broken = {"page"}
    /\ synced = FALSE

\* A command starts; with nothing to write it has failed or changed nothing.
Run(writes) ==
    /\ todo = << >>
    /\ todo' = writes
    /\ UNCHANGED <<disk, day, kills>>

Other == synced' = FALSE

\* init.
BeginIteration(t, track, force) ==
    /\ begun < MaxBegun
    /\ disk["state"] = Missing \/ force
    /\ Run(Write("state", [task |-> t, track |-> track, gates |-> {}]))
    /\ begun' = begun + 1
    /\ UNCHANGED broken /\ Other

\* set-gate.
SetGate(g, on) ==
    /\ Readable("state")
    /\ Run(WriteState(IF on THEN Gates \cup {g} ELSE Gates \ {g}))
    /\ UNCHANGED <<begun, broken>> /\ Other

\* set, of the only other field a command reads.
SetTrack(track) ==
    /\ Readable("state")
    /\ Run(Write("state", [disk["state"] EXCEPT !.track = track]))
    /\ UNCHANGED <<begun, broken>> /\ Other

\* Mistake to detect: the state is removed before it is copied.
RemoveThenCopy(s) == Write("state", Missing) \o Write(s.task, s)

CopyThenRemove(s) == Write(s.task, s) \o Write("state", Missing)

\* archive.
Archive ==
    /\ Readable("state")
    /\ Run(CopyThenRemove(disk["state"]))
    /\ UNCHANGED <<begun, broken>> /\ Other

\* retro increment, on completion of an iteration.
Increment ==
    /\ Count < MaxCount
    /\ Run(Write("retro", Count + 1) \o WriteState(Gates))
    /\ UNCHANGED <<begun, broken>> /\ Other

\* Mistake to detect: a reset leaves the gate.
GatesAfterResetKept == Gates

GatesAfterReset == Gates \ {"retro_due"}

\* retro reset, after a retrospective.
Reset ==
    /\ Run(Write("retro", 0) \o WriteState(GatesAfterReset))
    /\ broken' = broken \ {"retro", "state"} /\ Other
    /\ UNCHANGED begun

\* retro check, at the start of an iteration.
Check ==
    /\ Readable("state")
    /\ LET due == IF Count >= Threshold THEN {"retro_due"} ELSE {}
       IN  Run(WriteState((Gates \ {"retro_due"}) \cup due))
    /\ broken' = broken \ {"retro", "state"} /\ Other
    /\ UNCHANGED begun

\* sync-status.py, which ends with set-gate roadmap_synced true.
Sync ==
    /\ Readable("state")
    /\ Run(SyncWrites(disk["state"])
           \o WriteState(Gates \cup {"roadmap_synced"}))
    /\ broken' = broken \ {"roadmap", "page"}
    /\ synced' = TRUE
    /\ UNCHANGED begun

\* git restores a document that was left empty.
Restore(f) ==
    /\ todo = << >> /\ disk[f] = Empty
    /\ disk' = [disk EXCEPT ![f] = Committed[f]]
    /\ broken' = broken \cup {f} /\ Other
    /\ UNCHANGED <<todo, day, begun, kills>>

\* The next file of the running command: emptied, then filled; or removed.
WriteNext ==
    /\ todo # << >>
    /\ LET f == Head(todo).file
           content == Head(todo).content
       IN  IF content = Missing \/ disk[f] = Empty
           THEN disk' = [disk EXCEPT ![f] = content] /\ todo' = Tail(todo)
           ELSE disk' = [disk EXCEPT ![f] = Empty] /\ UNCHANGED todo
    /\ UNCHANGED <<day, begun, kills, broken, synced>>

\* The running command is killed.
Kill ==
    /\ todo # << >> /\ kills < MaxKills
    /\ kills' = kills + 1
    /\ todo' = << >>
    /\ broken' = broken \cup {todo[i].file : i \in DOMAIN todo} /\ Other
    /\ UNCHANGED <<disk, day, begun>>

NextDay == day < MaxDays /\ day' = day + 1 /\ UNCHANGED <<disk, todo, begun, kills, broken, synced>>

Next ==
    \/ \E t \in Tasks, track \in Tracks, force \in BOOLEAN : BeginIteration(t, track, force)
    \/ \E g \in SkillGates, on \in BOOLEAN : SetGate(g, on)
    \/ \E track \in Tracks : SetTrack(track)
    \/ Archive \/ Increment \/ Reset \/ Check \/ Sync
    \/ \E f \in {"roadmap", "page"} : Restore(f)
    \/ WriteNext \/ Kill \/ NextDay

Spec == Init /\ [][Next]_vars

----------------------------------------------------------------------------
(* Properties *)

\* Every file has its own kind of content, and a command has a write left only
\* for a content the file may take.
TypeOK ==
    /\ DOMAIN disk = Files
    /\ disk["state"] \in States \cup {Missing, Empty}
    /\ disk["retro"] \in 0..MaxCount \cup {Missing, Empty}
    /\ disk["roadmap"] \in [Tasks -> Cells] \cup {Empty}
    /\ disk["page"] \in Headers \cup {Empty}
    /\ \A t \in Tasks : /\ disk[t] \in States \cup {Missing, Empty}
                        /\ disk[t] \in States => disk[t].task = t
    /\ \A i \in DOMAIN todo : todo[i].file \in Files /\ todo[i].content # Empty
    /\ day \in Days /\ begun \in 0..MaxBegun /\ kills \in 0..MaxKills
    /\ broken \subseteq Files /\ synced \in BOOLEAN

\* openup-state.py archive ("copy state to a destination, then remove the
\* original"): whatever kill or earlier attempt came between, the state of an
\* iteration is removed only when its archived copy is complete.
RemovedOnlyWhenArchived ==
    [][disk["state"] \in States /\ disk'["state"] = Missing =>
          disk'[disk["state"].task] = disk["state"]]_vars

\* retro cadence (state-file.md): a live iteration is told that a retrospective
\* is due only while the durable counter, which lives in another file and is
\* written first, says so.  A killed command may break it until the next retro
\* check or reset.
DueFollowsTheCounter ==
    todo = << >> /\ broken \cap {"retro", "state"} = {} /\ disk["state"] \in States =>
        ("retro_due" \in disk["state"].gates => Count >= Threshold)

\* The state keeps its type, and (sync-status.py:11-13) "the two documents can
\* never disagree" on the status
\* of the current task, on whatever day and with whatever gates they were last
\* written, unless a run was killed between the two.
ViewsAgree ==
    /\ TypeOK
    /\ todo = << >> /\ broken \cap {"roadmap", "page"} = {}
       /\ disk["roadmap"] # Empty /\ disk["page"] # Empty
       /\ disk["page"].task # Missing
       => disk["roadmap"][disk["page"].task].status = disk["page"].status

\* sync-status.py:29 ("re-running with unchanged state produces no further
\* changes"): after a run the next one finds the roadmap as it is to be, on any
\* later day, and the header until the day changes, though the first run itself
\* sets a gate the status is derived from.
SyncIsIdempotent ==
    synced /\ todo = << >> =>
        /\ disk["roadmap"] # Empty => disk["roadmap"] = Rows(disk["state"])
        /\ disk["page"] # Empty /\ disk["page"].updated = day =>
               disk["page"] = Header(disk["state"])
=============================================================================
