-------------------------------- MODULE Claims --------------------------------
(***************************************************************************)
(* Task claims (scripts/openup-claims.py).  A claim is a JSON file in the  *)
(* claims directory of a clone, which its worktrees share, and, when there *)
(* is a remote, a git ref that points to a copy of it.  Sessions run the   *)
(* subcommands claim, release, heartbeat and preflight; anybody may run    *)
(* reap.  Each command is several steps on files and refs, and nothing     *)
(* locks them, so the commands of a clone interleave with each other and,  *)
(* on the remote, with those of other clones.  Only the remote decides     *)
(* between clones; within one, a claim that overlaps with another command  *)
(* about the same task can end in two owners or in a lost file.  What a    *)
(* claim is worth is therefore stated for claims that nothing overlapped   *)
(* with; the history variables say which those are.                        *)
(*                                                                         *)
(* Dependencies, which a claim checks first and which change nothing here, *)
(* are in Lanes; --force is a person's override and is left out, and so    *)
(* are --no-push and list, get and dir, which change nothing.              *)
(***************************************************************************)
EXTENDS Naturals, Paths

CONSTANTS Sessions, Tasks, Clones,
          CloneOf,      \* the clone each session works in
          Touches,      \* the surface of each task
          HasRemote,    \* a remote is configured
          StaleAfter,   \* reap --stale-after
          MaxClock,     \* bound: the clock stops here
          MaxFailures,  \* bound: git calls that fail on the network
          NoFile, Corrupt, NoRef

\* session_id, claimed_at and last_heartbeat, 0 when there is none.
Payloads == [by : Sessions, at : 1..MaxClock, hb : 0..MaxClock]

ASSUME ClaimsAssumption ==
    /\ CloneOf \in [Sessions -> Clones] /\ Tasks # {}
    /\ HasRemote \in BOOLEAN
    /\ StaleAfter \in Nat /\ MaxClock \in Nat \ {0} /\ MaxFailures \in Nat
    /\ {NoFile, Corrupt, NoRef} \cap Payloads = {} /\ NoFile # Corrupt

VARIABLES
    file,     \* each clone's claim files; Corrupt cannot be parsed
    ref,      \* each clone's refs/openup/claims/<task>
    remote,   \* the same refs on the remote
    now,
    pc,       \* where each session's command is
    task,     \* the task it is about
    payload,  \* the claim it read or wrote
    listed,   \* the refs preflight still has to mirror to files
    doomed,   \* the claims a reap in each clone found stale and has not yet removed
    holds,    \* the tasks each session was told it has claimed, until it releases them
    pushed,   \* those of them whose push was answered
    failures, \* network calls that failed
    unguarded, \* history: the tasks with a claim that the push alone did not decide
    forfeit   \* history: who let a claim of its own grow stale or claimed it again,
              \* or had its file spoiled by a killed command

vars == <<file, ref, remote, now, pc, task, payload, listed, doomed,
          holds, pushed, failures, unguarded, forfeit>>

files == <<file, ref, remote>>
others == <<now, doomed>>

----------------------------------------------------------------------------
NoneListed == [t \in Tasks |-> NoRef]

Overlap(t, u) == TouchesOverlap(Touches[t], Touches[u])

IsClaim(f) == f \in Payloads

FileOf(s) == file[CloneOf[s]][task[s]]
RefOf(s) == ref[CloneOf[s]][task[s]]

Placed(store, s, v) == [store EXCEPT ![CloneOf[s]] = [@ EXCEPT ![task[s]] = v]]

\* preflight: no other claim covers the surface; a corrupt one might.
Clear(c, t) ==
    \A u \in Tasks \ {t} : /\ file[c][u] # Corrupt
                           /\ IsClaim(file[c][u]) => ~Overlap(t, u)

\* Mistake to detect: a claim as old as the limit is stale.
StaleEarly(f, time) == IsClaim(f) /\ f.hb # 0 /\ time - f.hb >= StaleAfter

\* A claim without a heartbeat is never stale.
Stale(f, time) == IsClaim(f) /\ f.hb # 0 /\ time - f.hb > StaleAfter

Goto(s, l) == pc' = [pc EXCEPT ![s] = l]

\* The command ends: its local variables are gone.
Finish(s) == Goto(s, "idle") /\ payload' = [payload EXCEPT ![s] = NoFile]

Told(s) == holds' = [holds EXCEPT ![s] = @ \cup {task[s]}]

\* A network call of this step fails.
Fails == failures < MaxFailures /\ failures' = failures + 1
Works == UNCHANGED failures

Init ==
    /\ file = [c \in Clones |-> [t \in Tasks |-> NoFile]]
    /\ ref = [c \in Clones |-> [t \in Tasks |-> NoRef]]
    /\ remote = [t \in Tasks |-> NoRef]
    /\ now = 1
    /\ pc = [s \in Sessions |-> "idle"]
    /\ task = [s \in Sessions |-> CHOOSE t \in Tasks : TRUE]
    /\ payload = [s \in Sessions |-> NoFile]
    /\ listed = [s \in Sessions |-> NoneListed]
    /\ doomed = [c \in Clones |-> {}]
    /\ holds = [s \in Sessions |-> {}]
    /\ pushed = [s \in Sessions |-> {}]
    /\ failures = 0
    /\ unguarded = {}
    /\ forfeit = {}

----------------------------------------------------------------------------
(* claim *)

\* A readable claim of the same session is refreshed without a pre-flight; of
\* another session, refused.  An unreadable one counts as none.
Claim(s, t) ==
    /\ pc[s] = "idle"
    /\ IsClaim(file[CloneOf[s]][t]) => file[CloneOf[s]][t].by = s
    /\ task' = [task EXCEPT ![s] = t]
    /\ Goto(s, IF IsClaim(file[CloneOf[s]][t]) THEN "write" ELSE "preflight")
    /\ UNCHANGED <<files, payload, listed, others, holds, pushed, failures>>

Preflight(s) ==
    /\ pc[s] = "preflight"
    /\ Goto(s, IF Clear(CloneOf[s], task[s]) THEN "write" ELSE "idle")
    /\ UNCHANGED <<files, task, payload, listed, others, holds, pushed, failures>>

\* write_claim_atomic: a temporary file takes the claim's name.
WriteClaim(s) ==
    /\ pc[s] = "write"
    /\ LET p == [by |-> s, at |-> now, hb |-> 0]
       IN  /\ file' = Placed(file, s, p)
           /\ IF HasRemote
              THEN /\ Goto(s, "update-ref") /\ UNCHANGED holds
                   /\ payload' = [payload EXCEPT ![s] = p]
              ELSE Finish(s) /\ Told(s)
    /\ UNCHANGED <<ref, remote, task, listed, others, pushed, failures>>

\* _push_claim_ref: hash-object and update-ref.
UpdateRef(s) ==
    /\ pc[s] = "update-ref"
    /\ ref' = Placed(ref, s, payload[s])
    /\ Goto(s, "push")
    /\ UNCHANGED <<file, remote, task, payload, listed, others, holds, pushed, failures>>

\* Mistake to detect: git push --force.
AcceptsAll(s) == RefOf(s) # NoRef

\* git push without --force creates the ref on the remote; git never moves a ref
\* that points to a blob, and accepts a push of what is there already.
Accepts(s) == RefOf(s) # NoRef /\ remote[task[s]] \in {NoRef, RefOf(s)}

Push(s) ==
    /\ pc[s] = "push"
    /\ Accepts(s)
    /\ remote' = [remote EXCEPT ![task[s]] = RefOf(s)]
    /\ pushed' = [pushed EXCEPT ![s] = @ \cup {task[s]}]
    /\ Told(s) /\ Finish(s) /\ Works
    /\ UNCHANGED <<file, ref, task, listed, others>>

PushRejected(s) ==
    /\ pc[s] = "push"
    /\ RefOf(s) # NoRef /\ ~Accepts(s)
    /\ Goto(s, "fetch-winner")
    /\ UNCHANGED <<files, task, payload, listed, others, holds, pushed, failures>>

\* Any other error is taken for a network error, and the claim stands in this
\* clone only.  The remote may have taken the ref all the same.
PushUnanswered(s) ==
    /\ pc[s] = "push"
    /\ IF RefOf(s) = NoRef THEN Works ELSE Fails
    /\ remote' \in {remote, IF Accepts(s) THEN [remote EXCEPT ![task[s]] = RefOf(s)]
                                          ELSE remote}
    /\ Told(s) /\ Finish(s)
    /\ UNCHANGED <<file, ref, task, listed, others, pushed>>

\* git fetch of the winner's ref, then cat-file of whatever the ref points to: the
\* loser's own blob if the fetch failed or the winner has just released.
FetchWinner(s) ==
    /\ pc[s] = "fetch-winner"
    /\ \/ /\ remote[task[s]] # NoRef /\ Works
          /\ ref' = Placed(ref, s, remote[task[s]])
       \/ /\ IF remote[task[s]] = NoRef THEN Works ELSE Fails
          /\ UNCHANGED ref
    /\ IF ref'[CloneOf[s]][task[s]] = NoRef
       THEN Finish(s) /\ Told(s)
       ELSE Goto(s, "rollback") /\ UNCHANGED <<holds, payload>>
    /\ UNCHANGED <<file, remote, task, listed, others, pushed>>

\* Refused: claimed on the remote.  That may be the session's own earlier claim, which
\* the remote keeps, and whose file goes all the same.
Rollback(s) ==
    /\ pc[s] = "rollback"
    /\ file' = Placed(file, s, NoFile)
    /\ Finish(s)
    /\ UNCHANGED <<ref, remote, task, listed, others, holds, pushed, failures>>

----------------------------------------------------------------------------
(* release: of a task the session was told it holds *)

Release(s, t) ==
    /\ pc[s] = "idle"
    /\ t \in holds[s]
    /\ task' = [task EXCEPT ![s] = t]
    /\ file' = [file EXCEPT ![CloneOf[s]] = [@ EXCEPT ![t] = NoFile]]
    /\ holds' = [holds EXCEPT ![s] = @ \ {t}]
    /\ pushed' = [pushed EXCEPT ![s] = @ \ {t}]
    /\ Goto(s, IF HasRemote THEN "delete-remote" ELSE "idle")
    /\ UNCHANGED <<ref, remote, payload, listed, others, failures>>

DeleteRemote(s) ==
    /\ pc[s] = "delete-remote"
    /\ \/ Works /\ remote' = [remote EXCEPT ![task[s]] = NoRef]
       \/ Fails /\ UNCHANGED remote
    /\ Goto(s, "delete-ref")
    /\ UNCHANGED <<file, ref, task, payload, listed, others, holds, pushed>>

DeleteRef(s) ==
    /\ pc[s] = "delete-ref"
    /\ ref' = Placed(ref, s, NoRef)
    /\ Finish(s)
    /\ UNCHANGED <<file, remote, task, listed, others, holds, pushed, failures>>

----------------------------------------------------------------------------
(* heartbeat: reads the claim, rewrites it with the time *)

Heartbeat(s, t) ==
    /\ pc[s] = "idle"
    /\ t \in holds[s]
    /\ IsClaim(file[CloneOf[s]][t])
    /\ task' = [task EXCEPT ![s] = t]
    /\ payload' = [payload EXCEPT ![s] = [file[CloneOf[s]][t] EXCEPT !.hb = now]]
    /\ Goto(s, "stamp")
    /\ UNCHANGED <<files, listed, others, holds, pushed, failures>>

Stamp(s) ==
    /\ pc[s] = "stamp"
    /\ file' = Placed(file, s, payload[s])
    /\ Finish(s)
    /\ UNCHANGED <<ref, remote, task, listed, others, holds, pushed, failures>>

----------------------------------------------------------------------------
(* preflight: fetches the remote's claims and mirrors all refs to files *)

Fetched(s) == [t \in Tasks |-> IF remote[t] = NoRef THEN ref[CloneOf[s]][t] ELSE remote[t]]

\* The fetch is forced, and prunes nothing.  One that fails mirrors nothing.
Fetch(s) ==
    /\ pc[s] = "idle"
    /\ HasRemote
    /\ ref' = [ref EXCEPT ![CloneOf[s]] = Fetched(s)]
    /\ Goto(s, "list")
    /\ UNCHANGED <<file, remote, task, payload, listed, others, holds, pushed, failures>>

\* for-each-ref
List(s) ==
    /\ pc[s] = "list"
    /\ listed' = [listed EXCEPT ![s] = ref[CloneOf[s]]]
    /\ Goto(s, IF listed'[s] = NoneListed THEN "idle" ELSE "mirror")
    /\ UNCHANGED <<files, task, payload, others, holds, pushed, failures>>

\* write_text empties the file before it fills it; a file that is equal is kept.
Mirror(s, t) ==
    /\ pc[s] = "mirror"
    /\ listed[s][t] # NoRef
    /\ task' = [task EXCEPT ![s] = t]
    /\ listed' = [listed EXCEPT ![s] = [@ EXCEPT ![t] = NoRef]]
    /\ IF file[CloneOf[s]][t] = listed[s][t]
       THEN /\ Goto(s, IF listed'[s] = NoneListed THEN "idle" ELSE "mirror")
            /\ UNCHANGED <<file, payload>>
       ELSE /\ Goto(s, "fill")
            /\ payload' = [payload EXCEPT ![s] = listed[s][t]]
            /\ file' = [file EXCEPT ![CloneOf[s]] = [@ EXCEPT ![t] = Corrupt]]
    /\ UNCHANGED <<ref, remote, others, holds, pushed, failures>>

Fill(s) ==
    /\ pc[s] = "fill"
    /\ file' = Placed(file, s, payload[s])
    /\ payload' = [payload EXCEPT ![s] = NoFile]
    /\ Goto(s, IF listed[s] = NoneListed THEN "idle" ELSE "mirror")
    /\ UNCHANGED <<ref, remote, task, listed, others, holds, pushed, failures>>

----------------------------------------------------------------------------
(* reap, by anybody in the clone, and what happens around the commands *)

Reap(c) ==
    /\ doomed[c] = {}
    /\ doomed' = [doomed EXCEPT ![c] = {t \in Tasks : Stale(file[c][t], now)}]
    /\ UNCHANGED <<files, now, pc, task, payload, listed, holds, pushed, failures>>

\* The file is removed by its name, whatever it holds by now.
ReapOne(c, t) ==
    /\ t \in doomed[c]
    /\ file' = [file EXCEPT ![c] = [@ EXCEPT ![t] = NoFile]]
    /\ doomed' = [doomed EXCEPT ![c] = @ \ {t}]
    /\ UNCHANGED <<ref, remote, now, pc, task, payload, listed, holds, pushed, failures>>

\* A session is killed in the middle of a command or between two.
Crash(s) ==
    /\ pc[s] # "dead"
    /\ Goto(s, "dead") /\ payload' = [payload EXCEPT ![s] = NoFile]
    /\ listed' = [listed EXCEPT ![s] = NoneListed]
    /\ UNCHANGED <<files, task, others, holds, pushed, failures>>

Filled(c, t) == \E s \in Sessions : CloneOf[s] = c /\ pc[s] = "fill" /\ task[s] = t

\* A file that a killed session left unreadable.
Torn(c, t) == file[c][t] = Corrupt /\ ~Filled(c, t)

\* A person removes it.
Remove(c, t) ==
    /\ Torn(c, t)
    /\ file' = [file EXCEPT ![c] = [@ EXCEPT ![t] = NoFile]]
    /\ UNCHANGED <<ref, remote, pc, task, payload, listed, others, holds, pushed, failures>>

\* A second passes.
Tick ==
    /\ now < MaxClock
    /\ now' = now + 1
    /\ UNCHANGED <<files, pc, task, payload, listed, doomed, holds, pushed, failures>>

Step(s) ==
    \/ Preflight(s) \/ WriteClaim(s) \/ UpdateRef(s)
    \/ Push(s) \/ PushRejected(s) \/ PushUnanswered(s) \/ FetchWinner(s) \/ Rollback(s)
    \/ DeleteRemote(s) \/ DeleteRef(s) \/ Stamp(s)
    \/ List(s) \/ (\E t \in Tasks : Mirror(s, t)) \/ Fill(s)

Command(s) ==
    \/ \E t \in Tasks : Claim(s, t) \/ Release(s, t) \/ Heartbeat(s, t)
    \/ Fetch(s)

Act ==
    \/ \E s \in Sessions : Command(s) \/ Step(s) \/ Crash(s)
    \/ \E c \in Clones : Reap(c) \/ \E t \in Tasks : ReapOne(c, t) \/ Remove(c, t)
    \/ Tick

----------------------------------------------------------------------------
(* History *)

Claiming(s, t) ==
    /\ pc[s] \in {"preflight", "write", "update-ref", "push", "fetch-winner", "rollback"}
    /\ task[s] = t

\* A command of s that is about t, or about all tasks, is under way.
Busy(s, t) ==
    /\ pc[s] \notin {"idle", "dead"}
    /\ task[s] = t \/ pc[s] = "list" \/ listed[s][t] # NoRef

\* A claim of t is not alone in its clone, or went on without an answer to its push.
Overlapped(t) ==
    \E s \in Sessions :
        \/ /\ Claiming(s, t)
           /\ \/ t \in doomed[CloneOf[s]]
              \/ \E v \in Sessions \ {s} : CloneOf[v] = CloneOf[s] /\ Busy(v, t)
        \/ t \in holds[s] \ pushed[s]

\* The claim of s has grown stale, s claims t once more, or its file has been torn.
Forfeited(s, t) ==
    LET f == file[CloneOf[s]][t]
    IN  \/ IsClaim(f) /\ f.by = s /\ f.hb # 0 /\ now > f.hb + StaleAfter
        \/ Claiming(s, t) /\ t \in holds[s]
        \/ Torn(CloneOf[s], t)

Remember ==
    /\ unguarded' = unguarded \cup {t \in Tasks : Overlapped(t)'}
    /\ forfeit' = forfeit \cup {st \in Sessions \X Tasks : Forfeited(st[1], st[2])'}

Next == Act /\ Remember

Spec == Init /\ [][Next]_vars

----------------------------------------------------------------------------
(* Properties *)

\* The state keeps its type; an unreadable file is being filled or was left by a
\* session that was killed while it filled it.
TypeOK ==
    /\ file \in [Clones -> [Tasks -> Payloads \cup {NoFile, Corrupt}]]
    /\ ref \in [Clones -> [Tasks -> Payloads \cup {NoRef}]]
    /\ remote \in [Tasks -> Payloads \cup {NoRef}]
    /\ now \in 1..MaxClock
    /\ pc \in [Sessions -> {"idle", "dead", "preflight", "write", "update-ref", "push",
                            "fetch-winner", "rollback", "delete-remote", "delete-ref",
                            "stamp", "list", "mirror", "fill"}]
    /\ task \in [Sessions -> Tasks]
    /\ payload \in [Sessions -> Payloads \cup {NoFile}]
    /\ listed \in [Sessions -> [Tasks -> Payloads \cup {NoRef}]]
    /\ doomed \in [Clones -> SUBSET Tasks]
    /\ holds \in [Sessions -> SUBSET Tasks]
    /\ \A s \in Sessions : pushed[s] \subseteq holds[s]
    /\ failures \in 0..MaxFailures
    /\ unguarded \subseteq Tasks
    /\ forfeit \subseteq Sessions \X Tasks
    /\ \A c \in Clones, t \in Tasks : file[c][t] = Corrupt =>
          \E s \in Sessions : CloneOf[s] = c /\ pc[s] \in {"fill", "dead"}

\* openup-claims.py:79-81, "so two agents on different machines cannot both claim the
\* same task", as long as the network answers.
TwoMachinesNeverShare ==
    failures = 0 =>
        \A s, v \in Sessions : CloneOf[s] # CloneOf[v] => holds[s] \cap holds[v] = {}

\* What does hold of _push_claim_ref: the state keeps its type, and no two sessions, of
\* whatever clones, own a task all of whose claims were alone in their clone while they
\* ran and had an answer to their push, whatever other commands run in between and
\* whatever is released, reaped, mirrored, lost on the network or killed.
OneOwnerAcrossClones ==
    /\ TypeOK
    /\ HasRemote =>
          \A s, v \in Sessions : s # v => holds[s] \cap holds[v] \subseteq unguarded

\* Of such a task the owner keeps the claim file, as long as it stamps it in time and
\* does not claim it again: no reap, no mirror and no refused claim of another session
\* takes it away or gives it to another.
OwnerKeepsItsClaim ==
    \A s \in Sessions : \A t \in holds[s] \ unguarded :
        HasRemote /\ pc[s] # "dead" /\ <<s, t>> \notin forfeit =>
            \/ Filled(CloneOf[s], t)
            \/ IsClaim(file[CloneOf[s]][t]) /\ file[CloneOf[s]][t].by = s
=============================================================================
