---------------------------- MODULE ProcessProofs ----------------------------
(***************************************************************************)
(* Proofs about the two parts of the development process that MCClaims     *)
(* puts in one run: Claims, for any number of tasks, clones and sessions   *)
(* in each, and Traceability, for any documents.                           *)
(*                                                                         *)
(* Claims.  Nothing keeps the commands of a clone apart, so a claim may be *)
(* answered for a ref, and followed by a mirror, of another command's.     *)
(* What is proved is about the tasks whose claims were never overlapped:   *)
(* the remote has what a session owns of them (Known), since the ref that  *)
(* is pushed is still the session's own, and what the clone has about them *)
(* is its owner's (Safe): the claim file and the ref, and what any command *)
(* has read and will write.  Once a session owns a task, or is pushing its *)
(* claim, no other command that the file stops can begin to claim it; one  *)
(* that the file does not stop leaves its trace in the history (Seen).     *)
(*                                                                         *)
(* A step touches one session, one clone and the remote's entry of a task  *)
(* (SessionKeeps), or takes away files (HouseKeeps).                       *)
(***************************************************************************)
EXTENDS Claims, Traceability, FiniteSetTheorems, TLAPS

(* Claims: the inductive invariant *)

By(p, s) == p \in Payloads /\ p.by = s

Typed ==
    /\ file \in [Clones -> [Tasks -> Payloads \cup {NoFile, Corrupt}]]
    /\ ref \in [Clones -> [Tasks -> Payloads \cup {NoRef}]]
    /\ remote \in [Tasks -> Payloads \cup {NoRef}]
    /\ now \in 1..MaxClock
    /\ pc \in [Sessions -> {"idle", "dead", "preflight", "write", "update-ref", "push",
                            "fetch-winner", "rollback", "delete-remote", "delete-ref",
                            "stamp", "list", "mirror", "fill"}]
    /\ task \in [Sessions -> Tasks]
    /\ payload \in [Sessions -> Payloads \cup {NoFile}]
    /\ listed \in [Sessions -> [Tasks -> Payloads \cup {NoRef}]]
    /\ doomed \in [Clones -> SUBSET Tasks]
    /\ holds \in [Sessions -> SUBSET Tasks]
    /\ pushed \in [Sessions -> SUBSET Tasks]
    /\ failures \in 0..MaxFailures

\* The history has what has happened.
Seen ==
    /\ unguarded \subseteq Tasks /\ forfeit \subseteq Sessions \X Tasks
    /\ \A t \in Tasks : Overlapped(t) => t \in unguarded
    /\ \A s \in Sessions, t \in Tasks : Forfeited(s, t) => <<s, t>> \in forfeit

\* An unreadable file is being filled, or was left by a killed session.
Unreadable ==
    \A c \in Clones, t \in Tasks : file[c][t] = Corrupt =>
        \E s \in Sessions : /\ CloneOf[s] = c
                            /\ pc[s] = "dead" \/ (pc[s] = "fill" /\ task[s] = t)

\* What s writes next is a claim, its own when it claims; only a mirror lists refs.
Ready(s) ==
    /\ pushed[s] \subseteq holds[s]
    /\ pc[s] \in {"update-ref", "push", "stamp", "fill"} => payload[s] \in Payloads
    /\ pc[s] \in {"update-ref", "push"} => payload[s].by = s
    /\ pc[s] \notin {"mirror", "fill"} => listed[s] = NoneListed

\* The remote has what s owns, also while s gives it back, and what s pushes is its own.
Known(s) ==
    \A t \in Tasks \ unguarded :
        /\ t \in holds[s] => By(remote[t], s)
        /\ pc[s] = "delete-remote" /\ task[s] = t => By(remote[t], s) /\ t \notin holds[s]
        /\ pc[s] = "push" /\ task[s] = t => RefOf(s) = payload[s]

\* s owns t, or has written its claim of it and is about to.
Mine(s, t) == t \in holds[s] \/ (pc[s] \in {"update-ref", "push"} /\ task[s] = t)

\* What the clone of s has about t, and what a command there will make of it, is s's.
Safe(s, t) ==
    LET c == CloneOf[s]
    IN  /\ file[c][t] = Corrupt \/ By(file[c][t], s)
        /\ t \notin doomed[c]
        /\ (t \in holds[s] \/ pc[s] = "push") /\ ref[c][t] # NoRef => By(ref[c][t], s)
        /\ \A v \in Sessions : CloneOf[v] = c =>
              /\ listed[v][t] # NoRef => By(listed[v][t], s)
              /\ pc[v] \in {"fill", "stamp"} /\ task[v] = t => By(payload[v], s)
              /\ v # s => ~Claiming(v, t)

Kept(s) ==
    \A t \in Tasks \ unguarded :
        Mine(s, t) /\ <<s, t>> \notin forfeit /\ pc[s] # "dead" => Safe(s, t)

IInv ==
    /\ Typed /\ Seen /\ Unreadable
    /\ \A s \in Sessions : Ready(s)
    /\ HasRemote => \A s \in Sessions : Known(s) /\ Kept(s)

\* The history only grows.
LEMMA Remembered ==
    ASSUME Seen, Remember
    PROVE  Seen' /\ unguarded \subseteq unguarded' /\ forfeit \subseteq forfeit'
<1>1. unguarded' = unguarded \cup {t \in Tasks : Overlapped(t)'}
  BY DEF Remember
<1>2. forfeit' = forfeit \cup {st \in Sessions \X Tasks : Forfeited(st[1], st[2])'}
  BY DEF Remember
<1>3. ASSUME NEW s \in Sessions, NEW t \in Tasks, Forfeited(s, t)' PROVE <<s, t>> \in forfeit'
  BY <1>2, <1>3
<1>4. QED
  BY <1>1, <1>2, <1>3 DEF Seen

----------------------------------------------------------------------------
(* A step of one session v *)

\* The rows of the other sessions and the files of the other clones stay.
Aside(v) ==
    /\ \A s \in Sessions \ {v} :
          /\ pc'[s] = pc[s] /\ task'[s] = task[s] /\ payload'[s] = payload[s]
          /\ listed'[s] = listed[s] /\ holds'[s] = holds[s] /\ pushed'[s] = pushed[s]
    /\ \A c \in Clones \ {CloneOf[v]} : file'[c] = file[c] /\ ref'[c] = ref[c]
    /\ doomed' = doomed /\ now' = now

\* Nobody else's claim on the remote changes.
Fair(v) ==
    \A s \in Sessions \ {v}, t \in Tasks \ unguarded' :
        By(remote[t], s) => remote'[t] = remote[t]

\* A ref of the clone changes only while a command about its task is under way.
Open(v) ==
    \A t \in Tasks : ref'[CloneOf[v]][t] # ref[CloneOf[v]][t] => Busy(v, t) \/ Busy(v, t)'

\* What may be assumed of s and t when v moves in the clone of s.
Relies(v, s, t) ==
    /\ CloneOf[s] = CloneOf[v] /\ pc'[s] # "dead"
    /\ t \notin unguarded /\ ~Overlapped(t) /\ ~Overlapped(t)'
    /\ ~Forfeited(s, t)
    /\ Mine(s, t)'
    /\ Mine(s, t) => Safe(s, t)

\* The other sessions of the clone.
Undisturbed(v, s, t) ==
    /\ t \notin doomed[CloneOf[s]]
    /\ \A w \in Sessions \ {v} : CloneOf[w] = CloneOf[s] =>
          /\ listed[w][t] # NoRef => By(listed[w][t], s)
          /\ pc[w] \in {"fill", "stamp"} /\ task[w] = t => By(payload[w], s)
          /\ w # s => ~Claiming(w, t)

\* The step of v.
Gentle(v, s, t) ==
    LET c == CloneOf[s]
    IN  /\ file'[c][t] = Corrupt \/ By(file'[c][t], s)
        /\ (t \in holds'[s] \/ pc'[s] = "push") /\ ref'[c][t] # NoRef => By(ref'[c][t], s)
        /\ listed'[v][t] # NoRef => By(listed'[v][t], s)
        /\ pc'[v] \in {"fill", "stamp"} /\ task'[v] = t => By(payload'[v], s)
        /\ v # s => ~Claiming(v, t)'

LEMMA SafeStays ==
    ASSUME NEW v \in Sessions, NEW s \in Sessions, NEW t \in Tasks,
           Aside(v), Undisturbed(v, s, t), Gentle(v, s, t)
    PROVE  Safe(s, t)'
<1> DEFINE c == CloneOf[s]
<1>1. ASSUME NEW w \in Sessions, CloneOf[w] = c
      PROVE  /\ listed'[w][t] # NoRef => By(listed'[w][t], s)
             /\ pc'[w] \in {"fill", "stamp"} /\ task'[w] = t => By(payload'[w], s)
             /\ w # s => ~Claiming(w, t)'
  <2>1. CASE w = v
    BY <2>1 DEF Gentle
  <2>2. CASE w # v
    BY <1>1, <2>2 DEF Aside, Undisturbed, Claiming
  <2>3. QED
    BY <2>1, <2>2
<1>2. t \notin doomed'[c]
  BY DEF Aside, Undisturbed
<1>3. QED
  BY <1>1, <1>2 DEF Safe, Gentle, By

LEMMA SafeIsUndisturbed ==
    ASSUME NEW v \in Sessions, NEW s \in Sessions, NEW t \in Tasks, Safe(s, t)
    PROVE  Undisturbed(v, s, t)
BY DEF Safe, Undisturbed

\* A session of another clone keeps all it relies on.
LEMMA SafeElsewhere ==
    ASSUME NEW v \in Sessions, NEW s \in Sessions, NEW t \in Tasks,
           Aside(v), CloneOf[s] # CloneOf[v], Safe(s, t)
    PROVE  Safe(s, t)'
<1>1. s # v /\ CloneOf[s] \in Clones
  BY ClaimsAssumption
<1>2. /\ file'[CloneOf[s]] = file[CloneOf[s]] /\ ref'[CloneOf[s]] = ref[CloneOf[s]]
      /\ doomed' = doomed /\ holds'[s] = holds[s] /\ pc'[s] = pc[s]
  BY <1>1 DEF Aside
<1>3. \A w \in Sessions : CloneOf[w] = CloneOf[s] =>
          /\ pc'[w] = pc[w] /\ task'[w] = task[w] /\ payload'[w] = payload[w]
          /\ listed'[w] = listed[w]
  BY DEF Aside
<1>4. QED
  BY <1>2, <1>3 DEF Safe, Claiming, By

\* So a step of v need only be shown to keep what is about v, and to be gentle to the
\* others of its clone.
LEMMA SessionKeeps ==
    ASSUME IInv, Remember, NEW v \in Sessions, Typed', Aside(v), pc[v] # "dead", Ready(v)',
           \A t \in Tasks : file'[CloneOf[v]][t] = Corrupt =>
               \/ pc'[v] = "dead"
               \/ pc'[v] = "fill" /\ task'[v] = t
               \/ file[CloneOf[v]][t] = Corrupt /\ (pc[v] # "fill" \/ task[v] # t),
           HasRemote => Fair(v) /\ Open(v) /\ Known(v)',
           HasRemote => \A s \in Sessions, t \in Tasks :
                            Relies(v, s, t) => Undisturbed(v, s, t) /\ Gentle(v, s, t)
    PROVE  IInv'
<1>0. Seen /\ Seen' /\ unguarded \subseteq unguarded' /\ forfeit \subseteq forfeit'
  BY Remembered DEF IInv
<1>1. Unreadable'
  <2> SUFFICES ASSUME NEW c \in Clones, NEW t \in Tasks, file'[c][t] = Corrupt
               PROVE  \E s \in Sessions : /\ CloneOf[s] = c
                                          /\ \/ pc'[s] = "dead"
                                             \/ pc'[s] = "fill" /\ task'[s] = t
    BY DEF Unreadable
  <2>1. CASE c = CloneOf[v] /\ (pc'[v] = "dead" \/ (pc'[v] = "fill" /\ task'[v] = t))
    BY <2>1
  <2>2. CASE ~(c = CloneOf[v] /\ (pc'[v] = "dead" \/ (pc'[v] = "fill" /\ task'[v] = t)))
    <3>1. file[c][t] = Corrupt
      BY <2>2 DEF Aside
    <3>2. PICK s \in Sessions : /\ CloneOf[s] = c
                                /\ pc[s] = "dead" \/ (pc[s] = "fill" /\ task[s] = t)
      BY <3>1 DEF IInv, Unreadable
    <3>3. s # v
      BY <2>2, <3>2
    <3>4. QED
      BY <3>2, <3>3 DEF Aside
  <2>3. QED
    BY <2>1, <2>2
<1>2. ASSUME NEW s \in Sessions PROVE Ready(s)'
  <2>1. CASE s = v
    BY <2>1
  <2>2. CASE s # v
    <3>1. Ready(s)
      BY DEF IInv
    <3>2. QED
      BY <2>2, <3>1 DEF Ready, Aside
  <2>3. QED
    BY <2>1, <2>2
<1>3. ASSUME HasRemote, NEW s \in Sessions PROVE Known(s)'
  <2>1. CASE s = v
    BY <1>3, <2>1
  <2>2. CASE s # v
    <3>1. Known(s) /\ Fair(v) /\ Open(v)
      BY <1>3 DEF IInv
    <3>2. /\ pc'[s] = pc[s] /\ task'[s] = task[s] /\ payload'[s] = payload[s]
          /\ holds'[s] = holds[s]
      BY <2>2 DEF Aside
    <3>3. ASSUME NEW t \in Tasks \ unguarded', pc[s] = "push", task[s] = t
          PROVE  RefOf(s)' = payload'[s]
      <4>1. RefOf(s) = payload[s]
        BY <1>0, <3>1, <3>3 DEF Known
      <4>2. CASE CloneOf[s] # CloneOf[v]
        BY <2>2, <3>2, <4>1, <4>2, ClaimsAssumption DEF Aside, RefOf
      <4>3. CASE CloneOf[s] = CloneOf[v]
        <5>1. Claiming(s, t) /\ Claiming(s, t)'
          BY <3>2, <3>3 DEF Claiming
        <5>2. ~Overlapped(t) /\ ~Overlapped(t)'
          BY <1>0, <3>3 DEF Seen
        <5>3. ~Busy(v, t) /\ ~Busy(v, t)'
          BY <2>2, <4>3, <5>1, <5>2 DEF Overlapped
        <5>4. ref'[CloneOf[v]][t] = ref[CloneOf[v]][t]
          BY <3>1, <5>3 DEF Open
        <5>5. QED
          BY <3>2, <3>3, <4>1, <4>3, <5>4 DEF RefOf
      <4>4. QED
        BY <4>2, <4>3
    <3>4. ASSUME NEW t \in Tasks \ unguarded', By(remote[t], s) PROVE By(remote'[t], s)
      BY <2>2, <3>1, <3>4 DEF Fair
    <3>5. ASSUME NEW t \in Tasks \ unguarded'
          PROVE  /\ t \in holds[s] => By(remote[t], s)
                 /\ pc[s] = "delete-remote" /\ task[s] = t =>
                       By(remote[t], s) /\ t \notin holds[s]
      BY <1>0, <3>1 DEF Known
    <3>6. QED
      BY <3>2, <3>3, <3>4, <3>5 DEF Known, By
  <2>3. QED
    BY <2>1, <2>2
<1>4. ASSUME HasRemote, NEW s \in Sessions PROVE Kept(s)'
  <2> SUFFICES ASSUME NEW t \in Tasks \ unguarded', Mine(s, t)', <<s, t>> \notin forfeit',
                      pc'[s] # "dead"
               PROVE  Safe(s, t)'
    BY DEF Kept
  <2>1. /\ t \notin unguarded /\ ~Overlapped(t) /\ ~Overlapped(t)'
        /\ <<s, t>> \notin forfeit /\ ~Forfeited(s, t)
    BY <1>0 DEF Seen
  <2>2. Mine(s, t) => Safe(s, t)
    <3>1. pc[s] # "dead"
      BY DEF Aside
    <3>2. QED
      BY <1>4, <2>1, <3>1 DEF IInv, Kept
  <2>3. CASE CloneOf[s] = CloneOf[v]
    <3>1. Relies(v, s, t)
      BY <2>1, <2>2, <2>3 DEF Relies
    <3>2. QED
      BY <1>4, <3>1, SafeStays
  <2>4. CASE CloneOf[s] # CloneOf[v]
    <3>1. Mine(s, t)
      BY <2>4 DEF Mine, Aside
    <3>2. QED
      BY <2>2, <2>4, <3>1, SafeElsewhere
  <2>5. QED
    BY <2>3, <2>4
<1>5. QED
  BY <1>0, <1>1, <1>2, <1>3, <1>4 DEF IInv

\* A step that changes neither files nor refs.
LEMMA QuietIsGentle ==
    ASSUME NEW v \in Sessions, NEW s \in Sessions, NEW t \in Tasks, Relies(v, s, t),
           Mine(s, t),
           UNCHANGED <<file, ref, listed>>,
           t \in holds'[s] \/ pc'[s] = "push" => t \in holds[s] \/ pc[s] = "push",
           pc'[v] \notin {"fill", "stamp"},
           v # s => ~Claiming(v, t)'
    PROVE  Undisturbed(v, s, t) /\ Gentle(v, s, t)
<1>1. Safe(s, t) /\ CloneOf[v] = CloneOf[s]
  BY DEF Relies
<1>2. QED
  BY <1>1, SafeIsUndisturbed DEF Safe, Gentle

----------------------------------------------------------------------------
(* claim *)

LEMMA ClaimKeeps ==
    ASSUME IInv, Remember, NEW v \in Sessions, NEW u \in Tasks, Claim(v, u)
    PROVE  IInv'
<1>1. /\ pc[v] = "idle" /\ pc'[v] \in {"write", "preflight"} /\ task'[v] = u
      /\ UNCHANGED <<file, ref, remote, payload, listed, holds, pushed, failures>>
  BY DEF Claim, Goto, files, IInv, Typed
<1>2. Typed' /\ Aside(v)
  BY <1>1 DEF Claim, Goto, files, others, IInv, Typed, Aside
<1>3. Ready(v)'
  BY <1>1 DEF IInv, Ready
<1>4. ASSUME HasRemote PROVE Fair(v) /\ Open(v) /\ Known(v)'
  BY <1>1, <1>4, Remembered DEF IInv, Fair, Open, Known
<1>5. ASSUME HasRemote, NEW s \in Sessions, NEW t \in Tasks, Relies(v, s, t)
      PROVE  Undisturbed(v, s, t) /\ Gentle(v, s, t)
  <2>1. Mine(s, t) /\ Safe(s, t)
    BY <1>1, <1>2, <1>5 DEF Relies, Mine, Aside
  <2>2. ASSUME v # s, Claiming(v, t)' PROVE FALSE
    <3>1. u = t /\ CloneOf[v] = CloneOf[s]
      BY <1>1, <1>5, <2>2 DEF Claiming, Relies
    <3>2. CASE file[CloneOf[s]][t] = Corrupt
      <4>1. PICK w \in Sessions : CloneOf[w] = CloneOf[s] /\ pc[w] = "fill" /\ task[w] = t
        BY <1>5, <3>2 DEF Relies, Forfeited, Torn, Filled
      <4>2. w # v /\ Busy(w, t)'
        BY <1>1, <1>2, <4>1 DEF Aside, Busy
      <4>3. QED
        BY <1>5, <2>2, <3>1, <4>1, <4>2 DEF Relies, Overlapped
    <3>3. CASE By(file[CloneOf[s]][t], s)
      BY <2>2, <3>1, <3>3 DEF Claim, IsClaim, By
    <3>4. QED
      BY <2>1, <3>2, <3>3 DEF Safe
  <2>3. t \in holds'[s] \/ pc'[s] = "push" => t \in holds[s] \/ pc[s] = "push"
    BY <1>1, <1>2 DEF Aside
  <2>4. QED
    BY <1>1, <1>5, <2>1, <2>2, <2>3, QuietIsGentle
<1>6. QED
  BY <1>1, <1>2, <1>3, <1>4, <1>5, SessionKeeps

LEMMA PreflightKeeps ==
    ASSUME IInv, Remember, NEW v \in Sessions, Preflight(v)
    PROVE  IInv'
<1>1. /\ pc[v] = "preflight" /\ pc'[v] \in {"write", "idle"}
      /\ UNCHANGED <<file, ref, remote, task, payload, listed, holds, pushed, failures>>
  BY DEF Preflight, Goto, files, IInv, Typed
<1>2. Typed' /\ Aside(v)
  BY <1>1 DEF Preflight, Goto, files, others, IInv, Typed, Aside
<1>3. Ready(v)'
  BY <1>1 DEF IInv, Ready
<1>4. ASSUME HasRemote PROVE Fair(v) /\ Open(v) /\ Known(v)'
  BY <1>1, <1>4, Remembered DEF IInv, Fair, Open, Known
<1>5. ASSUME HasRemote, NEW s \in Sessions, NEW t \in Tasks, Relies(v, s, t)
      PROVE  Undisturbed(v, s, t) /\ Gentle(v, s, t)
  <2>1. Mine(s, t) /\ Safe(s, t)
    BY <1>1, <1>2, <1>5 DEF Relies, Mine, Aside
  <2>2. v # s => ~Claiming(v, t)'
    BY <1>1, <1>5, <2>1 DEF Safe, Relies, Claiming
  <2>3. t \in holds'[s] \/ pc'[s] = "push" => t \in holds[s] \/ pc[s] = "push"
    BY <1>1, <1>2 DEF Aside
  <2>4. QED
    BY <1>1, <1>5, <2>1, <2>2, <2>3, QuietIsGentle
<1>6. QED
  BY <1>1, <1>2, <1>3, <1>4, <1>5, SessionKeeps

LEMMA WriteClaimKeeps ==
    ASSUME IInv, Remember, NEW v \in Sessions, WriteClaim(v)
    PROVE  IInv'
<1> DEFINE c == CloneOf[v]
<1>1. PICK p \in Payloads : p = [by |-> v, at |-> now, hb |-> 0]
  <2>1. now \in 1..MaxClock /\ 0 \in 0..MaxClock
    BY ClaimsAssumption DEF IInv, Typed
  <2>2. QED
    BY <2>1 DEF Payloads
<1>2. By(p, v)
  BY <1>1 DEF By
<1>3. /\ pc[v] = "write" /\ task[v] \in Tasks /\ c \in Clones
      /\ file' = Placed(file, v, p)
      /\ UNCHANGED <<ref, remote, task, listed, now, doomed, pushed, failures>>
      /\ \/ /\ HasRemote /\ pc' = [pc EXCEPT ![v] = "update-ref"] /\ UNCHANGED holds
            /\ payload' = [payload EXCEPT ![v] = p]
         \/ /\ ~HasRemote /\ pc' = [pc EXCEPT ![v] = "idle"]
            /\ payload' = [payload EXCEPT ![v] = NoFile]
            /\ holds' = [holds EXCEPT ![v] = @ \cup {task[v]}]
  BY <1>1, ClaimsAssumption DEF WriteClaim, Goto, Finish, Told, others, IInv, Typed
<1>4. /\ file'[c][task[v]] = p
      /\ \A t \in Tasks \ {task[v]} : file'[c][t] = file[c][t]
      /\ \A d \in Clones \ {c} : file'[d] = file[d]
      /\ file' \in [Clones -> [Tasks -> Payloads \cup {NoFile, Corrupt}]]
  BY <1>3 DEF Placed, IInv, Typed
<1>5. Typed' /\ Aside(v)
  <2>1. CASE /\ pc' = [pc EXCEPT ![v] = "update-ref"] /\ UNCHANGED holds
             /\ payload' = [payload EXCEPT ![v] = p]
    BY <1>3, <1>4, <2>1 DEF IInv, Typed, Aside
  <2>2. CASE /\ pc' = [pc EXCEPT ![v] = "idle"]
             /\ payload' = [payload EXCEPT ![v] = NoFile]
             /\ holds' = [holds EXCEPT ![v] = @ \cup {task[v]}]
    BY <1>3, <1>4, <2>2 DEF IInv, Typed, Aside
  <2>3. QED
    BY <1>3, <2>1, <2>2
<1>6. /\ HasRemote => pc'[v] = "update-ref" /\ payload'[v] = p /\ holds' = holds
      /\ ~HasRemote => pc'[v] = "idle" /\ holds[v] \subseteq holds'[v]
      /\ listed[v] = NoneListed
  <2>1. listed[v] = NoneListed
    BY <1>3 DEF IInv, Ready
  <2>2. HasRemote => pc'[v] = "update-ref" /\ payload'[v] = p /\ holds' = holds
    BY <1>3 DEF IInv, Typed
  <2>3. ~HasRemote => pc'[v] = "idle" /\ holds[v] \subseteq holds'[v]
    BY <1>3 DEF IInv, Typed
  <2>4. QED
    BY <2>1, <2>2, <2>3
<1>7. Ready(v)'
  BY <1>2, <1>3, <1>6 DEF IInv, Ready, By
<1>8. ASSUME HasRemote PROVE Fair(v) /\ Open(v) /\ Known(v)'
  BY <1>3, <1>6, <1>8, Remembered DEF IInv, Fair, Open, Known
<1>9. ASSUME HasRemote, NEW s \in Sessions, NEW t \in Tasks, Relies(v, s, t)
      PROVE  Undisturbed(v, s, t) /\ Gentle(v, s, t)
  <2>1. CASE s = v /\ t = task[v]
    <3>1. Claiming(v, t)
      BY <1>3, <2>1 DEF Claiming
    <3>2. t \notin holds[v]
      BY <1>9, <2>1, <3>1 DEF Relies, Forfeited
    <3>3. t \notin doomed[c] /\ \A w \in Sessions \ {v} : CloneOf[w] = c => ~Busy(w, t)
      BY <1>9, <3>1 DEF Relies, Overlapped
    <3>4. ASSUME NEW w \in Sessions \ {v}, CloneOf[w] = c
          PROVE  /\ listed[w][t] = NoRef
                 /\ ~(pc[w] \in {"fill", "stamp"} /\ task[w] = t)
                 /\ ~Claiming(w, t)
      <4>1. ~Busy(w, t)
        BY <3>3, <3>4
      <4>2. CASE pc[w] \in {"idle", "dead"}
        BY <4>2 DEF IInv, Ready, NoneListed, Claiming
      <4>3. CASE pc[w] \notin {"idle", "dead"}
        BY <4>1, <4>3 DEF Busy, Claiming
      <4>4. QED
        BY <4>2, <4>3
    <3>5. Undisturbed(v, s, t)
      BY <2>1, <3>3, <3>4 DEF Undisturbed
    <3>6. Gentle(v, s, t)
      BY <1>2, <1>3, <1>4, <1>6, <1>9, <2>1, <3>2 DEF Gentle, NoneListed
    <3>7. QED
      BY <3>5, <3>6
  <2>2. CASE ~(s = v /\ t = task[v])
    <3>1. Mine(s, t) /\ Safe(s, t)
      BY <1>3, <1>5, <1>6, <1>9, <2>2 DEF Relies, Mine, Aside
    <3>2. t # task[v]
      BY <1>3, <1>9, <2>2, <3>1 DEF Safe, Relies, Claiming
    <3>3. file'[CloneOf[s]][t] = file[CloneOf[s]][t]
      BY <1>4, <1>9, <3>2 DEF Relies
    <3>4. pc'[s] = "push" => pc[s] = "push"
      BY <1>5, <1>6, <1>9 DEF Aside
    <3>5. Gentle(v, s, t)
      BY <1>3, <1>6, <1>9, <3>1, <3>2, <3>3, <3>4 DEF Gentle, Safe, NoneListed, Claiming
    <3>6. QED
      BY <3>1, <3>5, SafeIsUndisturbed
  <2>3. QED
    BY <2>1, <2>2
<1>10. \A t \in Tasks : file'[c][t] = Corrupt => file[c][t] = Corrupt
  BY <1>4, ClaimsAssumption
<1>11. QED
  BY <1>3, <1>5, <1>7, <1>8, <1>9, <1>10, SessionKeeps


LEMMA UpdateRefKeeps ==
    ASSUME IInv, Remember, NEW v \in Sessions, UpdateRef(v)
    PROVE  IInv'
<1> DEFINE c == CloneOf[v]
<1>1. PICK p \in Payloads : p = payload[v] /\ By(p, v)
  BY DEF UpdateRef, IInv, Ready, By
<1>2. /\ pc[v] = "update-ref" /\ pc' = [pc EXCEPT ![v] = "push"]
      /\ task[v] \in Tasks /\ c \in Clones
      /\ ref' = Placed(ref, v, p)
      /\ UNCHANGED <<file, remote, task, payload, listed, now, doomed, holds, pushed,
                     failures>>
  BY <1>1, ClaimsAssumption DEF UpdateRef, Goto, others, IInv, Typed
<1>3. /\ ref'[c][task[v]] = p
      /\ \A t \in Tasks \ {task[v]} : ref'[c][t] = ref[c][t]
      /\ \A d \in Clones \ {c} : ref'[d] = ref[d]
      /\ ref' \in [Clones -> [Tasks -> Payloads \cup {NoRef}]]
  BY <1>2 DEF Placed, IInv, Typed
<1>4. pc'[v] = "push" /\ listed[v] = NoneListed /\ pushed[v] \subseteq holds[v]
  BY <1>2 DEF IInv, Typed, Ready
<1>5. Typed' /\ Aside(v)
  BY <1>2, <1>3 DEF IInv, Typed, Aside
<1>6. Ready(v)'
  BY <1>1, <1>2, <1>4 DEF Ready, By
<1>7. ASSUME HasRemote PROVE Fair(v) /\ Open(v) /\ Known(v)'
  <2>1. Known(v) /\ unguarded \subseteq unguarded'
    BY <1>7, Remembered DEF IInv
  <2>2. Known(v)'
    BY <1>1, <1>2, <1>3, <1>4, <2>1 DEF Known, RefOf
  <2>3. Open(v)
    BY <1>2, <1>3 DEF Open, Busy
  <2>4. Fair(v)
    BY <1>2 DEF Fair
  <2>5. QED
    BY <2>2, <2>3, <2>4
<1>8. ASSUME HasRemote, NEW s \in Sessions, NEW t \in Tasks, Relies(v, s, t)
      PROVE  Undisturbed(v, s, t) /\ Gentle(v, s, t)
  <2>1. Mine(s, t) /\ Safe(s, t) /\ CloneOf[s] = c
    BY <1>2, <1>5, <1>8 DEF Relies, Mine, Aside
  <2>2. v # s => t # task[v]
    BY <1>2, <2>1 DEF Safe, Claiming
  <2>3. t # task[v] /\ (t \in holds'[s] \/ pc'[s] = "push") => t \in holds[s] \/ pc[s] = "push"
    BY <1>2, <1>5, <2>1 DEF Aside, Mine
  <2>4. ref'[c][t] # NoRef /\ (t \in holds'[s] \/ pc'[s] = "push") => By(ref'[c][t], s)
    BY <1>1, <1>3, <2>1, <2>2, <2>3 DEF Safe
  <2>5. v # s => ~Claiming(v, t)'
    BY <1>2, <2>2 DEF Claiming
  <2>6. Gentle(v, s, t)
    BY <1>2, <1>4, <2>1, <2>4, <2>5 DEF Gentle, Safe, NoneListed
  <2>7. QED
    BY <2>1, <2>6, SafeIsUndisturbed
<1>9. QED
  BY <1>2, <1>5, <1>6, <1>7, <1>8, SessionKeeps

\* The session's claim of its task is answered, one way or another: remote refs that are
\* there stay, and nothing in the clone changes.
LEMMA AnswerIsGentle ==
    ASSUME IInv, NEW v \in Sessions, NEW s \in Sessions, NEW t \in Tasks, Relies(v, s, t),
           Aside(v), UNCHANGED <<file, ref, listed, task>>,
           pc[v] = "push", pc'[v] \in {"idle", "fetch-winner"},
           holds'[v] \subseteq holds[v] \cup {task[v]}
    PROVE  Undisturbed(v, s, t) /\ Gentle(v, s, t)
<1>1. Mine(s, t) /\ Safe(s, t) /\ CloneOf[s] = CloneOf[v]
  BY DEF Relies, Mine, Aside
<1>2. t \in holds'[s] \/ pc'[s] = "push" => t \in holds[s] \/ pc[s] = "push"
  BY DEF Aside
<1>3. v # s => ~Claiming(v, t)'
  BY <1>1 DEF Safe, Claiming
<1>4. QED
  BY <1>1, <1>2, <1>3, QuietIsGentle

LEMMA PushKeeps ==
    ASSUME IInv, Remember, NEW v \in Sessions, Push(v)
    PROVE  IInv'
<1> DEFINE u == task[v]
<1>1. PICK r \in Payloads : r = RefOf(v)
  <2>1. RefOf(v) \in Payloads \cup {NoRef}
    BY ClaimsAssumption DEF RefOf, IInv, Typed
  <2>2. RefOf(v) # NoRef
    BY DEF Push, Accepts
  <2>3. QED
    BY <2>1, <2>2
<1>2. /\ pc[v] = "push" /\ pc' = [pc EXCEPT ![v] = "idle"] /\ u \in Tasks
      /\ payload' = [payload EXCEPT ![v] = NoFile]
      /\ remote[u] \in {NoRef, r} /\ remote' = [remote EXCEPT ![u] = r]
      /\ holds' = [holds EXCEPT ![v] = holds[v] \cup {u}]
      /\ pushed' = [pushed EXCEPT ![v] = pushed[v] \cup {u}]
      /\ UNCHANGED <<file, ref, task, listed, now, doomed, failures>>
  BY <1>1 DEF Push, Accepts, Told, Finish, Goto, Works, others, IInv, Typed
<1>3. /\ pc'[v] = "idle" /\ holds'[v] = holds[v] \cup {u} /\ pushed'[v] = pushed[v] \cup {u}
      /\ remote'[u] = r /\ \A t \in Tasks \ {u} : remote'[t] = remote[t]
  BY <1>2 DEF IInv, Typed
<1>4. pushed[v] \subseteq holds[v] /\ listed[v] = NoneListed /\ By(payload[v], v)
  BY <1>2 DEF IInv, Ready, By
<1>5. Typed'
  BY <1>2 DEF IInv, Typed
<1>6. Aside(v)
  BY <1>2 DEF IInv, Typed, Aside
<1>7. Ready(v)'
  BY <1>2, <1>3, <1>4 DEF Ready
<1>8. ASSUME HasRemote PROVE Fair(v) /\ Open(v) /\ Known(v)'
  <2>1. Known(v) /\ unguarded \subseteq unguarded'
    BY <1>8, Remembered DEF IInv
  <2>2. \A t \in Tasks : remote[t] \in Payloads => remote'[t] = remote[t]
    BY <1>2, <1>3, ClaimsAssumption
  <2>3. ASSUME NEW t \in Tasks \ unguarded', t \in holds'[v] PROVE By(remote'[t], v)
    <3>1. CASE t = u
      BY <1>1, <1>2, <1>3, <1>4, <2>1, <2>3, <3>1 DEF Known
    <3>2. CASE t # u
      BY <1>3, <2>1, <2>3, <3>2 DEF Known
    <3>3. QED
      BY <3>1, <3>2
  <2>4. Known(v)'
    BY <1>3, <2>3 DEF Known, By
  <2>5. Fair(v) /\ Open(v)
    BY <1>2, <2>2 DEF Fair, Open, By
  <2>6. QED
    BY <2>4, <2>5
<1>9. ASSUME HasRemote, NEW s \in Sessions, NEW t \in Tasks, Relies(v, s, t)
      PROVE  Undisturbed(v, s, t) /\ Gentle(v, s, t)
  BY <1>2, <1>3, <1>6, <1>9, AnswerIsGentle
<1>10. QED
  BY <1>2, <1>5, <1>6, <1>7, <1>8, <1>9, SessionKeeps

LEMMA PushRejectedKeeps ==
    ASSUME IInv, Remember, NEW v \in Sessions, PushRejected(v)
    PROVE  IInv'
<1>1. /\ pc[v] = "push" /\ pc' = [pc EXCEPT ![v] = "fetch-winner"]
      /\ UNCHANGED <<file, ref, remote, task, payload, listed, now, doomed, holds, pushed,
                     failures>>
  BY DEF PushRejected, Goto, files, others
<1>2. pc'[v] = "fetch-winner"
  BY <1>1 DEF IInv, Typed
<1>3. Typed' /\ Aside(v)
  BY <1>1 DEF IInv, Typed, Aside
<1>4. Ready(v)'
  BY <1>1, <1>2 DEF IInv, Ready
<1>5. ASSUME HasRemote PROVE Fair(v) /\ Open(v) /\ Known(v)'
  BY <1>1, <1>2, <1>5, Remembered DEF IInv, Fair, Open, Known
<1>6. ASSUME HasRemote, NEW s \in Sessions, NEW t \in Tasks, Relies(v, s, t)
      PROVE  Undisturbed(v, s, t) /\ Gentle(v, s, t)
  BY <1>1, <1>2, <1>3, <1>6, AnswerIsGentle
<1>7. QED
  BY <1>1, <1>2, <1>3, <1>4, <1>5, <1>6, SessionKeeps

\* A claim that is taken for made without an answer has lost the history's protection.
LEMMA UnansweredShows ==
    ASSUME IInv, Remember, NEW v \in Sessions, NEW t \in Tasks,
           t \in holds'[v], t \notin holds[v], pushed' = pushed
    PROVE  Overlapped(t)' /\ t \in unguarded'
<1>1. t \notin pushed[v]
  BY DEF IInv, Ready
<1>2. t \in holds'[v] \ pushed'[v]
  BY <1>1
<1>3. Overlapped(t)'
  BY <1>2 DEF Overlapped
<1>4. QED
  BY <1>3 DEF Remember

LEMMA PushUnansweredKeeps ==
    ASSUME IInv, Remember, NEW v \in Sessions, PushUnanswered(v)
    PROVE  IInv'
<1> DEFINE u == task[v]
<1>1. u \in Tasks /\ RefOf(v) \in Payloads \cup {NoRef}
  BY ClaimsAssumption DEF RefOf, IInv, Typed
<1>2. /\ pc[v] = "push" /\ pc' = [pc EXCEPT ![v] = "idle"]
      /\ payload' = [payload EXCEPT ![v] = NoFile]
      /\ holds' = [holds EXCEPT ![v] = holds[v] \cup {u}]
      /\ failures' \in 0..MaxFailures
      /\ UNCHANGED <<file, ref, task, listed, now, doomed, pushed>>
  BY <1>1, ClaimsAssumption
     DEF PushUnanswered, Told, Finish, Goto, Works, Fails, others, IInv, Typed
<1>3. /\ remote' \in [Tasks -> Payloads \cup {NoRef}]
      /\ \A t \in Tasks : remote[t] \in Payloads => remote'[t] = remote[t]
  <2>1. CASE remote' = remote
    BY <2>1 DEF IInv, Typed
  <2>2. CASE Accepts(v) /\ remote' = [remote EXCEPT ![u] = RefOf(v)]
    BY <1>1, <2>2, ClaimsAssumption DEF Accepts, IInv, Typed
  <2>3. QED
    BY <2>1, <2>2 DEF PushUnanswered
<1>4. /\ pc'[v] = "idle" /\ holds'[v] = holds[v] \cup {u}
      /\ pushed[v] \subseteq holds[v] /\ listed[v] = NoneListed
  BY <1>2 DEF IInv, Typed, Ready
<1>5. Typed'
  BY <1>2, <1>3 DEF IInv, Typed
<1>6. Aside(v)
  BY <1>2 DEF IInv, Typed, Aside
<1>7. Ready(v)'
  BY <1>2, <1>4 DEF Ready
<1>8. ASSUME HasRemote PROVE Fair(v) /\ Open(v) /\ Known(v)'
  <2>1. Known(v) /\ unguarded \subseteq unguarded'
    BY <1>8, Remembered DEF IInv
  <2>2. ASSUME NEW t \in Tasks \ unguarded', t \in holds'[v] PROVE By(remote'[t], v)
    BY <1>2, <1>3, <2>1, <2>2, UnansweredShows DEF Known, By
  <2>3. Known(v)'
    BY <1>4, <2>2 DEF Known, By
  <2>4. Fair(v) /\ Open(v)
    BY <1>2, <1>3 DEF Fair, Open, By
  <2>5. QED
    BY <2>3, <2>4
<1>9. ASSUME HasRemote, NEW s \in Sessions, NEW t \in Tasks, Relies(v, s, t)
      PROVE  Undisturbed(v, s, t) /\ Gentle(v, s, t)
  BY <1>2, <1>4, <1>6, <1>9, AnswerIsGentle
<1>10. QED
  BY <1>2, <1>5, <1>6, <1>7, <1>8, <1>9, SessionKeeps

LEMMA FetchWinnerKeeps ==
    ASSUME IInv, Remember, NEW v \in Sessions, FetchWinner(v)
    PROVE  IInv'
<1> DEFINE u == task[v]
           c == CloneOf[v]
<1>1. u \in Tasks /\ c \in Clones
  BY ClaimsAssumption DEF IInv, Typed
<1>2. /\ pc[v] = "fetch-winner" /\ failures' \in 0..MaxFailures
      /\ UNCHANGED <<file, remote, task, listed, now, doomed, pushed>>
      /\ \/ /\ pc' = [pc EXCEPT ![v] = "idle"]
            /\ payload' = [payload EXCEPT ![v] = NoFile]
            /\ holds' = [holds EXCEPT ![v] = holds[v] \cup {u}]
         \/ pc' = [pc EXCEPT ![v] = "rollback"] /\ UNCHANGED <<payload, holds>>
  BY ClaimsAssumption DEF FetchWinner, Told, Finish, Goto, Works, Fails, others, IInv, Typed
<1>3. /\ \A t \in Tasks \ {u} : ref'[c][t] = ref[c][t]
      /\ \A d \in Clones \ {c} : ref'[d] = ref[d]
      /\ ref' \in [Clones -> [Tasks -> Payloads \cup {NoRef}]]
  <2>1. PICK r \in Payloads \cup {NoRef} : ref' = Placed(ref, v, r) \/ ref' = ref
    BY <1>1 DEF FetchWinner, IInv, Typed
  <2>2. CASE ref' = ref
    BY <2>2 DEF IInv, Typed
  <2>3. CASE ref' = Placed(ref, v, r)
    BY <1>1, <2>1, <2>3 DEF Placed, IInv, Typed
  <2>4. QED
    BY <2>1, <2>2, <2>3
<1>4. /\ pc'[v] \in {"idle", "rollback"} /\ holds[v] \subseteq holds'[v]
      /\ holds'[v] \subseteq holds[v] \cup {u}
      /\ pushed[v] \subseteq holds[v] /\ listed[v] = NoneListed
  <2>1. pushed[v] \subseteq holds[v] /\ listed[v] = NoneListed
    BY <1>2 DEF IInv, Ready
  <2>2. CASE /\ pc' = [pc EXCEPT ![v] = "idle"]
             /\ holds' = [holds EXCEPT ![v] = holds[v] \cup {u}]
    BY <2>1, <2>2 DEF IInv, Typed
  <2>3. CASE pc' = [pc EXCEPT ![v] = "rollback"] /\ UNCHANGED holds
    BY <2>1, <2>3 DEF IInv, Typed
  <2>4. QED
    BY <1>2, <2>2, <2>3
<1>5. Typed'
  <2>1. CASE /\ pc' = [pc EXCEPT ![v] = "idle"]
             /\ payload' = [payload EXCEPT ![v] = NoFile]
             /\ holds' = [holds EXCEPT ![v] = holds[v] \cup {u}]
    BY <1>1, <1>2, <1>3, <2>1 DEF IInv, Typed
  <2>2. CASE pc' = [pc EXCEPT ![v] = "rollback"] /\ UNCHANGED <<payload, holds>>
    BY <1>2, <1>3, <2>2 DEF IInv, Typed
  <2>3. QED
    BY <1>2, <2>1, <2>2
<1>6. Aside(v)
  BY <1>2, <1>3 DEF IInv, Typed, Aside
<1>7. Ready(v)'
  BY <1>2, <1>4 DEF Ready
<1>8. ASSUME HasRemote PROVE Fair(v) /\ Open(v) /\ Known(v)'
  <2>1. Known(v) /\ unguarded \subseteq unguarded'
    BY <1>8, Remembered DEF IInv
  <2>2. ASSUME NEW t \in Tasks \ unguarded', t \in holds'[v] PROVE By(remote'[t], v)
    BY <1>2, <2>1, <2>2, UnansweredShows DEF Known
  <2>3. Known(v)'
    BY <1>4, <2>2 DEF Known, By
  <2>4. Fair(v) /\ Open(v)
    BY <1>2, <1>3 DEF Fair, Open, Busy
  <2>5. QED
    BY <2>3, <2>4
<1>9. ASSUME HasRemote, NEW s \in Sessions, NEW t \in Tasks, Relies(v, s, t)
      PROVE  Undisturbed(v, s, t) /\ Gentle(v, s, t)
  <2>1. Mine(s, t)
    BY <1>2, <1>4, <1>6, <1>9, UnansweredShows DEF Relies, Mine, Aside
  <2>2. Safe(s, t) /\ CloneOf[s] = c
    BY <1>9, <2>1 DEF Relies
  <2>3. Claiming(v, u)
    BY <1>2 DEF Claiming
  <2>4. t # u
    <3>1. CASE s = v
      BY <1>2, <1>9, <2>1, <2>3, <3>1 DEF Relies, Mine, Forfeited
    <3>2. CASE s # v
      BY <2>2, <2>3, <3>2 DEF Safe
    <3>3. QED
      BY <3>1, <3>2
  <2>5. t \in holds'[s] \/ pc'[s] = "push" => t \in holds[s] \/ pc[s] = "push"
    BY <1>4, <1>6, <2>4 DEF Aside
  <2>6. ref'[c][t] = ref[c][t] /\ ~Claiming(v, t)'
    BY <1>2, <1>3, <2>4 DEF Claiming
  <2>7. Gentle(v, s, t)
    BY <1>2, <1>4, <2>2, <2>5, <2>6 DEF Gentle, Safe, NoneListed
  <2>8. QED
    BY <2>2, <2>7, SafeIsUndisturbed
<1>10. QED
  BY <1>2, <1>5, <1>6, <1>7, <1>8, <1>9, SessionKeeps

LEMMA RollbackKeeps ==
    ASSUME IInv, Remember, NEW v \in Sessions, Rollback(v)
    PROVE  IInv'
<1> DEFINE u == task[v]
           c == CloneOf[v]
<1>1. /\ pc[v] = "rollback" /\ pc' = [pc EXCEPT ![v] = "idle"] /\ u \in Tasks /\ c \in Clones
      /\ payload' = [payload EXCEPT ![v] = NoFile]
      /\ file' = Placed(file, v, NoFile)
      /\ UNCHANGED <<ref, remote, task, listed, now, doomed, holds, pushed, failures>>
  BY ClaimsAssumption DEF Rollback, Finish, Goto, others, IInv, Typed
<1>2. /\ file'[c][u] = NoFile
      /\ \A t \in Tasks \ {u} : file'[c][t] = file[c][t]
      /\ \A d \in Clones \ {c} : file'[d] = file[d]
      /\ file' \in [Clones -> [Tasks -> Payloads \cup {NoFile, Corrupt}]]
  BY <1>1 DEF Placed, IInv, Typed
<1>3. pc'[v] = "idle" /\ pushed[v] \subseteq holds[v] /\ listed[v] = NoneListed
  BY <1>1 DEF IInv, Typed, Ready
<1>4. Typed' /\ Aside(v)
  BY <1>1, <1>2 DEF IInv, Typed, Aside
<1>5. Ready(v)'
  BY <1>1, <1>3 DEF Ready
<1>6. ASSUME HasRemote PROVE Fair(v) /\ Open(v) /\ Known(v)'
  BY <1>1, <1>3, <1>6, Remembered DEF IInv, Fair, Open, Known
<1>7. ASSUME HasRemote, NEW s \in Sessions, NEW t \in Tasks, Relies(v, s, t)
      PROVE  Undisturbed(v, s, t) /\ Gentle(v, s, t)
  <2>1. Mine(s, t) /\ Safe(s, t) /\ CloneOf[s] = c
    BY <1>1, <1>3, <1>4, <1>7 DEF Relies, Mine, Aside
  <2>2. t # u
    <3>1. Claiming(v, u)
      BY <1>1 DEF Claiming
    <3>2. CASE s = v
      BY <1>1, <1>7, <2>1, <3>1, <3>2 DEF Relies, Mine, Forfeited
    <3>3. CASE s # v
      BY <2>1, <3>1, <3>3 DEF Safe
    <3>4. QED
      BY <3>2, <3>3
  <2>3. t \in holds'[s] \/ pc'[s] = "push" => t \in holds[s] \/ pc[s] = "push"
    BY <1>1, <1>3, <1>4 DEF Aside
  <2>4. Gentle(v, s, t)
    BY <1>1, <1>2, <1>3, <2>1, <2>2, <2>3 DEF Gentle, Safe, NoneListed, Claiming
  <2>5. QED
    BY <2>1, <2>4, SafeIsUndisturbed
<1>8. \A t \in Tasks : file'[c][t] = Corrupt => file[c][t] = Corrupt
  BY <1>2, ClaimsAssumption
<1>9. QED
  BY <1>1, <1>4, <1>5, <1>6, <1>7, <1>8, SessionKeeps

----------------------------------------------------------------------------
(* release, heartbeat, preflight *)

LEMMA ReleaseKeeps ==
    ASSUME IInv, Remember, NEW v \in Sessions, NEW u \in Tasks, Release(v, u)
    PROVE  IInv'
<1> DEFINE c == CloneOf[v]
<1>1. PICK l \in {"delete-remote", "idle"} :
          /\ pc[v] = "idle" /\ pc' = [pc EXCEPT ![v] = l] /\ (HasRemote => l = "delete-remote")
          /\ c \in Clones /\ u \in holds[v] /\ task' = [task EXCEPT ![v] = u]
          /\ file' = [file EXCEPT ![c] = [file[c] EXCEPT ![u] = NoFile]]
          /\ holds' = [holds EXCEPT ![v] = holds[v] \ {u}]
          /\ pushed' = [pushed EXCEPT ![v] = pushed[v] \ {u}]
          /\ UNCHANGED <<ref, remote, payload, listed, now, doomed, failures>>
  BY ClaimsAssumption DEF Release, Goto, others, IInv, Typed
<1>2. /\ file'[c][u] = NoFile
      /\ \A t \in Tasks \ {u} : file'[c][t] = file[c][t]
      /\ \A d \in Clones \ {c} : file'[d] = file[d]
      /\ file' \in [Clones -> [Tasks -> Payloads \cup {NoFile, Corrupt}]]
  BY <1>1 DEF IInv, Typed
<1>3. /\ pc'[v] = l /\ task'[v] = u
      /\ holds'[v] = holds[v] \ {u} /\ pushed'[v] = pushed[v] \ {u}
  BY <1>1 DEF IInv, Typed
<1>4. pushed[v] \subseteq holds[v] /\ listed[v] = NoneListed
  BY <1>1 DEF IInv, Ready
<1>5. Typed' /\ Aside(v)
  BY <1>1, <1>2 DEF IInv, Typed, Aside
<1>6. Ready(v)'
  BY <1>1, <1>3, <1>4 DEF Ready
<1>7. ASSUME HasRemote PROVE Fair(v) /\ Open(v) /\ Known(v)'
  <2>1. Known(v) /\ unguarded \subseteq unguarded'
    BY <1>7, Remembered DEF IInv
  <2>2. Known(v)'
    BY <1>1, <1>3, <2>1 DEF Known, By
  <2>3. Fair(v) /\ Open(v)
    BY <1>1 DEF Fair, Open
  <2>4. QED
    BY <2>2, <2>3
<1>8. ASSUME HasRemote, NEW s \in Sessions, NEW t \in Tasks, Relies(v, s, t)
      PROVE  Undisturbed(v, s, t) /\ Gentle(v, s, t)
  <2>1. Mine(s, t) /\ Safe(s, t) /\ CloneOf[s] = c
    BY <1>1, <1>3, <1>5, <1>8 DEF Relies, Mine, Aside
  <2>2. t # u
    <3>1. CASE s = v
      BY <1>1, <1>3, <1>8, <3>1 DEF Relies, Mine
    <3>2. CASE s # v /\ t \in holds[s] /\ t = u
      <4>1. Known(s) /\ Known(v) /\ t \in Tasks \ unguarded
        BY <1>8 DEF IInv, Relies
      <4>2. By(remote[t], s) /\ By(remote[t], v)
        BY <1>1, <3>2, <4>1 DEF Known
      <4>3. QED
        BY <3>2, <4>2 DEF By
    <3>3. CASE s # v /\ t \notin holds[s] /\ t = u
      <4>1. Claiming(s, t)'
        BY <1>5, <2>1, <3>3 DEF Mine, Claiming, Aside
      <4>2. Busy(v, t)'
        BY <1>1, <1>3, <1>8, <3>3 DEF Busy
      <4>3. QED
        BY <1>8, <2>1, <3>3, <4>1, <4>2 DEF Relies, Overlapped
    <3>4. QED
      BY <3>1, <3>2, <3>3
  <2>3. t \in holds'[s] \/ pc'[s] = "push" => t \in holds[s] \/ pc[s] = "push"
    BY <1>1, <1>3, <1>5 DEF Aside
  <2>4. Gentle(v, s, t)
    BY <1>1, <1>2, <1>3, <1>4, <2>1, <2>2, <2>3 DEF Gentle, Safe, NoneListed, Claiming
  <2>5. QED
    BY <2>1, <2>4, SafeIsUndisturbed
<1>9. \A t \in Tasks : file'[c][t] = Corrupt => file[c][t] = Corrupt
  BY <1>2, ClaimsAssumption
<1>10. QED
  BY <1>1, <1>5, <1>6, <1>7, <1>8, <1>9, SessionKeeps

LEMMA DeleteRemoteKeeps ==
    ASSUME IInv, Remember, NEW v \in Sessions, DeleteRemote(v)
    PROVE  IInv'
<1> DEFINE u == task[v]
<1>1. /\ pc[v] = "delete-remote" /\ pc' = [pc EXCEPT ![v] = "delete-ref"] /\ u \in Tasks
      /\ failures' \in 0..MaxFailures
      /\ remote' = remote \/ remote' = [remote EXCEPT ![u] = NoRef]
      /\ UNCHANGED <<file, ref, task, payload, listed, now, doomed, holds, pushed>>
  BY ClaimsAssumption DEF DeleteRemote, Goto, Works, Fails, others, IInv, Typed
<1>2. /\ pc'[v] = "delete-ref" /\ remote' \in [Tasks -> Payloads \cup {NoRef}]
      /\ \A t \in Tasks \ {u} : remote'[t] = remote[t]
  BY <1>1 DEF IInv, Typed
<1>3. Typed' /\ Aside(v)
  BY <1>1, <1>2 DEF IInv, Typed, Aside
<1>4. Ready(v)'
  BY <1>1, <1>2 DEF IInv, Ready
<1>5. ASSUME HasRemote PROVE Fair(v) /\ Open(v) /\ Known(v)'
  <2>1. Known(v) /\ unguarded \subseteq unguarded'
    BY <1>5, Remembered DEF IInv
  <2>2. \A t \in Tasks \ unguarded' : t = u => By(remote[t], v) /\ t \notin holds[v]
    BY <1>1, <2>1 DEF Known
  <2>3. Known(v)'
    BY <1>1, <1>2, <2>1, <2>2 DEF Known, By
  <2>4. Fair(v) /\ Open(v)
    BY <1>1, <1>2, <2>2 DEF Fair, Open, By
  <2>5. QED
    BY <2>3, <2>4
<1>6. ASSUME HasRemote, NEW s \in Sessions, NEW t \in Tasks, Relies(v, s, t)
      PROVE  Undisturbed(v, s, t) /\ Gentle(v, s, t)
  <2>1. Mine(s, t)
    BY <1>1, <1>2, <1>3, <1>6 DEF Relies, Mine, Aside
  <2>2. t \in holds'[s] \/ pc'[s] = "push" => t \in holds[s] \/ pc[s] = "push"
    BY <1>1, <1>2, <1>3 DEF Aside
  <2>3. ~Claiming(v, t)'
    BY <1>2 DEF Claiming
  <2>4. QED
    BY <1>1, <1>2, <1>6, <2>1, <2>2, <2>3, QuietIsGentle
<1>7. QED
  BY <1>1, <1>3, <1>4, <1>5, <1>6, SessionKeeps

LEMMA DeleteRefKeeps ==
    ASSUME IInv, Remember, NEW v \in Sessions, DeleteRef(v)
    PROVE  IInv'
<1> DEFINE u == task[v]
           c == CloneOf[v]
<1>1. /\ pc[v] = "delete-ref" /\ pc' = [pc EXCEPT ![v] = "idle"] /\ u \in Tasks /\ c \in Clones
      /\ payload' = [payload EXCEPT ![v] = NoFile]
      /\ ref' = Placed(ref, v, NoRef)
      /\ UNCHANGED <<file, remote, task, listed, now, doomed, holds, pushed, failures>>
  BY ClaimsAssumption DEF DeleteRef, Finish, Goto, others, IInv, Typed
<1>2. /\ ref'[c][u] = NoRef
      /\ \A t \in Tasks \ {u} : ref'[c][t] = ref[c][t]
      /\ \A d \in Clones \ {c} : ref'[d] = ref[d]
      /\ ref' \in [Clones -> [Tasks -> Payloads \cup {NoRef}]]
  BY <1>1 DEF Placed, IInv, Typed
<1>3. pc'[v] = "idle" /\ pushed[v] \subseteq holds[v] /\ listed[v] = NoneListed
  BY <1>1 DEF IInv, Typed, Ready
<1>4. Typed' /\ Aside(v)
  BY <1>1, <1>2 DEF IInv, Typed, Aside
<1>5. Ready(v)'
  BY <1>1, <1>3 DEF Ready
<1>6. ASSUME HasRemote PROVE Fair(v) /\ Open(v) /\ Known(v)'
  <2>1. Known(v) /\ unguarded \subseteq unguarded'
    BY <1>6, Remembered DEF IInv
  <2>2. Known(v)'
    BY <1>1, <1>3, <2>1 DEF Known, By
  <2>3. Fair(v) /\ Open(v)
    BY <1>1, <1>2 DEF Fair, Open, Busy
  <2>4. QED
    BY <2>2, <2>3
<1>7. ASSUME HasRemote, NEW s \in Sessions, NEW t \in Tasks, Relies(v, s, t)
      PROVE  Undisturbed(v, s, t) /\ Gentle(v, s, t)
  <2>1. Mine(s, t) /\ Safe(s, t) /\ CloneOf[s] = c
    BY <1>1, <1>3, <1>4, <1>7 DEF Relies, Mine, Aside
  <2>2. t \in holds'[s] \/ pc'[s] = "push" => t \in holds[s] \/ pc[s] = "push"
    BY <1>1, <1>3, <1>4 DEF Aside
  <2>3. ref'[c][t] # NoRef => ref'[c][t] = ref[c][t]
    BY <1>2
  <2>4. Gentle(v, s, t)
    BY <1>1, <1>3, <2>1, <2>2, <2>3 DEF Gentle, Safe, NoneListed, Claiming
  <2>5. QED
    BY <2>1, <2>4, SafeIsUndisturbed
<1>8. QED
  BY <1>1, <1>4, <1>5, <1>6, <1>7, SessionKeeps

LEMMA HeartbeatKeeps ==
    ASSUME IInv, Remember, NEW v \in Sessions, NEW u \in Tasks, Heartbeat(v, u)
    PROVE  IInv'
<1> DEFINE c == CloneOf[v]
<1>1. PICK f \in Payloads : f = file[c][u]
  BY DEF Heartbeat, IsClaim
<1>2. PICK p \in Payloads : p = [f EXCEPT !.hb = now] /\ p.by = f.by
  <2> DEFINE q == [by |-> f.by, at |-> f.at, hb |-> now]
  <2>1. now \in 0..MaxClock
    BY ClaimsAssumption DEF IInv, Typed
  <2>2. q \in Payloads
    BY <2>1 DEF Payloads
  <2>3. [f EXCEPT !.hb = now] = q
    BY DEF Payloads
  <2>4. QED
    BY <2>2, <2>3
<1>3. /\ pc[v] = "idle" /\ pc' = [pc EXCEPT ![v] = "stamp"]
      /\ task' = [task EXCEPT ![v] = u] /\ payload' = [payload EXCEPT ![v] = p]
      /\ UNCHANGED <<file, ref, remote, listed, now, doomed, holds, pushed, failures>>
  BY <1>1, <1>2 DEF Heartbeat, Goto, files, others
<1>4. pc'[v] = "stamp" /\ task'[v] = u /\ payload'[v] = p
  BY <1>3 DEF IInv, Typed
<1>5. pushed[v] \subseteq holds[v] /\ listed[v] = NoneListed
  BY <1>3 DEF IInv, Ready
<1>6. Typed' /\ Aside(v)
  BY <1>3 DEF IInv, Typed, Aside
<1>7. Ready(v)'
  BY <1>3, <1>4, <1>5 DEF Ready
<1>8. ASSUME HasRemote PROVE Fair(v) /\ Open(v) /\ Known(v)'
  <2>1. Known(v) /\ unguarded \subseteq unguarded'
    BY <1>8, Remembered DEF IInv
  <2>2. Known(v)'
    BY <1>3, <1>4, <2>1 DEF Known, By
  <2>3. Fair(v) /\ Open(v)
    BY <1>3 DEF Fair, Open
  <2>4. QED
    BY <2>2, <2>3
<1>9. ASSUME HasRemote, NEW s \in Sessions, NEW t \in Tasks, Relies(v, s, t)
      PROVE  Undisturbed(v, s, t) /\ Gentle(v, s, t)
  <2>1. Mine(s, t) /\ Safe(s, t) /\ CloneOf[s] = c
    BY <1>3, <1>4, <1>6, <1>9 DEF Relies, Mine, Aside
  <2>2. t = u => By(p, s)
    BY <1>1, <1>2, <2>1, ClaimsAssumption DEF Safe, By
  <2>3. t \in holds'[s] \/ pc'[s] = "push" => t \in holds[s] \/ pc[s] = "push"
    BY <1>3, <1>4, <1>6 DEF Aside
  <2>4. Gentle(v, s, t)
    BY <1>3, <1>4, <1>5, <2>1, <2>2, <2>3 DEF Gentle, Safe, NoneListed, Claiming
  <2>5. QED
    BY <2>1, <2>4, SafeIsUndisturbed
<1>10. QED
  BY <1>3, <1>6, <1>7, <1>8, <1>9, SessionKeeps

\* The session writes what it has read, and is done with its task.
LEMMA StampKeeps ==
    ASSUME IInv, Remember, NEW v \in Sessions, Stamp(v)
    PROVE  IInv'
<1> DEFINE u == task[v]
           c == CloneOf[v]
<1>1. PICK p \in Payloads : p = payload[v]
  BY DEF Stamp, IInv, Ready
<1>2. /\ pc[v] = "stamp" /\ pc' = [pc EXCEPT ![v] = "idle"] /\ u \in Tasks /\ c \in Clones
      /\ payload' = [payload EXCEPT ![v] = NoFile]
      /\ file' = Placed(file, v, p)
      /\ UNCHANGED <<ref, remote, task, listed, now, doomed, holds, pushed, failures>>
  BY <1>1, ClaimsAssumption DEF Stamp, Finish, Goto, others, IInv, Typed
<1>3. /\ file'[c][u] = p
      /\ \A t \in Tasks \ {u} : file'[c][t] = file[c][t]
      /\ \A d \in Clones \ {c} : file'[d] = file[d]
      /\ file' \in [Clones -> [Tasks -> Payloads \cup {NoFile, Corrupt}]]
  BY <1>2 DEF Placed, IInv, Typed
<1>4. pc'[v] = "idle" /\ pushed[v] \subseteq holds[v] /\ listed[v] = NoneListed
  BY <1>2 DEF IInv, Typed, Ready
<1>5. Typed' /\ Aside(v)
  BY <1>2, <1>3 DEF IInv, Typed, Aside
<1>6. Ready(v)'
  BY <1>2, <1>4 DEF Ready
<1>7. ASSUME HasRemote PROVE Fair(v) /\ Open(v) /\ Known(v)'
  BY <1>2, <1>4, <1>7, Remembered DEF IInv, Fair, Open, Known
<1>8. ASSUME HasRemote, NEW s \in Sessions, NEW t \in Tasks, Relies(v, s, t)
      PROVE  Undisturbed(v, s, t) /\ Gentle(v, s, t)
  <2>1. Mine(s, t) /\ Safe(s, t) /\ CloneOf[s] = c
    BY <1>2, <1>4, <1>5, <1>8 DEF Relies, Mine, Aside
  <2>2. t = u => By(p, s)
    BY <1>1, <1>2, <2>1 DEF Safe
  <2>3. t \in holds'[s] \/ pc'[s] = "push" => t \in holds[s] \/ pc[s] = "push"
    BY <1>2, <1>4, <1>5 DEF Aside
  <2>4. Gentle(v, s, t)
    BY <1>2, <1>3, <1>4, <2>1, <2>2, <2>3 DEF Gentle, Safe, NoneListed, Claiming
  <2>5. QED
    BY <2>1, <2>4, SafeIsUndisturbed
<1>9. \A t \in Tasks : file'[c][t] = Corrupt => file[c][t] = Corrupt
  BY <1>3, ClaimsAssumption
<1>10. QED
  BY <1>2, <1>5, <1>6, <1>7, <1>8, <1>9, SessionKeeps

LEMMA FetchKeeps ==
    ASSUME IInv, Remember, NEW v \in Sessions, Fetch(v)
    PROVE  IInv'
<1> DEFINE c == CloneOf[v]
<1>1. PICK r \in [Tasks -> Payloads \cup {NoRef}] :
          /\ r = Fetched(v)
          /\ \A t \in Tasks : r[t] = IF remote[t] = NoRef THEN ref[c][t] ELSE remote[t]
  <2>1. c \in Clones
    BY ClaimsAssumption
  <2>2. Fetched(v) \in [Tasks -> Payloads \cup {NoRef}]
    BY <2>1 DEF Fetched, IInv, Typed
  <2>3. QED
    BY <2>2 DEF Fetched
<1>2. /\ pc[v] = "idle" /\ pc' = [pc EXCEPT ![v] = "list"] /\ c \in Clones
      /\ ref' = [ref EXCEPT ![c] = r]
      /\ UNCHANGED <<file, remote, task, payload, listed, now, doomed, holds, pushed,
                     failures>>
  BY <1>1, ClaimsAssumption DEF Fetch, Goto, others
<1>3. /\ ref'[c] = r /\ \A d \in Clones \ {c} : ref'[d] = ref[d]
      /\ ref' \in [Clones -> [Tasks -> Payloads \cup {NoRef}]]
  BY <1>2 DEF IInv, Typed
<1>4. pc'[v] = "list" /\ pushed[v] \subseteq holds[v] /\ listed[v] = NoneListed
  BY <1>2 DEF IInv, Typed, Ready
<1>5. Typed' /\ Aside(v)
  BY <1>2, <1>3 DEF IInv, Typed, Aside
<1>6. Ready(v)'
  BY <1>2, <1>4 DEF Ready
<1>7. ASSUME HasRemote PROVE Fair(v) /\ Open(v) /\ Known(v)'
  <2>1. Known(v) /\ unguarded \subseteq unguarded'
    BY <1>7, Remembered DEF IInv
  <2>2. Known(v)'
    BY <1>2, <1>4, <2>1 DEF Known, By
  <2>3. Open(v)
    BY <1>4 DEF Open, Busy
  <2>4. Fair(v)
    BY <1>2 DEF Fair
  <2>5. QED
    BY <2>2, <2>3, <2>4
<1>8. ASSUME HasRemote, NEW s \in Sessions, NEW t \in Tasks, Relies(v, s, t)
      PROVE  Undisturbed(v, s, t) /\ Gentle(v, s, t)
  <2>1. Mine(s, t) /\ Safe(s, t) /\ CloneOf[s] = c
    BY <1>2, <1>4, <1>5, <1>8 DEF Relies, Mine, Aside
  <2>2. t \in holds[s]
    <3>1. SUFFICES ASSUME t \notin holds[s] PROVE FALSE
      OBVIOUS
    <3>2. s # v /\ Claiming(s, t)'
      BY <1>2, <1>5, <2>1, <3>1 DEF Mine, Claiming, Aside
    <3>3. Busy(v, t)'
      BY <1>4 DEF Busy
    <3>4. QED
      BY <1>8, <2>1, <3>2, <3>3 DEF Relies, Overlapped
  <2>3. By(remote[t], s)
    BY <1>8, <2>2 DEF IInv, Known, Relies
  <2>4. ref'[c][t] # NoRef => By(ref'[c][t], s)
    BY <1>1, <1>3, <2>1, <2>2, <2>3 DEF Safe
  <2>5. Gentle(v, s, t)
    BY <1>2, <1>4, <2>1, <2>4 DEF Gentle, Safe, NoneListed, Claiming
  <2>6. QED
    BY <2>1, <2>5, SafeIsUndisturbed
<1>9. QED
  BY <1>2, <1>5, <1>6, <1>7, <1>8, SessionKeeps

LEMMA ListKeeps ==
    ASSUME IInv, Remember, NEW v \in Sessions, List(v)
    PROVE  IInv'
<1> DEFINE c == CloneOf[v]
<1>1. PICK r \in [Tasks -> Payloads \cup {NoRef}] : r = ref[c]
  BY ClaimsAssumption DEF IInv, Typed
<1>2. /\ pc[v] = "list" /\ c \in Clones
      /\ listed' = [listed EXCEPT ![v] = r]
      /\ pc' = [pc EXCEPT ![v] = IF r = NoneListed THEN "idle" ELSE "mirror"]
      /\ UNCHANGED <<file, ref, remote, task, payload, now, doomed, holds, pushed, failures>>
  <2>1. listed' = [listed EXCEPT ![v] = r]
    BY <1>1 DEF List
  <2>2. listed'[v] = r
    BY <2>1 DEF IInv, Typed
  <2>3. QED
    BY <2>1, <2>2, ClaimsAssumption DEF List, Goto, files, others
<1>3. /\ listed'[v] = r /\ pc'[v] \in {"idle", "mirror"} /\ pushed[v] \subseteq holds[v]
      /\ pc'[v] = "idle" => r = NoneListed
  BY <1>2 DEF IInv, Typed, Ready
<1>4. Typed' /\ Aside(v)
  BY <1>2 DEF IInv, Typed, Aside
<1>5. Ready(v)'
  BY <1>2, <1>3 DEF Ready
<1>6. ASSUME HasRemote PROVE Fair(v) /\ Open(v) /\ Known(v)'
  BY <1>2, <1>3, <1>6, Remembered DEF IInv, Fair, Open, Known
<1>7. ASSUME HasRemote, NEW s \in Sessions, NEW t \in Tasks, Relies(v, s, t)
      PROVE  Undisturbed(v, s, t) /\ Gentle(v, s, t)
  <2>1. Mine(s, t) /\ Safe(s, t) /\ CloneOf[s] = c
    BY <1>2, <1>3, <1>4, <1>7 DEF Relies, Mine, Aside
  <2>2. t \in holds[s]
    <3>1. SUFFICES ASSUME t \notin holds[s] PROVE FALSE
      OBVIOUS
    <3>2. s # v /\ Claiming(s, t)
      BY <1>2, <2>1, <3>1 DEF Mine, Claiming
    <3>3. Busy(v, t)
      BY <1>2 DEF Busy
    <3>4. QED
      BY <1>7, <2>1, <3>2, <3>3 DEF Relies, Overlapped
  <2>3. r[t] # NoRef => By(r[t], s)
    BY <1>1, <2>1, <2>2 DEF Safe
  <2>4. Gentle(v, s, t)
    BY <1>2, <1>3, <2>1, <2>2, <2>3 DEF Gentle, Safe, Claiming
  <2>5. QED
    BY <2>1, <2>4, SafeIsUndisturbed
<1>8. QED
  BY <1>2, <1>4, <1>5, <1>6, <1>7, SessionKeeps

LEMMA MirrorKeeps ==
    ASSUME IInv, Remember, NEW v \in Sessions, NEW u \in Tasks, Mirror(v, u)
    PROVE  IInv'
<1> DEFINE c == CloneOf[v]
<1>1. PICK r \in [Tasks -> Payloads \cup {NoRef}] : r = [listed[v] EXCEPT ![u] = NoRef]
  BY DEF IInv, Typed
<1>2. PICK p \in Payloads : p = listed[v][u]
  BY DEF Mirror, IInv, Typed
<1>3. /\ pc[v] = "mirror" /\ c \in Clones
      /\ task' = [task EXCEPT ![v] = u] /\ listed' = [listed EXCEPT ![v] = r]
      /\ UNCHANGED <<ref, remote, now, doomed, holds, pushed, failures>>
  BY <1>1, ClaimsAssumption DEF Mirror, others
<1>4. /\ listed'[v] = r /\ task'[v] = u
      /\ \A t \in Tasks : r[t] # NoRef => r[t] = listed[v][t]
  BY <1>1, <1>3 DEF IInv, Typed
<1>5. \/ /\ pc' = [pc EXCEPT ![v] = IF r = NoneListed THEN "idle" ELSE "mirror"]
         /\ UNCHANGED <<file, payload>>
      \/ /\ pc' = [pc EXCEPT ![v] = "fill"] /\ payload' = [payload EXCEPT ![v] = p]
         /\ file' = [file EXCEPT ![c] = [file[c] EXCEPT ![u] = Corrupt]]
  BY <1>2, <1>4 DEF Mirror, Goto
<1>6. /\ pc'[v] \in {"idle", "mirror", "fill"} /\ (pc'[v] = "idle" => r = NoneListed)
      /\ pc'[v] = "fill" => payload'[v] = p
      /\ \A t \in Tasks : \/ file'[c][t] = file[c][t]
                          \/ t = u /\ pc'[v] = "fill" /\ file'[c][t] = Corrupt
      /\ \A d \in Clones \ {c} : file'[d] = file[d]
      /\ \A s \in Sessions \ {v} : pc'[s] = pc[s] /\ payload'[s] = payload[s]
  <2>1. CASE /\ pc' = [pc EXCEPT ![v] = IF r = NoneListed THEN "idle" ELSE "mirror"]
             /\ UNCHANGED <<file, payload>>
    BY <2>1 DEF IInv, Typed
  <2>2. CASE /\ pc' = [pc EXCEPT ![v] = "fill"] /\ payload' = [payload EXCEPT ![v] = p]
             /\ file' = [file EXCEPT ![c] = [file[c] EXCEPT ![u] = Corrupt]]
    BY <1>3, <2>2 DEF IInv, Typed
  <2>3. QED
    BY <1>5, <2>1, <2>2
<1>7. Typed'
  <2>1. CASE /\ pc' = [pc EXCEPT ![v] = IF r = NoneListed THEN "idle" ELSE "mirror"]
             /\ UNCHANGED <<file, payload>>
    BY <1>3, <2>1 DEF IInv, Typed
  <2>2. CASE /\ pc' = [pc EXCEPT ![v] = "fill"] /\ payload' = [payload EXCEPT ![v] = p]
             /\ file' = [file EXCEPT ![c] = [file[c] EXCEPT ![u] = Corrupt]]
    BY <1>3, <2>2 DEF IInv, Typed
  <2>3. QED
    BY <1>5, <2>1, <2>2
<1>8. Aside(v)
  BY <1>3, <1>6 DEF IInv, Typed, Aside
<1>9. Ready(v)'
  BY <1>3, <1>4, <1>6 DEF IInv, Ready
<1>10. ASSUME HasRemote PROVE Fair(v) /\ Open(v) /\ Known(v)'
  <2>1. Known(v) /\ unguarded \subseteq unguarded'
    BY <1>10, Remembered DEF IInv
  <2>2. Known(v)'
    BY <1>3, <1>6, <2>1 DEF Known, By
  <2>3. Fair(v) /\ Open(v)
    BY <1>3 DEF Fair, Open
  <2>4. QED
    BY <2>2, <2>3
<1>11. ASSUME HasRemote, NEW s \in Sessions, NEW t \in Tasks, Relies(v, s, t)
       PROVE  Undisturbed(v, s, t) /\ Gentle(v, s, t)
  <2>1. Mine(s, t) /\ Safe(s, t) /\ CloneOf[s] = c
    BY <1>3, <1>6, <1>8, <1>11 DEF Relies, Mine, Aside
  <2>2. /\ r[t] # NoRef => By(r[t], s)
        /\ t = u => By(p, s)
    BY <1>2, <1>4, <2>1, ClaimsAssumption DEF Safe
  <2>3. t \in holds'[s] \/ pc'[s] = "push" => t \in holds[s] \/ pc[s] = "push"
    BY <1>3, <1>6, <1>8 DEF Aside
  <2>4. file'[c][t] = Corrupt \/ By(file'[c][t], s)
    BY <1>6, <2>1 DEF Safe
  <2>5. Gentle(v, s, t)
    BY <1>3, <1>4, <1>6, <2>1, <2>2, <2>3, <2>4 DEF Gentle, Safe, Claiming
  <2>6. QED
    BY <2>1, <2>5, SafeIsUndisturbed
<1>12. QED
  BY <1>3, <1>4, <1>6, <1>7, <1>8, <1>9, <1>10, <1>11, SessionKeeps

LEMMA FillKeeps ==
    ASSUME IInv, Remember, NEW v \in Sessions, Fill(v)
    PROVE  IInv'
<1> DEFINE u == task[v]
           c == CloneOf[v]
<1>1. PICK p \in Payloads : p = payload[v]
  BY DEF Fill, IInv, Ready
<1>2. /\ pc[v] = "fill" /\ u \in Tasks /\ c \in Clones
      /\ pc' = [pc EXCEPT ![v] = IF listed[v] = NoneListed THEN "idle" ELSE "mirror"]
      /\ payload' = [payload EXCEPT ![v] = NoFile]
      /\ file' = Placed(file, v, p)
      /\ UNCHANGED <<ref, remote, task, listed, now, doomed, holds, pushed, failures>>
  BY <1>1, ClaimsAssumption DEF Fill, Goto, others, IInv, Typed
<1>3. /\ file'[c][u] = p
      /\ \A t \in Tasks \ {u} : file'[c][t] = file[c][t]
      /\ \A d \in Clones \ {c} : file'[d] = file[d]
      /\ file' \in [Clones -> [Tasks -> Payloads \cup {NoFile, Corrupt}]]
  BY <1>2 DEF Placed, IInv, Typed
<1>4. /\ pc'[v] \in {"idle", "mirror"} /\ pushed[v] \subseteq holds[v]
      /\ pc'[v] = "idle" => listed[v] = NoneListed
  BY <1>2 DEF IInv, Typed, Ready
<1>5. Typed' /\ Aside(v)
  BY <1>2, <1>3 DEF IInv, Typed, Aside
<1>6. Ready(v)'
  BY <1>2, <1>4 DEF Ready
<1>7. ASSUME HasRemote PROVE Fair(v) /\ Open(v) /\ Known(v)'
  BY <1>2, <1>4, <1>7, Remembered DEF IInv, Fair, Open, Known
<1>8. ASSUME HasRemote, NEW s \in Sessions, NEW t \in Tasks, Relies(v, s, t)
      PROVE  Undisturbed(v, s, t) /\ Gentle(v, s, t)
  <2>1. Mine(s, t) /\ Safe(s, t) /\ CloneOf[s] = c
    BY <1>2, <1>4, <1>5, <1>8 DEF Relies, Mine, Aside
  <2>2. t = u => By(p, s)
    BY <1>1, <1>2, <2>1 DEF Safe
  <2>3. t \in holds'[s] \/ pc'[s] = "push" => t \in holds[s] \/ pc[s] = "push"
    BY <1>2, <1>4, <1>5 DEF Aside
  <2>4. Gentle(v, s, t)
    BY <1>2, <1>3, <1>4, <2>1, <2>2, <2>3 DEF Gentle, Safe, Claiming
  <2>5. QED
    BY <2>1, <2>4, SafeIsUndisturbed
<1>9. \A t \in Tasks : file'[c][t] = Corrupt => file[c][t] = Corrupt /\ task[v] # t
  BY <1>3, ClaimsAssumption
<1>10. QED
  BY <1>2, <1>5, <1>6, <1>7, <1>8, <1>9, SessionKeeps

LEMMA CrashKeeps ==
    ASSUME IInv, Remember, NEW v \in Sessions, Crash(v)
    PROVE  IInv'
<1>1. /\ pc[v] # "dead" /\ pc' = [pc EXCEPT ![v] = "dead"]
      /\ payload' = [payload EXCEPT ![v] = NoFile]
      /\ listed' = [listed EXCEPT ![v] = NoneListed]
      /\ UNCHANGED <<file, ref, remote, task, now, doomed, holds, pushed, failures>>
  BY DEF Crash, Goto, files, others
<1>2. pc'[v] = "dead" /\ listed'[v] = NoneListed /\ pushed[v] \subseteq holds[v]
  BY <1>1 DEF IInv, Typed, Ready
<1>3. NoneListed \in [Tasks -> Payloads \cup {NoRef}]
  BY DEF NoneListed
<1>4. Typed' /\ Aside(v)
  BY <1>1, <1>3 DEF IInv, Typed, Aside
<1>5. Ready(v)'
  BY <1>1, <1>2 DEF Ready
<1>6. ASSUME HasRemote PROVE Fair(v) /\ Open(v) /\ Known(v)'
  BY <1>1, <1>2, <1>6, Remembered DEF IInv, Fair, Open, Known
<1>7. ASSUME HasRemote, NEW s \in Sessions, NEW t \in Tasks, Relies(v, s, t)
      PROVE  Undisturbed(v, s, t) /\ Gentle(v, s, t)
  <2>1. s # v /\ Mine(s, t) /\ Safe(s, t)
    BY <1>1, <1>2, <1>4, <1>7 DEF Relies, Mine, Aside
  <2>2. t \in holds'[s] \/ pc'[s] = "push" => t \in holds[s] \/ pc[s] = "push"
    BY <1>4, <2>1 DEF Aside
  <2>3. Gentle(v, s, t)
    BY <1>1, <1>2, <2>1, <2>2 DEF Gentle, Safe, NoneListed, Claiming
  <2>4. QED
    BY <2>1, <2>3, SafeIsUndisturbed
<1>8. QED
  BY <1>1, <1>2, <1>4, <1>5, <1>6, <1>7, SessionKeeps

----------------------------------------------------------------------------
(* reap, removal of a torn file, and the clock *)

\* A step of no session, which only takes files away: from what an owner relies on, none.
LEMMA HouseKeeps ==
    ASSUME IInv, Remember, Typed',
           UNCHANGED <<ref, remote, pc, task, payload, listed, holds, pushed, failures>>,
           \A c \in Clones, t \in Tasks : file'[c][t] = Corrupt => file[c][t] = Corrupt,
           HasRemote => \A s \in Sessions, t \in Tasks :
               Safe(s, t) /\ ~Forfeited(s, t) =>
                   /\ file'[CloneOf[s]][t] = file[CloneOf[s]][t]
                   /\ t \notin doomed'[CloneOf[s]]
    PROVE  IInv'
<1>1. Seen /\ Seen' /\ unguarded \subseteq unguarded' /\ forfeit \subseteq forfeit'
  BY Remembered DEF IInv
<1>2. Unreadable'
  BY DEF IInv, Unreadable
<1>3. \A s \in Sessions : Ready(s)'
  BY DEF IInv, Ready
<1>4. ASSUME HasRemote, NEW s \in Sessions PROVE Known(s)'
  <2>1. Known(s)
    BY <1>4 DEF IInv
  <2>2. QED
    BY <1>1, <2>1 DEF Known, By, RefOf
<1>5. ASSUME HasRemote, NEW s \in Sessions PROVE Kept(s)'
  <2> SUFFICES ASSUME NEW t \in Tasks \ unguarded', Mine(s, t)', <<s, t>> \notin forfeit',
                      pc'[s] # "dead"
               PROVE  Safe(s, t)'
    BY DEF Kept
  <2>1. t \in Tasks \ unguarded /\ <<s, t>> \notin forfeit /\ ~Forfeited(s, t)
    BY <1>1 DEF Seen
  <2>2. Mine(s, t) /\ pc[s] # "dead"
    BY DEF Mine
  <2>3. Safe(s, t)
    BY <1>5, <2>1, <2>2 DEF IInv, Kept
  <2>4. file'[CloneOf[s]][t] = file[CloneOf[s]][t] /\ t \notin doomed'[CloneOf[s]]
    BY <1>5, <2>1, <2>3
  <2>5. QED
    BY <2>3, <2>4 DEF Safe, By, Claiming
<1>6. QED
  BY <1>1, <1>2, <1>3, <1>4, <1>5 DEF IInv

LEMMA ReapKeeps ==
    ASSUME IInv, Remember, NEW c \in Clones, Reap(c)
    PROVE  IInv'
<1>1. UNCHANGED <<file, ref, remote, now, pc, task, payload, listed, holds, pushed, failures>>
  BY DEF Reap, files
<1>2. PICK D \in SUBSET Tasks : /\ D = {t \in Tasks : Stale(file[c][t], now)}
                                /\ doomed' = [doomed EXCEPT ![c] = D]
  BY DEF Reap
<1>3. Typed'
  BY <1>1, <1>2 DEF IInv, Typed
<1>4. ASSUME NEW s \in Sessions, NEW t \in Tasks, Safe(s, t), ~Forfeited(s, t)
      PROVE  t \notin doomed'[CloneOf[s]]
  <2>1. CASE CloneOf[s] = c
    <3>1. doomed'[c] = D
      BY <1>2 DEF IInv, Typed
    <3>2. ASSUME Stale(file[c][t], now) PROVE FALSE
      <4> DEFINE f == file[c][t]
      <4>1. f \in Payloads /\ f.hb \in Nat /\ now \in Nat /\ StaleAfter \in Nat
        BY <3>2, ClaimsAssumption DEF Stale, IsClaim, Payloads, IInv, Typed
      <4>2. f # Corrupt
        BY <4>1, ClaimsAssumption
      <4>3. f.by = s
        BY <1>4, <2>1, <4>2 DEF Safe, By
      <4>4. f.hb # 0 /\ now - f.hb > StaleAfter
        BY <3>2 DEF Stale
      <4>5. now > f.hb + StaleAfter
        BY <4>1, <4>4
      <4>6. QED
        BY <1>4, <2>1, <4>1, <4>3, <4>4, <4>5 DEF Forfeited, IsClaim
    <3>3. QED
      BY <1>2, <2>1, <3>1, <3>2
  <2>2. CASE CloneOf[s] # c
    BY <1>2, <1>4, <2>2, ClaimsAssumption DEF Safe, IInv, Typed
  <2>3. QED
    BY <2>1, <2>2
<1>5. QED
  BY <1>1, <1>3, <1>4, HouseKeeps

LEMMA ReapOneKeeps ==
    ASSUME IInv, Remember, NEW c \in Clones, NEW u \in Tasks, ReapOne(c, u)
    PROVE  IInv'
<1>1. /\ UNCHANGED <<ref, remote, now, pc, task, payload, listed, holds, pushed, failures>>
      /\ u \in doomed[c]
      /\ file' = [file EXCEPT ![c] = [file[c] EXCEPT ![u] = NoFile]]
      /\ doomed' = [doomed EXCEPT ![c] = doomed[c] \ {u}]
  BY DEF ReapOne
<1>2. /\ \A d \in Clones, t \in Tasks : IF d = c /\ t = u THEN file'[d][t] = NoFile
                                                          ELSE file'[d][t] = file[d][t]
      /\ \A d \in Clones : doomed'[d] \subseteq doomed[d]
  BY <1>1 DEF IInv, Typed
<1>3. Typed'
  BY <1>1 DEF IInv, Typed
<1>4. ASSUME NEW s \in Sessions, NEW t \in Tasks, Safe(s, t)
      PROVE  /\ file'[CloneOf[s]][t] = file[CloneOf[s]][t]
             /\ t \notin doomed'[CloneOf[s]]
  <2>1. t \notin doomed[CloneOf[s]] /\ CloneOf[s] \in Clones
    BY <1>4, ClaimsAssumption DEF Safe
  <2>2. ~(CloneOf[s] = c /\ t = u)
    BY <1>1, <2>1
  <2>3. QED
    BY <1>2, <2>1, <2>2
<1>5. \A d \in Clones, t \in Tasks : file'[d][t] = Corrupt => file[d][t] = Corrupt
  BY <1>2, ClaimsAssumption
<1>6. QED
  BY <1>1, <1>3, <1>4, <1>5, HouseKeeps

LEMMA RemoveKeeps ==
    ASSUME IInv, Remember, NEW c \in Clones, NEW u \in Tasks, Remove(c, u)
    PROVE  IInv'
<1>1. /\ UNCHANGED <<ref, remote, now, pc, task, payload, listed, doomed, holds, pushed,
                     failures>>
      /\ Torn(c, u)
      /\ file' = [file EXCEPT ![c] = [file[c] EXCEPT ![u] = NoFile]]
  BY DEF Remove, others
<1>2. \A d \in Clones, t \in Tasks : IF d = c /\ t = u THEN file'[d][t] = NoFile
                                                       ELSE file'[d][t] = file[d][t]
  BY <1>1 DEF IInv, Typed
<1>3. Typed'
  BY <1>1 DEF IInv, Typed
<1>4. ASSUME NEW s \in Sessions, NEW t \in Tasks, Safe(s, t), ~Forfeited(s, t)
      PROVE  /\ file'[CloneOf[s]][t] = file[CloneOf[s]][t]
             /\ t \notin doomed'[CloneOf[s]]
  <2>1. t \notin doomed[CloneOf[s]] /\ CloneOf[s] \in Clones
    BY <1>4, ClaimsAssumption DEF Safe
  <2>2. ~(CloneOf[s] = c /\ t = u)
    BY <1>1, <1>4 DEF Forfeited
  <2>3. QED
    BY <1>1, <1>2, <2>1, <2>2
<1>5. \A d \in Clones, t \in Tasks : file'[d][t] = Corrupt => file[d][t] = Corrupt
  BY <1>2, ClaimsAssumption
<1>6. QED
  BY <1>1, <1>3, <1>4, <1>5, HouseKeeps

LEMMA TickKeeps ==
    ASSUME IInv, Remember, Tick
    PROVE  IInv'
<1>1. /\ now < MaxClock /\ now' = now + 1
      /\ UNCHANGED <<file, ref, remote, pc, task, payload, listed, doomed, holds, pushed,
                     failures>>
  BY DEF Tick, files
<1>2. now' \in 1..MaxClock
  BY <1>1, ClaimsAssumption DEF IInv, Typed
<1>3. Typed'
  BY <1>1, <1>2 DEF IInv, Typed
<1>4. \A s \in Sessions, t \in Tasks : Safe(s, t) => t \notin doomed[CloneOf[s]]
  BY DEF Safe
<1>5. QED
  BY <1>1, <1>3, <1>4, HouseKeeps

----------------------------------------------------------------------------
LEMMA InvInit == Init => IInv
<1> SUFFICES ASSUME Init PROVE IInv
  OBVIOUS
<1>1. /\ \A c \in Clones, t \in Tasks : file[c][t] = NoFile
      /\ \A s \in Sessions : /\ pc[s] = "idle" /\ listed[s] = NoneListed
                             /\ holds[s] = {} /\ pushed[s] = {}
      /\ unguarded = {} /\ forfeit = {}
  BY DEF Init
<1>2. Typed
  <2>1. (CHOOSE t \in Tasks : TRUE) \in Tasks
    BY ClaimsAssumption
  <2>2. NoneListed \in [Tasks -> Payloads \cup {NoRef}]
    BY DEF NoneListed
  <2>3. QED
    BY <2>1, <2>2, ClaimsAssumption DEF Init, Typed
<1>3. Seen
  <2>1. \A t \in Tasks : ~Overlapped(t)
    BY <1>1 DEF Overlapped, Claiming
  <2>2. \A s \in Sessions, t \in Tasks : ~Forfeited(s, t)
    BY <1>1, ClaimsAssumption DEF Forfeited, Torn, IsClaim, Claiming
  <2>3. QED
    BY <1>1, <2>1, <2>2 DEF Seen
<1>4. Unreadable
  BY <1>1, ClaimsAssumption DEF Unreadable
<1>5. \A s \in Sessions : Ready(s) /\ Known(s) /\ Kept(s)
  BY <1>1 DEF Ready, Known, Kept, Mine
<1>6. QED
  BY <1>2, <1>3, <1>4, <1>5 DEF IInv

LEMMA InvStep == IInv /\ [Next]_vars => IInv'
<1> SUFFICES ASSUME IInv, [Next]_vars PROVE IInv'
  OBVIOUS
<1>1. ASSUME Remember, NEW s \in Sessions, Command(s) PROVE IInv'
  BY <1>1, ClaimKeeps, ReleaseKeeps, HeartbeatKeeps, FetchKeeps DEF Command
<1>2. ASSUME Remember, NEW s \in Sessions, Step(s) PROVE IInv'
  BY <1>2, PreflightKeeps, WriteClaimKeeps, UpdateRefKeeps, PushKeeps, PushRejectedKeeps,
     PushUnansweredKeeps, FetchWinnerKeeps, RollbackKeeps, DeleteRemoteKeeps, DeleteRefKeeps,
     StampKeeps, ListKeeps, MirrorKeeps, FillKeeps
     DEF Step
<1>3. ASSUME Remember, NEW c \in Clones,
             Reap(c) \/ \E t \in Tasks : ReapOne(c, t) \/ Remove(c, t)
      PROVE  IInv'
  BY <1>3, ReapKeeps, ReapOneKeeps, RemoveKeeps
<1>4. CASE UNCHANGED vars
  <2>1. UNCHANGED <<file, ref, remote, now, pc, task, payload, listed, doomed,
                    holds, pushed, failures, unguarded, forfeit>>
    BY <1>4 DEF vars
  <2>2. Typed' /\ Unreadable' /\ \A s \in Sessions : Ready(s)'
    BY <2>1 DEF IInv, Typed, Unreadable, Ready
  <2>3. Seen'
    BY <2>1 DEF IInv, Seen, Overlapped, Claiming, Busy, Forfeited, Torn, Filled
  <2>4. ASSUME HasRemote, NEW s \in Sessions PROVE Known(s)' /\ Kept(s)'
    <3>1. Known(s) /\ Kept(s)
      BY <2>4 DEF IInv
    <3>2. QED
      BY <2>1, <3>1 DEF Known, Kept, Mine, Safe, By, RefOf, Claiming
  <2>5. QED
    BY <2>2, <2>3, <2>4 DEF IInv
<1>5. QED
  BY <1>1, <1>2, <1>3, <1>4, CrashKeeps, TickKeeps DEF Next, Act

LEMMA IInvAlways == Spec => []IInv
BY InvInit, InvStep, PTL DEF Spec

\* openup-claims.py, _push_claim_ref: however many sessions there are in however many
\* clones, and whatever fails on the network or is killed, no two of them own a task
\* whose claims were alone in their clone and had their push answered.
THEOREM OneOwner == Spec => []OneOwnerAcrossClones
<1>1. IInv => OneOwnerAcrossClones
  <2> SUFFICES ASSUME IInv PROVE OneOwnerAcrossClones
    OBVIOUS
  <2>1. TypeOK
    <3>1. \A c \in Clones, t \in Tasks : file[c][t] = Corrupt =>
              \E s \in Sessions : CloneOf[s] = c /\ pc[s] \in {"fill", "dead"}
      BY DEF IInv, Unreadable
    <3>2. \A s \in Sessions : pushed[s] \subseteq holds[s]
      BY DEF IInv, Ready
    <3>3. unguarded \subseteq Tasks /\ forfeit \subseteq Sessions \X Tasks
      BY DEF IInv, Seen
    <3>4. QED
      BY <3>1, <3>2, <3>3 DEF IInv, Typed, TypeOK
  <2>2. ASSUME HasRemote, NEW s \in Sessions, NEW v \in Sessions, s # v,
               NEW t \in holds[s] \cap holds[v], t \notin unguarded
        PROVE  FALSE
    <3>1. t \in Tasks \ unguarded
      BY <2>2 DEF IInv, Typed
    <3>2. By(remote[t], s) /\ By(remote[t], v)
      BY <2>2, <3>1 DEF IInv, Known
    <3>3. QED
      BY <2>2, <3>2 DEF By
  <2>3. QED
    BY <2>1, <2>2 DEF OneOwnerAcrossClones
<1>2. QED
  BY <1>1, IInvAlways, PTL

\* openup-claims.py, cmd_reap, the mirror and the unlink of a refused claim: of such a
\* task no command of any session takes the owner's file away or writes another's claim
\* over it, as long as the owner stamps it in time and does not claim it again, and no
\* mirror is killed in the middle of the file.
THEOREM OwnersKeepTheirClaims == Spec => []OwnerKeepsItsClaim
<1>1. IInv => OwnerKeepsItsClaim
  <2> SUFFICES ASSUME IInv, NEW s \in Sessions, NEW t \in holds[s] \ unguarded,
                      HasRemote, pc[s] # "dead", <<s, t>> \notin forfeit
               PROVE  \/ Filled(CloneOf[s], t)
                      \/ IsClaim(file[CloneOf[s]][t]) /\ file[CloneOf[s]][t].by = s
    BY DEF OwnerKeepsItsClaim
  <2>1. t \in Tasks \ unguarded /\ ~Forfeited(s, t)
    BY DEF IInv, Typed, Seen
  <2>2. file[CloneOf[s]][t] = Corrupt \/ By(file[CloneOf[s]][t], s)
    BY <2>1 DEF IInv, Kept, Mine, Safe
  <2>3. QED
    BY <2>1, <2>2 DEF Forfeited, Torn, By, IsClaim
<1>2. QED
  BY <1>1, IInvAlways, PTL

----------------------------------------------------------------------------
(***************************************************************************)
(* The work products.                                                      *)
(*                                                                         *)
(* The gate looks at the whole tree after a commit, so its verdict is the  *)
(* invariant; what the theorem adds is what that verdict means.            *)
(***************************************************************************)
Checked == docs \in [Files -> Docs \cup {Absent}] /\ Passes(docs)

\* How far a type is from what traces from nothing.
Depth(type) ==
    CASE type = "vision" -> 0
      [] type \in {"requirement", "decision"} -> 1
      [] type \in {"use-case", "work-item"} -> 2
      [] OTHER -> 3

\* The empty tree passes.
LEMMA NothingWritten == TraceInit => Checked
<1>1. SUFFICES ASSUME TraceInit PROVE Checked
  OBVIOUS
<1>2. docs \in [Files -> Docs \cup {Absent}]
  BY <1>1 DEF TraceInit
<1>3. Instances(docs) = {}
  BY <1>1 DEF TraceInit, Instances
<1>4. \A n \in Names : Cardinality(IdIndex(docs, n)) = 0
  BY <1>3, FS_EmptySet DEF IdIndex
<1>5. Passes(docs)
  BY <1>3, <1>4
     DEF Passes, DuplicateIds, DanglingRefs, BadRefTypes, BrokenLinks, CoverageGaps
<1>6. QED
  BY <1>2, <1>5 DEF Checked

\* A commit leaves a tree that passes.
LEMMA CommitStep == Checked /\ [TraceNext]_docs => Checked'
<1>1. SUFFICES ASSUME Checked, [TraceNext]_docs PROVE Checked'
  OBVIOUS
<1>2. CASE TraceNext
  <2>1. PICK f \in Files, d \in Docs \cup {Absent} : Write(f, d)
    BY <1>2 DEF TraceNext, Delete
  <2>2. docs' = [docs EXCEPT ![f] = d] /\ Passes(docs')
    BY <2>1 DEF Write
  <2>3. docs' \in [Files -> Docs \cup {Absent}]
    BY <1>1, <2>2 DEF Checked
  <2>4. QED
    BY <2>2, <2>3 DEF Checked, Passes, DuplicateIds, DanglingRefs, BadRefTypes, BrokenLinks,
       CoverageGaps, IdIndex, Instances
<1>3. CASE UNCHANGED docs
  BY <1>1, <1>3 DEF Checked, Passes, DuplicateIds, DanglingRefs, BadRefTypes, BrokenLinks,
     CoverageGaps, IdIndex, Instances
<1>4. QED
  BY <1>1, <1>2, <1>3

LEMMA CheckedAlways == TraceSpec => []Checked
BY NothingWritten, CommitStep, PTL DEF TraceSpec

\* A document in an instance's file is a work product.
LEMMA InstanceTypes ==
    ASSUME Checked, NEW f \in Instances(docs)
    PROVE  /\ f \in Files /\ docs[f] \in Docs
           /\ docs[f].type \in Types /\ docs[f].status \in Statuses
           /\ docs[f].traces_from \subseteq Names /\ docs[f].verified_by \subseteq Names
<1>1. f \in Files /\ docs[f] \in Docs
  BY DEF Checked, Instances
<1>2. docs[f].type \in Kinds /\ docs[f].status \in Stages
      /\ docs[f].traces_from \in SUBSET Names /\ docs[f].verified_by \in SUBSET Names
  BY <1>1 DEF Docs
<1>3. QED
  BY <1>1, <1>2, TraceabilityAssumption

\* A name that is traced from or verified by is the id of exactly one instance.
LEMMA OneInstance ==
    ASSUME Checked, NEW f \in Instances(docs),
           NEW n \in docs[f].traces_from \cup docs[f].verified_by
    PROVE  \E g \in Instances(docs) : IdIndex(docs, n) = {g}
<1>1. n \in Names
  BY InstanceTypes
<1>2. IdIndex(docs, n) # {}
  BY DEF Checked, Passes, DanglingRefs
<1>3. PICK g \in Instances(docs) : g \in IdIndex(docs, n)
  BY <1>2 DEF IdIndex
<1>4. IsFiniteSet(IdIndex(docs, n)) /\ Cardinality(IdIndex(docs, n)) \in Nat
  <2>1. IdIndex(docs, n) \in SUBSET Files
    BY DEF IdIndex, Instances
  <2>2. QED
    BY <2>1, TraceabilityAssumption, FS_Subset, FS_CardinalityType
<1>5. ~(Cardinality(IdIndex(docs, n)) > 1)
  BY <1>1 DEF Checked, Passes, DuplicateIds
<1>6. ASSUME NEW h \in IdIndex(docs, n), h # g PROVE FALSE
  <2>1. IsFiniteSet({g}) /\ Cardinality({g}) = 1
    BY FS_Singleton
  <2>2. h \notin {g}
    BY <1>6
  <2>3. IsFiniteSet({g} \cup {h}) /\ Cardinality({g} \cup {h}) = 2
    BY <2>1, <2>2, FS_AddElement
  <2>4. {g} \cup {h} \in SUBSET IdIndex(docs, n)
    BY <1>3, <1>6
  <2>5. 2 <= Cardinality(IdIndex(docs, n))
    BY <1>4, <2>3, <2>4, FS_Subset
  <2>6. QED
    BY <1>4, <1>5, <2>5
<1>7. QED
  BY <1>3, <1>6

\* What is upstream is an instance whose type is nearer to the vision.
LEMMA UpstreamIsNearer ==
    ASSUME Checked, NEW f \in Instances(docs), NEW g \in Upstream(f)
    PROVE  g \in Instances(docs) /\ Depth(docs[g].type) < Depth(docs[f].type)
<1>1. PICK n \in docs[f].traces_from : g \in IdIndex(docs, n)
  BY DEF Upstream
<1>2. g \in Instances(docs)
  BY <1>1 DEF IdIndex
<1>3. IsUpstream(docs[f].type, docs[g].type)
  BY <1>1 DEF Checked, Passes, BadRefTypes
<1>4. QED
  BY <1>2, <1>3 DEF IsUpstream, TRACE_SPINE, Depth

\* Of any instances, one traces from none of the others: the nearest to the vision.
LEMMA NoCircle ==
    ASSUME Checked, NEW S \in SUBSET Instances(docs), S # {}
    PROVE  \E f \in S : Upstream(f) \cap S = {}
<1> DEFINE At(k) == \E f \in S : Depth(docs[f].type) = k
<1>1. \A f \in S : Depth(docs[f].type) \in 0..3
  BY DEF Depth
<1>2. PICK k \in 0..3 : At(k) /\ \A j \in 0..3 : j < k => ~At(j)
  <2>1. At(0) \/ At(1) \/ At(2) \/ At(3)
    BY <1>1
  <2> HIDE DEF At
  <2>2. QED
    BY <2>1
<1>3. PICK f \in S : Depth(docs[f].type) = k
  BY <1>2
<1>4. ASSUME NEW g \in Upstream(f), g \in S PROVE FALSE
  <2>1. Depth(docs[g].type) < k
    BY <1>3, <1>4, UpstreamIsNearer
  <2>2. Depth(docs[g].type) \in 0..3
    BY <1>1, <1>4
  <2>3. QED
    BY <1>2, <1>4, <2>1, <2>2
<1>5. QED
  BY <1>3, <1>4

\* Each name that is traced from leads to one instance, and two to two.
LEMMA OneEach ==
    ASSUME Checked, NEW f \in Instances(docs)
    PROVE  Cardinality(Upstream(f)) = Cardinality(docs[f].traces_from)
<1> DEFINE names == docs[f].traces_from
           id == [g \in Upstream(f) |-> docs[g].id]
<1>1. \A n \in names : \E g \in Instances(docs) : IdIndex(docs, n) = {g}
  BY OneInstance
<1>2. \A g \in Upstream(f) : id[g] \in names /\ IdIndex(docs, id[g]) = {g}
  <2>1. SUFFICES ASSUME NEW n \in names, NEW g \in IdIndex(docs, n)
                 PROVE  docs[g].id = n /\ IdIndex(docs, n) = {g}
    BY DEF Upstream, IdIndex
  <2>2. QED
    BY <1>1 DEF IdIndex
<1>3. \A n \in names : \E g \in Upstream(f) : id[g] = n
  <2>1. SUFFICES ASSUME NEW n \in names PROVE \E g \in Upstream(f) : id[g] = n
    OBVIOUS
  <2>2. PICK g \in Instances(docs) : IdIndex(docs, n) = {g}
    BY <1>1
  <2>3. g \in Upstream(f) /\ docs[g].id = n
    BY <2>2 DEF Upstream, IdIndex
  <2>4. QED
    BY <2>3
<1>4. id \in Bijection(Upstream(f), names)
  <2>1. id \in [Upstream(f) -> names]
    BY <1>2
  <2>2. \A g, h \in Upstream(f) : id[g] = id[h] => g = h
    BY <1>2
  <2> HIDE DEF id, names
  <2>3. QED
    BY <1>3, <2>1, <2>2 DEF Bijection, Injection, Surjection, IsInjective
<1>5. ExistsBijection(Upstream(f), names)
  BY <1>4 DEF ExistsBijection
<1>6. IsFiniteSet(Upstream(f))
  <2>1. Upstream(f) \in SUBSET Files
    BY DEF Upstream, IdIndex, Instances
  <2>2. QED
    BY <2>1, TraceabilityAssumption, FS_Subset
<1>7. QED
  BY <1>5, <1>6, FS_Bijection

\* A covered work item or requirement has what the coverage rules ask for.
LEMMA NoGaps ==
    ASSUME Checked, NEW f \in Instances(docs), docs[f].status \notin {"draft", "obsolete"}
    PROVE  /\ docs[f].type = "work-item" =>
                 \E g \in Upstream(f) : docs[g].type = "requirement"
           /\ docs[f].type = "requirement" =>
                 \E g \in Instances(docs) :
                     docs[g].id \in docs[f].verified_by /\ docs[g].type = "test-case"
<1>1. IsCovered(docs[f])
  BY InstanceTypes DEF IsCovered, Statuses, COVERED_STATUSES
<1>2. \A r \in COVERAGE_RULES : r.type = docs[f].type =>
         \E n \in Refs(docs[f], r.relation) : \E g \in IdIndex(docs, n) :
             docs[g].type = r.target
  BY <1>1 DEF Checked, Passes, CoverageGaps
<1>3. ASSUME docs[f].type = "work-item"
      PROVE  \E g \in Upstream(f) : docs[g].type = "requirement"
  <2>1. [type |-> "work-item", relation |-> "traces-from", target |-> "requirement"]
           \in COVERAGE_RULES
    BY DEF COVERAGE_RULES
  <2>2. \E n \in docs[f].traces_from : \E g \in IdIndex(docs, n) :
            docs[g].type = "requirement"
    BY <1>2, <1>3, <2>1 DEF Refs
  <2>3. QED
    BY <2>2 DEF Upstream
<1>4. ASSUME docs[f].type = "requirement"
      PROVE  \E g \in Instances(docs) :
                 docs[g].id \in docs[f].verified_by /\ docs[g].type = "test-case"
  <2>1. [type |-> "requirement", relation |-> "verified-by", target |-> "test-case"]
           \in COVERAGE_RULES
    BY DEF COVERAGE_RULES
  <2>2. \E n \in docs[f].verified_by : \E g \in IdIndex(docs, n) :
            docs[g].type = "test-case"
    BY <1>2, <1>4, <2>1 DEF Refs
  <2>3. QED
    BY <2>2 DEF IdIndex
<1>5. QED
  BY <1>3, <1>4

\* check-docs.py:1-33: whatever is committed, each work product can be followed
\* upstream, by unambiguous references and never in a circle, and what is covered
\* has the requirement or the test case that it needs.
THEOREM EveryProductIsTraced == TraceSpec => []DocsAreTraceable
<1>1. ASSUME Checked PROVE DocsAreTraceable
  <2>1. docs \in [Files -> Docs \cup {Absent}]
    BY <1>1 DEF Checked
  <2>2. \A S \in (SUBSET Instances(docs)) \ {{}} : \E f \in S : Upstream(f) \cap S = {}
    <3> TAKE S \in (SUBSET Instances(docs)) \ {{}}
    <3>1. S \in SUBSET Instances(docs) /\ S # {}
      OBVIOUS
    <3>2. QED
      BY <1>1, <3>1, NoCircle
  <2>3. \A f \in Instances(docs) : Cardinality(Upstream(f)) = Cardinality(docs[f].traces_from)
    BY <1>1, OneEach
  <2>4. \A f \in Instances(docs) : docs[f].status \notin {"draft", "obsolete"} =>
            /\ docs[f].type = "work-item" =>
                  \E g \in Upstream(f) : docs[g].type = "requirement"
            /\ docs[f].type = "requirement" =>
                  \E g \in Instances(docs) :
                      docs[g].id \in docs[f].verified_by /\ docs[g].type = "test-case"
    BY <1>1, NoGaps
  <2>5. QED
    BY <2>1, <2>2, <2>3, <2>4 DEF DocsAreTraceable
<1>2. QED
  BY <1>1, CheckedAlways, PTL
=============================================================================
