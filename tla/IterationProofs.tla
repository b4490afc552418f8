--------------------------- MODULE IterationProofs ---------------------------
(***************************************************************************)
(* Proofs about Iteration, for any tasks, tracks and bounds.               *)
(*                                                                         *)
(* A command computes all it writes when it starts and is interrupted      *)
(* between any two writes, so nothing that relates two files holds of the  *)
(* disk while it runs.  It does hold of the disk the command leads to, its *)
(* goal: the writes that are left turn the disk into the goal, each file   *)
(* being written once (Leads), and the goal is as a disk should be (Good). *)
(* A write keeps the goal; a command that starts sets a new one; a kill    *)
(* makes the disk as it is the goal, and names the files that are not what *)
(* they were to be.                                                        *)
(***************************************************************************)
EXTENDS Iteration, TLAPS

Contents == States \cup {Missing} \cup 0..MaxCount \cup [Tasks -> Cells] \cup Headers

\* The contents the files may have.
DiskType(d) ==
    /\ DOMAIN d = Files
    /\ d["state"] \in States \cup {Missing, Empty}
    /\ d["retro"] \in 0..MaxCount \cup {Missing, Empty}
    /\ d["roadmap"] \in [Tasks -> Cells] \cup {Empty}
    /\ d["page"] \in Headers \cup {Empty}
    /\ \A t \in Tasks : /\ d[t] \in States \cup {Missing, Empty}
                        /\ d[t] \in States => d[t].task = t

\* The writes w turn the disk d into the disk g.
Turns(w, d, g) ==
    /\ w \in Seq([file : Files, content : Contents])
    /\ \A i \in 1..Len(w) : w[i].content # Empty /\ g[w[i].file] = w[i].content
    /\ \A i, j \in 1..Len(w) : w[i].file = w[j].file => i = j
    /\ \A f \in Files : (\A i \in 1..Len(w) : w[i].file # f) => g[f] = d[f]

\* The state is removed last, and what is removed is then in the archive.
Archived(g) ==
    \A i \in 1..Len(todo) : todo[i].content = Missing =>
        /\ todo[i].file = "state" /\ i = Len(todo)
        /\ disk["state"] \in States /\ g[disk["state"].task] = disk["state"]

Leads(g) == Turns(todo, disk, g) /\ Archived(g)

CountIs(n) == IF n \in {Missing, Empty} THEN 0 ELSE n

DueOn(d) ==
    broken \cap {"retro", "state"} = {} /\ d["state"] \in States =>
        ("retro_due" \in d["state"].gates => CountIs(d["retro"]) >= Threshold)

AgreeOn(d) ==
    broken \cap {"roadmap", "page"} = {} /\ d["roadmap"] # Empty /\ d["page"] # Empty
    /\ d["page"].task # Missing
       => d["roadmap"][d["page"].task].status = d["page"].status

\* A row that a sync with status leaves alone, on any day.
Stable(cell, status) ==
    IF status = "completed" THEN cell.status = "completed"
    ELSE cell = [status |-> status, day |-> 0]

SyncedOn(d) ==
    synced =>
        /\ d["state"] \in States
        /\ d["roadmap"] # Empty =>
              Stable(d["roadmap"][d["state"].task], Derived(d["state"]))
        /\ d["page"] # Empty /\ d["page"].updated = day => d["page"] = Header(d["state"])

Dated(d) == d["page"] # Empty => d["page"].updated <= day

Good(d) == DiskType(d) /\ DueOn(d) /\ AgreeOn(d) /\ SyncedOn(d) /\ Dated(d)

Simple ==
    /\ day \in Days /\ begun \in 0..MaxBegun /\ kills \in 0..MaxKills
    /\ broken \subseteq Files /\ synced \in BOOLEAN

IInv == DiskType(disk) /\ Dated(disk) /\ Simple /\ \E g : Leads(g) /\ Good(g)

----------------------------------------------------------------------------
(* What the types say *)

LEMMA FilesAre ==
    /\ "state" \in Files /\ "retro" \in Files /\ "roadmap" \in Files /\ "page" \in Files
    /\ \A t \in Tasks : /\ t \in Files /\ t # "state" /\ t # "retro"
                        /\ t # "roadmap" /\ t # "page"
BY IterationAssumption DEF Files

LEMMA NeitherIs ==
    /\ Missing # Empty /\ Empty \notin States /\ Missing \notin States
    /\ Empty \notin 0..MaxCount /\ Missing \notin 0..MaxCount
    /\ Empty \notin Headers /\ Missing \notin Headers
    /\ Empty \notin [Tasks -> Cells] /\ Missing \notin [Tasks -> Cells]
    /\ Empty \notin Contents
BY IterationAssumption DEF Contents

LEMMA StateFields ==
    ASSUME NEW s \in States
    PROVE  /\ s.task \in Tasks /\ s.track \in Tracks
           /\ s.gates \subseteq SkillGates \cup {"roadmap_synced", "retro_due"}
BY DEF States

LEMMA WithGates ==
    ASSUME NEW s \in States, NEW gates \in SUBSET (SkillGates \cup {"roadmap_synced", "retro_due"})
    PROVE  /\ [s EXCEPT !.gates = gates] \in States
           /\ [s EXCEPT !.gates = gates].gates = gates
           /\ [s EXCEPT !.gates = gates].task = s.task
           /\ [s EXCEPT !.gates = gates].track = s.track
BY DEF States

LEMMA Bounds ==
    /\ MaxBegun \in Nat /\ Threshold \in Nat /\ MaxCount \in Nat /\ MaxKills \in Nat
    /\ MaxDays \in Nat \ {0}
BY IterationAssumption

LEMMA SkillGatesAre == "retro_due" \notin SkillGates
BY IterationAssumption

LEMMA DerivedIs == \A s : Derived(s) \in {"completed", "in-progress"}
BY DEF Derived

----------------------------------------------------------------------------
(* The writes of a command *)

\* What a command writes to one file, if anything.
Part(w, d, f, x) == \/ w = << >> /\ x = d[f]
                    \/ w = Write(f, x) /\ x \in Contents

LEMMA WritesAre ==
    ASSUME NEW w \in Seq([file : Files, content : Contents])
    PROVE  /\ Len(w) \in Nat /\ DOMAIN w = 1..Len(w)
           /\ \A i \in 1..Len(w) : w[i].file \in Files
           /\ w # << >> => 1 \in 1..Len(w) /\ Head(w) = w[1]
<1> DEFINE S == [file : Files, content : Contents]
<1>1. \A r \in S : r.file \in Files
  OBVIOUS
<1>2. w \in Seq(S)
  OBVIOUS
<1> HIDE DEF S
<1>3. \A i \in 1..Len(w) : w[i] \in S
  BY <1>2
<1>4. Len(w) \in Nat /\ DOMAIN w = 1..Len(w)
  BY <1>2
<1>5. w # << >> => 1 \in 1..Len(w) /\ Head(w) = w[1]
  BY <1>2
<1>6. QED
  BY <1>1, <1>3, <1>4, <1>5

LEMMA Joined ==
    ASSUME NEW v \in Seq([file : Files, content : Contents]),
           NEW u \in Seq([file : Files, content : Contents])
    PROVE  /\ Len(v \o u) = Len(v) + Len(u)
           /\ \A i \in 1..Len(v) : (v \o u)[i] = v[i]
           /\ \A i \in 1..Len(v \o u) :
                 i \notin 1..Len(v) => (v \o u)[i] = u[i - Len(v)]
<1> DEFINE S == [file : Files, content : Contents]
<1>1. v \in Seq(S) /\ u \in Seq(S)
  OBVIOUS
<1> HIDE DEF S
<1>2. QED
  BY <1>1

LEMMA PartFields ==
    ASSUME NEW w, NEW d, NEW f \in Files, NEW x, Part(w, d, f, x)
    PROVE  /\ w \in Seq([file : Files, content : Contents])
           /\ \A i \in 1..Len(w) : w[i].file = f /\ w[i].content = x /\ w # << >>
<1>1. CASE w = << >> /\ x = d[f]
  BY <1>1
<1>2. CASE w = Write(f, x) /\ x \in Contents
  <2>1. [file |-> f, content |-> x] \in [file : Files, content : Contents]
    BY <1>2
  <2>2. QED
    BY <1>2, <2>1 DEF Write
<1>3. QED
  BY <1>1, <1>2 DEF Part

LEMMA NoWrite == \A d : Turns(<< >>, d, d)
BY DEF Turns

LEMMA OneWrite ==
    ASSUME NEW d, DOMAIN d = Files, NEW f \in Files, NEW x, NEW w, Part(w, d, f, x)
    PROVE  Turns(w, d, [d EXCEPT ![f] = x])
<1>1. CASE w = << >> /\ x = d[f]
  BY <1>1 DEF Turns
<1>2. CASE w = Write(f, x) /\ x \in Contents
  BY <1>2, NeitherIs DEF Turns, Write
<1>3. QED
  BY <1>1, <1>2 DEF Part

\* One more file, after the others.
LEMMA OneMore ==
    ASSUME NEW d, DOMAIN d = Files, NEW g, DOMAIN g = Files, NEW v, Turns(v, d, g),
           NEW f \in Files, \A i \in 1..Len(v) : v[i].file # f,
           NEW x, NEW w, Part(w, d, f, x)
    PROVE  Turns(v \o w, d, [g EXCEPT ![f] = x])
<1>1. CASE w = << >> /\ x = d[f]
  <2>1. v \o w = v
    BY <1>1 DEF Turns
  <2>2. g[f] = x
    BY <1>1 DEF Turns
  <2>3. QED
    BY <2>1, <2>2 DEF Turns
<1>2. CASE w = Write(f, x) /\ x \in Contents
  <2> DEFINE r == [file |-> f, content |-> x]
  <2>1. v \in Seq([file : Files, content : Contents]) /\ r \in [file : Files, content : Contents]
    BY <1>2 DEF Turns
  <2>2. v \o w = Append(v, r)
    BY <1>2, <2>1 DEF Write
  <2>3. /\ Append(v, r) \in Seq([file : Files, content : Contents])
        /\ Len(Append(v, r)) = Len(v) + 1
        /\ \A i \in 1..Len(v) : Append(v, r)[i] = v[i]
        /\ Append(v, r)[Len(v) + 1] = r
    BY <2>1
  <2>4. r.file = f /\ r.content = x /\ x # Empty
    BY <1>2, NeitherIs
  <2> HIDE DEF r
  <2>5. QED
    BY <2>1, <2>2, <2>3, <2>4 DEF Turns
<1>3. QED
  BY <1>1, <1>2 DEF Part

----------------------------------------------------------------------------
(* Commands *)

\* Between commands the disk is as it should be.
LEMMA IdleGood ==
    ASSUME IInv, todo = << >>
    PROVE  Good(disk)
<1>1. PICK g : Leads(g) /\ Good(g)
  BY DEF IInv
<1>2. \A f \in Files : g[f] = disk[f]
  BY <1>1 DEF Leads, Turns
<1>3. DiskType(disk)
  BY DEF IInv
<1>4. /\ g["state"] = disk["state"] /\ g["retro"] = disk["retro"]
      /\ g["roadmap"] = disk["roadmap"] /\ g["page"] = disk["page"]
  BY <1>2, FilesAre
<1>5. DueOn(disk) /\ Dated(disk)
  BY <1>1, <1>4 DEF Good, DueOn, CountIs, Dated
<1>6. AgreeOn(disk)
  BY <1>1, <1>4 DEF Good, AgreeOn
<1>7. SyncedOn(disk)
  BY <1>1, <1>4 DEF Good, SyncedOn
<1>8. QED
  BY <1>3, <1>5, <1>6, <1>7 DEF Good

\* A command sets the goal g.
LEMMA Started ==
    ASSUME IInv, NEW w, Run(w), Simple', NEW g, Turns(w, disk, g), Good(g)',
           \A i \in 1..Len(w) : w[i].content = Missing =>
               /\ w[i].file = "state" /\ i = Len(w)
               /\ disk["state"] \in States /\ g[disk["state"].task] = disk["state"]
    PROVE  IInv'
<1>1. todo' = w /\ disk' = disk /\ day' = day
  BY DEF Run
<1>2. DiskType(disk)' /\ Dated(disk)'
  BY <1>1 DEF IInv, DiskType, Dated
<1>3. Turns(todo, disk, g)'
  BY <1>1 DEF Turns
<1>4. Archived(g)'
  BY <1>1 DEF Archived
<1>5. QED
  BY <1>2, <1>3, <1>4 DEF IInv, Leads

\* One that writes the state or the counter at most.
LEMMA StateOrCounter ==
    ASSUME IInv, todo = << >>, NEW g, DOMAIN g = Files,
           \A f \in Files \ {"state", "retro"} : g[f] = disk[f],
           g["state"] \in States \cup {Missing, Empty},
           g["retro"] \in 0..MaxCount \cup {Missing, Empty},
           DueOn(g)', synced' = FALSE, day' = day,
           broken' \cap {"roadmap", "page"} = broken \cap {"roadmap", "page"}
    PROVE  Good(g)'
<1>1. Good(disk)
  BY IdleGood
<1>2. /\ g["roadmap"] = disk["roadmap"] /\ g["page"] = disk["page"]
      /\ \A t \in Tasks : g[t] = disk[t]
  BY FilesAre
<1>3. DiskType(g)
  BY <1>1, <1>2 DEF Good, DiskType
<1>4. AgreeOn(g)'
  BY <1>1, <1>2 DEF Good, AgreeOn
<1>5. SyncedOn(g)' /\ Dated(g)'
  BY <1>1, <1>2 DEF Good, SyncedOn, Dated
<1>6. QED
  BY <1>3, <1>4, <1>5 DEF Good, DiskType

LEMMA CounterThenState ==
    ASSUME IInv, NEW n, NEW r, Part(r, disk, "retro", n), NEW x, NEW v, Part(v, disk, "state", x),
           Run(r \o v),
           n \in 0..MaxCount \cup {Missing, Empty}, n # Missing \/ r = << >>,
           x \in States \cup {Missing, Empty}, x # Missing \/ v = << >>,
           broken' \cap {"retro", "state"} = {} /\ x \in States /\ "retro_due" \in x.gates =>
               CountIs(n) >= Threshold,
           Simple', synced' = FALSE,
           broken' \cap {"roadmap", "page"} = broken \cap {"roadmap", "page"}
    PROVE  IInv'
<1>1. todo = << >> /\ day' = day
  BY DEF Run
<1>2. DOMAIN disk = Files
  BY DEF IInv, DiskType
<1>3. PICK h : h = [disk EXCEPT !["retro"] = n]
  OBVIOUS
<1>4. PICK g : g = [h EXCEPT !["state"] = x]
  OBVIOUS
<1>5. DOMAIN h = Files /\ DOMAIN g = Files
  BY <1>2, <1>3, <1>4
<1>6. /\ g["state"] = x /\ g["retro"] = n
      /\ \A f \in Files \ {"state", "retro"} : g[f] = disk[f]
  BY <1>2, <1>3, <1>4, <1>5, FilesAre
<1>7. Turns(r, disk, h)
  BY <1>2, <1>3, FilesAre, OneWrite
<1>8. /\ r \in Seq([file : Files, content : Contents])
      /\ \A i \in 1..Len(r) : r[i].file = "retro" /\ r[i].content = n /\ r # << >>
  BY PartFields, FilesAre
<1>9. /\ v \in Seq([file : Files, content : Contents])
      /\ \A i \in 1..Len(v) : v[i].file = "state" /\ v[i].content = x /\ v # << >>
  BY PartFields, FilesAre
<1>10. Turns(r \o v, disk, g)
  <2>1. \A i \in 1..Len(r) : r[i].file # "state"
    BY <1>8
  <2>2. QED
    BY <1>2, <1>4, <1>5, <1>7, <2>1, FilesAre, OneMore
<1>11. \A i \in 1..Len(r \o v) : (r \o v)[i].content # Missing
  BY <1>8, <1>9
<1>12. Good(g)'
  <2>1. DueOn(g)'
    BY <1>6 DEF DueOn, CountIs
  <2>2. QED
    BY <1>1, <1>5, <1>6, <2>1, StateOrCounter
<1>13. QED
  BY <1>10, <1>11, <1>12, Started

\* What write_state leaves in the state file.
LEMMA WriteStateIs ==
    ASSUME DiskType(disk), NEW gates \in SUBSET (SkillGates \cup {"roadmap_synced", "retro_due"})
    PROVE  \E x \in States \cup {Missing, Empty} :
               /\ Part(WriteState(gates), disk, "state", x)
               /\ x # Missing \/ WriteState(gates) = << >>
               /\ x \in States => disk["state"] \in States /\ x.gates = gates
               /\ disk["state"] \in States =>
                     x \in States /\ x.task = disk["state"].task /\ x.track = disk["state"].track
<1>1. disk["state"] \in States \cup {Missing, Empty}
  BY DEF DiskType
<1>2. CASE disk["state"] \in States
  <2>1. PICK x : x = [disk["state"] EXCEPT !.gates = gates]
    OBVIOUS
  <2>2. /\ x \in States /\ x.gates = gates
        /\ x.task = disk["state"].task /\ x.track = disk["state"].track
    BY <1>2, <2>1, WithGates
  <2>3. WriteState(gates) = Write("state", x)
    BY <1>2, <2>1, NeitherIs DEF WriteState, Readable
  <2>4. x \in Contents /\ x # Missing
    BY <2>2, NeitherIs DEF Contents
  <2>5. QED
    BY <1>2, <2>2, <2>3, <2>4 DEF Part
<1>3. CASE disk["state"] \in {Missing, Empty}
  BY <1>3, NeitherIs DEF WriteState, Readable, Part
<1>4. QED
  BY <1>1, <1>2, <1>3

LEMMA GatesAre ==
    ASSUME DiskType(disk)
    PROVE  /\ Gates \subseteq SkillGates \cup {"roadmap_synced", "retro_due"}
           /\ disk["state"] \in States => Gates = disk["state"].gates
<1>1. disk["state"] \in States \cup {Missing, Empty}
  BY DEF DiskType
<1>2. QED
  BY <1>1, NeitherIs, StateFields DEF Gates, Readable

LEMMA CountAre ==
    ASSUME DiskType(disk)
    PROVE  Count = CountIs(disk["retro"]) /\ Count \in 0..MaxCount
BY Bounds, NeitherIs DEF DiskType, Count, CountIs, Readable

\* A command that writes the state only, and sets no retro_due.
LEMMA StateOnly ==
    ASSUME IInv, NEW x, NEW v, Part(v, disk, "state", x), Run(v),
           x \in States \cup {Missing, Empty}, x # Missing \/ v = << >>,
           x \in States /\ "retro_due" \in x.gates =>
               disk["state"] \in States /\ "retro_due" \in disk["state"].gates,
           Simple', synced' = FALSE, UNCHANGED broken
    PROVE  IInv'
<1>1. PICK n : n = disk["retro"]
  OBVIOUS
<1>2. n \in 0..MaxCount \cup {Missing, Empty} /\ Part(<< >>, disk, "retro", n)
  BY <1>1 DEF IInv, DiskType, Part
<1>3. Run(<< >> \o v)
  <2>1. v \in Seq([file : Files, content : Contents])
    BY PartFields, FilesAre
  <2>2. << >> \o v = v
    BY <2>1
  <2>3. QED
    BY <2>2
<1>4. broken \cap {"retro", "state"} = {} /\ x \in States /\ "retro_due" \in x.gates =>
          CountIs(n) >= Threshold
  <2>1. todo = << >>
    BY DEF Run
  <2>2. DueOn(disk)
    BY <2>1, IdleGood DEF Good
  <2>3. QED
    BY <1>1, <2>2 DEF DueOn
<1>5. QED
  BY <1>2, <1>3, <1>4, CounterThenState

LEMMA BeginKeeps ==
    ASSUME IInv, NEW t \in Tasks, NEW track \in Tracks, NEW force \in BOOLEAN,
           BeginIteration(t, track, force)
    PROVE  IInv'
<1>1. PICK s : s = [task |-> t, track |-> track, gates |-> {}]
  OBVIOUS
<1>2. s \in States /\ s \in Contents /\ s.gates = {} /\ s # Missing
  BY <1>1, NeitherIs DEF States, Contents
<1>3. Run(Write("state", s)) /\ synced' = FALSE /\ UNCHANGED <<day, broken, kills>>
      /\ begun' = begun + 1 /\ begun < MaxBegun
  BY <1>1 DEF BeginIteration, Other, Run
<1>4. Simple'
  <2>1. Simple
    BY DEF IInv
  <2>2. begun' \in 0..MaxBegun
    BY <1>3, <2>1, Bounds DEF Simple
  <2>3. QED
    BY <1>3, <2>1, <2>2 DEF Simple
<1>5. Part(Write("state", s), disk, "state", s)
  BY <1>2 DEF Part
<1>6. PICK v : v = Write("state", s)
  OBVIOUS
<1>7. QED
  BY <1>2, <1>3, <1>4, <1>5, <1>6, StateOnly

LEMMA SetGateKeeps ==
    ASSUME IInv, NEW g \in SkillGates, NEW on \in BOOLEAN, SetGate(g, on)
    PROVE  IInv'
<1>1. PICK gates : gates = IF on THEN Gates \cup {g} ELSE Gates \ {g}
  OBVIOUS
<1>2. DiskType(disk) /\ Simple
  BY DEF IInv
<1>3. /\ gates \in SUBSET (SkillGates \cup {"roadmap_synced", "retro_due"})
      /\ "retro_due" \in gates => "retro_due" \in Gates
  BY <1>1, <1>2, GatesAre, SkillGatesAre
<1>4. PICK v : v = WriteState(gates)
  OBVIOUS
<1>5. PICK x \in States \cup {Missing, Empty} :
          /\ Part(v, disk, "state", x) /\ (x # Missing \/ v = << >>)
          /\ x \in States => disk["state"] \in States /\ x.gates = gates
  BY <1>2, <1>3, <1>4, WriteStateIs
<1>6. Run(v) /\ synced' = FALSE /\ UNCHANGED <<day, begun, kills, broken>>
  BY <1>1, <1>4 DEF SetGate, Other, Run
<1>7. Simple'
  BY <1>2, <1>6 DEF Simple
<1>8. QED
  BY <1>2, <1>3, <1>5, <1>6, <1>7, GatesAre, StateOnly

LEMMA SetTrackKeeps ==
    ASSUME IInv, NEW track \in Tracks, SetTrack(track)
    PROVE  IInv'
<1>1. DiskType(disk) /\ Simple
  BY DEF IInv
<1>2. disk["state"] \in States
  BY <1>1 DEF SetTrack, Readable, DiskType
<1>3. PICK x : x = [disk["state"] EXCEPT !.track = track]
  OBVIOUS
<1>4. x \in States /\ x.gates = disk["state"].gates
  BY <1>2, <1>3 DEF States
<1>5. x \in Contents /\ x # Missing
  BY <1>4, NeitherIs DEF Contents
<1>6. PICK v : v = Write("state", x)
  OBVIOUS
<1>7. Part(v, disk, "state", x)
  BY <1>5, <1>6 DEF Part
<1>8. Run(v) /\ synced' = FALSE /\ UNCHANGED <<day, begun, kills, broken>>
  BY <1>3, <1>6 DEF SetTrack, Other, Run
<1>9. Simple'
  BY <1>1, <1>8 DEF Simple
<1>10. QED
  BY <1>2, <1>4, <1>5, <1>7, <1>8, <1>9, StateOnly

LEMMA IncrementKeeps ==
    ASSUME IInv, Increment
    PROVE  IInv'
<1>1. DiskType(disk) /\ Simple
  BY DEF IInv
<1>2. PICK n : n = Count + 1
  OBVIOUS
<1>3. n \in 0..MaxCount /\ n \in Contents /\ n # Missing
  BY <1>1, <1>2, CountAre, NeitherIs, Bounds DEF Increment, Contents
<1>4. PICK r : r = Write("retro", n)
  OBVIOUS
<1>5. Part(r, disk, "retro", n)
  BY <1>3, <1>4 DEF Part
<1>6. PICK gates : gates = Gates
  OBVIOUS
<1>7. PICK v : v = WriteState(gates)
  OBVIOUS
<1>8. PICK x \in States \cup {Missing, Empty} :
          /\ Part(v, disk, "state", x) /\ (x # Missing \/ v = << >>)
          /\ x \in States => disk["state"] \in States /\ x.gates = gates
  BY <1>1, <1>6, <1>7, GatesAre, WriteStateIs
<1>9. Run(r \o v) /\ synced' = FALSE /\ UNCHANGED <<day, begun, kills, broken>>
  BY <1>2, <1>4, <1>6, <1>7 DEF Increment, Other, Run
<1>10. Simple'
  BY <1>1, <1>9 DEF Simple
<1>11. broken \cap {"retro", "state"} = {} /\ x \in States /\ "retro_due" \in x.gates =>
           CountIs(n) >= Threshold
  <2>1. todo = << >>
    BY <1>9 DEF Run
  <2>2. DueOn(disk)
    BY <2>1, IdleGood DEF Good
  <2>3. CountIs(n) = n /\ n >= CountIs(disk["retro"]) /\ CountIs(disk["retro"]) \in Nat /\ n \in Nat
    BY <1>1, <1>2, <1>3, CountAre, NeitherIs, Bounds DEF CountIs
  <2>4. x \in States => x.gates = disk["state"].gates /\ disk["state"] \in States
    BY <1>1, <1>6, <1>8, GatesAre
  <2>5. QED
    BY <2>2, <2>3, <2>4, Bounds DEF DueOn
<1>12. broken' = broken /\ synced' = FALSE
  BY <1>9
<1>13. n \in 0..MaxCount \cup {Missing, Empty} /\ (n # Missing \/ r = << >>)
  BY <1>3
<1>14. Run(r \o v)
  BY <1>9
<1>15. QED
  BY <1>5, <1>8, <1>10, <1>11, <1>12, <1>13, <1>14, CounterThenState

LEMMA ResetKeeps ==
    ASSUME IInv, Reset
    PROVE  IInv'
<1>1. DiskType(disk) /\ Simple
  BY DEF IInv
<1>2. PICK n : n = 0
  OBVIOUS
<1>3. n \in 0..MaxCount /\ n \in Contents /\ n # Missing
  BY <1>2, NeitherIs, Bounds DEF Contents
<1>4. PICK r : r = Write("retro", n)
  OBVIOUS
<1>5. Part(r, disk, "retro", n)
  BY <1>3, <1>4 DEF Part
<1>6. PICK gates : gates = GatesAfterReset
  OBVIOUS
<1>7. /\ gates \in SUBSET (SkillGates \cup {"roadmap_synced", "retro_due"})
      /\ "retro_due" \notin gates
  BY <1>1, <1>6, GatesAre DEF GatesAfterReset
<1>8. PICK v : v = WriteState(gates)
  OBVIOUS
<1>9. PICK x \in States \cup {Missing, Empty} :
          /\ Part(v, disk, "state", x) /\ (x # Missing \/ v = << >>)
          /\ x \in States => disk["state"] \in States /\ x.gates = gates
  BY <1>1, <1>7, <1>8, WriteStateIs
<1>10. Run(r \o v) /\ synced' = FALSE /\ UNCHANGED <<day, begun, kills>>
       /\ broken' = broken \ {"retro", "state"}
  BY <1>2, <1>4, <1>6, <1>8 DEF Reset, Other, Run
<1>11. Simple' /\ broken' \cap {"roadmap", "page"} = broken \cap {"roadmap", "page"}
  BY <1>1, <1>10 DEF Simple
<1>12. QED
  BY <1>3, <1>5, <1>7, <1>9, <1>10, <1>11, CounterThenState

LEMMA CheckKeeps ==
    ASSUME IInv, Check
    PROVE  IInv'
<1>1. DiskType(disk) /\ Simple
  BY DEF IInv
<1>2. PICK n : n = disk["retro"]
  OBVIOUS
<1>3. n \in 0..MaxCount \cup {Missing, Empty} /\ Part(<< >>, disk, "retro", n)
  BY <1>1, <1>2 DEF DiskType, Part
<1>4. PICK gates : gates = (Gates \ {"retro_due"})
                              \cup (IF Count >= Threshold THEN {"retro_due"} ELSE {})
  OBVIOUS
<1>5. /\ gates \in SUBSET (SkillGates \cup {"roadmap_synced", "retro_due"})
      /\ "retro_due" \in gates => CountIs(n) >= Threshold
  BY <1>1, <1>2, <1>4, GatesAre, CountAre
<1>6. PICK v : v = WriteState(gates)
  OBVIOUS
<1>7. PICK x \in States \cup {Missing, Empty} :
          /\ Part(v, disk, "state", x) /\ (x # Missing \/ v = << >>)
          /\ x \in States => disk["state"] \in States /\ x.gates = gates
  BY <1>1, <1>5, <1>6, WriteStateIs
<1>8. Run(v) /\ synced' = FALSE /\ UNCHANGED <<day, begun, kills>>
      /\ broken' = broken \ {"retro", "state"}
  BY <1>4, <1>6 DEF Check, Other, Run
<1>9. Run(<< >> \o v)
  <2>1. v \in Seq([file : Files, content : Contents])
    BY <1>7, PartFields, FilesAre
  <2>2. << >> \o v = v
    BY <2>1
  <2>3. QED
    BY <1>8, <2>2
<1>10. Simple' /\ broken' \cap {"roadmap", "page"} = broken \cap {"roadmap", "page"}
  BY <1>1, <1>8 DEF Simple
<1>11. QED
  BY <1>3, <1>5, <1>7, <1>8, <1>9, <1>10, CounterThenState

\* archive.
LEMMA ArchiveKeeps ==
    ASSUME IInv, Archive
    PROVE  IInv'
<1>1. DiskType(disk) /\ Simple /\ todo = << >>
  BY DEF IInv, Archive, Run
<1>2. PICK s \in States : s = disk["state"] /\ s.task \in Tasks
  BY <1>1, StateFields DEF Archive, Readable, DiskType
<1>3. PICK t \in Tasks : t = s.task
  BY <1>2
<1>4. PICK v : v = Write(t, s)
  OBVIOUS
<1>5. PICK u : u = Write("state", Missing)
  OBVIOUS
<1>6. Run(v \o u) /\ synced' = FALSE /\ UNCHANGED <<day, begun, kills, broken>>
  BY <1>2, <1>3, <1>4, <1>5 DEF Archive, CopyThenRemove, Other, Run
<1>7. PICK h : h = [disk EXCEPT ![t] = s]
  OBVIOUS
<1>8. PICK g : g = [h EXCEPT !["state"] = Missing]
  OBVIOUS
<1>9. /\ t \in Files /\ t # "state" /\ "state" \in Files /\ t # "page" /\ t # "roadmap"
      /\ DOMAIN disk = Files
  BY <1>1, FilesAre DEF DiskType
<1>10. /\ DOMAIN h = Files /\ DOMAIN g = Files /\ g["state"] = Missing /\ g[t] = s
       /\ \A f \in Files \ {t, "state"} : g[f] = disk[f]
  BY <1>7, <1>8, <1>9
<1>11. Part(v, disk, t, s) /\ Part(u, disk, "state", Missing)
  BY <1>4, <1>5 DEF Part, Contents
<1>12. /\ v \in Seq([file : Files, content : Contents])
       /\ \A i \in 1..Len(v) : v[i].file = t /\ v[i].content = s /\ v # << >>
  BY <1>9, <1>11, PartFields
<1>13. Turns(v \o u, disk, g)
  <2>1. Turns(v, disk, h)
    BY <1>7, <1>9, <1>11, OneWrite
  <2>2. \A i \in 1..Len(v) : v[i].file # "state"
    BY <1>9, <1>12
  <2>3. QED
    BY <1>8, <1>9, <1>10, <1>11, <2>1, <2>2, OneMore
<1>14. \A i \in 1..Len(v \o u) : (v \o u)[i].content = Missing =>
           (v \o u)[i].file = "state" /\ i = Len(v \o u)
  <2>1. s # Missing
    BY NeitherIs
  <2>2. Len(u) = 1 /\ u[1].file = "state" /\ u \in Seq([file : Files, content : Contents])
    BY <1>5, <1>9, <1>11, PartFields DEF Write
  <2>3. Len(v) \in Nat /\ Len(v \o u) = Len(v) + 1
    <3>1. Len(v) \in Nat
      BY <1>12, WritesAre
    <3>2. Len(v \o u) = Len(v) + Len(u)
      BY <1>12, <2>2, Joined
    <3>3. QED
      BY <2>2, <3>1, <3>2
  <2>4. \A i \in 1..Len(v) : (v \o u)[i] = v[i]
    BY <1>12, <2>2, Joined
  <2>5. ASSUME NEW i \in 1..Len(v \o u), i \notin 1..Len(v)
        PROVE  i = Len(v) + 1 /\ (v \o u)[i] = u[1]
    <3>1. i = Len(v) + 1
      BY <2>3, <2>5
    <3>2. (v \o u)[i] = u[i - Len(v)]
      BY <1>12, <2>2, <2>5, Joined
    <3>3. QED
      BY <2>3, <3>1, <3>2
  <2>6. QED
    BY <1>12, <2>1, <2>2, <2>3, <2>4, <2>5
<1>15. Good(g)'
  <2>1. Good(disk)
    BY <1>1, IdleGood
  <2>2. g["retro"] = disk["retro"] /\ g["roadmap"] = disk["roadmap"] /\ g["page"] = disk["page"]
    BY <1>9, <1>10, FilesAre
  <2>3. DiskType(g)
    BY <1>1, <1>2, <1>3, <1>9, <1>10, <2>2, FilesAre DEF DiskType
  <2>4. DueOn(g)' /\ AgreeOn(g)' /\ SyncedOn(g)' /\ Dated(g)'
    BY <1>6, <1>10, <2>1, <2>2, NeitherIs DEF Good, DueOn, AgreeOn, SyncedOn, Dated
  <2>5. QED
    BY <2>3, <2>4 DEF Good, DiskType
<1>16. Simple'
  BY <1>1, <1>6 DEF Simple
<1>17. disk["state"] \in States /\ g[disk["state"].task] = disk["state"]
  BY <1>2, <1>3, <1>10
<1>18. QED
  BY <1>6, <1>13, <1>14, <1>15, <1>16, <1>17, Started

----------------------------------------------------------------------------
(* sync-status.py *)

\* A row that is brought up to date stays so.
LEMMA StampIs ==
    ASSUME day \in Days, NEW c \in Cells, NEW status \in {"completed", "in-progress"}
    PROVE  /\ Stamp(c, status) \in Cells /\ Stamp(c, status).status = status
           /\ Stable(Stamp(c, status), status)
           /\ Stable(c, status) => Stamp(c, status) = c
BY DEF Stamp, Stable, Cells

\* The status does not depend on the gate that sync-status.py sets.
LEMMA DerivedStays ==
    ASSUME NEW s, NEW x, x.track = s.track,
           x.gates = s.gates \cup {"roadmap_synced"}
    PROVE  Derived(x) = Derived(s)
<1>1. x.gates \cup {"roadmap_synced"} = s.gates \cup {"roadmap_synced"}
  OBVIOUS
<1>2. QED
  BY <1>1 DEF Derived

LEMMA RefreshIs ==
    ASSUME NEW f, NEW c \in Contents
    PROVE  Part(Refresh(f, c), disk, f, c)
BY DEF Refresh, Part

\* What a run leaves in the roadmap.
LEMMA RoadmapIs ==
    ASSUME DiskType(disk), day \in Days, NEW s \in States,
           NEW w, w = IF Readable("roadmap") THEN Refresh("roadmap", Rows(s)) ELSE << >>
    PROVE  \E x \in [Tasks -> Cells] \cup {Empty} :
               /\ Part(w, disk, "roadmap", x)
               /\ x # Empty => /\ x[s.task].status = Derived(s)
                               /\ Stable(x[s.task], Derived(s))
<1>1. disk["roadmap"] \in [Tasks -> Cells] \cup {Empty}
  BY DEF DiskType
<1>2. CASE disk["roadmap"] = Empty
  BY <1>2 DEF Readable, Part
<1>3. CASE disk["roadmap"] \in [Tasks -> Cells]
  <2>1. PICK c \in Cells : c = disk["roadmap"][s.task] /\ s.task \in Tasks
    BY <1>3, StateFields
  <2>2. PICK d : d = Stamp(c, Derived(s))
    OBVIOUS
  <2>3. d \in Cells /\ d.status = Derived(s) /\ Stable(d, Derived(s))
    BY <2>2, DerivedIs, StampIs
  <2>4. PICK x : x = Rows(s)
    OBVIOUS
  <2>5. x = [disk["roadmap"] EXCEPT ![s.task] = d]
    BY <2>1, <2>2, <2>4 DEF Rows
  <2>6. x \in [Tasks -> Cells] /\ x[s.task] = d
    BY <1>3, <2>1, <2>3, <2>5
  <2>7. Readable("roadmap")
    BY <1>3, NeitherIs DEF Readable
  <2>8. Part(w, disk, "roadmap", x)
    BY <2>4, <2>6, <2>7, RefreshIs DEF Contents
  <2>9. QED
    BY <2>3, <2>6, <2>8
<1>4. QED
  BY <1>1, <1>2, <1>3

\* And in the header.
LEMMA PageIs ==
    ASSUME DiskType(disk), day \in Days, NEW s \in States,
           NEW w, w = IF Readable("page") THEN Refresh("page", Header(s)) ELSE << >>
    PROVE  \E x \in Headers \cup {Empty} :
               Part(w, disk, "page", x) /\ (x # Empty => x = Header(s))
<1>1. disk["page"] \in Headers \cup {Empty}
  BY DEF DiskType
<1>2. CASE disk["page"] = Empty
  BY <1>2 DEF Readable, Part
<1>3. CASE disk["page"] \in Headers
  <2>1. Header(s) \in Headers
    BY StateFields, DerivedIs DEF Header, Headers
  <2>2. Readable("page")
    BY <1>3, NeitherIs DEF Readable
  <2>3. Part(w, disk, "page", Header(s))
    BY <2>1, <2>2, RefreshIs DEF Contents
  <2>4. QED
    BY <2>1, <2>3
<1>4. QED
  BY <1>1, <1>2, <1>3

LEMMA SyncKeeps ==
    ASSUME IInv, Sync
    PROVE  IInv'
<1>1. DiskType(disk) /\ Simple /\ todo = << >> /\ day \in Days
  BY DEF IInv, Sync, Run, Simple
<1>2. PICK s \in States : s = disk["state"]
  BY <1>1 DEF Sync, Readable, DiskType
<1>3. PICK u : u = IF Readable("roadmap") THEN Refresh("roadmap", Rows(s)) ELSE << >>
  OBVIOUS
<1>4. PICK p : p = IF Readable("page") THEN Refresh("page", Header(s)) ELSE << >>
  OBVIOUS
<1>5. PICK gates : gates = Gates \cup {"roadmap_synced"}
  OBVIOUS
<1>6. /\ gates \in SUBSET (SkillGates \cup {"roadmap_synced", "retro_due"})
      /\ gates = s.gates \cup {"roadmap_synced"}
  BY <1>1, <1>2, <1>5, GatesAre
<1>7. PICK v : v = WriteState(gates)
  OBVIOUS
<1>8. /\ Run((u \o p) \o v) /\ synced' = TRUE /\ UNCHANGED <<day, begun, kills>>
      /\ broken' = broken \ {"roadmap", "page"}
  BY <1>2, <1>3, <1>4, <1>5, <1>7 DEF Sync, SyncWrites, Run
<1>9. PICK rows \in [Tasks -> Cells] \cup {Empty} :
          /\ Part(u, disk, "roadmap", rows)
          /\ rows # Empty => /\ rows[s.task].status = Derived(s)
                             /\ Stable(rows[s.task], Derived(s))
  BY <1>1, <1>3, RoadmapIs
<1>10. PICK page \in Headers \cup {Empty} :
           Part(p, disk, "page", page) /\ (page # Empty => page = Header(s))
  BY <1>1, <1>4, PageIs
<1>11. PICK x \in States :
           /\ Part(v, disk, "state", x) /\ x.gates = gates
           /\ x.task = s.task /\ x.track = s.track
  BY <1>1, <1>2, <1>6, <1>7, WriteStateIs
<1>12. PICK h : h = [disk EXCEPT !["roadmap"] = rows]
  OBVIOUS
<1>13. PICK k : k = [h EXCEPT !["page"] = page]
  OBVIOUS
<1>14. PICK g : g = [k EXCEPT !["state"] = x]
  OBVIOUS
<1>15. DOMAIN disk = Files
  BY <1>1 DEF DiskType
<1>16. DOMAIN h = Files /\ DOMAIN k = Files /\ DOMAIN g = Files
  BY <1>12, <1>13, <1>14, <1>15
<1>17. /\ g["roadmap"] = rows /\ g["page"] = page /\ g["state"] = x
       /\ \A f \in Files \ {"roadmap", "page", "state"} : g[f] = disk[f]
  BY <1>12, <1>13, <1>14, <1>15, <1>16, FilesAre
<1>18. /\ u \in Seq([file : Files, content : Contents])
       /\ \A i \in 1..Len(u) : u[i].file = "roadmap" /\ u[i].content = rows /\ u # << >>
  BY <1>9, PartFields, FilesAre
<1>19. /\ p \in Seq([file : Files, content : Contents])
       /\ \A i \in 1..Len(p) : p[i].file = "page" /\ p[i].content = page /\ p # << >>
  BY <1>10, PartFields, FilesAre
<1>20. /\ v \in Seq([file : Files, content : Contents])
       /\ \A i \in 1..Len(v) : v[i].file = "state" /\ v[i].content = x /\ v # << >>
  BY <1>11, PartFields, FilesAre
<1>21. Turns((u \o p) \o v, disk, g)
  <2>1. Turns(u, disk, h)
    BY <1>9, <1>12, <1>15, FilesAre, OneWrite
  <2>2. \A i \in 1..Len(u) : u[i].file # "page"
    BY <1>18
  <2>3. Turns(u \o p, disk, k)
    BY <1>10, <1>13, <1>15, <1>16, <2>1, <2>2, FilesAre, OneMore
  <2>4. \A i \in 1..Len(u \o p) : (u \o p)[i].file # "state"
    BY <1>18, <1>19
  <2>5. QED
    BY <1>11, <1>14, <1>15, <1>16, <2>3, <2>4, FilesAre, OneMore
<1>22. \A i \in 1..Len((u \o p) \o v) : ((u \o p) \o v)[i].content # Missing
  <2>1. rows # Missing /\ page # Missing /\ x # Missing
    BY NeitherIs
  <2>2. u \o p \in Seq([file : Files, content : Contents])
    BY <1>18, <1>19
  <2>3. \A i \in 1..Len(u \o p) : (u \o p)[i].content # Missing
    BY <1>18, <1>19, <2>1
  <2>4. QED
    BY <1>20, <2>1, <2>2, <2>3
<1>23. Derived(x) = Derived(s)
  BY <1>6, <1>11, DerivedStays
<1>24. page # Empty => /\ page.task = s.task /\ page.status = Derived(s) /\ page.updated = day
                       /\ page = Header(x)
  BY <1>10, <1>11, <1>23 DEF Header
<1>25. Good(g)'
  <2>1. Good(disk)
    BY <1>1, IdleGood
  <2>2. g["retro"] = disk["retro"] /\ \A t \in Tasks : g[t] = disk[t]
    BY <1>17, FilesAre
  <2>3. DiskType(g)
    BY <1>1, <1>16, <1>17, <2>2 DEF DiskType
  <2>4. DueOn(g)'
    <3>1. DueOn(disk)
      BY <2>1 DEF Good
    <3>2. "retro_due" \in x.gates => "retro_due" \in s.gates
      BY <1>6, <1>11
    <3>3. broken' \cap {"retro", "state"} = broken \cap {"retro", "state"}
      BY <1>8
    <3>4. QED
      BY <1>2, <1>17, <2>2, <3>1, <3>2, <3>3 DEF DueOn
  <2>5. AgreeOn(g)'
    BY <1>9, <1>17, <1>24 DEF AgreeOn
  <2>6. SyncedOn(g)'
    BY <1>8, <1>9, <1>11, <1>17, <1>23, <1>24 DEF SyncedOn, Header
  <2>7. Dated(g)'
    BY <1>1, <1>8, <1>17, <1>24 DEF Dated, Days
  <2>8. QED
    BY <2>3, <2>4, <2>5, <2>6, <2>7 DEF Good, DiskType
<1>26. Simple'
  BY <1>1, <1>8 DEF Simple
<1>27. QED
  BY <1>8, <1>21, <1>22, <1>25, <1>26, Started

----------------------------------------------------------------------------
(* What happens to the files between and during commands *)

LEMMA RestoreKeeps ==
    ASSUME IInv, NEW f \in {"roadmap", "page"}, Restore(f)
    PROVE  IInv'
<1>1. /\ todo = << >> /\ DOMAIN disk = Files /\ Good(disk) /\ Simple
      /\ Dated(disk) /\ day \in Nat /\ 1 <= day
  BY IdleGood DEF IInv, Restore, DiskType, Simple, Days
<1>2. /\ todo' = << >> /\ synced' = FALSE /\ UNCHANGED <<day, begun, kills>>
      /\ broken' = broken \cup {f}
  BY DEF Restore, Other
<1>3. PICK h : h = disk'
  OBVIOUS
<1>4. h = [disk EXCEPT ![f] = Committed[f]]
  BY <1>3 DEF Restore
<1>5. /\ DOMAIN h = Files /\ h["state"] = disk["state"] /\ h["retro"] = disk["retro"]
      /\ \A t \in Tasks : h[t] = disk[t]
  BY <1>1, <1>4, FilesAre
<1>6. /\ h["roadmap"] \in [Tasks -> Cells] \cup {Empty}
      /\ h["page"] \in Headers \cup {Empty} /\ Dated(h)
  <2>1. CASE f = "roadmap"
    <3>1. h["roadmap"] = [t \in Tasks |-> [status |-> "planned", day |-> 0]]
      BY <1>1, <1>4, <2>1, FilesAre DEF Committed
    <3>2. h["page"] = disk["page"]
      BY <1>1, <1>4, <2>1, FilesAre
    <3>3. QED
      BY <1>1, <3>1, <3>2 DEF Good, DiskType, Dated, Cells
  <2>2. CASE f = "page"
    <3>1. h["page"] = [task |-> Missing, status |-> "in-progress", updated |-> 1]
      BY <1>1, <1>4, <2>2, FilesAre DEF Committed
    <3>2. h["roadmap"] = disk["roadmap"]
      BY <1>1, <1>4, <2>2, FilesAre
    <3>3. QED
      BY <1>1, <3>1, <3>2, Bounds DEF Good, DiskType, Dated, Headers, Days
  <2>3. QED
    BY <2>1, <2>2
<1>7. DiskType(h)
  BY <1>1, <1>5, <1>6 DEF Good, DiskType
<1>8. Good(h)'
  <2>1. DueOn(h)'
    <3>1. broken \subseteq broken'
      BY <1>2
    <3>2. QED
      BY <1>1, <1>5, <3>1 DEF Good, DueOn
  <2>2. AgreeOn(h)' /\ SyncedOn(h)' /\ Dated(h)'
    BY <1>2, <1>6 DEF AgreeOn, SyncedOn, Dated
  <2>3. QED
    BY <1>7, <2>1, <2>2 DEF Good, DiskType
<1>9. Leads(h)'
  BY <1>2, <1>3 DEF Leads, Turns, Archived
<1>10. DiskType(disk)' /\ Dated(disk)'
  BY <1>2, <1>3, <1>6, <1>7 DEF DiskType, Dated
<1>11. Simple'
  BY <1>1, <1>2, FilesAre DEF Simple
<1>12. QED
  BY <1>8, <1>9, <1>10, <1>11 DEF IInv

\* What the first of the writes that are left may be.
LEMMA FirstWrite ==
    ASSUME NEW g, Leads(g), todo # << >>
    PROVE  /\ Len(todo) \in Nat /\ 1 \in 1..Len(todo)
           /\ Head(todo) = todo[1] /\ todo[1].file \in Files /\ todo[1].content # Empty
           /\ g[todo[1].file] = todo[1].content
           /\ \A i \in 2..Len(todo) : todo[i].file # todo[1].file
<1>1. /\ todo \in Seq([file : Files, content : Contents])
      /\ \A i \in 1..Len(todo) : todo[i].content # Empty /\ g[todo[i].file] = todo[i].content
      /\ \A i, j \in 1..Len(todo) : todo[i].file = todo[j].file => i = j
  BY DEF Leads, Turns
<1>2. Len(todo) \in Nat /\ 1 \in 1..Len(todo) /\ Head(todo) = todo[1]
  BY <1>1, WritesAre
<1>5. ASSUME NEW i \in 2..Len(todo) PROVE todo[i].file # todo[1].file
  <2>1. i \in 1..Len(todo) /\ i # 1
    BY <1>2
  <2>2. QED
    BY <1>1, <1>2, <2>1
<1>6. todo[1].file \in Files
  BY <1>1, <1>2, WritesAre
<1>7. QED
  BY <1>1, <1>2, <1>5, <1>6

LEMMA EmptyKeeps ==
    ASSUME IInv, todo # << >>, Head(todo).content # Missing,
           disk' = [disk EXCEPT ![Head(todo).file] = Empty],
           UNCHANGED <<todo, day, begun, kills, broken, synced>>
    PROVE  IInv'
<1>1. PICK g : Leads(g) /\ Good(g)
  BY DEF IInv
<1>2. PICK f \in Files : /\ f = todo[1].file /\ f = Head(todo).file
                         /\ todo[1].content # Missing /\ 1 \in 1..Len(todo)
                         /\ \A i \in 2..Len(todo) : todo[i].file # f
  BY <1>1, FirstWrite
<1>3. DiskType(disk) /\ Simple /\ Dated(disk) /\ DOMAIN disk = Files
  BY DEF IInv, DiskType
<1>4. DOMAIN disk' = Files /\ \A e \in Files : disk'[e] = IF e = f THEN Empty ELSE disk[e]
  BY <1>2, <1>3
<1>5. DiskType(disk)' /\ Dated(disk)'
  BY <1>3, <1>4, FilesAre, NeitherIs DEF DiskType, Dated
<1>6. Turns(todo, disk, g)'
  <2>1. Turns(todo, disk, g)
    BY <1>1 DEF Leads
  <2>2. QED
    BY <1>2, <1>4, <2>1 DEF Turns
<1>7. Archived(g)'
  <2>1. ASSUME NEW i \in 1..Len(todo), todo[i].content = Missing
        PROVE  /\ todo[i].file = "state" /\ i = Len(todo)
               /\ disk'["state"] \in States /\ g[disk'["state"].task] = disk'["state"]
    <3>1. /\ todo[i].file = "state" /\ i = Len(todo)
          /\ disk["state"] \in States /\ g[disk["state"].task] = disk["state"]
      BY <1>1, <2>1 DEF Leads, Archived
    <3>2. i \in 2..Len(todo)
      BY <1>2, <2>1
    <3>3. f # "state"
      BY <1>2, <3>1, <3>2
    <3>4. QED
      BY <1>4, <3>1, <3>3, FilesAre
  <2>2. QED
    BY <2>1 DEF Archived
<1>8. Good(g)'
  BY <1>1 DEF Good, DiskType, DueOn, AgreeOn, SyncedOn, Dated, Header
<1>9. Simple'
  BY <1>3 DEF Simple
<1>10. QED
  BY <1>5, <1>6, <1>7, <1>8, <1>9 DEF IInv, Leads

LEMMA FillKeeps ==
    ASSUME IInv, todo # << >>,
           disk' = [disk EXCEPT ![Head(todo).file] = Head(todo).content], todo' = Tail(todo),
           UNCHANGED <<day, begun, kills, broken, synced>>
    PROVE  IInv'
<1>1. PICK g : Leads(g) /\ Good(g)
  BY DEF IInv
<1>2. PICK f \in Files : /\ f = todo[1].file /\ f = Head(todo).file
                         /\ g[f] = Head(todo).content
                         /\ Len(todo) \in Nat /\ 1 \in 1..Len(todo)
                         /\ \A i \in 2..Len(todo) : todo[i].file # f
  BY <1>1, FirstWrite
<1>3. DiskType(disk) /\ Simple /\ Dated(disk) /\ DOMAIN disk = Files
  BY DEF IInv, DiskType
<1>4. DOMAIN disk' = Files /\ \A e \in Files : disk'[e] = IF e = f THEN g[f] ELSE disk[e]
  BY <1>2, <1>3
<1>5. DiskType(disk)' /\ Dated(disk)'
  <2>1. DiskType(g) /\ Dated(g)
    BY <1>1 DEF Good
  <2>2. QED
    BY <1>3, <1>4, <2>1, FilesAre DEF DiskType, Dated
<1>6. /\ todo \in Seq([file : Files, content : Contents])
      /\ todo' \in Seq([file : Files, content : Contents])
      /\ Len(todo') = Len(todo) - 1
      /\ \A i \in 1..Len(todo') : todo'[i] = todo[i + 1]
  BY <1>1 DEF Leads, Turns
<1>7. Turns(todo, disk, g)'
  <2>1. /\ \A i \in 1..Len(todo) : todo[i].content # Empty /\ g[todo[i].file] = todo[i].content
        /\ \A i, j \in 1..Len(todo) : todo[i].file = todo[j].file => i = j
        /\ \A e \in Files : (\A i \in 1..Len(todo) : todo[i].file # e) => g[e] = disk[e]
    BY <1>1 DEF Leads, Turns
  <2>2. \A i \in 1..Len(todo') : i + 1 \in 1..Len(todo)
    BY <1>2, <1>6
  <2>3. \A i \in 1..Len(todo') : todo'[i].content # Empty
                                 /\ g[todo'[i].file] = todo'[i].content
    BY <1>6, <2>1, <2>2
  <2>6. ASSUME NEW i \in 1..Len(todo'), NEW j \in 1..Len(todo'),
               todo'[i].file = todo'[j].file
        PROVE  i = j
    <3>1. todo[i + 1].file = todo[j + 1].file
      BY <1>6, <2>6
    <3>2. i + 1 = j + 1
      BY <2>1, <2>2, <3>1
    <3>3. QED
      BY <3>2
  <2>4. ASSUME NEW e \in Files, \A i \in 1..Len(todo') : todo'[i].file # e
        PROVE  g[e] = disk'[e]
    <3>1. CASE e = f
      BY <1>4, <3>1
    <3>2. CASE e # f
      <4>1. ASSUME NEW i \in 1..Len(todo) PROVE todo[i].file # e
        <5>1. CASE i = 1
          BY <1>2, <3>2, <5>1
        <5>2. CASE i # 1
          <6>1. i - 1 \in 1..Len(todo') /\ (i - 1) + 1 = i
            BY <1>2, <1>6, <5>2
          <6>2. QED
            BY <1>6, <2>4, <6>1
        <5>3. QED
          BY <5>1, <5>2
      <4>2. QED
        BY <1>4, <2>1, <3>2, <4>1
    <3>3. QED
      BY <3>1, <3>2
  <2>5. QED
    BY <1>6, <2>3, <2>4, <2>6 DEF Turns
<1>8. Archived(g)'
  <2>1. ASSUME NEW i \in 1..Len(todo'), todo'[i].content = Missing
        PROVE  /\ todo'[i].file = "state" /\ i = Len(todo')
               /\ disk'["state"] \in States /\ g[disk'["state"].task] = disk'["state"]
    <3>1. i + 1 \in 2..Len(todo) /\ i + 1 \in 1..Len(todo) /\ todo'[i] = todo[i + 1]
      BY <1>2, <1>6
    <3>2. /\ todo[i + 1].file = "state" /\ i + 1 = Len(todo)
          /\ disk["state"] \in States /\ g[disk["state"].task] = disk["state"]
      BY <1>1, <2>1, <3>1 DEF Leads, Archived
    <3>3. f # "state"
      BY <1>2, <3>1, <3>2
    <3>4. i = Len(todo')
      <4>1. Len(todo') = (i + 1) - 1
        BY <1>6, <3>2
      <4>2. i \in Nat /\ (i + 1) - 1 = i
        OBVIOUS
      <4>3. QED
        BY <4>1, <4>2
    <3>5. QED
      BY <1>4, <3>1, <3>2, <3>3, <3>4, FilesAre
  <2>2. QED
    BY <2>1 DEF Archived
<1>9. Good(g)'
  BY <1>1 DEF Good, DiskType, DueOn, AgreeOn, SyncedOn, Dated, Header
<1>10. Simple'
  BY <1>3 DEF Simple
<1>11. QED
  BY <1>5, <1>7, <1>8, <1>9, <1>10 DEF IInv, Leads

LEMMA WriteNextKeeps ==
    ASSUME IInv, WriteNext
    PROVE  IInv'
<1>1. todo # << >> /\ UNCHANGED <<day, begun, kills, broken, synced>>
  BY DEF WriteNext
<1>2. CASE Head(todo).content = Missing \/ disk[Head(todo).file] = Empty
  BY <1>1, <1>2, FillKeeps DEF WriteNext
<1>3. CASE ~(Head(todo).content = Missing \/ disk[Head(todo).file] = Empty)
  BY <1>1, <1>3, EmptyKeeps DEF WriteNext
<1>4. QED
  BY <1>2, <1>3

LEMMA KillKeeps ==
    ASSUME IInv, Kill
    PROVE  IInv'
<1>1. PICK g : Leads(g) /\ Good(g)
  BY DEF IInv
<1>2. /\ todo' = << >> /\ synced' = FALSE /\ kills' = kills + 1 /\ kills < MaxKills
      /\ broken' = broken \cup {todo[i].file : i \in DOMAIN todo}
      /\ UNCHANGED <<disk, day, begun>>
  BY DEF Kill, Other
<1>3. DiskType(disk) /\ Simple /\ Dated(disk)
  BY DEF IInv
<1>4. todo \in Seq([file : Files, content : Contents])
  BY <1>1 DEF Leads, Turns
<1>5. DOMAIN todo = 1..Len(todo) /\ \A i \in 1..Len(todo) : todo[i].file \in Files
  BY <1>4, WritesAre
<1>6. \A f \in Files : f \notin broken' => g[f] = disk[f] /\ f \notin broken
  BY <1>1, <1>2, <1>5 DEF Leads, Turns
<1>7. PICK h : h = disk
  OBVIOUS
<1>8. Good(h)'
  <2>1. DueOn(h)'
    BY <1>1, <1>6, <1>7, FilesAre DEF Good, DueOn
  <2>2. AgreeOn(h)'
    BY <1>1, <1>6, <1>7, FilesAre DEF Good, AgreeOn
  <2>3. SyncedOn(h)' /\ Dated(h)' /\ DiskType(h)'
    BY <1>2, <1>3, <1>7 DEF SyncedOn, Dated, DiskType
  <2>4. QED
    BY <2>1, <2>2, <2>3 DEF Good
<1>9. Leads(h)'
  BY <1>2, <1>7 DEF Leads, Turns, Archived
<1>10. DiskType(disk)' /\ Dated(disk)'
  BY <1>2, <1>3 DEF DiskType, Dated
<1>11. Simple'
  <2>1. kills' \in 0..MaxKills
    BY <1>2, <1>3, Bounds DEF Simple
  <2>2. broken' \subseteq Files
    BY <1>2, <1>3, <1>5 DEF Simple
  <2>3. QED
    BY <1>2, <1>3, <2>1, <2>2 DEF Simple
<1>12. QED
  BY <1>8, <1>9, <1>10, <1>11 DEF IInv

LEMMA NextDayKeeps ==
    ASSUME IInv, NextDay
    PROVE  IInv'
<1>1. PICK g : Leads(g) /\ Good(g)
  BY DEF IInv
<1>2. day' = day + 1 /\ day < MaxDays /\ UNCHANGED <<disk, todo, begun, kills, broken, synced>>
  BY DEF NextDay
<1>3. DiskType(disk) /\ Simple /\ Dated(disk) /\ day \in Days
  BY DEF IInv, Simple
<1>4. day \in Nat /\ day' \in Days
  BY <1>2, <1>3, Bounds DEF Days
<1>5. DiskType(disk)' /\ Simple' /\ Leads(g)'
  BY <1>1, <1>2, <1>3, <1>4 DEF DiskType, Simple, Leads, Turns, Archived
<1>6. \A d : d["page"] \in Headers \cup {Empty} /\ Dated(d) =>
          (d["page"] # Empty => d["page"].updated <= day' /\ d["page"].updated # day')
  BY <1>2, <1>4 DEF Dated, Headers, Days
<1>7. Dated(disk)'
  BY <1>2, <1>3, <1>6 DEF DiskType, Dated
<1>8. Good(g)'
  <2>1. DiskType(g) /\ Dated(g)
    BY <1>1 DEF Good
  <2>2. Dated(g)' /\ (g["page"] # Empty => g["page"].updated # day')
    BY <1>6, <2>1 DEF DiskType, Dated
  <2>3. SyncedOn(g)'
    BY <1>1, <1>2, <2>2 DEF Good, SyncedOn
  <2>4. DueOn(g)' /\ AgreeOn(g)' /\ DiskType(g)'
    BY <1>1, <1>2 DEF Good, DueOn, AgreeOn, DiskType
  <2>5. QED
    BY <2>2, <2>3, <2>4 DEF Good
<1>9. QED
  BY <1>5, <1>7, <1>8 DEF IInv

LEMMA IInvInit == Init => IInv
<1> SUFFICES ASSUME Init PROVE IInv
  OBVIOUS
<1>1. PICK h : h = disk
  OBVIOUS
<1>2. /\ DOMAIN h = Files /\ h["state"] = Missing /\ h["retro"] = Missing
      /\ h["roadmap"] = [t \in Tasks |-> [status |-> "planned", day |-> 0]]
      /\ h["page"] = [task |-> Missing, status |-> "in-progress", updated |-> 1]
      /\ \A t \in Tasks : h[t] = Missing
  BY <1>1, FilesAre DEF Init, Committed
<1>3. h["roadmap"] \in [Tasks -> Cells]
  BY <1>2 DEF Cells
<1>4. h["page"] \in Headers
  BY <1>2, Bounds DEF Headers, Days
<1>5. DiskType(h)
  BY <1>2, <1>3, <1>4, NeitherIs DEF DiskType
<1>6. Good(h)
  BY <1>2, <1>5, NeitherIs DEF Init, Good, DueOn, AgreeOn, SyncedOn, Dated
<1>7. Leads(h)
  <2>1. todo = << >> /\ Len(todo) = 0
    BY DEF Init
  <2>2. Turns(todo, disk, h)
    BY <1>1, <2>1, NoWrite
  <2>3. QED
    BY <2>1, <2>2 DEF Leads, Archived
<1>8. Simple
  <2>1. day \in Days /\ begun \in 0..MaxBegun /\ kills \in 0..MaxKills
    BY Bounds DEF Init, Days
  <2>2. broken \subseteq Files /\ synced \in BOOLEAN
    BY FilesAre DEF Init
  <2>3. QED
    BY <2>1, <2>2 DEF Simple
<1>9. QED
  BY <1>1, <1>5, <1>6, <1>7, <1>8 DEF IInv, Good

LEMMA IInvNext == IInv /\ [Next]_vars => IInv'
<1> SUFFICES ASSUME IInv, [Next]_vars PROVE IInv'
  OBVIOUS
<1>1. ASSUME NEW t \in Tasks, NEW track \in Tracks, NEW force \in BOOLEAN,
             BeginIteration(t, track, force)
      PROVE  IInv'
  BY <1>1, BeginKeeps
<1>2. ASSUME NEW g \in SkillGates, NEW on \in BOOLEAN, SetGate(g, on) PROVE IInv'
  BY <1>2, SetGateKeeps
<1>3. ASSUME NEW track \in Tracks, SetTrack(track) PROVE IInv'
  BY <1>3, SetTrackKeeps
<1>4. CASE Archive \/ Increment \/ Reset \/ Check \/ Sync
  BY <1>4, ArchiveKeeps, IncrementKeeps, ResetKeeps, CheckKeeps, SyncKeeps
<1>5. ASSUME NEW f \in {"roadmap", "page"}, Restore(f) PROVE IInv'
  BY <1>5, RestoreKeeps
<1>6. CASE WriteNext \/ Kill \/ NextDay
  BY <1>6, WriteNextKeeps, KillKeeps, NextDayKeeps
<1>7. CASE UNCHANGED vars
  <2>1. PICK g : Leads(g) /\ Good(g)
    BY DEF IInv
  <2>2. UNCHANGED <<disk, todo, day, begun, kills, broken, synced>>
    BY <1>7 DEF vars
  <2>3. Leads(g)' /\ DiskType(disk)' /\ Dated(disk)' /\ Simple'
    BY <2>1, <2>2 DEF IInv, Leads, Turns, Archived, DiskType, Dated, Simple
  <2>4. Good(g)'
    BY <2>1, <2>2 DEF Good, DiskType, DueOn, AgreeOn, SyncedOn, Dated, Header
  <2>5. QED
    BY <2>3, <2>4 DEF IInv
<1>8. QED
  BY <1>1, <1>2, <1>3, <1>4, <1>5, <1>6, <1>7 DEF Next

LEMMA IInvAlways == Spec => []IInv
BY IInvInit, IInvNext, PTL DEF Spec

----------------------------------------------------------------------------
(* The properties *)

\* retro cadence (openup-state.py retro): between commands, a live iteration has
\* retro_due set only while the durable counter has reached the threshold,
\* unless a kill left one of the two files behind.
THEOREM DueFollowsTheCounterAlways == Spec => []DueFollowsTheCounter
<1>1. ASSUME IInv PROVE DueFollowsTheCounter
  <2>1. SUFFICES ASSUME todo = << >> PROVE DueFollowsTheCounter
    BY DEF DueFollowsTheCounter
  <2>2. DueOn(disk) /\ DiskType(disk)
    BY <1>1, <2>1, IdleGood DEF Good
  <2>3. QED
    BY <2>2, CountAre DEF DueOn, DueFollowsTheCounter
<1>2. QED
  BY <1>1, IInvAlways, PTL

LEMMA TypesAre == ASSUME IInv PROVE TypeOK
<1>1. PICK g : Leads(g) /\ Good(g)
  BY DEF IInv
<1>2. /\ todo \in Seq([file : Files, content : Contents])
      /\ \A i \in 1..Len(todo) : todo[i].content # Empty
  BY <1>1 DEF Leads, Turns
<1>5. \A i \in DOMAIN todo : todo[i].file \in Files /\ todo[i].content # Empty
  BY <1>2, WritesAre
<1>6. QED
  BY <1>5 DEF IInv, TypeOK, DiskType, Simple

\* sync-status.py: the state keeps its type, and between commands the roadmap and
\* the status page give the task of the page the same status, whatever was
\* written before and on whatever day, unless a kill came between the two.
THEOREM ViewsAgreeAlways == Spec => []ViewsAgree
<1>1. ASSUME IInv PROVE ViewsAgree
  <2>1. TypeOK
    BY <1>1, TypesAre
  <2>2. todo = << >> => AgreeOn(disk)
    BY <1>1, IdleGood DEF Good
  <2>3. QED
    BY <2>1, <2>2 DEF AgreeOn, ViewsAgree
<1>2. QED
  BY <1>1, IInvAlways, PTL

\* sync-status.py: after a run a second one finds the roadmap, on any later day,
\* and on the same day the header as it would write them, though the first run
\* set a gate the status is derived from.
THEOREM SyncIsIdempotentAlways == Spec => []SyncIsIdempotent
<1>1. ASSUME IInv PROVE SyncIsIdempotent
  <2>1. SUFFICES ASSUME synced, todo = << >> PROVE SyncIsIdempotent
    BY DEF SyncIsIdempotent
  <2>2. SyncedOn(disk) /\ DiskType(disk) /\ day \in Days
    BY <1>1, <2>1, IdleGood DEF Good, IInv, Simple
  <2>3. PICK s \in States : s = disk["state"]
    BY <2>1, <2>2 DEF SyncedOn
  <2>4. ASSUME disk["roadmap"] # Empty PROVE disk["roadmap"] = Rows(s)
    <3>1. PICK rows \in [Tasks -> Cells] : rows = disk["roadmap"]
      BY <2>2, <2>4 DEF DiskType
    <3>2. PICK c \in Cells : c = rows[s.task]
      BY StateFields
    <3>3. Stable(c, Derived(s))
      BY <2>1, <2>2, <2>3, <2>4, <3>1, <3>2 DEF SyncedOn
    <3>4. Stamp(c, Derived(s)) = c
      BY <2>2, <3>3, DerivedIs, StampIs
    <3>5. PICK d : d = Stamp(c, Derived(s))
      OBVIOUS
    <3>6. Rows(s) = [rows EXCEPT ![s.task] = d]
      BY <3>1, <3>2, <3>5 DEF Rows
    <3>7. [rows EXCEPT ![s.task] = c] = rows
      BY <3>2
    <3>8. QED
      BY <3>1, <3>4, <3>5, <3>6, <3>7
  <2>5. QED
    BY <2>1, <2>2, <2>3, <2>4 DEF SyncedOn, SyncIsIdempotent
<1>2. QED
  BY <1>1, IInvAlways, PTL

\* openup-state.py archive: whatever was killed or tried before, the step that
\* removes the state of an iteration finds the whole of it in the archive.
THEOREM RemovedOnlyWhenArchivedAlways == Spec => RemovedOnlyWhenArchived
<1>1. ASSUME IInv, [Next]_vars, disk["state"] \in States, disk'["state"] = Missing
      PROVE  disk'[disk["state"].task] = disk["state"]
  <2>1. /\ disk["state"] # Missing /\ disk["state"] # Empty
        /\ DOMAIN disk = Files
    BY <1>1, NeitherIs DEF IInv, DiskType
  <2>2. disk' # disk
    BY <1>1, <2>1
  <2>3. (\E f \in {"roadmap", "page"} : Restore(f)) \/ WriteNext
    BY <1>1, <2>2 DEF Next, vars, BeginIteration, SetGate, SetTrack, Archive, Increment,
                      Reset, Check, Sync, Run, Kill, NextDay
  <2>4. ASSUME NEW f \in {"roadmap", "page"}, Restore(f) PROVE FALSE
    BY <1>1, <2>1, <2>4, FilesAre DEF Restore
  <2>5. CASE WriteNext
    <3>1. PICK g : Leads(g) /\ Good(g)
      BY <1>1 DEF IInv
    <3>2. todo # << >>
      BY <2>5 DEF WriteNext
    <3>3. PICK w : w = todo[1]
      OBVIOUS
    <3>4. /\ Head(todo) = w /\ w.file \in Files /\ g[w.file] = w.content
          /\ 1 \in 1..Len(todo) /\ Len(todo) \in Nat
      BY <3>1, <3>2, <3>3, FirstWrite
    <3>5. \/ disk' = [disk EXCEPT ![w.file] = w.content]
          \/ disk' = [disk EXCEPT ![w.file] = Empty]
      BY <2>5, <3>4 DEF WriteNext
    <3>6. disk' = [disk EXCEPT ![w.file] = w.content] /\ w.content = Missing /\ w.file = "state"
      BY <1>1, <2>1, <3>4, <3>5, FilesAre, NeitherIs
    <3>7. 1 = Len(todo) /\ g[disk["state"].task] = disk["state"]
      BY <3>1, <3>3, <3>4, <3>6 DEF Leads, Archived
    <3>8. PICK t \in Tasks : t = disk["state"].task /\ t \in Files /\ t # "state"
      BY <1>1, StateFields, FilesAre
    <3>9. g[t] = disk[t]
      <4>1. \A i \in 1..Len(todo) : i = 1
        BY <3>7
      <4>2. \A i \in 1..Len(todo) : todo[i].file # t
        BY <3>3, <3>6, <3>8, <4>1
      <4>3. QED
        BY <3>1, <3>8, <4>2 DEF Leads, Turns
    <3>10. disk'[t] = disk[t]
      BY <2>1, <3>6, <3>8
    <3>11. QED
      BY <3>7, <3>8, <3>9, <3>10
  <2>6. QED
    BY <2>3, <2>4, <2>5
<1>2. QED
  BY <1>1, IInvAlways, PTL DEF Spec, RemovedOnlyWhenArchived
=============================================================================
