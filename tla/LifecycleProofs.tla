--------------------------- MODULE LifecycleProofs ---------------------------
(***************************************************************************)
(* Proofs about Lifecycle: every safety property its run checks, for any   *)
(* set of workers and invoices and any number of requests, crashes and     *)
(* tries.                                                                  *)
(*                                                                         *)
(* The code reads, decides, calls the AEAT and writes in separate steps,   *)
(* so what the properties say of the rows is not inductive: the invariant  *)
(* adds what each worker's place says of the rows it read (Work), that no  *)
(* two requests hold one draft (Apart), and that the series have given no  *)
(* number above their last (Numbered).  A worker's own step establishes    *)
(* its next place; the others keep theirs because records, verdicts, given *)
(* numbers and the AEAT's registry only grow (Grows, BystanderKeeps).      *)
(***************************************************************************)
EXTENDS Lifecycle, TLAPS, FiniteSetTheorems, SequenceTheorems

(* The inductive invariant *)

Rows == [num : Nat, annulled : BOOLEAN, correctedBy : Rects \cup {None}]
Entries == [rec : Records, attempts : Seq(Attempts)]
Ops == {"register", "submit", "redrive", "rectify", "annul"}
Outcomes == {"accepted", "rejected", "pending", "disabled"}
Requests == [op : Ops \cup {None}, inv : Ids \cup {None}, rect : Rects \cup {None},
             rec : Records \cup {None}, at : Nat, tries : Nat,
             outcome : Outcomes \cup {None}]

Typed ==
    /\ inv \in [Ids -> Rows]
    /\ last \in [F : Nat, R : Nat]
    /\ recs \in Seq(Entries)
    /\ aeat \subseteq Records
    /\ pc \in [Workers -> Places]
    /\ req \in [Workers -> Requests]
    /\ chain \in Workers \cup {None}
    /\ requests \in 0..MaxRequests /\ crashes \in 0..MaxCrashes
    /\ failed \subseteq Ids
    /\ live \in BOOLEAN

\* A series gives each number once and has given no number above its last.
Numbered ==
    /\ \A i \in Invoices : inv[i].num <= last.F
    /\ \A r \in Rects : inv[r].num <= last.R
    /\ \A i, j \in Ids : i # j /\ Issued(i) /\ Series(i) = Series(j) => inv[i].num # inv[j].num

\* A record names its invoice's number, which is what tells records apart.
Ledger ==
    /\ \A i \in Ids : Issued(i) /\ i \notin Legacy => AltasOf(i) # {}
    /\ \A k \in 1..Len(recs) :
          /\ Issued(recs[k].rec.inv)
          /\ recs[k].rec.key = <<Series(recs[k].rec.inv), inv[recs[k].rec.inv].num>>
          /\ recs[k].rec.kind = "anulacion" =>
                \E l \in 1..(k-1) : l \in AltasOf(recs[k].rec.inv)
          /\ \A l \in 1..(k-1) : ~SameIdFactura(recs[l].rec, recs[k].rec)

\* Why the record at k lets invoice i be marked annulled.
Reason(k, i) ==
    /\ recs[k].rec.inv = i
    /\ \/ recs[k].rec.kind = "anulacion" /\ (Accepted(k) \/ ~live)
       \/ recs[k].rec.kind = "alta" /\ "cancelled" \in Statuses(k)

Reasons == AnnulledForReason /\ CorrectedForReason /\ AcceptedMeansRegistered

\* A rectification under way: its draft has no number yet.
Drafting(w) ==
    /\ req[w].inv \in Ids /\ req[w].rect \in Rects /\ req[w].rect # req[w].inv
    /\ ~Issued(req[w].rect)

\* What is at the AEAT: the alta the open transaction will commit, or a record
\* of the registry.
Carried(w) ==
    /\ req[w].rec \in Records
    /\ req[w].op = "rectify" =>
          Drafting(w) /\ req[w].rec = AltaOf(req[w].rect, last.R + 1, req[w].inv)
    /\ req[w].op # "rectify" =>
          req[w].at \in 1..Len(recs) /\ req[w].rec = recs[req[w].at].rec
    /\ req[w].op = "annul" => req[w].rec.inv = req[w].inv /\ req[w].rec.kind = "anulacion"

\* What a worker's place says of its request and of the rows it has read.
Work(w) ==
    /\ chain = w <=> req[w].op = "rectify" /\ pc[w] \in {"sending", "answered"}
    /\ pc[w] \in {"registering", "rectifying", "annulling"} =>
          req[w].inv \in Ids /\ Issued(req[w].inv)
    /\ pc[w] = "rectifying" => req[w].op = "rectify" /\ Drafting(w)
    /\ pc[w] \in {"annulling", "cancelling", "marking"} => req[w].op = "annul"
    /\ pc[w] \in {"sending", "answered"} => Carried(w)
    /\ pc[w] \in {"rectifying", "annulling"} => req[w].tries = 0
    /\ pc[w] = "sending" => req[w].tries < MaxTries
    /\ pc[w] = "answered" =>
          /\ req[w].outcome \in Outcomes
          /\ req[w].outcome = "accepted" => req[w].rec \in aeat
          /\ req[w].outcome = "disabled" => ~live
    /\ pc[w] = "cancelling" =>
          /\ req[w].inv \in Ids
          /\ req[w].at \in AltasOf(req[w].inv)
          /\ req[w].tries \in 1..Len(recs[req[w].at].attempts)
          /\ recs[req[w].at].attempts[req[w].tries] \in {"pending", "cancelled"}
    /\ pc[w] = "marking" =>
          req[w].inv \in Ids /\ req[w].at \in 1..Len(recs) /\ Reason(req[w].at, req[w].inv)

\* Two requests never number the same draft.
Apart == \A v, w \in Workers : v # w /\ req[v].rect \in Rects => req[v].rect # req[w].rect

IInv == Typed /\ Numbered /\ Ledger /\ Reasons /\ Apart /\ \A w \in Workers : Work(w)

----------------------------------------------------------------------------
(* What the types say *)

LEMMA Bounds ==
    MaxTries \in Nat \ {0} /\ None \notin Workers /\ None \notin Ids /\ None \notin Rects
BY LifecycleAssumption DEF Ids

LEMMA RowFields ==
    ASSUME Typed, NEW i \in Ids
    PROVE  /\ inv[i] \in Rows
           /\ inv[i].num \in Nat /\ inv[i].annulled \in BOOLEAN
           /\ inv[i].correctedBy \in Rects \cup {None}
BY DEF Typed, Rows

LEMMA LastFields ==
    ASSUME Typed
    PROVE  last.F \in Nat /\ last.R \in Nat
BY DEF Typed

LEMMA RecordFields ==
    ASSUME NEW r \in Records
    PROVE  /\ r.inv \in Ids /\ r.kind \in {"alta", "anulacion"}
           /\ r.rectifies \in Ids \cup {None}
BY DEF Records

LEMMA EntryFields ==
    ASSUME NEW t \in Seq(Entries), NEW k \in 1..Len(t)
    PROVE  /\ t[k] \in Entries
           /\ t[k].rec \in Records /\ t[k].rec.inv \in Ids
           /\ t[k].rec.kind \in {"alta", "anulacion"}
           /\ t[k].attempts \in Seq(Attempts)
<1>1. t[k] \in Entries
  OBVIOUS
<1>2. t[k].rec \in Records /\ t[k].attempts \in Seq(Attempts)
  BY <1>1 DEF Entries
<1> QED
  BY <1>1, <1>2, RecordFields

LEMMA RecsAre ==
    /\ Typed => recs \in Seq(Entries) /\ Len(recs) \in Nat
    /\ Typed' => recs' \in Seq(Entries) /\ Len(recs') \in Nat
BY DEF Typed

LEMMA RequestFields ==
    ASSUME Typed, NEW w \in Workers
    PROVE  /\ req[w] \in Requests /\ pc[w] \in Places
           /\ req[w].op \in Ops \cup {None} /\ req[w].inv \in Ids \cup {None}
           /\ req[w].rect \in Rects \cup {None} /\ req[w].rec \in Records \cup {None}
           /\ req[w].at \in Nat /\ req[w].tries \in Nat
           /\ req[w].outcome \in Outcomes \cup {None}
BY DEF Typed, Requests

LEMMA NoRequestIsTyped == NoRequest \in Requests
BY DEF NoRequest, Requests

\* What Proceed does to the worker, and that it leaves the others alone.
LEMMA ProceedIs ==
    ASSUME Typed, NEW w \in Workers, NEW p \in Places, NEW r \in Requests, Proceed(w, p, r)
    PROVE  /\ pc' \in [Workers -> Places] /\ pc'[w] = p
           /\ req' \in [Workers -> Requests] /\ req'[w] = r
           /\ \A v \in Workers \ {w} : pc'[v] = pc[v] /\ req'[v] = req[v]
BY DEF Typed, Proceed

LEMMA FinishIs ==
    ASSUME Typed, NEW w \in Workers, Finish(w)
    PROVE  /\ pc' \in [Workers -> Places] /\ pc'[w] = "idle"
           /\ req' \in [Workers -> Requests] /\ req'[w] = NoRequest
           /\ \A v \in Workers \ {w} : pc'[v] = pc[v] /\ req'[v] = req[v]
<1>1. "idle" \in Places
  BY DEF Places
<1> QED
  BY <1>1, NoRequestIsTyped, ProceedIs DEF Finish

\* The fields of a record an invoice and its number give.
LEMMA AltaIs ==
    ASSUME NEW i \in Ids, NEW n \in Nat \ {0}, NEW o \in Ids \cup {None}
    PROVE  /\ AltaOf(i, n, o) \in Records
           /\ AltaOf(i, n, o).inv = i /\ AltaOf(i, n, o).kind = "alta"
           /\ AltaOf(i, n, o).key = <<Series(i), n>> /\ AltaOf(i, n, o).rectifies = o
BY DEF AltaOf, Records, Series

LEMMA EntryIs ==
    ASSUME NEW r \in Records
    PROVE  Entry(r) \in Entries /\ Entry(r).rec = r /\ Entry(r).attempts = << >>
BY DEF Entry, Entries

----------------------------------------------------------------------------
(* What every step keeps: the records and their verdicts, the numbers given, *)
(* the AEAT's registry, and the other workers                                *)

\* A step of HistoryIsKept.
KeepsHistory ==
    /\ Len(recs) <= Len(recs')
    /\ \A k \in 1..Len(recs) :
          LET old == recs[k].attempts
              new == recs'[k].attempts
          IN  /\ recs'[k].rec = recs[k].rec
              /\ Len(old) <= Len(new)
              /\ \A n \in 1..Len(old) :
                    new[n] # old[n] => old[n] = "pending" /\ new[n] = "cancelled"

Grows ==
    /\ KeepsHistory
    /\ aeat \subseteq aeat' /\ live' = live
    /\ \A i \in Ids : Issued(i) => inv'[i].num = inv[i].num

Beside(v) ==
    /\ pc'[v] = pc[v] /\ req'[v] = req[v]
    /\ chain' = v <=> chain = v
    /\ chain = v => last'.R = last.R
    /\ req[v].rect \in Rects /\ ~Issued(req[v].rect) => inv'[req[v].rect].num = 0

LEMMA StatusesStay ==
    ASSUME Typed, Typed', KeepsHistory, NEW k \in 1..Len(recs),
           NEW s \in {"accepted", "rejected", "cancelled"}, s \in Statuses(k)
    PROVE  k \in 1..Len(recs') /\ s \in Statuses(k)'
<1>1. k \in 1..Len(recs')
  BY RecsAre DEF KeepsHistory
<1>2. PICK n \in 1..Len(recs[k].attempts) : recs[k].attempts[n] = s
  BY DEF Statuses
<1>3. recs[k].attempts \in Seq(Attempts) /\ recs'[k].attempts \in Seq(Attempts)
  BY <1>1, RecsAre, EntryFields
<1>4. Len(recs[k].attempts) <= Len(recs'[k].attempts) /\ recs'[k].attempts[n] = s
  BY <1>2 DEF KeepsHistory
<1>5. n \in 1..Len(recs'[k].attempts)
  BY <1>3, <1>4
<1> QED
  BY <1>1, <1>4, <1>5 DEF Statuses

LEMMA AltasStay ==
    ASSUME Typed, Typed', KeepsHistory, NEW i, NEW k \in AltasOf(i)
    PROVE  k \in AltasOf(i)'
BY RecsAre DEF AltasOf, KeepsHistory

LEMMA ReasonStays ==
    ASSUME Typed, Typed', Grows, NEW k \in 1..Len(recs), NEW i, Reason(k, i)
    PROVE  k \in 1..Len(recs') /\ Reason(k, i)'
<1>1. KeepsHistory /\ live' = live
  BY DEF Grows
<1>2. k \in 1..Len(recs') /\ recs'[k].rec = recs[k].rec
  BY <1>1, RecsAre DEF KeepsHistory
<1>3. Accepted(k) => Accepted(k)'
  BY <1>1, StatusesStay DEF Accepted
<1>4. "cancelled" \in Statuses(k) => "cancelled" \in Statuses(k)'
  BY <1>1, StatusesStay
<1> QED
  BY <1>1, <1>2, <1>3, <1>4 DEF Reason

LEMMA BystanderKeeps ==
    ASSUME Typed, Typed', Grows, NEW v \in Workers, Work(v), Beside(v)
    PROVE  Work(v)'
<1>1. /\ KeepsHistory /\ live' = live /\ aeat \subseteq aeat'
      /\ \A i \in Ids : Issued(i) => inv'[i].num = inv[i].num
  BY DEF Grows
<1>2. pc'[v] = pc[v] /\ req'[v] = req[v] /\ (chain' = v <=> chain = v)
  BY DEF Beside
<1>3. \A i \in Ids : Issued(i) => Issued(i)'
  BY <1>1 DEF Issued
<1>4. Drafting(v) => Drafting(v)'
  BY <1>2 DEF Drafting, Beside, Issued
<1>5. Len(recs) \in Nat /\ Len(recs') \in Nat /\ Len(recs) <= Len(recs')
  BY <1>1, RecsAre DEF KeepsHistory
<1>6. ASSUME pc[v] \in {"sending", "answered"}
      PROVE  Carried(v)'
  <2>1. Carried(v)
    BY <1>6 DEF Work
  <2>2. req[v].op = "rectify" => chain = v
    BY <1>6 DEF Work
  <2>3. req[v].op = "rectify" => last'.R = last.R
    BY <2>2 DEF Beside
  <2>4. ASSUME req[v].op = "rectify"
        PROVE  req'[v].rec = AltaOf(req[v].rect, last.R + 1, req[v].inv)'
    BY <2>1, <2>3, <2>4, <1>2 DEF Carried, AltaOf, Series
  <2>5. ASSUME req[v].op # "rectify"
        PROVE  req[v].at \in 1..Len(recs') /\ req[v].rec = recs'[req[v].at].rec
    BY <2>1, <2>5, <1>1, <1>5 DEF Carried, KeepsHistory
  <2>6. (req[v].op = "rectify" => Drafting(v)') /\ req[v].rec \in Records
    BY <2>1, <1>4 DEF Carried
  <2>7. req[v].op = "annul" => req[v].rec.inv = req[v].inv /\ req[v].rec.kind = "anulacion"
    BY <2>1 DEF Carried
  <2> QED
    BY <2>4, <2>5, <2>6, <2>7, <1>2 DEF Carried
<1>7. ASSUME pc[v] = "cancelling"
      PROVE  /\ req[v].inv \in Ids /\ req'[v].at \in AltasOf(req[v].inv)'
             /\ req[v].tries \in 1..Len(recs'[req[v].at].attempts)
             /\ recs'[req[v].at].attempts[req[v].tries] \in {"pending", "cancelled"}
  <2>1. PICK i \in Ids, k \in 1..Len(recs), n \in Nat :
           /\ req[v].inv = i /\ req[v].at = k /\ req[v].tries = n
           /\ k \in AltasOf(i) /\ n \in 1..Len(recs[k].attempts)
           /\ recs[k].attempts[n] \in {"pending", "cancelled"}
    BY <1>7 DEF Work, AltasOf
  <2>2. k \in AltasOf(i)'
    BY <2>1, <1>1, AltasStay
  <2>3. k \in 1..Len(recs')
    BY <2>2 DEF AltasOf
  <2>4. recs[k].attempts \in Seq(Attempts) /\ recs'[k].attempts \in Seq(Attempts)
    BY <2>3, RecsAre, EntryFields
  <2>5. /\ Len(recs[k].attempts) <= Len(recs'[k].attempts)
        /\ recs'[k].attempts[n] # recs[k].attempts[n] => recs'[k].attempts[n] = "cancelled"
    BY <2>1, <1>1 DEF KeepsHistory
  <2>6. n \in 1..Len(recs'[k].attempts)
    BY <2>1, <2>4, <2>5
  <2>7. recs'[k].attempts[n] \in {"pending", "cancelled"}
    BY <2>1, <2>5
  <2> QED
    BY <2>1, <2>2, <2>6, <2>7, <1>2
<1>8. ASSUME pc[v] = "marking"
      PROVE  req[v].inv \in Ids /\ req[v].at \in 1..Len(recs') /\ Reason(req[v].at, req[v].inv)'
  <2>1. req[v].inv \in Ids /\ req[v].at \in 1..Len(recs) /\ Reason(req[v].at, req[v].inv)
    BY <1>8 DEF Work
  <2>2. PICK k \in 1..Len(recs) : k = req[v].at
    BY <2>1
  <2>3. PICK i \in Ids : i = req[v].inv
    BY <2>1
  <2>4. Reason(k, i)
    BY <2>1, <2>2, <2>3
  <2>5. k \in 1..Len(recs') /\ Reason(k, i)'
    BY <2>4, ReasonStays
  <2>6. req'[v].at = k /\ req'[v].inv = i
    BY <1>2, <2>2, <2>3
  <2> QED
    BY <2>2, <2>3, <2>5, <2>6, <1>2
<1> QED
  BY <1>1, <1>2, <1>3, <1>4, <1>6, <1>7, <1>8 DEF Work
\* Why original i is linked to rectificativa r.
Settles(k, r, i) == k \in AltasOf(r) /\ recs[k].rec.rectifies = i /\ (Accepted(k) \/ ~live)

LEMMA SettlesStays ==
    ASSUME Typed, Typed', Grows, NEW k, NEW r, NEW i, Settles(k, r, i)
    PROVE  Settles(k, r, i)'
<1>1. KeepsHistory /\ live' = live
  BY DEF Grows
<1>2. k \in AltasOf(r)' /\ k \in 1..Len(recs)
  BY <1>1, AltasStay DEF Settles, AltasOf
<1>3. recs'[k].rec = recs[k].rec
  BY <1>1, <1>2 DEF KeepsHistory
<1>4. Accepted(k) => Accepted(k)'
  BY <1>1, <1>2, StatusesStay DEF Accepted
<1> QED
  BY <1>1, <1>2, <1>3, <1>4 DEF Settles

LEMMA AnnulledStay ==
    ASSUME Typed, Typed', Grows, AnnulledForReason,
           \A i \in Ids : inv'[i].annulled => inv[i].annulled
    PROVE  AnnulledForReason'
<1> SUFFICES ASSUME NEW i \in Ids, inv'[i].annulled
             PROVE  \E k \in 1..Len(recs') : Reason(k, i)'
  BY DEF AnnulledForReason, Reason
<1>1. PICK k \in 1..Len(recs) : Reason(k, i)
  BY DEF AnnulledForReason, Reason
<1> QED
  BY <1>1, ReasonStays

LEMMA CorrectedStay ==
    ASSUME Typed, Typed', Grows, CorrectedForReason,
           \A i \in Ids : inv'[i].correctedBy = inv[i].correctedBy
    PROVE  CorrectedForReason'
<1> SUFFICES ASSUME NEW i \in Ids, NEW r, r = inv[i].correctedBy, r # None
             PROVE  \E k : Settles(k, r, i)'
  BY DEF CorrectedForReason, Settles
<1>1. PICK k : Settles(k, r, i)
  BY DEF CorrectedForReason, Settles
<1> QED
  BY <1>1, SettlesStays

LEMMA QuietKeeps ==
    ASSUME Typed, Numbered, Ledger, Reasons, UNCHANGED <<inv, last, recs, live>>,
           aeat \subseteq aeat'
    PROVE  Grows /\ Numbered' /\ Ledger' /\ Reasons'
<1>1. Grows
  BY RecsAre, EntryFields DEF Grows, KeepsHistory
<1>2. Numbered'
  BY DEF Numbered, Issued
<1>3. \A i : AltasOf(i)' = AltasOf(i)
  BY DEF AltasOf
<1>4. Ledger'
  BY <1>3 DEF Ledger, Issued, SameIdFactura
<1>5. \A k : Accepted(k)' <=> Accepted(k)
  BY DEF Accepted, Statuses
<1>6. AnnulledForReason'
  BY <1>5 DEF Reasons, AnnulledForReason, Statuses
<1>7. CorrectedForReason'
  BY <1>3, <1>5 DEF Reasons, CorrectedForReason
<1>8. AcceptedMeansRegistered'
  BY <1>5 DEF Reasons, AcceptedMeansRegistered
<1> QED
  BY <1>1, <1>2, <1>4, <1>6, <1>7, <1>8 DEF Reasons

LEMMA ApartStays ==
    ASSUME Apart, NEW w \in Workers, req'[w].rect \in {None, req[w].rect},
           \A v \in Workers \ {w} : req'[v] = req[v]
    PROVE  Apart'
BY Bounds DEF Apart

\* A step of worker w alone that writes no row.
LEMMA QuietStep ==
    ASSUME IInv, NEW w \in Workers, Typed', Apart', Work(w)',
           UNCHANGED <<inv, last, recs, live>>, aeat \subseteq aeat',
           \A v \in Workers \ {w} :
              pc'[v] = pc[v] /\ req'[v] = req[v] /\ (chain' = v <=> chain = v)
    PROVE  IInv' /\ KeepsHistory
<1>1. Grows /\ Numbered' /\ Ledger' /\ Reasons'
  BY QuietKeeps DEF IInv
<1>2. \A v \in Workers \ {w} : Beside(v)
  BY DEF Beside, Issued
<1>3. \A v \in Workers : Work(v)'
  BY <1>1, <1>2, BystanderKeeps DEF IInv
<1> QED
  BY <1>1, <1>3 DEF IInv, Grows

\* A finished request asks nothing of the rows.
LEMMA IdleWork ==
    ASSUME NEW w \in Workers, pc'[w] = "idle", chain' # w
    PROVE  Work(w)'
BY DEF Work

----------------------------------------------------------------------------
(* Steps that write no row *)

LEMMA InitEstablishes == Init => IInv
<1> SUFFICES ASSUME Init PROVE IInv
  OBVIOUS
<1>1. PICK old \in SUBSET Legacy : \E rank \in [old -> 1..Cardinality(old)] :
         /\ \A i, j \in old : i # j => rank[i] # rank[j]
         /\ inv = [i \in Ids |-> [num |-> IF i \in old THEN rank[i] ELSE 0,
                                  annulled |-> FALSE, correctedBy |-> None]]
         /\ last = [F |-> Cardinality(old), R |-> 0]
  BY DEF Init
<1>2. PICK rank \in [old -> 1..Cardinality(old)] :
         /\ \A i, j \in old : i # j => rank[i] # rank[j]
         /\ inv = [i \in Ids |-> [num |-> IF i \in old THEN rank[i] ELSE 0,
                                  annulled |-> FALSE, correctedBy |-> None]]
         /\ last = [F |-> Cardinality(old), R |-> 0]
  BY <1>1
<1>3. Cardinality(old) \in Nat
  BY LifecycleAssumption, FS_Subset, FS_CardinalityType
<1>4. old \subseteq Invoices /\ old \cap Rects = {}
  BY LifecycleAssumption
<1>5. \A i \in Ids : /\ inv[i].num = (IF i \in old THEN rank[i] ELSE 0)
                     /\ inv[i].annulled = FALSE /\ inv[i].correctedBy = None
                     /\ inv[i] \in Rows
  BY <1>2, <1>3 DEF Rows
<1>6. last.F = Cardinality(old) /\ last.R = 0 /\ last \in [F : Nat, R : Nat]
  BY <1>2, <1>3
<1>7. /\ recs = << >> /\ aeat = {} /\ chain = None
      /\ pc = [w \in Workers |-> "idle"] /\ req = [w \in Workers |-> NoRequest]
      /\ requests = 0 /\ crashes = 0 /\ failed = {} /\ live \in BOOLEAN
  BY DEF Init
<1>8. Typed
  <2>1. inv \in [Ids -> Rows]
    BY <1>2, <1>5
  <2>2. req \in [Workers -> Requests] /\ pc \in [Workers -> Places]
    BY <1>7, NoRequestIsTyped DEF Places
  <2>3. recs \in Seq(Entries)
    BY <1>7
  <2> QED
    BY <2>1, <2>2, <2>3, <1>6, <1>7, LifecycleAssumption DEF Typed
<1>9. Numbered
  <2>1. \A i \in Ids : Issued(i) => i \in old
    BY <1>5 DEF Issued
  <2>2. \A i \in Invoices : inv[i].num <= last.F
    BY <1>3, <1>5, <1>6 DEF Ids
  <2>3. \A r \in Rects : inv[r].num <= last.R
    BY <1>4, <1>5, <1>6 DEF Ids
  <2>4. ASSUME NEW i \in Ids, NEW j \in Ids, i # j, Issued(i)
        PROVE  inv[i].num # inv[j].num
    BY <2>1, <2>4, <1>2, <1>3, <1>5 DEF Issued
  <2> QED
    BY <2>2, <2>3, <2>4 DEF Numbered
<1>10. Ledger
  <2>1. \A i \in Ids : Issued(i) => i \in Legacy
    BY <1>5 DEF Issued
  <2>2. Len(recs) = 0
    BY <1>7
  <2> QED
    BY <2>1, <2>2 DEF Ledger
<1>11. Reasons
  BY <1>5, <1>7 DEF Reasons, AnnulledForReason, CorrectedForReason, AcceptedMeansRegistered
<1>12. Apart
  BY <1>7, Bounds DEF Apart, NoRequest
<1>13. \A w \in Workers : Work(w)
  BY <1>7, Bounds DEF Work
<1> QED
  BY <1>8, <1>9, <1>10, <1>11, <1>12, <1>13 DEF IInv
----------------------------------------------------------------------------
(* Starting a request *)

LEMMA BeginIs ==
    ASSUME IInv, NEW w \in Workers, NEW p \in Places, NEW r \in Requests, Begin(w, p, r),
           UNCHANGED <<inv, last, recs, aeat, chain, crashes, failed, live>>
    PROVE  /\ Typed' /\ pc'[w] = p /\ req'[w] = r /\ chain' # w
           /\ \A v \in Workers \ {w} : pc'[v] = pc[v] /\ req'[v] = req[v]
<1>1. Typed /\ Work(w)
  BY DEF IInv
<1>2. /\ pc' \in [Workers -> Places] /\ pc'[w] = p
      /\ req' \in [Workers -> Requests] /\ req'[w] = r
      /\ \A v \in Workers \ {w} : pc'[v] = pc[v] /\ req'[v] = req[v]
  BY <1>1, ProceedIs DEF Begin
<1>3. requests' \in 0..MaxRequests
  BY <1>1, LifecycleAssumption DEF Begin, Typed
<1>4. chain # w
  BY <1>1 DEF Begin, Work
<1> QED
  BY <1>1, <1>2, <1>3, <1>4 DEF Typed

\* A new request names its operation and its invoices, or its record.
Ask(op, i, d, c, k) == [op |-> op, inv |-> i, rect |-> d, rec |-> c, at |-> k, tries |-> 0,
                        outcome |-> None]

LEMMA OpsAre ==
    "register" \in Ops /\ "submit" \in Ops /\ "redrive" \in Ops /\ "rectify" \in Ops
      /\ "annul" \in Ops
BY DEF Ops

LEMMA AskInvoice ==
    ASSUME NEW op, NEW i, NEW r, r = [NoRequest EXCEPT !.op = op, !.inv = i]
    PROVE  r = Ask(op, i, None, None, 0)
BY DEF NoRequest, Ask

LEMMA AskDraft ==
    ASSUME NEW op, NEW i, NEW d, NEW r, r = [NoRequest EXCEPT !.op = op, !.inv = i, !.rect = d]
    PROVE  r = Ask(op, i, d, None, 0)
BY DEF NoRequest, Ask

LEMMA AskRecord ==
    ASSUME NEW op, NEW c, NEW k, NEW r, r = [NoRequest EXCEPT !.op = op, !.at = k, !.rec = c]
    PROVE  r = Ask(op, None, None, c, k)
BY DEF NoRequest, Ask

LEMMA RegisterLoadStep ==
    ASSUME IInv, NEW w \in Workers, NEW i \in Ids, RegisterLoad(w, i)
    PROVE  IInv' /\ KeepsHistory
<1>0. PICK r : r = [NoRequest EXCEPT !.op = "register", !.inv = i]
  OBVIOUS
<1>1. /\ r \in Requests /\ r.inv = i /\ r.rect = None /\ r.op = "register" /\ r.tries = 0
  <2>1. r = Ask("register", i, None, None, 0)
    BY <1>0, AskInvoice
  <2> QED
    BY <2>1, OpsAre DEF Ask, Requests
<1>2. Begin(w, "registering", r) /\ UNCHANGED <<inv, last, recs, aeat, chain, crashes, failed, live>>
  BY <1>0 DEF RegisterLoad
<1>3. /\ Typed' /\ pc'[w] = "registering" /\ req'[w] = r /\ chain' # w
      /\ \A v \in Workers \ {w} : pc'[v] = pc[v] /\ req'[v] = req[v]
  BY <1>1, <1>2, BeginIs DEF Places
<1>4. Work(w)'
  BY <1>1, <1>2, <1>3 DEF Work, RegisterLoad, Issued
<1>5. Apart'
  BY <1>1, <1>3, ApartStays DEF IInv
<1> QED
  BY <1>2, <1>3, <1>4, <1>5, QuietStep

LEMMA AnnulLoadStep ==
    ASSUME IInv, NEW w \in Workers, NEW i \in Ids, AnnulLoad(w, i)
    PROVE  IInv' /\ KeepsHistory
<1>0. PICK r : r = [NoRequest EXCEPT !.op = "annul", !.inv = i]
  OBVIOUS
<1>1. /\ r \in Requests /\ r.inv = i /\ r.rect = None /\ r.op = "annul" /\ r.tries = 0
  <2>1. r = Ask("annul", i, None, None, 0)
    BY <1>0, AskInvoice
  <2> QED
    BY <2>1, OpsAre DEF Ask, Requests
<1>2. Begin(w, "annulling", r) /\ UNCHANGED <<inv, last, recs, aeat, chain, crashes, failed, live>>
  BY <1>0 DEF AnnulLoad
<1>3. /\ Typed' /\ pc'[w] = "annulling" /\ req'[w] = r /\ chain' # w
      /\ \A v \in Workers \ {w} : pc'[v] = pc[v] /\ req'[v] = req[v]
  BY <1>1, <1>2, BeginIs DEF Places
<1>4. Work(w)'
  BY <1>1, <1>2, <1>3 DEF Work, AnnulLoad, Issued
<1>5. Apart'
  BY <1>1, <1>3, ApartStays DEF IInv
<1> QED
  BY <1>2, <1>3, <1>4, <1>5, QuietStep

LEMMA RectifyLoadStep ==
    ASSUME IInv, NEW w \in Workers, NEW i \in Ids, NEW d \in Rects, RectifyLoad(w, i, d)
    PROVE  IInv' /\ KeepsHistory
<1>0. PICK r : r = [NoRequest EXCEPT !.op = "rectify", !.inv = i, !.rect = d]
  OBVIOUS
<1>1. /\ r \in Requests /\ r.inv = i /\ r.rect = d /\ r.op = "rectify" /\ r.tries = 0
  <2>1. r = Ask("rectify", i, d, None, 0)
    BY <1>0, AskDraft
  <2> QED
    BY <2>1, OpsAre DEF Ask, Requests
<1>2. /\ Begin(w, "rectifying", r)
      /\ UNCHANGED <<inv, last, recs, aeat, chain, crashes, failed, live>>
      /\ i # d /\ Issued(i) /\ ~Issued(d) /\ \A v \in Workers : req[v].rect # d
  BY <1>0 DEF RectifyLoad, Fresh
<1>3. /\ Typed' /\ pc'[w] = "rectifying" /\ req'[w] = r /\ chain' # w
      /\ \A v \in Workers \ {w} : pc'[v] = pc[v] /\ req'[v] = req[v]
  BY <1>1, <1>2, BeginIs DEF Places
<1>4. Work(w)'
  BY <1>1, <1>2, <1>3 DEF Work, Drafting, Issued
<1>5. Apart'
  BY <1>1, <1>2, <1>3 DEF Apart, IInv
<1> QED
  BY <1>2, <1>3, <1>4, <1>5, QuietStep

\* A record of the registry goes to the AEAT, outside any transaction.
LEMMA SendingWork ==
    ASSUME Typed', NEW w \in Workers, pc'[w] = "sending", chain' # w,
           req'[w].op # "rectify", req'[w].op # "annul", req'[w].tries = 0,
           req'[w].at \in 1..Len(recs'), req'[w].rec = recs'[req'[w].at].rec
    PROVE  Work(w)'
<1>1. req'[w].rec \in Records
  BY RecsAre, EntryFields
<1> QED
  BY <1>1, Bounds DEF Work, Carried

LEMMA SendRecordStep ==
    ASSUME IInv, NEW w \in Workers, NEW k \in 1..Len(recs), NEW op \in {"submit", "redrive"},
           NEW r, r = Ask(op, None, None, recs[k].rec, k), Begin(w, "sending", r),
           UNCHANGED <<inv, last, recs, aeat, chain, crashes, failed, live>>
    PROVE  IInv' /\ KeepsHistory
<1>0. Typed
  BY DEF IInv
<1>1. k \in Nat /\ recs[k].rec \in Records
  BY <1>0, RecsAre, EntryFields
<1>2. op \in Ops
  BY OpsAre
<1>3. /\ r \in Requests /\ r.op = op /\ r.rect = None /\ r.at = k /\ r.tries = 0
      /\ r.rec = recs[k].rec
  BY <1>1, <1>2 DEF Ask, Requests
<1>4. /\ Typed' /\ pc'[w] = "sending" /\ req'[w] = r /\ chain' # w
      /\ \A v \in Workers \ {w} : pc'[v] = pc[v] /\ req'[v] = req[v]
  BY <1>3, BeginIs DEF Places
<1>5. Work(w)'
  BY <1>3, <1>4, SendingWork
<1>6. Apart'
  BY <1>3, <1>4, ApartStays DEF IInv
<1> QED
  BY <1>4, <1>5, <1>6, QuietStep

\* An invoice has one alta: two would have one number and kind.
LEMMA OneAlta ==
    ASSUME Typed, Ledger, NEW i, NEW k \in AltasOf(i), NEW l \in AltasOf(i)
    PROVE  k = l
<1>1. /\ k \in 1..Len(recs) /\ l \in 1..Len(recs) /\ Len(recs) \in Nat
      /\ recs[k].rec.inv = i /\ recs[l].rec.inv = i
      /\ recs[k].rec.kind = "alta" /\ recs[l].rec.kind = "alta"
  BY RecsAre DEF AltasOf
<1>2. SameIdFactura(recs[k].rec, recs[l].rec) /\ SameIdFactura(recs[l].rec, recs[k].rec)
  BY <1>1 DEF Ledger, SameIdFactura
<1>3. ~(k < l) /\ ~(l < k)
  BY <1>1, <1>2 DEF Ledger
<1> QED
  BY <1>1, <1>3

\* The alta that is looked up is that one; 0 says that there is none.
LEMMA OriginalIsAlta ==
    ASSUME Typed, Ledger, NEW i
    PROVE  /\ AltasOf(i) # {} => OriginalAlta(i) \in AltasOf(i)
           /\ OriginalAlta(i) # 0 => OriginalAlta(i) \in AltasOf(i)
<1>1. ASSUME NEW k \in AltasOf(i)
      PROVE  OriginalAlta(i) \in AltasOf(i)
  <2>1. \A l \in AltasOf(i) : l = k
    BY OneAlta
  <2>0. k \in Nat
    BY RecsAre DEF AltasOf
  <2>2. \E m \in AltasOf(i) : \A l \in AltasOf(i) : m <= l
    BY <2>0, <2>1
  <2> QED
    BY <2>2 DEF OriginalAlta
<1> QED
  BY <1>1 DEF OriginalAlta

LEMMA SubmitStep ==
    ASSUME IInv, NEW w \in Workers, NEW i \in Ids, Submit(w, i)
    PROVE  IInv' /\ KeepsHistory
<1>1. PICK k : k = OriginalAlta(i)
  OBVIOUS
<1>2. k \in 1..Len(recs)
  BY <1>1, OriginalIsAlta DEF IInv, Submit, AltasOf
<1>3. PICK r : r = [NoRequest EXCEPT !.op = "submit", !.at = k, !.rec = recs[k].rec]
  OBVIOUS
<1>4. Begin(w, "sending", r) /\ UNCHANGED <<inv, last, recs, aeat, chain, crashes, failed, live>>
  BY <1>1, <1>3 DEF Submit
<1>5. r = Ask("submit", None, None, recs[k].rec, k)
  BY <1>3, AskRecord
<1> QED
  BY <1>2, <1>4, <1>5, SendRecordStep

LEMMA RedriveStep ==
    ASSUME IInv, NEW w \in Workers, NEW k \in 1..Len(recs), Redrive(w, k)
    PROVE  IInv' /\ KeepsHistory
<1>1. PICK r : r = [NoRequest EXCEPT !.op = "redrive", !.at = k, !.rec = recs[k].rec]
  OBVIOUS
<1>2. Begin(w, "sending", r) /\ UNCHANGED <<inv, last, recs, aeat, chain, crashes, failed, live>>
  BY <1>1 DEF Redrive
<1>3. r = Ask("redrive", None, None, recs[k].rec, k)
  BY <1>1, AskRecord
<1> QED
  BY <1>2, <1>3, SendRecordStep

----------------------------------------------------------------------------
(* The tries of a submission *)

SameErrand(r, q) == r.op = q.op /\ r.inv = q.inv /\ r.rect = q.rect /\ r.rec = q.rec /\ r.at = q.at

LEMMA AfterTry ==
    ASSUME IInv, NEW w \in Workers, pc[w] = "sending",
           NEW p \in {"sending", "answered"}, NEW r \in Requests, Proceed(w, p, r),
           SameErrand(r, req[w]),
           p = "sending" => r.tries < MaxTries,
           p = "answered" => /\ r.outcome \in Outcomes
                             /\ r.outcome = "accepted" => req[w].rec \in aeat'
                             /\ r.outcome = "disabled" => ~live,
           aeat \subseteq aeat', aeat' \subseteq Records,
           UNCHANGED <<inv, last, recs, chain, requests, crashes, failed, live>>
    PROVE  IInv' /\ KeepsHistory
<1>1. Typed /\ Work(w)
  BY DEF IInv
<1>2. p \in Places
  BY DEF Places
<1>3. /\ pc' \in [Workers -> Places] /\ pc'[w] = p
      /\ req' \in [Workers -> Requests] /\ req'[w] = r
      /\ \A v \in Workers \ {w} : pc'[v] = pc[v] /\ req'[v] = req[v]
  BY <1>1, <1>2, ProceedIs
<1>4. Typed'
  BY <1>1, <1>3 DEF Typed
<1>5. Carried(w)
  BY <1>1 DEF Work
<1>6. Carried(w)'
  BY <1>3, <1>5 DEF Carried, Drafting, SameErrand, AltaOf, Series, Issued
<1>7. chain' = w <=> req'[w].op = "rectify"
  BY <1>1, <1>3 DEF Work, SameErrand
<1>8. Work(w)'
  BY <1>3, <1>6, <1>7 DEF Work, SameErrand
<1>9. Apart'
  BY <1>3, ApartStays DEF SameErrand, IInv
<1> QED
  BY <1>3, <1>4, <1>8, <1>9, QuietStep

\* The request with its outcome, or with one more try.
LEMMA OutcomeIs ==
    ASSUME Typed, NEW w \in Workers, NEW s \in Outcomes, Outcome(w, s)
    PROVE  \E r \in Requests : /\ Proceed(w, "answered", r)
                               /\ SameErrand(r, req[w]) /\ r.outcome = s
<1>1. PICK q \in Requests : q = req[w]
  BY RequestFields
<1>2. PICK r : r = [q EXCEPT !.outcome = s, !.tries = 0]
  OBVIOUS
<1>3. r \in Requests /\ SameErrand(r, q) /\ r.outcome = s
  BY <1>2 DEF Requests, SameErrand
<1> QED
  BY <1>1, <1>2, <1>3 DEF Outcome

LEMMA TransportErrorIs ==
    ASSUME IInv, NEW w \in Workers, pc[w] = "sending", TransportError(w)
    PROVE  \E p \in {"sending", "answered"}, r \in Requests :
              /\ Proceed(w, p, r) /\ SameErrand(r, req[w])
              /\ p = "sending" => r.tries < MaxTries
              /\ p = "answered" => r.outcome = "pending"
<1>1. Typed /\ Work(w)
  BY DEF IInv
<1>2. CASE LastTry(w)
  <2>1. Outcome(w, "pending")
    BY <1>2 DEF TransportError
  <2> QED
    BY <1>1, <2>1, OutcomeIs DEF Outcomes
<1>3. CASE ~LastTry(w)
  <2>1. PICK q \in Requests : q = req[w]
    BY <1>1, RequestFields
  <2>2. PICK r : r = [q EXCEPT !.tries = @ + 1]
    OBVIOUS
  <2>3. r \in Requests /\ SameErrand(r, q) /\ r.tries = q.tries + 1
    BY <2>2 DEF Requests, SameErrand
  <2>4. q.tries \in Nat /\ q.tries < MaxTries /\ q.tries + 1 # MaxTries
    BY <1>1, <1>3, <2>1, RequestFields DEF Work, LastTry
  <2>5. r.tries < MaxTries
    BY <2>3, <2>4, Bounds
  <2>6. Proceed(w, "sending", r)
    BY <1>3, <2>1, <2>2 DEF TransportError
  <2> QED
    BY <2>1, <2>3, <2>5, <2>6
<1> QED
  BY <1>2, <1>3

LEMMA DisabledStep ==
    ASSUME IInv, NEW w \in Workers, Disabled(w)
    PROVE  IInv' /\ KeepsHistory
<1>1. Typed
  BY DEF IInv
<1>2. Outcome(w, "disabled") /\ "disabled" \in Outcomes
  BY DEF Disabled, Outcomes
<1>3. PICK r \in Requests : /\ Proceed(w, "answered", r)
                            /\ SameErrand(r, req[w]) /\ r.outcome = "disabled"
  BY <1>1, <1>2, OutcomeIs
<1>4. /\ pc[w] = "sending" /\ ~live
      /\ UNCHANGED <<inv, last, recs, aeat, chain, requests, crashes, failed, live>>
  BY DEF Disabled
<1> QED
  BY <1>1, <1>2, <1>3, <1>4, AfterTry DEF Typed

\* Whatever the AEAT replies, its registry only grows, and it holds what it has
\* accepted.
LEMMA ReplyIs ==
    ASSUME Typed, NEW c \in Records, NEW r \in Replies(c)
    PROVE  /\ aeat \subseteq r[1] /\ r[1] \subseteq Records
           /\ Verdict(r[2]) \in {"accepted", "rejected", "transport error"}
           /\ Verdict(r[2]) = "accepted" => c \in r[1]
<1>1. aeat \subseteq Records
  BY DEF Typed
<1>2. CASE \E e \in {"Incorrecto", "Rechazado", "fault"} : r = <<aeat, e>>
  BY <1>1, <1>2 DEF Verdict
<1>3. CASE \E e \in {"Correcto", "AceptadoConErrores"} : r = <<aeat \cup {c}, e>>
  BY <1>1, <1>3 DEF Verdict
<1>4. r \in {<<aeat, e>> : e \in {"Incorrecto", "Rechazado", "fault"}}
         \/ r \in {<<aeat \cup {c}, e>> : e \in {"Correcto", "AceptadoConErrores"}}
  BY DEF Replies
<1> QED
  BY <1>2, <1>3, <1>4

LEMMA ReplyStep ==
    ASSUME IInv, NEW w \in Workers, Reply(w)
    PROVE  IInv' /\ KeepsHistory
<1>1. Typed /\ Work(w)
  BY DEF IInv
<1>2. /\ pc[w] = "sending"
      /\ UNCHANGED <<inv, last, recs, chain, requests, crashes, failed, live>>
  BY DEF Reply
<1>3. req[w].rec \in Records
  BY <1>1, <1>2 DEF Work, Carried
<1>4. PICK r \in Replies(req[w].rec) :
         /\ aeat' = r[1]
         /\ IF Verdict(r[2]) = "transport error" THEN TransportError(w)
            ELSE Outcome(w, Verdict(r[2]))
  BY DEF Reply
<1>5. /\ aeat \subseteq aeat' /\ aeat' \subseteq Records
      /\ Verdict(r[2]) \in {"accepted", "rejected", "transport error"}
      /\ Verdict(r[2]) = "accepted" => req[w].rec \in aeat'
  BY <1>1, <1>3, <1>4, ReplyIs
<1>6. CASE Verdict(r[2]) = "transport error"
  <2>1. PICK p \in {"sending", "answered"}, q \in Requests :
           /\ Proceed(w, p, q) /\ SameErrand(q, req[w])
           /\ p = "sending" => q.tries < MaxTries
           /\ p = "answered" => q.outcome = "pending"
    BY <1>2, <1>4, <1>6, TransportErrorIs
  <2> QED
    BY <1>2, <1>5, <2>1, AfterTry DEF Outcomes
<1>7. CASE Verdict(r[2]) \in {"accepted", "rejected"}
  <2>1. PICK s \in Outcomes : s = Verdict(r[2]) /\ s # "disabled"
    BY <1>7 DEF Outcomes
  <2>2. PICK q \in Requests : Proceed(w, "answered", q) /\ SameErrand(q, req[w]) /\ q.outcome = s
    BY <1>1, <1>4, <1>7, <2>1, OutcomeIs
  <2> QED
    BY <1>2, <1>5, <2>1, <2>2, AfterTry
<1> QED
  BY <1>5, <1>6, <1>7

LEMMA NoReplyStep ==
    ASSUME IInv, NEW w \in Workers, NoReply(w)
    PROVE  IInv' /\ KeepsHistory
<1>1. Typed /\ Work(w)
  BY DEF IInv
<1>2. /\ pc[w] = "sending" /\ TransportError(w)
      /\ UNCHANGED <<inv, last, recs, chain, requests, crashes, failed, live>>
  BY DEF NoReply
<1>3. req[w].rec \in Records
  BY <1>1, <1>2 DEF Work, Carried
<1>4. aeat \subseteq aeat' /\ aeat' \subseteq Records
  <2>1. aeat' = aeat \/ \E r \in Replies(req[w].rec) : aeat' = r[1]
    BY DEF NoReply
  <2>2. aeat \subseteq Records
    BY <1>1 DEF Typed
  <2> QED
    BY <1>1, <1>3, <2>1, <2>2, ReplyIs
<1>5. PICK p \in {"sending", "answered"}, q \in Requests :
         /\ Proceed(w, p, q) /\ SameErrand(q, req[w])
         /\ p = "sending" => q.tries < MaxTries
         /\ p = "answered" => q.outcome = "pending"
  BY <1>2, TransportErrorIs
<1> QED
  BY <1>2, <1>4, <1>5, AfterTry DEF Outcomes

----------------------------------------------------------------------------
(* Requests that end, or go on, without writing a row *)

LEMMA EndingStep ==
    ASSUME IInv, NEW w \in Workers, Finish(w), UNCHANGED <<inv, last, recs, aeat, live>>,
           chain' = Unlocked(w), requests' \in 0..MaxRequests, crashes' \in 0..MaxCrashes,
           failed' \subseteq Ids
    PROVE  IInv' /\ KeepsHistory
<1>1. Typed
  BY DEF IInv
<1>2. /\ pc' \in [Workers -> Places] /\ pc'[w] = "idle"
      /\ req' \in [Workers -> Requests] /\ req'[w] = NoRequest
      /\ \A v \in Workers \ {w} : pc'[v] = pc[v] /\ req'[v] = req[v]
  BY <1>1, FinishIs
<1>3. /\ chain' # w /\ chain' \in Workers \cup {None}
      /\ \A v \in Workers \ {w} : chain' = v <=> chain = v
  BY <1>1, Bounds DEF Unlocked, Typed
<1>4. Typed'
  BY <1>1, <1>2, <1>3 DEF Typed
<1>5. Work(w)'
  BY <1>2, <1>3, IdleWork
<1>6. Apart'
  BY <1>2, ApartStays DEF NoRequest, IInv
<1> QED
  BY <1>2, <1>3, <1>4, <1>5, <1>6, QuietStep

LEMMA CrashStep ==
    ASSUME IInv, NEW w \in Workers, Crash(w)
    PROVE  IInv' /\ KeepsHistory
<1>1. crashes' \in 0..MaxCrashes /\ requests' \in 0..MaxRequests /\ failed' \subseteq Ids
  BY LifecycleAssumption DEF Crash, IInv, Typed
<1> QED
  BY <1>1, EndingStep DEF Crash

\* A worker outside the transaction of a rectification holds no lock.
LEMMA NoLock ==
    ASSUME NEW w \in Workers, Work(w), pc[w] \notin {"sending", "answered"}
    PROVE  chain # w /\ Unlocked(w) = chain
BY DEF Work, Unlocked

LEMMA RectifyRefuseStep ==
    ASSUME IInv, NEW w \in Workers, RectifyRefuse(w)
    PROVE  IInv' /\ KeepsHistory
<1>1. Unlocked(w) = chain
  BY NoLock DEF IInv, RectifyRefuse
<1> QED
  BY <1>1, EndingStep DEF RectifyRefuse, IInv, Typed

LEMMA RectifyIssueStep ==
    ASSUME IInv, NEW w \in Workers, RectifyIssue(w)
    PROVE  IInv' /\ KeepsHistory
<1>1. Typed /\ Work(w)
  BY DEF IInv
<1>2. /\ pc[w] = "rectifying" /\ chain = None /\ chain' = w
      /\ UNCHANGED <<inv, last, recs, aeat, requests, crashes, failed, live>>
  BY DEF RectifyIssue
<1>3. req[w].op = "rectify" /\ Drafting(w) /\ last.R \in Nat /\ req[w].tries < MaxTries
  BY <1>1, <1>2, Bounds, LastFields DEF Work
<1>4. PICK q \in Requests : q = req[w]
  BY <1>1, RequestFields
<1>5. PICK c \in Records : c = AltaOf(q.rect, last.R + 1, q.inv)
  <2>1. q.rect \in Ids /\ q.inv \in Ids /\ last.R + 1 \in Nat \ {0}
    BY <1>3, <1>4 DEF Drafting, Ids
  <2>2. AltaOf(q.rect, last.R + 1, q.inv) \in Records
    BY <2>1, AltaIs
  <2> QED
    BY <2>2
<1>6. PICK r : r = [q EXCEPT !.rec = c]
  OBVIOUS
<1>7. /\ r \in Requests /\ r.op = q.op /\ r.inv = q.inv /\ r.rect = q.rect /\ r.rec = c
      /\ r.tries = q.tries
  BY <1>6 DEF Requests
<1>8. Proceed(w, "sending", r)
  BY <1>4, <1>5, <1>6 DEF RectifyIssue
<1>9. /\ pc' \in [Workers -> Places] /\ pc'[w] = "sending"
      /\ req' \in [Workers -> Requests] /\ req'[w] = r
      /\ \A v \in Workers \ {w} : pc'[v] = pc[v] /\ req'[v] = req[v]
  BY <1>1, <1>7, <1>8, ProceedIs DEF Places
<1>10. Typed'
  BY <1>1, <1>2, <1>9 DEF Typed
<1>11. Carried(w)'
  <2>1. Drafting(w)'
    BY <1>2, <1>3, <1>4, <1>7, <1>9 DEF Drafting, Issued
  <2>2. req'[w].rec = AltaOf(req[w].rect, last.R + 1, req[w].inv)'
    BY <1>2, <1>4, <1>5, <1>7, <1>9 DEF AltaOf, Series
  <2>3. req'[w].op = "rectify" /\ req'[w].rec \in Records
    BY <1>3, <1>4, <1>7, <1>9
  <2> QED
    BY <2>1, <2>2, <2>3 DEF Carried
<1>12. Work(w)'
  BY <1>2, <1>3, <1>4, <1>7, <1>9, <1>11 DEF Work
<1>13. Apart'
  BY <1>4, <1>7, <1>9, ApartStays DEF IInv
<1> QED
  BY <1>2, <1>9, <1>10, <1>12, <1>13, Bounds, QuietStep
LEMMA AnnulDecideStep ==
    ASSUME IInv, NEW w \in Workers, AnnulDecide(w)
    PROVE  IInv' /\ KeepsHistory
<1>1. Typed /\ Ledger /\ Work(w)
  BY DEF IInv
<1>2. PICK i \in Ids : i = req[w].inv
  BY <1>1 DEF AnnulDecide, Work
<1>3. PICK k : k = OriginalAlta(i)
  OBVIOUS
<1>4. /\ pc[w] = "annulling"
      /\ UNCHANGED <<inv, last, recs, aeat, chain, requests, crashes, failed, live>>
      /\ \/ k = 0 /\ Finish(w)
         \/ /\ k # 0 /\ LatestPending(k)
            /\ Proceed(w, "cancelling", [req[w] EXCEPT !.at = k, !.tries = Len(recs[k].attempts)])
  BY <1>2, <1>3 DEF AnnulDecide
<1>5. CASE k = 0 /\ Finish(w)
  <2>1. Unlocked(w) = chain
    BY <1>1, <1>4, NoLock
  <2>2. requests' \in 0..MaxRequests /\ crashes' \in 0..MaxCrashes /\ failed' \subseteq Ids
    BY <1>1, <1>4 DEF Typed
  <2> QED
    BY <1>4, <1>5, <2>1, <2>2, EndingStep
<1>6. CASE k # 0
  <2>1. k \in AltasOf(i) /\ k \in 1..Len(recs)
    BY <1>1, <1>3, <1>6, OriginalIsAlta DEF AltasOf
  <2>2. PICK t \in Seq(Attempts) : t = recs[k].attempts
    BY <1>1, <2>1, RecsAre, EntryFields
  <2>3. Len(t) \in 1..Len(t) /\ t[Len(t)] = "pending"
    BY <1>4, <1>6, <2>2 DEF LatestPending
  <2>4. PICK q \in Requests : q = req[w]
    BY <1>1, RequestFields
  <2>5. PICK r : r = [q EXCEPT !.at = k, !.tries = Len(t)]
    OBVIOUS
  <2>6. k \in Nat /\ Len(t) \in Nat
    BY <1>1, <2>1, RecsAre
  <2>7. /\ r \in Requests /\ r.op = q.op /\ r.inv = q.inv /\ r.rect = q.rect
        /\ r.at = k /\ r.tries = Len(t)
    BY <2>5, <2>6 DEF Requests
  <2>8. Proceed(w, "cancelling", r)
    BY <1>4, <1>6, <2>2, <2>4, <2>5
  <2>9. /\ pc' \in [Workers -> Places] /\ pc'[w] = "cancelling"
        /\ req' \in [Workers -> Requests] /\ req'[w] = r
        /\ \A v \in Workers \ {w} : pc'[v] = pc[v] /\ req'[v] = req[v]
    BY <1>1, <2>7, <2>8, ProceedIs DEF Places
  <2>10. Typed'
    BY <1>1, <1>4, <2>9 DEF Typed
  <2>11. chain # w /\ q.op = "annul"
    BY <1>1, <1>4, <2>4 DEF Work
  <2>12. k \in AltasOf(i)'
    BY <1>4, <2>1 DEF AltasOf
  <2>13. /\ req'[w].inv = i /\ req'[w].at = k /\ req'[w].tries = Len(t)
         /\ recs'[k].attempts = t /\ chain' # w /\ req'[w].op = "annul"
    BY <1>2, <1>4, <2>2, <2>4, <2>7, <2>9, <2>11
  <2>14. Work(w)'
    BY <2>3, <2>9, <2>12, <2>13 DEF Work
  <2>15. Apart'
    BY <2>4, <2>7, <2>9, ApartStays DEF IInv
  <2> QED
    BY <1>4, <2>9, <2>10, <2>14, <2>15, QuietStep
<1> QED
  BY <1>4, <1>5, <1>6

----------------------------------------------------------------------------
(* Steps that append a record *)

LEMMA AppendIs ==
    ASSUME NEW t \in Seq(Entries), NEW e \in Entries, NEW u, u = Append(t, e)
    PROVE  /\ u \in Seq(Entries) /\ Len(u) = Len(t) + 1 /\ Len(t) \in Nat
           /\ \A k \in 1..Len(t) : u[k] = t[k]
           /\ u[Len(t) + 1] = e
           /\ \A k \in 1..Len(u) : k \in 1..Len(t) \/ k = Len(t) + 1
OBVIOUS

\* A number the series has not given yet is in no record.
LEMMA NewNumberIsFree ==
    ASSUME Typed, Numbered, Ledger, NEW i \in Ids, NEW n \in Nat, NEW rec,
           rec.key = <<Series(i), n>>,
           i \in Invoices => n > last.F, i \in Rects => n > last.R,
           NEW k \in 1..Len(recs)
    PROVE  ~SameIdFactura(recs[k].rec, rec)
<1> SUFFICES ASSUME SameIdFactura(recs[k].rec, rec) PROVE FALSE
  OBVIOUS
<1>1. PICK j \in Ids : j = recs[k].rec.inv
  BY RecsAre, EntryFields
<1>2. recs[k].rec.key = <<Series(j), inv[j].num>>
  BY <1>1 DEF Ledger
<1>3. Series(j) = Series(i) /\ inv[j].num = n
  BY <1>2 DEF SameIdFactura
<1>4. inv[j].num \in Nat /\ last.F \in Nat /\ last.R \in Nat
  BY RowFields, LastFields
<1>5. CASE i \in Rects
  BY <1>3, <1>4, <1>5 DEF Series, Numbered
<1>6. CASE i \notin Rects
  BY <1>3, <1>4, <1>6 DEF Series, Numbered, Ids
<1> QED
  BY <1>5, <1>6

LEMMA AppendKeeps ==
    ASSUME Typed, Typed', Ledger, Reasons, aeat \subseteq aeat', live' = live,
           NEW e \in Entries, recs' = Append(recs, e),
           \A i \in Ids : Issued(i) => inv'[i].num = inv[i].num,
           \A i \in Ids : inv'[i].num # 0 /\ ~Issued(i) => e.rec.inv = i /\ e.rec.kind = "alta",
           inv'[e.rec.inv].num # 0,
           e.rec.key = <<Series(e.rec.inv), inv'[e.rec.inv].num>>,
           e.rec.kind = "anulacion" => AltasOf(e.rec.inv) # {},
           \A k \in 1..Len(recs) : ~SameIdFactura(recs[k].rec, e.rec),
           \A n \in 1..Len(e.attempts) : e.attempts[n] = "accepted" => e.rec \in aeat'
    PROVE  Grows /\ Ledger' /\ AcceptedMeansRegistered'
<1>1. /\ Len(recs') = Len(recs) + 1 /\ Len(recs) \in Nat
      /\ \A k \in 1..Len(recs) : recs'[k] = recs[k]
      /\ recs'[Len(recs) + 1] = e
      /\ \A k \in 1..Len(recs') : k \in 1..Len(recs) \/ k = Len(recs) + 1
  BY RecsAre, AppendIs
<1>2. KeepsHistory
  BY <1>1, RecsAre, EntryFields DEF KeepsHistory
<1>3. Grows
  BY <1>2 DEF Grows
<1>4. \A i \in Ids : AltasOf(i) # {} => AltasOf(i)' # {}
  BY <1>2, AltasStay
<1>5. e.rec.inv \in Ids
  BY DEF Entries, Records
<1>6. PICK m : m = Len(recs) + 1
  OBVIOUS
<1>7. m \in 1..Len(recs') /\ recs'[m] = e
  BY <1>1, <1>6
<1>8. \A i \in Ids : Issued(i)' /\ i \notin Legacy => AltasOf(i)' # {}
  <2> SUFFICES ASSUME NEW i \in Ids, Issued(i)', i \notin Legacy
               PROVE  AltasOf(i)' # {}
    OBVIOUS
  <2>1. CASE Issued(i)
    BY <2>1, <1>4 DEF Ledger
  <2>2. CASE ~Issued(i)
    <3>1. e.rec.inv = i /\ e.rec.kind = "alta"
      BY <2>2 DEF Issued
    <3>2. m \in AltasOf(i)'
      BY <3>1, <1>7 DEF AltasOf
    <3> QED
      BY <3>2
  <2> QED
    BY <2>1, <2>2
<1>9. ASSUME NEW k \in 1..Len(recs')
      PROVE  /\ Issued(recs[k].rec.inv)'
             /\ recs'[k].rec.key = <<Series(recs[k].rec.inv), inv[recs[k].rec.inv].num>>'
             /\ recs'[k].rec.kind = "anulacion" =>
                   \E l \in 1..(k-1) : l \in AltasOf(recs[k].rec.inv)'
             /\ \A l \in 1..(k-1) : ~SameIdFactura(recs'[l].rec, recs'[k].rec)
  <2>1. CASE k \in 1..Len(recs)
    <3>1. PICK i \in Ids : i = recs[k].rec.inv
      BY RecsAre, EntryFields, <2>1
    <3>2. recs'[k] = recs[k] /\ \A l \in 1..(k-1) : recs'[l] = recs[l]
      BY <1>1, <2>1
    <3>3. Issued(i) /\ recs[k].rec.key = <<Series(i), inv[i].num>>
      BY <2>1, <3>1 DEF Ledger
    <3>4. Issued(i)' /\ inv'[i].num = inv[i].num
      BY <3>3 DEF Issued
    <3>5. recs[k].rec.kind = "anulacion" => \E l \in 1..(k-1) : l \in AltasOf(i)
      BY <2>1, <3>1 DEF Ledger
    <3>6. recs[k].rec.kind = "anulacion" => \E l \in 1..(k-1) : l \in AltasOf(i)'
      BY <3>5, <1>2, AltasStay
    <3>7. \A l \in 1..(k-1) : ~SameIdFactura(recs[l].rec, recs[k].rec)
      BY <2>1 DEF Ledger
    <3>8. recs'[k].rec.inv = i /\ recs'[k].rec = recs[k].rec
      BY <3>1, <3>2
    <3>9. \A l \in 1..(k-1) : ~SameIdFactura(recs'[l].rec, recs'[k].rec)
      BY <3>2, <3>7
    <3>10. Issued(recs[k].rec.inv)'
             /\ recs'[k].rec.key = <<Series(recs[k].rec.inv), inv[recs[k].rec.inv].num>>'
      BY <3>3, <3>4, <3>8 DEF Series, Issued
    <3> QED
      BY <3>6, <3>8, <3>9, <3>10 DEF AltasOf
  <2>2. CASE k = Len(recs) + 1
    <3>1. PICK i \in Ids : i = e.rec.inv
      BY <1>5
    <3>2. recs'[k] = e /\ recs'[k].rec.inv = i /\ k - 1 = Len(recs)
      BY <1>1, <2>2, <3>1
    <3>3. Issued(recs[k].rec.inv)'
             /\ recs'[k].rec.key = <<Series(recs[k].rec.inv), inv[recs[k].rec.inv].num>>'
      BY <3>1, <3>2 DEF Issued, Series
    <3>4. \A l \in 1..(k-1) : ~SameIdFactura(recs'[l].rec, recs'[k].rec)
      BY <1>1, <3>2
    <3>5. ASSUME e.rec.kind = "anulacion"
          PROVE  \E l \in 1..(k-1) : l \in AltasOf(i)'
      <4>1. PICK l : l \in AltasOf(i)
        BY <3>1, <3>5
      <4>2. l \in AltasOf(i)' /\ l \in 1..(k-1)
        BY <1>2, <3>2, <4>1, AltasStay DEF AltasOf
      <4> QED
        BY <4>2
    <3> QED
      BY <3>2, <3>3, <3>4, <3>5 DEF AltasOf
  <2> QED
    BY <1>1, <2>1, <2>2
<1>10. Ledger'
  BY <1>8, <1>9 DEF Ledger
<1>11. ASSUME NEW k \in 1..Len(recs'), Accepted(k)'
       PROVE  recs'[k].rec \in aeat'
  <2>1. CASE k \in 1..Len(recs)
    <3>1. recs'[k] = recs[k]
      BY <1>1, <2>1
    <3>2. Accepted(k)
      BY <1>11, <3>1 DEF Accepted, Statuses
    <3> QED
      BY <2>1, <3>1, <3>2 DEF Reasons, AcceptedMeansRegistered
  <2>2. CASE k = Len(recs) + 1
    BY <1>1, <1>11, <2>2 DEF Accepted, Statuses
  <2> QED
    BY <1>1, <2>1, <2>2
<1> QED
  BY <1>3, <1>10, <1>11 DEF AcceptedMeansRegistered
LEMMA NumbersIs ==
    ASSUME Typed, NEW i \in Ids, NEW n \in Nat, NEW f, f = Numbers(i, n)
    PROVE  /\ f \in [Ids -> Rows] /\ f[i].num = n
           /\ \A j \in Ids : /\ j # i => f[j] = inv[j]
                             /\ f[j].annulled = inv[j].annulled
                             /\ f[j].correctedBy = inv[j].correctedBy
<1>1. PICK q \in Rows : q = inv[i]
  BY RowFields
<1>2. PICK s : s = [q EXCEPT !.num = n]
  OBVIOUS
<1>3. s \in Rows /\ s.num = n /\ s.annulled = q.annulled /\ s.correctedBy = q.correctedBy
  BY <1>2 DEF Rows
<1>4. f = [inv EXCEPT ![i] = s]
  BY <1>1, <1>2 DEF Numbers
<1> QED
  BY <1>1, <1>3, <1>4 DEF Typed

\* Giving an invoice the next number of its series.
LEMMA NumberedStays ==
    ASSUME Typed, Numbered, NEW i \in Ids, ~Issued(i), NEW n \in Nat,
           n = (IF i \in Rects THEN last.R ELSE last.F) + 1,
           last'.F \in Nat, last'.R \in Nat,
           last'.R = (IF i \in Rects THEN n ELSE last.R),
           last'.F = (IF i \in Rects THEN last.F ELSE n),
           inv'[i].num = n, \A j \in Ids : j # i => inv'[j].num = inv[j].num
    PROVE  Numbered'
<1>1. \A j \in Ids : inv[j].num \in Nat
  BY RowFields
<1>2. last.F \in Nat /\ last.R \in Nat
  BY LastFields
<1>3. Invoices \subseteq Ids /\ Rects \subseteq Ids /\ Invoices \cap Rects = {}
  BY LifecycleAssumption DEF Ids
<1>4. \A j \in Invoices : inv'[j].num <= last'.F
  BY <1>1, <1>2, <1>3 DEF Numbered
<1>5. \A j \in Rects : inv'[j].num <= last'.R
  BY <1>1, <1>2, <1>3 DEF Numbered
<1>6. ASSUME NEW j \in Ids, j # i, Series(j) = Series(i)
      PROVE  inv[j].num < n
  <2>1. CASE i \in Rects
    BY <1>1, <1>2, <1>6, <2>1 DEF Series, Numbered
  <2>2. CASE i \notin Rects
    BY <1>1, <1>2, <1>6, <2>2 DEF Series, Numbered, Ids
  <2> QED
    BY <2>1, <2>2
<1>7. ASSUME NEW j \in Ids, NEW k \in Ids, j # k, Issued(j)', Series(j) = Series(k)
      PROVE  inv'[j].num # inv'[k].num
  <2>1. CASE j = i
    BY <1>1, <1>6, <1>7, <2>1
  <2>2. CASE k = i
    BY <1>1, <1>6, <1>7, <2>2
  <2>3. CASE j # i /\ k # i
    BY <1>7, <2>3 DEF Numbered, Issued
  <2> QED
    BY <2>1, <2>2, <2>3
<1> QED
  BY <1>4, <1>5, <1>7 DEF Numbered, Series

LEMMA CreateStep ==
    ASSUME IInv, NEW i \in Invoices, Create(i)
    PROVE  IInv' /\ KeepsHistory
<1>1. Typed /\ Numbered /\ Ledger /\ Reasons /\ Apart /\ \A v \in Workers : Work(v)
  BY DEF IInv
<1>2. i \in Ids /\ i \notin Rects /\ ~Issued(i) /\ last.F \in Nat /\ last.R \in Nat
  BY <1>1, LastFields, LifecycleAssumption DEF Create, Ids
<1>3. PICK n \in Nat \ {0} : n = last.F + 1
  BY <1>2
<1>4. PICK c \in Records : c = AltaOf(i, n, None)
  <2>1. AltaOf(i, n, None) \in Records
    BY <1>2, AltaIs
  <2> QED
    BY <2>1
<1>5. c.inv = i /\ c.kind = "alta" /\ c.key = <<Series(i), n>>
  BY <1>2, <1>4, AltaIs
<1>6. PICK e \in Entries : e = Entry(c) /\ e.rec = c /\ e.attempts = << >>
  BY EntryIs
<1>7. /\ inv' = Numbers(i, n) /\ recs' = Append(recs, e)
      /\ UNCHANGED <<aeat, chain, pc, req, requests, crashes, failed, live>>
  BY <1>3, <1>4, <1>6 DEF Create
<1>8. last'.F = n /\ last'.R = last.R /\ last' \in [F : Nat, R : Nat]
  BY <1>1, <1>3 DEF Create, Typed
<1>9. /\ inv' \in [Ids -> Rows] /\ inv'[i].num = n
      /\ \A j \in Ids : /\ j # i => inv'[j] = inv[j]
                        /\ inv'[j].annulled = inv[j].annulled
                        /\ inv'[j].correctedBy = inv[j].correctedBy
  BY <1>1, <1>2, <1>7, NumbersIs
<1>10. recs' \in Seq(Entries)
  BY <1>1, <1>7, RecsAre, AppendIs
<1>11. Typed'
  BY <1>1, <1>7, <1>8, <1>9, <1>10 DEF Typed
<1>12. Numbered'
  BY <1>1, <1>2, <1>3, <1>8, <1>9, NumberedStays
<1>13. \A k \in 1..Len(recs) : ~SameIdFactura(recs[k].rec, c)
  <2>1. (i \in Invoices => n > last.F) /\ (i \in Rects => n > last.R) /\ n \in Nat
    BY <1>2, <1>3
  <2> QED
    BY <1>1, <1>2, <1>5, <2>1, NewNumberIsFree
<1>14. \A j \in Ids : Issued(j) => inv'[j].num = inv[j].num
  BY <1>2, <1>9
<1>15. Grows /\ Ledger' /\ AcceptedMeansRegistered'
  <2>1. \A j \in Ids : inv'[j].num # 0 /\ ~Issued(j) => e.rec.inv = j /\ e.rec.kind = "alta"
    BY <1>5, <1>6, <1>9 DEF Issued
  <2>2. inv'[e.rec.inv].num # 0 /\ e.rec.key = <<Series(e.rec.inv), inv'[e.rec.inv].num>>
    BY <1>3, <1>5, <1>6, <1>9
  <2>3. \A m \in 1..Len(e.attempts) : e.attempts[m] = "accepted" => e.rec \in aeat'
    BY <1>6
  <2>4. \A k \in 1..Len(recs) : ~SameIdFactura(recs[k].rec, e.rec)
    BY <1>6, <1>13
  <2>5. e.rec.kind = "anulacion" => AltasOf(e.rec.inv) # {}
    BY <1>5, <1>6
  <2> QED
    BY <1>1, <1>7, <1>11, <1>14, <2>1, <2>2, <2>3, <2>4, <2>5, AppendKeeps
<1>16. AnnulledForReason' /\ CorrectedForReason'
  BY <1>1, <1>9, <1>11, <1>15, AnnulledStay, CorrectedStay DEF Reasons
<1>17. Apart'
  BY <1>1, <1>7 DEF Apart
<1>18. \A v \in Workers : Beside(v)
  BY <1>2, <1>7, <1>8, <1>9 DEF Beside, Issued, Ids
<1>19. \A v \in Workers : Work(v)'
  BY <1>1, <1>11, <1>15, <1>18, BystanderKeeps
<1> QED
  BY <1>11, <1>12, <1>15, <1>16, <1>17, <1>19 DEF IInv, Reasons, Grows

\* A step of worker w that appends record c to the registry and changes no
\* invoice.
LEMMA AppendStep ==
    ASSUME IInv, NEW w \in Workers, NEW c \in Records, recs' = Append(recs, Entry(c)),
           UNCHANGED <<inv, last, aeat, chain, live>>, Typed',
           c.inv \in Ids, Issued(c.inv), c.key = <<Series(c.inv), inv[c.inv].num>>,
           c.kind = "anulacion" => AltasOf(c.inv) # {},
           ~Recorded(c), Work(w)', Apart',
           \A v \in Workers \ {w} : pc'[v] = pc[v] /\ req'[v] = req[v]
    PROVE  IInv' /\ KeepsHistory
<1>1. Typed /\ Numbered /\ Ledger /\ Reasons /\ Apart /\ \A v \in Workers : Work(v)
  BY DEF IInv
<1>2. PICK e \in Entries : e = Entry(c) /\ e.rec = c /\ e.attempts = << >>
  BY EntryIs
<1>3. Grows /\ Ledger' /\ AcceptedMeansRegistered'
  <2>1. \A k \in 1..Len(recs) : ~SameIdFactura(recs[k].rec, e.rec)
    BY <1>2 DEF Recorded
  <2>2. \A m \in 1..Len(e.attempts) : e.attempts[m] = "accepted" => e.rec \in aeat'
    BY <1>2
  <2>3. inv'[e.rec.inv].num # 0 /\ e.rec.key = <<Series(e.rec.inv), inv'[e.rec.inv].num>>
    BY <1>2 DEF Issued
  <2>4. \A j \in Ids : inv'[j].num # 0 /\ ~Issued(j) => e.rec.inv = j /\ e.rec.kind = "alta"
    BY DEF Issued
  <2>5. e.rec.kind = "anulacion" => AltasOf(e.rec.inv) # {}
    BY <1>2
  <2> QED
    BY <1>1, <1>2, <2>1, <2>2, <2>3, <2>4, <2>5, AppendKeeps
<1>4. AnnulledForReason' /\ CorrectedForReason'
  BY <1>1, <1>3, AnnulledStay, CorrectedStay DEF Reasons
<1>5. Numbered'
  BY <1>1 DEF Numbered, Issued
<1>6. \A v \in Workers \ {w} : Beside(v)
  BY DEF Beside, Issued
<1>7. \A v \in Workers : Work(v)'
  BY <1>1, <1>3, <1>6, BystanderKeeps
<1> QED
  BY <1>3, <1>4, <1>5, <1>7 DEF IInv, Reasons, Grows

LEMMA RegisterStep ==
    ASSUME IInv, NEW w \in Workers, Register(w)
    PROVE  IInv' /\ KeepsHistory
<1>1. Typed /\ Work(w)
  BY DEF IInv
<1>2. /\ pc[w] = "registering" /\ chain = None /\ Finish(w)
      /\ UNCHANGED <<inv, last, aeat, chain, requests, crashes, failed, live>>
  BY DEF Register
<1>3. PICK i \in Ids : i = req[w].inv /\ Issued(i)
  BY <1>1, <1>2 DEF Work
<1>4. PICK n \in Nat \ {0} : n = inv[i].num
  BY <1>1, <1>3, RowFields DEF Issued
<1>5. PICK c \in Records : c = AltaOf(i, n, None)
  <2>1. AltaOf(i, n, None) \in Records
    BY AltaIs
  <2> QED
    BY <2>1
<1>6. c.inv = i /\ c.kind = "alta" /\ c.key = <<Series(i), n>>
  BY <1>5, AltaIs
<1>7. recs' = IF Recorded(c) THEN recs ELSE Append(recs, Entry(c))
  BY <1>3, <1>4, <1>5 DEF Register
<1>8. CASE Recorded(c)
  <2>1. chain' = Unlocked(w)
    BY <1>1, <1>2, NoLock
  <2>2. requests' \in 0..MaxRequests /\ crashes' \in 0..MaxCrashes /\ failed' \subseteq Ids
    BY <1>1, <1>2 DEF Typed
  <2> QED
    BY <1>2, <1>7, <1>8, <2>1, <2>2, EndingStep
<1>9. CASE ~Recorded(c)
  <2>1. /\ pc' \in [Workers -> Places] /\ pc'[w] = "idle"
        /\ req' \in [Workers -> Requests] /\ req'[w] = NoRequest
        /\ \A v \in Workers \ {w} : pc'[v] = pc[v] /\ req'[v] = req[v]
    BY <1>1, <1>2, FinishIs
  <2>2. recs' = Append(recs, Entry(c)) /\ recs' \in Seq(Entries)
    BY <1>1, <1>7, <1>9, EntryIs, RecsAre, AppendIs
  <2>3. Typed'
    BY <1>1, <1>2, <2>1, <2>2 DEF Typed
  <2>4. Work(w)'
    BY <1>2, <2>1, Bounds, IdleWork
  <2>5. Apart'
    BY <2>1, ApartStays DEF NoRequest, IInv
  <2> QED
    BY <1>2, <1>3, <1>4, <1>6, <1>9, <2>1, <2>2, <2>3, <2>4, <2>5, AppendStep
<1> QED
  BY <1>8, <1>9

LEMMA AnnulGenerateStep ==
    ASSUME IInv, NEW w \in Workers, AnnulGenerate(w)
    PROVE  IInv' /\ KeepsHistory
<1>1. Typed /\ Ledger /\ Work(w)
  BY DEF IInv
<1>2. pc[w] = "annulling" /\ UNCHANGED <<inv, last, aeat, chain, requests, crashes, live>>
  BY DEF AnnulGenerate
<1>3. PICK i \in Ids : i = req[w].inv /\ Issued(i)
  BY <1>1, <1>2 DEF Work
<1>4. PICK k : k = OriginalAlta(i)
  OBVIOUS
<1>5. k \in AltasOf(i) /\ k \in 1..Len(recs)
  BY <1>1, <1>3, <1>4, OriginalIsAlta DEF AnnulGenerate, AltasOf
<1>6. PICK a \in Records : a = recs[k].rec /\ a.inv = i
  BY <1>1, <1>5, RecsAre, EntryFields DEF AltasOf
<1>7. a.key = <<Series(i), inv[i].num>>
  BY <1>1, <1>5, <1>6 DEF Ledger
<1>8. PICK c : c = [a EXCEPT !.kind = "anulacion"]
  OBVIOUS
<1>9. c \in Records /\ c.inv = i /\ c.kind = "anulacion" /\ c.key = a.key
  BY <1>6, <1>8 DEF Records
<1>10. /\ chain = None
       /\ IF Recorded(c)
          THEN Finish(w) /\ failed' = failed \cup {i} /\ UNCHANGED recs
          ELSE /\ recs' = Append(recs, Entry(c))
               /\ Proceed(w, "sending", [req[w] EXCEPT !.at = Len(recs) + 1, !.rec = c])
               /\ UNCHANGED failed
  BY <1>3, <1>4, <1>6, <1>8 DEF AnnulGenerate
<1>11. CASE Recorded(c)
  <2>1. chain' = Unlocked(w)
    BY <1>1, <1>2, NoLock
  <2>2. requests' \in 0..MaxRequests /\ crashes' \in 0..MaxCrashes /\ failed' \subseteq Ids
    BY <1>1, <1>2, <1>10, <1>11 DEF Typed
  <2> QED
    BY <1>2, <1>10, <1>11, <2>1, <2>2, EndingStep
<1>12. CASE ~Recorded(c)
  <2>1. PICK e \in Entries : e = Entry(c) /\ e.rec = c
    BY <1>9, EntryIs
  <2>2. PICK m \in Nat : m = Len(recs) + 1
    BY <1>1, RecsAre
  <2>3. recs' \in Seq(Entries) /\ m \in 1..Len(recs') /\ recs'[m].rec = c
    BY <1>1, <1>10, <1>12, <2>1, <2>2, RecsAre, AppendIs
  <2>4. PICK q \in Requests : q = req[w]
    BY <1>1, RequestFields
  <2>5. PICK r : r = [q EXCEPT !.at = m, !.rec = c]
    OBVIOUS
  <2>6. /\ r \in Requests /\ r.op = q.op /\ r.inv = q.inv /\ r.rect = q.rect
        /\ r.at = m /\ r.rec = c /\ r.tries = q.tries
    BY <1>9, <2>5 DEF Requests
  <2>7. Proceed(w, "sending", r)
    BY <1>10, <1>12, <2>2, <2>4, <2>5
  <2>8. /\ pc' \in [Workers -> Places] /\ pc'[w] = "sending"
        /\ req' \in [Workers -> Requests] /\ req'[w] = r
        /\ \A v \in Workers \ {w} : pc'[v] = pc[v] /\ req'[v] = req[v]
    BY <1>1, <2>6, <2>7, ProceedIs DEF Places
  <2>9. Typed'
    BY <1>1, <1>2, <1>10, <1>12, <2>3, <2>8 DEF Typed
  <2>10. q.op = "annul" /\ q.tries < MaxTries
    BY <1>1, <1>2, <2>4, Bounds DEF Work
  <2>11. Carried(w)'
    BY <1>3, <1>9, <2>3, <2>4, <2>6, <2>8, <2>10 DEF Carried
  <2>12. Work(w)'
    BY <1>2, <1>10, <2>6, <2>8, <2>10, <2>11, Bounds DEF Work
  <2>13. Apart'
    BY <2>4, <2>6, <2>8, ApartStays DEF IInv
  <2>14. recs' = Append(recs, Entry(c)) /\ AltasOf(c.inv) # {} /\ Issued(c.inv)
    BY <1>3, <1>5, <1>9, <1>10, <1>12
  <2> QED
    BY <1>2, <1>7, <1>9, <1>12, <2>8, <2>9, <2>12, <2>13, <2>14, AppendStep
<1> QED
  BY <1>11, <1>12
\* What the commit of a rectification does to the invoices.
LEMMA LinkedIs ==
    ASSUME Typed, NEW w \in Workers, NEW i \in Ids, NEW d \in Rects, i # d,
           req[w].inv = i, req[w].rect = d, NEW f, f = Linked(w)
    PROVE  /\ f \in [Ids -> Rows] /\ f[d].num = last.R + 1
           /\ \A j \in Ids : /\ j # d => f[j].num = inv[j].num
                             /\ f[j].annulled = inv[j].annulled
           /\ \A j \in Ids : \/ f[j].correctedBy = inv[j].correctedBy
                             \/ j = i /\ f[j].correctedBy = d /\ Applies(req[w].outcome)
<1>1. PICK n \in Nat : n = last.R + 1
  BY LastFields
<1>2. d \in Ids
  BY DEF Ids
<1>3. CASE ~Applies(req[w].outcome)
  <2>1. f = Numbers(d, n)
    BY <1>1, <1>3 DEF Linked
  <2> QED
    BY <1>1, <1>2, <2>1, NumbersIs
<1>4. CASE Applies(req[w].outcome)
  <2>1. PICK g : g = [inv EXCEPT ![d].num = n]
    OBVIOUS
  <2>2. /\ g \in [Ids -> Rows] /\ g[d].num = n
        /\ \A j \in Ids : /\ j # d => g[j] = inv[j]
                          /\ g[j].annulled = inv[j].annulled
                          /\ g[j].correctedBy = inv[j].correctedBy
    <3>1. g = Numbers(d, n)
      BY <2>1 DEF Numbers
    <3> QED
      BY <1>2, <3>1, NumbersIs
  <2>3. PICK q \in Rows : q = g[i]
    BY <2>2
  <2>4. PICK s : s = [q EXCEPT !.correctedBy = d]
    OBVIOUS
  <2>5. s \in Rows /\ s.num = q.num /\ s.annulled = q.annulled /\ s.correctedBy = d
    BY <2>4 DEF Rows
  <2>6. f = [g EXCEPT ![i].correctedBy = d]
    BY <1>1, <1>4, <2>1 DEF Linked
  <2>7. f = [g EXCEPT ![i] = s]
    BY <2>3, <2>4, <2>6
  <2>8. f \in [Ids -> Rows] /\ f[i] = s /\ \A j \in Ids : j # i => f[j] = g[j]
    BY <2>2, <2>5, <2>7
  <2>9. /\ f[d].num = n /\ \A j \in Ids : j # d => f[j].num = inv[j].num
        /\ \A j \in Ids : f[j].annulled = inv[j].annulled
    BY <1>2, <2>2, <2>3, <2>5, <2>8
  <2>10. \A j \in Ids : \/ f[j].correctedBy = inv[j].correctedBy
                        \/ j = i /\ f[j].correctedBy = d
    BY <2>2, <2>5, <2>8
  <2> QED
    BY <1>1, <1>4, <2>8, <2>9, <2>10
<1> QED
  BY <1>3, <1>4

LEMMA RectifyCommitStep ==
    ASSUME IInv, NEW w \in Workers, RectifyCommit(w)
    PROVE  IInv' /\ KeepsHistory
<1>1. Typed /\ Numbered /\ Ledger /\ Reasons /\ Apart /\ \A v \in Workers : Work(v)
  BY DEF IInv
<1>2. /\ pc[w] = "answered" /\ req[w].op = "rectify" /\ inv' = Linked(w)
      /\ chain' = Unlocked(w) /\ Finish(w)
      /\ UNCHANGED <<aeat, requests, crashes, failed, live>>
  BY DEF RectifyCommit
<1>3. PICK i \in Ids, d \in Rects : i = req[w].inv /\ d = req[w].rect /\ d # i /\ ~Issued(d)
  BY <1>1, <1>2 DEF Work, Carried, Drafting
<1>4. d \in Ids /\ last.F \in Nat /\ last.R \in Nat
  BY <1>1, LastFields DEF Ids
<1>5. PICK n \in Nat \ {0} : n = last.R + 1
  BY <1>4
<1>6. PICK c \in Records : c = AltaOf(d, n, i) /\ c = req[w].rec
  <2>1. /\ req[w].rec \in Records
        /\ req[w].rec = AltaOf(req[w].rect, last.R + 1, req[w].inv)
    BY <1>1, <1>2 DEF Work, Carried
  <2> QED
    BY <1>3, <1>5, <2>1
<1>7. /\ c.inv = d /\ c.kind = "alta" /\ c.key = <<Series(d), n>> /\ c.rectifies = i
  BY <1>6 DEF AltaOf
<1>8. PICK s \in Outcomes : /\ s = req[w].outcome
                            /\ s = "accepted" => c \in aeat
                            /\ s = "disabled" => ~live
  BY <1>1, <1>2, <1>6 DEF Work
<1>9. PICK e : e = [rec |-> c, attempts |-> WithAttempt(<< >>, s)]
  OBVIOUS
<1>10. /\ e.rec = c /\ e.attempts \in Seq(Attempts)
       /\ \A m \in 1..Len(e.attempts) : e.attempts[m] = s /\ s # "disabled"
       /\ s # "disabled" => 1 \in 1..Len(e.attempts)
  <2>1. CASE s = "disabled"
    BY <1>9, <2>1 DEF WithAttempt
  <2>2. CASE s \in Attempts
    <3>1. e.rec = c /\ e.attempts = Append(<< >>, s) /\ s # "disabled"
      BY <1>9, <2>2 DEF WithAttempt, Attempts
    <3> QED
      BY <2>2, <3>1
  <2> QED
    BY <2>1, <2>2 DEF Attempts, Outcomes
<1>11. e.attempts \in Seq(Attempts)
  BY <1>10
<1>12. e \in Entries
  BY <1>9, <1>10, <1>11 DEF Entries
<1>13. recs' = Append(recs, e)
  BY <1>6, <1>8, <1>9 DEF RectifyCommit
<1>14. last'.F = last.F /\ last'.R = n /\ last' \in [F : Nat, R : Nat]
  BY <1>1, <1>5 DEF RectifyCommit, Typed
<1>15. /\ inv' \in [Ids -> Rows] /\ inv'[d].num = n
       /\ \A j \in Ids : /\ j # d => inv'[j].num = inv[j].num
                         /\ inv'[j].annulled = inv[j].annulled
       /\ \A j \in Ids : \/ inv'[j].correctedBy = inv[j].correctedBy
                         \/ j = i /\ inv'[j].correctedBy = d /\ Applies(s)
  BY <1>1, <1>2, <1>3, <1>5, <1>8, LinkedIs
<1>16. /\ pc' \in [Workers -> Places] /\ pc'[w] = "idle"
       /\ req' \in [Workers -> Requests] /\ req'[w] = NoRequest
       /\ \A v \in Workers \ {w} : pc'[v] = pc[v] /\ req'[v] = req[v]
  BY <1>1, <1>2, FinishIs
<1>17. chain = w /\ chain' = None
  BY <1>1, <1>2 DEF Work, Unlocked
<1>18. recs' \in Seq(Entries)
  BY <1>1, <1>12, <1>13, RecsAre, AppendIs
<1>19. Typed'
  BY <1>1, <1>2, <1>14, <1>15, <1>16, <1>17, <1>18 DEF Typed
<1>20. Numbered'
  <2>1. \A j \in Ids : j # d => inv'[j].num = inv[j].num
    BY <1>15
  <2>2. n = (IF d \in Rects THEN last.R ELSE last.F) + 1
    BY <1>5
  <2>3. last'.R = (IF d \in Rects THEN n ELSE last.R) /\ last'.F = (IF d \in Rects THEN last.F ELSE n)
    BY <1>14
  <2> QED
    BY <1>1, <1>3, <1>4, <1>14, <1>15, <2>1, <2>2, <2>3, NumberedStays
<1>21. Grows /\ Ledger' /\ AcceptedMeansRegistered'
  <2>1. \A j \in Ids : Issued(j) => inv'[j].num = inv[j].num
    BY <1>3, <1>15
  <2>2. \A j \in Ids : inv'[j].num # 0 /\ ~Issued(j) => e.rec.inv = j /\ e.rec.kind = "alta"
    BY <1>7, <1>10, <1>15 DEF Issued
  <2>3. inv'[e.rec.inv].num # 0 /\ e.rec.key = <<Series(e.rec.inv), inv'[e.rec.inv].num>>
    BY <1>7, <1>10, <1>15
  <2>4. \A k \in 1..Len(recs) : ~SameIdFactura(recs[k].rec, e.rec)
    <3>1. (d \in Invoices => n > last.F) /\ (d \in Rects => n > last.R) /\ n \in Nat
      BY <1>4, <1>5, LifecycleAssumption
    <3> QED
      BY <1>1, <1>4, <1>7, <1>10, <3>1, NewNumberIsFree
  <2>5. \A m \in 1..Len(e.attempts) : e.attempts[m] = "accepted" => e.rec \in aeat'
    BY <1>2, <1>8, <1>10
  <2>6. e.rec.kind = "anulacion" => AltasOf(e.rec.inv) # {}
    BY <1>7, <1>10
  <2> QED
    BY <1>1, <1>2, <1>12, <1>13, <1>19, <2>1, <2>2, <2>3, <2>4, <2>5, <2>6, AppendKeeps
<1>22. AnnulledForReason'
  BY <1>1, <1>15, <1>19, <1>21, AnnulledStay DEF Reasons
<1>23. CorrectedForReason'
  <2>1. PICK m \in Nat : m = Len(recs) + 1
    BY <1>1, RecsAre
  <2>2. m \in 1..Len(recs') /\ recs'[m] = e
    BY <1>1, <1>12, <1>13, <2>1, RecsAre, AppendIs
  <2>3. m \in AltasOf(d)'
    BY <1>7, <1>10, <2>2 DEF AltasOf
  <2>4. Applies(s) => Accepted(m)' \/ ~live'
    <3>1. CASE s = "accepted"
      <4>1. 1 \in 1..Len(recs'[m].attempts) /\ recs'[m].attempts[1] = "accepted"
        BY <1>10, <2>2, <3>1
      <4> QED
        BY <4>1 DEF Accepted, Statuses
    <3>2. CASE s = "disabled"
      BY <1>2, <1>8, <3>2
    <3> QED
      BY <3>1, <3>2 DEF Applies
  <2>5. Applies(s) => Settles(m, d, i)'
    BY <1>7, <1>10, <2>2, <2>3, <2>4 DEF Settles
  <2> SUFFICES ASSUME NEW j \in Ids, NEW r, r = inv'[j].correctedBy, r # None
               PROVE  \E k : Settles(k, r, j)'
    BY DEF CorrectedForReason, Settles
  <2>6. CASE inv'[j].correctedBy = inv[j].correctedBy
    <3>1. PICK k : Settles(k, r, j)
      BY <1>1, <2>6 DEF Reasons, CorrectedForReason, Settles
    <3> QED
      BY <1>1, <1>19, <1>21, <3>1, SettlesStays
  <2>7. CASE j = i /\ inv'[j].correctedBy = d /\ Applies(s)
    BY <2>5, <2>7
  <2> QED
    BY <1>15, <2>6, <2>7
<1>24. Apart'
  BY <1>1, <1>16, ApartStays DEF NoRequest
<1>25. \A v \in Workers \ {w} : Beside(v)
  <2> SUFFICES ASSUME NEW v \in Workers \ {w} PROVE Beside(v)
    OBVIOUS
  <2>1. chain' # v /\ chain # v
    BY <1>17, Bounds
  <2>2. req[v].rect \in Rects => req[v].rect # d /\ req[v].rect \in Ids
    BY <1>1, <1>3 DEF Apart, Ids
  <2> QED
    BY <1>15, <1>16, <2>1, <2>2 DEF Beside, Issued
<1>26. Work(w)'
  BY <1>16, <1>17, Bounds, IdleWork
<1>27. \A v \in Workers : Work(v)'
  BY <1>1, <1>19, <1>21, <1>25, <1>26, BystanderKeeps
<1> QED
  BY <1>19, <1>20, <1>21, <1>22, <1>23, <1>24, <1>27 DEF IInv, Reasons, Grows

----------------------------------------------------------------------------
(* Steps that write an attempt, and the mark *)

LEMMA AttemptsIs ==
    ASSUME NEW t \in Seq(Entries), NEW k \in 1..Len(t), NEW a \in Seq(Attempts),
           NEW u, u = [t EXCEPT ![k].attempts = a]
    PROVE  /\ u \in Seq(Entries) /\ Len(u) = Len(t) /\ u[k].attempts = a
           /\ \A j \in 1..Len(t) : u[j].rec = t[j].rec /\ (j # k => u[j] = t[j])
<1>1. PICK q \in Entries : q = t[k]
  OBVIOUS
<1>2. PICK s : s = [q EXCEPT !.attempts = a]
  OBVIOUS
<1>3. s \in Entries /\ s.rec = q.rec /\ s.attempts = a
  BY <1>2 DEF Entries
<1>4. u = [t EXCEPT ![k] = s]
  BY <1>1, <1>2
<1>5. PICK z : z = [t EXCEPT ![k] = s]
  OBVIOUS
<1>6. /\ z \in Seq(Entries) /\ Len(z) = Len(t)
      /\ \A j \in 1..Len(t) : z[j] = IF j = k THEN s ELSE t[j]
  BY <1>3, <1>5, ExceptSeq
<1>7. z = u
  BY <1>4, <1>5
<1> QED
  BY <1>1, <1>3, <1>6, <1>7

\* Worker w writes attempts a of record k, and changes nothing else.
LEMMA AttemptStep ==
    ASSUME IInv, NEW w \in Workers, NEW k \in 1..Len(recs), NEW a \in Seq(Attempts),
           recs' = [recs EXCEPT ![k].attempts = a], UNCHANGED <<inv, last, aeat, chain, live>>,
           Len(recs[k].attempts) <= Len(a),
           \A n \in 1..Len(recs[k].attempts) : a[n] # recs[k].attempts[n] =>
              recs[k].attempts[n] = "pending" /\ a[n] = "cancelled",
           \A n \in 1..Len(a) : a[n] = "accepted" => recs[k].rec \in aeat,
           Typed', Work(w)', Apart',
           \A v \in Workers \ {w} : pc'[v] = pc[v] /\ req'[v] = req[v]
    PROVE  IInv' /\ KeepsHistory
<1>1. Typed /\ Numbered /\ Ledger /\ Reasons /\ Apart /\ \A v \in Workers : Work(v)
  BY DEF IInv
<1>2. /\ Len(recs') = Len(recs) /\ recs'[k].attempts = a
      /\ \A j \in 1..Len(recs) : recs'[j].rec = recs[j].rec /\ (j # k => recs'[j] = recs[j])
  BY <1>1, RecsAre, AttemptsIs
<1>3. KeepsHistory
  <2> SUFFICES ASSUME NEW j \in 1..Len(recs)
               PROVE  /\ recs'[j].rec = recs[j].rec
                      /\ Len(recs[j].attempts) <= Len(recs'[j].attempts)
                      /\ \A n \in 1..Len(recs[j].attempts) :
                            recs'[j].attempts[n] # recs[j].attempts[n] =>
                               recs[j].attempts[n] = "pending" /\ recs'[j].attempts[n] = "cancelled"
    BY <1>1, <1>2, RecsAre DEF KeepsHistory
  <2>1. CASE j = k
    BY <1>2, <2>1
  <2>2. CASE j # k
    BY <1>1, <1>2, <2>2, RecsAre, EntryFields
  <2> QED
    BY <2>1, <2>2
<1>4. Grows
  BY <1>3 DEF Grows
<1>5. \A i : AltasOf(i)' = AltasOf(i)
  BY <1>2 DEF AltasOf
<1>6. Ledger'
  <2>1. \A i \in Ids : Issued(i)' /\ i \notin Legacy => AltasOf(i)' # {}
    BY <1>1, <1>5 DEF Ledger, Issued
  <2> SUFFICES ASSUME NEW j \in 1..Len(recs)
               PROVE  /\ Issued(recs[j].rec.inv)'
                      /\ recs'[j].rec.key = <<Series(recs[j].rec.inv), inv[recs[j].rec.inv].num>>'
                      /\ recs'[j].rec.kind = "anulacion" =>
                            \E l \in 1..(j-1) : l \in AltasOf(recs[j].rec.inv)'
                      /\ \A l \in 1..(j-1) : ~SameIdFactura(recs'[l].rec, recs'[j].rec)
    BY <1>2, <2>1 DEF Ledger
  <2>2. PICK i : i = recs[j].rec.inv /\ i = recs'[j].rec.inv
    BY <1>2
  <2>3. Issued(i)' /\ recs'[j].rec.key = <<Series(i), inv'[i].num>>
    BY <1>1, <1>2, <2>2 DEF Ledger, Issued
  <2>4. recs'[j].rec.kind = "anulacion" => \E l \in 1..(j-1) : l \in AltasOf(i)'
    BY <1>1, <1>2, <1>5, <2>2 DEF Ledger
  <2>5. \A l \in 1..(j-1) : ~SameIdFactura(recs'[l].rec, recs'[j].rec)
    <3>1. \A l \in 1..(j-1) : recs'[l].rec = recs[l].rec
      BY <1>1, <1>2, RecsAre
    <3> QED
      BY <1>1, <1>2, <3>1 DEF Ledger
  <2> QED
    BY <2>2, <2>3, <2>4, <2>5 DEF Series, Issued, AltasOf
<1>7. AcceptedMeansRegistered'
  <2> SUFFICES ASSUME NEW j \in 1..Len(recs), Accepted(j)'
               PROVE  recs[j].rec \in aeat
    BY <1>2 DEF AcceptedMeansRegistered
  <2>1. CASE j = k
    BY <1>2, <2>1 DEF Accepted, Statuses
  <2>2. CASE j # k
    BY <1>1, <1>2, <2>2 DEF Accepted, Statuses, Reasons, AcceptedMeansRegistered
  <2> QED
    BY <2>1, <2>2
<1>8. AnnulledForReason' /\ CorrectedForReason'
  BY <1>1, <1>4, AnnulledStay, CorrectedStay DEF Reasons
<1>9. Numbered'
  BY <1>1 DEF Numbered, Issued
<1>10. \A v \in Workers \ {w} : Beside(v)
  BY DEF Beside, Issued
<1>11. \A v \in Workers : Work(v)'
  BY <1>1, <1>4, <1>10, BystanderKeeps
<1> QED
  BY <1>3, <1>6, <1>7, <1>8, <1>9, <1>11 DEF IInv, Reasons

\* The attempts of a record once an outcome is stored.
Stored(a, s, b) ==
    /\ b \in Seq(Attempts) /\ Len(a) <= Len(b)
    /\ \A n \in 1..Len(a) : b[n] = a[n]
    /\ \A n \in 1..Len(b) : n \in 1..Len(a) \/ b[n] = s
    /\ s # "disabled" => Len(b) \in 1..Len(b) /\ b[Len(b)] = s

LEMMA WithAttemptIs ==
    ASSUME NEW a \in Seq(Attempts), NEW s \in Outcomes, NEW b, b = WithAttempt(a, s)
    PROVE  Stored(a, s, b)
<1>1. CASE s = "disabled"
  BY <1>1 DEF WithAttempt, Stored
<1>2. CASE s \in Attempts
  <2>1. b = Append(a, s) /\ s # "disabled"
    BY <1>2 DEF WithAttempt, Attempts
  <2> QED
    BY <1>2, <2>1 DEF Stored
<1> QED
  BY <1>1, <1>2 DEF Attempts, Outcomes

LEMMA PersistStep ==
    ASSUME IInv, NEW w \in Workers, Persist(w)
    PROVE  IInv' /\ KeepsHistory
<1>1. Typed /\ Reasons /\ Work(w)
  BY DEF IInv
<1>2. /\ pc[w] = "answered" /\ req[w].op # "rectify"
      /\ UNCHANGED <<inv, last, aeat, chain, requests, crashes, failed, live>>
  BY DEF Persist
<1>3. PICK k \in 1..Len(recs) : k = req[w].at /\ req[w].rec = recs[k].rec
  BY <1>1, <1>2 DEF Work, Carried
<1>4. PICK s \in Outcomes : /\ s = req[w].outcome
                            /\ s = "accepted" => recs[k].rec \in aeat
                            /\ s = "disabled" => ~live
  BY <1>1, <1>2, <1>3 DEF Work
<1>5. PICK a \in Seq(Attempts) : a = recs[k].attempts
  BY <1>1, RecsAre, EntryFields
<1>6. PICK b : b = WithAttempt(a, s)
  OBVIOUS
<1>7. /\ b \in Seq(Attempts) /\ Len(a) <= Len(b)
      /\ \A n \in 1..Len(a) : b[n] = a[n]
      /\ \A n \in 1..Len(b) : n \in 1..Len(a) \/ b[n] = s
      /\ s # "disabled" => Len(b) \in 1..Len(b) /\ b[Len(b)] = s
  <2>1. Stored(a, s, b)
    BY <1>6, WithAttemptIs
  <2> QED
    BY <2>1 DEF Stored
<1>8. recs' = [recs EXCEPT ![k].attempts = b]
  BY <1>3, <1>4, <1>5, <1>6 DEF Persist
<1>9. /\ recs' \in Seq(Entries) /\ Len(recs') = Len(recs) /\ recs'[k].attempts = b
      /\ recs'[k].rec = recs[k].rec
  <2>1. recs \in Seq(Entries)
    BY <1>1, RecsAre
  <2>2. b \in Seq(Attempts)
    BY <1>7
  <2>3. /\ recs' \in Seq(Entries) /\ Len(recs') = Len(recs) /\ recs'[k].attempts = b
        /\ \A j \in 1..Len(recs) : recs'[j].rec = recs[j].rec /\ (j # k => recs'[j] = recs[j])
    BY <1>3, <1>8, <2>1, <2>2, AttemptsIs
  <2> QED
    BY <2>3
<1>10. \A n \in 1..Len(b) : b[n] = "accepted" => recs[k].rec \in aeat
  <2> SUFFICES ASSUME NEW n \in 1..Len(b), b[n] = "accepted", n \in 1..Len(a)
               PROVE  recs[k].rec \in aeat
    BY <1>4, <1>7
  <2>1. Accepted(k)
    BY <1>5, <1>7 DEF Accepted, Statuses
  <2> QED
    BY <1>1, <2>1 DEF Reasons, AcceptedMeansRegistered
<1>11. PICK q \in Requests : q = req[w]
  BY <1>1, RequestFields
<1>12. PICK p \in Places, r \in Requests :
          /\ Proceed(w, p, r)
          /\ \/ p = "idle" /\ r = NoRequest
             \/ p = "marking" /\ r = q /\ q.op = "annul" /\ Applies(s)
  <2>1. CASE q.op = "annul" /\ Applies(s)
    <3>1. Proceed(w, "marking", q)
      BY <1>4, <1>11, <2>1 DEF Persist
    <3> QED
      BY <2>1, <3>1 DEF Places
  <2>2. CASE ~(q.op = "annul" /\ Applies(s))
    <3>1. Proceed(w, "idle", NoRequest)
      BY <1>4, <1>11, <2>2 DEF Persist, Finish
    <3> QED
      BY <3>1, NoRequestIsTyped DEF Places
  <2> QED
    BY <2>1, <2>2
<1>13. /\ pc' \in [Workers -> Places] /\ pc'[w] = p
       /\ req' \in [Workers -> Requests] /\ req'[w] = r
       /\ \A v \in Workers \ {w} : pc'[v] = pc[v] /\ req'[v] = req[v]
  BY <1>1, <1>12, ProceedIs
<1>14. Typed'
  BY <1>1, <1>2, <1>9, <1>13 DEF Typed
<1>15. chain # w
  BY <1>1, <1>2 DEF Work
<1>16. Work(w)'
  <2>1. CASE p = "idle"
    BY <1>2, <1>13, <1>15, <2>1, IdleWork
  <2>2. CASE p = "marking"
    <3>1. r = q /\ q.op = "annul" /\ Applies(s)
      BY <1>12, <2>2
    <3>2. Carried(w)
      BY <1>1, <1>2 DEF Work
    <3>3. PICK i \in Ids : i = q.inv /\ recs[k].rec.inv = i /\ recs[k].rec.kind = "anulacion"
      BY <1>1, <1>3, <1>11, <3>1, <3>2, RecsAre, EntryFields DEF Carried
    <3>4. Accepted(k)' \/ ~live'
      <4>1. CASE s = "accepted"
        <5>1. Len(b) \in 1..Len(recs'[k].attempts) /\ recs'[k].attempts[Len(b)] = "accepted"
          BY <1>7, <1>9, <4>1
        <5> QED
          BY <5>1 DEF Accepted, Statuses
      <4>2. CASE s = "disabled"
        BY <1>2, <1>4, <4>2
      <4> QED
        BY <3>1, <4>1, <4>2 DEF Applies
    <3>5. Reason(k, i)'
      BY <1>9, <3>3, <3>4 DEF Reason
    <3>6. req'[w].inv = i /\ req'[w].at = k /\ req'[w].op = "annul" /\ k \in 1..Len(recs')
      BY <1>3, <1>9, <1>11, <1>13, <3>1, <3>3
    <3> QED
      BY <1>2, <1>13, <1>15, <2>2, <3>5, <3>6 DEF Work, Reason
  <2> QED
    BY <1>12, <2>1, <2>2
<1>17. Apart'
  <2>1. req'[w].rect \in {None, req[w].rect}
    BY <1>11, <1>12, <1>13 DEF NoRequest
  <2> QED
    BY <1>13, <2>1, ApartStays DEF IInv
<1> QED
  BY <1>2, <1>5, <1>7, <1>8, <1>10, <1>13, <1>14, <1>16, <1>17, AttemptStep

LEMMA CancelAttemptStep ==
    ASSUME IInv, NEW w \in Workers, CancelAttempt(w)
    PROVE  IInv' /\ KeepsHistory
<1>1. Typed /\ Reasons /\ Work(w)
  BY DEF IInv
<1>2. /\ pc[w] = "cancelling" /\ recs' = Cancelled(w) /\ Proceed(w, "marking", req[w])
      /\ UNCHANGED <<inv, last, aeat, chain, requests, crashes, failed, live>>
  BY DEF CancelAttempt
<1>3. PICK i \in Ids, k \in 1..Len(recs), n \in Nat :
         /\ i = req[w].inv /\ k = req[w].at /\ n = req[w].tries
         /\ k \in AltasOf(i) /\ n \in 1..Len(recs[k].attempts)
         /\ recs[k].attempts[n] \in {"pending", "cancelled"} /\ req[w].op = "annul"
  BY <1>1, <1>2 DEF Work, AltasOf
<1>4. PICK a \in Seq(Attempts) : a = recs[k].attempts
  BY <1>1, RecsAre, EntryFields
<1>5. PICK b : b = [a EXCEPT ![n] = "cancelled"]
  OBVIOUS
<1>6. /\ b \in Seq(Attempts) /\ Len(b) = Len(a)
      /\ \A m \in 1..Len(a) : b[m] = IF m = n THEN "cancelled" ELSE a[m]
  BY <1>3, <1>4, <1>5, ExceptSeq DEF Attempts
<1>7. recs' = [recs EXCEPT ![k].attempts = b]
  BY <1>2, <1>3, <1>4, <1>5 DEF Cancelled
<1>8. /\ recs' \in Seq(Entries) /\ Len(recs') = Len(recs) /\ recs'[k].attempts = b
      /\ recs'[k].rec = recs[k].rec
  <2>1. recs \in Seq(Entries)
    BY <1>1, RecsAre
  <2>2. b \in Seq(Attempts)
    BY <1>6
  <2>3. /\ recs' \in Seq(Entries) /\ Len(recs') = Len(recs) /\ recs'[k].attempts = b
        /\ \A j \in 1..Len(recs) : recs'[j].rec = recs[j].rec /\ (j # k => recs'[j] = recs[j])
    BY <1>3, <1>7, <2>1, <2>2, AttemptsIs, SMTT(30)
  <2> QED
    BY <2>3
<1>9. \A m \in 1..Len(b) : b[m] = "accepted" => recs[k].rec \in aeat
  <2> SUFFICES ASSUME NEW m \in 1..Len(b), b[m] = "accepted"
               PROVE  recs[k].rec \in aeat
    OBVIOUS
  <2>1. Accepted(k)
    BY <1>4, <1>6 DEF Accepted, Statuses
  <2> QED
    BY <1>1, <2>1 DEF Reasons, AcceptedMeansRegistered
<1>10. /\ pc' \in [Workers -> Places] /\ pc'[w] = "marking"
       /\ req' \in [Workers -> Requests] /\ req'[w] = req[w]
       /\ \A v \in Workers \ {w} : pc'[v] = pc[v] /\ req'[v] = req[v]
  BY <1>1, <1>2, RequestFields, ProceedIs DEF Places
<1>11. Typed'
  BY <1>1, <1>2, <1>8, <1>10 DEF Typed
<1>12. chain # w
  BY <1>1, <1>2 DEF Work
<1>13. Reason(k, i)'
  <2>1. recs[k].rec.inv = i /\ recs[k].rec.kind = "alta"
    BY <1>3 DEF AltasOf
  <2>2. n \in 1..Len(recs'[k].attempts) /\ recs'[k].attempts[n] = "cancelled"
    BY <1>3, <1>4, <1>6, <1>8
  <2>3. "cancelled" \in Statuses(k)'
    BY <2>2 DEF Statuses
  <2> QED
    BY <1>8, <2>1, <2>3 DEF Reason
<1>14. Work(w)'
  <2>1. req'[w].inv = i /\ req'[w].at = k /\ req'[w].op = "annul" /\ k \in 1..Len(recs')
    BY <1>3, <1>8, <1>10
  <2> QED
    BY <1>2, <1>10, <1>12, <1>13, <2>1 DEF Work, Reason
<1>15. Apart'
  BY <1>10, ApartStays DEF IInv
<1>16. \A m \in 1..Len(recs[k].attempts) : b[m] # recs[k].attempts[m] =>
          recs[k].attempts[m] = "pending" /\ b[m] = "cancelled"
  BY <1>3, <1>4, <1>6
<1>17. Len(recs[k].attempts) <= Len(b)
  BY <1>4, <1>6
<1> QED
  BY <1>2, <1>6, <1>7, <1>9, <1>10, <1>11, <1>14, <1>15, <1>16, <1>17, AttemptStep

LEMMA MarkAnnulledStep ==
    ASSUME IInv, NEW w \in Workers, MarkAnnulled(w)
    PROVE  IInv' /\ KeepsHistory
<1>1. Typed /\ Numbered /\ Ledger /\ Reasons /\ Apart /\ \A v \in Workers : Work(v)
  BY DEF IInv
<1>2. /\ pc[w] = "marking" /\ Finish(w)
      /\ UNCHANGED <<last, recs, aeat, chain, requests, crashes, failed, live>>
  BY DEF MarkAnnulled
<1>3. PICK i \in Ids, k \in 1..Len(recs) : i = req[w].inv /\ Reason(k, i)
  BY <1>1, <1>2 DEF Work
<1>4. PICK q \in Rows : q = inv[i]
  BY <1>1, RowFields
<1>5. PICK s : s = [q EXCEPT !.annulled = TRUE]
  OBVIOUS
<1>6. s \in Rows /\ s.num = q.num /\ s.correctedBy = q.correctedBy
  BY <1>5 DEF Rows
<1>7. inv' = [inv EXCEPT ![i] = s]
  BY <1>3, <1>4, <1>5 DEF MarkAnnulled
<1>8. /\ inv' \in [Ids -> Rows]
      /\ \A j \in Ids : /\ inv'[j].num = inv[j].num /\ inv'[j].correctedBy = inv[j].correctedBy
                        /\ j # i => inv'[j] = inv[j]
  BY <1>1, <1>4, <1>6, <1>7 DEF Typed
<1>9. /\ pc' \in [Workers -> Places] /\ pc'[w] = "idle"
      /\ req' \in [Workers -> Requests] /\ req'[w] = NoRequest
      /\ \A v \in Workers \ {w} : pc'[v] = pc[v] /\ req'[v] = req[v]
  BY <1>1, <1>2, FinishIs
<1>10. Typed'
  BY <1>1, <1>2, <1>8, <1>9 DEF Typed
<1>11. Grows
  BY <1>1, <1>2, <1>8, RecsAre, EntryFields DEF Grows, KeepsHistory
<1>12. Numbered'
  BY <1>1, <1>2, <1>8, LifecycleAssumption DEF Numbered, Issued, Series, Ids
<1>13. \A j : AltasOf(j)' = AltasOf(j)
  BY <1>2 DEF AltasOf
<1>14. Ledger'
  <2>1. \A j \in 1..Len(recs) : recs[j].rec.inv \in Ids
    BY <1>1, RecsAre, EntryFields
  <2> QED
    BY <1>1, <1>2, <1>8, <1>13, <2>1 DEF Ledger, Issued, Series
<1>15. \A j : Accepted(j)' <=> Accepted(j)
  BY <1>2 DEF Accepted, Statuses
<1>16. AcceptedMeansRegistered'
  BY <1>1, <1>2, <1>15 DEF Reasons, AcceptedMeansRegistered
<1>17. CorrectedForReason'
  BY <1>1, <1>8, <1>10, <1>11, CorrectedStay DEF Reasons
<1>18. AnnulledForReason'
  <2> SUFFICES ASSUME NEW j \in Ids, inv'[j].annulled
               PROVE  \E l \in 1..Len(recs') : Reason(l, j)'
    BY DEF AnnulledForReason, Reason
  <2>1. PICK l \in 1..Len(recs) : Reason(l, j)
    <3>1. CASE j = i
      BY <1>3, <3>1
    <3>2. CASE j # i
      BY <1>1, <1>8, <3>2 DEF Reasons, AnnulledForReason, Reason
    <3> QED
      BY <3>1, <3>2
  <2> QED
    BY <1>1, <1>10, <1>11, <2>1, ReasonStays
<1>19. Apart'
  BY <1>1, <1>9, ApartStays DEF NoRequest
<1>20. \A v \in Workers \ {w} : Beside(v)
  <2>1. \A j \in Rects : j \in Ids
    BY DEF Ids
  <2> QED
    BY <1>2, <1>8, <1>9, <2>1 DEF Beside, Issued
<1>21. Work(w)'
  <2>1. chain' # w
    BY <1>1, <1>2 DEF Work
  <2> QED
    BY <1>9, <2>1, IdleWork
<1>22. \A v \in Workers : Work(v)'
  BY <1>1, <1>10, <1>11, <1>20, <1>21, BystanderKeeps
<1> QED
  BY <1>10, <1>11, <1>12, <1>14, <1>16, <1>17, <1>18, <1>19, <1>22 DEF IInv, Reasons, Grows

----------------------------------------------------------------------------
(* The theorems *)

LEMMA NextKeeps == IInv /\ Next => IInv' /\ KeepsHistory
<1> SUFFICES ASSUME IInv, Next PROVE IInv' /\ KeepsHistory
  OBVIOUS
<1>1. CASE \E i \in Invoices : Create(i)
  BY <1>1, CreateStep
<1>2. CASE \E w \in Workers, i \in Ids :
              \/ RegisterLoad(w, i) \/ Submit(w, i) \/ AnnulLoad(w, i)
              \/ \E r \in Rects : RectifyLoad(w, i, r)
  BY <1>2, RegisterLoadStep, SubmitStep, AnnulLoadStep, RectifyLoadStep
<1>3. CASE \E w \in Workers, k \in 1..Len(recs) : Redrive(w, k)
  BY <1>3, RedriveStep
<1>4. ASSUME NEW w \in Workers, Step(w)
      PROVE  IInv' /\ KeepsHistory
  BY <1>4, RegisterStep, DisabledStep, ReplyStep, NoReplyStep, PersistStep,
     RectifyRefuseStep, RectifyIssueStep, RectifyCommitStep, AnnulDecideStep,
     AnnulGenerateStep, CancelAttemptStep, MarkAnnulledStep DEF Step
<1>5. CASE \E w \in Workers : Crash(w)
  BY <1>5, CrashStep
<1> QED
  BY <1>1, <1>2, <1>3, <1>4, <1>5 DEF Next

LEMMA StutterKeeps == IInv /\ UNCHANGED vars => IInv'
<1> SUFFICES ASSUME IInv, UNCHANGED vars PROVE IInv'
  OBVIOUS
<1>1. Typed' /\ Apart'
  BY DEF IInv, vars, Typed, Apart
<1>2. Grows /\ Numbered' /\ Ledger' /\ Reasons'
  BY QuietKeeps DEF IInv, vars
<1>3. \A v \in Workers : Beside(v)
  BY DEF vars, Beside, Issued
<1>4. \A v \in Workers : Work(v)'
  BY <1>1, <1>2, <1>3, BystanderKeeps DEF IInv
<1> QED
  BY <1>1, <1>2, <1>4 DEF IInv

LEMMA IInvAlways == Spec => []IInv
<1>1. IInv /\ [Next]_vars => IInv'
  BY NextKeeps, StutterKeeps
<1> QED
  BY <1>1, InitEstablishes, PTL DEF Spec

LEMMA TypedMeansTypeOK == IInv => TypeOK
<1> SUFFICES ASSUME IInv PROVE TypeOK
  OBVIOUS
<1>1. Typed /\ \A w \in Workers : Work(w)
  BY DEF IInv
<1>2. \A k \in 1..Len(recs) : recs[k].rec \in Records /\ Statuses(k) \subseteq Attempts
  BY <1>1, RecsAre, EntryFields DEF Statuses
<1>3. ASSUME NEW w \in Workers
      PROVE  /\ pc[w] = "sending" => req[w].tries \in 0..(MaxTries - 1)
             /\ chain = w <=> req[w].op = "rectify" /\ pc[w] \in {"sending", "answered"}
  BY <1>1, RequestFields, Bounds DEF Work
<1> QED
  BY <1>1, <1>2, <1>3 DEF Typed, TypeOK, Rows

\* services.py, generate_alta and generate_anulacion: however creations,
\* registrations, corrections and annulments interleave or die, an issued invoice
\* has one alta, an anulacion follows its alta, and no two records share a number
\* and a kind.  The database's unique constraint is what it rests on.
THEOREM OneRecordAlways == Spec => []OneRecordEach
<1>1. IInv => OneRecordEach
  <2> SUFFICES ASSUME IInv PROVE OneRecordEach
    OBVIOUS
  <2>1. Typed /\ Ledger /\ TypeOK
    BY TypedMeansTypeOK DEF IInv
  <2>2. ASSUME NEW i \in Ids
        PROVE  Cardinality(AltasOf(i)) <= 1
    <3>1. CASE AltasOf(i) = {}
      BY <3>1, FS_EmptySet
    <3>2. CASE \E k : k \in AltasOf(i)
      <4>1. PICK k : k \in AltasOf(i)
        BY <3>2
      <4>2. AltasOf(i) = {k}
        BY <2>1, <4>1, OneAlta
      <4>3. Cardinality(AltasOf(i)) = 1
        BY <4>2, FS_Singleton
      <4> QED
        BY <4>3
    <3> QED
      BY <3>1, <3>2
  <2> QED
    BY <2>1, <2>2 DEF OneRecordEach, Ledger
<1> QED
  BY <1>1, IInvAlways, PTL

\* services.py, annul_invoice: no interleaving, crash or lost reply leaves an
\* invoice marked annulled without an accepted (or, with submission off, a
\* generated) anulacion, or a pending submission that was cancelled.
THEOREM AnnulmentsHaveReasons == Spec => []AnnulledForReason
<1>1. IInv => AnnulledForReason
  BY DEF IInv, Reasons
<1> QED
  BY <1>1, IInvAlways, PTL

\* services.py, issue_rectificativa: a link to a rectificativa is committed only
\* together with its record, and only when that record was accepted (or submission
\* is off); a crash while the AEAT answers commits neither.
THEOREM CorrectionsHaveReasons == Spec => []CorrectedForReason
<1>1. IInv => CorrectedForReason
  BY DEF IInv, Reasons
<1> QED
  BY <1>1, IInvAlways, PTL

\* submission/services.py: whatever requests and replies are lost and however often
\* a record is sent again, an accepted attempt is stored only for a record that
\* the AEAT holds.
THEOREM AcceptancesAreTrue == Spec => []AcceptedMeansRegistered
<1>1. IInv => AcceptedMeansRegistered
  BY DEF IInv, Reasons
<1> QED
  BY <1>1, IInvAlways, PTL

\* Records are append-only and stored attempts final: the one that annul_invoice
\* overwrites is the one it read as pending, or another annulment has cancelled it.
THEOREM HistoryStays == Spec => HistoryIsKept
<1>1. IInv /\ [Next]_vars => [KeepsHistory]_vars
  BY NextKeeps
<1>2. Spec => [][KeepsHistory]_vars
  BY <1>1, IInvAlways, PTL DEF Spec
<1>3. [KeepsHistory]_vars <=>
        [/\ Len(recs) <= Len(recs')
         /\ \A k \in 1..Len(recs) :
               LET old == recs[k].attempts
                   new == recs'[k].attempts
               IN  /\ recs'[k].rec = recs[k].rec
                   /\ Len(old) <= Len(new)
                   /\ \A n \in 1..Len(old) :
                         new[n] # old[n] => old[n] = "pending" /\ new[n] = "cancelled"]_vars
  BY DEF KeepsHistory
<1> QED
  BY <1>2, <1>3, PTL DEF HistoryIsKept
=============================================================================
