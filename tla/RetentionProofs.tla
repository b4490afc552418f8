--------------------------- MODULE RetentionProofs ---------------------------
(***************************************************************************)
(* Proofs about Retention, for any number of owners, invoices and clients  *)
(* and any periods.                                                        *)
(*                                                                         *)
(* What the command may delete is decided in one transaction and deleted   *)
(* in another.  The invariant says what stays true in between: nothing     *)
(* that has expired survives the first transaction; an eligible account,   *)
(* which may still be in use if the request that was to close it was       *)
(* killed, has since got no invoice but such as protect it; and a blocked  *)
(* account keeps those that block it.                                      *)
(***************************************************************************)
EXTENDS Retention, TLAPS

Typed ==
    /\ account \in [Users -> {"active", "inactive", "gone"}]
    /\ requested \in [Users -> Days \cup {None}]
    /\ client \in [Clients -> Users \cup {None}]
    /\ inv \in [Invoices -> Rows \cup {None}]
    /\ now \in Days /\ cut \in 0..now

\* No row refers to one that was deleted.
References ==
    /\ \A i \in Invoices : inv[i] # None =>
          /\ account[inv[i].owner] # "gone"
          /\ inv[i].client # None => client[inv[i].client] = inv[i].owner
    /\ \A c \in Clients : client[c] # None => account[client[c]] # "gone"
    /\ \A u \in Users : account[u] = "gone" => requested[u] = None /\ u \notin stored

NothingExpired ==
    pc \in {"clients", "deleting", "accounts", "purging", "done"} => Expired = {}

\* What an eligible account has is protected, and a blocked one has an invoice.
Decided ==
    /\ pc = "purging" =>
          /\ eligible \subseteq Users
          /\ \A u \in eligible : PastGrace(u) /\ \A i \in InvoicesOf(u) : inv[i].record
          /\ \A u \in Users : PastGrace(u) => u \in eligible \/ InvoicesOf(u) # {}
    /\ pc = "done" => \A u \in Users : PastGrace(u) => InvoicesOf(u) # {}

IInv == Typed /\ References /\ NothingExpired /\ Decided

----------------------------------------------------------------------------
(* Rows, and the sets of them *)

LEMMA RowFields ==
    ASSUME NEW r \in Rows
    PROVE  /\ r.owner \in Users /\ r.client \in Clients \cup {None}
           /\ r.date \in Days /\ r.date \in Nat /\ r.record \in BOOLEAN
           /\ r # None
BY RetentionAssumption DEF Rows, Days

LEMMA IssuedRow ==
    ASSUME Typed, NEW i \in Invoices, inv[i] # None
    PROVE  inv[i] \in Rows
BY DEF Typed

LEMMA Numbers ==
    ASSUME Typed
    PROVE  /\ now \in Nat /\ cut \in Nat /\ cut <= now /\ Window \in Nat /\ Grace \in Nat
           /\ \A u \in Users : requested[u] # None => requested[u] \in Nat
BY RetentionAssumption DEF Typed, Days

\* Nothing that happens today has expired, and no request made today is past
\* its grace period.
LEMMA TodayIsRecent ==
    ASSUME Typed
    PROVE  ~(now < cut - Window) /\ ~(now < cut - Grace)
BY Numbers

\* Which invoices have expired depends on the table and the cut-off alone, and
\* so on.
LEMMA SetsDependOn ==
    /\ UNCHANGED <<inv, cut>> => Expired' = Expired
    /\ \A u : UNCHANGED inv => InvoicesOf(u)' = InvoicesOf(u)
    /\ \A u : UNCHANGED <<requested, cut>> => PastGrace(u)' = PastGrace(u)
BY DEF Expired, InvoicesOf, PastGrace

----------------------------------------------------------------------------
(* Each action preserves the invariant *)

LEMMA InitInv == Init => IInv
<1> SUFFICES ASSUME Init PROVE IInv
  OBVIOUS
<1>1. PICK old \in SUBSET Legacy, o \in Users, c \in Clients \cup {None} :
         /\ c # None => client[c] = o
         /\ inv = [i \in Invoices |->
               IF i \in old THEN [owner |-> o, client |-> c, date |-> 0, record |-> FALSE]
               ELSE None]
  BY DEF Init
<1>2. [owner |-> o, client |-> c, date |-> 0, record |-> FALSE] \in Rows
  BY RetentionAssumption DEF Rows, Days
<1>3. Typed
  <2>1. inv \in [Invoices -> Rows \cup {None}]
    BY <1>1, <1>2
  <2>2. 0 \in Days
    BY RetentionAssumption DEF Days
  <2>3. /\ account \in [Users -> {"active", "inactive", "gone"}]
        /\ requested \in [Users -> Days \cup {None}]
        /\ client \in [Clients -> Users \cup {None}]
    BY DEF Init
  <2>4. now \in Days /\ cut \in 0..now
    BY <2>2 DEF Init
  <2>5. QED
    BY <2>1, <2>3, <2>4 DEF Typed
<1>4. References
  <2>1. \A i \in Invoices : inv[i] # None => inv[i].owner = o /\ inv[i].client = c
    BY <1>1
  <2>2. QED
    BY <1>1, <2>1 DEF Init, References
<1>5. NothingExpired /\ Decided
  BY DEF Init, NothingExpired, Decided
<1>6. QED
  BY <1>3, <1>4, <1>5 DEF IInv

\* An owner who only adds invoices with a record, or a record to an invoice, disturbs
\* nothing that the command has decided.
LEMMA DecidedStays ==
    ASSUME Decided, UNCHANGED <<pc, eligible>>,
           \A u : PastGrace(u)' = PastGrace(u),
           \A u \in Users : /\ InvoicesOf(u) \subseteq InvoicesOf(u)'
                            /\ \A i \in InvoicesOf(u)' :
                                  inv'[i].record \/ (i \in InvoicesOf(u) /\ inv'[i] = inv[i])
    PROVE  Decided'
<1>1. ASSUME pc' = "purging" PROVE eligible' \subseteq Users
  BY <1>1 DEF Decided
<1>2. ASSUME pc' = "purging", NEW u \in eligible'
      PROVE  PastGrace(u)' /\ \A i \in InvoicesOf(u)' : inv'[i].record
  <2>1. u \in Users /\ u \in eligible /\ PastGrace(u) /\ \A i \in InvoicesOf(u) : inv[i].record
    BY <1>2 DEF Decided
  <2>2. QED
    BY <2>1
<1>3. ASSUME NEW u \in Users, PastGrace(u)', pc' = "purging"
      PROVE  u \in eligible' \/ InvoicesOf(u)' # {}
  BY <1>3 DEF Decided
<1>4. ASSUME NEW u \in Users, PastGrace(u)', pc' = "done"
      PROVE  InvoicesOf(u)' # {}
  BY <1>4 DEF Decided
<1>5. QED
  BY <1>1, <1>2, <1>3, <1>4 DEF Decided

LEMMA IssueStep ==
    ASSUME IInv, NEW u \in Users, NEW i \in Invoices, NEW c \in Clients, Issue(u, i, c)
    PROVE  IInv'
<1>1. PICK r : r = [owner |-> u, client |-> c, date |-> now, record |-> TRUE]
  OBVIOUS
<1>2. /\ r \in Rows /\ r.owner = u /\ r.client = c /\ r.date = now
  BY <1>1 DEF Rows, IInv, Typed
<1>3. /\ inv[i] = None /\ inv'[i] = r /\ \A j \in Invoices \ {i} : inv'[j] = inv[j]
      /\ inv' \in [Invoices -> Rows \cup {None}]
      /\ account[u] = "active" /\ client[c] = u /\ r # None
      /\ UNCHANGED <<account, requested, stored, client, now, pc, cut, orphans, eligible>>
  BY <1>1, <1>2, RowFields DEF Issue, IInv, Typed, command
<1>4. Typed'
  BY <1>3 DEF IInv, Typed
<1>5. References'
  BY <1>2, <1>3 DEF IInv, References
<1>6. Expired' = Expired
  BY <1>2, <1>3, TodayIsRecent DEF Expired, IInv
<1>7. /\ \A v \in Users : /\ InvoicesOf(v) \subseteq InvoicesOf(v)'
                         /\ \A j \in InvoicesOf(v)' :
                               inv'[j].record \/ (j \in InvoicesOf(v) /\ inv'[j] = inv[j])
      /\ \A v : PastGrace(v)' = PastGrace(v)
  <2>1. r.record
    BY <1>1
  <2>2. QED
    BY <1>3, <2>1 DEF InvoicesOf, PastGrace
<1>8. NothingExpired' /\ Decided'
  BY <1>3, <1>6, <1>7, DecidedStays DEF IInv, NothingExpired
<1>9. QED
  BY <1>4, <1>5, <1>8 DEF IInv

LEMMA RegisterStep ==
    ASSUME IInv, NEW i \in Invoices, Register(i)
    PROVE  IInv'
<1>1. PICK r \in Rows : r = inv[i]
  BY IssuedRow DEF Register, IInv
<1>2. PICK s : s = [r EXCEPT !.record = TRUE]
  OBVIOUS
<1>3. s \in Rows /\ s.owner = r.owner /\ s.client = r.client /\ s.date = r.date /\ s # None
  BY <1>1, <1>2, RowFields DEF Rows
<1>4. /\ inv'[i] = s /\ \A j \in Invoices \ {i} : inv'[j] = inv[j]
      /\ inv' \in [Invoices -> Rows \cup {None}]
      /\ inv[i] # None
      /\ UNCHANGED <<account, requested, stored, client, now, pc, cut, orphans, eligible>>
  BY <1>1, <1>2, <1>3 DEF Register, IInv, Typed, command
<1>5. Typed'
  BY <1>4 DEF IInv, Typed
<1>6. References'
  BY <1>1, <1>3, <1>4 DEF IInv, References
<1>7. Expired' = Expired
  BY <1>1, <1>3, <1>4 DEF Expired
<1>8. /\ \A v \in Users : /\ InvoicesOf(v) \subseteq InvoicesOf(v)'
                         /\ \A j \in InvoicesOf(v)' :
                               inv'[j].record \/ (j \in InvoicesOf(v) /\ inv'[j] = inv[j])
      /\ \A v : PastGrace(v)' = PastGrace(v)
  <2>1. s.record
    BY <1>2 DEF Rows
  <2>2. QED
    BY <1>1, <1>3, <1>4, <2>1 DEF InvoicesOf, PastGrace
<1>9. NothingExpired' /\ Decided'
  BY <1>4, <1>7, <1>8, DecidedStays DEF IInv, NothingExpired
<1>10. QED
  BY <1>5, <1>6, <1>9 DEF IInv

\* Requests that change neither an invoice nor a request.
LEMMA OtherRequestStep ==
    ASSUME IInv, UNCHANGED <<account, requested, inv, now, pc, cut, orphans, eligible>>,
           client' \in [Clients -> Users \cup {None}], References'
    PROVE  IInv'
<1>1. Typed'
  BY DEF IInv, Typed
<1>2. NothingExpired'
  BY SetsDependOn DEF IInv, NothingExpired
<1>3. Decided'
  BY SetsDependOn DEF IInv, Decided
<1>4. QED
  BY <1>1, <1>2, <1>3 DEF IInv

LEMMA CreateClientStep ==
    ASSUME IInv, NEW u \in Users, NEW c \in Clients, CreateClient(u, c)
    PROVE  IInv'
<1>1. /\ UNCHANGED <<account, requested, stored, inv, now, pc, cut, orphans, eligible>>
      /\ client[c] = None /\ client'[c] = u /\ account[u] = "active"
      /\ \A d \in Clients \ {c} : client'[d] = client[d]
      /\ client' \in [Clients -> Users \cup {None}]
  BY DEF CreateClient, IInv, Typed, command
<1>2. \A i \in Invoices : inv[i] # None /\ inv[i].client # None =>
          inv[i].client \in Clients /\ inv[i].client # c
  BY <1>1, IssuedRow, RowFields, RetentionAssumption DEF IInv, References
<1>3. References'
  BY <1>1, <1>2 DEF IInv, References
<1>4. QED
  BY <1>1, <1>3, OtherRequestStep

LEMMA DeleteClientStep ==
    ASSUME IInv, NEW c \in Clients, DeleteClient(c)
    PROVE  IInv'
<1>1. /\ UNCHANGED <<account, requested, stored, inv, now, pc, cut, orphans, eligible>>
      /\ client'[c] = None /\ Linked(c) = {}
      /\ \A d \in Clients \ {c} : client'[d] = client[d]
      /\ client' \in [Clients -> Users \cup {None}]
  BY DEF DeleteClient, Deletable, IInv, Typed, command
<1>2. \A i \in Invoices : inv[i] # None /\ inv[i].client # None =>
          inv[i].client \in Clients /\ inv[i].client # c
  BY <1>1, IssuedRow, RowFields DEF IInv, Linked
<1>3. References'
  BY <1>1, <1>2 DEF IInv, References
<1>4. QED
  BY <1>1, <1>3, OtherRequestStep

LEMMA StoreCertificateStep ==
    ASSUME IInv, NEW u \in Users, StoreCertificate(u)
    PROVE  IInv'
<1>1. UNCHANGED <<account, requested, client, inv, now, pc, cut, orphans, eligible>>
  BY DEF StoreCertificate, command
<1>2. References'
  BY <1>1 DEF StoreCertificate, IInv, References
<1>3. client' \in [Clients -> Users \cup {None}]
  BY <1>1 DEF IInv, Typed
<1>4. QED
  BY <1>1, <1>2, <1>3, OtherRequestStep

LEMMA RequestDeletionStep ==
    ASSUME IInv, NEW u \in Users, RequestDeletion(u)
    PROVE  IInv'
<1>1. /\ UNCHANGED <<account, stored, client, inv, now, pc, cut, orphans, eligible>>
      /\ account[u] = "active"
      /\ \A v \in Users \ {u} : requested'[v] = requested[v]
      /\ requested[u] = None /\ requested'[u] = now
      /\ requested' \in [Users -> Days \cup {None}]
  BY DEF RequestDeletion, IInv, Typed, command
<1>2. Typed' /\ References'
  BY <1>1 DEF IInv, Typed, References
<1>3. NothingExpired'
  BY <1>1, SetsDependOn DEF IInv, NothingExpired
<1>4. /\ \A v : InvoicesOf(v)' = InvoicesOf(v)
      /\ \A v \in Users : PastGrace(v)' <=> PastGrace(v)
  <2>1. ~PastGrace(u)' /\ ~PastGrace(u)
    BY <1>1, TodayIsRecent DEF PastGrace, IInv
  <2>2. \A v \in Users \ {u} : PastGrace(v)' <=> PastGrace(v)
    BY <1>1 DEF PastGrace
  <2>3. \A v : InvoicesOf(v)' = InvoicesOf(v)
    BY <1>1, SetsDependOn
  <2>4. QED
    BY <2>1, <2>2, <2>3
<1>5. Decided'
  BY <1>1, <1>4 DEF IInv, Decided
<1>6. QED
  BY <1>2, <1>3, <1>5 DEF IInv

LEMMA DeactivateStep ==
    ASSUME IInv, NEW u \in Users, Deactivate(u)
    PROVE  IInv'
<1>1. /\ UNCHANGED <<requested, stored, client, inv, now, pc, cut, orphans, eligible>>
      /\ account[u] = "active" /\ account'[u] = "inactive"
      /\ \A v \in Users \ {u} : account'[v] = account[v]
      /\ account' \in [Users -> {"active", "inactive", "gone"}]
  BY DEF Deactivate, IInv, Typed, command
<1>2. Typed'
  BY <1>1 DEF IInv, Typed
<1>3. References'
  <2>1. \A i \in Invoices : inv[i] # None => inv[i].owner \in Users
    BY IssuedRow, RowFields DEF IInv
  <2>2. \A c \in Clients : client[c] # None => client[c] \in Users
    BY DEF IInv, Typed
  <2>3. QED
    BY <1>1, <2>1, <2>2 DEF IInv, References
<1>4. NothingExpired' /\ Decided'
  BY <1>1, SetsDependOn DEF IInv, NothingExpired, Decided
<1>5. QED
  BY <1>2, <1>3, <1>4 DEF IInv

LEMMA NextDayStep ==
    ASSUME IInv, NextDay
    PROVE  IInv'
<1>1. /\ UNCHANGED <<account, requested, stored, client, inv, pc, cut, orphans, eligible>>
      /\ now' \in Days /\ cut \in 0..now'
  BY RetentionAssumption DEF NextDay, IInv, Typed, Days, data, command
<1>2. Typed' /\ References'
  BY <1>1 DEF IInv, Typed, References
<1>3. NothingExpired' /\ Decided'
  BY <1>1, SetsDependOn DEF IInv, NothingExpired, Decided
<1>4. QED
  BY <1>2, <1>3 DEF IInv

\* A step of the command that deletes nothing keeps what the rows satisfy.
LEMMA DataUnchanged ==
    ASSUME IInv, UNCHANGED data, now' = now, cut' \in 0..now
    PROVE  Typed' /\ References'
BY DEF data, IInv, Typed, References

\* The command stops: nothing is left to decide.
LEMMA StopStep ==
    ASSUME IInv, UNCHANGED data, now' = now, cut' \in 0..now,
           pc' \in {"idle", "failed", "invoices"}
    PROVE  IInv'
<1>1. NothingExpired' /\ Decided'
  BY DEF NothingExpired, Decided
<1>2. QED
  BY <1>1, DataUnchanged DEF IInv

LEMMA StartStep == ASSUME IInv, Start PROVE IInv'
<1>1. UNCHANGED data /\ now' = now /\ cut' \in 0..now /\ pc' = "invoices"
  BY Numbers DEF Start, IInv
<1>2. QED
  BY <1>1, StopStep

LEMMA FailStep == ASSUME IInv, Fail PROVE IInv'
<1>1. UNCHANGED data /\ now' = now /\ cut' \in 0..now /\ pc' = "failed"
  BY DEF Fail, IInv, Typed
<1>2. QED
  BY <1>1, StopStep

LEMMA KillStep == ASSUME IInv, Kill PROVE IInv'
<1>1. UNCHANGED data /\ now' = now /\ cut' \in 0..now /\ pc' = "idle"
  BY DEF Kill, IInv, Typed
<1>2. QED
  BY <1>1, StopStep

LEMMA PurgeInvoicesStep == ASSUME IInv, PurgeInvoices PROVE IInv'
<1>1. CASE Fail
  BY <1>1, FailStep
<1>2. CASE /\ inv' = Without(Expired)
           /\ pc' = "clients"
           /\ UNCHANGED <<account, requested, stored, client, now, cut, eligible>>
  <2>1. \A i \in Invoices : inv'[i] = IF i \in Expired THEN None ELSE inv[i]
    BY <1>2 DEF Without
  <2>2. inv' \in [Invoices -> Rows \cup {None}]
    BY <1>2 DEF Without, IInv, Typed
  <2>3. Typed' /\ References'
    BY <1>2, <2>1, <2>2 DEF IInv, Typed, References
  <2>4. Expired' = {}
    BY <1>2, <2>1 DEF Expired
  <2>5. NothingExpired' /\ Decided'
    BY <1>2, <2>4 DEF NothingExpired, Decided
  <2>6. QED
    BY <2>3, <2>5 DEF IInv
<1>3. QED
  BY <1>1, <1>2 DEF PurgeInvoices

LEMMA SelectClientsStep == ASSUME IInv, SelectClients PROVE IInv'
<1>1. /\ UNCHANGED data /\ now' = now /\ cut' = cut /\ cut \in 0..now
      /\ pc = "clients" /\ pc' = "deleting"
  BY DEF SelectClients, IInv, Typed
<1>2. NothingExpired' /\ Decided'
  BY <1>1, SetsDependOn DEF NothingExpired, Decided, IInv, data
<1>3. QED
  BY <1>1, <1>2, DataUnchanged DEF IInv

LEMMA DeleteClientsStep == ASSUME IInv, DeleteClients PROVE IInv'
<1>1. CASE Fail
  BY <1>1, FailStep
<1>2. CASE /\ \A c \in orphans : Linked(c) = {}
           /\ client' = [c \in Clients |-> IF c \in orphans THEN None ELSE client[c]]
           /\ pc' = "accounts"
           /\ UNCHANGED <<account, requested, stored, inv, now, cut, orphans, eligible>>
  <2>1. \A i \in Invoices : inv[i] # None /\ inv[i].client # None =>
            inv[i].client \in Clients /\ inv[i].client \notin orphans
    BY <1>2, IssuedRow, RowFields DEF IInv, Linked
  <2>2. client' \in [Clients -> Users \cup {None}]
    BY <1>2 DEF IInv, Typed
  <2>3. Typed'
    BY <1>2, <2>2 DEF IInv, Typed
  <2>4. References'
    BY <1>2, <2>1 DEF IInv, References
  <2>5. Expired' = {}
    BY <1>2, SetsDependOn DEF IInv, NothingExpired, DeleteClients
  <2>6. NothingExpired' /\ Decided'
    BY <1>2, <2>5 DEF NothingExpired, Decided
  <2>7. QED
    BY <2>3, <2>4, <2>6 DEF IInv
<1>3. QED
  BY <1>1, <1>2 DEF DeleteClients

\* When accounts are told apart, an account is eligible exactly if it is past its
\* grace period and has no invoice left.
LEMMA SplitStep == ASSUME IInv, Split PROVE IInv'
<1>1. /\ UNCHANGED data /\ now' = now /\ cut' = cut /\ cut \in 0..now
      /\ pc = "accounts" /\ pc' = "purging" /\ eligible' = Eligible
  BY DEF Split, IInv, Typed
<1>2. Expired = {}
  BY <1>1 DEF IInv, NothingExpired
<1>3. /\ Eligible \subseteq Users
      /\ \A u \in Users : u \in Eligible <=> PastGrace(u) /\ InvoicesOf(u) = {}
  BY <1>2 DEF Eligible, Recent
<1>4. /\ Expired' = Expired
      /\ \A u : InvoicesOf(u)' = InvoicesOf(u)
      /\ \A u : PastGrace(u)' = PastGrace(u)
  BY <1>1, SetsDependOn DEF data
<1>5. NothingExpired' /\ Decided'
  BY <1>1, <1>2, <1>3, <1>4 DEF NothingExpired, Decided
<1>6. QED
  BY <1>1, <1>5, DataUnchanged DEF IInv

\* When they are deleted, they have nothing, or the deletion fails.
LEMMA EligibleHaveNothing ==
    ASSUME IInv, pc = "purging", ~Protected(UNION {InvoicesOf(u) : u \in eligible})
    PROVE  /\ eligible \subseteq Users
           /\ \A u \in eligible : PastGrace(u) /\ InvoicesOf(u) = {}
           /\ UNION {InvoicesOf(u) : u \in eligible} = {}
<1>1. /\ eligible \subseteq Users
      /\ \A u \in eligible : PastGrace(u) /\ \A i \in InvoicesOf(u) : inv[i].record
  BY DEF IInv, Decided
<1>2. \A u \in eligible : InvoicesOf(u) = {}
  BY <1>1 DEF Protected
<1>3. QED
  BY <1>1, <1>2

LEMMA DeleteAccountsStep == ASSUME IInv, DeleteAccounts PROVE IInv'
<1>1. CASE Fail
  BY <1>1, FailStep
<1>2. CASE /\ ~Protected(UNION {InvoicesOf(u) : u \in eligible})
           /\ inv' = Without(UNION {InvoicesOf(u) : u \in eligible})
           /\ client' = [c \in Clients |-> IF client[c] \in eligible THEN None ELSE client[c]]
           /\ account' = [u \in Users |-> IF u \in eligible THEN "gone" ELSE account[u]]
           /\ requested' = [u \in Users |-> IF u \in eligible THEN None ELSE requested[u]]
           /\ stored' = stored \ eligible
           /\ pc' = "done"
           /\ UNCHANGED <<now, cut, orphans, eligible>>
  <2>1. pc = "purging"
    BY DEF DeleteAccounts
  <2>2. inv' = inv
    BY <1>2, <2>1, EligibleHaveNothing DEF Without, IInv, Typed
  <2>3. \A i \in Invoices : inv[i] # None =>
            inv[i].owner \in Users \ eligible /\ inv[i].client \in Clients \cup {None}
    BY <1>2, <2>1, EligibleHaveNothing, IssuedRow, RowFields DEF IInv, InvoicesOf
  <2>4. Typed'
    BY <1>2, <2>2 DEF IInv, Typed
  <2>5. References'
    <3>1. \A c \in Clients : client[c] \in Users \cup {None}
      BY DEF IInv, Typed
    <3>2. \A i \in Invoices : inv'[i] # None =>
              /\ account'[inv'[i].owner] # "gone"
              /\ inv'[i].client # None => client'[inv'[i].client] = inv'[i].owner
      BY <1>2, <2>2, <2>3 DEF IInv, References
    <3>3. \A c \in Clients : client'[c] # None => account'[client'[c]] # "gone"
      BY <1>2, <3>1 DEF IInv, References
    <3>4. \A u \in Users : account'[u] = "gone" => requested'[u] = None /\ u \notin stored'
      BY <1>2 DEF IInv, References
    <3>5. QED
      BY <3>2, <3>3, <3>4 DEF References
  <2>6. Expired' = Expired /\ Expired = {}
    BY <1>2, <2>1, <2>2, SetsDependOn DEF IInv, NothingExpired
  <2>7. ASSUME NEW u \in Users, PastGrace(u)' PROVE InvoicesOf(u)' # {}
    <3>1. PastGrace(u) /\ u \notin eligible
      BY <1>2, <2>7 DEF PastGrace
    <3>2. InvoicesOf(u) # {}
      BY <2>1, <3>1 DEF IInv, Decided
    <3>3. QED
      BY <2>2, <3>2, SetsDependOn
  <2>8. NothingExpired' /\ Decided'
    BY <1>2, <2>6, <2>7 DEF NothingExpired, Decided
  <2>9. QED
    BY <2>4, <2>5, <2>8 DEF IInv
<1>3. QED
  BY <1>1, <1>2 DEF DeleteAccounts

LEMMA InvStep == IInv /\ [Next]_vars => IInv'
<1> SUFFICES ASSUME IInv, [Next]_vars PROVE IInv'
  OBVIOUS
<1>1. CASE UNCHANGED vars
  BY <1>1 DEF vars, IInv, Typed, References, NothingExpired, Decided,
              Expired, InvoicesOf, PastGrace
<1>2. QED
  BY <1>1, IssueStep, RegisterStep, CreateClientStep, DeleteClientStep, StoreCertificateStep,
     RequestDeletionStep, DeactivateStep, NextDayStep, StartStep, PurgeInvoicesStep,
     SelectClientsStep, DeleteClientsStep, SplitStep, DeleteAccountsStep, KillStep
     DEF Next

LEMMA InvAlways == Spec => []IInv
BY InitInv, InvStep, PTL DEF Spec

----------------------------------------------------------------------------
(* What follows *)

\* Foreign keys (on_delete=PROTECT, CASCADE) and purge_expired_data.py: whatever
\* the owners do while the command runs, and wherever it fails or is killed, no
\* row refers to a deleted one, and nothing is left of a deleted account.
THEOREM NothingDangles == Spec => []TypeOK
<1>1. IInv => TypeOK
  BY DEF IInv, Typed, References, TypeOK
<1>2. QED
  BY <1>1, InvAlways, PTL

\* purge_expired_data.py:20-22: a run that ends leaves nothing to delete.
THEOREM RunIsComplete == Spec => []CompletedRunIsFinal
<1>1. IInv => CompletedRunIsFinal
  <2> SUFFICES ASSUME IInv, pc = "done"
               PROVE  /\ \A i \in Invoices : inv[i] # None => inv[i].date >= cut - Window
                      /\ \A u \in Users : requested[u] # None /\ requested[u] < cut - Grace =>
                            \E i \in Invoices : inv[i] # None /\ inv[i].owner = u
    BY DEF CompletedRunIsFinal
  <2>1. \A i \in Invoices : inv[i] # None => ~(inv[i].date < cut - Window) /\ inv[i].date \in Nat
    BY IssuedRow, RowFields DEF IInv, NothingExpired, Expired
  <2>2. \A i \in Invoices : inv[i] # None => inv[i].date >= cut - Window
    BY <2>1, Numbers DEF IInv
  <2>3. \A u \in Users : requested[u] # None /\ requested[u] < cut - Grace => InvoicesOf(u) # {}
    BY DEF IInv, Decided, PastGrace
  <2>4. QED
    BY <2>2, <2>3 DEF InvoicesOf
<1>2. QED
  BY <1>1, InvAlways, PTL

DueStep ==
    /\ \A i \in Invoices : inv[i] # None /\ inv'[i] = None =>
          ~inv[i].record /\ now - inv[i].date > Window
    /\ \A u \in Users : account[u] # "gone" /\ account'[u] = "gone" =>
          /\ requested[u] # None /\ now - requested[u] > Grace
          /\ \A i \in Invoices : inv[i] # None /\ inv[i].owner = u =>
                now - inv[i].date > Window

\* rgpd-checklist.md section 5 (Ley 58/2003): no step deletes an invoice within
\* its retention window or with a record, or an account before its time.
THEOREM NothingGoesEarly == Spec => PurgesOnlyWhatIsDue
<1>1. ASSUME IInv, PurgeInvoices PROVE DueStep
  <2>1. CASE UNCHANGED <<inv, account>>
    BY <2>1 DEF DueStep
  <2>2. CASE ~Protected(Expired) /\ inv' = Without(Expired) /\ account' = account
    <3>1. ASSUME NEW i \in Invoices, inv[i] # None, inv'[i] = None
          PROVE  ~inv[i].record /\ now - inv[i].date > Window
      <4>1. i \in Expired
        BY <2>2, <3>1 DEF Without
      <4>2. inv[i].date < cut - Window /\ inv[i].date \in Nat
        BY <1>1, <3>1, <4>1, IssuedRow, RowFields DEF Expired, IInv
      <4>3. now - inv[i].date > Window
        BY <1>1, <4>2, Numbers DEF IInv
      <4>4. QED
        BY <2>2, <4>1, <4>3 DEF Protected
    <3>2. QED
      BY <2>2, <3>1 DEF DueStep
  <2>3. QED
    BY <1>1, <2>1, <2>2 DEF PurgeInvoices, Fail, data
<1>2. ASSUME IInv, DeleteAccounts PROVE DueStep
  <2>1. CASE UNCHANGED <<inv, account>>
    BY <2>1 DEF DueStep
  <2>2. CASE /\ ~Protected(UNION {InvoicesOf(u) : u \in eligible})
             /\ inv' = Without(UNION {InvoicesOf(u) : u \in eligible})
             /\ account' = [u \in Users |-> IF u \in eligible THEN "gone" ELSE account[u]]
    <3>1. pc = "purging"
      BY <1>2 DEF DeleteAccounts
    <3>2. inv' = inv
      BY <1>2, <2>2, <3>1, EligibleHaveNothing DEF Without, IInv, Typed
    <3>3. ASSUME NEW u \in Users, account[u] # "gone", account'[u] = "gone"
          PROVE  /\ requested[u] # None /\ now - requested[u] > Grace
                 /\ \A i \in Invoices : ~(inv[i] # None /\ inv[i].owner = u)
      <4>1. PastGrace(u) /\ InvoicesOf(u) = {}
        BY <1>2, <2>2, <3>1, <3>3, EligibleHaveNothing
      <4>2. now - requested[u] > Grace
        BY <1>2, <4>1, Numbers DEF PastGrace, IInv
      <4>3. QED
        BY <4>1, <4>2 DEF PastGrace, InvoicesOf
    <3>4. QED
      BY <3>2, <3>3 DEF DueStep
  <2>3. QED
    BY <1>2, <2>1, <2>2 DEF DeleteAccounts, Fail, data
<1>3. ASSUME IInv, NEW u \in Users, NEW i \in Invoices, NEW c \in Clients, Issue(u, i, c)
      PROVE  DueStep
  BY <1>3 DEF Issue, DueStep, IInv, Typed
<1>4. ASSUME IInv, NEW i \in Invoices, Register(i) PROVE DueStep
  <2>1. PICK r \in Rows : r = inv[i]
    BY <1>4, IssuedRow DEF Register, IInv
  <2>2. [r EXCEPT !.record = TRUE] \in Rows
    BY DEF Rows
  <2>3. inv'[i] # None /\ \A j \in Invoices \ {i} : inv'[j] = inv[j]
    BY <1>4, <2>1, <2>2, RowFields DEF Register, IInv, Typed
  <2>4. account' = account
    BY <1>4 DEF Register
  <2>5. QED
    BY <2>3, <2>4 DEF DueStep
<1>5. ASSUME IInv, NEW u \in Users, Deactivate(u) PROVE DueStep
  BY <1>5 DEF Deactivate, DueStep, IInv, Typed
<1>6. IInv /\ [Next]_vars => [DueStep]_vars
  <2> SUFFICES ASSUME IInv, Next PROVE DueStep
    OBVIOUS
  <2>1. CASE UNCHANGED <<inv, account>>
    BY <2>1 DEF DueStep
  <2>2. QED
    BY <1>1, <1>2, <1>3, <1>4, <1>5, <2>1
       DEF Next, CreateClient, DeleteClient, StoreCertificate, RequestDeletion, NextDay, Start,
           SelectClients, DeleteClients, Split, Kill, Fail, data
<1>7. QED
  BY <1>6, InvAlways, PTL DEF Spec, PurgesOnlyWhatIsDue, DueStep
=============================================================================
