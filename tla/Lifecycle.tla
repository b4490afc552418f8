------------------------------ MODULE Lifecycle ------------------------------
(***************************************************************************)
(* The life of an invoice after it is written: issued with its Verifactu   *)
(* record, submitted to the AEAT, corrected by a rectificativa or annulled *)
(* (invoicing/services.py, invoicing/views.py, submission/), by several    *)
(* web workers and operators at once, over a connection that loses         *)
(* requests and replies, with workers that may die at any point.           *)
(*                                                                         *)
(* Issuance and HashChain show that numbering a draft and appending a      *)
(* record are atomic; here each is one step.  What is kept apart is what   *)
(* the code keeps apart: the reads that decide, the writes that follow,    *)
(* the network call, and for a rectificativa the transaction around them.  *)
(* One issuer: one chain, one series F of invoices and one series R of     *)
(* rectificativas.  A record is identified by its invoice's series and     *)
(* number (num_serie) and its kind.                                        *)
(***************************************************************************)
EXTENDS Integers, Sequences, FiniteSets

CONSTANTS Workers,
          Invoices,     \* ordinary invoices (series F)
          Rects,        \* drafts of rectificativas (series R)
          Legacy,       \* invoices that may be older than altas (T-033)
          MaxTries,     \* 1 + AEAT_SUBMISSION_MAX_RETRIES
          MaxRequests,  \* bound: requests served
          MaxCrashes,   \* bound: workers that die, or find no certificate
          None          \* NULL: no invoice, no worker, no request

ASSUME LifecycleAssumption ==
    /\ Legacy \subseteq Invoices /\ IsFiniteSet(Legacy)
    /\ MaxTries \in Nat \ {0}
    /\ MaxRequests \in Nat
    /\ MaxCrashes \in Nat
    /\ None \notin Invoices \cup Rects \cup Workers
    /\ Invoices \cap Rects = {}

Ids == Invoices \cup Rects
Series(i) == IF i \in Rects THEN "R" ELSE "F"

VARIABLES
    inv,        \* committed invoice rows: number (0: draft), annulled, correctedBy
    last,       \* last_number of the series F and R
    recs,       \* committed records in the order of their ids, each with its attempts
    aeat,       \* the AEAT's registry: the records it has accepted
    chain,      \* the worker holding the issuer's chain row (and series R), or None
    pc, req,    \* each worker's place and the data of its request
    requests, crashes,
    failed,     \* invoices for which an annulment ended in an IntegrityError
    live        \* AEAT_SUBMISSION_LIVE, set before the workers start

vars == <<inv, last, recs, aeat, chain, pc, req, requests, crashes, failed, live>>

----------------------------------------------------------------------------
Issued(i) == inv[i].num # 0

\* What identifies a record: num_serie, kind and content (the invoice, and the
\* original it rectifies).
AltaOf(i, num, original) ==
    [inv |-> i, kind |-> "alta", key |-> <<Series(i), num>>, rectifies |-> original]
Entry(rec) == [rec |-> rec, attempts |-> << >>]
Numbers(i, n) == [inv EXCEPT ![i].num = n]

\* _original_alta: the index of the earliest alta of i in recs, 0 if there is none.
AltasOf(i) == {k \in 1..Len(recs) : recs[k].rec.inv = i /\ recs[k].rec.kind = "alta"}
OriginalAlta(i) == IF AltasOf(i) = {} THEN 0
                   ELSE CHOOSE k \in AltasOf(i) : \A l \in AltasOf(i) : k <= l

SameIdFactura(a, b) == a.key = b.key /\ a.kind = b.kind

\* Mistake to detect: no unique constraint on (issuer_nif, num_serie, record_type).
RecordedNever(rec) == FALSE

Recorded(rec) == \E k \in 1..Len(recs) : SameIdFactura(recs[k].rec, rec)
Registered(rec) == \E a \in aeat : SameIdFactura(a, rec)

Statuses(k) == {recs[k].attempts[n] : n \in 1..Len(recs[k].attempts)}
Accepted(k) == "accepted" \in Statuses(k)
LatestPending(k) == LET a == recs[k].attempts IN a # << >> /\ a[Len(a)] = "pending"

NoRequest == [op |-> None, inv |-> None, rect |-> None, rec |-> None, at |-> 0,
              tries |-> 0, outcome |-> None]

\* The request of worker w goes on at place p with data r.
Proceed(w, p, r) == pc' = [pc EXCEPT ![w] = p] /\ req' = [req EXCEPT ![w] = r]
Finish(w) == Proceed(w, "idle", NoRequest)

Begin(w, p, r) ==
    /\ pc[w] = "idle"
    /\ requests < MaxRequests
    /\ requests' = requests + 1
    /\ Proceed(w, p, r)

Init ==
    /\ \E old \in SUBSET Legacy : \E rank \in [old -> 1..Cardinality(old)] :
          /\ \A i, j \in old : i # j => rank[i] # rank[j]
          /\ inv = [i \in Ids |-> [num |-> IF i \in old THEN rank[i] ELSE 0,
                                   annulled |-> FALSE, correctedBy |-> None]]
          /\ last = [F |-> Cardinality(old), R |-> 0]
    /\ recs = << >>
    /\ aeat = {}
    /\ chain = None
    /\ pc = [w \in Workers |-> "idle"]
    /\ req = [w \in Workers |-> NoRequest]
    /\ requests = 0
    /\ crashes = 0
    /\ failed = {}
    /\ live \in BOOLEAN

----------------------------------------------------------------------------
(* Issuing *)

\* _issue_from_forms: draft, number and alta in one transaction.
Create(i) ==
    /\ i \in Invoices /\ ~Issued(i)
    /\ chain = None
    /\ last' = [last EXCEPT !.F = @ + 1]
    /\ inv' = Numbers(i, last.F + 1)
    /\ recs' = Append(recs, Entry(AltaOf(i, last.F + 1, None)))
    /\ UNCHANGED <<aeat, chain, pc, req, requests, crashes, failed, live>>

\* invoice_register_verifactu: look for an alta, then generate one.
RegisterLoad(w, i) ==
    /\ Issued(i) /\ AltasOf(i) = {}
    /\ Begin(w, "registering", [NoRequest EXCEPT !.op = "register", !.inv = i])
    /\ UNCHANGED <<inv, last, recs, aeat, chain, crashes, failed, live>>

Register(w) ==
    LET rec == AltaOf(req[w].inv, inv[req[w].inv].num, None)
    IN  /\ pc[w] = "registering"
        /\ chain = None
        /\ recs' = IF Recorded(rec) THEN recs ELSE Append(recs, Entry(rec))
        /\ Finish(w)
        /\ UNCHANGED <<inv, last, aeat, chain, requests, crashes, failed, live>>

----------------------------------------------------------------------------
(* Submitting *)

Submittable(k) == ~Accepted(k)

\* submission_submit: the invoice's alta, unless it is already accepted.
Submit(w, i) ==
    /\ AltasOf(i) # {}
    /\ Submittable(OriginalAlta(i))
    /\ Begin(w, "sending", [NoRequest EXCEPT !.op = "submit", !.at = OriginalAlta(i),
                                             !.rec = recs[OriginalAlta(i)].rec])
    /\ UNCHANGED <<inv, last, recs, aeat, chain, crashes, failed, live>>

\* manage.py aeat_submit: any record, when the kill-switch is on.
Redrive(w, k) ==
    /\ live
    /\ Begin(w, "sending", [NoRequest EXCEPT !.op = "redrive", !.at = k, !.rec = recs[k].rec])
    /\ UNCHANGED <<inv, last, recs, aeat, chain, crashes, failed, live>>

\* What the AEAT may do with a record it receives: its registry afterwards and the
\* estado it replies.  A duplicate (code 3000) is never registered again; a SOAP
\* fault carries no estado.
Replies(rec) ==
    {<<aeat, estado>> : estado \in {"Incorrecto", "Rechazado", "fault"}} \cup
    {<<aeat \cup {rec}, estado>> : estado \in
        IF Registered(rec) THEN {} ELSE {"Correcto", "AceptadoConErrores"}}

\* Mistake to detect: a reply without estado is an acceptance.
VerdictOptimistic(estado) ==
    IF estado \in {"Incorrecto", "Rechazado"} THEN "rejected" ELSE "accepted"

\* outcome_from_response
Verdict(estado) ==
    CASE estado \in {"Correcto", "AceptadoConErrores"} -> "accepted"
      [] estado \in {"Incorrecto", "Rechazado"} -> "rejected"
      [] OTHER -> "transport error"

\* What submit_record returns is kept in the request until it is stored.
Outcome(w, status) == Proceed(w, "answered", [req[w] EXCEPT !.outcome = status, !.tries = 0])

Disabled(w) ==
    /\ pc[w] = "sending" /\ ~live
    /\ Outcome(w, "disabled")
    /\ UNCHANGED <<inv, last, recs, aeat, chain, requests, crashes, failed, live>>

LastTry(w) == req[w].tries + 1 = MaxTries

TransportError(w) == IF LastTry(w) THEN Outcome(w, "pending")
                     ELSE Proceed(w, "sending", [req[w] EXCEPT !.tries = @ + 1])

\* One try of submit_record's loop, and its reply.
Reply(w) ==
    /\ pc[w] = "sending" /\ live
    /\ \E r \in Replies(req[w].rec) :
          /\ aeat' = r[1]
          /\ IF Verdict(r[2]) = "transport error" THEN TransportError(w)
             ELSE Outcome(w, Verdict(r[2]))
    /\ UNCHANGED <<inv, last, recs, chain, requests, crashes, failed, live>>

\* The request did not arrive, or its reply did not.
NoReply(w) ==
    /\ pc[w] = "sending" /\ live
    /\ aeat' \in {aeat} \cup {r[1] : r \in Replies(req[w].rec)}
    /\ TransportError(w)
    /\ UNCHANGED <<inv, last, recs, chain, requests, crashes, failed, live>>

\* _persist; a disabled submission leaves no attempt.
WithAttempt(attempts, status) ==
    IF status = "disabled" THEN attempts ELSE Append(attempts, status)

\* Mistake to detect: whatever the outcome, the invoice is marked.
AppliesAlways(status) == TRUE

Applies(status) == status \in {"accepted", "disabled"}

\* Outside a transaction: the attempt is stored, then an annulment goes on to
\* mark its invoice if it was accepted.
Persist(w) ==
    /\ pc[w] = "answered" /\ req[w].op # "rectify"
    /\ recs' = [recs EXCEPT ![req[w].at].attempts = WithAttempt(@, req[w].outcome)]
    /\ IF req[w].op = "annul" /\ Applies(req[w].outcome)
       THEN Proceed(w, "marking", req[w])
       ELSE Finish(w)
    /\ UNCHANGED <<inv, last, aeat, chain, requests, crashes, failed, live>>

----------------------------------------------------------------------------
(* Correcting: issue_rectificativa inside the transaction of _rectify_from_forms *)

\* A draft built for this request: no number, and the AEAT has seen no other under
\* the same name.
Fresh(r) == /\ ~Issued(r)
            /\ \A v \in Workers : req[v].rect # r
            /\ \A a \in aeat : a.inv # r

\* invoice_rectificar reads the original and refuses it if it is corrected.
RectifyLoad(w, i, r) ==
    /\ i # r /\ Issued(i) /\ inv[i].correctedBy = None
    /\ Fresh(r)
    /\ Begin(w, "rectifying", [NoRequest EXCEPT !.op = "rectify", !.inv = i, !.rect = r])
    /\ UNCHANGED <<inv, last, recs, aeat, chain, crashes, failed, live>>

RectifyRefuse(w) ==
    /\ pc[w] = "rectifying" /\ OriginalAlta(req[w].inv) = 0
    /\ Finish(w)
    /\ UNCHANGED <<inv, last, recs, aeat, chain, requests, crashes, failed, live>>

\* Number the draft and generate its alta; the transaction, with the locks of
\* the series and the chain, stays open during the submission.
RectifyIssue(w) ==
    /\ pc[w] = "rectifying" /\ OriginalAlta(req[w].inv) # 0
    /\ chain = None
    /\ chain' = w
    /\ Proceed(w, "sending",
               [req[w] EXCEPT !.rec = AltaOf(req[w].rect, last.R + 1, req[w].inv)])
    /\ UNCHANGED <<inv, last, recs, aeat, requests, crashes, failed, live>>

\* Mistake to detect: the original is linked whatever the outcome.
LinkedAlways(w) == [inv EXCEPT ![req[w].rect].num = last.R + 1,
                               ![req[w].inv].correctedBy = req[w].rect]

Linked(w) == IF Applies(req[w].outcome)
             THEN [inv EXCEPT ![req[w].rect].num = last.R + 1,
                              ![req[w].inv].correctedBy = req[w].rect]
             ELSE Numbers(req[w].rect, last.R + 1)

\* Mistake to detect: the row stays locked after the transaction.
UnlockedNever(w) == chain

Unlocked(w) == IF chain = w THEN None ELSE chain

RectifyCommit(w) ==
    /\ pc[w] = "answered" /\ req[w].op = "rectify"
    /\ inv' = Linked(w)
    /\ last' = [last EXCEPT !.R = @ + 1]
    /\ recs' = Append(recs, [rec |-> req[w].rec, attempts |-> WithAttempt(<< >>, req[w].outcome)])
    /\ chain' = Unlocked(w)
    /\ Finish(w)
    /\ UNCHANGED <<aeat, requests, crashes, failed, live>>

----------------------------------------------------------------------------
(* Annulling: annul_invoice, without a transaction around its steps *)

AnnulLoad(w, i) ==
    /\ Issued(i) /\ inv[i].correctedBy = None
    /\ Begin(w, "annulling", [NoRequest EXCEPT !.op = "annul", !.inv = i])
    /\ UNCHANGED <<inv, last, recs, aeat, chain, crashes, failed, live>>

\* No alta: refused.  Latest attempt pending: it is to be cancelled.
AnnulDecide(w) ==
    /\ pc[w] = "annulling"
    /\ LET k == OriginalAlta(req[w].inv)
       IN  \/ k = 0 /\ Finish(w)
           \/ /\ k # 0 /\ LatestPending(k)
              /\ Proceed(w, "cancelling", [req[w] EXCEPT !.at = k, !.tries = Len(recs[k].attempts)])
    /\ UNCHANGED <<inv, last, recs, aeat, chain, requests, crashes, failed, live>>

\* Otherwise generate_anulacion commits an anulacion record, once.
AnnulGenerate(w) ==
    LET k   == OriginalAlta(req[w].inv)
        rec == [recs[k].rec EXCEPT !.kind = "anulacion"]
    IN  /\ pc[w] = "annulling"
        /\ k # 0 /\ ~LatestPending(k)
        /\ chain = None
        /\ IF Recorded(rec)
           THEN Finish(w) /\ failed' = failed \cup {req[w].inv} /\ UNCHANGED recs
           ELSE /\ recs' = Append(recs, Entry(rec))
                /\ Proceed(w, "sending", [req[w] EXCEPT !.at = Len(recs) + 1, !.rec = rec])
                /\ UNCHANGED failed
        /\ UNCHANGED <<inv, last, aeat, chain, requests, crashes, live>>

\* Mistake to detect: the latest attempt is read again and overwritten.
CancelledLatest(w) ==
    [recs EXCEPT ![req[w].at].attempts = [@ EXCEPT ![Len(@)] = "cancelled"]]

Cancelled(w) ==
    [recs EXCEPT ![req[w].at].attempts = [@ EXCEPT ![req[w].tries] = "cancelled"]]

\* The attempt read by AnnulDecide is stamped cancelled.
CancelAttempt(w) ==
    /\ pc[w] = "cancelling"
    /\ recs' = Cancelled(w)
    /\ Proceed(w, "marking", req[w])
    /\ UNCHANGED <<inv, last, aeat, chain, requests, crashes, failed, live>>

MarkAnnulled(w) ==
    /\ pc[w] = "marking"
    /\ inv' = [inv EXCEPT ![req[w].inv].annulled = TRUE]
    /\ Finish(w)
    /\ UNCHANGED <<last, recs, aeat, chain, requests, crashes, failed, live>>

----------------------------------------------------------------------------
\* The worker dies, or CertificateNotConfigured ends the request: an open
\* transaction is rolled back, what was committed stays.
Crash(w) ==
    /\ pc[w] # "idle"
    /\ crashes < MaxCrashes
    /\ crashes' = crashes + 1
    /\ chain' = Unlocked(w)
    /\ Finish(w)
    /\ UNCHANGED <<inv, last, recs, aeat, requests, failed, live>>

Step(w) == \/ Register(w)
           \/ Disabled(w) \/ Reply(w) \/ NoReply(w) \/ Persist(w)
           \/ RectifyRefuse(w) \/ RectifyIssue(w) \/ RectifyCommit(w)
           \/ AnnulDecide(w) \/ AnnulGenerate(w) \/ CancelAttempt(w) \/ MarkAnnulled(w)

Next == \/ \E i \in Invoices : Create(i)
        \/ \E w \in Workers :
              \/ \E i \in Ids : \/ RegisterLoad(w, i) \/ Submit(w, i) \/ AnnulLoad(w, i)
                                \/ \E r \in Rects : RectifyLoad(w, i, r)
              \/ \E k \in 1..Len(recs) : Redrive(w, k)
              \/ Step(w)
              \/ Crash(w)

Spec == Init /\ [][Next]_vars

\* A worker runs its request to its end; the queue for the chain row serves
\* every waiter.
Fairness == \A w \in Workers :
    /\ WF_vars(Step(w))
    /\ SF_vars(Register(w) \/ RectifyIssue(w) \/ AnnulGenerate(w))

FairSpec == Spec /\ Fairness

----------------------------------------------------------------------------
Places == {"idle", "registering", "sending", "answered", "rectifying", "annulling",
           "cancelling", "marking"}
Attempts == {"accepted", "rejected", "pending", "cancelled"}
Records == [inv : Ids, kind : {"alta", "anulacion"}, key : {"F", "R"} \X (Nat \ {0}),
            rectifies : Ids \cup {None}]

\* The rows are well formed, a request tries at most MaxTries times, and the
\* chain row is held exactly by the rectification that is at the AEAT.
TypeOK ==
    /\ inv \in [Ids -> [num : Nat, annulled : BOOLEAN, correctedBy : Rects \cup {None}]]
    /\ last \in [F : Nat, R : Nat]
    /\ \A k \in 1..Len(recs) : /\ recs[k].rec \in Records
                               /\ Statuses(k) \subseteq Attempts
    /\ aeat \subseteq Records
    /\ pc \in [Workers -> Places]
    /\ \A w \in Workers :
          /\ pc[w] = "sending" => req[w].tries \in 0..(MaxTries - 1)
          /\ chain = w <=> req[w].op = "rectify" /\ pc[w] \in {"sending", "answered"}
    /\ requests \in 0..MaxRequests /\ crashes \in 0..MaxCrashes
    /\ failed \subseteq Ids
    /\ live \in BOOLEAN

\* The state keeps its type; an issued invoice has one alta, under its own number (a legacy one none or
\* one), and each record belongs to an issued invoice and no other record has its
\* number and kind; an anulacion follows its alta.
OneRecordEach ==
    /\ TypeOK
    /\ \A i \in Ids : /\ Cardinality(AltasOf(i)) <= 1
                      /\ Issued(i) /\ i \notin Legacy => AltasOf(i) # {}
    /\ \A k \in 1..Len(recs) :
          /\ recs[k].rec.key = <<Series(recs[k].rec.inv), inv[recs[k].rec.inv].num>>
          /\ Issued(recs[k].rec.inv)
          /\ recs[k].rec.kind = "anulacion" => \E l \in 1..(k-1) : l \in AltasOf(recs[k].rec.inv)
          /\ \A l \in 1..(k-1) : ~SameIdFactura(recs[l].rec, recs[k].rec)

\* annul_invoice, services.py: an invoice is marked annulled only after its
\* anulacion was accepted (or is not sent at all), or a pending submission of its
\* alta was cancelled.
AnnulledForReason ==
    \A i \in Ids : inv[i].annulled =>
        \E k \in 1..Len(recs) :
            /\ recs[k].rec.inv = i
            /\ \/ recs[k].rec.kind = "anulacion" /\ (Accepted(k) \/ ~live)
               \/ recs[k].rec.kind = "alta" /\ "cancelled" \in Statuses(k)

\* issue_rectificativa, UC-004 9a: an invoice is linked only to an issued
\* rectificativa of its own whose record was accepted (or is not sent at all).
CorrectedForReason ==
    \A i \in Ids : inv[i].correctedBy # None =>
        \E k \in AltasOf(inv[i].correctedBy) :
            recs[k].rec.rectifies = i /\ (Accepted(k) \/ ~live)

\* A stored acceptance is true: the AEAT holds that very record.
AcceptedMeansRegistered ==
    \A k \in 1..Len(recs) : Accepted(k) => recs[k].rec \in aeat

\* Records are append-only, and so are the verdicts on them: an attempt is never
\* changed, save a pending one that is cancelled.
HistoryIsKept ==
    [][/\ Len(recs) <= Len(recs')
       /\ \A k \in 1..Len(recs) :
             LET old == recs[k].attempts
                 new == recs'[k].attempts
             IN  /\ recs'[k].rec = recs[k].rec
                 /\ Len(old) <= Len(new)
                 /\ \A n \in 1..Len(old) :
                       new[n] # old[n] => old[n] = "pending" /\ new[n] = "cancelled"]_vars

\* Every request ends, although rectifications hold the chain row while the AEAT
\* takes its time.
EveryRequestEnds == \A w \in Workers : pc[w] # "idle" ~> pc[w] = "idle"
=============================================================================
