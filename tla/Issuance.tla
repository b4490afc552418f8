------------------------------ MODULE Issuance ------------------------------
(***************************************************************************)
(* issue_invoice (invoicing/services.py): the one path that numbers an     *)
(* invoice, run by several web workers at once.                            *)
(*                                                                         *)
(* A call loads a draft (Call), then tries up to MaxRetries times: lock    *)
(* and read the series row (SelectForUpdate), validate, save the numbered  *)
(* invoice and the series inside the transaction (Save), commit.  On a     *)
(* database with row locks (PostgreSQL, production) the read waits for the *)
(* lock.  On the SQLite fallback select_for_update does nothing: any       *)
(* number of workers may have read the series, but a transaction whose     *)
(* snapshot is out of date, or that meets another writer, fails with       *)
(* OperationalError as soon as it writes.                                  *)
(*                                                                         *)
(* Abstractions: `issued' and `number' are written together and reset      *)
(* together, so an invoice is issued exactly when it has a number; dates   *)
(* are days; line items and header fields are reduced to the set Complete; *)
(* the totals copied into the row are left out.                            *)
(***************************************************************************)
EXTENDS Integers, FiniteSets

CONSTANTS Workers,      \* gunicorn workers, each serving one request
          Invoices,     \* drafts, all created before the run
          SeriesIds,    \* numbering series
          SeriesOf,     \* the series of each draft
          Complete,     \* drafts with a line item, a name and a tax id
          RowLocks,     \* TRUE on PostgreSQL, FALSE on the SQLite fallback
          MaxRetries,   \* _MAX_RETRIES
          MaxDay,       \* bound: the calendar stops there
          MaxErrors,    \* bound: OperationalErrors that contention does not explain
          MaxAborts,    \* bound: worker crashes and rollbacks of the caller
          Free,         \* "no worker": the value of an unheld row lock
          NoInvoice     \* the in-memory object of a worker that has none

ASSUME IssuanceAssumption ==
    /\ SeriesOf \in [Invoices -> SeriesIds]
    /\ Complete \subseteq Invoices
    /\ RowLocks \in BOOLEAN
    /\ MaxRetries \in Nat \ {0}
    /\ MaxDay \in Nat \ {0}
    /\ MaxErrors \in Nat
    /\ MaxAborts \in Nat
    /\ Free \notin Workers
    /\ NoInvoice \notin Invoices

NoNumber == 0           \* NULL: numbers start at 1
NoDate   == 0           \* NULL: days start at 1

VARIABLES
    last,    \* Series.last_number, committed
    row,     \* the committed invoice rows: number and issue_date
    lock,    \* the holder of each series row's lock
    pc,      \* where each worker is in issue_invoice
    mem,     \* the invoice object each worker holds
    seen,    \* the last_number each worker read
    stale,   \* another transaction committed after this worker's read (SQLite)
    tries,   \* attempts that have failed in the current call
    today,   \* the date the clock shows
    errors, aborts      \* how many of the bounded faults have happened

vars == <<last, row, lock, pc, mem, seen, stale, tries, today, errors, aborts>>

----------------------------------------------------------------------------
S(w) == SeriesOf[mem[w].inv]          \* the series worker w is numbering in

Blank == [number |-> NoNumber, date |-> NoDate]

IsIssued(i) == row[i].number # NoNumber

\* What lines 65-66 put into the object.
Stamped(w) == [number |-> seen[w] + 1,
               date   |-> IF mem[w].date = NoDate THEN today ELSE mem[w].date]

\* Mistake to detect: save accepts any change of an issued invoice.
ImmutableNever(i, new) == TRUE

\* Invoice.save refuses to change the identity of a row that is issued.
Immutable(i, new) == IsIssued(i) => row[i] = new

\* Mistake to detect: the constraint forgets the series.
UniqueNumber(i, n) == \A j \in Invoices \ {i} : row[j].number # n

\* The unique constraint on (series, number).
Unique(i, n) == \A j \in Invoices \ {i} :
                    SeriesOf[j] = SeriesOf[i] => row[j].number # n

\* SQLite: another transaction is writing.
Busy(w) == ~RowLocks /\ \E v \in Workers \ {w} : pc[v] = "saved"

Object(i, n, d) == [inv |-> i, number |-> n, date |-> d]

NoObject == Object(NoInvoice, NoNumber, NoDate)

\* Mistake to detect: an early exit keeps the lock.
UnlockNever(w) == UNCHANGED lock

Unlock(w) == lock' = [s \in SeriesIds |-> IF lock[s] = w THEN Free ELSE lock[s]]

\* issue_invoice returns or raises: the transaction is over, its lock is
\* released, and the request drops its object.
Leave(w) ==
    /\ Unlock(w)
    /\ pc' = [pc EXCEPT ![w] = "idle"]
    /\ mem' = [mem EXCEPT ![w] = NoObject]
    /\ seen' = [seen EXCEPT ![w] = 0]
    /\ tries' = [tries EXCEPT ![w] = 0]

Init ==
    /\ last = [s \in SeriesIds |-> 0]
    /\ row = [i \in Invoices |-> Blank]
    /\ lock = [s \in SeriesIds |-> Free]
    /\ pc = [w \in Workers |-> "idle"]
    /\ mem = [w \in Workers |-> NoObject]
    /\ seen = [w \in Workers |-> 0]
    /\ stale = [w \in Workers |-> FALSE]
    /\ tries = [w \in Workers |-> 0]
    /\ today = 1
    /\ errors = 0
    /\ aborts = 0

\* Mistake to detect: the draft is dated when it is loaded, before the lock.
LoadedAndDated(i) == Object(i, row[i].number, today)

Loaded(i) == Object(i, row[i].number, row[i].date)

\* A request loads the invoice and calls issue_invoice, which refuses an
\* object that is already issued.
Call(w, i) ==
    /\ pc[w] = "idle"
    /\ ~IsIssued(i)
    /\ mem' = [mem EXCEPT ![w] = Loaded(i)]
    /\ pc' = [pc EXCEPT ![w] = "try"]
    /\ UNCHANGED <<last, row, lock, seen, stale, tries, today, errors, aborts>>

\* Mistake to detect: a plain read instead of select_for_update.
CanLockAlways(w) == TRUE

CanLock(w) == RowLocks => lock[S(w)] = Free

\* Begin the transaction, lock the series row where the database can, read it.
SelectForUpdate(w) ==
    /\ pc[w] = "try"
    /\ CanLock(w)
    /\ lock' = IF RowLocks THEN [lock EXCEPT ![S(w)] = w] ELSE lock
    /\ seen' = [seen EXCEPT ![w] = last[S(w)]]
    /\ stale' = [stale EXCEPT ![w] = FALSE]
    /\ pc' = [pc EXCEPT ![w] = "selected"]
    /\ UNCHANGED <<last, row, mem, tries, today, errors, aborts>>

\* _validate_issuable raises: the transaction rolls back, nothing is consumed.
RefuseIncomplete(w) ==
    /\ pc[w] = "selected"
    /\ mem[w].inv \notin Complete
    /\ Leave(w)
    /\ stale' = [stale EXCEPT ![w] = FALSE]
    /\ UNCHANGED <<last, row, today, errors, aborts>>

\* Invoice.save finds the row already issued under another identity: someone
\* issued the draft after this worker loaded it.  The ValidationError is not
\* caught by the retry loop.
RefuseReissue(w) ==
    /\ pc[w] = "selected"
    /\ mem[w].inv \in Complete
    /\ ~stale[w]
    /\ ~Immutable(mem[w].inv, Stamped(w))
    /\ Leave(w)
    /\ UNCHANGED <<last, row, stale, today, errors, aborts>>

\* Stamp the object, save it and the series: written, not yet committed.
Save(w) ==
    /\ pc[w] = "selected"
    /\ mem[w].inv \in Complete
    /\ ~stale[w]
    /\ ~Busy(w)
    /\ Immutable(mem[w].inv, Stamped(w))
    /\ Unique(mem[w].inv, Stamped(w).number)
    /\ mem' = [mem EXCEPT ![w] = Object(mem[w].inv, Stamped(w).number, Stamped(w).date)]
    /\ pc' = [pc EXCEPT ![w] = "saved"]
    /\ UNCHANGED <<last, row, lock, seen, stale, tries, today, errors, aborts>>

\* Mistake to detect: the series is not saved.
AdvancedNever(w) == last

Advanced(w) == [last EXCEPT ![S(w)] = mem[w].number]

Commit(w) ==
    /\ pc[w] = "saved"
    /\ row' = [row EXCEPT ![mem[w].inv] = [number |-> mem[w].number, date |-> mem[w].date]]
    /\ last' = Advanced(w)
    /\ stale' = [v \in Workers |-> \/ stale[v]
                                   \/ ~RowLocks /\ v # w /\ pc[v] = "selected"]
    /\ Leave(w)
    /\ UNCHANGED <<today, errors, aborts>>

\* Mistake to detect: one attempt too many.
AttemptsLeftPlusOne(w) == tries[w] < MaxRetries

AttemptsLeft(w) == tries[w] + 1 < MaxRetries

\* The handler of IntegrityError and OperationalError: roll back, reset the
\* number (not the date) and try again or, the attempts exhausted, re-raise.
Retry(w) ==
    /\ stale' = [stale EXCEPT ![w] = FALSE]
    /\ UNCHANGED <<last, row, today, aborts>>
    /\ \/ /\ AttemptsLeft(w)
          /\ Unlock(w)
          /\ pc' = [pc EXCEPT ![w] = "try"]
          /\ mem' = [mem EXCEPT ![w] = Object(mem[w].inv, NoNumber, Stamped(w).date)]
          /\ seen' = [seen EXCEPT ![w] = 0]
          /\ tries' = [tries EXCEPT ![w] = @ + 1]
       \/ /\ ~AttemptsLeft(w)
          /\ Leave(w)

\* The write fails because of another worker: a busy or out-of-date SQLite
\* database, or the unique constraint.
LoseRace(w) ==
    /\ pc[w] = "selected"
    /\ mem[w].inv \in Complete
    /\ \/ stale[w]
       \/ /\ Immutable(mem[w].inv, Stamped(w))
          /\ Busy(w) \/ ~Unique(mem[w].inv, Stamped(w).number)
    /\ Retry(w)
    /\ UNCHANGED errors

\* An OperationalError with any other cause while the invoice is saved.
SaveError(w) ==
    /\ pc[w] = "selected"
    /\ mem[w].inv \in Complete
    /\ errors < MaxErrors
    /\ errors' = errors + 1
    /\ Retry(w)

\* The caller's own atomic block fails after the invoice was numbered
\* (generate_alta raises in _issue_from_forms), or the worker dies.
Abort(w) ==
    /\ pc[w] \in {"try", "selected", "saved"}
    /\ aborts < MaxAborts
    /\ aborts' = aborts + 1
    /\ Leave(w)
    /\ stale' = [stale EXCEPT ![w] = FALSE]
    /\ UNCHANGED <<last, row, today, errors>>

Tick ==
    /\ today < MaxDay
    /\ today' = today + 1
    /\ UNCHANGED <<last, row, lock, pc, mem, seen, stale, tries, errors, aborts>>

\* The steps of a call once it has begun.
Step(w) == \/ SelectForUpdate(w)
           \/ RefuseIncomplete(w)
           \/ RefuseReissue(w)
           \/ Save(w)
           \/ Commit(w)
           \/ LoseRace(w)

Next == \/ \E w \in Workers : \/ \E i \in Invoices : Call(w, i)
                              \/ Step(w)
                              \/ SaveError(w)
                              \/ Abort(w)
        \/ Tick

Spec == Init /\ [][Next]_vars

\* A worker runs its request to the end, and the database's queue for a row
\* lock serves every waiter.
Fairness == \A w \in Workers : WF_vars(Step(w)) /\ SF_vars(SelectForUpdate(w))

FairSpec == Spec /\ Fairness
----------------------------------------------------------------------------
(* Properties *)

TypeOK ==
    /\ last \in [SeriesIds -> Nat]
    /\ row \in [Invoices -> [number : Nat, date : Nat]]
    /\ lock \in [SeriesIds -> Workers \cup {Free}]
    /\ pc \in [Workers -> {"idle", "try", "selected", "saved"}]
    /\ mem \in [Workers -> [inv : Invoices \cup {NoInvoice}, number : Nat, date : Nat]]
    /\ \A w \in Workers : pc[w] # "idle" => mem[w].inv \in Invoices
    /\ seen \in [Workers -> Nat]
    /\ stale \in [Workers -> BOOLEAN]
    /\ tries \in [Workers -> 0..MaxRetries-1]
    /\ today \in 1..MaxDay
    /\ errors \in 0..MaxErrors
    /\ aborts \in 0..MaxAborts

\* R-02, AD-6: the numbers issued in a series are 1, 2, ..., last_number, each
\* carried by one invoice, on either database, whatever fails on the way.
GapFree ==
    \A s \in SeriesIds :
        /\ \A n \in 1..last[s] : \E i \in Invoices : SeriesOf[i] = s /\ row[i].number = n
        /\ \A i \in Invoices : SeriesOf[i] = s => row[i].number \in 0..last[s]
        /\ \A i, j \in Invoices :
              /\ SeriesOf[i] = s /\ SeriesOf[j] = s
              /\ IsIssued(i) /\ row[i].number = row[j].number
              => i = j

\* No lost update: a worker that can still write the series it read holds its
\* current high-water mark, so its save never meets the unique constraint.
NoLostUpdate ==
    \A w \in Workers :
        pc[w] \in {"selected", "saved"} /\ ~stale[w] =>
            /\ seen[w] = last[S(w)]
            /\ Unique(mem[w].inv, seen[w] + 1)

\* Requirement 6 (Invoice.save): once issued, an invoice keeps its number and
\* its date, although several workers may hold the same draft.
IdentityFixed == [][\A i \in Invoices : IsIssued(i) => row'[i] = row[i]]_vars

\* Dates follow numbers, as long as no save has failed: a retry keeps the date
\* of the failed attempt on the object (lines 66 and 83-84).
DatesFollowNumbers ==
    errors = 0 => \A i, j \in Invoices :
        SeriesOf[i] = SeriesOf[j] /\ IsIssued(i) /\ row[i].number <= row[j].number
            => row[i].date <= row[j].date

\* issue_invoice returns: the retries are bounded and no row lock is leaked.
EveryCallReturns == \A w \in Workers : (pc[w] # "idle") ~> (pc[w] = "idle")

\* With row locks, a call on a complete draft ends with the invoice issued,
\* unless a worker died or a caller rolled back; a save that fails less often
\* than there are attempts does not prevent it.
CompleteDraftIsIssued ==
    \A w \in Workers, i \in Complete :
        (pc[w] # "idle" /\ mem[w].inv = i) ~> IsIssued(i) \/ aborts > 0

\* The series as books: number n of series s is its n-th entry.
Holders(s, n) == {i \in Invoices : SeriesOf[i] = s /\ row[i].number = n}

Holder(s, n) == IF Holders(s, n) = {} THEN NoInvoice
                                      ELSE CHOOSE i \in Holders(s, n) : TRUE

Books == [s \in SeriesIds |-> [n \in 1..last[s] |-> Holder(s, n)]]

Ledger == INSTANCE Book WITH
    Entries <- Invoices, BookIds <- SeriesIds, BookOf <- SeriesOf, book <- Books

\* Every step of issue_invoice enters one invoice at the end of one book, or
\* changes no book.
KeepsTheBooks == Ledger!Spec
=============================================================================
