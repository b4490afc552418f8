# Verification of the invoicing system

TLA+ modules, TLC configurations and TLAPS proofs about FacturaSimple, a Django
application with which a self-employed person issues invoices, registers them as
Verifactu records in a hash chain and submits the records to the tax authority
(AEAT), and about the scripts with which the repository's own development is run by
several sessions at once. Paths below are relative to the repository's root.

Run everything inside this directory: `tlc -config MCIssuanceLocks.cfg MCIssuance`
checks an instance, `tlapm IssuanceProofs.tla` checks the proofs. `PROJECT.json`
lists the runs, the mutants that show each property can fail, the findings, the
hazards and, under `map`, the source lines each definition stands for.

## The system

| Component | State | Operations | Interacts with |
|---|---|---|---|
| Issuance (`invoicing/services.py:49`, `invoicing/models.py`) | `Series.last_number`; `Invoice.number`, `issue_date`, `issued` | `issue_invoice`, `Invoice.save` | called by the views inside their own transaction; copies totals from `calc`, the recipient from `clients` |
| Hash chain (`compliance/services.py`, `compliance/models.py`) | `IssuerChain` (one row per NIF), `VerifactuRecord` | `generate_alta`, `generate_anulacion` | called after issuance in the same transaction, by `annul_invoice` and by hand |
| Submission (`submission/`) | `SubmissionAttempt` | `submit_record`, `submission_submit`, `aeat_submit` | the AEAT over mTLS SOAP, with certificates of `certificates` |
| Correction and annulment (`invoicing/services.py:101-210`, `invoicing/views.py`) | `Invoice.corrected_by`, `Invoice.annulled` | `issue_rectificativa`, `annul_invoice` | issuance, the chain and submission |
| Totals and records (`invoicing/calc.py`, `compliance/records.py`) | none | `compute_totals`, `build_registro_alta` | issuance, the chain, the QR code |
| Documents and email (`documents/services.py`, `invoicing/views.py`) | `Invoice.sent_at`, the issuer in the session | PDF, QR code, `send_invoice_email`, `mark_sent` | sessions of `accounts`, SMTP |
| Clients (`clients/`) | owner-scoped client rows | CRUD, `recipient_snapshot`, tax-id checksums | issuance, retention |
| Certificates (`certificates/`) | one encrypted certificate per user | store, get, delete | submission, retention |
| Accounts and retention (`accounts/`) | users, sessions, `DeletionRequest` | login, logout, deletion, `purge_expired_data` | every table, by CASCADE and PROTECT keys |
| Claims and reservations (`scripts/openup-claims.py`) | claim files and reservation files of a clone, git refs on the remote | `claim`, `release`, `heartbeat`, `preflight`, `reap`, `reserve-id`, `release-id` | git, the plans, the roadmap |
| Board, fence, input requests (`scripts/openup-board.py`, `openup-fence.py`, `openup-input.py`) | none: derived from plans, roadmap, leases, branches | `top`, `check`, `resumable` | claims |
| Iteration state (`scripts/openup-state.py`, `scripts/sync-status.py`) | `.openup/state.json`, `retro.json`, roadmap, `project-status.md` | `init`, `set-gate`, `archive`, `retro`, the sync | each other, by files |
| Work products (`scripts/check-docs.py`) | the files of `docs/` | the check before a commit | the trace model |

Several gunicorn workers serve requests at the same time on PostgreSQL (READ
COMMITTED, row locks by `select_for_update`); without `DATABASE_URL` the application
runs on SQLite, where `select_for_update` does nothing. The scripts run in several
sessions and clones at once and lock nothing: they rely on `link(2)`, on a push being
refused, and on reading files again. What is hard:

- *concurrency*: `last_number` and the tail of a chain are read, then written; pages
  and scripts check (`corrected_by`, accepted, "nobody claims this") and act later;
- *long transactions*: a rectificativa is numbered, registered and **submitted over
  the network** in one transaction that holds the series and the chain;
- *unreliable delivery*: a lost reply looks like a lost request; the AEAT rejects
  duplicates; a push may be applied and its answer lost; an email is sent and the
  invoice is not marked;
- *partial failure*: `annul_invoice` has no transaction, the purge has three, a script
  writes its files one after the other; a kill may come between;
- *derived views*: board, fence, roadmap and status page are read while what they were
  derived from changes.

What makes the components correct: numbers without gaps, duplicates or change after
issuance; a linear chain whose head mirrors its tail; one record of a kind per invoice,
verdicts never rewritten, marks on invoices only for verdicts that justify them; a purge
that deletes what is due and nothing else; amounts that agree between invoice, record
and QR code; one owner per task and disjoint surfaces; views that agree with what they
are derived from; and every request ends.

## Modules

| Module | What it is |
|---|---|
| `Book` | abstract specification: books to which entries are appended, each entry once, in its own book |
| `Issuance` | `issue_invoice` by several workers; implements `Book` (a series is a book of invoices) |
| `HashChain` | `generate_alta`/`generate_anulacion` by several workers; implements `Book` (a chain is a book of records) |
| `Lifecycle` | composes issuance, chain, submission, correction and annulment, by several workers and an AEAT behind a lossy connection |
| `Retention` | clients, certificates, accounts and invoices against `purge_expired_data`, in its three transactions |
| `Delivery` | browsers, their sessions, the issuer kept in them, and the emails |
| `Amounts`, `TaxId` | pure algorithms: totals, records and their rounding; the checksums of tax ids |
| `Claims` | `openup-claims.py` on files of several clones and refs of their remote, each file or git operation a step |
| `Reservations` | `reserve-id` and `release-id` by the lanes of one clone |
| `Paths` | when two declared surfaces collide; used by `Claims` and `Lanes` |
| `Lanes` | composes plans, roadmap, leases, board, pre-flight, fence and input requests |
| `Iteration` | `openup-state.py` and `sync-status.py`, each file write two steps |
| `Traceability` | `check-docs.py` as the gate of commits to `docs/` |
| `MC*` | the instances for TLC; `MCNumbering`, `MCPages` and `MCClaims` put together components that share nothing, so that a behaviour is about one of them |
| `*Proofs` | the TLAPS proofs about the module of that name; `RecordProofs` those about `HashChain`, `Delivery`, `Amounts` and `TaxId`, `ProcessProofs` those about `Claims` and `Traceability` |

Next to many definitions stands a variant introduced by "Mistake to detect": a
plausible bug in that place. It is not used by the specification; substituting it must
make TLC refute a property (`mutants` in `PROJECT.json`).

### Issuance

| Model | Code |
|---|---|
| `last`, `row` | committed `Series.last_number` and `Invoice.number`/`issue_date` |
| `lock` | the row lock of `select_for_update` on the series |
| `mem`, `seen`, `tries` | the invoice object of a request, the `last_number` it read, the loop of `_MAX_RETRIES` |
| `stale` | (SQLite) another transaction committed after this one's read; its write will fail |
| `Call`, `SelectForUpdate`, `RefuseIncomplete`, `RefuseReissue`, `Save`, `Commit` | the path through `issue_invoice` |
| `LoseRace`, `SaveError` | the `except (IntegrityError, OperationalError)` handler, after contention or another failure |
| `Abort` | the caller's transaction rolls back (`_issue_from_forms`), or the worker dies |
| `Tick` | midnight |

`issued` and `number` are always written and reset together, so one stands for both.
Validity is a set `Complete` of drafts; totals are copied and read by nobody here.
Several workers may hold the same draft, which the service permits.

### HashChain

A record's data is represented by the key its unique constraint uses; a huella, a
SHA-256 over the data and the previous huella, by the sequence of the data of all the
records up to this one, that is, SHA-256 is taken to be injective. Insertion and
commit are separate steps, because the transaction may be the caller's and end much
later. Record ids come from one sequence for all issuers that rollbacks do not give
back, so ids have gaps. `LockChain` is `_lock_chain`; `Insert`/`Commit` the creation
of the record with the update of the head; `InsertFails` an `IntegrityError` or, on
SQLite, an `OperationalError`; `Abort` a failing signer or caller.

### Lifecycle

Numbering and appending to the chain, which the two modules above show to be atomic,
are one step here. One issuer; series `F` for invoices and `R` for rectificativas.

| Model | Code |
|---|---|
| `recs` | committed records in the order of ids, each with the statuses of its attempts |
| `aeat` | the records the AEAT has registered (external) |
| `pc`, `req` | each worker's place and what its request has read |
| `live` | `AEAT_SUBMISSION_LIVE`; either value, fixed before the workers start |
| `chain` | the worker whose open transaction holds the series `R` and the chain |
| `Create` | `_issue_from_forms` |
| `RegisterLoad`, `Register` | `invoice_register_verifactu`: the check, then `generate_alta` |
| `Submit`, `Redrive` | `submission_submit`; `manage.py aeat_submit` |
| `Disabled`, `Reply`, `NoReply` | `submit_record`: kill-switch, a reply of the AEAT, a lost request or reply |
| `Persist` | `_persist`, when it commits at once |
| `RectifyLoad`, `RectifyRefuse`, `RectifyIssue`, `RectifyCommit` | `invoice_rectificar` and `issue_rectificativa`: nothing is visible before `RectifyCommit` |
| `AnnulLoad`, `AnnulDecide`, `AnnulGenerate`, `CancelAttempt`, `MarkAnnulled` | `annul_invoice`, each commit a step |
| `Crash` | the worker dies, or `CertificateNotConfigured` ends the request |

The AEAT may register a record or find it incorrect, rejects any second record with the
same number and kind (code 3000, `docs/changes/archive/T-010/design.md:77`), and may
answer with a SOAP fault. This is all the code relies on.

### Retention and Delivery

`Retention` has one variable per table (`account`, `requested` for `DeletionRequest`,
`stored` for certificates, `client`, `inv`) and the command's local variables (`cut`,
`orphans`, `eligible`). `PurgeInvoices`, `SelectClients`, `DeleteClients`, `Split` and
`DeleteAccounts` are its stages; between them owners go on, and `Kill` ends it. A
deletion request is two commits, `RequestDeletion` and `Deactivate`; if the second never
comes, the owner goes on with an account that the command will delete. What
`on_delete` says is in the guards: a protected row makes the transaction fail (`Fail`)
and roll back. Days are counted, five years and thirty days become `Window` and `Grace`.

`Delivery` has browsers with a session each (`user`, `issuer`), invoices (`bill`, with
the NIF their record was made under), and workers that send an email (`sender`):
`Send` reads, `Answer`/`BreakOff` is what SMTP says or a crash, `MarkSent` and
`SaveSentAt` are the read and the write of `mark_sent`.

### Amounts and TaxId

`Amounts` counts cents, thousandths and percent (the IRPF rate in hundredths of it); `Money` is `ROUND_HALF_UP`, and
`Totals`, `Desglose`, `Alta`, `QrImporte` are translated from `calc.py`, `records.py`
and `documents/services.py`. The reference it is compared with is exact arithmetic on
the lines. `TaxId` has the three checks of `clients/validation.py` over sequences of
characters; `Mistype` replaces one character of a valid id.

### Claims, Reservations, Lanes

| Model | Code |
|---|---|
| `Claims`: `file`, `ref`, `remote` | a clone's claim files, its `refs/openup/claims/*`, the remote's |
| `Claim`, `Preflight`, `WriteClaim`, `UpdateRef`, `Push`, `PushRejected`, `PushUnanswered`, `FetchWinner`, `Rollback` | `cmd_claim` and `_push_claim_ref`: the file, the local ref, the push without `--force`, its outcomes |
| `Release`, `DeleteRemote`, `DeleteRef` | `cmd_release` |
| `Heartbeat`, `Stamp` | `cmd_heartbeat`, which reads the claim and replaces it |
| `Fetch`, `List`, `Mirror`, `Fill` | `cmd_preflight`'s forced fetch, the list of the refs, and the files written from it, which are opened and then filled |
| `Reap`, `ReapOne` | `cmd_reap`: the scan, then one file after the other, by name |
| `holds`, `pushed` | what a session was told, and by whose answer |
| `unguarded`, `forfeit`, `failures` | history for the properties: tasks with a claim that another command of the clone overlapped with or that went on unanswered; owners who let a claim grow stale, claimed it again or had its file torn; failed network calls |
| `Reservations`: `Reserve`, `ReadReserved`, `Link`, `LoseRace` | `cmd_reserve_id`: `used_seqs_in_repo`, `reserved_seqs`, `create_reservation_exclusive`, `seq += 1` |
| `ReserveExplicit`, `LinkExplicit`, `ReleaseId` | `--id`, `release-id` |
| `Lanes`: `plan`, `row`, `lease`, `question`, `diff` | front matter, roadmap row, claim, input request, the files of a branch |
| `todo`, `cleared` | what a session has read off the board, and the claim it has cleared and not yet written |
| `missed`, `raced`, `widened` | history for the properties: leases written since a pre-flight, pairs of leases of which one missed the other, leases that were refreshed |
| `Preflight`, `ClaimRefused`, `WriteLease`, `WriteRefused`, `Reclaim`, `ReclaimRefused` | `cmd_claim`: its reads, its write, a refusal by the remote, and the same for a session's own claim |
| `State`, `TopN`, `PreflightClear`, `FencePasses`, `Resumable` | `classify`, `cmd_top_n`, `preflight`, `cmd_check`, `find_resumable` |

A claim is nine steps in `Claims`, on files and refs that the sessions of a clone share,
so that they interleave with one another as well as with other clones. In `Lanes`, whose
subject is what the tools derive from the files of one clone, it is two, since nothing is
locked between the pre-flight and the write: whatever may happen there, happens. What the
remote says afterwards is in `Claims`; `Lanes` has only its effect, that the file just
written goes (`WriteRefused` takes write and removal as one step, `ReclaimRefused` takes a
session's own refreshed lease away).

### Iteration and Traceability

`Iteration` keeps the content of every file; a command computes all it is to write
(`todo`) when it starts, as its process is the only writer, and `WriteNext` opens
(empties) or fills one file at a time; `Kill` drops the rest. `Restore` is
`git checkout` of a document. `Traceability` commits one file at a time through
`Passes`, the conjunction of the checks of `check-docs.py` with coverage and the trace
model's own severities, and says what such a gate is worth. The hook that applies it is
fail-open and looks at the tree on disk (`docs-eng-process/updating.md:552-574`),
`trace_rules` can lower or silence it (`project-config.md:70-84`), and `complete-task`
runs the check without coverage (`skills-guide.md:606`): none of this is modelled.

## Runs

Instances are as small as the interesting interleavings allow.

| Run | Checks | Bounds, and why they are enough |
|---|---|---|
| `issuance_locks` | `NoLostUpdate`, `DatesFollowNumbers`, `IdentityFixed`, `EveryCallReturns`, `CompleteDraftIsIssued` | PostgreSQL; two workers that race for a lock; three drafts of one series, one of them incomplete, and one of another series; two days, one failing save (one less than the attempts of a call), one crash or rollback |
| `issuance_lockless` | `TypeOK`, `GapFree`, `KeepsTheBooks` | SQLite; three workers, so that a worker can lose races to two others and use up its two attempts; the same drafts, one failing save |
| `numbering` | `ChainIsLinear`, `HeadMirrorsTail`, `AppendsToChain`, `EveryGenerationEnds`; `DistinctIds`, `NewNumberIsFresh`, `AllocationEnds` | two things that several processes number at once, one per behaviour, as the two small state spaces need no run each. Chains: both databases; three workers, two issuers, one invoice number each (alta and anulación), so that chains share the id sequence; three ids drawn. Task ids: two lanes, three reservations, one number asked for by name: a lane can lose a number, and meet both spellings of one |
| `lifecycle` | `OneRecordEach`, `AnnulledForReason`, `CorrectedForReason`, `AcceptedMeansRegistered`, `HistoryIsKept`, `EveryRequestEnds` | two workers, one invoice from before records were generated, two rectificativas, three requests, two tries per submission, one crash: enough for two registrations, or a submission, an annulment and another submission, to overlap and to wait for a rectification |
| `claims` | `OneOwnerAcrossClones`, `OwnerKeepsItsClaim`, `DocsAreTraceable` | two clones, two sessions in one and one in the other, one task, four commands, two instants with a staleness limit of zero, one failing network call: two claims, a bystander's mirror and a release fit, and every order of their steps; two documents, two ids, three types, two statuses, two references each: a circle, a double id and a dangling reference fit; the proof has any number |
| `lanes` | `BoardIsRight`, `ClaimedLanesAreDisjoint`, `FencedLanesAreDisjoint`, `BatchCanStart` | two sessions, two tasks of which one may depend on the other and is on the quick track; a directory, a file in it, another directory and no surface at all; two claims that pass their pre-flight, one edit, retirement or spoilt file, one changed file per branch; views and files shared by rule, which the properties except, are left to the proofs |
| `iteration` | `DueFollowsTheCounter`, `ViewsAgree`, `SyncIsIdempotent`, `RemovedOnlyWhenArchived` | two tasks, two iterations (of one task or both), two days, a threshold of one, one kill |
| `retention` | `TypeOK`, `CompletedRunIsFinal`, `PurgesOnlyWhatIsDue` | two owners, three invoices, two of which may have no record, one client; five days, a window of two and a grace period of one, so that invoices and requests expire during the run or not at all |
| `pages` | `RoundingIsBounded`, `RecordAddsUp`, `SingleErrorsAreCaught`, `SentAtTellsTheTruth`, `OwnIssuerOnly` | up to three lines of two quantities, three prices (with halves of a cent) and every rate; ids of six kinds with sevens of 0 and 8, so that digit sums cross ten; two owners, browsers, invoices, issuers and workers, two emails |

The type invariant of a module is part of one of these properties where no run lists it
by itself. In the runs with symmetry no liveness is checked. Deadlock is checked where
the system can always go on; it is switched off (`CHECK_DEADLOCK FALSE`) where the
bounded system may stop because ids, requests, tasks, emails or edits are used up. That
nothing hangs before is checked as `EveryGenerationEnds`, `EveryRequestEnds` and
`AllocationEnds`.

**Fairness.** A worker executes its request to the end: weak fairness of its steps
(gunicorn runs the Python code; loops are bounded). A row lock is given to every waiter
in the end: strong fairness of the step that takes it (PostgreSQL queues waiters). No
fairness is assumed of users, of the calendar or of faults. In `Lifecycle` the AEAT's
reply or the timeout (45 s) is part of the worker's step. In `Reservations` a running
`reserve-id` goes on (weak fairness of its steps). The other modules have no fairness
and only safety properties.

### Where the code and its documents disagree

Each of these runs checks one claim, stated in the module next to the line it comes
from, and ends in a counterexample; `findings` gives the code line and the quotation.

| Run | The claim | What happens |
|---|---|---|
| `lifecycle_cancelled_registered` | only a submission that the AEAT has not accepted is cancelled | the reply was lost, the record is registered |
| `claims_two_machines` | two agents on different machines cannot both claim the same task (`openup-claims.py:79-81`), at least while the network answers | one machine has claimed it; on the other, `a` has set the local ref to its claim and is about to push, when another session's `preflight`, of whatever task, fetches all claims by force: `a` pushes the winner's own ref, which is "up to date", and is told that it has claimed the task |
| `retention_protected` | the purge deletes expired invoices and, by cascade, their records | records protect their invoice: the command fails on the first such invoice, deletes nothing, and does so on every later day |

The models have more behaviours that a reader of the documents may not expect. They
follow from the code as it is, and properties are stated around them:

- two requests can both rectify one invoice (`corrected_by` is checked before the
  transaction); the second link replaces the first;
- an acceptance that arrives by a later re-drive, or whose request crashed, is never
  applied to the invoice;
- a second annulment after a rejected or pending one ends in an `IntegrityError`;
- when the transaction around a submission rolls back, the AEAT keeps a record that
  is not in the database;
- the retry of a record whose acceptance was lost is rejected as a duplicate, and the
  valid record is stored as rejected;
- a rejected or cancelled record is submitted again as it is; an annulled invoice can
  be corrected;
- after a failing save and midnight a later number may carry an earlier date: the retry
  resets the number and not the date. `DatesFollowNumbers` is about runs without a
  failing save;
- PDF, QR code and email take the issuer of the session: after an owner used two
  issuers, an invoice of one goes out under the NIF of the other;
- two sessions of *one* clone can claim one task, or overlapping tasks, since nothing is
  locked between the pre-flight and the file (`openup-claims.py:860-874`), although
  `docs-eng-process/parallel-lanes.md:3-5` says that the leases already prevent the
  latter. The models have these races; `OneOwnerAcrossClones`, `ClaimedLanesAreDisjoint`
  and `FencedLanesAreDisjoint` say that it takes one: they except tasks with a claim that
  another command of the clone overlapped with (`unguarded`), and pairs of leases of which
  one was past its pre-flight and unwritten when the other was written (`raced`);
- a session that claims its own task again is not checked against other leases
  (`widened`; the fence advises it after an edit of the touches), and where there is a
  remote its own ref rejects the push: the claim is refused, and the file of the claim it
  still owns is removed (`openup-claims.py:850-851`, `883-897`). `OwnerKeepsItsClaim`
  excepts such owners (`forfeit`);
- a clone whose network call failed may believe it owns a task that another one owns
  (the script goes on after an unanswered push);
- a deletion request that is killed between its two commits leaves an account in use
  that is purged, with its clients and certificate, when the grace period is over, unless
  an invoice keeps it;
- a killed command leaves an empty state or roadmap file, until somebody restores it.

## Proofs

Each theorem below is one of the properties that a run checks on a small instance, for
every value of the constants that the module's assumption admits. The assumptions say
that bounds are natural numbers, that model values such as `None` are not among the
data, and what is named below; every run evaluates them. In each module `IInv` is the
inductive invariant, `IInvAlways` (`InvAlways`) its theorem, and there is a lemma per
action; TLC checked these invariants on the runs' instances before they were proved.
`AmountsInv` and `TaxIdInv` only record what one step leaves behind; what is proved about
those modules is in the lemmas about their operators.

### Issuance

`IssuanceProofs` proves, for any sets of workers, drafts and series, both kinds of
database and any bounds on the faults, from `IssuanceAssumption` alone:

- `TypeCorrect`: `Spec => []TypeOK`;
- `NumberingIsGapFree`: `Spec => []GapFree`;
- `NoUpdateIsLost`: `Spec => []NoLostUpdate`;
- `IssuedIdentityIsFixed`: `Spec => IdentityFixed`;
- `DatesNeverRunBack`: `RowLocks => (Spec => []DatesFollowNumbers)`;
- `IssuanceKeepsTheBooks`: `Spec => KeepsTheBooks`, the refinement of `Book`.

`GapFree` is not inductive: a commit writes a number that was computed steps earlier.
The inductive invariant `IInv` adds `TxInv` (a worker inside its transaction holds the
lock of its series, or on SQLite has an up-to-date snapshot, and then the number it
read is still the last one) and `SavedInv` (a worker about to commit carries the next
number, its row is still a draft, and on SQLite it is the only writer). `IInvStep`
goes through the actions; commits are the only interesting case (`CommitStep`), since
all the others leave the committed state alone and are covered by `OutOfTx`,
`LeaveIsOut` and `RetryIsOut`. `NoUpdateIsLost` and `IssuedIdentityIsFixed` follow from
`IInv`. `DatesFollowNumbers` needs more: as long as no save has failed, `Calendar` says
that no date lies ahead, that a draft and an object that is not saved have none, so that
the save takes today's, and that the date of a saved one is not before those of its
series; a worker that waits for the lock past midnight saves after it got the lock.
`NoRaceIsLost` shows that with row locks no write loses a race, so that a date is never
carried over into another attempt. On SQLite it is, and the claim is not made. For the
refinement, `HolderProperty` and `BooksType` show that `GapFree` makes
each series a sequence of invoices, and `CommitRegisters` that a commit enters one
invoice at its end.

### HashChain

`RecordProofs` proves, for any workers, issuers and numbers and both databases,
`TypeCorrect` (`Spec => []TypeOK`), `NoChainForks` (`[]ChainIsLinear`),
`HeadIsNeverBehind` (`[]HeadMirrorsTail`) and `ChainsAreBooks` (`Spec =>
AppendsToChain`, the refinement of `Book`).

`ChainIsLinear` speaks of the records that are there and not of the one that comes next.
`ChainInv` says that each record links to the one before it; `HeadInv` that the head
has the last one's huella; `TxInv` what a worker knows from the moment it locked the
chain until it commits: the tail it read is the tail (`Fresh`), its row is new and its id
above all committed ones of the issuer (`Committable`), and no other worker can commit a
record of this issuer first: on PostgreSQL by the lock on the issuer's row, on SQLite since there is
one writer and a snapshot that is out of date is refused. `PredecessorMakesLinear` turns
the links into the property.

### Lifecycle

`LifecycleProofs` proves, for any workers, invoices and number of requests, tries and
crashes, the five safety properties of the run: `OneRecordAlways` (`OneRecordEach`),
`AnnulmentsHaveReasons`, `CorrectionsHaveReasons`, `AcceptancesAreTrue`
(`AcceptedMeansRegistered`) and `HistoryStays` (`HistoryIsKept`). The invoices from
before the records existed (`Legacy`) are finitely many.

The code reads, decides, calls the AEAT and writes in separate steps, so the invariant
has to say what a request in each place may rely on (`Work`): the record it carries is
in the table, a verdict of the AEAT it has not stored yet is true, the attempt it read
as pending is pending or has been cancelled since, the reason for a mark that it will
set is already there. `Ledger` and `Reasons` are the properties about records and marks,
`Numbered` says that a series has given no number above its last, and `Apart` that no
two requests hold one draft. Others keep what they rely on because records, attempts and
the AEAT's registry only grow (`Grows`, `BystanderKeeps`).

### Retention and Delivery

`RetentionProofs`: `NothingDangles` (`[]TypeOK`, which has the foreign keys),
`RunIsComplete` (`[]CompletedRunIsFinal`) and the action property `NothingGoesEarly`
(`PurgesOnlyWhatIsDue`), for any owners, invoices, clients and periods. What may be
deleted is decided in one transaction and deleted in another; the invariant says what
lasts in between: nothing expired is left after the first transaction
(`NothingExpired`); an eligible account, which may still be in use, gets no invoice but
such as have a record and thereby make its deletion fail, and a blocked one keeps those
that block it (`Decided`).

`RecordProofs` has, over `DeliverySpec`, `SentAtIsTrue` (`[]SentAtTellsTheTruth`) and
`IssuersStayApart` (`[]OwnIssuerOnly`). The invariant (`DeliveryInv`) says of a worker between reading
an invoice and writing `sent_at` that the invoice is still its owner's, or is gone for
good (`Kept`): only invoices without a record are purged, and none of them can be issued
again (`Registered`); that an email is out before it is noted (`Told`) and what remains
to be noted is in somebody's hands or was cut off (`Accounted`); and that a session
holds an issuer only of its own user (`OwnSession`).

### Claims and Traceability

`ProcessProofs` proves `OneOwner` (`[]OneOwnerAcrossClones`, with the type invariant)
and `OwnersKeepTheirClaims` (`[]OwnerKeepsItsClaim`), for any clones, any sessions in
them, tasks, limits and number of failures, without a hypothesis. What the clone's other
sessions can spoil is recorded as it happens, in `unguarded`, and the theorems are about
the tasks to which it has not happened.

Who owns a task is decided on the remote, in one step of a command of nine; the
invariant relates the remote to what the steps around it have read and will write. For
the tasks outside `unguarded`, `Known` says that the remote has the claim of whoever owns
one, also while it is being given back, and that the ref that is about to be pushed is
still the session's own. `Safe` says the same of the clone of an owner outside `forfeit`:
the file is its claim or is being filled, no reap has doomed it, and what any command
there has listed or read of the task is its claim too. `Seen` ties the two histories to
what happens, `Unreadable` says who can have left a file that cannot be parsed.
`SessionKeeps` reduces a step to what it does in its own clone and to the remote's entry
of one task (`Aside`, `Fair`, `Open`); `HouseKeeps` does it for `reap`, a person and the
clock.

`EveryProductIsTraced` (`TraceSpec => []DocsAreTraceable`) is about any number of
documents. The gate's verdict on the whole tree is the invariant; the theorem is what it
means: `Depth` orders the types so that every accepted edge goes nearer to the vision,
hence no circle (`NoCircle`); without double ids and dangling references the id is a
bijection between what is upstream of a document and the names it traces from
(`OneEach`).

### Reservations

`ReservationsProofs` proves `IdsAreDistinct` (`[]DistinctIds`) and `AllocatedNumberIsNew`
(`NewNumberIsFresh`) for any lanes and commands. `DistinctIds` is not inductive, since a
reservation that was released may be linked again: `Landed` says why it is not, once the
task is on the trunk. `LimitInv` bounds the numbers by the commands that have run, so
that there always is a next one; `ReadInv` says that what an allocation has read covers
its worktree and all that has been reserved since it began.

### Lanes

`LanesProofs` proves, for any tasks, sessions, surfaces and files, from
`LanesAssumption` and `PathsAssumption` (declared touches and changed files are paths
below the root, and a changed file encloses no declared path):

- `TheBoardIsRight`: `Spec => []BoardIsRight`;
- `LeasesAreDisjoint`: `Spec => []ClaimedLanesAreDisjoint`, with the type invariant, for
  leases of which neither missed the other nor was refreshed;
- `FencedChangesAreDisjoint`: `Spec => []FencedLanesAreDisjoint`, for such leases and
  changes that the fence compared with the trunk;
- `BatchesCanStart`: `Spec => BatchCanStart`, about each step in which a dispatcher
  reads the board.

The invariant is `TypeOK /\ PlanInv /\ LeasesApart /\ UnwrittenApart`. `LeasesApart`, that
leases do not overlap unless one missed the other or was refreshed, is kept by the write
of a claim although that looks at nothing, because of `UnwrittenApart`: what has passed
its pre-flight overlaps with no lease but those written since (`missed`). `ApartStep` has
both; the board may be as stale as it likes.
`PathsPart` turns "do not collide" into a segment in which the paths differ, and
`PrefixesCollide` is why a file that two lanes may both change lies below two colliding
touches. `BoardIsRight` is about one state, but its second half needs `PlanInv`: a plan
that is not archived has no completed row. `BatchesCanStart` rests on `TopIsCompatible`:
however long the board, the greedy choice of `cmd_top_n`, a recursive function of the
tasks, keeps its lanes compatible (induction, see below).

### Iteration

`IterationProofs` proves `DueFollowsTheCounterAlways`, `ViewsAgreeAlways` (with the type
invariant), `SyncIsIdempotentAlways` and the action property
`RemovedOnlyWhenArchivedAlways`, for any tasks, tracks, gates and bounds, from
`IterationAssumption` (no task is called like one of the four files, and no content is
mistaken for a missing or an emptied file).

While a command runs, nothing that relates two files holds of the disk. It does hold of
the disk that the command leads to. The invariant says that there is such a goal: the
writes that are left turn the disk into it, each file being written once (`Leads`), and
it is as a disk should be between commands (`Good`: due only with the counter, views
that agree, after a sync nothing left to sync). A write keeps the goal, a command that
starts sets a new one, and a kill makes the disk as it is the goal and names the files
that are not what they were to be. `Archived` says that the removal of the state is the
last write and that the goal has the state in its archive. `SyncedOn` is stronger than the
property in one respect: the row is `Stable`, so that a sync leaves it alone on any later
day, and the header is only promised for the day it carries (`Dated`).

### Amounts and TaxId

`RecordProofs` has, over `AmountsSpec`, `RoundingStaysBounded` (`[]RoundingIsBounded`)
and `RecordsAddUp` (`[]RecordAddsUp`), for any quantities, prices and IRPF rates from 0
to 100 % and any number of lines. The reachable states matter little (`AmountsInv` is
their type); the work is in the lemmas about the operators. `Sums` says what the
recursive `SumSeq` computes, `SumsAdd` that sums add up place by place, and
`SumsStayClose` that the sum of `n` numbers, each within half a cent of another, is
within `n` halves of the sum of the others. With the rounding of one line
(`MoneyOfThousandths`) and the sum over the rates (`BaseIsSum`: every line is in the
column of one rate) this bounds the base; `Quotas` bounds the IVA of a rate, and is why
an absent rate and the exempt one may be left out of a sum.

Over `TaxIdSpec` there is `MistypedIdsAreRefused` (`[]SingleErrorsAreCaught`), for any
ids whose second to eighth characters are digits (`TaxIdAssumption`; other ids are never
valid). The invariant `TaxIdInv` says that what was typed is the valid id or differs
from it in one place. `MistakeKeepsFormat` excludes that the mistake turns an id of one
format into a valid one of another. For a DNI or NIE, `OneDigit` shows that numbers that
differ in one digit leave different remainders modulo 23, and `DniLetters` that the 23
letters are different; a NIE prefix counts as a digit. For a CIF, `Weights` (the
digit-summed double of a digit determines the digit) makes the totals differ by less
than ten, so the control does (`ControlTellsDigits`).

### Induction

What a recursive function computes for every input needs induction. The library's
induction theorems take an operator as their parameter, which the provers used here
cannot instantiate. `LanesProofs` and `RecordProofs` therefore prove their own, which
take sets and functions: `LeastNumber` (from the library's theorem that `<` is
well-founded on the naturals), `Induction` (a set that has 0, and `i` whenever it has
`i - 1`, has all of `0..n`) and `Recursion` (a function that is defined from its value
at `i - 1` exists, and stays where each step stays). Folds are written as such functions in
`Amounts` and `Lanes`. The two modules share no parent, so the lemmas are in both.

### Only model-checked

The liveness properties `EveryCallReturns`, `CompleteDraftIsIssued`,
`EveryGenerationEnds`, `EveryRequestEnds` and `AllocationEnds`: fairness and `ENABLED`
are outside the proof system. Every other property of the passing runs is proved. The
three refuted claims are not, of course, nor are the disagreements listed above.

## Not modelled

- *I/O and layout*: PDF and email bodies, pages, forms beyond what they let in,
  settings and deployment.
- *XML and signatures*: a failing signer is `Abort`; the bytes of the huella are what
  determines them; the list of required fields reads nothing shared.
- *Certificates* beyond "stored", "missing" and "deleted".
- *Clock times*: `fecha_hora` is taken before the chain lock is waited for, so records
  of a chain may carry decreasing timestamps, and `issue_date` is the UTC date. No
  document promises otherwise; the models have days only.
- *The taxpayer behind a NIF*: the chain is keyed by the string as typed; owners who
  type the same NIF share a chain and a number space. The models have one owner there.
- *Claims*: `--force`, `--no-push` and the read-only `list`, `get`, `dir`,
  `remote-check`. `Lanes` has the lanes of one clone: the leases a `preflight` mirrors from
  other clones (`parallel-lanes.md:10-14` leaves them out of its scope too) are in `Claims`
  only.
- *Roadmap rows*: a row is found by its task. The code looks for the id as a substring of
  the cell (`openup-claims.py:249`), so that T-1 finds T-10's row.
- *Fence*: it passes whatever has no base to compare with, or that git cannot compare
  (`openup-fence.py:197-207`), and `--allow` lets named paths pass. `FencePasses` is what
  it finds when it does compare; nothing in `Lanes` is guarded by it, and
  `FencedLanesAreDisjoint` is about lanes that pass without `--allow`.
- *Iteration*: run log, notes, schema checks, `retro check --threshold`.
- *Traceability*: the schema of the front matter, and a gate that is open or lowered (see
  above).
- *Other scripts* (`docs-index.py`, `openup-doctor.py`, `openup-scribe.py` and the
  like): single passes that print a report or rewrite one page, with nothing to
  interleave with. `poc/` is an experiment nothing imports.

## What could follow

`--force` and `--no-push` in `Claims`; the run log and the schema checks of the
iteration state; the taxpayer behind several spellings of a NIF; clock times next to
days, if documents come to promise an order of `fecha_hora`.
