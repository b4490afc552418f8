------------------------------ MODULE HashChain ------------------------------
(***************************************************************************)
(* generate_alta and generate_anulacion (compliance/services.py): several  *)
(* workers append records to the hash chain of each issuer.                *)
(*                                                                         *)
(* A generation locks the issuer's chain head, reads the record with the   *)
(* highest id as the tail, inserts a record that links to it and updates   *)
(* the head.  The transaction may be the caller's own and end much later   *)
(* (_issue_from_forms, _rectify_from_forms), so insertion and commit are   *)
(* separate steps.  Record ids come from a sequence that is not rolled     *)
(* back and is shared by all issuers.                                      *)
(*                                                                         *)
(* Abstractions: a record's data is its unique key; the huella, SHA-256 of *)
(* the data and the previous huella, is represented by what determines it, *)
(* the sequence of the data of all records up to this one; signing, XML    *)
(* and the legal-field check, which reads nothing shared, are left out.    *)
(***************************************************************************)
EXTENDS Integers, Sequences

CONSTANTS Workers,
          Nifs,         \* issuer_nif, as typed by the user
          Nums,         \* num_serie: prefix and number
          MaxId,        \* bound: no generation starts once these ids are drawn
          Free,         \* the value of an unheld lock
          NoJob         \* what an idle worker is to generate

ASSUME HashChainAssumption ==
    /\ MaxId \in Nat
    /\ Free \notin Workers

\* What the unique constraint on VerifactuRecord identifies a record by.
Contents == [nif : Nifs, num : Nums, kind : {"alta", "anulacion"}]

\* previous_record and previous_huella; Root stands for no previous record.
Links == [id : Nat, huella : Seq(Contents)]
Root == [id |-> 0, huella |-> << >>]

Rows == [id : Nat, content : Contents, huella : Seq(Contents), prev : Links]

VARIABLES
    table,   \* the committed VerifactuRecord rows
    head,    \* IssuerChain.last_huella, committed
    nextId,  \* the id sequence
    lock,    \* the holder of each issuer's chain row
    pc,      \* where each worker is
    job,     \* the record each worker is to generate
    tail,    \* the link each worker read
    id,      \* the id its row was inserted with
    stale,   \* another transaction committed after this worker's read (SQLite)
    rowLocks \* TRUE on PostgreSQL, FALSE on the SQLite fallback

vars == <<table, head, nextId, lock, pc, job, tail, id, stale, rowLocks>>

----------------------------------------------------------------------------
Of(n) == {r \in table : r.content.nif = n}

IsTail(n, r) == r \in Of(n) /\ \A q \in Of(n) : q.id <= r.id

ChainTail(n) == IF Of(n) = {} THEN Root
           ELSE LET r == CHOOSE r \in Of(n) : IsTail(n, r)
                IN  [id |-> r.id, huella |-> r.huella]

\* Mistake to detect: only altas are unique.
UniqueAltas(c) == c.kind = "alta" => \A r \in table : r.content # c

Unique(c) == \A r \in table : r.content # c

\* generate_anulacion is given a committed alta record.
Original(c) == [nif |-> c.nif, num |-> c.num, kind |-> "alta"]

Row(w) == [id |-> id[w], content |-> job[w],
           huella |-> Append(tail[w].huella, job[w]), prev |-> tail[w]]

\* Mistake to detect: a failed generation keeps the lock.
UnlockNever(w) == UNCHANGED lock

Unlock(w) == lock' = [n \in Nifs |-> IF lock[n] = w THEN Free ELSE lock[n]]

\* The transaction is over and the call returns or raises.
End(w) ==
    /\ Unlock(w)
    /\ pc' = [pc EXCEPT ![w] = "idle"]
    /\ job' = [job EXCEPT ![w] = NoJob]
    /\ tail' = [tail EXCEPT ![w] = Root]
    /\ id' = [id EXCEPT ![w] = 0]

Init ==
    /\ table = {}
    /\ head = [n \in Nifs |-> << >>]
    /\ nextId = 1
    /\ lock = [n \in Nifs |-> Free]
    /\ pc = [w \in Workers |-> "idle"]
    /\ job = [w \in Workers |-> NoJob]
    /\ tail = [w \in Workers |-> Root]
    /\ id = [w \in Workers |-> 0]
    /\ stale = [w \in Workers |-> FALSE]
    /\ rowLocks \in BOOLEAN

Generate(w, c) ==
    /\ pc[w] = "idle"
    /\ nextId <= MaxId
    /\ c.kind = "anulacion" => \E r \in table : r.content = Original(c)
    /\ job' = [job EXCEPT ![w] = c]
    /\ pc' = [pc EXCEPT ![w] = "called"]
    /\ UNCHANGED <<table, head, nextId, lock, tail, id, stale>>

\* Mistake to detect: the chain row is read without select_for_update.
CanLockAlways(w) == TRUE

CanLock(w) == rowLocks => lock[job[w].nif] = Free

\* _lock_chain.  Creating the head row, when it is missing, makes a second
\* creator wait in the same way.
LockChain(w) ==
    /\ pc[w] = "called"
    /\ CanLock(w)
    /\ lock' = IF rowLocks THEN [lock EXCEPT ![job[w].nif] = w] ELSE lock
    /\ tail' = [tail EXCEPT ![w] = ChainTail(job[w].nif)]
    /\ stale' = [stale EXCEPT ![w] = FALSE]
    /\ pc' = [pc EXCEPT ![w] = "locked"]
    /\ UNCHANGED <<table, head, nextId, job, id>>

\* SQLite refuses a write next to another writer or on an old snapshot.
Busy(w) == ~rowLocks /\ (stale[w] \/ \E v \in Workers \ {w} : pc[v] = "written")

\* The insertion and the head's update, not yet committed.
Insert(w) ==
    /\ pc[w] = "locked"
    /\ ~Busy(w)
    /\ Unique(job[w])
    /\ id' = [id EXCEPT ![w] = nextId]
    /\ nextId' = nextId + 1
    /\ pc' = [pc EXCEPT ![w] = "written"]
    /\ UNCHANGED <<table, head, lock, job, tail, stale>>

\* The insertion fails: IntegrityError (an id is used up) or OperationalError.
\* Neither is caught here.
InsertFails(w) ==
    /\ pc[w] = "locked"
    /\ \/ Busy(w) /\ UNCHANGED nextId
       \/ ~Busy(w) /\ ~Unique(job[w]) /\ nextId' = nextId + 1
    /\ End(w)
    /\ stale' = [stale EXCEPT ![w] = FALSE]
    /\ UNCHANGED <<table, head>>

\* Mistake to detect: the head is not saved.
HeadForgotten(w) == head

HeadSaved(w) == [head EXCEPT ![job[w].nif] = Row(w).huella]

Commit(w) ==
    /\ pc[w] = "written"
    /\ table' = table \cup {Row(w)}
    /\ head' = HeadSaved(w)
    /\ stale' = [v \in Workers |-> stale[v] \/ (~rowLocks /\ v # w /\ pc[v] = "locked")]
    /\ End(w)
    /\ UNCHANGED nextId

\* The signer, the caller's transaction or the worker fails.
Abort(w) ==
    /\ pc[w] \in {"locked", "written"}
    /\ End(w)
    /\ stale' = [stale EXCEPT ![w] = FALSE]
    /\ UNCHANGED <<table, head, nextId>>

Step(w) == LockChain(w) \/ Insert(w) \/ InsertFails(w) \/ Commit(w)

Next ==
    /\ \E w \in Workers : (\E c \in Contents : Generate(w, c)) \/ Step(w) \/ Abort(w)
    /\ UNCHANGED rowLocks

Spec == Init /\ [][Next]_vars

\* Requests run to their end; the queue for the chain row serves every waiter.
Fairness == \A w \in Workers : /\ WF_vars(Step(w) /\ UNCHANGED rowLocks)
                               /\ SF_vars(LockChain(w) /\ UNCHANGED rowLocks)

FairSpec == Spec /\ Fairness

----------------------------------------------------------------------------
(* Properties *)

\* The state keeps its type, and a chain row is locked only by a worker that is
\* generating for its issuer.
TypeOK ==
    /\ table \subseteq Rows
    /\ head \in [Nifs -> Seq(Contents)]
    /\ nextId \in Nat \ {0}
    /\ lock \in [Nifs -> Workers \cup {Free}]
    /\ \A n \in Nifs, w \in Workers :
          lock[n] = w => pc[w] \in {"locked", "written"} /\ job[w].nif = n
    /\ pc \in [Workers -> {"idle", "called", "locked", "written"}]
    /\ job \in [Workers -> Contents \cup {NoJob}]
    /\ \A w \in Workers : pc[w] # "idle" => job[w] \in Contents
    /\ tail \in [Workers -> Links]
    /\ id \in [Workers -> Nat]
    /\ stale \in [Workers -> BOOLEAN]
    /\ rowLocks \in BOOLEAN

\* AD-6, Q-1 (IssuerChain): an issuer's chain has one first record and does
\* not fork: no two records share a predecessor, and every predecessor is an
\* earlier committed record of the same issuer, with the huella stored for it.
ChainIsLinear ==
    /\ \A r, q \in table : r.content.nif = q.content.nif /\ r.prev.id = q.prev.id => r = q
    /\ \A r \in table :
          \/ r.prev = Root
          \/ \E q \in table : /\ q.content.nif = r.content.nif /\ q.id < r.id
                            /\ q.id = r.prev.id /\ q.huella = r.prev.huella

\* The state keeps its type, and the denormalised last_huella mirrors the tail,
\* across rollbacks and ids that are used up.
HeadMirrorsTail == TypeOK /\ \A n \in Nifs : head[n] = ChainTail(n).huella

\* Each issuer's chain, as its tail's huella certifies it.
ContentsBook == [c \in Contents |-> c.nif]

Ledger == INSTANCE Book WITH
    Entries <- Contents, BookIds <- Nifs, BookOf <- ContentsBook,
    book <- [n \in Nifs |-> ChainTail(n).huella]

\* R5: each step appends one record, of which there is no other, to the chain
\* of its issuer, or leaves all chains as they are.
AppendsToChain == Ledger!Spec

\* No generation hangs, and no chain row stays locked.
EveryGenerationEnds == \A w \in Workers : (pc[w] # "idle") ~> (pc[w] = "idle")
=============================================================================
