---------------------------- MODULE RecordProofs -----------------------------
(***************************************************************************)
(* Proofs about what an invoice says and what becomes of it: its record in *)
(* the chain of its issuer (HashChain), the document that is sent to the   *)
(* client (Delivery), the amounts of its lines (Amounts) and the tax id of *)
(* the recipient (TaxId).  The four share nothing.                         *)
(*                                                                         *)
(* HashChain, for any number of workers, issuers and numbers, on both      *)
(* kinds of database.                                                      *)
(*                                                                         *)
(* ChainIsLinear is not inductive.  It speaks of predecessors, but not of  *)
(* which record a new one will link to: that the link is to the record     *)
(* immediately before it (ChainInv) follows from what each worker knows    *)
(* from the moment it locked the chain until it commits (Fresh), and the   *)
(* row stays the last one, and without a double, because no other row of   *)
(* its issuer can be committed in between (Committable): on PostgreSQL by  *)
(* the lock on the issuer's chain, on SQLite by the single writer and the  *)
(* refusal of out-of-date snapshots.                                       *)
(***************************************************************************)
EXTENDS HashChain, Delivery, Amounts, TaxId, SequenceTheorems, WellFoundedInduction, TLAPS

InTx(w) == pc[w] \in {"locked", "written"}

Link(r) == [id |-> r.id, huella |-> r.huella]

Before(r) == {q \in Of(r.content.nif) : q.id < r.id}

ChainInv ==
    /\ \A r \in table : 0 < r.id /\ r.id < nextId
    /\ \A r, q \in table : r.content.nif = q.content.nif /\ r.id = q.id => r = q
    /\ \A n \in Nifs : Of(n) # {} => \E r \in Of(n) : IsTail(n, r)
    /\ \A r \in table :
          \/ Before(r) = {} /\ r.prev = Root
          \/ \E q \in Before(r) : r.prev = Link(q) /\ \A p \in Before(r) : p.id <= q.id
    /\ \A r \in table : \A k \in 1..Len(r.huella) :
          \E q \in Of(r.content.nif) : q.content = r.huella[k]

HeadInv == \A n \in Nifs : head[n] = ChainTail(n).huella

\* The link w read is still the tail, unless its snapshot is out of date.
Fresh(w) == InTx(w) =>
    /\ rowLocks => lock[job[w].nif] = w /\ ~stale[w]
    /\ ~stale[w] => tail[w] = ChainTail(job[w].nif)

\* The row w inserted can be committed.
Committable(w) == pc[w] = "written" =>
    /\ ~stale[w]
    /\ Unique(job[w])
    /\ 0 < id[w] /\ id[w] < nextId
    /\ \A r \in Of(job[w].nif) : r.id < id[w]

OneWriter == ~rowLocks =>
    \A v, w \in Workers : pc[v] = "written" /\ pc[w] = "written" => v = w

TxInv == (\A w \in Workers : Fresh(w) /\ Committable(w)) /\ OneWriter

IInv == TypeOK /\ ChainInv /\ HeadInv /\ TxInv

----------------------------------------------------------------------------
(* The tail of a chain *)

LEMMA RowFields ==
    ASSUME NEW r \in Rows
    PROVE  /\ r.id \in Nat /\ r.content \in Contents /\ r.huella \in Seq(Contents)
           /\ r.prev \in Links /\ r.content.nif \in Nifs
           /\ Link(r) \in Links
BY DEF Rows, Contents, Links, Link

LEMMA OfType ==
    ASSUME TypeOK, NEW n, NEW r \in Of(n)
    PROVE  r \in Rows /\ r \in table /\ r.content.nif = n
BY DEF TypeOK, Of

\* A chain has one tail, and ChainTail returns it.
LEMMA TailIsUnique ==
    ASSUME TypeOK, ChainInv, NEW n \in Nifs, NEW r, IsTail(n, r)
    PROVE  ChainTail(n) = Link(r)
<1>1. r \in Of(n) /\ r \in Rows /\ r \in table /\ r.content.nif = n
  BY OfType DEF IsTail
<1>2. ASSUME NEW q \in Of(n), IsTail(n, q) PROVE q = r
  <2>1. q \in Rows /\ q \in table /\ q.content.nif = n
    BY OfType
  <2>2. q.id <= r.id /\ r.id <= q.id /\ q.id \in Nat /\ r.id \in Nat
    BY <1>1, <1>2, <2>1, RowFields DEF IsTail
  <2>3. q.id = r.id
    BY <2>2
  <2>4. QED
    BY <1>1, <2>1, <2>3 DEF ChainInv
<1>3. (CHOOSE q \in Of(n) : IsTail(n, q)) = r
  BY <1>1, <1>2
<1>4. QED
  BY <1>1, <1>3 DEF ChainTail, Link

LEMMA TailExists ==
    ASSUME TypeOK, ChainInv, NEW n \in Nifs, Of(n) # {}
    PROVE  \E r \in Of(n) : IsTail(n, r) /\ ChainTail(n) = Link(r)
<1>1. PICK r \in Of(n) : IsTail(n, r)
  BY DEF ChainInv
<1>2. QED
  BY <1>1, TailIsUnique

LEMMA ChainTailType ==
    ASSUME TypeOK, ChainInv, NEW n \in Nifs
    PROVE  ChainTail(n) \in Links
<1>1. CASE Of(n) = {}
  BY <1>1 DEF ChainTail, Root, Links
<1>2. CASE Of(n) # {}
  BY <1>2, TailExists, OfType, RowFields
<1>3. QED
  BY <1>1, <1>2

LEMMA RowType ==
    ASSUME TypeOK, NEW w \in Workers, pc[w] # "idle"
    PROVE  /\ Row(w) \in Rows
           /\ Row(w).id = id[w] /\ Row(w).content = job[w] /\ Row(w).prev = tail[w]
           /\ Row(w).huella = Append(tail[w].huella, job[w])
           /\ job[w] \in Contents /\ job[w].nif \in Nifs
           /\ tail[w].huella \in Seq(Contents)
<1>1. job[w] \in Contents /\ id[w] \in Nat /\ tail[w] \in Links
  BY DEF TypeOK
<1>2. tail[w].huella \in Seq(Contents) /\ job[w].nif \in Nifs
  BY <1>1 DEF Links, Contents
<1>3. Append(tail[w].huella, job[w]) \in Seq(Contents)
  BY <1>1, <1>2, AppendProperties
<1>4. QED
  BY <1>1, <1>2, <1>3 DEF Row, Rows

----------------------------------------------------------------------------
(* Type correctness *)

LEMMA HolderGenerates ==
    ASSUME TypeOK, NEW n \in Nifs, NEW w \in Workers, lock[n] = w
    PROVE  pc[w] \in {"locked", "written"} /\ job[w].nif = n
BY DEF TypeOK

LEMMA EndType ==
    ASSUME TypeOK, NEW w \in Workers, End(w)
    PROVE  /\ lock' \in [Nifs -> Workers \cup {Free}]
           /\ pc' \in [Workers -> {"idle", "called", "locked", "written"}]
           /\ job' \in [Workers -> Contents \cup {NoJob}]
           /\ tail' \in [Workers -> Links]
           /\ id' \in [Workers -> Nat]
           /\ \A v \in Workers \ {w} : /\ pc'[v] = pc[v] /\ job'[v] = job[v]
                                       /\ tail'[v] = tail[v] /\ id'[v] = id[v]
           /\ pc'[w] = "idle"
           /\ \A n \in Nifs : lock'[n] # w
           /\ \A n \in Nifs, v \in Workers \ {w} : lock'[n] = v <=> lock[n] = v
<1>1. Root \in Links
  BY DEF Root, Links
<1>2. QED
  BY <1>1, HashChainAssumption DEF TypeOK, End, Unlock

\* The part of TypeOK that relates lock, pc and job.
LEMMA EndKeepsType ==
    ASSUME TypeOK, NEW w \in Workers, End(w), rowLocks' = rowLocks,
           table' \subseteq Rows, head' \in [Nifs -> Seq(Contents)],
           nextId' \in Nat \ {0}, stale' \in [Workers -> BOOLEAN]
    PROVE  TypeOK'
<1>1. \A n \in Nifs, v \in Workers :
          lock'[n] = v => pc'[v] \in {"locked", "written"} /\ job'[v].nif = n
  BY EndType DEF TypeOK
<1>2. \A v \in Workers : pc'[v] # "idle" => job'[v] \in Contents
  BY EndType DEF TypeOK
<1>3. rowLocks' \in BOOLEAN
  BY Zenon DEF TypeOK
<1>4. QED
  BY <1>1, <1>2, <1>3, EndType DEF TypeOK

LEMMA TypeInit == Init => TypeOK
<1> SUFFICES ASSUME Init PROVE TypeOK
  OBVIOUS
<1>1. Root \in Links /\ << >> \in Seq(Contents)
  BY DEF Root, Links
<1>2. stale \in [Workers -> BOOLEAN] /\ rowLocks \in BOOLEAN
  BY Zenon DEF Init
<1>3. QED
  BY <1>1, <1>2, HashChainAssumption DEF Init, TypeOK

LEMMA TypeStep == TypeOK /\ ChainInv /\ [Next]_vars => TypeOK'
<1> SUFFICES ASSUME TypeOK, ChainInv, [Next]_vars PROVE TypeOK'
  OBVIOUS
<1> USE HashChainAssumption
<1>0. CASE UNCHANGED vars
  BY <1>0 DEF TypeOK, vars
<1>1. ASSUME NEW w \in Workers, NEW c \in Contents, Generate(w, c), rowLocks' = rowLocks
      PROVE  TypeOK'
  <2>1. UNCHANGED <<table, head, nextId, lock, tail, id, stale, rowLocks>>
    BY <1>1 DEF Generate
  <2>2. /\ \A v \in Workers \ {w} : pc'[v] = pc[v] /\ job'[v] = job[v]
        /\ pc[w] = "idle" /\ pc'[w] = "called" /\ job'[w] = c
        /\ pc' \in [Workers -> {"idle", "called", "locked", "written"}]
        /\ job' \in [Workers -> Contents \cup {NoJob}]
    BY <1>1 DEF TypeOK, Generate
  <2>3. \A n \in Nifs, v \in Workers :
            lock'[n] = v => pc'[v] \in {"locked", "written"} /\ job'[v].nif = n
    <3>1. ASSUME NEW n \in Nifs, NEW v \in Workers, lock[n] = v
          PROVE  pc'[v] \in {"locked", "written"} /\ job'[v].nif = n
      BY <2>2, <3>1, HolderGenerates
    <3>2. QED
      BY <2>1, <3>1
  <2>4. \A v \in Workers : pc'[v] # "idle" => job'[v] \in Contents
    BY <2>2 DEF TypeOK
  <2>5. QED
    BY <2>1, <2>2, <2>3, <2>4 DEF TypeOK
<1>2. ASSUME NEW w \in Workers, LockChain(w), rowLocks' = rowLocks
      PROVE  TypeOK'
  <2>1. job[w] \in Contents /\ job[w].nif \in Nifs
    BY <1>2, RowType DEF LockChain
  <2>2. UNCHANGED <<table, head, nextId, job, id, rowLocks>>
    BY <1>2 DEF LockChain
  <2>3. /\ lock' \in [Nifs -> Workers \cup {Free}]
        /\ \A n \in Nifs : lock'[n] # lock[n] => n = job[w].nif /\ lock'[n] = w
    BY <1>2, <2>1 DEF TypeOK, LockChain
  <2>4. /\ pc' \in [Workers -> {"idle", "called", "locked", "written"}]
        /\ pc'[w] = "locked" /\ \A v \in Workers \ {w} : pc'[v] = pc[v]
        /\ pc[w] = "called"
    BY <1>2 DEF TypeOK, LockChain
  <2>5. \A n \in Nifs, v \in Workers :
            lock'[n] = v => pc'[v] \in {"locked", "written"} /\ job'[v].nif = n
    <3>1. ASSUME NEW n \in Nifs, NEW v \in Workers, lock[n] = v
          PROVE  pc'[v] \in {"locked", "written"} /\ job'[v].nif = n
      BY <2>2, <2>4, <3>1, HolderGenerates
    <3>2. QED
      BY <2>2, <2>3, <2>4, <3>1
  <2>6. ChainTail(job[w].nif) \in Links
    BY <2>1, ChainTailType
  <2>7. tail' \in [Workers -> Links]
    BY <1>2, <2>6 DEF TypeOK, LockChain
  <2>8. stale' \in [Workers -> BOOLEAN] /\ rowLocks' \in BOOLEAN
    BY <1>2, Zenon DEF TypeOK, LockChain
  <2>9. \A v \in Workers : pc'[v] # "idle" => job'[v] \in Contents
    BY <2>1, <2>2, <2>4 DEF TypeOK
  <2>10. QED
    BY <2>2, <2>3, <2>4, <2>5, <2>7, <2>8, <2>9 DEF TypeOK
<1>3. ASSUME NEW w \in Workers, Insert(w), rowLocks' = rowLocks
      PROVE  TypeOK'
  <2>1. UNCHANGED <<table, head, lock, job, tail, stale, rowLocks>>
    BY <1>3 DEF Insert
  <2>2. /\ id' \in [Workers -> Nat] /\ nextId' \in Nat \ {0}
        /\ pc' \in [Workers -> {"idle", "called", "locked", "written"}]
        /\ \A v \in Workers : pc'[v] # "idle" => job'[v] \in Contents
    BY <1>3, <2>1 DEF TypeOK, Insert
  <2>3. \A n \in Nifs, v \in Workers :
            lock'[n] = v => pc'[v] \in {"locked", "written"} /\ job'[v].nif = n
    BY <1>3, <2>1 DEF TypeOK, Insert
  <2>4. QED
    BY <2>1, <2>2, <2>3 DEF TypeOK
<1>4. ASSUME NEW w \in Workers, InsertFails(w), rowLocks' = rowLocks
      PROVE  TypeOK'
  <2>1. stale' \in [Workers -> BOOLEAN]
    BY <1>4, Zenon DEF TypeOK, InsertFails
  <2>2. nextId' \in Nat \ {0}
    BY <1>4 DEF TypeOK, InsertFails
  <2>3. End(w) /\ UNCHANGED <<table, head>>
    BY <1>4 DEF InsertFails
  <2>4. table' \subseteq Rows /\ head' \in [Nifs -> Seq(Contents)]
    BY <2>3 DEF TypeOK
  <2>5. QED
    BY <1>4, <2>1, <2>2, <2>3, <2>4, EndKeepsType
<1>5. ASSUME NEW w \in Workers, Commit(w), rowLocks' = rowLocks
      PROVE  TypeOK'
  <2>1. stale' \in [Workers -> BOOLEAN]
    BY <1>5, Zenon DEF TypeOK, Commit
  <2>2. Row(w) \in Rows /\ Row(w).huella \in Seq(Contents)
    BY <1>5, RowType, RowFields DEF Commit
  <2>3. head' \in [Nifs -> Seq(Contents)] /\ table' \subseteq Rows
    BY <1>5, <2>2 DEF TypeOK, Commit, HeadSaved
  <2>4. QED
    BY <1>5, <2>1, <2>3, EndKeepsType DEF TypeOK, Commit
<1>6. ASSUME NEW w \in Workers, Abort(w), rowLocks' = rowLocks
      PROVE  TypeOK'
  <2>1. stale' \in [Workers -> BOOLEAN]
    BY <1>6, Zenon DEF TypeOK, Abort
  <2>2. QED
    BY <1>6, <2>1, EndKeepsType DEF TypeOK, Abort
<1>7. QED
  BY <1>0, <1>1, <1>2, <1>3, <1>4, <1>5, <1>6 DEF Next, Step

----------------------------------------------------------------------------
(* The inductive invariant *)

LEMMA IInvInit == Init => IInv
<1> SUFFICES ASSUME Init PROVE IInv
  OBVIOUS
<1>1. TypeOK
  BY TypeInit
<1>2. table = {} /\ \A n \in Nifs : Of(n) = {} /\ head[n] = << >>
  BY DEF Init, Of
<1>3. ChainInv
  BY <1>2 DEF ChainInv
<1>4. HeadInv
  BY <1>2 DEF HeadInv, ChainTail, Root
<1>5. TxInv
  BY DEF Init, TxInv, Fresh, Committable, OneWriter, InTx
<1>6. QED
  BY <1>1, <1>3, <1>4, <1>5 DEF IInv

\* A step that commits nothing leaves the chains as they are.
LEMMA ChainsUnchanged ==
    ASSUME IInv, UNCHANGED <<table, head>>, nextId' \in Nat, nextId' >= nextId
    PROVE  ChainInv' /\ HeadInv' /\ \A n : Of(n)' = Of(n) /\ ChainTail(n)' = ChainTail(n)
<1>1. \A n : Of(n)' = Of(n)
  BY DEF Of
<1>2. \A n : ChainTail(n)' = ChainTail(n)
  BY <1>1 DEF ChainTail, IsTail
<1>3. \A r : Before(r)' = Before(r)
  BY <1>1 DEF Before
<1>4. HeadInv'
  BY <1>2 DEF HeadInv, IInv
<1>5. \A r \in table : 0 < r.id /\ r.id < nextId'
  BY RowFields DEF IInv, TypeOK, ChainInv
<1>6. ChainInv'
  BY <1>1, <1>3, <1>5 DEF ChainInv, IsTail, IInv
<1>7. QED
  BY <1>1, <1>2, <1>4, <1>6

\* What a worker knows stays true while another one neither commits nor takes
\* its lock.
LEMMA BystanderKeeps ==
    ASSUME IInv, NEW v \in Workers, UNCHANGED <<table, head, rowLocks>>,
           nextId' \in Nat, nextId' >= nextId,
           pc'[v] = pc[v], job'[v] = job[v], tail'[v] = tail[v],
           id'[v] = id[v], stale'[v] = stale[v],
           \A n \in Nifs : lock[n] = v => lock'[n] = v
    PROVE  Fresh(v)' /\ Committable(v)'
<1>1. \A n : Of(n)' = Of(n) /\ ChainTail(n)' = ChainTail(n)
  BY ChainsUnchanged
<1>2. pc[v] # "idle" => job[v].nif \in Nifs
  BY RowType DEF IInv
<1>3. Fresh(v)'
  BY <1>1, <1>2 DEF IInv, TxInv, Fresh, InTx
<1>4. ASSUME pc'[v] = "written" PROVE Committable(v)'
  <2>1. /\ ~stale[v] /\ Unique(job[v]) /\ 0 < id[v] /\ id[v] < nextId
        /\ \A r \in Of(job[v].nif) : r.id < id[v]
    BY <1>4 DEF IInv, TxInv, Committable
  <2>2. Unique(job[v])'
    BY <2>1 DEF Unique
  <2>3. id[v] \in Nat /\ nextId \in Nat
    BY DEF IInv, TypeOK
  <2>4. QED
    BY <1>1, <2>1, <2>2, <2>3 DEF Committable
<1>5. QED
  BY <1>3, <1>4 DEF Committable

\* A worker that is, and stays, out of a transaction or leaves it without a
\* commit.
LEMMA OutOfTx ==
    ASSUME IInv, TypeOK', NEW w \in Workers,
           UNCHANGED <<table, head, rowLocks>>, nextId' >= nextId,
           pc'[w] \notin {"locked", "written"},
           \A v \in Workers \ {w} : /\ pc'[v] = pc[v] /\ job'[v] = job[v]
                                    /\ tail'[v] = tail[v] /\ id'[v] = id[v]
                                    /\ stale'[v] = stale[v],
           \A n \in Nifs, v \in Workers \ {w} : lock[n] = v => lock'[n] = v
    PROVE  IInv'
<1>1. nextId' \in Nat
  BY DEF TypeOK
<1>2. ChainInv' /\ HeadInv'
  BY <1>1, ChainsUnchanged
<1>3. ASSUME NEW v \in Workers, v # w
      PROVE  Fresh(v)' /\ Committable(v)'
  BY <1>1, <1>3, BystanderKeeps
<1>4. Fresh(w)' /\ Committable(w)'
  BY DEF Fresh, Committable, InTx
<1>5. OneWriter'
  <2>1. \A v \in Workers : pc'[v] = "written" => pc[v] = "written"
    OBVIOUS
  <2>2. QED
    BY <2>1 DEF IInv, TxInv, OneWriter
<1>6. TypeOK'
  OBVIOUS
<1>7. QED
  BY <1>2, <1>3, <1>4, <1>5, <1>6 DEF IInv, TxInv

LEMMA GenerateStep ==
    ASSUME IInv, TypeOK', NEW w \in Workers, NEW c \in Contents, Generate(w, c),
           rowLocks' = rowLocks
    PROVE  IInv'
<1>1. /\ pc'[w] \notin {"locked", "written"}
      /\ \A v \in Workers \ {w} : pc'[v] = pc[v] /\ job'[v] = job[v]
  BY DEF Generate, IInv, TypeOK
<1>2. UNCHANGED <<table, head, nextId, lock, tail, id, stale>> /\ nextId \in Nat
  BY DEF Generate, IInv, TypeOK
<1>3. nextId' >= nextId
  BY <1>2
<1>4. QED
  BY <1>1, <1>2, <1>3, OutOfTx

LEMMA EndStep ==
    ASSUME IInv, TypeOK', NEW w \in Workers, End(w), UNCHANGED <<table, head, rowLocks>>,
           nextId' >= nextId, stale' = [stale EXCEPT ![w] = FALSE]
    PROVE  IInv'
<1>1. \A v \in Workers \ {w} : stale'[v] = stale[v]
  <2>1. stale \in [Workers -> BOOLEAN]
    BY DEF IInv, TypeOK
  <2>2. QED
    BY <2>1, Zenon
<1>2. TypeOK
  BY DEF IInv
<1>3. /\ pc'[w] \notin {"locked", "written"}
      /\ \A v \in Workers \ {w} : /\ pc'[v] = pc[v] /\ job'[v] = job[v]
                                  /\ tail'[v] = tail[v] /\ id'[v] = id[v]
      /\ \A n \in Nifs, v \in Workers \ {w} : lock[n] = v => lock'[n] = v
  BY <1>2, EndType
<1>4. QED
  BY <1>1, <1>3, OutOfTx

LEMMA LockChainStep ==
    ASSUME IInv, TypeOK', NEW w \in Workers, LockChain(w), rowLocks' = rowLocks
    PROVE  IInv'
<1>0. UNCHANGED <<table, head, nextId, job, id>> /\ nextId \in Nat
  BY DEF LockChain, IInv, TypeOK
<1>1. /\ UNCHANGED <<table, head, nextId, job, id>>
      /\ nextId' \in Nat /\ nextId' >= nextId
  BY <1>0
<1>2. /\ pc'[w] = "locked" /\ tail'[w] = ChainTail(job[w].nif)
      /\ \A v \in Workers \ {w} : pc'[v] = pc[v] /\ tail'[v] = tail[v]
  BY DEF LockChain, IInv, TypeOK
<1>3. ~stale'[w] /\ \A v \in Workers \ {w} : stale'[v] = stale[v]
  <2>1. stale' = [stale EXCEPT ![w] = FALSE] /\ stale \in [Workers -> BOOLEAN]
    BY DEF LockChain, IInv, TypeOK
  <2>2. QED
    BY <2>1, Zenon
<1>4. job[w].nif \in Nifs
  BY RowType DEF IInv, LockChain
<1>5. /\ rowLocks => lock'[job[w].nif] = w
      /\ \A n \in Nifs, v \in Workers \ {w} : lock[n] = v => lock'[n] = v
  BY <1>4, HashChainAssumption DEF LockChain, CanLock, IInv, TypeOK
<1>6. ChainInv' /\ HeadInv' /\ \A n : ChainTail(n)' = ChainTail(n)
  BY <1>1, <1>2, ChainsUnchanged
<1>7. TypeOK' /\ ~InTx(w)
  BY DEF LockChain, InTx
<1>8. ASSUME NEW v \in Workers, v # w
      PROVE  Fresh(v)' /\ Committable(v)'
  BY <1>1, <1>2, <1>3, <1>5, <1>8, BystanderKeeps
<1>9. Fresh(w)' /\ Committable(w)'
  BY <1>1, <1>2, <1>3, <1>5, <1>6 DEF Fresh, Committable
<1>10. OneWriter'
  <2>1. \A v \in Workers : pc'[v] = "written" => pc[v] = "written"
    BY <1>2
  <2>2. QED
    BY <2>1 DEF IInv, TxInv, OneWriter
<1>11. QED
  BY <1>6, <1>7, <1>8, <1>9, <1>10 DEF IInv, TxInv

LEMMA InsertStep ==
    ASSUME IInv, TypeOK', NEW w \in Workers, Insert(w), rowLocks' = rowLocks
    PROVE  IInv'
<1>1. /\ UNCHANGED <<table, head, lock, job, tail, stale>>
      /\ nextId \in Nat \ {0} /\ nextId' = nextId + 1
      /\ pc[w] = "locked" /\ pc'[w] = "written" /\ id'[w] = nextId
      /\ \A v \in Workers \ {w} : pc'[v] = pc[v] /\ id'[v] = id[v]
      /\ Unique(job[w]) /\ ~Busy(w)
  BY DEF Insert, IInv, TypeOK
<1>2. nextId' \in Nat /\ nextId' >= nextId
  BY <1>1
<1>3. ChainInv' /\ HeadInv' /\ \A n : Of(n)' = Of(n) /\ ChainTail(n)' = ChainTail(n)
  BY <1>1, <1>2, ChainsUnchanged
<1>4. \A v \in Workers : InTx(v)' => InTx(v)
  BY <1>1 DEF InTx
<1>5. ~stale[w]
  BY <1>1, Zenon DEF IInv, TxInv, Fresh, InTx, Busy
<1>6. \A r \in Of(job[w].nif) : r.id < nextId
  BY OfType DEF IInv, ChainInv
<1>7. ASSUME NEW v \in Workers, v # w PROVE Fresh(v)' /\ Committable(v)'
  BY <1>1, <1>2, <1>7, BystanderKeeps
<1>8. Fresh(w)'
  BY <1>1, <1>3 DEF IInv, TxInv, Fresh, InTx
<1>9. Unique(job[w])'
  BY <1>1 DEF Unique
<1>10. Committable(w)'
  BY <1>1, <1>3, <1>5, <1>6, <1>9 DEF Committable
<1>11. OneWriter'
  BY <1>1 DEF OneWriter, Busy
<1>12. QED
  BY <1>3, <1>7, <1>8, <1>10, <1>11 DEF IInv, TxInv

\* A committed record is the new tail of its chain; the other chains stay.
LEMMA CommitExtends ==
    ASSUME IInv, NEW w \in Workers, Commit(w),
           NEW n, n = job[w].nif, NEW r, r = Row(w)
    PROVE  /\ n \in Nifs /\ r \in Rows /\ r.content = job[w] /\ r.id = id[w]
           /\ tail[w] = ChainTail(n) /\ r.prev = ChainTail(n)
           /\ r.huella = Append(ChainTail(n).huella, job[w])
           /\ Unique(job[w])
           /\ \A q \in Of(n) : q.id < r.id
           /\ Of(n)' = Of(n) \cup {r}
           /\ \A m \in Nifs \ {n} : Of(m)' = Of(m)
           /\ ChainTail(n)' = Link(r)
           /\ \A m \in Nifs \ {n} : ChainTail(m)' = ChainTail(m)
<1>1. pc[w] = "written" /\ InTx(w)
  BY DEF Commit, InTx
<1>2. /\ n \in Nifs /\ r \in Rows /\ r.content = job[w] /\ r.id = id[w]
      /\ r.prev = tail[w] /\ r.huella = Append(tail[w].huella, job[w])
  BY <1>1, RowType DEF IInv
<1>3. Unique(job[w]) /\ ~stale[w] /\ \A q \in Of(n) : q.id < r.id
  BY <1>1, <1>2 DEF IInv, TxInv, Committable
<1>4. tail[w] = ChainTail(n)
  BY <1>1, <1>3 DEF IInv, TxInv, Fresh
<1>5. table' = table \cup {r}
  BY DEF Commit
<1>6. Of(n)' = Of(n) \cup {r}
  BY <1>2, <1>5 DEF Of
<1>7. \A m \in Nifs \ {n} : Of(m)' = Of(m)
  BY <1>2, <1>5 DEF Of
<1>8. \A m \in Nifs \ {n} : ChainTail(m)' = ChainTail(m)
  BY <1>7 DEF ChainTail, IsTail
<1>9. ChainTail(n)' = Link(r)
  <2>1. \A q \in Of(n) : q.id \in Nat /\ q.id < r.id /\ ~(r.id <= q.id)
    BY <1>2, <1>3, OfType, RowFields DEF IInv
  <2>2. r.id \in Nat
    BY <1>2, RowFields
  <2>3. \A q \in Of(n)' : (\A p \in Of(n)' : p.id <= q.id) <=> q = r
    BY <1>6, <2>1, <2>2
  <2>4. (CHOOSE q \in Of(n)' : IsTail(n, q)') = r
    BY <1>6, <2>3 DEF IsTail
  <2>5. QED
    BY <1>6, <2>4 DEF ChainTail, Link
<1>10. QED
  BY <1>2, <1>3, <1>4, <1>6, <1>7, <1>8, <1>9

LEMMA CommitStep ==
    ASSUME IInv, TypeOK', NEW w \in Workers, Commit(w), rowLocks' = rowLocks,
           NEW n, n = job[w].nif, NEW r, r = Row(w)
    PROVE  IInv'
<1>1. /\ n \in Nifs /\ r \in Rows /\ r.content = job[w] /\ r.id = id[w]
      /\ r.prev = ChainTail(n) /\ r.huella = Append(ChainTail(n).huella, job[w])
      /\ \A q \in Of(n) : q.id < r.id
      /\ Of(n)' = Of(n) \cup {r}
      /\ \A m \in Nifs \ {n} : Of(m)' = Of(m)
      /\ ChainTail(n)' = Link(r)
      /\ \A m \in Nifs \ {n} : ChainTail(m)' = ChainTail(m)
  BY CommitExtends
<1>2. table' = table \cup {r} /\ nextId' = nextId
  BY DEF Commit
<1>3. pc[w] = "written" /\ InTx(w) /\ 0 < r.id /\ r.id < nextId
  BY <1>1 DEF Commit, InTx, IInv, TxInv, Committable
<1>4. \A q \in table : q \in Rows /\ q.content.nif \in Nifs /\ q \in Of(q.content.nif)
  BY RowFields DEF IInv, TypeOK, Of
<1>5. \A q \in Of(n) : q \in table /\ q \in Rows /\ q.id \in Nat
  BY OfType, RowFields DEF IInv
<1>6. r.id \in Nat /\ r.content.nif = n
  BY <1>1, RowFields
<1>7. \A q \in table : Before(q)' = Before(q)
  <2> SUFFICES ASSUME NEW q \in table PROVE Before(q)' = Before(q)
    OBVIOUS
  <2>1. CASE q.content.nif = n
    <3>1. q.id \in Nat /\ q.id < r.id
      BY <1>1, <1>4, <1>5, <2>1
    <3>2. ~(r.id < q.id)
      BY <1>6, <3>1
    <3>3. QED
      BY <1>1, <2>1, <3>2 DEF Before
  <2>2. CASE q.content.nif # n
    BY <1>1, <1>4, <2>2 DEF Before
  <2>3. QED
    BY <2>1, <2>2
<1>8. Before(r)' = Of(n)
  <2>1. ~(r.id < r.id)
    BY <1>6
  <2>2. QED
    BY <1>1, <1>6, <2>1 DEF Before
<1>9. ChainInv'
  <2>1. \A q \in table' : 0 < q.id /\ q.id < nextId'
    BY <1>2, <1>3 DEF IInv, ChainInv
  <2>2. \A p, q \in table' : p.content.nif = q.content.nif /\ p.id = q.id => p = q
    <3>1. \A q \in table : q.content.nif = n => q.id # r.id
      BY <1>1, <1>4, <1>5, <1>6
    <3>2. QED
      BY <1>2, <1>6, <3>1 DEF IInv, ChainInv
  <2>3. ASSUME NEW m \in Nifs, Of(m)' # {} PROVE \E q \in Of(m)' : IsTail(m, q)'
    <3>1. CASE m = n
      <4>1. \A q \in Of(n)' : q.id <= r.id
        BY <1>1, <1>5, <1>6
      <4>2. QED
        BY <1>1, <3>1, <4>1 DEF IsTail
    <3>2. CASE m # n
      <4>1. Of(m)' = Of(m)
        BY <1>1, <3>2
      <4>2. QED
        BY <2>3, <4>1 DEF IInv, ChainInv, IsTail
    <3>3. QED
      BY <3>1, <3>2
  <2>4. ASSUME NEW q \in table'
        PROVE  \/ Before(q)' = {} /\ q.prev = Root
               \/ \E p \in Before(q)' : /\ q.prev = Link(p)
                                        /\ \A o \in Before(q)' : o.id <= p.id
    <3>1. CASE q \in table
      BY <1>7, <3>1 DEF IInv, ChainInv
    <3>2. CASE q = r
      <4>1. CASE Of(n) = {}
        BY <1>1, <1>8, <3>2, <4>1 DEF ChainTail
      <4>2. CASE Of(n) # {}
        <5>1. PICK p \in Of(n) : IsTail(n, p) /\ ChainTail(n) = Link(p)
          BY <1>1, <4>2, TailExists DEF IInv
        <5>2. QED
          BY <1>1, <1>8, <3>2, <5>1 DEF IsTail
      <4>3. QED
        BY <4>1, <4>2
    <3>3. QED
      BY <1>2, <3>1, <3>2
  <2>5. ASSUME NEW q \in table', NEW k \in 1..Len(q.huella)
        PROVE  \E p \in Of(q.content.nif)' : p.content = q.huella[k]
    <3>1. CASE q \in table
      <4>1. PICK p \in Of(q.content.nif) : p.content = q.huella[k]
        BY <3>1 DEF IInv, ChainInv
      <4>2. Of(q.content.nif) \subseteq Of(q.content.nif)'
        BY <1>1, <1>4, <3>1
      <4>3. QED
        BY <4>1, <4>2
    <3>2. CASE q = r
      <4>1. /\ ChainTail(n).huella \in Seq(Contents) /\ job[w] \in Contents
            /\ q.huella = Append(ChainTail(n).huella, job[w])
        BY <1>1, <3>2, ChainTailType, RowFields DEF IInv, Links
      <4>2. CASE k = Len(ChainTail(n).huella) + 1
        <5>1. q.huella[k] = r.content
          BY <1>1, <4>1, <4>2, AppendProperties
        <5>2. QED
          BY <1>1, <1>6, <3>2, <5>1
      <4>3. CASE k \in 1..Len(ChainTail(n).huella)
        <5>1. q.huella[k] = ChainTail(n).huella[k]
          BY <4>1, <4>3, AppendProperties
        <5>2. Of(n) # {}
          BY <4>3 DEF ChainTail, Root
        <5>3. PICK p \in Of(n) : IsTail(n, p) /\ ChainTail(n) = Link(p)
          BY <1>1, <5>2, TailExists DEF IInv
        <5>4. ChainTail(n).huella = p.huella /\ p \in table /\ p.content.nif = n
          BY <1>5, <5>3, OfType DEF Link, IInv
        <5>5. PICK o \in Of(n) : o.content = p.huella[k]
          BY <4>3, <5>4 DEF IInv, ChainInv
        <5>6. QED
          BY <1>1, <1>6, <3>2, <5>1, <5>4, <5>5
      <4>4. Len(ChainTail(n).huella) \in Nat /\ k \in 1..(Len(ChainTail(n).huella) + 1)
        BY <4>1, AppendProperties, LenProperties
      <4>5. QED
        BY <4>2, <4>3, <4>4
    <3>3. QED
      BY <1>2, <3>1, <3>2
  <2>6. QED
    BY <2>1, <2>2, <2>3, <2>4, <2>5 DEF ChainInv
<1>10. HeadInv'
  <2>1. /\ head'[n] = r.huella
        /\ \A m \in Nifs \ {n} : head'[m] = head[m]
    BY <1>1 DEF Commit, HeadSaved, IInv, TypeOK
  <2>2. \A m \in Nifs : head[m] = ChainTail(m).huella
    BY DEF HeadInv, IInv
  <2>3. head'[n] = ChainTail(n)'.huella
    <3>1. ChainTail(n)' = Link(r)
      BY <1>1
    <3>2. Link(r).huella = r.huella
      BY DEF Link
    <3>3. QED
      BY <2>1, <3>1, <3>2, Zenon
  <2>4. \A m \in Nifs \ {n} : head'[m] = ChainTail(m)'.huella
    BY <1>1, <2>1, <2>2
  <2>5. QED
    BY <2>3, <2>4 DEF HeadInv
<1>11. /\ pc'[w] = "idle"
       /\ \A v \in Workers \ {w} : /\ pc'[v] = pc[v] /\ job'[v] = job[v]
                                   /\ tail'[v] = tail[v] /\ id'[v] = id[v]
       /\ \A m \in Nifs, v \in Workers \ {w} : lock[m] = v => lock'[m] = v
  BY EndType DEF Commit, IInv
<1>12. Fresh(w)' /\ Committable(w)'
  BY <1>11 DEF Fresh, Committable, InTx
<1>13. ASSUME NEW v \in Workers, v # w, InTx(v), rowLocks
       PROVE  Fresh(v)' /\ Committable(v)'
  <2>1. job[v].nif \in Nifs
    BY <1>13, RowType DEF IInv, InTx
  <2>2. lock[job[v].nif] = v /\ ~stale[v] /\ lock[n] = w
    BY <1>3, <1>13 DEF IInv, TxInv, Fresh
  <2>3. PICK m : m = job[v].nif
    OBVIOUS
  <2>4. m \in Nifs /\ m # n
    BY <1>13, <2>1, <2>2, <2>3
  <2>5. /\ Of(m)' = Of(m) /\ ChainTail(m)' = ChainTail(m)
        /\ job'[v].nif = m /\ rowLocks'
    BY <1>1, <1>11, <1>13, <2>3, <2>4
  <2>6. ~stale'[v] /\ lock'[m] = v
    BY <1>11, <1>13, <2>2, <2>3, <2>4 DEF Commit
  <2>7. Fresh(v)'
    BY <1>11, <1>13, <2>2, <2>3, <2>5, <2>6 DEF IInv, TxInv, Fresh
  <2>8. ASSUME pc[v] = "written" PROVE Unique(job[v])'
    <3>1. \A q \in table' : q.content # job[v]
      BY <1>2, <1>6, <2>3, <2>4, <2>8 DEF IInv, TxInv, Committable, Unique
    <3>2. QED
      BY <1>11, <1>13, <3>1 DEF Unique
  <2>9. Committable(v)'
    BY <1>2, <1>11, <1>13, <2>3, <2>5, <2>6, <2>8 DEF IInv, TxInv, Committable
  <2>10. QED
    BY <2>7, <2>9
<1>14. ASSUME NEW v \in Workers, v # w, InTx(v), ~rowLocks
       PROVE  Fresh(v)' /\ Committable(v)'
  <2>1. pc[v] = "locked" /\ pc'[v] = "locked"
    BY <1>3, <1>11, <1>14 DEF IInv, TxInv, OneWriter, InTx
  <2>2. stale'[v]
    BY <1>14, <2>1 DEF Commit
  <2>3. QED
    BY <1>14, <2>1, <2>2 DEF Fresh, Committable
<1>15. ASSUME NEW v \in Workers, v # w, ~InTx(v)
       PROVE  Fresh(v)' /\ Committable(v)'
  BY <1>11, <1>15 DEF Fresh, Committable, InTx
<1>16. OneWriter'
  BY <1>11 DEF IInv, TxInv, OneWriter
<1>17. QED
  BY <1>9, <1>10, <1>12, <1>13, <1>14, <1>15, <1>16 DEF IInv, TxInv

LEMMA IInvStep == IInv /\ [Next]_vars => IInv'
<1> SUFFICES ASSUME IInv, [Next]_vars PROVE IInv'
  OBVIOUS
<1>0. TypeOK'
  BY TypeStep DEF IInv
<1>1. ASSUME NEW w \in Workers, NEW c \in Contents, Generate(w, c), rowLocks' = rowLocks
      PROVE  IInv'
  BY <1>0, <1>1, GenerateStep
<1>2. ASSUME NEW w \in Workers, LockChain(w), rowLocks' = rowLocks PROVE IInv'
  BY <1>0, <1>2, LockChainStep
<1>3. ASSUME NEW w \in Workers, Insert(w), rowLocks' = rowLocks PROVE IInv'
  BY <1>0, <1>3, InsertStep
<1>4. ASSUME NEW w \in Workers, InsertFails(w), rowLocks' = rowLocks PROVE IInv'
  <2>1. nextId' >= nextId
    BY <1>4 DEF InsertFails, IInv, TypeOK
  <2>2. QED
    BY <1>0, <1>4, <2>1, EndStep DEF InsertFails
<1>5. ASSUME NEW w \in Workers, Commit(w), rowLocks' = rowLocks PROVE IInv'
  BY <1>0, <1>5, CommitStep
<1>6. ASSUME NEW w \in Workers, Abort(w), rowLocks' = rowLocks PROVE IInv'
  <2>1. nextId' >= nextId
    BY <1>6 DEF Abort, IInv, TypeOK
  <2>2. QED
    BY <1>0, <1>6, <2>1, EndStep DEF Abort
<1>7. CASE UNCHANGED vars
  <2>1. ChainInv' /\ HeadInv'
    BY <1>7 DEF IInv, ChainInv, HeadInv, ChainTail, IsTail, Of, Before, vars
  <2>2. TxInv'
    BY <1>7 DEF IInv, TxInv, Fresh, Committable, OneWriter, InTx, ChainTail, IsTail, Of, Unique, vars
  <2>3. QED
    BY <1>0, <2>1, <2>2 DEF IInv
<1>8. QED
  BY <1>1, <1>2, <1>3, <1>4, <1>5, <1>6, <1>7 DEF Next, Step

LEMMA IInvAlways == Spec => []IInv
BY IInvInit, IInvStep, PTL DEF Spec

\* The type of the state; in particular a chain row is locked only by a worker
\* that is generating for that issuer (services.py: _lock_chain).
THEOREM TypeCorrect == Spec => []TypeOK
<1>1. IInv => TypeOK
  BY DEF IInv
<1>2. QED
  BY <1>1, IInvAlways, PTL

LEMMA PredecessorMakesLinear == IInv => ChainIsLinear
<1> SUFFICES ASSUME IInv PROVE ChainIsLinear
  OBVIOUS
<1>1. \A r \in table : r.id \in Nat /\ 0 < r.id /\ r.prev.id \in Nat
  BY RowFields DEF IInv, TypeOK, ChainInv, Links
<1>2. \A r \in table :
          \/ Before(r) = {} /\ r.prev = Root
          \/ \E q \in Before(r) : r.prev = Link(q) /\ \A p \in Before(r) : p.id <= q.id
  BY DEF IInv, ChainInv
<1>3. \A r : \A q \in Before(r) : /\ q \in table /\ q.content.nif = r.content.nif
                                  /\ q.id < r.id
  BY DEF Before, Of
<1>4. ASSUME NEW r \in table, NEW q \in table,
             r.content.nif = q.content.nif, r.id < q.id
      PROVE  r.prev.id # q.prev.id
  <2>1. r \in Before(q)
    BY <1>4 DEF Before, Of
  <2>2. PICK p \in Before(q) : q.prev = Link(p) /\ r.id <= p.id
    BY <1>2, <2>1
  <2>3. q.prev.id = p.id /\ p \in table
    BY <1>3, <2>2 DEF Link
  <2>4. r.prev.id < r.id
    <3>1. CASE r.prev = Root
      BY <1>1, <3>1 DEF Root
    <3>2. CASE \E o \in Before(r) : r.prev = Link(o)
      BY <1>3, <3>2 DEF Link
    <3>3. QED
      BY <1>2, <3>1, <3>2
  <2>5. QED
    BY <1>1, <2>2, <2>3, <2>4
<1>5. ASSUME NEW r \in table, NEW q \in table,
             r.content.nif = q.content.nif, r.prev.id = q.prev.id
      PROVE  r = q
  <2>1. ~(r.id < q.id) /\ ~(q.id < r.id)
    BY <1>4, <1>5
  <2>2. r.id = q.id
    BY <1>1, <2>1
  <2>3. QED
    BY <1>5, <2>2 DEF IInv, ChainInv
<1>6. ASSUME NEW r \in table, r.prev # Root
      PROVE  \E q \in table : /\ q.content.nif = r.content.nif /\ q.id < r.id
                              /\ q.id = r.prev.id /\ q.huella = r.prev.huella
  <2>1. PICK q \in Before(r) : r.prev = Link(q)
    BY <1>2, <1>6
  <2>2. q.id = r.prev.id /\ q.huella = r.prev.huella
    BY <2>1 DEF Link
  <2>3. QED
    BY <1>3, <2>2
<1>7. QED
  BY <1>5, <1>6 DEF ChainIsLinear

\* AD-6, Q-1 (models.py: IssuerChain): however many workers generate for
\* however many issuers, with row locks or on SQLite, and whichever of them
\* fail, no chain forks or skips a record.
THEOREM NoChainForks == Spec => []ChainIsLinear
BY IInvAlways, PredecessorMakesLinear, PTL

\* services.py: _lock_chain reads the tail from the records and not from
\* last_huella; the two never differ.
THEOREM HeadIsNeverBehind == Spec => []HeadMirrorsTail
<1>1. IInv => HeadMirrorsTail
  BY DEF IInv, HeadInv, HeadMirrorsTail
<1>2. QED
  BY <1>1, IInvAlways, PTL

----------------------------------------------------------------------------
(* The chains implement Book *)

Certified == [n \in Nifs |-> ChainTail(n).huella]

\* What a tail certifies is on record.
LEMMA CertifiedIsOnRecord ==
    ASSUME IInv, NEW n \in Nifs
    PROVE  /\ Certified[n] = ChainTail(n).huella
           /\ Certified[n] \in Seq(Contents)
           /\ \A k \in 1..Len(Certified[n]) : \E r \in table : r.content = Certified[n][k]
<1>1. Certified[n] = ChainTail(n).huella
  BY DEF Certified
<1>2. ChainTail(n).huella \in Seq(Contents)
  BY ChainTailType DEF IInv, Links
<1>3. ASSUME NEW k \in 1..Len(Certified[n])
      PROVE  \E r \in table : r.content = Certified[n][k]
  <2>1. Of(n) # {}
    BY <1>1, <1>3 DEF ChainTail, Root
  <2>2. PICK r \in Of(n) : ChainTail(n) = Link(r)
    BY <2>1, TailExists DEF IInv
  <2>3. r \in table /\ Certified[n] = r.huella
    BY <1>1, <2>2 DEF Of, Link
  <2>4. PICK q \in Of(r.content.nif) : q.content = r.huella[k]
    BY <1>3, <2>3 DEF IInv, ChainInv
  <2>5. QED
    BY <2>3, <2>4 DEF Of
<1>4. QED
  BY <1>1, <1>2, <1>3

LEMMA CommitEnters ==
    ASSUME IInv, NEW w \in Workers, Commit(w)
    PROVE  job[w] \in Contents /\ Ledger!Enter(job[w])
<1>1. PICK c : c = job[w]
  OBVIOUS
<1>2. PICK r : r = Row(w)
  OBVIOUS
<1>3. PICK n : n = c.nif
  OBVIOUS
<1>4. c \in Contents
  BY <1>1 DEF Commit, IInv, TypeOK
<1>5. /\ n \in Nifs /\ Unique(c)
      /\ r.huella = Append(ChainTail(n).huella, c)
      /\ ChainTail(n)' = Link(r)
      /\ \A m \in Nifs \ {n} : ChainTail(m)' = ChainTail(m)
  BY <1>1, <1>2, <1>3, CommitExtends
<1>6. ContentsBook[c] = n
  BY <1>3, <1>4 DEF ContentsBook
<1>7. c \notin Ledger!Entered
  BY <1>5, <1>6, CertifiedIsOnRecord, ZenonT(60) DEF Ledger!Entered, Unique, Certified
<1>8. Certified' = [Certified EXCEPT ![n] = Append(Certified[n], c)]
  <2>1. ChainTail(n)'.huella = Append(Certified[n], c)
    BY <1>5, CertifiedIsOnRecord DEF Link
  <2>2. \A m \in Nifs \ {n} : ChainTail(m)'.huella = Certified[m]
    BY <1>5, CertifiedIsOnRecord
  <2>3. Certified' = [m \in Nifs |-> ChainTail(m)'.huella]
    BY DEF Certified
  <2>4. Certified \in [Nifs -> Seq(Contents)]
    BY CertifiedIsOnRecord DEF Certified
  <2>5. QED
    BY <1>5, <2>1, <2>2, <2>3, <2>4
<1>9. QED
  BY <1>1, <1>4, <1>6, <1>7, <1>8 DEF Ledger!Enter, Certified

\* R5: the record generators, with their transactions and locks, implement the
\* abstract book: every step appends one record that is not yet on record, to
\* the chain of its issuer, or changes no chain.
THEOREM ChainsAreBooks == Spec => AppendsToChain
<1>1. Init => Ledger!Init
  BY DEF Init, Ledger!Init, ChainTail, Of, Root
<1>2. IInv /\ [Next]_vars => [Ledger!Next]_Certified
  <2> SUFFICES ASSUME IInv, [Next]_vars PROVE Ledger!Next \/ UNCHANGED Certified
    OBVIOUS
  <2>1. ASSUME NEW w \in Workers, Commit(w) PROVE Ledger!Next
    BY <2>1, CommitEnters DEF Ledger!Next
  <2>2. CASE UNCHANGED table
    BY <2>2 DEF Certified, ChainTail, IsTail, Of
  <2>3. QED
    BY <2>1, <2>2
       DEF Next, Step, Generate, LockChain, Insert, InsertFails, Abort, vars
<1>3. QED
  BY <1>1, <1>2, IInvAlways, PTL DEF Spec, AppendsToChain, Ledger!Spec, Certified

----------------------------------------------------------------------------
(***************************************************************************)
(* Proofs about Delivery, for any users, browsers, invoices, workers and   *)
(* days.                                                                   *)
(*                                                                         *)
(* An email goes out between the read of its invoice and the write of      *)
(* sent_at.  The invariant says what a worker in between may rely on: the  *)
(* invoice it read is still its owner's or is gone for good, because only  *)
(* invoices without a record are purged and none of those is issued again  *)
(* (Kept), and a session that holds an issuer holds the one its own user   *)
(* typed (OwnSession).                                                     *)
(***************************************************************************)

Typed == DeliveryTypeOK

OwnSession == \A b \in Browsers : issuer[b] # Nothing => issuer[b].by = user[b]

\* What was issued with a record stays.
Registered == \A i \in Bills \ Old : bill[i] # Nothing => bill[i].nif # Nothing

\* What names invoice i under issuer s speaks for its owner.
Speaks(i, s) ==
    /\ i \notin Old => bill[i] # Nothing
    /\ bill[i] # Nothing => s.by = bill[i].owner

Kept ==
    /\ \A w \in Senders : sender[w] # Nothing => Speaks(sender[w].bill, sender[w].issuer)
    /\ \A m \in mails : Speaks(m.bill, m.issuer)

Went(i, d) == \E m \in mails : m.bill = i /\ m.day <= d

\* A worker past the sending has sent, on the day it will write or before.
Told ==
    /\ \A i \in Bills : bill[i] # Nothing /\ bill[i].sent_at # Nothing => Went(i, bill[i].sent_at)
    /\ \A w \in Senders : sender[w] # Nothing =>
          /\ sender[w].at = "mark" => Went(sender[w].bill, day)
          /\ sender[w].at = "save" => /\ sender[w].now \in Day
                                      /\ Went(sender[w].bill, sender[w].now)

\* For each email its invoice says so, or is gone, or a worker past the sending
\* is about to say so, or one broke off.
Accounted ==
    \A m \in mails :
       \/ bill[m.bill] = Nothing \/ bill[m.bill].sent_at # Nothing
       \/ \E w \in Senders : /\ sender[w] # Nothing /\ sender[w].bill = m.bill
                             /\ sender[w].at \in {"mark", "save"}
       \/ m.bill \in cut

DeliveryInv == Typed /\ OwnSession /\ Registered /\ Kept /\ Told /\ Accounted

----------------------------------------------------------------------------
(* What the types say *)

LEMMA NothingIs ==
    /\ Nothing \notin Users /\ Nothing \notin Issuers /\ Nothing \notin Day
    /\ Nothing \notin Identity /\ Nothing \notin Bill /\ Nothing \notin Request
BY DeliveryAssumption

LEMMA DaysAre == \A d \in Day : d \in Nat
BY DeliveryAssumption DEF Day

LEMMA IdentityFields ==
    ASSUME NEW s \in Identity
    PROVE  /\ s.by \in Users /\ s.nif \in Issuers /\ s.contact \in Issuers \cup {Nothing}
           /\ s # Nothing
BY NothingIs DEF Identity

LEMMA BillFields ==
    ASSUME NEW r \in Bill
    PROVE  /\ r.owner \in Users /\ r.nif \in Issuers \cup {Nothing}
           /\ r.sent_at \in Day \cup {Nothing} /\ r # Nothing
BY NothingIs DEF Bill

LEMMA RequestFields ==
    ASSUME NEW r \in Request
    PROVE  /\ r.bill \in Bills /\ r.issuer \in Identity /\ r.at \in {"mail", "mark", "save"}
           /\ r.now \in Day \cup {Nothing} /\ r # Nothing
BY NothingIs DEF Request

LEMMA StateIs ==
    ASSUME Typed
    PROVE  /\ \A b \in Browsers : issuer[b] # Nothing => issuer[b] \in Identity
           /\ \A i \in Bills : bill[i] # Nothing => bill[i] \in Bill
           /\ \A w \in Senders : sender[w] # Nothing => sender[w] \in Request
           /\ \A m \in mails : m.bill \in Bills /\ m.issuer \in Identity /\ m.day \in Day
           /\ day \in Day
BY DEF Typed, DeliveryTypeOK

----------------------------------------------------------------------------
(* What a step of each kind keeps *)

\* Steps of a session alone.
LEMMA SessionStep ==
    ASSUME DeliveryInv, Typed', OwnSession', UNCHANGED <<bill, sender, day, mails, tries, cut>>
    PROVE  DeliveryInv'
<1>1. Registered' /\ Kept'
  BY DEF DeliveryInv, Registered, Kept, Speaks
<1>2. Told' /\ Accounted'
  BY DEF DeliveryInv, Told, Accounted, Went
<1> QED
  BY <1>1, <1>2 DEF DeliveryInv

\* Steps that issue, register or purge invoices.
LEMMA BillStep ==
    ASSUME DeliveryInv, Typed', OwnSession', Registered', UNCHANGED <<sender, day, mails, tries, cut>>,
           \A i \in Bills :
              /\ bill[i] # Nothing /\ bill'[i] # Nothing =>
                    bill'[i].owner = bill[i].owner /\ bill'[i].sent_at = bill[i].sent_at
              /\ bill[i] = Nothing /\ bill'[i] # Nothing =>
                    i \notin Old /\ bill'[i].sent_at = Nothing
              /\ bill[i] # Nothing /\ i \notin Old => bill'[i] # Nothing
    PROVE  DeliveryInv'
<1>1. \A i \in Bills : \A s : Speaks(i, s) =>
         Speaks(i, s)' /\ (bill[i] = Nothing => bill'[i] = Nothing)
  BY DEF Speaks
<1>2. /\ \A m \in mails : m.bill \in Bills
      /\ \A w \in Senders : sender[w] # Nothing => sender[w].bill \in Bills
  BY StateIs, RequestFields DEF DeliveryInv
<1>3. Kept'
  BY <1>1, <1>2 DEF DeliveryInv, Kept, Speaks
<1>4. Told'
  <2>1. \A i \in Bills : bill'[i] # Nothing /\ bill'[i].sent_at # Nothing =>
           Went(i, bill[i].sent_at)'
    BY DEF DeliveryInv, Told, Went
  <2>2. \A w \in Senders : sender'[w] # Nothing =>
          /\ sender'[w].at = "mark" => Went(sender[w].bill, day)'
          /\ sender'[w].at = "save" => /\ sender'[w].now \in Day
                                       /\ Went(sender[w].bill, sender[w].now)'
    BY DEF DeliveryInv, Told, Went
  <2> QED
    BY <2>1, <2>2 DEF Told
<1>5. Accounted'
  <2> SUFFICES ASSUME NEW m \in mails
               PROVE  \/ bill'[m.bill] = Nothing \/ bill'[m.bill].sent_at # Nothing
                      \/ \E w \in Senders : /\ sender[w] # Nothing /\ sender[w].bill = m.bill
                                            /\ sender[w].at \in {"mark", "save"}
                      \/ m.bill \in cut
    BY DEF Accounted
  <2>1. bill[m.bill] = Nothing => bill'[m.bill] = Nothing
    BY <1>1, <1>2 DEF DeliveryInv, Kept
  <2> QED
    BY <1>2, <2>1 DEF DeliveryInv, Accounted
<1> QED
  BY <1>3, <1>4, <1>5 DEF DeliveryInv

\* Steps of worker w's email: r is its request afterwards.
LEMMA MailStep ==
    ASSUME DeliveryInv, NEW w \in Senders, NEW r \in Request \cup {Nothing},
           sender' = [sender EXCEPT ![w] = r], Typed',
           UNCHANGED <<active, session, bill, day>>, mails \subseteq mails', cut \subseteq cut',
           r # Nothing => /\ Speaks(r.bill, r.issuer)
                          /\ r.at = "mark" => \E m \in mails' : m.bill = r.bill /\ m.day <= day
                          /\ r.at = "save" => /\ r.now \in Day
                                              /\ \E m \in mails' : m.bill = r.bill /\ m.day <= r.now,
           \A m \in mails' \ mails :
              /\ Speaks(m.bill, m.issuer)
              /\ m.bill \in cut' \/ (r # Nothing /\ r.bill = m.bill /\ r.at = "mark"),
           sender[w] # Nothing /\ sender[w].at \in {"mark", "save"} =>
              \/ sender[w].bill \in cut'
              \/ r # Nothing /\ r.bill = sender[w].bill /\ r.at \in {"mark", "save"}
    PROVE  DeliveryInv'
<1>1. sender'[w] = r /\ \A v \in Senders \ {w} : sender'[v] = sender[v]
  BY DEF DeliveryInv, Typed, DeliveryTypeOK
<1>2. OwnSession' /\ Registered'
  BY DEF DeliveryInv, OwnSession, Registered, session
<1>3. Kept'
  BY <1>1 DEF DeliveryInv, Kept, Speaks
<1>4. \A i, d : Went(i, d) => Went(i, d)'
  BY DEF Went
<1>5. Told'
  <2>1. \A i \in Bills : bill'[i] # Nothing /\ bill'[i].sent_at # Nothing =>
           Went(i, bill[i].sent_at)'
    BY DEF DeliveryInv, Told, Went
  <2>2. ASSUME NEW v \in Senders, sender'[v] # Nothing
        PROVE  /\ sender'[v].at = "mark" => Went(sender[v].bill, day)'
               /\ sender'[v].at = "save" => /\ sender'[v].now \in Day
                                            /\ Went(sender[v].bill, sender[v].now)'
    <3>1. CASE v = w
      BY <1>1, <2>2, <3>1 DEF Went
    <3>2. CASE v # w
      BY <1>1, <2>2, <3>2 DEF DeliveryInv, Told, Went
    <3> QED
      BY <3>1, <3>2
  <2> QED
    BY <2>1, <2>2 DEF Told
<1>6. Accounted'
  <2> SUFFICES ASSUME NEW m \in mails'
               PROVE  \/ bill[m.bill] = Nothing \/ bill[m.bill].sent_at # Nothing
                      \/ \E v \in Senders : /\ sender'[v] # Nothing /\ sender'[v].bill = m.bill
                                            /\ sender'[v].at \in {"mark", "save"}
                      \/ m.bill \in cut'
    BY DEF Accounted
  <2>1. CASE m \notin mails
    BY <1>1, <2>1
  <2>2. CASE \/ m \in mails /\ bill[m.bill] = Nothing
             \/ m \in mails /\ bill[m.bill].sent_at # Nothing
             \/ m \in mails /\ m.bill \in cut
    BY <2>2
  <2>3. CASE \E v \in Senders : /\ sender[v] # Nothing /\ sender[v].bill = m.bill
                                /\ sender[v].at \in {"mark", "save"}
    BY <1>1, <2>3
  <2> QED
    BY <2>1, <2>2, <2>3 DEF DeliveryInv, Accounted
<1> QED
  BY <1>2, <1>3, <1>5, <1>6 DEF DeliveryInv

----------------------------------------------------------------------------
(* The first state, and each step *)

LEMMA InitEstablishes == DeliveryInit => DeliveryInv
<1> SUFFICES ASSUME DeliveryInit PROVE DeliveryInv
  OBVIOUS
<1>1. /\ active = Users /\ sender = [w \in Senders |-> Nothing]
      /\ user = [b \in Browsers |-> Nothing] /\ issuer = [b \in Browsers |-> Nothing]
      /\ day = 0 /\ mails = {} /\ tries = 0 /\ cut = {}
  BY DEF DeliveryInit
<1>2. PICK u \in Users : bill = [i \in Bills |->
         IF i \in Old THEN [owner |-> u, nif |-> Nothing, sent_at |-> Nothing] ELSE Nothing]
  BY DEF DeliveryInit
<1>3. PICK r : r = [owner |-> u, nif |-> Nothing, sent_at |-> Nothing]
  OBVIOUS
<1>4. r \in Bill /\ r.sent_at = Nothing
  BY <1>2, <1>3 DEF Bill
<1>5. \A i \in Bills : bill[i] = IF i \in Old THEN r ELSE Nothing
  BY <1>2, <1>3
<1>6. bill \in [Bills -> Bill \cup {Nothing}]
  BY <1>2, <1>3, <1>4
<1>7. Typed
  <2>1. 0 \in Day /\ 0 \in 0..MaxSends
    BY DeliveryAssumption DEF Day
  <2> QED
    BY <1>1, <1>6, <2>1 DEF Typed, DeliveryTypeOK
<1>8. OwnSession
  BY <1>1 DEF OwnSession
<1>9. Registered /\ Kept /\ Told /\ Accounted
  BY <1>1, <1>4, <1>5 DEF Registered, Kept, Told, Accounted
<1> QED
  BY <1>7, <1>8, <1>9 DEF DeliveryInv

LEMMA LoginStep ==
    ASSUME DeliveryInv, NEW b \in Browsers, NEW u \in Users, Login(b, u)
    PROVE  DeliveryInv'
<1>1. Typed /\ OwnSession
  BY DEF DeliveryInv
<1>2. Typed'
  BY <1>1 DEF Login, Typed, DeliveryTypeOK
<1>3. /\ user'[b] = u /\ issuer'[b] = (IF KeptFor(b, u) THEN issuer[b] ELSE Nothing)
      /\ \A c \in Browsers \ {b} : user'[c] = user[c] /\ issuer'[c] = issuer[c]
  BY <1>1 DEF Login, Typed, DeliveryTypeOK
<1>4. ASSUME KeptFor(b, u), issuer[b] # Nothing
      PROVE  issuer[b].by = u
  BY <1>1, <1>4, StateIs, IdentityFields, NothingIs DEF OwnSession, KeptFor
<1>5. OwnSession'
  BY <1>1, <1>3, <1>4 DEF OwnSession
<1> QED
  BY <1>2, <1>5, SessionStep DEF Login

LEMMA FlushStep ==
    ASSUME DeliveryInv, NEW b \in Browsers, Flush(b), active' \subseteq active,
           UNCHANGED <<bill, sender, day, mails, tries, cut>>
    PROVE  DeliveryInv'
<1>1. Typed /\ OwnSession
  BY DEF DeliveryInv
<1>2. Typed' /\ OwnSession'
  BY <1>1 DEF Flush, Typed, DeliveryTypeOK, OwnSession
<1> QED
  BY <1>2, SessionStep

LEMMA CreateStep ==
    ASSUME DeliveryInv, NEW b \in Browsers, NEW u \in Users, NEW i \in Bills, NEW n \in Issuers,
           Create(b, u, i, n)
    PROVE  DeliveryInv'
<1>1. Typed /\ OwnSession /\ Registered
  BY DEF DeliveryInv
<1>2. /\ user[b] = u /\ bill[i] = Nothing /\ i \notin Old
      /\ UNCHANGED <<active, user, sender, day, mails, tries, cut>>
  BY DEF Create, Visits
<1>3. PICK r : r = [owner |-> u, nif |-> n, sent_at |-> Nothing]
  OBVIOUS
<1>4. r \in Bill /\ r.nif = n /\ r.sent_at = Nothing /\ r # Nothing
  BY <1>3, NothingIs DEF Bill
<1>5. PICK s : s = [by |-> u, nif |-> n, contact |-> n]
  OBVIOUS
<1>6. s \in Identity /\ s.by = u
  BY <1>5 DEF Identity
<1>7. bill' = [bill EXCEPT ![i] = r] /\ issuer' = [issuer EXCEPT ![b] = s]
  BY <1>3, <1>5 DEF Create
<1>8. Typed'
  BY <1>1, <1>2, <1>4, <1>6, <1>7 DEF Typed, DeliveryTypeOK
<1>9. OwnSession'
  BY <1>1, <1>2, <1>6, <1>7 DEF OwnSession, Typed, DeliveryTypeOK
<1>10. bill'[i] = r /\ \A j \in Bills : j # i => bill'[j] = bill[j]
  BY <1>1, <1>7 DEF Typed, DeliveryTypeOK
<1>11. Registered'
  BY <1>1, <1>4, <1>10, NothingIs DEF Registered
<1> QED
  BY <1>2, <1>4, <1>8, <1>9, <1>10, <1>11, BillStep

LEMMA RegisterVerifactuStep ==
    ASSUME DeliveryInv, NEW b \in Browsers, NEW u \in Users, NEW i \in Bills,
           NEW posted \in Issuers \cup {Nothing}, RegisterVerifactu(b, u, i, posted)
    PROVE  DeliveryInv'
<1>1. Typed /\ OwnSession /\ Registered
  BY DEF DeliveryInv
<1>2. PICK kept : kept = issuer[b]
  OBVIOUS
<1>3. PICK n : n = IF posted # Nothing THEN posted
                   ELSE IF kept # Nothing THEN kept.nif ELSE Nothing
  OBVIOUS
<1>4. /\ user[b] = u /\ bill[i] # Nothing /\ bill[i].owner = u /\ n # Nothing
      /\ UNCHANGED <<active, user, sender, day, mails, tries, cut>>
      /\ bill' = [bill EXCEPT ![i] = [@ EXCEPT !.nif = n]]
      /\ issuer' = [issuer EXCEPT ![b] =
            [by |-> IF posted # Nothing THEN u ELSE kept.by, nif |-> n,
             contact |-> IF kept # Nothing THEN kept.contact ELSE Nothing]]
  BY <1>2, <1>3 DEF RegisterVerifactu, Visits, Owns
<1>5. kept # Nothing => kept \in Identity /\ kept.by = u
  BY <1>1, <1>2, <1>4, StateIs DEF OwnSession
<1>6. n \in Issuers /\ (posted = Nothing => kept # Nothing)
  BY <1>3, <1>4, <1>5, IdentityFields
<1>7. PICK t \in Issuers \cup {Nothing} : t = IF kept # Nothing THEN kept.contact ELSE Nothing
  BY <1>5, IdentityFields
<1>8. PICK s : s = [by |-> u, nif |-> n, contact |-> t]
  OBVIOUS
<1>9. s \in Identity /\ s.by = u
  BY <1>6, <1>8 DEF Identity
<1>10. issuer' = [issuer EXCEPT ![b] = s]
  <2>1. (IF posted # Nothing THEN u ELSE kept.by) = u
    BY <1>5, <1>6
  <2> QED
    BY <1>4, <1>7, <1>8, <2>1
<1>11. PICK q \in Bill : q = bill[i]
  BY <1>1, <1>4, StateIs
<1>12. PICK r : r = [q EXCEPT !.nif = n]
  OBVIOUS
<1>13. r \in Bill /\ r.owner = q.owner /\ r.sent_at = q.sent_at /\ r.nif = n
  BY <1>6, <1>12 DEF Bill
<1>14. bill' = [bill EXCEPT ![i] = r]
  BY <1>4, <1>11, <1>12
<1>15. Typed'
  BY <1>1, <1>4, <1>9, <1>10, <1>13, <1>14 DEF Typed, DeliveryTypeOK
<1>16. OwnSession'
  BY <1>1, <1>4, <1>9, <1>10 DEF OwnSession, Typed, DeliveryTypeOK
<1>17. bill'[i] = r /\ r # Nothing /\ \A j \in Bills : j # i => bill'[j] = bill[j]
  BY <1>1, <1>13, <1>14, BillFields DEF Typed, DeliveryTypeOK
<1>18. Registered'
  BY <1>1, <1>4, <1>13, <1>17 DEF Registered
<1> QED
  BY <1>4, <1>11, <1>13, <1>15, <1>16, <1>17, <1>18, BillStep

LEMMA PurgeStep ==
    ASSUME DeliveryInv, NEW u \in Users, Purge(u)
    PROVE  DeliveryInv'
<1>1. Typed /\ OwnSession /\ Registered
  BY DEF DeliveryInv
<1>2. /\ UNCHANGED <<active, user, issuer, sender, day, mails, tries, cut>>
      /\ \A i \in Bills : Owns(u, i) => bill[i].nif = Nothing
      /\ bill' = [i \in Bills |-> IF Owns(u, i) THEN Nothing ELSE bill[i]]
  BY DEF Purge, session
<1>3. \A i \in Bills : bill'[i] = IF Owns(u, i) THEN Nothing ELSE bill[i]
  BY <1>2
<1>4. Typed'
  BY <1>1, <1>2 DEF Typed, DeliveryTypeOK
<1>5. OwnSession'
  BY <1>1, <1>2 DEF OwnSession
<1>6. Registered'
  BY <1>1, <1>3 DEF Registered
<1>7. \A i \in Bills \ Old : bill[i] # Nothing => ~Owns(u, i)
  BY <1>1, <1>2 DEF Registered
<1> QED
  BY <1>2, <1>3, <1>4, <1>5, <1>6, <1>7, BillStep

LEMMA NextDayStep ==
    ASSUME DeliveryInv, NextDay
    PROVE  DeliveryInv'
<1>1. Typed /\ day \in Day
  BY StateIs DEF DeliveryInv
<1>2. /\ day' = day + 1 /\ day < MaxDay
      /\ UNCHANGED <<active, user, issuer, bill, sender, mails, tries, cut>>
  BY DEF NextDay, session
<1>3. day' \in Day
  BY <1>1, <1>2, DeliveryAssumption DEF Day
<1>4. Typed'
  BY <1>1, <1>2, <1>3 DEF Typed, DeliveryTypeOK
<1>5. OwnSession' /\ Registered' /\ Kept' /\ Accounted'
  BY <1>2 DEF DeliveryInv, OwnSession, Registered, Kept, Speaks, Accounted
<1>6. \A i : Went(i, day) => Went(i, day)'
  BY <1>1, <1>2, DaysAre, StateIs DEF Went
<1>7. Told'
  BY <1>2, <1>6 DEF DeliveryInv, Told, Went
<1> QED
  BY <1>4, <1>5, <1>7 DEF DeliveryInv

LEMMA SendStep ==
    ASSUME DeliveryInv, NEW w \in Senders, NEW b \in Browsers, NEW u \in Users, NEW i \in Bills,
           Send(w, b, u, i)
    PROVE  DeliveryInv'
<1>1. Typed /\ OwnSession
  BY DEF DeliveryInv
<1>2. /\ sender[w] = Nothing /\ user[b] = u /\ bill[i] # Nothing /\ bill[i].owner = u
      /\ issuer[b] # Nothing /\ tries < MaxSends /\ tries' = tries + 1
      /\ UNCHANGED <<active, session, bill, day, mails, cut>>
  BY DEF Send, Visits, Owns
<1>3. PICK s \in Identity : s = issuer[b] /\ s.by = u
  BY <1>1, <1>2, StateIs DEF OwnSession
<1>4. PICK r : r = [bill |-> i, issuer |-> s, at |-> "mail", now |-> Nothing]
  OBVIOUS
<1>5. r \in Request /\ r.bill = i /\ r.issuer = s /\ r.at = "mail"
  BY <1>4 DEF Request
<1>6. sender' = [sender EXCEPT ![w] = r]
  BY <1>3, <1>4 DEF Send, Goes
<1>7. tries' \in 0..MaxSends
  BY <1>1, <1>2, DeliveryAssumption DEF Typed, DeliveryTypeOK
<1>8. Typed'
  BY <1>1, <1>2, <1>5, <1>6, <1>7 DEF Typed, DeliveryTypeOK, session
<1>9. Speaks(r.bill, r.issuer)
  BY <1>2, <1>3, <1>5 DEF Speaks
<1> QED
  BY <1>2, <1>5, <1>6, <1>8, <1>9, MailStep

\* The email of a worker at the sending, delivered today.
LEMMA DeliveredIs ==
    ASSUME DeliveryInv, NEW w \in Senders, NEW r, r = sender[w], r # Nothing, NEW sent \in BOOLEAN,
           NEW after, after = (IF sent THEN mails \cup {Mailed(r)} ELSE mails)
    PROVE  /\ r \in Request /\ Speaks(r.bill, r.issuer) /\ mails \subseteq after
           /\ after \subseteq [bill : Bills, issuer : Identity, day : Day]
           /\ \A m \in after \ mails : m.bill = r.bill /\ m.issuer = r.issuer /\ m.day = day
           /\ sent => \E m \in after : m.bill = r.bill /\ m.day <= day
<1>1. Typed /\ Kept
  BY DEF DeliveryInv
<1>2. r \in Request /\ Speaks(r.bill, r.issuer) /\ day \in Day /\ day \in Nat
  BY <1>1, StateIs, DaysAre DEF Kept
<1>3. PICK m : m = Mailed(r)
  OBVIOUS
<1>4. /\ m \in [bill : Bills, issuer : Identity, day : Day]
      /\ m.bill = r.bill /\ m.issuer = r.issuer /\ m.day = day
  BY <1>2, <1>3, RequestFields DEF Mailed
<1> QED
  BY <1>1, <1>2, <1>3, <1>4 DEF Typed, DeliveryTypeOK

LEMMA AnswerStep ==
    ASSUME DeliveryInv, NEW w \in Senders, NEW sent \in BOOLEAN, Answer(w, sent)
    PROVE  DeliveryInv'
<1>1. PICK r : r = sender[w]
  OBVIOUS
<1>2. /\ r # Nothing /\ r.at = "mail"
      /\ mails' = (IF sent THEN mails \cup {Mailed(r)} ELSE mails)
      /\ Goes(w, IF Confirmed(sent) THEN [r EXCEPT !.at = "mark"] ELSE Nothing)
      /\ UNCHANGED <<active, session, bill, day, tries, cut>>
  BY <1>1 DEF Answer
<1>3. /\ r \in Request /\ Speaks(r.bill, r.issuer) /\ mails \subseteq mails'
      /\ mails' \subseteq [bill : Bills, issuer : Identity, day : Day]
      /\ \A m \in mails' \ mails : m.bill = r.bill /\ m.issuer = r.issuer /\ m.day = day
      /\ sent => \E m \in mails' : m.bill = r.bill /\ m.day <= day
  BY <1>1, <1>2, DeliveredIs
<1>4. PICK q : q = [r EXCEPT !.at = "mark"]
  OBVIOUS
<1>5. q \in Request /\ q.bill = r.bill /\ q.issuer = r.issuer /\ q.at = "mark" /\ q # Nothing
  <2>1. q \in Request /\ q.bill = r.bill /\ q.issuer = r.issuer /\ q.at = "mark"
    BY <1>3, <1>4 DEF Request
  <2> QED
    BY <2>1, NothingIs
<1>6. PICK z \in Request \cup {Nothing} : z = IF sent THEN q ELSE Nothing
  BY <1>5
<1>7. sender' = [sender EXCEPT ![w] = z]
  BY <1>2, <1>4, <1>6 DEF Goes, Confirmed
<1>8. Typed'
  BY <1>2, <1>3, <1>7 DEF DeliveryInv, Typed, DeliveryTypeOK, session
<1>9. ~sent => mails' = mails
  BY <1>2
<1> QED
  BY <1>1, <1>2, <1>3, <1>5, <1>6, <1>7, <1>8, <1>9, MailStep

LEMMA BreakOffStep ==
    ASSUME DeliveryInv, NEW w \in Senders, NEW sent \in BOOLEAN, BreakOff(w, sent)
    PROVE  DeliveryInv'
<1>1. PICK r : r = sender[w]
  OBVIOUS
<1>2. /\ r # Nothing /\ cut' = cut \cup {r.bill}
      /\ mails' = (IF sent THEN mails \cup {Mailed(r)} ELSE mails)
      /\ sender' = [sender EXCEPT ![w] = Nothing]
      /\ UNCHANGED <<active, session, bill, day, tries>>
  BY <1>1 DEF BreakOff, Goes
<1>3. /\ r \in Request /\ Speaks(r.bill, r.issuer) /\ mails \subseteq mails'
      /\ mails' \subseteq [bill : Bills, issuer : Identity, day : Day]
      /\ \A m \in mails' \ mails : m.bill = r.bill /\ m.issuer = r.issuer /\ m.day = day
  BY <1>1, <1>2, DeliveredIs
<1>4. cut' \subseteq Bills
  BY <1>2, <1>3, RequestFields DEF DeliveryInv, Typed, DeliveryTypeOK
<1>5. Typed'
  BY <1>2, <1>3, <1>4 DEF DeliveryInv, Typed, DeliveryTypeOK, session
<1> QED
  BY <1>1, <1>2, <1>3, <1>5, MailStep

LEMMA MarkSentStep ==
    ASSUME DeliveryInv, NEW w \in Senders, MarkSent(w)
    PROVE  DeliveryInv'
<1>1. PICK r : r = sender[w]
  OBVIOUS
<1>2. /\ r # Nothing /\ r.at = "mark" /\ Goes(w, [r EXCEPT !.at = "save", !.now = day])
      /\ UNCHANGED <<active, session, bill, day, mails, tries, cut>>
  BY <1>1 DEF MarkSent
<1>3. r \in Request /\ Speaks(r.bill, r.issuer) /\ Went(r.bill, day) /\ day \in Day
  BY <1>1, <1>2, StateIs DEF DeliveryInv, Kept, Told
<1>4. PICK d \in Day : d = day
  BY <1>3
<1>5. PICK q : q = [r EXCEPT !.at = "save", !.now = d]
  OBVIOUS
<1>6. q \in Request /\ q.bill = r.bill /\ q.issuer = r.issuer /\ q.at = "save" /\ q.now = d
  BY <1>3, <1>5 DEF Request
<1>7. sender' = [sender EXCEPT ![w] = q]
  BY <1>2, <1>4, <1>5 DEF Goes
<1>8. Typed'
  BY <1>2, <1>6, <1>7 DEF DeliveryInv, Typed, DeliveryTypeOK, session
<1>9. /\ q.now \in Day /\ Speaks(q.bill, q.issuer) /\ q.at # "mark"
      /\ \E m \in mails' : m.bill = q.bill /\ m.day <= q.now
  BY <1>2, <1>3, <1>4, <1>6 DEF Went
<1>10. sender[w].bill = q.bill /\ q # Nothing
  BY <1>1, <1>6, NothingIs
<1>11. mails' = mails /\ cut' = cut /\ UNCHANGED <<active, session, bill, day>>
  BY <1>2
<1> QED
  BY <1>6, <1>7, <1>8, <1>9, <1>10, <1>11, MailStep

LEMMA SaveSentAtStep ==
    ASSUME DeliveryInv, NEW w \in Senders, SaveSentAt(w)
    PROVE  DeliveryInv'
<1>0. Typed /\ OwnSession /\ Registered /\ Kept /\ Told /\ Accounted
  BY DEF DeliveryInv
<1>1. PICK r : r = sender[w]
  OBVIOUS
<1>2. /\ r # Nothing /\ r.at = "save" /\ sender' = [sender EXCEPT ![w] = Nothing]
      /\ bill' = IF bill[r.bill] = Nothing THEN bill
                 ELSE [bill EXCEPT ![r.bill] = [@ EXCEPT !.sent_at = r.now]]
      /\ UNCHANGED <<active, session, day, mails, tries, cut>>
  BY <1>1 DEF SaveSentAt, Goes
<1>3. r \in Request /\ r.bill \in Bills /\ r.now \in Day /\ Went(r.bill, r.now)
  BY <1>0, <1>1, <1>2, StateIs, RequestFields DEF Told
<1>4. sender'[w] = Nothing /\ \A v \in Senders \ {w} : sender'[v] = sender[v]
  BY <1>0, <1>2 DEF Typed, DeliveryTypeOK
<1>5. /\ bill' \in [Bills -> Bill \cup {Nothing}]
      /\ \A j \in Bills : j # r.bill => bill'[j] = bill[j]
      /\ bill[r.bill] = Nothing => bill'[r.bill] = Nothing
      /\ bill[r.bill] # Nothing =>
            /\ bill'[r.bill] # Nothing /\ bill'[r.bill].sent_at = r.now
            /\ bill'[r.bill].owner = bill[r.bill].owner /\ bill'[r.bill].nif = bill[r.bill].nif
  <2>1. CASE bill[r.bill] = Nothing
    BY <1>0, <1>2, <2>1 DEF Typed, DeliveryTypeOK
  <2>2. CASE bill[r.bill] # Nothing
    <3>1. PICK q \in Bill : q = bill[r.bill]
      BY <1>0, <1>3, <2>2, StateIs
    <3>2. PICK s : s = [q EXCEPT !.sent_at = r.now]
      OBVIOUS
    <3>3. s \in Bill /\ s.sent_at = r.now /\ s.owner = q.owner /\ s.nif = q.nif
      BY <1>3, <3>1, <3>2 DEF Bill
    <3>4. bill' = [bill EXCEPT ![r.bill] = s]
      BY <1>2, <2>2, <3>1, <3>2
    <3> QED
      BY <1>0, <1>3, <2>2, <3>1, <3>3, <3>4, BillFields DEF Typed, DeliveryTypeOK
  <2> QED
    BY <2>1, <2>2
<1>6. Typed'
  BY <1>0, <1>2, <1>5 DEF Typed, DeliveryTypeOK, session
<1>7. OwnSession' /\ Registered'
  BY <1>0, <1>2, <1>5 DEF OwnSession, Registered, session
<1>8. \A i \in Bills : \A s : Speaks(i, s) => Speaks(i, s)'
  BY <1>5 DEF Speaks
<1>9. Kept'
  <2>1. \A m \in mails : m.bill \in Bills
    BY <1>0, StateIs
  <2>2. \A v \in Senders : sender[v] # Nothing => sender[v].bill \in Bills
    BY <1>0, StateIs, RequestFields
  <2> QED
    BY <1>0, <1>2, <1>4, <1>8, <2>1, <2>2 DEF Kept, Speaks
<1>10. Told'
  <2>1. ASSUME NEW i \in Bills, bill'[i] # Nothing, bill'[i].sent_at # Nothing
        PROVE  Went(i, bill[i].sent_at)'
    <3>1. CASE i = r.bill
      BY <1>2, <1>3, <1>5, <2>1, <3>1 DEF Went
    <3>2. CASE i # r.bill
      BY <1>0, <1>2, <1>5, <2>1, <3>2 DEF Told, Went
    <3> QED
      BY <3>1, <3>2
  <2>2. ASSUME NEW v \in Senders, sender'[v] # Nothing
        PROVE  /\ sender'[v].at = "mark" => Went(sender[v].bill, day)'
               /\ sender'[v].at = "save" => /\ sender'[v].now \in Day
                                            /\ Went(sender[v].bill, sender[v].now)'
    BY <1>0, <1>2, <1>4, <2>2 DEF Told, Went
  <2> QED
    BY <2>1, <2>2 DEF Told
<1>11. Accounted'
  <2> SUFFICES ASSUME NEW m \in mails
               PROVE  \/ bill'[m.bill] = Nothing \/ bill'[m.bill].sent_at # Nothing
                      \/ \E v \in Senders : /\ sender'[v] # Nothing /\ sender'[v].bill = m.bill
                                            /\ sender'[v].at \in {"mark", "save"}
                      \/ m.bill \in cut
    BY <1>2 DEF Accounted
  <2>1. m.bill \in Bills
    BY <1>0, StateIs
  <2>2. CASE m.bill = r.bill
    BY <1>3, <1>5, <2>2, NothingIs
  <2>3. CASE m.bill # r.bill
    <3>1. bill'[m.bill] = bill[m.bill]
      BY <1>5, <2>1, <2>3
    <3>2. CASE bill[m.bill] = Nothing \/ bill[m.bill].sent_at # Nothing \/ m.bill \in cut
      BY <3>1, <3>2
    <3>3. CASE \E v \in Senders : /\ sender[v] # Nothing /\ sender[v].bill = m.bill
                                  /\ sender[v].at \in {"mark", "save"}
      BY <1>1, <1>4, <2>3, <3>3
    <3> QED
      BY <1>0, <3>2, <3>3 DEF Accounted
  <2> QED
    BY <2>2, <2>3
<1> QED
  BY <1>6, <1>7, <1>9, <1>10, <1>11 DEF DeliveryInv

----------------------------------------------------------------------------
(* The theorems *)

LEMMA NextKeeps == DeliveryInv /\ DeliveryNext => DeliveryInv'
<1> SUFFICES ASSUME DeliveryInv, DeliveryNext PROVE DeliveryInv'
  OBVIOUS
<1>1. ASSUME NEW b \in Browsers, NEW u \in Users, CloseAccount(b, u)
      PROVE  DeliveryInv'
  BY <1>1, FlushStep DEF CloseAccount
<1>2. ASSUME NEW b \in Browsers, Logout(b)
      PROVE  DeliveryInv'
  BY <1>2, FlushStep DEF Logout
<1> QED
  BY <1>1, <1>2, LoginStep, CreateStep, RegisterVerifactuStep, PurgeStep, NextDayStep,
     SendStep, AnswerStep, BreakOffStep, MarkSentStep, SaveSentAtStep DEF DeliveryNext

LEMMA StutterKeeps == DeliveryInv /\ UNCHANGED deliveryVars => DeliveryInv'
<1> SUFFICES ASSUME DeliveryInv, UNCHANGED deliveryVars PROVE DeliveryInv'
  OBVIOUS
<1>1. Typed' /\ OwnSession'
  BY DEF DeliveryInv, deliveryVars, Typed, DeliveryTypeOK, OwnSession
<1> QED
  BY <1>1, SessionStep DEF deliveryVars

LEMMA DeliveryInvAlways == DeliverySpec => []DeliveryInv
<1>1. DeliveryInv /\ [DeliveryNext]_deliveryVars => DeliveryInv'
  BY NextKeeps, StutterKeeps
<1> QED
  BY <1>1, InitEstablishes, PTL DEF DeliverySpec

\* documents/services.py, send_invoice_email and mark_sent: however emails, crashes,
\* purges and other requests interleave, an invoice says it was sent only after an
\* email of it went out, and says so of every email save where a request broke off.
THEOREM SentAtIsTrue == DeliverySpec => []SentAtTellsTheTruth
<1>1. DeliveryInv => SentAtTellsTheTruth
  BY DEF DeliveryInv, Typed, Told, Accounted, Went, SentAtTellsTheTruth
<1> QED
  BY <1>1, DeliveryInvAlways, PTL

\* views.py, the issuer kept in the session: whoever logs in, out or is closed out
\* of a shared browser, no session shows and no email names another user's issuer.
THEOREM IssuersStayApart == DeliverySpec => []OwnIssuerOnly
<1>1. DeliveryInv => OwnIssuerOnly
  BY DEF DeliveryInv, OwnSession, Kept, Speaks, OwnIssuerOnly
<1> QED
  BY <1>1, DeliveryInvAlways, PTL

----------------------------------------------------------------------------
(***************************************************************************)
(* Amounts, for any quantities, prices and IRPF rates and any number of    *)
(* lines.  The base of a rate is a recursive function of the lines, so its *)
(* distance from the exact sum, and that the sum over the rates is the     *)
(* total, are shown by induction on the lines.  The library's induction    *)
(* theorems take an operator as their parameter, which cannot be           *)
(* instantiated here; the three lemmas that follow take sets and functions *)
(* instead.                                                                *)
(***************************************************************************)
\* A set of numbers that is not empty has a least one.
LEMMA LeastNumber ==
    ASSUME NEW S, S \subseteq Nat, S # {}
    PROVE  \E n \in S : \A m \in S : n <= m
<1>1. PICK R : R = OpToRel(<, Nat)
  OBVIOUS
<1>2. IsWellFoundedOn(R, Nat)
  BY <1>1, NatLessThanWellFounded
<1>3. PICK n \in S : \A m \in S : ~(<<m, n>> \in R)
  BY <1>2, WFMin
<1>4. \A m, k \in Nat : <<m, k>> \in R <=> m < k
  BY <1>1 DEF OpToRel
<1>5. ASSUME NEW m \in S PROVE n <= m
  <2>1. m \in Nat /\ n \in Nat
    OBVIOUS
  <2>2. ~(m < n)
    BY <1>3, <1>4, <2>1
  <2>3. QED
    BY <2>1, <2>2
<1>6. QED
  BY <1>5

\* What holds of 0, and of i whenever it holds of i - 1, holds up to n.
LEMMA Induction ==
    ASSUME NEW n \in Nat, NEW S, 0 \in S,
           \A i \in 1..n : i - 1 \in S => i \in S
    PROVE  0..n \subseteq S
<1> SUFFICES ASSUME 0..n \ S # {} PROVE FALSE
  OBVIOUS
<1> DEFINE Rest == 0..n \ S
<1>5. Rest \subseteq Nat /\ Rest # {}
  OBVIOUS
<1>1. PICK i \in Rest : \A j \in Rest : i <= j
  <2> HIDE DEF Rest
  <2>1. QED
    BY <1>5, LeastNumber
<1>2. i \in 1..n /\ i - 1 \in 0..n
  OBVIOUS
<1>3. i - 1 \in S
  BY <1>1, <1>2
<1>4. QED
  BY <1>1, <1>2, <1>3

\* f[i] is what the first i steps make of x.
Iterates(f, n, x, step) == f = [i \in 0..n |-> IF i = 0 THEN x ELSE step[i][f[i - 1]]]

\* There is such a function, and what every step keeps within S stays there.
LEMMA Recursion ==
    ASSUME NEW n \in Nat, NEW S, NEW x \in S, NEW step \in [1..n -> [S -> S]]
    PROVE  \E f : Iterates(f, n, x, step) /\ \A i \in 0..n : f[i] \in S
<1> DEFINE Upto(f, m) == /\ f \in [0..m -> S] /\ f[0] = x
                         /\ \A i \in 1..m : f[i] = step[i][f[i - 1]]
           Done == {m \in 0..n : \E f : Upto(f, m)}
<1>1. 0 \in Done
  <2>1. PICK f : f = [i \in 0..0 |-> x]
    OBVIOUS
  <2>2. Upto(f, 0)
    BY <2>1
  <2>3. QED
    BY <2>2
<1>2. ASSUME NEW m \in 1..n, m - 1 \in Done PROVE m \in Done
  <2>1. PICK f : Upto(f, m - 1)
    BY <1>2
  <2>2. m - 1 \in 0..(m - 1) /\ f[m - 1] \in S
    BY <2>1
  <2>3. PICK y : y = step[m][f[m - 1]]
    OBVIOUS
  <2>4. y \in S
    BY <2>2, <2>3
  <2>5. PICK g : g = [i \in 0..m |-> IF i = m THEN y ELSE f[i]]
    OBVIOUS
  <2>6. \A i \in 0..m : i # m => i \in 0..(m - 1)
    OBVIOUS
  <2>7. g \in [0..m -> S] /\ g[0] = x /\ g[m] = y /\ \A i \in 0..(m - 1) : g[i] = f[i]
    BY <2>1, <2>4, <2>5, <2>6
  <2>8. ASSUME NEW i \in 1..m PROVE g[i] = step[i][g[i - 1]]
    <3>1. i - 1 \in 0..(m - 1) /\ g[i - 1] = f[i - 1]
      BY <2>7
    <3>2. CASE i = m
      BY <2>3, <2>7, <3>1, <3>2
    <3>3. CASE i # m
      <4>1. i \in 1..(m - 1) /\ i \in 0..(m - 1)
        BY <3>3
      <4>2. QED
        BY <2>1, <2>7, <3>1, <4>1
    <3>4. QED
      BY <3>2, <3>3
  <2>9. QED
    BY <2>7, <2>8
<1>3. 0..n \subseteq Done
  <2> HIDE DEF Done
  <2>1. QED
    BY <1>1, <1>2, Induction
<1>4. PICK f : Upto(f, n)
  <2>1. n \in Done
    BY <1>3
  <2>2. QED
    BY <2>1
<1>5. Iterates(f, n, x, step)
  <2>1. \A i \in 0..n : i # 0 => i \in 1..n
    OBVIOUS
  <2>2. QED
    BY <1>4, <2>1 DEF Iterates
<1>6. QED
  BY <1>4, <1>5

----------------------------------------------------------------------------
(* Sums *)

\* The sums of the first numbers of a sequence.
LEMMA Sums ==
    ASSUME NEW s \in Seq(Int)
    PROVE  \E f : /\ f \in [0..Len(s) -> Int] /\ f[0] = 0
                  /\ \A i \in 1..Len(s) : f[i] = f[i - 1] + s[i]
                  /\ SumSeq(s) = f[Len(s)]
<1> DEFINE n == Len(s)
           step == [i \in 1..n |-> [c \in Int |-> c + s[i]]]
           Upto == CHOOSE g : g = [i \in 0..n |-> IF i = 0 THEN 0 ELSE g[i - 1] + s[i]]
<1>1. n \in Nat /\ \A i \in 1..n : s[i] \in Int
  OBVIOUS
<1>2. step \in [1..n -> [Int -> Int]]
  BY <1>1
<1>3. PICK f : Iterates(f, n, 0, step) /\ \A i \in 0..n : f[i] \in Int
  <2> HIDE DEF step, n
  <2>1. 0 \in Int
    OBVIOUS
  <2>2. QED
    BY <1>1, <1>2, <2>1, Recursion
<1> HIDE DEF n
<1>4. f = [i \in 0..n |-> f[i]] /\ f[0] = 0
  <2> HIDE DEF step
  <2>1. QED
    BY <1>1, <1>3 DEF Iterates
<1>5. ASSUME NEW i \in 1..n PROVE f[i] = f[i - 1] + s[i]
  <2>1. i \in 0..n /\ i # 0 /\ i - 1 \in 0..n
    BY <1>1
  <2>2. f[i] = step[i][f[i - 1]]
    <3> HIDE DEF step
    <3>1. QED
      BY <1>3, <2>1 DEF Iterates
  <2>3. step[i][f[i - 1]] = f[i - 1] + s[i]
    BY <1>3, <2>1
  <2>4. QED
    BY <2>2, <2>3
<1>6. f = [i \in 0..n |-> IF i = 0 THEN 0 ELSE f[i - 1] + s[i]]
  <2>1. \A i \in 0..n : i # 0 => i \in 1..n
    BY <1>1
  <2>2. QED
    BY <1>4, <1>5, <2>1
<1>7. Upto = [i \in 0..n |-> IF i = 0 THEN 0 ELSE Upto[i - 1] + s[i]]
  BY <1>6
<1>8. SumSeq(s) = Upto[n]
  BY DEF SumSeq, n
<1> HIDE DEF Upto
<1> DEFINE Same == {i \in 0..n : Upto[i] = f[i]}
<1>9. 0..n \subseteq Same
  <2>1. 0 \in Same
    BY <1>1, <1>4, <1>7
  <2>2. ASSUME NEW i \in 1..n, i - 1 \in Same PROVE i \in Same
    <3>1. i \in 0..n /\ i # 0
      BY <1>1
    <3>2. Upto[i] = Upto[i - 1] + s[i]
      BY <1>7, <3>1
    <3>3. QED
      BY <1>5, <2>2, <3>1, <3>2
  <2> HIDE DEF Same
  <2>3. QED
    BY <1>1, <2>1, <2>2, Induction
<1>10. SumSeq(s) = f[n]
  BY <1>1, <1>8, <1>9
<1>11. f \in [0..n -> Int]
  BY <1>3, <1>4
<1>12. QED
  BY <1>4, <1>5, <1>10, <1>11 DEF n

\* A sum of zeros.
LEMMA ZeroSum ==
    ASSUME NEW s \in Seq(Int), \A i \in 1..Len(s) : s[i] = 0
    PROVE  SumSeq(s) = 0
<1>1. PICK f : /\ f[0] = 0
               /\ \A i \in 1..Len(s) : f[i] = f[i - 1] + s[i]
               /\ SumSeq(s) = f[Len(s)]
  BY Sums
<1> DEFINE n == Len(s)
           Zero == {i \in 0..n : f[i] = 0}
<1>2. n \in Nat
  OBVIOUS
<1>3. 0 \in Zero
  BY <1>1, <1>2
<1>4. ASSUME NEW i \in 1..n, i - 1 \in Zero PROVE i \in Zero
  <2>1. i \in 0..n /\ f[i] = f[i - 1] + s[i] /\ f[i - 1] = 0 /\ s[i] = 0
    BY <1>1, <1>2, <1>4
  <2>2. QED
    BY <2>1
<1>5. 0..n \subseteq Zero
  <2> HIDE DEF Zero, n
  <2>1. QED
    BY <1>2, <1>3, <1>4, Induction
<1>6. QED
  BY <1>1, <1>2, <1>5

Plus(s, t) == [i \in 1..Len(s) |-> s[i] + t[i]]

LEMMA SumsAdd ==
    ASSUME NEW s \in Seq(Int), NEW t \in Seq(Int), Len(t) = Len(s)
    PROVE  /\ Plus(s, t) \in Seq(Int) /\ Len(Plus(s, t)) = Len(s)
           /\ SumSeq(s) \in Int /\ SumSeq(t) \in Int
           /\ SumSeq(Plus(s, t)) = SumSeq(s) + SumSeq(t)
<1> DEFINE n == Len(s)
           p == Plus(s, t)
<1>1. n \in Nat /\ \A i \in 1..n : s[i] \in Int /\ t[i] \in Int
  OBVIOUS
<1>2. p \in Seq(Int) /\ Len(p) = n /\ \A i \in 1..n : p[i] = s[i] + t[i]
  BY <1>1 DEF Plus
<1>3. PICK f : /\ f \in [0..n -> Int] /\ f[0] = 0 /\ SumSeq(s) = f[n]
               /\ \A i \in 1..n : f[i] = f[i - 1] + s[i]
  BY Sums
<1>4. PICK g : /\ g \in [0..n -> Int] /\ g[0] = 0 /\ SumSeq(t) = g[n]
               /\ \A i \in 1..n : g[i] = g[i - 1] + t[i]
  BY Sums
<1> HIDE DEF p
<1>5. PICK h : /\ h \in [0..n -> Int] /\ h[0] = 0 /\ SumSeq(p) = h[n]
               /\ \A i \in 1..n : h[i] = h[i - 1] + p[i]
  <2>1. p \in Seq(Int)
    BY <1>2
  <2>2. PICK h : /\ h \in [0..Len(p) -> Int] /\ h[0] = 0 /\ SumSeq(p) = h[Len(p)]
                 /\ \A i \in 1..Len(p) : h[i] = h[i - 1] + p[i]
    BY <2>1, Sums, Zenon
  <2>3. Len(p) = n
    BY <1>2
  <2> HIDE DEF n
  <2>4. QED
    BY <2>2, <2>3
<1> HIDE DEF n
<1> DEFINE Adds == {i \in 0..n : h[i] = f[i] + g[i]}
<1>6. ASSUME NEW i \in 1..n, i - 1 \in Adds PROVE i \in Adds
  <2>1. i \in 0..n /\ f[i - 1] \in Int /\ g[i - 1] \in Int /\ h[i - 1] = f[i - 1] + g[i - 1]
    BY <1>1, <1>3, <1>4, <1>6
  <2>2. f[i] = f[i - 1] + s[i] /\ g[i] = g[i - 1] + t[i] /\ h[i] = h[i - 1] + (s[i] + t[i])
    BY <1>2, <1>3, <1>4, <1>5
  <2>3. QED
    BY <1>1, <2>1, <2>2
<1>7. 0..n \subseteq Adds
  <2>1. 0 \in Adds
    BY <1>1, <1>3, <1>4, <1>5
  <2> HIDE DEF Adds
  <2>2. QED
    BY <1>1, <1>6, <2>1, Induction
<1>8. QED
  BY <1>1, <1>2, <1>3, <1>4, <1>5, <1>7, SMTT(20) DEF p, n

\* m is at most k halves off n/d.
HalvesOff(k, m, n, d) == 2 * (d * m - n) <= k * d /\ 2 * (n - d * m) <= k * d

\* Numbers that are each at most half a unit off add up to a sum that is at most half
\* a unit per number off.
LEMMA SumsStayClose ==
    ASSUME NEW s \in Seq(Int), NEW t \in Seq(Int), Len(t) = Len(s),
           \A i \in 1..Len(s) : HalvesOff(1, s[i], t[i], 1000)
    PROVE  /\ SumSeq(s) \in Int /\ SumSeq(t) \in Int
           /\ HalvesOff(Len(s), SumSeq(s), SumSeq(t), 1000)
<1> DEFINE n == Len(s)
<1>1. n \in Nat /\ \A i \in 1..n : s[i] \in Int /\ t[i] \in Int
  OBVIOUS
<1>2. PICK f : /\ f \in [0..n -> Int] /\ f[0] = 0 /\ SumSeq(s) = f[n]
               /\ \A i \in 1..n : f[i] = f[i - 1] + s[i]
  BY Sums
<1>3. PICK g : /\ g \in [0..Len(t) -> Int] /\ g[0] = 0 /\ SumSeq(t) = g[Len(t)]
               /\ \A i \in 1..Len(t) : g[i] = g[i - 1] + t[i]
  BY Sums
<1>4. g \in [0..n -> Int] /\ SumSeq(t) = g[n] /\ \A i \in 1..n : g[i] = g[i - 1] + t[i]
  BY <1>3
<1>5. \A i \in 1..n : HalvesOff(1, s[i], t[i], 1000)
  OBVIOUS
<1> HIDE DEF n
<1> DEFINE Close == {i \in 0..n : HalvesOff(i, f[i], g[i], 1000)}
<1>6. ASSUME NEW i \in 1..n, i - 1 \in Close PROVE i \in Close
  <2>1. i \in Nat /\ i \in 0..n /\ f[i - 1] \in Int /\ g[i - 1] \in Int
    BY <1>1, <1>2, <1>4, <1>6
  <2>2. f[i] = f[i - 1] + s[i] /\ g[i] = g[i - 1] + t[i]
    BY <1>2, <1>4
  <2>3. HalvesOff(i - 1, f[i - 1], g[i - 1], 1000)
    BY <1>6
  <2>4. HalvesOff(i, f[i - 1] + s[i], g[i - 1] + t[i], 1000)
    <3>1. PICK p \in Int, q \in Int : p = f[i - 1] /\ q = g[i - 1]
      BY <2>1
    <3>2. PICK x \in Int, y \in Int : x = s[i] /\ y = t[i]
      BY <1>1
    <3>3. HalvesOff(i - 1, p, q, 1000) /\ HalvesOff(1, x, y, 1000)
      BY <1>5, <2>3, <3>1, <3>2
    <3>4. HalvesOff(i, p + x, q + y, 1000)
      BY <2>1, <3>3 DEF HalvesOff
    <3>5. QED
      BY <3>1, <3>2, <3>4
  <2>5. QED
    BY <2>1, <2>2, <2>4
<1>7. 0..n \subseteq Close
  <2>1. 0 \in Close
    BY <1>1, <1>2, <1>3 DEF HalvesOff
  <2> HIDE DEF Close
  <2>2. QED
    BY <1>1, <1>6, <2>1, Induction
<1>8. QED
  <2>1. n \in Close /\ f[n] \in Int /\ g[n] \in Int
    BY <1>1, <1>2, <1>4, <1>7
  <2>2. HalvesOff(n, SumSeq(s), SumSeq(t), 1000)
    BY <1>2, <1>4, <2>1
  <2>3. QED
    BY <1>2, <1>4, <2>1, <2>2 DEF n

----------------------------------------------------------------------------
(* Rounding *)

\* money is a whole number of cents, at most half a cent off.
LEMMA MoneyOfThousandths ==
    ASSUME NEW n \in Int
    PROVE  /\ Money(n, 1000) \in Int
           /\ HalvesOff(1, Money(n, 1000), n, 1000)
BY DEF Money, HalvesOff

LEMMA MoneyOfHundredths ==
    ASSUME NEW n \in Int
    PROVE  /\ Money(n, 100) \in Int
           /\ HalvesOff(1, Money(n, 100), n, 100)
           /\ n = 0 => Money(n, 100) = 0
BY DEF Money, HalvesOff

LEMMA MoneyOfTenThousandths ==
    ASSUME NEW n \in Int
    PROVE  /\ Money(n, 10000) \in Int
           /\ HalvesOff(1, Money(n, 10000), n, 10000)
BY DEF Money, HalvesOff

LEMMA LineAmounts ==
    ASSUME NEW l \in Lines
    PROVE  /\ l.quantity * l.price \in Int /\ l.rate \in IVA_RATES /\ LineAmount(l) \in Int
           /\ HalvesOff(1, LineAmount(l), l.quantity * l.price, 1000)
<1>1. l.quantity \in Nat /\ l.price \in Nat /\ l.rate \in IVA_RATES
  <2>1. l.quantity \in Quantities /\ l.price \in Prices /\ l.rate \in IVA_RATES
    BY DEF Lines
  <2>2. \A n \in Quantities : n \in Nat
    BY AmountsAssumption, SMTT(20)
  <2>3. \A n \in Prices : n \in Nat
    BY AmountsAssumption, SMTT(20)
  <2>4. QED
    BY <2>1, <2>2, <2>3
<1>2. PICK n \in Int : n = l.quantity * l.price
  BY <1>1
<1>3. QED
  BY <1>1, <1>2, MoneyOfThousandths DEF LineAmount

LEMMA Columns ==
    ASSUME NEW ls \in Seq(Lines), NEW r \in IVA_RATES
    PROVE  /\ Column(ls, r) \in Seq(Int) /\ Len(Column(ls, r)) = Len(ls)
           /\ \A i \in 1..Len(ls) :
                 Column(ls, r)[i] = IF ls[i].rate = r THEN LineAmount(ls[i]) ELSE 0
<1>1. Len(ls) \in Nat /\ \A i \in 1..Len(ls) : LineAmount(ls[i]) \in Int
  BY LineAmounts
<1>2. QED
  BY <1>1 DEF Column

\* A rate that no line has, has base 0.
LEMMA BasesAreInts ==
    ASSUME NEW ls \in Seq(Lines)
    PROVE  \A r \in IVA_RATES :
               Bases(ls)[r] \in Int /\ (r \notin Groups(ls) => Bases(ls)[r] = 0)
<1> SUFFICES ASSUME NEW r \in IVA_RATES
             PROVE  Bases(ls)[r] \in Int /\ (r \notin Groups(ls) => Bases(ls)[r] = 0)
  OBVIOUS
<1>1. Bases(ls)[r] = SumSeq(Column(ls, r))
  BY DEF Bases
<1>2. Column(ls, r) \in Seq(Int) /\ Len(ls) \in Nat /\ Len(Column(ls, r)) = Len(ls)
  BY Columns
<1>3. PICK f : f \in [0..Len(ls) -> Int] /\ SumSeq(Column(ls, r)) = f[Len(ls)]
  BY <1>2, Sums
<1>4. ASSUME r \notin Groups(ls) PROVE SumSeq(Column(ls, r)) = 0
  <2>1. \A i \in 1..Len(ls) : ls[i].rate # r
    BY <1>4 DEF Groups
  <2>2. QED
    BY <1>2, <2>1, Columns, ZeroSum
<1>5. QED
  BY <1>1, <1>2, <1>3, <1>4

\* The columns of the rates add up to the line amounts.
LEMMA BaseIsSum ==
    ASSUME NEW ls \in Seq(Lines), NEW s \in Seq(Int), Len(s) = Len(ls),
           \A i \in 1..Len(ls) : s[i] = LineAmount(ls[i])
    PROVE  SumOverRates(Bases(ls)) = SumSeq(s)
<1> DEFINE C(r) == Column(ls, r)
           p == Plus(Plus(Plus(C(21), C(10)), C(4)), C(0))
<1>1. {21, 10, 4, 0} = IVA_RATES /\ Len(ls) \in Nat
  BY DEF IVA_RATES
<1>2. \A r \in IVA_RATES : /\ C(r) \in Seq(Int) /\ Len(C(r)) = Len(ls)
                           /\ Bases(ls)[r] = SumSeq(C(r))
  BY Columns DEF Bases
<1>3. p \in Seq(Int) /\ Len(p) = Len(ls) /\ SumSeq(p) = SumOverRates(Bases(ls))
  <2> HIDE DEF C
  <2> DEFINE q == Plus(C(21), C(10))
             u == Plus(q, C(4))
  <2>1. /\ q \in Seq(Int) /\ Len(q) = Len(ls) /\ SumSeq(q) = SumSeq(C(21)) + SumSeq(C(10))
        /\ SumSeq(C(21)) \in Int /\ SumSeq(C(10)) \in Int
    BY <1>1, <1>2, SumsAdd
  <2> HIDE DEF q
  <2>2. /\ u \in Seq(Int) /\ Len(u) = Len(ls) /\ SumSeq(u) = SumSeq(q) + SumSeq(C(4))
        /\ SumSeq(C(4)) \in Int
    BY <1>1, <1>2, <2>1, SumsAdd, ZenonT(60)
  <2> HIDE DEF u
  <2>3. /\ Plus(u, C(0)) \in Seq(Int) /\ Len(Plus(u, C(0))) = Len(ls)
        /\ SumSeq(Plus(u, C(0))) = SumSeq(u) + SumSeq(C(0)) /\ SumSeq(C(0)) \in Int
    BY <1>1, <1>2, <2>2, SumsAdd, ZenonT(60)
  <2>4. SumOverRates(Bases(ls)) = SumSeq(C(21)) + SumSeq(C(10)) + SumSeq(C(4)) + SumSeq(C(0))
    BY <1>1, <1>2 DEF SumOverRates
  <2>5. QED
    BY <2>1, <2>2, <2>3, <2>4 DEF u, q
<1>4. ASSUME NEW i \in 1..Len(ls) PROVE p[i] = s[i]
  <2>1. ls[i] \in Lines
    OBVIOUS
  <2>2. PICK x \in Int : x = LineAmount(ls[i])
    BY <2>1, LineAmounts
  <2>3. ls[i].rate \in {21, 10, 4, 0}
    BY <2>1 DEF Lines, IVA_RATES
  <2>4. \A r \in {21, 10, 4, 0} : C(r)[i] = IF ls[i].rate = r THEN x ELSE 0
    BY <1>1, <2>2, Columns
  <2> HIDE DEF C
  <2>5. p[i] = C(21)[i] + C(10)[i] + C(4)[i] + C(0)[i]
    <3>1. \A u, v : Len(u) = Len(ls) => Plus(u, v)[i] = u[i] + v[i]
      BY DEF Plus
    <3>2. \A u : Len(u) = Len(ls) => \A v : Len(Plus(u, v)) = Len(ls)
      BY <1>1 DEF Plus
    <3>3. Len(C(21)) = Len(ls)
      BY <1>1, <1>2
    <3>4. QED
      BY <3>1, <3>2, <3>3
  <2>6. QED
    BY <2>2, <2>3, <2>4, <2>5
<1>5. p = s
  <2> HIDE DEF p
  <2>1. QED
    BY <1>1, <1>3, <1>4
<1>6. QED
  BY <1>3, <1>5

\* Half a cent per line.
LEMMA BaseIsClose ==
    ASSUME NEW ls \in Seq(Lines)
    PROVE  /\ Exact(ls) \in Int
           /\ HalvesOff(Len(ls), SumOverRates(Bases(ls)), Exact(ls), 1000)
<1> DEFINE s == [i \in 1..Len(ls) |-> LineAmount(ls[i])]
           t == [i \in 1..Len(ls) |-> ls[i].quantity * ls[i].price]
<1>1. Len(ls) \in Nat /\ \A i \in 1..Len(ls) : ls[i] \in Lines
  OBVIOUS
<1>2. s \in Seq(Int) /\ Len(s) = Len(ls) /\ \A i \in 1..Len(ls) : s[i] = LineAmount(ls[i])
  <2>1. \A i \in 1..Len(ls) : LineAmount(ls[i]) \in Int
    BY <1>1, LineAmounts
  <2>2. QED
    BY <1>1, <2>1
<1>3. /\ t \in Seq(Int) /\ Len(t) = Len(ls)
      /\ \A i \in 1..Len(ls) : t[i] = ls[i].quantity * ls[i].price
  <2>1. \A i \in 1..Len(ls) : ls[i].quantity * ls[i].price \in Int
    BY <1>1, LineAmounts
  <2>2. QED
    BY <1>1, <2>1
<1>4. Exact(ls) = SumSeq(t)
  BY DEF Exact
<1> HIDE DEF s, t
<1>5. ASSUME NEW i \in 1..Len(ls)
      PROVE  HalvesOff(1, s[i], t[i], 1000)
  <2>1. HalvesOff(1, LineAmount(ls[i]), ls[i].quantity * ls[i].price, 1000)
    BY <1>1, LineAmounts
  <2>2. QED
    BY <1>2, <1>3, <2>1
<1>6. SumOverRates(Bases(ls)) = SumSeq(s)
  BY <1>2, BaseIsSum
<1>7. SumSeq(t) \in Int /\ HalvesOff(Len(s), SumSeq(s), SumSeq(t), 1000)
  <2>1. Len(t) = Len(s) /\ \A i \in 1..Len(s) : HalvesOff(1, s[i], t[i], 1000)
    BY <1>2, <1>3, <1>5
  <2>2. QED
    BY <1>2, <1>3, <2>1, SumsStayClose
<1>8. QED
  BY <1>2, <1>4, <1>6, <1>7

----------------------------------------------------------------------------
(* The amounts of an invoice *)

AmountsInv == lines \in Seq(Lines) /\ irpf \in IrpfRates

LEMMA AmountsInvHolds == AmountsSpec => []AmountsInv
<1>1. AmountsInit => AmountsInv
  BY DEF AmountsInit, AmountsInv
<1>2. AmountsInv /\ [AmountsNext]_<<lines, irpf>> => AmountsInv'
  BY DEF AmountsInv, AmountsNext, AddLine
<1>3. QED
  BY <1>1, <1>2, PTL DEF AmountsSpec

\* The quota of a rate: of the exempt one, and of one without lines, it is 0.
LEMMA Quotas ==
    ASSUME NEW ls \in Seq(Lines), NEW r \in IVA_RATES
    PROVE  LET b == Bases(ls)[r]
               q == Iva(Bases(ls))[r]
           IN  /\ b \in Int /\ q \in Int
               /\ HalvesOff(IF r # 0 /\ r \in Groups(ls) THEN 1 ELSE 0, q, b * r, 100)
               /\ r = 0 \/ r \notin Groups(ls) => q = 0
               /\ r \notin Groups(ls) => b = 0
<1>1. PICK b \in Int : b = Bases(ls)[r]
  BY BasesAreInts
<1>2. r \notin Groups(ls) => b = 0
  BY <1>1, BasesAreInts
<1>3. Iva(Bases(ls))[r] = Money(b * r, 100)
  BY <1>1 DEF Iva, Percent
<1>4. PICK n \in Int : n = b * r
  BY DEF IVA_RATES
<1>5. r = 0 \/ r \notin Groups(ls) => n = 0
  BY <1>2, <1>4 DEF IVA_RATES
<1>6. PICK q \in Int : q = Money(n, 100) /\ HalvesOff(1, q, n, 100) /\ (n = 0 => q = 0)
  BY MoneyOfHundredths
<1>7. HalvesOff(IF r # 0 /\ r \in Groups(ls) THEN 1 ELSE 0, q, n, 100)
  <2>1. HalvesOff(0, 0, 0, 100)
    BY DEF HalvesOff
  <2>2. QED
    BY <1>5, <1>6, <2>1
<1>8. QED
  BY <1>1, <1>2, <1>3, <1>4, <1>5, <1>6, <1>7

\* calc.py:4-8: whatever the lines and the IRPF rate, the base is off by at most half a
\* cent per line, the IVA, rounded per rate and not per line, by at most half a cent per
\* taxed rate, and the retention by half a cent.
THEOREM RoundingStaysBounded == AmountsSpec => []RoundingIsBounded
<1>1. AmountsInv => RoundingIsBounded
  <2> SUFFICES ASSUME AmountsInv PROVE RoundingIsBounded
    OBVIOUS
  <2> DEFINE b == Bases(lines)
             q == Iva(b)
             taxed == [r \in IVA_RATES |-> IF r # 0 /\ r \in Groups(lines) THEN 1 ELSE 0]
             t == Totals(b, irpf)
  <2>1. lines \in Seq(Lines) /\ Len(lines) \in Nat
    BY DEF AmountsInv
  <2>2. t.taxable_base = SumOverRates(b) /\ t.iva_total = SumOverRates(q)
    BY DEF Totals
  <2>3. \A r \in IVA_RATES :
           /\ b[r] \in Int /\ q[r] \in Int /\ HalvesOff(taxed[r], q[r], b[r] * r, 100)
           /\ taxed[r] \in {0, 1} /\ (r = 0 => q[r] = 0)
    BY <2>1, Quotas
  <2> HIDE DEF b, q, taxed, t
  <2>4. 2 * Distance(1000 * SumOverRates(b), Exact(lines)) <= 1000 * Len(lines)
    <3>1. SumOverRates(b) \in Int
      BY <2>3 DEF SumOverRates, IVA_RATES
    <3>2. Exact(lines) \in Int /\ HalvesOff(Len(lines), SumOverRates(b), Exact(lines), 1000)
      BY <2>1, BaseIsClose DEF b
    <3>3. QED
      BY <2>1, <3>1, <3>2 DEF HalvesOff, Distance
  <2>5. 2 * Distance(100 * SumOverRates(q), 21 * b[21] + 10 * b[10] + 4 * b[4])
          <= 100 * SumOverRates(taxed)
    <3> DEFINE Near(r, x, y, k) ==
                 /\ x \in Int /\ y \in Int /\ k \in Int
                 /\ x = b[r] /\ y = q[r] /\ k = taxed[r] /\ HalvesOff(k, y, x * r, 100)
    <3>0. \A r \in {21, 10, 4} : \E x, y, k : Near(r, x, y, k)
      BY <2>3 DEF IVA_RATES
    <3>1. PICK b1, q1, t1 : Near(21, b1, q1, t1)
      <4> HIDE DEF Near
      <4>1. QED
        BY <3>0
    <3>2. PICK b2, q2, t2 : Near(10, b2, q2, t2)
      <4> HIDE DEF Near
      <4>1. QED
        BY <3>0
    <3>3. PICK b3, q3, t3 : Near(4, b3, q3, t3)
      <4> HIDE DEF Near
      <4>1. QED
        BY <3>0
    <3>4. PICK t4 \in Nat : t4 = taxed[0] /\ q[0] = 0
      BY <2>3 DEF IVA_RATES
    <3>5. /\ SumOverRates(q) = q1 + q2 + q3 /\ SumOverRates(taxed) = t1 + t2 + t3 + t4
          /\ 21 * b[21] + 10 * b[10] + 4 * b[4] = 21 * b1 + 10 * b2 + 4 * b3
      BY <3>1, <3>2, <3>3, <3>4 DEF SumOverRates
    <3>6. 2 * Distance(100 * (q1 + q2 + q3), 21 * b1 + 10 * b2 + 4 * b3)
            <= 100 * (t1 + t2 + t3 + t4)
      BY <3>1, <3>2, <3>3 DEF HalvesOff, Distance
    <3>7. QED
      BY <3>5, <3>6
  <2>6. 2 * Distance(10000 * t.irpf_retention, irpf * t.taxable_base) <= 10000
    <3>1. PICK base \in Int : base = SumOverRates(b)
      BY <2>3 DEF SumOverRates, IVA_RATES
    <3>2. irpf \in Int
      BY AmountsAssumption DEF AmountsInv
    <3>3. PICK n \in Int : n = base * irpf /\ n = irpf * base
      BY <3>2
    <3>4. PICK x \in Int : x = Money(n, 10000) /\ HalvesOff(1, x, n, 10000)
      BY MoneyOfTenThousandths
    <3>5. t.irpf_retention = x
      BY <3>1, <3>3, <3>4 DEF t, Totals, b
    <3>6. 2 * Distance(10000 * x, n) <= 10000
      BY <3>4 DEF HalvesOff, Distance
    <3>7. QED
      BY <2>2, <3>1, <3>3, <3>5, <3>6
  <2>7. QED
    BY <2>2, <2>4, <2>5, <2>6 DEF RoundingIsBounded, b, t, taxed
<1>2. QED
  BY <1>1, AmountsInvHolds, PTL

\* documents/services.py:16-20, records.py:136-139: the record is the sum of its own
\* breakdown, the QR code says the same, and the total to pay is that less the retention.
THEOREM RecordsAddUp == AmountsSpec => []RecordAddsUp
<1>1. AmountsInv => RecordAddsUp
  <2> SUFFICES ASSUME AmountsInv PROVE RecordAddsUp
    OBVIOUS
  <2> DEFINE b == Bases(lines)
             q == Iva(b)
             t == Totals(b, irpf)
             a == Alta(lines)
             d == Desglose(lines)
             cuotas == [r \in IVA_RATES |-> IF r \in DOMAIN d THEN d[r].cuota ELSE 0]
             bases == [r \in IVA_RATES |-> IF r \in DOMAIN d THEN d[r].base ELSE 0]
  <2>1. lines \in Seq(Lines)
    BY DEF AmountsInv
  <2>2. PICK base \in Int, iva \in Int : base = SumOverRates(b) /\ iva = SumOverRates(q)
    <3>1. \A r \in IVA_RATES : b[r] \in Int /\ q[r] \in Int
      BY <2>1, Quotas
    <3> HIDE DEF b, q
    <3>2. QED
      BY <3>1 DEF SumOverRates, IVA_RATES
  <2>3. PICK retention \in Int : retention = Money(base * irpf, 10000)
    <3>1. irpf \in Int
      BY AmountsAssumption DEF AmountsInv
    <3>2. PICK n \in Int : n = base * irpf
      BY <3>1
    <3>3. QED
      BY <3>2, MoneyOfTenThousandths
  <2>4. /\ t.taxable_base = base /\ t.iva_total = iva /\ t.irpf_retention = retention
        /\ t.grand_total = base + iva - retention
    BY <2>2, <2>3 DEF Totals
  <2>5. a.cuota_total = iva /\ a.importe_total = base + iva /\ a.desglose = d
    BY <2>2 DEF Alta, Totals
  <2>6. SumOverRates(cuotas) = iva /\ SumOverRates(bases) = base
    <3>1. \A r \in IVA_RATES :
             /\ r \in DOMAIN d => d[r].base = b[r] /\ d[r].cuota = IF r = 0 THEN 0 ELSE q[r]
             /\ r \notin DOMAIN d => b[r] = 0 /\ q[r] = 0
             /\ r = 0 => q[r] = 0
      BY <2>1, Quotas DEF Desglose
    <3> HIDE DEF b, q, d
    <3>2. \A r \in IVA_RATES : cuotas[r] = q[r] /\ bases[r] = b[r]
      BY <3>1
    <3> HIDE DEF cuotas, bases
    <3>3. QED
      BY <2>2, <3>2 DEF SumOverRates, IVA_RATES
  <2> HIDE DEF b, q, t, a, d, cuotas, bases
  <2>7. /\ a.cuota_total = SumOverRates(cuotas)
        /\ a.importe_total = SumOverRates(bases) + a.cuota_total
        /\ QrImporte(t) = a.importe_total
        /\ t.grand_total = a.importe_total - t.irpf_retention
        /\ Rectificada(a) = [base |-> t.taxable_base, cuota |-> t.iva_total]
    BY <2>4, <2>5, <2>6 DEF QrImporte, Rectificada
  <2>8. QED
    BY <2>5, <2>7 DEF RecordAddsUp, b, t, a, cuotas, bases
<1>2. QED
  BY <1>1, AmountsInvHolds, PTL

----------------------------------------------------------------------------
(***************************************************************************)
(* TaxId, for any ids.  Two ids that differ in one digit have numbers that *)
(* differ by k * (a - b), which 23 does not divide, or totals that differ  *)
(* by less than 10: their control characters differ.  A mistake keeps the  *)
(* format of the id, so there is no other check it could pass.             *)
(***************************************************************************)

\* One character of v is mistaken for another of its kind.
Mistake(v, i, c) ==
    /\ c # v[i]
    /\ \/ v[i] \in Digits /\ c \in Digits
       \/ i = 1 /\ {v[i], c} \subseteq DOMAIN NIE_PREFIX
       \/ i = 9 /\ {v[i], c} \cap Digits = {}

----------------------------------------------------------------------------
(* The characters and the number *)

LEMMA DigitValues ==
    /\ DigitValue \in [Digits -> 0..9]
    /\ \A a, b \in Digits : DigitValue[a] = DigitValue[b] => a = b
<1>1. ASSUME NEW d \in Digits PROVE \E n \in 0..9 : NUMERALS[n + 1] = d
  BY DEF Digits, NUMERALS
<1>2. ASSUME NEW d \in Digits
      PROVE  DigitValue[d] \in 0..9 /\ NUMERALS[DigitValue[d] + 1] = d
  BY <1>1 DEF DigitValue
<1>3. QED
  BY <1>2 DEF DigitValue

LEMMA DniLetters ==
    ASSUME NEW m \in Nat, NEW n \in Nat, DniLetter(m) = DniLetter(n)
    PROVE  m % 23 = n % 23
<1>1. \A i, j \in 1..23 : DNI_LETTERS[i] = DNI_LETTERS[j] => i = j
  BY DEF DNI_LETTERS
<1>2. PICK i \in 0..22, j \in 0..22 : i = m % 23 /\ j = n % 23
  OBVIOUS
<1>3. QED
  BY <1>1, <1>2 DEF DniLetter

LEMMA CifLetters ==
    /\ \A i, j \in 1..10 : CIF_CONTROL_LETTERS[i] = CIF_CONTROL_LETTERS[j] => i = j
    /\ \A i \in 1..10 : CIF_CONTROL_LETTERS[i] \notin Digits
BY DEF CIF_CONTROL_LETTERS, Digits

LEMMA DniLettersAreLetters == \A n \in Nat : DniLetter(n) \notin Digits
<1>1. \A i \in 1..23 : DNI_LETTERS[i] \notin Digits
  BY DEF DNI_LETTERS, Digits
<1>2. QED
  BY <1>1 DEF DniLetter

Powers == {1, 10, 100, 1000, 10000, 100000, 1000000, 10000000}

\* The numbers m and n differ by another digit in one place.
OneDigitOff(m, n) ==
    \E k \in Powers, a \in 0..9, b \in 0..9 : a # b /\ m - n = k * (a - b)

LEMMA Remainder == \A n \in Nat : \E q \in Int : n = 23 * q + (n % 23) /\ n % 23 \in 0..22
OBVIOUS

\* Two numbers that differ in one digit have other remainders.
LEMMA OneDigit ==
    ASSUME NEW m \in Nat, NEW n \in Nat, OneDigitOff(m, n)
    PROVE  m % 23 # n % 23
<1>1. PICK q \in Int : m = 23 * q + (m % 23) /\ m % 23 \in 0..22
  BY Remainder
<1>2. PICK p \in Int : n = 23 * p + (n % 23) /\ n % 23 \in 0..22
  BY Remainder
<1>3. PICK z \in Int : z = q - p
  BY SMTT(20)
<1>4. m % 23 = n % 23 => 23 * z = m - n
  BY <1>1, <1>2, <1>3, SMTT(20)
<1>5. PICK k \in Powers, a \in 0..9, b \in 0..9 : a # b /\ m - n = k * (a - b)
  BY DEF OneDigitOff
<1>6. 23 * z # m - n
  <2>1. CASE k = 1
    BY <1>5, <2>1, SMTT(20)
  <2>2. CASE k = 10
    BY <1>5, <2>2, SMTT(20)
  <2>3. CASE k = 100
    BY <1>5, <2>3, SMTT(20)
  <2>4. CASE k = 1000
    BY <1>5, <2>4, SMTT(20)
  <2>5. CASE k = 10000
    BY <1>5, <2>5, SMTT(20)
  <2>6. CASE k = 100000
    BY <1>5, <2>6, SMTT(20)
  <2>7. CASE k = 1000000
    BY <1>5, <2>7, SMTT(20)
  <2>8. CASE k = 10000000
    BY <1>5, <2>8, SMTT(20)
  <2>9. QED
    BY <2>1, <2>2, <2>3, <2>4, <2>5, <2>6, <2>7, <2>8, SMTT(20) DEF Powers
<1>7. QED
  BY <1>1, <1>2, <1>4, <1>6, SMTT(20)

LEMMA Weights ==
    \A a, b \in 0..9 : Weighted(a) \in 0..9 /\ (Weighted(a) = Weighted(b) => a = b)
BY DEF Weighted

\* The seven digits of an id and the number they make.
Sevenths(v, a) ==
    /\ a \in [2..8 -> 0..9]
    /\ \A i \in 2..8 : v[i] \in Digits /\ DigitValue[v[i]] = a[i]

LEMMA SevenDigits ==
    ASSUME NEW v, AllDigits(v, 2, 8)
    PROVE  \E a : Sevenths(v, a)
<1>1. \A i \in 2..8 : v[i] \in Digits /\ DigitValue[v[i]] \in 0..9
  BY DigitValues DEF AllDigits
<1>2. PICK a : a = [i \in 2..8 |-> DigitValue[v[i]]]
  OBVIOUS
<1>3. QED
  BY <1>1, <1>2 DEF Sevenths

LEMMA SevenIs ==
    ASSUME NEW v, NEW a, Sevenths(v, a)
    PROVE  /\ Seven(v) = 1000000 * a[2] + 100000 * a[3] + 10000 * a[4] + 1000 * a[5]
                         + 100 * a[6] + 10 * a[7] + a[8]
           /\ Seven(v) \in Nat
<1>1. a \in [2..8 -> 0..9]
  BY DEF Sevenths
<1>2. /\ DigitValue[v[2]] = a[2] /\ DigitValue[v[3]] = a[3] /\ DigitValue[v[4]] = a[4]
      /\ DigitValue[v[5]] = a[5] /\ DigitValue[v[6]] = a[6] /\ DigitValue[v[7]] = a[7]
      /\ DigitValue[v[8]] = a[8]
  BY DEF Sevenths
<1>3. Seven(v) = 1000000 * a[2] + 100000 * a[3] + 10000 * a[4] + 1000 * a[5]
                 + 100 * a[6] + 10 * a[7] + a[8]
  BY <1>2, SMTT(20) DEF Seven
<1>4. PICK a2 \in 0..9, a3 \in 0..9, a4 \in 0..9, a5 \in 0..9,
          a6 \in 0..9, a7 \in 0..9, a8 \in 0..9 :
         /\ a2 = a[2] /\ a3 = a[3] /\ a4 = a[4]
         /\ a5 = a[5] /\ a6 = a[6] /\ a7 = a[7] /\ a8 = a[8]
  <2>1. /\ a[2] \in 0..9 /\ a[3] \in 0..9 /\ a[4] \in 0..9 /\ a[5] \in 0..9
        /\ a[6] \in 0..9 /\ a[7] \in 0..9 /\ a[8] \in 0..9
    BY <1>1
  <2>2. QED
    BY <2>1, Zenon
<1>5. Seven(v) = 1000000 * a2 + 100000 * a3 + 10000 * a4 + 1000 * a5
                 + 100 * a6 + 10 * a7 + a8
  BY <1>3, <1>4, SMTT(20)
<1>6. Seven(v) \in Nat
  BY <1>5, SMTT(20)
<1>7. QED
  BY <1>3, <1>6, SMTT(20)

LEMMA SevenShifts ==
    ASSUME NEW v, NEW w, NEW a, NEW b, NEW i \in 2..8, Sevenths(v, a), Sevenths(w, b),
           \A j \in 2..8 : j # i => w[j] = v[j]
    PROVE  \E k \in Powers :
               Seven(w) - Seven(v) = k * (b[i] - a[i])
<1>1. /\ a \in [2..8 -> 0..9] /\ b \in [2..8 -> 0..9]
      /\ \A j \in 2..8 : j # i => b[j] = a[j]
  BY DEF Sevenths
<1>2. PICK a2 \in 0..9, a3 \in 0..9, a4 \in 0..9, a5 \in 0..9,
          a6 \in 0..9, a7 \in 0..9, a8 \in 0..9 :
         /\ a2 = a[2] /\ a3 = a[3] /\ a4 = a[4]
         /\ a5 = a[5] /\ a6 = a[6] /\ a7 = a[7] /\ a8 = a[8]
  <2>1. /\ a[2] \in 0..9 /\ a[3] \in 0..9 /\ a[4] \in 0..9 /\ a[5] \in 0..9
        /\ a[6] \in 0..9 /\ a[7] \in 0..9 /\ a[8] \in 0..9
    BY <1>1
  <2>2. QED
    BY <2>1, Zenon
<1>3. PICK b2 \in 0..9, b3 \in 0..9, b4 \in 0..9, b5 \in 0..9,
          b6 \in 0..9, b7 \in 0..9, b8 \in 0..9 :
         /\ b2 = b[2] /\ b3 = b[3] /\ b4 = b[4]
         /\ b5 = b[5] /\ b6 = b[6] /\ b7 = b[7] /\ b8 = b[8]
  <2>1. /\ b[2] \in 0..9 /\ b[3] \in 0..9 /\ b[4] \in 0..9 /\ b[5] \in 0..9
        /\ b[6] \in 0..9 /\ b[7] \in 0..9 /\ b[8] \in 0..9
    BY <1>1
  <2>2. QED
    BY <2>1, Zenon
<1>4. PICK m \in Nat, n \in Nat :
         /\ n = Seven(v)
         /\ n = 1000000 * a2 + 100000 * a3 + 10000 * a4 + 1000 * a5
                 + 100 * a6 + 10 * a7 + a8
         /\ m = Seven(w)
         /\ m = 1000000 * b2 + 100000 * b3 + 10000 * b4 + 1000 * b5
                 + 100 * b6 + 10 * b7 + b8
  BY <1>2, <1>3, SevenIs, SMTT(20)
<1>5. CASE i = 2
  <2>1. b3 = a3 /\ b4 = a4 /\ b5 = a5 /\ b6 = a6 /\ b7 = a7 /\ b8 = a8
    BY <1>1, <1>2, <1>3, <1>5
  <2>2. m - n = 1000000 * (b2 - a2)
    BY <1>4, <2>1, SMTT(20)
  <2>3. QED
    BY <1>2, <1>3, <1>4, <1>5, <2>2, SMTT(20) DEF Powers
<1>6. CASE i = 3
  <2>1. b2 = a2 /\ b4 = a4 /\ b5 = a5 /\ b6 = a6 /\ b7 = a7 /\ b8 = a8
    BY <1>1, <1>2, <1>3, <1>6
  <2>2. m - n = 100000 * (b3 - a3)
    BY <1>4, <2>1, SMTT(20)
  <2>3. QED
    BY <1>2, <1>3, <1>4, <1>6, <2>2, SMTT(20) DEF Powers
<1>7. CASE i = 4
  <2>1. b2 = a2 /\ b3 = a3 /\ b5 = a5 /\ b6 = a6 /\ b7 = a7 /\ b8 = a8
    BY <1>1, <1>2, <1>3, <1>7
  <2>2. m - n = 10000 * (b4 - a4)
    BY <1>4, <2>1, SMTT(20)
  <2>3. QED
    BY <1>2, <1>3, <1>4, <1>7, <2>2, SMTT(20) DEF Powers
<1>8. CASE i = 5
  <2>1. b2 = a2 /\ b3 = a3 /\ b4 = a4 /\ b6 = a6 /\ b7 = a7 /\ b8 = a8
    BY <1>1, <1>2, <1>3, <1>8
  <2>2. m - n = 1000 * (b5 - a5)
    BY <1>4, <2>1, SMTT(20)
  <2>3. QED
    BY <1>2, <1>3, <1>4, <1>8, <2>2, SMTT(20) DEF Powers
<1>9. CASE i = 6
  <2>1. b2 = a2 /\ b3 = a3 /\ b4 = a4 /\ b5 = a5 /\ b7 = a7 /\ b8 = a8
    BY <1>1, <1>2, <1>3, <1>9
  <2>2. m - n = 100 * (b6 - a6)
    BY <1>4, <2>1, SMTT(20)
  <2>3. QED
    BY <1>2, <1>3, <1>4, <1>9, <2>2, SMTT(20) DEF Powers
<1>10. CASE i = 7
  <2>1. b2 = a2 /\ b3 = a3 /\ b4 = a4 /\ b5 = a5 /\ b6 = a6 /\ b8 = a8
    BY <1>1, <1>2, <1>3, <1>10
  <2>2. m - n = 10 * (b7 - a7)
    BY <1>4, <2>1, SMTT(20)
  <2>3. QED
    BY <1>2, <1>3, <1>4, <1>10, <2>2, SMTT(20) DEF Powers
<1>11. CASE i = 8
  <2>1. b2 = a2 /\ b3 = a3 /\ b4 = a4 /\ b5 = a5 /\ b6 = a6 /\ b7 = a7
    BY <1>1, <1>2, <1>3, <1>11
  <2>2. m - n = 1 * (b8 - a8)
    BY <1>4, <2>1, SMTT(20)
  <2>3. QED
    BY <1>2, <1>3, <1>4, <1>11, <2>2, SMTT(20) DEF Powers
<1>12. QED
  BY <1>5, <1>6, <1>7, <1>8, <1>9, <1>10, <1>11, SMTT(20)

----------------------------------------------------------------------------
(* The control characters *)

\* w is v with another digit in the i-th place.
Mistyped(v, i, w) ==
    /\ AllDigits(v, 2, 8) /\ AllDigits(w, 2, 8)
    /\ w[i] # v[i] /\ \A j \in 2..8 : j # i => w[j] = v[j]

LEMMA MistypedDigits ==
    ASSUME NEW v, NEW w, NEW i \in 2..8, Mistyped(v, i, w)
    PROVE  \E a, b : /\ Sevenths(v, a) /\ Sevenths(w, b)
                     /\ a \in [2..8 -> 0..9] /\ b \in [2..8 -> 0..9]
                     /\ a[i] # b[i] /\ \A j \in 2..8 : j # i => b[j] = a[j]
<1>1. PICK a, b : Sevenths(v, a) /\ Sevenths(w, b)
  BY SevenDigits DEF Mistyped
<1>2. a \in [2..8 -> 0..9] /\ b \in [2..8 -> 0..9]
  BY <1>1 DEF Sevenths
<1>3. \A j \in 2..8 : j # i => b[j] = a[j]
  BY <1>1 DEF Sevenths, Mistyped
<1>4. a[i] # b[i]
  BY <1>1, DigitValues DEF Sevenths, Mistyped
<1>5. QED
  BY <1>1, <1>2, <1>3, <1>4

\* The letter of a DNI or a NIE, of which p is the value of the first character.
LetterOf(p, v) == DniLetter(10000000 * p + Seven(v))

LEMMA LetterIsNoDigit ==
    ASSUME NEW p \in 0..9, NEW v, AllDigits(v, 2, 8)
    PROVE  LetterOf(p, v) \notin Digits
<1>1. PICK n \in Nat : n = 10000000 * p + Seven(v)
  BY SevenDigits, SevenIs, SMTT(20)
<1>2. LetterOf(p, v) = DniLetter(n)
  BY <1>1, SMTT(20) DEF LetterOf
<1>3. QED
  BY <1>2, DniLettersAreLetters

LEMMA LetterTellsDigits ==
    ASSUME NEW p \in 0..9, NEW v, NEW w, NEW i \in 2..8, Mistyped(v, i, w)
    PROVE  LetterOf(p, w) # LetterOf(p, v)
<1>1. PICK a, b : /\ Sevenths(v, a) /\ Sevenths(w, b)
                  /\ a \in [2..8 -> 0..9] /\ b \in [2..8 -> 0..9] /\ a[i] # b[i]
  BY MistypedDigits
<1>2. \A j \in 2..8 : j # i => w[j] = v[j]
  BY DEF Mistyped
<1>3. PICK x \in Nat, y \in Nat : x = Seven(w) /\ y = Seven(v)
  BY <1>1, SevenIs
<1>4. PICK k \in Powers : x - y = k * (b[i] - a[i])
  BY <1>1, <1>2, <1>3, SevenShifts, SMTT(20)
<1>5. PICK m \in Nat, n \in Nat : m = 10000000 * p + x /\ n = 10000000 * p + y
  BY SMTT(20)
<1>6. PICK c \in 0..9, d \in 0..9 : c = b[i] /\ d = a[i] /\ c # d
  BY <1>1
<1>7. OneDigitOff(m, n)
  <2>1. m - n = k * (c - d)
    BY <1>4, <1>5, <1>6, SMTT(20)
  <2>2. QED
    BY <1>6, <2>1, SMTT(20) DEF OneDigitOff
<1>8. m % 23 # n % 23
  BY <1>7, OneDigit
<1>9. LetterOf(p, w) = DniLetter(m) /\ LetterOf(p, v) = DniLetter(n)
  BY <1>3, <1>5, SMTT(20) DEF LetterOf
<1>10. QED
  BY <1>8, <1>9, DniLetters

LEMMA LetterTellsPrefix ==
    ASSUME NEW p \in 0..9, NEW q \in 0..9, p # q, NEW v, NEW w, AllDigits(v, 2, 8),
           Seven(w) = Seven(v)
    PROVE  LetterOf(p, w) # LetterOf(q, v)
<1>1. PICK x \in Nat : x = Seven(v) /\ x = Seven(w)
  BY SevenDigits, SevenIs
<1>2. PICK m \in Nat, n \in Nat : m = 10000000 * p + x /\ n = 10000000 * q + x
  BY SMTT(20)
<1>3. OneDigitOff(m, n)
  <2>1. m - n = 10000000 * (p - q) /\ 10000000 \in Powers
    BY <1>2, SMTT(20) DEF Powers
  <2>2. QED
    BY <2>1, SMTT(20) DEF OneDigitOff
<1>4. m % 23 # n % 23
  BY <1>3, OneDigit
<1>5. LetterOf(p, w) = DniLetter(m) /\ LetterOf(q, v) = DniLetter(n)
  BY <1>1, <1>2, SMTT(20) DEF LetterOf
<1>6. QED
  BY <1>4, <1>5, DniLetters

\* The control of a CIF.
LEMMA TotalIs ==
    ASSUME NEW v, NEW a, Sevenths(v, a)
    PROVE  /\ CifTotal(v) = Weighted(a[2]) + a[3] + Weighted(a[4]) + a[5] + Weighted(a[6])
                            + a[7] + Weighted(a[8])
           /\ CifTotal(v) \in Nat
<1>1. /\ DigitValue[v[2]] = a[2] /\ DigitValue[v[3]] = a[3] /\ DigitValue[v[4]] = a[4]
      /\ DigitValue[v[5]] = a[5] /\ DigitValue[v[6]] = a[6] /\ DigitValue[v[7]] = a[7]
      /\ DigitValue[v[8]] = a[8]
  BY DEF Sevenths
<1>2. CifTotal(v) = Weighted(a[2]) + a[3] + Weighted(a[4]) + a[5] + Weighted(a[6])
                    + a[7] + Weighted(a[8])
  BY <1>1 DEF CifTotal
<1>3. \A i \in 2..8 : a[i] \in 0..9 /\ Weighted(a[i]) \in 0..9
  BY Weights DEF Sevenths
<1>4. QED
  BY <1>2, <1>3

LEMMA ControlIsDigit == ASSUME NEW v, AllDigits(v, 2, 8) PROVE CifControl(v) \in 0..9
<1>1. PICK n \in Nat : n = CifTotal(v)
  BY SevenDigits, TotalIs
<1>2. (10 - (n % 10)) % 10 \in 0..9
  OBVIOUS
<1>3. QED
  BY <1>1, <1>2 DEF CifControl

LEMMA ControlTellsDigits ==
    ASSUME NEW v, NEW w, NEW i \in 2..8, Mistyped(v, i, w)
    PROVE  CifControl(w) # CifControl(v)
<1>1. PICK a, b : /\ Sevenths(v, a) /\ Sevenths(w, b)
                  /\ a \in [2..8 -> 0..9] /\ b \in [2..8 -> 0..9]
                  /\ a[i] # b[i] /\ \A j \in 2..8 : j # i => b[j] = a[j]
  BY MistypedDigits
<1>2. \A j \in 2..8 : /\ a[j] \in 0..9 /\ Weighted(a[j]) \in 0..9
                      /\ b[j] \in 0..9 /\ Weighted(b[j]) \in 0..9
  BY <1>1, Weights
<1> DEFINE W(j, x) == IF j \in {2, 4, 6, 8} THEN Weighted(x) ELSE x
<1>3. PICK a2 \in 0..9, a3 \in 0..9, a4 \in 0..9, a5 \in 0..9,
          a6 \in 0..9, a7 \in 0..9, a8 \in 0..9 :
         /\ a2 = W(2, a[2]) /\ a3 = W(3, a[3]) /\ a4 = W(4, a[4])
         /\ a5 = W(5, a[5]) /\ a6 = W(6, a[6]) /\ a7 = W(7, a[7]) /\ a8 = W(8, a[8])
  <2>1. /\ W(2, a[2]) \in 0..9 /\ W(3, a[3]) \in 0..9 /\ W(4, a[4]) \in 0..9 /\ W(5, a[5]) \in 0..9
        /\ W(6, a[6]) \in 0..9 /\ W(7, a[7]) \in 0..9 /\ W(8, a[8]) \in 0..9
    BY <1>2
  <2> HIDE DEF W
  <2>2. QED
    BY <2>1, Zenon
<1>4. PICK b2 \in 0..9, b3 \in 0..9, b4 \in 0..9, b5 \in 0..9,
          b6 \in 0..9, b7 \in 0..9, b8 \in 0..9 :
         /\ b2 = W(2, b[2]) /\ b3 = W(3, b[3]) /\ b4 = W(4, b[4])
         /\ b5 = W(5, b[5]) /\ b6 = W(6, b[6]) /\ b7 = W(7, b[7]) /\ b8 = W(8, b[8])
  <2>1. /\ W(2, b[2]) \in 0..9 /\ W(3, b[3]) \in 0..9 /\ W(4, b[4]) \in 0..9 /\ W(5, b[5]) \in 0..9
        /\ W(6, b[6]) \in 0..9 /\ W(7, b[7]) \in 0..9 /\ W(8, b[8]) \in 0..9
    BY <1>2
  <2> HIDE DEF W
  <2>2. QED
    BY <2>1, Zenon
<1>5. PICK m \in Nat, n \in Nat :
         /\ n = CifTotal(v) /\ n = a2 + a3 + a4 + a5 + a6 + a7 + a8
         /\ m = CifTotal(w) /\ m = b2 + b3 + b4 + b5 + b6 + b7 + b8
  BY <1>1, <1>3, <1>4, TotalIs
<1>6. W(i, b[i]) # W(i, a[i])
  BY <1>1, Weights
<1>7. \E x \in 0..9, y \in 0..9 : x # y /\ m - n = x - y
  <2>1. CASE i = 2
    <3>1. b3 = a3 /\ b4 = a4 /\ b5 = a5 /\ b6 = a6 /\ b7 = a7 /\ b8 = a8
      BY <1>1, <1>3, <1>4, <2>1
    <3>2. m - n = b2 - a2
      BY <1>5, <3>1
    <3>3. b2 # a2
      BY <1>3, <1>4, <1>6, <2>1
    <3>4. QED
      BY <3>2, <3>3
  <2>2. CASE i = 3
    <3>1. b2 = a2 /\ b4 = a4 /\ b5 = a5 /\ b6 = a6 /\ b7 = a7 /\ b8 = a8
      BY <1>1, <1>3, <1>4, <2>2
    <3>2. m - n = b3 - a3
      BY <1>5, <3>1
    <3>3. b3 # a3
      BY <1>3, <1>4, <1>6, <2>2
    <3>4. QED
      BY <3>2, <3>3
  <2>3. CASE i = 4
    <3>1. b2 = a2 /\ b3 = a3 /\ b5 = a5 /\ b6 = a6 /\ b7 = a7 /\ b8 = a8
      BY <1>1, <1>3, <1>4, <2>3
    <3>2. m - n = b4 - a4
      BY <1>5, <3>1
    <3>3. b4 # a4
      BY <1>3, <1>4, <1>6, <2>3
    <3>4. QED
      BY <3>2, <3>3
  <2>4. CASE i = 5
    <3>1. b2 = a2 /\ b3 = a3 /\ b4 = a4 /\ b6 = a6 /\ b7 = a7 /\ b8 = a8
      BY <1>1, <1>3, <1>4, <2>4
    <3>2. m - n = b5 - a5
      BY <1>5, <3>1
    <3>3. b5 # a5
      BY <1>3, <1>4, <1>6, <2>4
    <3>4. QED
      BY <3>2, <3>3
  <2>5. CASE i = 6
    <3>1. b2 = a2 /\ b3 = a3 /\ b4 = a4 /\ b5 = a5 /\ b7 = a7 /\ b8 = a8
      BY <1>1, <1>3, <1>4, <2>5
    <3>2. m - n = b6 - a6
      BY <1>5, <3>1
    <3>3. b6 # a6
      BY <1>3, <1>4, <1>6, <2>5
    <3>4. QED
      BY <3>2, <3>3
  <2>6. CASE i = 7
    <3>1. b2 = a2 /\ b3 = a3 /\ b4 = a4 /\ b5 = a5 /\ b6 = a6 /\ b8 = a8
      BY <1>1, <1>3, <1>4, <2>6
    <3>2. m - n = b7 - a7
      BY <1>5, <3>1
    <3>3. b7 # a7
      BY <1>3, <1>4, <1>6, <2>6
    <3>4. QED
      BY <3>2, <3>3
  <2>7. CASE i = 8
    <3>1. b2 = a2 /\ b3 = a3 /\ b4 = a4 /\ b5 = a5 /\ b6 = a6 /\ b7 = a7
      BY <1>1, <1>3, <1>4, <2>7
    <3>2. m - n = b8 - a8
      BY <1>5, <3>1
    <3>3. b8 # a8
      BY <1>3, <1>4, <1>6, <2>7
    <3>4. QED
      BY <3>2, <3>3
  <2>8. QED
    BY <2>1, <2>2, <2>3, <2>4, <2>5, <2>6, <2>7
<1>8. (10 - (m % 10)) % 10 # (10 - (n % 10)) % 10
  BY <1>7
<1>9. QED
  BY <1>5, <1>8 DEF CifControl

----------------------------------------------------------------------------
(* The formats *)

\* The first character of a DNI or a NIE, and its value.
LetterFormat(v) == v[1] \in Digits \/ v[1] \in DOMAIN NIE_PREFIX

FirstValue(v) == IF v[1] \in Digits THEN DigitValue[v[1]] ELSE NIE_PREFIX[v[1]]

LEMMA Formats ==
    /\ DOMAIN NIE_PREFIX = {"X", "Y", "Z"}
    /\ Digits \cap DOMAIN NIE_PREFIX = {}
    /\ Digits \cap CIF_FIRST_LETTERS = {}
    /\ CIF_FIRST_LETTERS \cap DOMAIN NIE_PREFIX = {}
<1>1. DOMAIN NIE_PREFIX = {"X", "Y", "Z"}
  BY DEF NIE_PREFIX
<1>2. QED
  BY <1>1 DEF Digits, CIF_FIRST_LETTERS

LEMMA NiePrefixes ==
    \A a, b \in DOMAIN NIE_PREFIX :
        NIE_PREFIX[a] \in 0..9 /\ (NIE_PREFIX[a] = NIE_PREFIX[b] => a = b)
<1>1. DOMAIN NIE_PREFIX = {"X", "Y", "Z"}
  BY DEF NIE_PREFIX
<1>2. NIE_PREFIX["X"] = 0 /\ NIE_PREFIX["Y"] = 1 /\ NIE_PREFIX["Z"] = 2
  BY DEF NIE_PREFIX
<1>3. QED
  BY <1>1, <1>2

LEMMA ValidLetter ==
    ASSUME NEW v, Valid(v), LetterFormat(v)
    PROVE  /\ AllDigits(v, 2, 8) /\ FirstValue(v) \in 0..9
           /\ v[9] = LetterOf(FirstValue(v), v)
<1>1. CASE CheckDni(v)
  <2>1. v[1] \in Digits /\ AllDigits(v, 2, 8)
    BY <1>1 DEF CheckDni, AllDigits
  <2>2. FirstValue(v) = DigitValue[v[1]] /\ FirstValue(v) \in 0..9
    BY <2>1, DigitValues DEF FirstValue
  <2>3. v[9] = DniLetter(10000000 * FirstValue(v) + Seven(v))
    BY <1>1, <2>2, SMTT(20) DEF CheckDni
  <2>4. QED
    BY <2>1, <2>2, <2>3, SMTT(20) DEF LetterOf
<1>2. CASE CheckNie(v)
  <2>1. v[1] \in DOMAIN NIE_PREFIX /\ v[1] \notin Digits /\ AllDigits(v, 2, 8)
    BY <1>2, Formats DEF CheckNie
  <2>2. FirstValue(v) = NIE_PREFIX[v[1]] /\ FirstValue(v) \in 0..9
    BY <2>1, NiePrefixes DEF FirstValue
  <2>3. v[9] = DniLetter(10000000 * FirstValue(v) + Seven(v))
    BY <1>2, <2>2, SMTT(20) DEF CheckNie
  <2>4. QED
    BY <2>1, <2>2, <2>3, SMTT(20) DEF LetterOf
<1>3. ~CheckCif(v)
  BY Formats DEF LetterFormat, CheckCif
<1>4. QED
  BY <1>1, <1>2, <1>3 DEF Valid

\* The control character of a CIF.
CifLetter(v) == CIF_CONTROL_LETTERS[CifControl(v) + 1]

LEMMA ValidCif ==
    ASSUME NEW v, Valid(v), ~LetterFormat(v)
    PROVE  /\ AllDigits(v, 2, 8)
           /\ \/ v[9] = CifLetter(v)
              \/ v[9] \in Digits /\ DigitValue[v[9]] = CifControl(v)
<1>1. ~CheckDni(v) /\ ~CheckNie(v)
  BY DEF CheckDni, CheckNie, AllDigits, LetterFormat
<1>2. CheckCif(v)
  BY <1>1 DEF Valid
<1>3. QED
  BY <1>2 DEF CheckCif, CifLetter

LEMMA CifLetterTells ==
    ASSUME NEW v, NEW w, AllDigits(v, 2, 8), AllDigits(w, 2, 8)
    PROVE  /\ CifLetter(v) \notin Digits
           /\ CifLetter(v) = CifLetter(w) => CifControl(v) = CifControl(w)
<1>1. PICK m \in 0..9, n \in 0..9 : m = CifControl(v) /\ n = CifControl(w)
  BY ControlIsDigit
<1>2. m + 1 \in 1..10 /\ n + 1 \in 1..10 /\ (m + 1 = n + 1 => m = n)
  OBVIOUS
<1>3. CifLetter(v) = CIF_CONTROL_LETTERS[m + 1] /\ CifLetter(w) = CIF_CONTROL_LETTERS[n + 1]
  BY <1>1 DEF CifLetter
<1>4. QED
  BY <1>1, <1>2, <1>3, CifLetters

----------------------------------------------------------------------------
(* One mistake *)

\* w is v with the character c in the i-th place.
WithChar(v, i, c, w) == w[i] = c /\ \A j \in 1..9 : j # i => w[j] = v[j]

LEMMA SameNumbers ==
    ASSUME NEW v, NEW w, \A j \in 2..8 : w[j] = v[j]
    PROVE  Seven(w) = Seven(v) /\ CifControl(w) = CifControl(v)
<1>1. /\ w[2] = v[2] /\ w[3] = v[3] /\ w[4] = v[4] /\ w[5] = v[5]
      /\ w[6] = v[6] /\ w[7] = v[7] /\ w[8] = v[8]
  OBVIOUS
<1>2. Seven(w) = Seven(v)
  BY <1>1, SMTT(20) DEF Seven
<1>3. CifTotal(w) = CifTotal(v)
  BY <1>1 DEF CifTotal
<1>4. QED
  BY <1>2, <1>3 DEF CifControl

LEMMA MistakeKeepsFormat ==
    ASSUME NEW v, NEW w, NEW i \in 1..9, NEW c, Mistake(v, i, c), WithChar(v, i, c, w),
           Valid(v), Valid(w)
    PROVE  /\ LetterFormat(v) <=> LetterFormat(w)
           /\ i = 1 => LetterFormat(v)
           /\ i # 1 => w[1] = v[1]
<1>1. CASE i = 1
  BY <1>1 DEF Mistake, WithChar, LetterFormat
<1>2. CASE i # 1
  BY <1>2 DEF WithChar, LetterFormat
<1>3. QED
  BY <1>1, <1>2

\* A mistake in a DNI or a NIE.
LEMMA LetterMistake ==
    ASSUME NEW v, NEW w, NEW i \in 1..9, NEW c, Mistake(v, i, c), WithChar(v, i, c, w),
           Valid(v), Valid(w), LetterFormat(v)
    PROVE  FALSE
<1>1. LetterFormat(w) /\ (i # 1 => w[1] = v[1])
  BY MistakeKeepsFormat
<1>2. /\ AllDigits(v, 2, 8) /\ FirstValue(v) \in 0..9 /\ v[9] = LetterOf(FirstValue(v), v)
      /\ AllDigits(w, 2, 8) /\ FirstValue(w) \in 0..9 /\ w[9] = LetterOf(FirstValue(w), w)
  BY <1>1, ValidLetter
<1>3. CASE i = 1
  <2>1. Seven(w) = Seven(v) /\ w[9] = v[9]
    BY <1>3, SameNumbers DEF WithChar
  <2>2. w[1] = c /\ c # v[1]
    BY <1>3 DEF WithChar, Mistake
  <2>3. FirstValue(w) # FirstValue(v)
    <3>1. CASE v[1] \in Digits
      <4>1. w[1] \in Digits
        BY <1>3, <2>2, <3>1, Formats DEF Mistake
      <4>2. QED
        BY <2>2, <3>1, <4>1, DigitValues DEF FirstValue
    <3>2. CASE v[1] \notin Digits
      <4>1. v[1] \in DOMAIN NIE_PREFIX /\ w[1] \in DOMAIN NIE_PREFIX
        BY <1>3, <2>2, <3>2 DEF Mistake
      <4>2. w[1] \notin Digits
        BY <4>1, Formats
      <4>3. QED
        BY <2>2, <3>2, <4>1, <4>2, NiePrefixes DEF FirstValue
    <3>3. QED
      BY <3>1, <3>2
  <2>4. QED
    BY <1>2, <2>1, <2>3, LetterTellsPrefix
<1>4. CASE i \in 2..8
  <2>1. w[1] = v[1] /\ w[9] = v[9] /\ Mistyped(v, i, w)
    BY <1>2, <1>4 DEF WithChar, Mistake, Mistyped
  <2>2. FirstValue(w) = FirstValue(v)
    BY <2>1 DEF FirstValue
  <2>3. QED
    BY <1>2, <1>4, <2>1, <2>2, LetterTellsDigits
<1>5. CASE i = 9
  <2>1. w[1] = v[1] /\ w[9] # v[9] /\ Seven(w) = Seven(v)
    BY <1>5, SameNumbers DEF WithChar, Mistake
  <2>2. FirstValue(w) = FirstValue(v)
    BY <2>1 DEF FirstValue
  <2>3. LetterOf(FirstValue(w), w) = LetterOf(FirstValue(v), v)
    BY <2>1, <2>2, SMTT(20) DEF LetterOf
  <2>4. QED
    BY <1>2, <2>1, <2>3
<1>6. QED
  BY <1>3, <1>4, <1>5

\* A mistake in a CIF.
LEMMA CifMistake ==
    ASSUME NEW v, NEW w, NEW i \in 1..9, NEW c, Mistake(v, i, c), WithChar(v, i, c, w),
           Valid(v), Valid(w), ~LetterFormat(v)
    PROVE  FALSE
<1>1. ~LetterFormat(w) /\ i # 1
  BY MistakeKeepsFormat
<1>2. /\ AllDigits(v, 2, 8)
      /\ \/ v[9] = CifLetter(v)
         \/ v[9] \in Digits /\ DigitValue[v[9]] = CifControl(v)
  BY ValidCif
<1>3. /\ AllDigits(w, 2, 8)
      /\ \/ w[9] = CifLetter(w)
         \/ w[9] \in Digits /\ DigitValue[w[9]] = CifControl(w)
  BY <1>1, ValidCif
<1>4. /\ CifLetter(v) \notin Digits /\ CifLetter(w) \notin Digits
      /\ CifLetter(v) = CifLetter(w) => CifControl(v) = CifControl(w)
  BY <1>2, <1>3, CifLetterTells
<1>5. CASE i \in 2..8
  <2>1. w[9] = v[9] /\ Mistyped(v, i, w)
    BY <1>2, <1>3, <1>5 DEF WithChar, Mistake, Mistyped
  <2>2. CifControl(w) # CifControl(v)
    BY <1>5, <2>1, ControlTellsDigits
  <2>3. QED
    BY <1>2, <1>3, <1>4, <2>1, <2>2
<1>6. CASE i = 9
  <2>1. w[9] # v[9] /\ (w[9] \in Digits <=> v[9] \in Digits)
    BY <1>6 DEF WithChar, Mistake
  <2>2. CifControl(w) = CifControl(v)
    BY <1>6, SameNumbers DEF WithChar
  <2>3. CifLetter(w) = CifLetter(v)
    BY <2>2 DEF CifLetter
  <2>4. QED
    BY <1>2, <1>3, <1>4, <2>1, <2>2, <2>3, DigitValues
<1>7. QED
  BY <1>1, <1>5, <1>6

LEMMA MistakeCaught ==
    ASSUME NEW v, NEW w, NEW i \in 1..9, NEW c, Mistake(v, i, c), WithChar(v, i, c, w), Valid(v)
    PROVE  ~Valid(w)
BY LetterMistake, CifMistake

\* What was typed is the id, or the id with one mistake in it.
OneMistake(v, w) == \E c : \E i \in 1..9 : Mistake(v, i, c) /\ WithChar(v, i, c, w)

TaxIdInv ==
    /\ Valid(good) /\ DOMAIN good = 1..9 /\ good = [j \in 1..9 |-> good[j]]
    /\ typed = good \/ (DOMAIN typed = 1..9 /\ OneMistake(good, typed))

\* An id is nine characters long.
LEMMA NinePlaces ==
    ASSUME NEW S, NEW ds \in [1..7 -> S], NEW lead \in S, NEW control \in S
    PROVE  <<lead>> \o ds \o <<control>> \in [1..9 -> S]
<1>1. ds \in Seq(S) /\ Len(ds) = 7
  <2>1. 7 \in Nat
    OBVIOUS
  <2>2. ds \in Seq(S)
    BY <2>1, SeqDef, Zenon
  <2>3. DOMAIN ds = 1..7
    OBVIOUS
  <2>4. Len(ds) \in Nat /\ DOMAIN ds = 1..Len(ds)
    BY <2>2, LenProperties
  <2>5. QED
    BY <2>2, <2>3, <2>4
<1>2. PICK x \in Seq(S), z \in Seq(S) :
         x = <<lead>> /\ Len(x) = 1 /\ z = <<control>> /\ Len(z) = 1
  <2>1. <<lead>> \in Seq(S) /\ Len(<<lead>>) = 1
    OBVIOUS
  <2>2. <<control>> \in Seq(S) /\ Len(<<control>>) = 1
    OBVIOUS
  <2>3. QED
    BY <2>1, <2>2, Zenon
<1>3. PICK y \in Seq(S) : y = x \o ds /\ Len(y) = Len(x) + Len(ds)
  BY <1>1, ConcatProperties, ZenonT(40)
<1>4. PICK u \in Seq(S) : u = y \o z /\ Len(u) = Len(y) + Len(z)
  BY ConcatProperties, ZenonT(40)
<1>5. Len(u) = 9
  BY <1>1, <1>2, <1>3, <1>4
<1>6. u \in [1..9 -> S]
  BY <1>5, LenProperties
<1>7. QED
  BY <1>2, <1>3, <1>4, <1>6

LEMMA TaxIdStart == TaxIdInit => TaxIdInv
<1>1. ASSUME NEW lead, NEW ds \in Sevens, NEW control, good = <<lead>> \o ds \o <<control>>
      PROVE  DOMAIN good = 1..9 /\ good = [j \in 1..9 |-> good[j]]
  <2>1. PICK S : S = Digits \cup {lead, control}
    OBVIOUS
  <2>2. ds \in [1..7 -> S] /\ lead \in S /\ control \in S
    BY <2>1, TaxIdAssumption
  <2>3. good \in [1..9 -> S]
    BY <1>1, <2>2, NinePlaces
  <2>4. QED
    BY <2>3
<1>2. QED
  BY <1>1 DEF TaxIdInit, TaxIdInv

LEMMA TaxIdStep ==
    ASSUME TaxIdInv, [TaxIdNext]_<<good, typed>>
    PROVE  TaxIdInv'
<1>1. ASSUME NEW i \in 1..9, NEW c \in Controls, Mistype(i, c) PROVE TaxIdInv'
  <2>1. /\ typed = good /\ good' = good /\ typed' = [typed EXCEPT ![i] = c]
        /\ \/ typed[i] \in Digits /\ c \in Digits
           \/ i = 1 /\ {typed[i], c} \subseteq DOMAIN NIE_PREFIX
           \/ i = 9 /\ {typed[i], c} \cap Digits = {}
    BY <1>1 DEF Mistype
  <2>2. Valid(good) /\ DOMAIN good = 1..9 /\ good = [j \in 1..9 |-> good[j]]
    BY DEF TaxIdInv
  <2>3. PICK w : w = typed'
    OBVIOUS
  <2>4. DOMAIN w = 1..9 /\ WithChar(good, i, c, w)
    BY <2>1, <2>2, <2>3 DEF WithChar
  <2>5. CASE c = good[i]
    <3>1. w = good
      BY <2>1, <2>2, <2>3, <2>5
    <3>2. QED
      BY <2>1, <2>2, <2>3, <3>1 DEF TaxIdInv
  <2>6. CASE c # good[i]
    <3>1. Mistake(good, i, c)
      BY <2>1, <2>6 DEF Mistake
    <3>2. OneMistake(good, w)
      BY <2>4, <3>1 DEF OneMistake
    <3>3. QED
      BY <2>1, <2>2, <2>3, <2>4, <3>2 DEF TaxIdInv
  <2>7. QED
    BY <2>5, <2>6
<1>2. ASSUME UNCHANGED <<good, typed>> PROVE TaxIdInv'
  BY <1>2 DEF TaxIdInv
<1>3. QED
  BY <1>1, <1>2 DEF TaxIdNext

LEMMA TaxIdInvHolds == TaxIdSpec => []TaxIdInv
BY TaxIdStart, TaxIdStep, PTL DEF TaxIdSpec

\* validation.py:1-14, clients/services.py:5-8: whatever the ids, no client of
\* either type can be saved or invoiced with an id in which one character was
\* mistaken for another of its kind, in any of the three formats and in any
\* position; with the right id it can.
THEOREM MistypedIdsAreRefused == TaxIdSpec => []SingleErrorsAreCaught
<1>1. ASSUME TaxIdInv PROVE SingleErrorsAreCaught
  <2>1. Valid(good) /\ good # << >>
    BY <1>1 DEF TaxIdInv
  <2>2. CASE typed = good
    BY <2>1, <2>2 DEF SingleErrorsAreCaught, CanBeInvoiced, Clean
  <2>3. CASE typed # good
    <3>1. DOMAIN typed = 1..9 /\ OneMistake(good, typed)
      BY <1>1, <2>3 DEF TaxIdInv
    <3>2. ~Valid(typed)
      BY <2>1, <3>1, MistakeCaught DEF OneMistake
    <3>3. typed # << >>
      BY <3>1
    <3>4. QED
      BY <2>3, <3>2, <3>3 DEF SingleErrorsAreCaught, CanBeInvoiced, Clean
  <2>4. QED
    BY <2>2, <2>3
<1>2. QED
  BY <1>1, TaxIdInvHolds, PTL
=============================================================================
