--------------------------- MODULE IssuanceProofs ---------------------------
(***************************************************************************)
(* Proofs about Issuance, for any number of workers, drafts and series, on *)
(* both kinds of database and with any bounds on the faults.               *)
(*                                                                         *)
(* GapFree is not inductive: a commit writes the number that the worker    *)
(* stamped some steps earlier.  What makes it right is that nothing was    *)
(* committed in between (TxInv: the lock on PostgreSQL, the staleness of   *)
(* the snapshot on SQLite) and that the row it overwrites is still a draft *)
(* (SavedInv).                                                             *)
(***************************************************************************)
EXTENDS Issuance, SequenceTheorems, TLAPS

InTx(w) == pc[w] \in {"selected", "saved"}

TxInv ==
    \A w \in Workers : InTx(w) =>
        /\ RowLocks => lock[S(w)] = w /\ ~stale[w]
        /\ ~stale[w] => seen[w] = last[S(w)]

SavedInv ==
    \A w \in Workers : pc[w] = "saved" =>
        /\ ~stale[w]
        /\ mem[w].number = seen[w] + 1
        /\ ~IsIssued(mem[w].inv)
        /\ ~RowLocks => \A v \in Workers : pc[v] = "saved" => v = w

IInv == TypeOK /\ GapFree /\ TxInv /\ SavedInv

----------------------------------------------------------------------------
(* Facts about the steps *)

LEMMA StampedType ==
    ASSUME TypeOK, NEW w \in Workers
    PROVE  Stamped(w) \in [number : Nat, date : Nat]
BY IssuanceAssumption DEF TypeOK, Stamped, NoDate

LEMMA LeaveType ==
    ASSUME TypeOK, NEW w \in Workers, Leave(w)
    PROVE  /\ lock' \in [SeriesIds -> Workers \cup {Free}]
           /\ pc' \in [Workers -> {"idle", "try", "selected", "saved"}]
           /\ mem' \in [Workers -> [inv : Invoices \cup {NoInvoice}, number : Nat, date : Nat]]
           /\ \A v \in Workers : pc'[v] # "idle" => mem'[v].inv \in Invoices
           /\ seen' \in [Workers -> Nat]
           /\ tries' \in [Workers -> 0..MaxRetries-1]
<1> USE IssuanceAssumption DEF TypeOK, Leave
<1>1. lock' \in [SeriesIds -> Workers \cup {Free}]
  BY DEF Unlock
<1>2. NoObject \in [inv : Invoices \cup {NoInvoice}, number : Nat, date : Nat]
  BY DEF NoObject, Object, NoNumber, NoDate
<1>3. mem' \in [Workers -> [inv : Invoices \cup {NoInvoice}, number : Nat, date : Nat]]
  BY <1>2
<1>4. \A v \in Workers : pc'[v] # "idle" => mem'[v].inv \in Invoices
  OBVIOUS
<1>5. QED
  BY <1>1, <1>3, <1>4

LEMMA RetryType ==
    ASSUME TypeOK, NEW w \in Workers, Retry(w), pc[w] = "selected",
           errors' \in 0..MaxErrors
    PROVE  TypeOK'
<1>1. stale' \in [Workers -> BOOLEAN]
  BY Zenon DEF TypeOK, Retry
<1>2. CASE ~AttemptsLeft(w) /\ Leave(w)
  BY <1>1, <1>2, LeaveType DEF TypeOK, Retry
<1>3. CASE AttemptsLeft(w) /\ ~(~AttemptsLeft(w) /\ Leave(w))
  <2>1. /\ Unlock(w)
        /\ pc' = [pc EXCEPT ![w] = "try"]
        /\ mem' = [mem EXCEPT ![w] = Object(mem[w].inv, NoNumber, Stamped(w).date)]
        /\ seen' = [seen EXCEPT ![w] = 0]
        /\ tries' = [tries EXCEPT ![w] = @ + 1]
        /\ tries[w] + 1 < MaxRetries
    BY <1>3 DEF Retry, AttemptsLeft
  <2>2. Stamped(w).date \in Nat
    BY StampedType
  <2>3. mem' \in [Workers -> [inv : Invoices \cup {NoInvoice}, number : Nat, date : Nat]]
    BY <2>1, <2>2 DEF TypeOK, NoNumber, Object
  <2>4. \A v \in Workers : mem'[v].inv = mem[v].inv
    BY <2>1 DEF TypeOK, Object
  <2>5. tries' \in [Workers -> 0..MaxRetries-1]
    BY <2>1, IssuanceAssumption DEF TypeOK
  <2>6. lock' \in [SeriesIds -> Workers \cup {Free}]
    BY <2>1 DEF TypeOK, Unlock
  <2>7. QED
    BY <1>1, <2>1, <2>3, <2>4, <2>5, <2>6 DEF TypeOK, Retry
<1>4. QED
  BY <1>2, <1>3 DEF Retry

----------------------------------------------------------------------------
(* Type correctness *)

\* The state of issuance keeps its type in every step: in particular no call
\* makes more than MaxRetries attempts.
LEMMA TypeInit == Init => TypeOK
BY IssuanceAssumption
   DEF Init, TypeOK, Blank, NoObject, Object, NoNumber, NoDate

LEMMA TypeStep == TypeOK /\ [Next]_vars => TypeOK'
<1> SUFFICES ASSUME TypeOK, [Next]_vars PROVE TypeOK'
  OBVIOUS
<1> USE IssuanceAssumption
<1>1. ASSUME NEW w \in Workers, NEW i \in Invoices, Call(w, i) PROVE TypeOK'
  <2>1. Loaded(i) \in [inv : Invoices \cup {NoInvoice}, number : Nat, date : Nat]
    BY DEF TypeOK, Loaded, Object
  <2>2. mem' \in [Workers -> [inv : Invoices \cup {NoInvoice}, number : Nat, date : Nat]]
    BY <1>1, <2>1 DEF TypeOK, Call
  <2>3. \A v \in Workers : pc'[v] # "idle" => mem'[v].inv \in Invoices
    BY <1>1 DEF TypeOK, Call, Loaded, Object
  <2>4. QED
    BY <1>1, <2>2, <2>3 DEF TypeOK, Call
<1>2. ASSUME NEW w \in Workers, SelectForUpdate(w) PROVE TypeOK'
  <2>1. S(w) \in SeriesIds
    BY <1>2 DEF TypeOK, SelectForUpdate, S
  <2>2. stale' \in [Workers -> BOOLEAN]
    BY <1>2, Zenon DEF TypeOK, SelectForUpdate
  <2>3. lock' \in [SeriesIds -> Workers \cup {Free}]
    BY <1>2, <2>1 DEF TypeOK, SelectForUpdate
  <2>4. seen' \in [Workers -> Nat]
    BY <1>2, <2>1 DEF TypeOK, SelectForUpdate
  <2>5. QED
    BY <1>2, <2>2, <2>3, <2>4 DEF TypeOK, SelectForUpdate
<1>3. ASSUME NEW w \in Workers, RefuseIncomplete(w) PROVE TypeOK'
  <2>1. stale' \in [Workers -> BOOLEAN]
    BY <1>3, Zenon DEF TypeOK, RefuseIncomplete
  <2>2. QED
    BY <1>3, <2>1, LeaveType DEF TypeOK, RefuseIncomplete
<1>4. ASSUME NEW w \in Workers, RefuseReissue(w) PROVE TypeOK'
  BY <1>4, LeaveType DEF TypeOK, RefuseReissue
<1>5. ASSUME NEW w \in Workers, Save(w) PROVE TypeOK'
  <2>1. /\ mem' \in [Workers -> [inv : Invoices \cup {NoInvoice}, number : Nat, date : Nat]]
        /\ \A v \in Workers : mem'[v].inv = mem[v].inv
    BY <1>5, StampedType DEF TypeOK, Save, Object
  <2>2. QED
    BY <1>5, <2>1 DEF TypeOK, Save
<1>6. ASSUME NEW w \in Workers, Commit(w) PROVE TypeOK'
  <2>1. /\ mem[w].inv \in Invoices
        /\ mem[w].number \in Nat
        /\ mem[w].date \in Nat
        /\ S(w) \in SeriesIds
    BY <1>6 DEF TypeOK, Commit, S
  <2>2. stale' \in [Workers -> BOOLEAN]
    BY <1>6, Zenon DEF TypeOK, Commit
  <2>3. row' \in [Invoices -> [number : Nat, date : Nat]]
    BY <1>6, <2>1 DEF TypeOK, Commit
  <2>4. last' \in [SeriesIds -> Nat]
    BY <1>6, <2>1 DEF TypeOK, Commit, Advanced
  <2>5. QED
    BY <1>6, <2>2, <2>3, <2>4, LeaveType DEF TypeOK, Commit
<1>7. ASSUME NEW w \in Workers, LoseRace(w) PROVE TypeOK'
  BY <1>7, RetryType DEF TypeOK, LoseRace
<1>8. ASSUME NEW w \in Workers, SaveError(w) PROVE TypeOK'
  <2>1. errors' \in 0..MaxErrors
    BY <1>8 DEF TypeOK, SaveError
  <2>2. QED
    BY <1>8, <2>1, RetryType DEF SaveError
<1>9. ASSUME NEW w \in Workers, Abort(w) PROVE TypeOK'
  <2>1. stale' \in [Workers -> BOOLEAN]
    BY <1>9, Zenon DEF TypeOK, Abort
  <2>2. QED
    BY <1>9, <2>1, LeaveType DEF TypeOK, Abort
<1>10. CASE Tick
  BY <1>10 DEF TypeOK, Tick
<1>11. CASE UNCHANGED vars
  BY <1>11 DEF TypeOK, vars
<1>12. QED
  BY <1>1, <1>2, <1>3, <1>4, <1>5, <1>6, <1>7, <1>8, <1>9, <1>10, <1>11
     DEF Next, Step

\* Type correctness (models.py: the columns and their ranges; services.py:59:
\* the bounded loop).
THEOREM TypeCorrect == Spec => []TypeOK
BY TypeInit, TypeStep, PTL DEF Spec

----------------------------------------------------------------------------
(* The inductive invariant *)

LEMMA IInvInit == Init => IInv
<1> SUFFICES ASSUME Init PROVE IInv
  OBVIOUS
<1>1. TypeOK
  BY TypeInit
<1>2. GapFree
  BY DEF Init, GapFree, IsIssued, Blank, NoNumber
<1>3. TxInv /\ SavedInv
  BY DEF Init, TxInv, SavedInv, InTx
<1>4. QED
  BY <1>1, <1>2, <1>3 DEF IInv

\* A step that commits nothing and moves only worker w keeps GapFree.
LEMMA GapFreeUnchanged ==
    ASSUME GapFree, UNCHANGED <<last, row>>
    PROVE  GapFree'
BY DEF GapFree, IsIssued

\* What w does when it ends its transaction does not concern the others.
LEMMA OthersUndisturbed ==
    ASSUME IInv, NEW w \in Workers, NEW v \in Workers, v # w,
           UNCHANGED <<last, row>>,
           lock' = [s \in SeriesIds |-> IF lock[s] = w THEN Free ELSE lock[s]],
           pc'[v] = pc[v], mem'[v] = mem[v], seen'[v] = seen[v], stale'[v] = stale[v]
    PROVE  /\ InTx(v)' => /\ RowLocks => lock'[S(v)'] = v /\ ~stale'[v]
                          /\ ~stale'[v] => seen'[v] = last'[S(v)']
           /\ pc'[v] = "saved" => /\ ~stale'[v]
                                  /\ mem'[v].number = seen'[v] + 1
                                  /\ ~IsIssued(mem[v].inv)'
<1>1. S(v)' = S(v)
  BY DEF S
<1>2. InTx(v) => S(v) \in SeriesIds
  BY IssuanceAssumption DEF IInv, TypeOK, InTx, S
<1>3. QED
  BY <1>1, <1>2 DEF IInv, TxInv, SavedInv, InTx, IsIssued

\* A worker that rolls back, refuses or waits for its next attempt.
LEMMA OutOfTx ==
    ASSUME IInv, TypeOK', NEW w \in Workers, Unlock(w),
           UNCHANGED <<last, row>>,
           pc'[w] \notin {"selected", "saved"},
           \A v \in Workers \ {w} : /\ pc'[v] = pc[v]
                                    /\ mem'[v] = mem[v]
                                    /\ seen'[v] = seen[v]
                                    /\ stale'[v] = stale[v]
    PROVE  IInv'
<1>1. GapFree'
  BY GapFreeUnchanged DEF IInv
<1>2. lock' = [s \in SeriesIds |-> IF lock[s] = w THEN Free ELSE lock[s]]
  BY DEF Unlock
<1>3. ASSUME NEW v \in Workers, v # w
      PROVE  /\ InTx(v)' => /\ RowLocks => lock'[S(v)'] = v /\ ~stale'[v]
                            /\ ~stale'[v] => seen'[v] = last'[S(v)']
             /\ pc'[v] = "saved" => /\ ~stale'[v]
                                    /\ mem'[v].number = seen'[v] + 1
                                    /\ ~IsIssued(mem[v].inv)'
  BY <1>2, <1>3, OthersUndisturbed
<1>4. TxInv'
  BY <1>3 DEF TxInv, InTx
<1>5. SavedInv'
  <2>1. ASSUME NEW v \in Workers, pc'[v] = "saved"
        PROVE  /\ v # w
               /\ pc[v] = "saved"
               /\ mem'[v] = mem[v]
    BY <2>1
  <2>2. QED
    BY <1>3, <2>1 DEF SavedInv, IInv, IsIssued
<1>6. QED
  BY <1>1, <1>4, <1>5 DEF IInv

\* Leaving issue_invoice is such a step, and so is a retry.
LEMMA LeaveIsOut ==
    ASSUME IInv, TypeOK', NEW w \in Workers, Leave(w), UNCHANGED <<last, row>>,
           \A v \in Workers \ {w} : stale'[v] = stale[v]
    PROVE  IInv'
<1>1. /\ pc'[w] = "idle"
      /\ Unlock(w)
      /\ \A v \in Workers \ {w} : /\ pc'[v] = pc[v]
                                  /\ mem'[v] = mem[v]
                                  /\ seen'[v] = seen[v]
  BY DEF Leave, IInv, TypeOK
<1>2. QED
  BY <1>1, OutOfTx

LEMMA RetryIsOut ==
    ASSUME IInv, TypeOK', NEW w \in Workers, Retry(w)
    PROVE  IInv'
<1>1. \A v \in Workers \ {w} : stale'[v] = stale[v]
  BY Zenon DEF Retry, IInv, TypeOK
<1>2. UNCHANGED <<last, row>>
  BY DEF Retry
<1>3. CASE Leave(w)
  BY <1>1, <1>2, <1>3, LeaveIsOut
<1>4. CASE /\ Unlock(w)
           /\ pc' = [pc EXCEPT ![w] = "try"]
           /\ mem' = [mem EXCEPT ![w] = Object(mem[w].inv, NoNumber, Stamped(w).date)]
           /\ seen' = [seen EXCEPT ![w] = 0]
  <2>1. /\ pc'[w] = "try"
        /\ \A v \in Workers \ {w} : /\ pc'[v] = pc[v]
                                    /\ mem'[v] = mem[v]
                                    /\ seen'[v] = seen[v]
    BY <1>4 DEF IInv, TypeOK
  <2>2. QED
    BY <1>1, <1>2, <1>4, <2>1, OutOfTx
<1>5. QED
  BY <1>3, <1>4 DEF Retry

\* The number a worker stamps from the current high-water mark is one that no
\* invoice of the series has, and its draft is not issued.
LEMMA NextIsFresh ==
    ASSUME IInv, NEW w \in Workers, InTx(w), ~stale[w]
    PROVE  /\ mem[w].inv \in Invoices
           /\ S(w) \in SeriesIds
           /\ seen[w] = last[S(w)]
           /\ Unique(mem[w].inv, seen[w] + 1)
           /\ Immutable(mem[w].inv, Stamped(w)) => ~IsIssued(mem[w].inv)
<1>1. mem[w].inv \in Invoices /\ S(w) \in SeriesIds
  BY IssuanceAssumption DEF IInv, TypeOK, InTx, S
<1>2. seen[w] = last[S(w)]
  BY DEF IInv, TxInv
<1>3. \A j \in Invoices : SeriesOf[j] = S(w) => row[j].number \in 0..last[S(w)]
  BY <1>1 DEF IInv, GapFree
<1>4. last[S(w)] \in Nat
  BY <1>1 DEF IInv, TypeOK
<1>5. Unique(mem[w].inv, seen[w] + 1)
  BY <1>1, <1>2, <1>3, <1>4 DEF Unique, S
<1>6. Immutable(mem[w].inv, Stamped(w)) => ~IsIssued(mem[w].inv)
  BY <1>1, <1>2, <1>3, <1>4 DEF Immutable, Stamped, S
<1>7. QED
  BY <1>1, <1>2, <1>5, <1>6

LEMMA CommitStep ==
    ASSUME IInv, TypeOK', NEW w \in Workers, Commit(w)
    PROVE  IInv'
<1> DEFINE i == mem[w].inv
           s == S(w)
           n == last[s] + 1
<1>1. InTx(w) /\ ~stale[w] /\ pc[w] = "saved"
  BY DEF Commit, InTx, IInv, SavedInv
<1>2. /\ i \in Invoices /\ s \in SeriesIds /\ SeriesOf[i] = s
      /\ mem[w].number = n /\ ~IsIssued(i) /\ last[s] \in Nat
  BY <1>1, NextIsFresh DEF IInv, SavedInv, TypeOK, S
<1>3. /\ last' = [last EXCEPT ![s] = n]
      /\ row' = [row EXCEPT ![i] = [number |-> n, date |-> mem[w].date]]
      /\ lock' = [t \in SeriesIds |-> IF lock[t] = w THEN Free ELSE lock[t]]
      /\ pc' = [pc EXCEPT ![w] = "idle"]
  BY <1>2 DEF Commit, Advanced, Leave, Unlock
<1>4. /\ row'[i].number = n /\ last'[s] = n
      /\ \A j \in Invoices \ {i} : row'[j] = row[j]
      /\ \A t \in SeriesIds \ {s} : last'[t] = last[t]
  BY <1>2, <1>3 DEF IInv, TypeOK
<1>5. GapFree'
  <2> SUFFICES ASSUME NEW t \in SeriesIds
               PROVE  /\ \A m \in 1..last'[t] :
                            \E j \in Invoices : SeriesOf[j] = t /\ row'[j].number = m
                      /\ \A j \in Invoices : SeriesOf[j] = t => row'[j].number \in 0..last'[t]
                      /\ \A j, k \in Invoices :
                            /\ SeriesOf[j] = t /\ SeriesOf[k] = t
                            /\ row'[j].number # NoNumber /\ row'[j].number = row'[k].number
                            => j = k
    BY DEF GapFree, IsIssued
  <2>1. CASE t = s
    <3>1. ASSUME NEW m \in 1..last'[t]
          PROVE  \E j \in Invoices : SeriesOf[j] = t /\ row'[j].number = m
      <4>1. CASE m = n
        BY <1>2, <1>4, <2>1, <4>1
      <4>2. CASE m # n
        <5>1. m \in 1..last[s]
          BY <1>2, <1>4, <2>1, <3>1, <4>2
        <5>2. PICK j \in Invoices : SeriesOf[j] = s /\ row[j].number = m
          BY <1>2, <5>1 DEF IInv, GapFree
        <5>3. j # i
          BY <1>2, <5>1, <5>2 DEF IsIssued, NoNumber
        <5>4. QED
          BY <1>4, <2>1, <5>2, <5>3
      <4>3. QED
        BY <4>1, <4>2
    <3>2. ASSUME NEW j \in Invoices, SeriesOf[j] = t
          PROVE  row'[j].number \in 0..last'[t]
      <4>1. row[j].number \in 0..last[s]
        BY <2>1, <3>2 DEF IInv, GapFree
      <4>2. QED
        BY <1>2, <1>4, <2>1, <4>1
    <3>3. ASSUME NEW j \in Invoices, NEW k \in Invoices,
                 SeriesOf[j] = t, SeriesOf[k] = t,
                 row'[j].number # NoNumber, row'[j].number = row'[k].number
          PROVE  j = k
      <4>1. row[j].number \in 0..last[s] /\ row[k].number \in 0..last[s]
        BY <2>1, <3>3 DEF IInv, GapFree
      <4>2. CASE j = i \/ k = i
        BY <1>2, <1>4, <3>3, <4>1, <4>2
      <4>3. CASE j # i /\ k # i
        <5>1. row[j].number # NoNumber /\ row[j].number = row[k].number
          BY <1>4, <3>3, <4>3
        <5>2. QED
          BY <2>1, <3>3, <5>1 DEF IInv, GapFree, IsIssued
      <4>4. QED
        BY <4>2, <4>3
    <3>4. QED
      BY <3>1, <3>2, <3>3
  <2>2. CASE t # s
    <3>1. \A j \in Invoices : SeriesOf[j] = t => row'[j] = row[j]
      BY <1>2, <1>4, <2>2
    <3>2. last'[t] = last[t]
      BY <1>4, <2>2
    <3>3. QED
      BY <3>1, <3>2 DEF IInv, GapFree, IsIssued
  <2>3. QED
    BY <2>1, <2>2
<1>6. ASSUME NEW v \in Workers, InTx(v)'
      PROVE  v # w /\ InTx(v) /\ mem'[v] = mem[v] /\ seen'[v] = seen[v] /\ S(v)' = S(v)
  BY <1>3, <1>6 DEF Commit, Leave, InTx, S, IInv, TypeOK
<1>7. ASSUME NEW v \in Workers, InTx(v)', RowLocks
      PROVE  lock'[S(v)'] = v /\ ~stale'[v] /\ S(v) # s
  <2>1. /\ v # w /\ InTx(v) /\ S(v)' = S(v)
        /\ S(v) \in SeriesIds
    BY <1>6, <1>7, IssuanceAssumption DEF IInv, TypeOK, InTx, S
  <2>2. lock[S(v)] = v /\ ~stale[v] /\ lock[s] = w
    BY <1>1, <1>7, <2>1 DEF IInv, TxInv
  <2>3. ~stale'[v]
    BY <1>7, <2>2 DEF Commit
  <2>4. lock'[S(v)] = v
    BY <1>3, <2>1, <2>2
  <2>5. QED
    BY <2>1, <2>2, <2>3, <2>4
<1>8. ASSUME NEW v \in Workers, InTx(v)', ~RowLocks
      PROVE  stale'[v] /\ pc'[v] = "selected"
  <2>1. v # w /\ InTx(v) /\ pc'[v] = pc[v]
    BY <1>3, <1>6, <1>8 DEF IInv, TypeOK
  <2>2. pc[v] = "selected"
    BY <1>1, <1>8, <2>1 DEF IInv, SavedInv, InTx
  <2>3. stale'[v]
    BY <1>8, <2>1, <2>2 DEF Commit
  <2>4. QED
    BY <2>1, <2>2, <2>3
<1>9. TxInv'
  <2> SUFFICES ASSUME NEW v \in Workers, InTx(v)'
               PROVE  /\ RowLocks => lock'[S(v)'] = v /\ ~stale'[v]
                      /\ ~stale'[v] => seen'[v] = last'[S(v)']
    BY DEF TxInv
  <2>1. CASE RowLocks
    <3>1. ~stale[v] /\ seen[v] = last[S(v)] /\ S(v) \in SeriesIds
      BY <1>6, <2>1, IssuanceAssumption DEF IInv, TxInv, TypeOK, InTx, S
    <3>2. last'[S(v)] = last[S(v)]
      BY <1>4, <1>7, <2>1, <3>1
    <3>3. QED
      BY <1>6, <1>7, <2>1, <3>1, <3>2
  <2>2. CASE ~RowLocks
    BY <1>8, <2>2
  <2>3. QED
    BY <2>1, <2>2
<1>10. SavedInv'
  <2> SUFFICES ASSUME NEW v \in Workers, pc'[v] = "saved"
               PROVE  /\ ~stale'[v]
                      /\ mem'[v].number = seen'[v] + 1
                      /\ row'[mem'[v].inv].number = NoNumber
                      /\ RowLocks
    BY DEF SavedInv, IsIssued
  <2>1. InTx(v)'
    BY DEF InTx
  <2>2. RowLocks
    BY <1>8, <2>1
  <2>3. pc[v] = "saved"
    BY <1>3, <1>6, <2>1 DEF IInv, TypeOK
  <2>4. /\ mem[v].number = seen[v] + 1 /\ ~IsIssued(mem[v].inv)
        /\ mem[v].inv \in Invoices
    BY <2>3 DEF IInv, SavedInv, TypeOK
  <2>5. mem[v].inv # i
    BY <1>2, <1>7, <2>1, <2>2 DEF S
  <2>6. QED
    BY <1>4, <1>6, <1>7, <2>1, <2>2, <2>4, <2>5 DEF IsIssued
<1>11. QED
  BY <1>5, <1>9, <1>10 DEF IInv

LEMMA IInvStep == IInv /\ [Next]_vars => IInv'
<1> SUFFICES ASSUME IInv, [Next]_vars PROVE IInv'
  OBVIOUS
<1> USE IssuanceAssumption
<1>1. TypeOK'
  BY TypeStep DEF IInv
<1>2. ASSUME NEW w \in Workers, NEW i \in Invoices, Call(w, i) PROVE IInv'
  <2>1. GapFree'
    BY <1>2, GapFreeUnchanged DEF IInv, Call
  <2>2. \A v \in Workers :
            InTx(v)' => v # w /\ InTx(v) /\ mem'[v] = mem[v] /\ pc'[v] = pc[v] /\ S(v)' = S(v)
    BY <1>2 DEF IInv, TypeOK, Call, InTx, S
  <2>3. UNCHANGED <<last, row, lock, seen, stale>>
    BY <1>2 DEF Call
  <2>4. TxInv'
    BY <2>2, <2>3 DEF IInv, TxInv
  <2>5. SavedInv'
    BY <2>2, <2>3 DEF IInv, SavedInv, InTx, IsIssued
  <2>6. QED
    BY <1>1, <2>1, <2>4, <2>5 DEF IInv
<1>3. ASSUME NEW w \in Workers, SelectForUpdate(w) PROVE IInv'
  <2>1. GapFree'
    BY <1>3, GapFreeUnchanged DEF IInv, SelectForUpdate
  <2>2. /\ S(w) \in SeriesIds
        /\ \A v \in Workers : S(v)' = S(v)
        /\ mem' = mem /\ last' = last /\ row' = row
        /\ pc'[w] = "selected" /\ seen'[w] = last[S(w)]
        /\ RowLocks => lock[S(w)] = Free
        /\ RowLocks => lock' = [lock EXCEPT ![S(w)] = w]
    BY <1>3 DEF IInv, TypeOK, SelectForUpdate, CanLock, S
  <2>3. ~stale'[w] /\ \A v \in Workers \ {w} : stale'[v] = stale[v]
    BY <1>3, Zenon DEF IInv, TypeOK, SelectForUpdate
  <2>4. \A v \in Workers \ {w} : pc'[v] = pc[v] /\ seen'[v] = seen[v]
    BY <1>3 DEF IInv, TypeOK, SelectForUpdate
  <2>5. ASSUME NEW v \in Workers \ {w}, InTx(v), RowLocks
        PROVE  lock'[S(v)] = v
    <3>1. lock[S(v)] = v /\ S(v) \in SeriesIds
      BY <2>5 DEF IInv, TxInv, TypeOK, InTx, S
    <3>2. S(v) # S(w)
      BY <2>2, <2>5, <3>1
    <3>3. QED
      BY <2>2, <2>5, <3>1, <3>2 DEF IInv, TypeOK
  <2>6. ASSUME RowLocks PROVE lock'[S(w)] = w
    BY <2>2, <2>6 DEF IInv, TypeOK
  <2>7. TxInv'
    BY <2>2, <2>3, <2>4, <2>5, <2>6 DEF IInv, TxInv, InTx
  <2>8. SavedInv'
    BY <2>2, <2>3, <2>4 DEF IInv, SavedInv, InTx, IsIssued
  <2>9. QED
    BY <1>1, <2>1, <2>7, <2>8 DEF IInv
<1>4. ASSUME NEW w \in Workers, RefuseIncomplete(w) PROVE IInv'
  <2>1. \A v \in Workers \ {w} : stale'[v] = stale[v]
    BY <1>4, Zenon DEF IInv, TypeOK, RefuseIncomplete
  <2>2. QED
    BY <1>1, <1>4, <2>1, LeaveIsOut DEF RefuseIncomplete
<1>5. ASSUME NEW w \in Workers, RefuseReissue(w) PROVE IInv'
  BY <1>1, <1>5, LeaveIsOut DEF RefuseReissue
<1>6. ASSUME NEW w \in Workers, Save(w) PROVE IInv'
  <2>1. GapFree'
    BY <1>6, GapFreeUnchanged DEF IInv, Save
  <2>2. InTx(w) /\ ~stale[w]
    BY <1>6 DEF Save, InTx
  <2>3. ~IsIssued(mem[w].inv)
    BY <1>6, <2>2, NextIsFresh DEF Save
  <2>4. /\ UNCHANGED <<last, row, lock, seen, stale>>
        /\ pc'[w] = "saved" /\ mem'[w].number = seen[w] + 1
        /\ \A v \in Workers : mem'[v].inv = mem[v].inv /\ S(v)' = S(v)
        /\ \A v \in Workers \ {w} : pc'[v] = pc[v] /\ mem'[v] = mem[v]
    BY <1>6 DEF IInv, TypeOK, Save, Stamped, Object, S
  <2>5. \A v \in Workers : InTx(v)' => InTx(v)
    BY <2>2, <2>4 DEF InTx
  <2>6. TxInv'
    BY <2>4, <2>5 DEF IInv, TxInv
  <2>7. ASSUME ~RowLocks, NEW v \in Workers, pc[v] = "saved" PROVE v = w
    BY <1>6, <2>7 DEF Save, Busy
  <2>8. SavedInv'
    BY <2>2, <2>3, <2>4, <2>7 DEF IInv, SavedInv, IsIssued
  <2>9. QED
    BY <1>1, <2>1, <2>6, <2>8 DEF IInv
<1>7. ASSUME NEW w \in Workers, Commit(w) PROVE IInv'
  BY <1>1, <1>7, CommitStep
<1>8. ASSUME NEW w \in Workers, LoseRace(w) PROVE IInv'
  BY <1>1, <1>8, RetryIsOut DEF LoseRace
<1>9. ASSUME NEW w \in Workers, SaveError(w) PROVE IInv'
  BY <1>1, <1>9, RetryIsOut DEF SaveError
<1>10. ASSUME NEW w \in Workers, Abort(w) PROVE IInv'
  <2>1. \A v \in Workers \ {w} : stale'[v] = stale[v]
    BY <1>10, Zenon DEF IInv, TypeOK, Abort
  <2>2. QED
    BY <1>1, <1>10, <2>1, LeaveIsOut DEF Abort
<1>11. CASE Tick \/ UNCHANGED vars
  <2>1. UNCHANGED <<last, row, lock, pc, mem, seen, stale>>
    BY <1>11 DEF Tick, vars
  <2>2. GapFree' /\ TxInv' /\ SavedInv'
    BY <2>1 DEF IInv, GapFree, TxInv, SavedInv, InTx, IsIssued, S
  <2>3. QED
    BY <1>1, <2>2 DEF IInv
<1>12. QED
  BY <1>2, <1>3, <1>4, <1>5, <1>6, <1>7, <1>8, <1>9, <1>10, <1>11 DEF Next, Step

LEMMA IInvAlways == Spec => []IInv
BY IInvInit, IInvStep, PTL DEF Spec

\* R-02, AD-6: whatever the number of workers and drafts, with or without row
\* locks, across retries, crashes and rollbacks, the numbers issued in a
\* series are 1 .. last_number without a gap or a duplicate.
THEOREM NumberingIsGapFree == Spec => []GapFree
<1>1. IInv => GapFree
  BY DEF IInv
<1>2. QED
  BY <1>1, IInvAlways, PTL

\* The row lock (or, on SQLite, the failure of an out-of-date transaction)
\* rules out the lost update: the unique constraint is only a backstop.
THEOREM NoUpdateIsLost == Spec => []NoLostUpdate
<1>1. IInv => NoLostUpdate
  BY NextIsFresh DEF NoLostUpdate, InTx
<1>2. QED
  BY <1>1, IInvAlways, PTL

\* Requirement 6: no step changes the number or the date of an issued invoice.
THEOREM IssuedIdentityIsFixed == Spec => IdentityFixed
<1>1. IInv /\ [Next]_vars => [\A i \in Invoices : IsIssued(i) => row'[i] = row[i]]_vars
  <2> SUFFICES ASSUME IInv, Next, NEW i \in Invoices, IsIssued(i)
               PROVE  row'[i] = row[i]
    OBVIOUS
  <2>1. ASSUME NEW w \in Workers, Commit(w) PROVE row'[i] = row[i]
    <3>1. mem[w].inv # i
      BY <2>1 DEF Commit, IInv, SavedInv
    <3>2. QED
      BY <2>1, <3>1 DEF Commit, IInv, TypeOK
  <2>2. CASE row' = row
    BY <2>2
  <2>3. QED
    BY <2>1, <2>2
       DEF Next, Step, Call, SelectForUpdate, RefuseIncomplete, RefuseReissue,
           Save, LoseRace, SaveError, Retry, Abort, Tick
<1>2. QED
  BY <1>1, IInvAlways, PTL DEF Spec, IdentityFixed

----------------------------------------------------------------------------
(* Dates follow numbers *)

\* Why the date of a commit is not before those of its series: a draft and an
\* object that is not saved have no date, so that the save takes today's; and
\* from then on the series is locked.
Calendar ==
    /\ \A i \in Invoices : /\ row[i].date <= today
                           /\ ~IsIssued(i) => row[i].date = NoDate
    /\ \A w \in Workers :
          /\ pc[w] \in {"try", "selected"} => mem[w].date = NoDate
          /\ pc[w] = "saved" =>
                /\ mem[w].date <= today
                /\ \A i \in Invoices : SeriesOf[i] = S(w) => row[i].date <= mem[w].date

DateInv == errors = 0 => Calendar /\ DatesFollowNumbers

LEMMA DateInit == Init => DateInv
BY IssuanceAssumption
   DEF Init, DateInv, Calendar, DatesFollowNumbers, IsIssued, Blank, NoNumber, NoDate

\* With row locks no save loses a race.
LEMMA NoRaceIsLost ==
    ASSUME IInv, RowLocks, NEW w \in Workers
    PROVE  ~LoseRace(w)
<1> SUFFICES ASSUME LoseRace(w) PROVE FALSE
  OBVIOUS
<1>1. InTx(w) /\ ~stale[w]
  BY DEF LoseRace, InTx, IInv, TxInv
<1>2. Unique(mem[w].inv, Stamped(w).number)
  BY <1>1, NextIsFresh DEF Stamped
<1>3. QED
  BY <1>1, <1>2 DEF LoseRace, Busy

\* A step that commits nothing, moves only worker w, and leaves it idle or
\* with an object without a date.
LEMMA NothingDated ==
    ASSUME IInv, Calendar, DatesFollowNumbers, errors = 0, NEW w \in Workers,
           UNCHANGED <<row, today>>,
           pc'[w] \in {"try", "selected"} => mem'[w].date = NoDate,
           pc'[w] # "saved",
           \A v \in Workers \ {w} : pc'[v] = pc[v] /\ mem'[v] = mem[v]
    PROVE  Calendar' /\ DatesFollowNumbers'
<1>1. DatesFollowNumbers'
  BY DEF DatesFollowNumbers, IsIssued
<1>2. \A i \in Invoices : /\ row'[i].date <= today'
                          /\ ~IsIssued(i)' => row'[i].date = NoDate
  BY DEF Calendar, IsIssued
<1>3. ASSUME NEW v \in Workers
      PROVE  /\ pc'[v] \in {"try", "selected"} => mem'[v].date = NoDate
             /\ pc'[v] = "saved" =>
                   /\ mem'[v].date <= today'
                   /\ \A i \in Invoices : SeriesOf[i] = S(v)' => row'[i].date <= mem'[v].date
  BY DEF Calendar, S
<1>4. QED
  BY <1>1, <1>2, <1>3 DEF Calendar

LEMMA DateCommit ==
    ASSUME IInv, RowLocks, Calendar, DatesFollowNumbers, NEW w \in Workers, Commit(w)
    PROVE  Calendar' /\ DatesFollowNumbers'
<1> DEFINE i == mem[w].inv
           s == S(w)
<1>1. InTx(w) /\ ~stale[w] /\ pc[w] = "saved"
  BY DEF Commit, InTx, IInv, SavedInv
<1>2. /\ i \in Invoices /\ s \in SeriesIds /\ SeriesOf[i] = s
      /\ mem[w].number = last[s] + 1 /\ last[s] \in Nat
      /\ mem[w].date \in Nat /\ today \in Nat
  BY <1>1, NextIsFresh DEF IInv, SavedInv, TypeOK, S
<1>3. /\ row'[i].number = last[s] + 1 /\ row'[i].date = mem[w].date
      /\ \A j \in Invoices \ {i} : row'[j] = row[j]
      /\ today' = today
  BY <1>2 DEF Commit, IInv, TypeOK
<1>4. /\ pc'[w] = "idle"
      /\ \A v \in Workers \ {w} : pc'[v] = pc[v] /\ mem'[v] = mem[v]
  BY DEF Commit, Leave, IInv, TypeOK
<1>5. \A j \in Invoices : row[j].number \in Nat /\ row[j].date \in Nat
  BY DEF IInv, TypeOK
<1>6. \A j \in Invoices : SeriesOf[j] = s =>
          row[j].number <= last[s] /\ row[j].date <= mem[w].date
  <2>1. \A j \in Invoices : SeriesOf[j] = s => row[j].number \in 0..last[s]
    BY <1>2 DEF IInv, GapFree
  <2>2. QED
    BY <1>1, <1>2, <1>5, <2>1 DEF Calendar
<1>7. \A j \in Invoices : /\ row'[j].date <= today'
                          /\ ~IsIssued(j)' => row'[j].date = NoDate
  <2>1. row'[i].number # NoNumber
    BY <1>2, <1>3 DEF NoNumber
  <2>2. mem[w].date <= today
    BY <1>1 DEF Calendar
  <2>3. QED
    BY <1>3, <2>1, <2>2 DEF Calendar, IsIssued
<1>8. ASSUME NEW v \in Workers, pc'[v] = "saved"
      PROVE  /\ mem'[v].date <= today'
             /\ \A j \in Invoices : SeriesOf[j] = S(v)' => row'[j].date <= mem'[v].date
  <2>1. v # w /\ pc[v] = "saved" /\ mem'[v] = mem[v] /\ S(v)' = S(v)
    BY <1>4, <1>8 DEF S
  <2>2. lock[S(v)] = v /\ lock[s] = w
    BY <1>1, <2>1 DEF IInv, TxInv, InTx
  <2>3. i \notin {j \in Invoices : SeriesOf[j] = S(v)}
    BY <1>2, <2>1, <2>2
  <2>4. QED
    BY <1>3, <2>1, <2>3 DEF Calendar
<1>9. Calendar'
  BY <1>4, <1>7, <1>8 DEF Calendar
<1>10. errors' = errors
  BY DEF Commit
<1>11. ASSUME errors = 0, NEW j \in Invoices, NEW k \in Invoices,
              SeriesOf[j] = SeriesOf[k], IsIssued(j)', row'[j].number <= row'[k].number
       PROVE  row'[j].date <= row'[k].date
  <2>1. CASE j = i /\ k = i
    BY <1>2, <1>3, <2>1
  <2>2. CASE j = i /\ k # i
    BY <1>2, <1>3, <1>5, <1>6, <1>11, <2>2
  <2>3. CASE j # i /\ k = i
    BY <1>2, <1>3, <1>6, <1>11, <2>3
  <2>4. CASE j # i /\ k # i
    BY <1>3, <1>11, <2>4 DEF DatesFollowNumbers, IsIssued
  <2>5. QED
    BY <2>1, <2>2, <2>3, <2>4
<1>12. DatesFollowNumbers'
  BY <1>10, <1>11 DEF DatesFollowNumbers
<1>13. QED
  BY <1>9, <1>12

LEMMA DateStep == RowLocks /\ IInv /\ DateInv /\ [Next]_vars => DateInv'
<1> SUFFICES ASSUME RowLocks, IInv, DateInv, [Next]_vars, errors' = 0
             PROVE  Calendar' /\ DatesFollowNumbers'
  BY DEF DateInv
<1>1. ASSUME NEW w \in Workers, SaveError(w) PROVE FALSE
  BY <1>1 DEF SaveError, IInv, TypeOK
<1>2. errors = 0
  BY <1>1 DEF Next, Step, Call, SelectForUpdate, RefuseIncomplete, RefuseReissue,
              Save, Commit, LoseRace, Abort, Tick, vars
<1>3. Calendar /\ DatesFollowNumbers
  BY <1>2 DEF DateInv
<1>4. ASSUME NEW w \in Workers, Leave(w), UNCHANGED <<row, today>>
      PROVE  Calendar' /\ DatesFollowNumbers'
  <2>1. /\ pc'[w] = "idle"
        /\ \A v \in Workers \ {w} : pc'[v] = pc[v] /\ mem'[v] = mem[v]
    BY <1>4 DEF Leave, IInv, TypeOK
  <2>2. QED
    BY <1>2, <1>3, <1>4, <2>1, NothingDated
<1>5. ASSUME NEW w \in Workers, NEW i \in Invoices, Call(w, i)
      PROVE  Calendar' /\ DatesFollowNumbers'
  <2>1. mem'[w] = Loaded(i) /\ pc'[w] = "try"
    BY <1>5 DEF Call, IInv, TypeOK
  <2>2. mem'[w].date = NoDate
    BY <1>3, <1>5, <2>1 DEF Call, Loaded, Object, Calendar
  <2>3. \A v \in Workers \ {w} : pc'[v] = pc[v] /\ mem'[v] = mem[v]
    BY <1>5 DEF Call, IInv, TypeOK
  <2>4. QED
    BY <1>2, <1>3, <1>5, <2>1, <2>2, <2>3, NothingDated DEF Call
<1>6. ASSUME NEW w \in Workers, SelectForUpdate(w)
      PROVE  Calendar' /\ DatesFollowNumbers'
  <2>1. /\ pc[w] = "try" /\ pc'[w] = "selected" /\ mem' = mem
        /\ \A v \in Workers \ {w} : pc'[v] = pc[v]
        /\ UNCHANGED <<row, today>>
    BY <1>6 DEF SelectForUpdate, IInv, TypeOK
  <2>2. mem'[w].date = NoDate
    BY <1>3, <2>1 DEF Calendar
  <2>3. QED
    BY <1>2, <1>3, <2>1, <2>2, NothingDated
<1>7. ASSUME NEW w \in Workers, Save(w)
      PROVE  Calendar' /\ DatesFollowNumbers'
  <2>1. /\ UNCHANGED <<row, today, errors>>
        /\ pc[w] = "selected" /\ pc'[w] = "saved"
        /\ mem'[w].inv = mem[w].inv /\ mem'[w].date = Stamped(w).date
        /\ \A v \in Workers \ {w} : pc'[v] = pc[v] /\ mem'[v] = mem[v]
    BY <1>7 DEF Save, Object, IInv, TypeOK
  <2>2. mem'[w].date = today
    BY <1>3, <2>1 DEF Stamped, Calendar
  <2>3. today \in Nat
    BY DEF IInv, TypeOK
  <2>4. DatesFollowNumbers'
    BY <1>3, <2>1 DEF DatesFollowNumbers, IsIssued
  <2>5. \A i \in Invoices : /\ row'[i].date <= today'
                            /\ ~IsIssued(i)' => row'[i].date = NoDate
    BY <1>3, <2>1 DEF Calendar, IsIssued
  <2>6. ASSUME NEW v \in Workers
        PROVE  /\ pc'[v] \in {"try", "selected"} => mem'[v].date = NoDate
               /\ pc'[v] = "saved" =>
                     /\ mem'[v].date <= today'
                     /\ \A i \in Invoices : SeriesOf[i] = S(v)' => row'[i].date <= mem'[v].date
    <3>1. CASE v = w
      BY <2>1, <2>2, <2>3, <2>5, <3>1
    <3>2. CASE v # w
      BY <1>3, <2>1, <3>2 DEF Calendar, S
    <3>3. QED
      BY <3>1, <3>2
  <2>7. QED
    BY <2>4, <2>5, <2>6 DEF Calendar
<1>8. CASE Tick
  <2>1. /\ UNCHANGED <<row, pc, mem, errors>>
        /\ today' = today + 1 /\ today \in Nat
    BY <1>8 DEF Tick, IInv, TypeOK
  <2>2. /\ \A i \in Invoices : row[i].date \in Nat
        /\ \A w \in Workers : mem[w].date \in Nat
    BY DEF IInv, TypeOK
  <2>3. QED
    BY <1>3, <2>1, <2>2 DEF Calendar, DatesFollowNumbers, IsIssued, S
<1>9. CASE UNCHANGED vars
  BY <1>3, <1>9 DEF vars, Calendar, DatesFollowNumbers, IsIssued, S
<1>10. ASSUME NEW w \in Workers, Step(w)
       PROVE  Calendar' /\ DatesFollowNumbers'
  BY <1>3, <1>4, <1>6, <1>7, <1>10, NoRaceIsLost, DateCommit
     DEF Step, RefuseIncomplete, RefuseReissue
<1>11. ASSUME NEW w \in Workers, Abort(w)
       PROVE  Calendar' /\ DatesFollowNumbers'
  BY <1>4, <1>11 DEF Abort
<1>12. QED
  BY <1>1, <1>5, <1>8, <1>9, <1>10, <1>11 DEF Next

\* On PostgreSQL, and as long as no save has failed, the dates of a series
\* follow its numbers.  (A retry keeps the date of the failed attempt, on
\* SQLite that of a lost race too: services.py:66 and 83-84.)
THEOREM DatesNeverRunBack == RowLocks => (Spec => []DatesFollowNumbers)
<1> SUFFICES ASSUME RowLocks PROVE Spec => []DatesFollowNumbers
  OBVIOUS
<1>1. IInv /\ DateInv /\ [Next]_vars => DateInv'
  BY DateStep
<1>2. Spec => []DateInv
  BY <1>1, DateInit, IInvAlways, PTL DEF Spec
<1>3. DateInv => DatesFollowNumbers
  BY DEF DateInv, DatesFollowNumbers
<1>4. QED
  BY <1>2, <1>3, PTL

----------------------------------------------------------------------------
(* Issuance implements Book *)

LEMMA HolderProperty ==
    ASSUME TypeOK, GapFree, NEW s \in SeriesIds, NEW n \in 1..last[s]
    PROVE  /\ Holder(s, n) \in Invoices
           /\ SeriesOf[Holder(s, n)] = s
           /\ row[Holder(s, n)].number = n
           /\ \A i \in Invoices : SeriesOf[i] = s /\ row[i].number = n => i = Holder(s, n)
<1>1. n \in Nat \ {0}
  BY DEF TypeOK
<1>2. \E i \in Invoices : SeriesOf[i] = s /\ row[i].number = n
  BY DEF GapFree
<1>3. /\ Holder(s, n) \in Invoices
      /\ SeriesOf[Holder(s, n)] = s
      /\ row[Holder(s, n)].number = n
  BY <1>2 DEF Holder, Holders
<1>4. \A i, j \in Invoices :
        /\ SeriesOf[i] = s /\ SeriesOf[j] = s
        /\ IsIssued(i) /\ row[i].number = row[j].number
        => i = j
  BY DEF GapFree
<1>5. ASSUME NEW i \in Invoices, SeriesOf[i] = s, row[i].number = n
      PROVE  i = Holder(s, n)
  BY <1>1, <1>3, <1>4, <1>5 DEF IsIssued, NoNumber
<1>6. QED
  BY <1>3, <1>5

LEMMA BooksType ==
    ASSUME TypeOK, GapFree, NEW s \in SeriesIds
    PROVE  /\ Books[s] \in Seq(Invoices)
           /\ Len(Books[s]) = last[s]
           /\ \A n \in 1..last[s] : Books[s][n] = Holder(s, n)
<1>1. last[s] \in Nat
  BY DEF TypeOK
<1>2. Books[s] = [n \in 1..last[s] |-> Holder(s, n)]
  BY DEF Books
<1>3. \A n \in 1..last[s] : Holder(s, n) \in Invoices
  BY HolderProperty
<1>4. Books[s] \in [1..last[s] -> Invoices]
  BY <1>2, <1>3
<1>5. QED
  BY <1>1, <1>2, <1>4, SeqDef

\* A draft is entered in no book.
LEMMA DraftIsNotEntered ==
    ASSUME TypeOK, GapFree, NEW i \in Invoices, ~IsIssued(i)
    PROVE  i \notin Ledger!Entered
<1>1. SUFFICES ASSUME NEW n \in 1..Len(Books[SeriesOf[i]]), Books[SeriesOf[i]][n] = i
               PROVE  FALSE
  BY DEF Ledger!Entered
<1>2. SeriesOf[i] \in SeriesIds
  BY IssuanceAssumption
<1>3. n \in 1..last[SeriesOf[i]] /\ Holder(SeriesOf[i], n) = i
  BY <1>1, <1>2, BooksType
<1>4. row[i].number = n
  BY <1>2, <1>3, HolderProperty
<1>5. n # NoNumber
  BY <1>2, <1>3 DEF NoNumber, TypeOK
<1>6. QED
  BY <1>4, <1>5 DEF IsIssued

LEMMA CommitRegisters ==
    ASSUME IInv, IInv', NEW w \in Workers, Commit(w)
    PROVE  Ledger!Enter(mem[w].inv)
<1> DEFINE i == mem[w].inv
           s == S(w)
<1>1. InTx(w) /\ ~stale[w]
  BY DEF Commit, InTx, IInv, SavedInv
<1>2. /\ i \in Invoices /\ s \in SeriesIds /\ s = SeriesOf[i]
      /\ mem[w].number = last[s] + 1 /\ ~IsIssued(i) /\ last[s] \in Nat
  BY <1>1, NextIsFresh DEF IInv, SavedInv, TypeOK, S, Commit
<1>3. /\ row'[i].number = last[s] + 1 /\ last'[s] = last[s] + 1
      /\ \A j \in Invoices \ {i} : row'[j] = row[j]
      /\ \A t \in SeriesIds \ {s} : last'[t] = last[t]
  BY <1>2 DEF Commit, Advanced, IInv, TypeOK
<1>4. i \notin Ledger!Entered
  BY <1>2, DraftIsNotEntered DEF IInv
<1>5. ASSUME NEW t \in SeriesIds, NEW n \in 1..last[t]
      PROVE  Holder(t, n)' = Holder(t, n)
  <2>1. n \in Nat \ {0} /\ last[t] \in Nat
    BY DEF IInv, TypeOK
  <2>2. /\ ~(SeriesOf[i] = t /\ row[i].number = n)
        /\ ~(SeriesOf[i] = t /\ row'[i].number = n)
    BY <1>2, <1>3, <2>1 DEF IsIssued, NoNumber
  <2>3. Holders(t, n)' = Holders(t, n)
    BY <1>3, <2>2 DEF Holders
  <2>4. QED
    BY <2>3 DEF Holder
<1>6. \A t \in SeriesIds : \A n \in Nat : t = s /\ n = last[s] + 1 => Holder(t, n)' = i
  <2>1. ASSUME NEW t \in SeriesIds, NEW n \in Nat, t = s, n = last[s] + 1
        PROVE  Holders(t, n)' = {i}
    <3>1. \A j \in Invoices : SeriesOf[j] = s => row[j].number \in 0..last[s]
      BY <1>2 DEF IInv, GapFree
    <3>2. \A j \in Invoices : SeriesOf[j] = t /\ row'[j].number = n => j = i
      BY <1>2, <1>3, <2>1, <3>1
    <3>3. QED
      BY <1>2, <1>3, <2>1, <3>2 DEF Holders
  <2>2. QED
    BY <2>1 DEF Holder
<1>7. Books' = [Books EXCEPT ![s] = Append(Books[s], i)]
  <2>1. /\ \A t \in SeriesIds : Books[t] \in Seq(Invoices) /\ Len(Books[t]) = last[t]
        /\ \A t \in SeriesIds : \A n \in 1..last[t] : Books[t][n] = Holder(t, n)
    BY BooksType DEF IInv
  <2>2. Books'[s] = Append(Books[s], i)
    <3> DEFINE longer == Append(Books[s], i)
    <3>1. /\ longer \in Seq(Invoices)
          /\ Len(longer) = last[s] + 1
          /\ \A n \in 1..last[s] : longer[n] = Books[s][n]
          /\ longer[last[s] + 1] = i
      BY <1>2, <2>1, AppendProperties
    <3>2. longer = [n \in 1..Len(longer) |-> longer[n]]
      BY <3>1, LenProperties
    <3>3. ASSUME NEW t \in SeriesIds, t = s PROVE Books'[t] = longer
      <4>1. Books'[t] = [n \in 1..last'[t] |-> Holder(t, n)']
        BY DEF Books
      <4>2. last'[t] = Len(longer)
        BY <1>3, <3>1, <3>3
      <4>3. ASSUME NEW n \in 1..last'[t] PROVE Holder(t, n)' = longer[n]
        <5>1. CASE n \in 1..last[s]
          <6>1. Holder(t, n)' = Holder(t, n)
            BY <1>5, <3>3, <5>1
          <6>2. Books[t][n] = Holder(t, n)
            BY <2>1, <3>3, <5>1
          <6>3. QED
            BY <3>1, <3>3, <5>1, <6>1, <6>2
        <5>2. CASE n = last[s] + 1
          <6>1. Holder(t, n)' = i
            BY <1>2, <1>6, <3>3, <5>2
          <6>2. QED
            BY <3>1, <5>2, <6>1
        <5>3. last[s] \in Nat /\ n \in 1..(last[s] + 1)
          BY <1>2, <1>3, <3>3
        <5>4. n \in 1..last[s] \/ n = last[s] + 1
          BY <5>3
        <5>5. QED
          BY <5>1, <5>2, <5>4
      <4>4. QED
        BY <3>2, <4>1, <4>2, <4>3
    <3>4. QED
      BY <1>2, <3>3
  <2>3. \A t \in SeriesIds \ {s} : Books'[t] = Books[t]
    BY <1>3, <1>5 DEF Books
  <2>4. QED
    BY <1>2, <2>2, <2>3 DEF Books
<1>8. QED
  BY <1>2, <1>4, <1>7 DEF Ledger!Enter

\* AD-6: issue_invoice, with its transactions, locks and retries, implements
\* the abstract book: every step enters one draft at the end of its series'
\* book, or changes no book.
THEOREM IssuanceKeepsTheBooks == Spec => KeepsTheBooks
<1>1. Init => Ledger!Init
  <2> SUFFICES ASSUME Init, NEW s \in SeriesIds PROVE Books[s] = << >>
    BY DEF Ledger!Init, Books
  <2>1. Books[s] \in Seq(Invoices) /\ Len(Books[s]) = 0
    BY IInvInit, BooksType DEF IInv, Init
  <2>2. QED
    BY <2>1, EmptySeq
<1>2. IInv /\ IInv' /\ [Next]_vars => [Ledger!Next]_Books
  <2> SUFFICES ASSUME IInv, IInv', [Next]_vars PROVE Ledger!Next \/ UNCHANGED Books
    OBVIOUS
  <2>1. ASSUME NEW w \in Workers, Commit(w) PROVE Ledger!Next
    <3>1. mem[w].inv \in Invoices
      BY <2>1 DEF IInv, TypeOK, Commit
    <3>2. QED
      BY <2>1, <3>1, CommitRegisters DEF Ledger!Next
  <2>2. CASE UNCHANGED <<last, row>>
    BY <2>2 DEF Books, Holder, Holders
  <2>3. QED
    BY <2>1, <2>2
       DEF Next, Step, Call, SelectForUpdate, RefuseIncomplete, RefuseReissue,
           Save, LoseRace, SaveError, Retry, Abort, Tick, vars
<1>3. QED
  BY <1>1, <1>2, IInvAlways, PTL DEF Spec, KeepsTheBooks, Ledger!Spec

=============================================================================
