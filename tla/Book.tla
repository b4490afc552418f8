-------------------------------- MODULE Book --------------------------------
(***************************************************************************)
(* A set of append-only books: what numbering (Issuance) and the record    *)
(* chain (HashChain) both promise, stated without transactions, locks or   *)
(* retries.  Entries are made one after the other, each in the book it     *)
(* belongs to.  Nothing is struck out, moved or entered twice, and no      *)
(* place is left blank: in Issuance the place of an invoice in its book is *)
(* its number, in HashChain the place of a record is its link.             *)
(***************************************************************************)
EXTENDS Naturals, Sequences

CONSTANTS Entries,      \* what may be entered
          BookIds,      \* the books
          BookOf        \* the book each entry belongs in

VARIABLE book           \* book[b]: the entries of b, in order

Entered == {e \in Entries : \E n \in 1..Len(book[BookOf[e]]) :
                               book[BookOf[e]][n] = e}

Init == book = [b \in BookIds |-> << >>]

Enter(e) ==
    /\ e \notin Entered
    /\ book' = [book EXCEPT ![BookOf[e]] = Append(@, e)]

Next == \E e \in Entries : Enter(e)

Spec == Init /\ [][Next]_book
=============================================================================
