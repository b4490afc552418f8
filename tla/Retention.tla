------------------------------ MODULE Retention ------------------------------
(***************************************************************************)
(* What an owner's data lives through: clients are created and deleted,    *)
(* invoices issued, certificates stored, the account is closed, and the    *)
(* command purge_expired_data deletes what is past its time, in three      *)
(* transactions of its own, while the owners go on working                 *)
(* (accounts/, clients/, certificates/, and the foreign keys of the other  *)
(* models, which decide what a deletion takes along and what forbids it).  *)
(*                                                                         *)
(* Drafts exist only inside the transaction that issues them, and an       *)
(* invoice is corrected only when it has a record, whose key then protects *)
(* it anyway; neither has a state of its own here.  --dry-run writes       *)
(* nothing.  The fields of a client and the encryption of a certificate    *)
(* are left out.                                                           *)
(***************************************************************************)
EXTENDS Integers

CONSTANTS Users, Invoices, Clients,
          Legacy,     \* invoices issued before records were generated (T-033)
          Window,     \* the retention of invoices, 5 years
          Grace,      \* the grace period of an account, 30 days
          MaxNow,     \* bound: the last day
          None        \* no row, no value

Days == 0..MaxNow

Rows == [owner : Users, client : Clients \cup {None}, date : Days, record : BOOLEAN]

ASSUME RetentionAssumption ==
    /\ Legacy \subseteq Invoices
    /\ Window \in Nat /\ Grace \in Nat /\ MaxNow \in Nat
    /\ None \notin Rows \cup Users \cup Days

VARIABLES
    account,    \* "active", "inactive" or "gone"
    requested,  \* DeletionRequest.requested_at, or None
    stored,     \* the owners with a certificate
    client,     \* the owner of each client, or None
    inv,        \* each issued invoice, or None
    now,
    pc,         \* where the command is
    cut,        \* the day its cut-offs are counted from
    orphans,    \* client ids of the invoices it deleted, then the clients to delete
    eligible    \* the accounts to delete

data == <<account, requested, stored, client, inv>>
command == <<pc, cut, orphans, eligible>>
vars == <<account, requested, stored, client, inv, now, pc, cut, orphans, eligible>>

----------------------------------------------------------------------------
InvoicesOf(u) == {i \in Invoices : inv[i] # None /\ inv[i].owner = u}
Linked(c) == {i \in Invoices : inv[i] # None /\ inv[i].client = c}

\* The command's cut-offs: issue_date < cutoff, requested_at < cutoff.
Expired == {i \in Invoices : inv[i] # None /\ inv[i].date < cut - Window}

PastGrace(u) == requested[u] # None /\ requested[u] < cut - Grace

\* ProtectedError: an invoice of S has a Verifactu record.
Protected(S) == \E i \in S : inv[i].record

\* Mistake to detect: only invoices that have a record keep an account.
RecentWithRecord(u) == \E i \in InvoicesOf(u) \ Expired : inv[i].record

\* has_recent.
Recent(u) == InvoicesOf(u) \ Expired # {}

Without(S) == [i \in Invoices |-> IF i \in S THEN None ELSE inv[i]]

Init ==
    /\ account = [u \in Users |-> "active"]
    /\ requested = [u \in Users |-> None]
    /\ stored = {}
    /\ client \in [Clients -> Users \cup {None}]
    /\ \E old \in SUBSET Legacy, u \in Users, c \in Clients \cup {None} :
          /\ c # None => client[c] = u
          /\ inv = [i \in Invoices |->
                IF i \in old THEN [owner |-> u, client |-> c, date |-> 0, record |-> FALSE]
                ELSE None]
    /\ now = 0
    /\ pc = "idle" /\ cut = 0
    /\ orphans = {} /\ eligible = {}

----------------------------------------------------------------------------
(* Requests of an owner.  Each needs a session, and an inactive account has   *)
(* none.                                                                      *)

\* invoice_create: the invoice and its record, for one of the owner's clients.
Issue(u, i, c) ==
    /\ account[u] = "active" /\ inv[i] = None /\ i \notin Legacy
    /\ client[c] = u
    /\ inv' = [inv EXCEPT ![i] = [owner |-> u, client |-> c, date |-> now, record |-> TRUE]]
    /\ UNCHANGED <<account, requested, stored, client, now, command>>

\* invoice_register_verifactu, for an invoice without a record.
Register(i) ==
    /\ inv[i] # None /\ ~inv[i].record /\ account[inv[i].owner] = "active"
    /\ inv' = [inv EXCEPT ![i] = [@ EXCEPT !.record = TRUE]]
    /\ UNCHANGED <<account, requested, stored, client, now, command>>

\* client_create.
CreateClient(u, c) ==
    /\ account[u] = "active" /\ client[c] = None
    /\ client' = [client EXCEPT ![c] = u]
    /\ UNCHANGED <<account, requested, stored, inv, now, command>>

\* Mistake to detect: the client's invoices do not protect it.
Unused(c) == TRUE

Deletable(c) == Linked(c) = {}

\* client_delete.
DeleteClient(c) ==
    /\ client[c] # None /\ account[client[c]] = "active"
    /\ Deletable(c)
    /\ client' = [client EXCEPT ![c] = None]
    /\ UNCHANGED <<account, requested, stored, inv, now, command>>

\* certificates: upload or replace, delete.
StoreCertificate(u) ==
    /\ account[u] = "active"
    /\ stored' \in {stored \cup {u}, stored \ {u}}
    /\ UNCHANGED <<account, requested, client, inv, now, command>>

\* delete_account_confirm commits the request, unless there is an earlier one...
RequestDeletion(u) ==
    /\ account[u] = "active" /\ requested[u] = None
    /\ requested' = [requested EXCEPT ![u] = now]
    /\ UNCHANGED <<account, stored, client, inv, now, command>>

\* ...and then closes the account; it may be killed before, and be called again or not.
Deactivate(u) ==
    /\ account[u] = "active" /\ requested[u] # None
    /\ account' = [account EXCEPT ![u] = "inactive"]
    /\ UNCHANGED <<requested, stored, client, inv, now, command>>

NextDay ==
    /\ now < MaxNow
    /\ now' = now + 1
    /\ UNCHANGED <<data, command>>

----------------------------------------------------------------------------
(* purge_expired_data *)

Start ==
    /\ pc \in {"idle", "done", "failed"}
    /\ pc' = "invoices" /\ cut' = now
    /\ orphans' = {} /\ eligible' = {}
    /\ UNCHANGED <<data, now>>

\* An exception ends the command; what earlier transactions deleted stays deleted.
Fail == pc' = "failed" /\ UNCHANGED <<data, now, cut, orphans, eligible>>

\* _purge_expired_invoices.
PurgeInvoices ==
    /\ pc = "invoices"
    /\ IF Protected(Expired) THEN Fail
       ELSE /\ inv' = Without(Expired)
            /\ orphans' = {inv[i].client : i \in Expired} \ {None}
            /\ pc' = "clients"
            /\ UNCHANGED <<account, requested, stored, client, now, cut, eligible>>

\* _purge_orphaned_clients: the clients without a surviving invoice are selected...
Orphaned(C) == {c \in C : Linked(c) = {}}

SelectClients ==
    /\ pc = "clients"
    /\ orphans' = Orphaned(orphans)
    /\ pc' = "deleting"
    /\ UNCHANGED <<data, now, cut, eligible>>

\* ...and deleted, unless one has got an invoice meanwhile.
DeleteClients ==
    /\ pc = "deleting"
    /\ IF \E c \in orphans : Linked(c) # {} THEN Fail
       ELSE /\ client' = [c \in Clients |-> IF c \in orphans THEN None ELSE client[c]]
            /\ pc' = "accounts"
            /\ UNCHANGED <<account, requested, stored, inv, now, cut, orphans, eligible>>

\* Mistake to detect: one account that is kept keeps the others.
AllOrNone ==
    LET past == {u \in Users : PastGrace(u)}
    IN  IF \E u \in past : Recent(u) THEN {} ELSE past

Eligible == {u \in Users : PastGrace(u) /\ ~Recent(u)}

\* _purge_requested_accounts: eligible and blocked accounts are told apart...
Split ==
    /\ pc = "accounts"
    /\ eligible' = Eligible
    /\ pc' = "purging"
    /\ UNCHANGED <<data, now, cut, orphans>>

\* ...and the eligible ones deleted with all they own, or none of them.
DeleteAccounts ==
    LET theirs == UNION {InvoicesOf(u) : u \in eligible}
    IN  /\ pc = "purging"
        /\ IF Protected(theirs) THEN Fail
           ELSE /\ inv' = Without(theirs)
                /\ client' = [c \in Clients |-> IF client[c] \in eligible THEN None ELSE client[c]]
                /\ account' = [u \in Users |-> IF u \in eligible THEN "gone" ELSE account[u]]
                /\ requested' = [u \in Users |-> IF u \in eligible THEN None ELSE requested[u]]
                /\ stored' = stored \ eligible
                /\ pc' = "done"
                /\ UNCHANGED <<now, cut, orphans, eligible>>

\* The command is killed; its open transaction is rolled back.
Kill ==
    /\ pc \notin {"idle", "done", "failed"}
    /\ pc' = "idle"
    /\ UNCHANGED <<data, now, cut, orphans, eligible>>

Next ==
    \/ \E u \in Users, i \in Invoices, c \in Clients : Issue(u, i, c)
    \/ \E i \in Invoices : Register(i)
    \/ \E u \in Users, c \in Clients : CreateClient(u, c)
    \/ \E c \in Clients : DeleteClient(c)
    \/ \E u \in Users : StoreCertificate(u) \/ RequestDeletion(u) \/ Deactivate(u)
    \/ NextDay
    \/ Start \/ PurgeInvoices \/ SelectClients \/ DeleteClients \/ Split \/ DeleteAccounts \/ Kill

Spec == Init /\ [][Next]_vars

----------------------------------------------------------------------------
(* Properties *)

\* The state keeps its type, and no row refers to one that was deleted: the
\* command, a deletion of a client and the purge of an account leave no
\* invoice, client, certificate or request behind.
TypeOK ==
    /\ account \in [Users -> {"active", "inactive", "gone"}]
    /\ requested \in [Users -> Days \cup {None}]
    /\ client \in [Clients -> Users \cup {None}]
    /\ inv \in [Invoices -> Rows \cup {None}]
    /\ now \in Days /\ cut \in 0..now
    /\ \A i \in Invoices : inv[i] # None =>
          /\ account[inv[i].owner] # "gone"
          /\ inv[i].client # None => client[inv[i].client] = inv[i].owner
    /\ \A c \in Clients : client[c] # None => account[client[c]] # "gone"
    /\ \A u \in Users : account[u] = "gone" => requested[u] = None /\ u \notin stored

\* rgpd-checklist.md section 5, purge_expired_data.py:14-17 (Ley 58/2003): no
\* step of the command deletes an invoice that is within the retention window,
\* be it with its account, or one that has a record; the account of the owner
\* of such an invoice stays, and no account goes before its grace period is
\* over.
PurgesOnlyWhatIsDue ==
    [][/\ \A i \in Invoices : inv[i] # None /\ inv'[i] = None =>
             ~inv[i].record /\ now - inv[i].date > Window
       /\ \A u \in Users : account[u] # "gone" /\ account'[u] = "gone" =>
             /\ requested[u] # None /\ now - requested[u] > Grace
             /\ \A i \in Invoices : inv[i] # None /\ inv[i].owner = u =>
                   now - inv[i].date > Window]_vars

\* purge_expired_data.py:20-22: a run that comes to its end leaves nothing for a
\* second one with the same cut-offs, whatever the owners did meanwhile.
CompletedRunIsFinal ==
    pc = "done" =>
        /\ \A i \in Invoices : inv[i] # None => inv[i].date >= cut - Window
        /\ \A u \in Users : requested[u] # None /\ requested[u] < cut - Grace =>
              \E i \in Invoices : inv[i] # None /\ inv[i].owner = u
=============================================================================
