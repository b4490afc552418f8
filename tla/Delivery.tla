------------------------------ MODULE Delivery ------------------------------
(***************************************************************************)
(* The pages an owner works on after issuing an invoice                    *)
(* (invoicing/views.py, documents/services.py, accounts/views.py): which   *)
(* issuer a PDF and an email name, and what sent_at says of the emails.    *)
(*                                                                         *)
(* The issuer is typed into the form of an invoice and kept in the         *)
(* browser's session, not with the invoice; the PDF, the QR code and the   *)
(* email take it from there.  An email goes out between two accesses to    *)
(* the database, so a worker that sends one is interleaved with the other  *)
(* requests and with the purge of accounts.                                *)
(*                                                                         *)
(* Every page looks an invoice up among the owner's, refuses a GET and     *)
(* sends the owner back when the session holds no issuer: those returns    *)
(* change nothing.  The record's own life is in Lifecycle, the amounts in  *)
(* Amounts; the layout of the PDF and the texts are left out.              *)
(***************************************************************************)
EXTENDS Integers

CONSTANTS Users, Browsers, Bills,
          Issuers,    \* fiscal identities, each with its own address and email
          Old,        \* invoices issued before records were generated (T-033)
          Senders,    \* workers that send emails
          MaxDay,     \* bound: the last day
          MaxSends,   \* bound: emails tried
          Nothing     \* no value

VARIABLES
    active,   \* the accounts that can log in
    user,     \* session: the user logged in, or Nothing
    issuer,   \* session["issuer"], or Nothing
    bill,     \* each issued invoice, or Nothing
    sender,   \* each worker's request, or Nothing
    day,
    mails,    \* what was delivered
    tries,    \* how many emails were tried
    cut       \* invoices of which a request broke off at or after the sending

session == <<user, issuer>>
deliveryVars == <<active, user, issuer, bill, sender, day, mails, tries, cut>>

Day == 0..MaxDay

\* What a session keeps, with the user who typed it: the name and NIF of one
\* form, the address and email of one.
Identity == [by : Users, nif : Issuers, contact : Issuers \cup {Nothing}]

Bill == [owner : Users, nif : Issuers \cup {Nothing}, sent_at : Day \cup {Nothing}]

Request == [bill : Bills, issuer : Identity, at : {"mail", "mark", "save"},
            now : Day \cup {Nothing}]

ASSUME DeliveryAssumption ==
    /\ Old \subseteq Bills
    /\ MaxDay \in Nat /\ MaxSends \in Nat
    /\ Nothing \notin Users \cup Issuers \cup Day \cup Identity \cup Bill \cup Request

----------------------------------------------------------------------------
DeliveryInit ==
    /\ active = Users
    /\ user = [b \in Browsers |-> Nothing]
    /\ issuer = [b \in Browsers |-> Nothing]
    /\ \E u \in Users : bill = [i \in Bills |->
          IF i \in Old THEN [owner |-> u, nif |-> Nothing, sent_at |-> Nothing] ELSE Nothing]
    /\ sender = [w \in Senders |-> Nothing]
    /\ day = 0
    /\ mails = {} /\ tries = 0 /\ cut = {}

\* A request of user u: the session's user is looked up, and an inactive one is
\* nobody.
Visits(b, u) == user[b] = u /\ u \in active

Owns(u, i) == bill[i] # Nothing /\ bill[i].owner = u

----------------------------------------------------------------------------
(* Sessions *)

\* Mistake to detect: the session of the last user is taken over.
KeepsSession(b, u) == TRUE

\* django.contrib.auth.login flushes a session that is another user's.
KeptFor(b, u) == user[b] \in {Nothing, u}

\* LoginView, and register, which logs the new user in.  The session is another
\* user's when that account was closed from another browser.
Login(b, u) ==
    /\ u \in active
    /\ user[b] \notin active
    /\ user' = [user EXCEPT ![b] = u]
    /\ issuer' = [issuer EXCEPT ![b] = IF KeptFor(b, u) THEN @ ELSE Nothing]
    /\ UNCHANGED <<active, bill, sender, day, mails, tries, cut>>

\* django.contrib.auth.logout.
Flush(b) ==
    /\ user' = [user EXCEPT ![b] = Nothing]
    /\ issuer' = [issuer EXCEPT ![b] = Nothing]

Logout(b) ==
    /\ \E u \in Users : Visits(b, u)
    /\ Flush(b)
    /\ UNCHANGED <<active, bill, sender, day, mails, tries, cut>>

\* delete_account_confirm ends this browser's session, and no other.
CloseAccount(b, u) ==
    /\ Visits(b, u)
    /\ active' = active \ {u}
    /\ Flush(b)
    /\ UNCHANGED <<bill, sender, day, mails, tries, cut>>

----------------------------------------------------------------------------
(* Invoices *)

\* invoice_create and invoice_rectificar: the invoice and its record under the
\* form's issuer, which the session keeps.
Create(b, u, i, n) ==
    /\ Visits(b, u)
    /\ bill[i] = Nothing /\ i \notin Old
    /\ bill' = [bill EXCEPT ![i] = [owner |-> u, nif |-> n, sent_at |-> Nothing]]
    /\ issuer' = [issuer EXCEPT ![b] = [by |-> u, nif |-> n, contact |-> n]]
    /\ UNCHANGED <<active, user, sender, day, mails, tries, cut>>

\* invoice_register_verifactu takes the issuer from the page or else from the
\* session, and keeps the address and email of the session.
RegisterVerifactu(b, u, i, posted) ==
    LET kept == issuer[b]
        nif == IF posted # Nothing THEN posted
               ELSE IF kept # Nothing THEN kept.nif ELSE Nothing
    IN  /\ Visits(b, u) /\ Owns(u, i)
        /\ bill[i].nif = Nothing /\ nif # Nothing
        /\ bill' = [bill EXCEPT ![i] = [@ EXCEPT !.nif = nif]]
        /\ issuer' = [issuer EXCEPT ![b] =
              [by |-> IF posted # Nothing THEN u ELSE kept.by, nif |-> nif,
               contact |-> IF kept # Nothing THEN kept.contact ELSE Nothing]]
        /\ UNCHANGED <<active, user, sender, day, mails, tries, cut>>

\* purge_expired_data takes along the invoices of a closed account, unless a
\* record protects them.
Purge(u) ==
    /\ u \notin active
    /\ \E i \in Bills : Owns(u, i)
    /\ \A i \in Bills : Owns(u, i) => bill[i].nif = Nothing
    /\ bill' = [i \in Bills |-> IF Owns(u, i) THEN Nothing ELSE bill[i]]
    /\ UNCHANGED <<active, session, sender, day, mails, tries, cut>>

NextDay ==
    /\ day < MaxDay
    /\ day' = day + 1
    /\ UNCHANGED <<active, session, bill, sender, mails, tries, cut>>

----------------------------------------------------------------------------
(* An email *)

Goes(w, step) == sender' = [sender EXCEPT ![w] = step]

\* invoice_send, up to message.send(): the invoice is read, the PDF rendered.
Send(w, b, u, i) ==
    /\ sender[w] = Nothing /\ tries < MaxSends
    /\ Visits(b, u) /\ Owns(u, i) /\ issuer[b] # Nothing
    /\ tries' = tries + 1
    /\ Goes(w, [bill |-> i, issuer |-> issuer[b], at |-> "mail", now |-> Nothing])
    /\ UNCHANGED <<active, session, bill, day, mails, cut>>

\* Mistake to detect: sent_at is written whatever send() returned.
ConfirmedAlways(sent) == TRUE

\* if sent: mark_sent.
Confirmed(sent) == sent

Mailed(r) == [bill |-> r.bill, issuer |-> r.issuer, day |-> day]

\* message.send() returns how many emails went out, 0 or 1.
Answer(w, sent) ==
    LET r == sender[w]
    IN  /\ r # Nothing /\ r.at = "mail"
        /\ mails' = IF sent THEN mails \cup {Mailed(r)} ELSE mails
        /\ Goes(w, IF Confirmed(sent) THEN [r EXCEPT !.at = "mark"] ELSE Nothing)
        /\ UNCHANGED <<active, session, bill, day, tries, cut>>

\* The server raises, before or after it took the email, or the worker dies:
\* no handler catches it.
BreakOff(w, sent) ==
    LET r == sender[w]
    IN  /\ r # Nothing
        /\ sent => r.at = "mail"
        /\ mails' = IF sent THEN mails \cup {Mailed(r)} ELSE mails
        /\ cut' = cut \cup {r.bill}
        /\ Goes(w, Nothing)
        /\ UNCHANGED <<active, session, bill, day, tries>>

\* mark_sent reads the clock...
MarkSent(w) ==
    LET r == sender[w]
    IN  /\ r # Nothing /\ r.at = "mark"
        /\ Goes(w, [r EXCEPT !.at = "save", !.now = day])
        /\ UNCHANGED <<active, session, bill, day, mails, tries, cut>>

\* ...and saves sent_at alone; an invoice deleted meanwhile is not brought back.
SaveSentAt(w) ==
    LET r == sender[w]
    IN  /\ r # Nothing /\ r.at = "save"
        /\ bill' = IF bill[r.bill] = Nothing THEN bill
                   ELSE [bill EXCEPT ![r.bill] = [@ EXCEPT !.sent_at = r.now]]
        /\ Goes(w, Nothing)
        /\ UNCHANGED <<active, session, day, mails, tries, cut>>

DeliveryNext ==
    \/ \E b \in Browsers, u \in Users : Login(b, u) \/ CloseAccount(b, u)
    \/ \E b \in Browsers : Logout(b)
    \/ \E b \in Browsers, u \in Users, i \in Bills, n \in Issuers : Create(b, u, i, n)
    \/ \E b \in Browsers, u \in Users, i \in Bills, n \in Issuers \cup {Nothing} :
          RegisterVerifactu(b, u, i, n)
    \/ \E u \in Users : Purge(u)
    \/ NextDay
    \/ \E w \in Senders, b \in Browsers, u \in Users, i \in Bills : Send(w, b, u, i)
    \/ \E w \in Senders, sent \in BOOLEAN : Answer(w, sent) \/ BreakOff(w, sent)
    \/ \E w \in Senders : MarkSent(w) \/ SaveSentAt(w)

DeliverySpec == DeliveryInit /\ [][DeliveryNext]_deliveryVars

----------------------------------------------------------------------------
(* Properties *)

DeliveryTypeOK ==
    /\ active \subseteq Users
    /\ user \in [Browsers -> Users \cup {Nothing}]
    /\ issuer \in [Browsers -> Identity \cup {Nothing}]
    /\ bill \in [Bills -> Bill \cup {Nothing}]
    /\ sender \in [Senders -> Request \cup {Nothing}]
    /\ day \in Day /\ tries \in 0..MaxSends
    /\ mails \subseteq [bill : Bills, issuer : Identity, day : Day]
    /\ cut \subseteq Bills

\* The state keeps its type, and (models.py:167-178, documents/services.py:184-190)
\* an invoice says it was sent only after one of its emails went out, on that day
\* or before; it says so for every email that went out, unless a request about it
\* is still under way or broke off.
SentAtTellsTheTruth ==
    /\ DeliveryTypeOK
    /\ \A i \in Bills : bill[i] # Nothing /\ bill[i].sent_at # Nothing =>
          \E m \in mails : m.bill = i /\ m.day <= bill[i].sent_at
    /\ \A m \in mails :
          \/ bill[m.bill] = Nothing \/ bill[m.bill].sent_at # Nothing
          \/ \E w \in Senders : sender[w] # Nothing /\ sender[w].bill = m.bill
          \/ m.bill \in cut

\* views.py:8-12: whoever uses a browser after another, also when that account
\* was closed elsewhere, neither sees nor sends the issuer the other one typed.
OwnIssuerOnly ==
    /\ \A b \in Browsers : user[b] \in active /\ issuer[b] # Nothing => issuer[b].by = user[b]
    /\ \A m \in mails : bill[m.bill] # Nothing => m.issuer.by = bill[m.bill].owner
=============================================================================
