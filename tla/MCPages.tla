------------------------------ MODULE MCPages --------------------------------
(* The pages of an owner that none of the other modules is about; a behaviour *)
(* is about one of them: the amounts of an invoice form, the tax id of a      *)
(* client form, or the emails of the issued invoices.                         *)
EXTENDS Amounts, TaxId, Delivery, TLC

VARIABLE page

MCSevens == [1..7 -> {"0", "8"}]
MCLeads == {"4", "X", "Y", "A", "P", "C"}

MCSymmetry == Permutations(Users) \cup Permutations(Browsers)
                  \cup Permutations(Senders) \cup Permutations(Issuers)

amounts == <<lines, irpf>>
taxid == <<good, typed>>

Init ==
    /\ \/ page = "invoice" /\ AmountsInit /\ good = << >> /\ typed = << >>
       \/ page = "client" /\ TaxIdInit /\ lines = << >> /\ irpf = 0
       \/ page = "emails" /\ lines = << >> /\ irpf = 0 /\ good = << >> /\ typed = << >>
    /\ DeliveryInit

Next ==
    \/ /\ page = "invoice"
       /\ AmountsNext
       /\ UNCHANGED <<taxid, deliveryVars, page>>
    \/ /\ page = "client"
       /\ TaxIdNext
       /\ UNCHANGED <<amounts, deliveryVars, page>>
    \/ /\ page = "emails"
       /\ DeliveryNext
       /\ UNCHANGED <<amounts, taxid, page>>

Spec == Init /\ [][Next]_<<amounts, taxid, deliveryVars, page>>
=============================================================================
