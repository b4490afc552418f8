-------------------------------- MODULE TaxId --------------------------------
(***************************************************************************)
(* The check of Spanish tax ids (clients/validation.py), as it is done     *)
(* when a client is saved and again when an invoice is made out to it      *)
(* (clients/models.py, clients/services.py), after one character of a      *)
(* valid id was mistyped.                                                  *)
(*                                                                         *)
(* An id is a sequence of nine one-letter strings, as normalize_taxid      *)
(* leaves it.                                                              *)
(***************************************************************************)
EXTENDS Integers, Sequences

CONSTANTS Leads,   \* first characters of the ids that are tried
          Sevens   \* and their next seven digits

Digits == {"0", "1", "2", "3", "4", "5", "6", "7", "8", "9"}

ASSUME TaxIdAssumption == Sevens \subseteq [1..7 -> Digits]

NUMERALS == <<"0", "1", "2", "3", "4", "5", "6", "7", "8", "9">>

DigitValue == [d \in Digits |-> CHOOSE n \in 0..9 : NUMERALS[n + 1] = d]

DNI_LETTERS == <<"T", "R", "W", "A", "G", "M", "Y", "F", "P", "D", "X", "B", "N", "J",
                 "Z", "S", "Q", "V", "H", "L", "C", "K", "E">>
CIF_CONTROL_LETTERS == <<"J", "A", "B", "C", "D", "E", "F", "G", "H", "I">>
CIF_FIRST_LETTERS == {"A", "B", "C", "D", "E", "F", "G", "H", "J", "N", "P", "Q", "R", "S",
                      "U", "V", "W"}
CIF_LETTER_ONLY == {"P", "Q", "S", "N", "W"}
CIF_DIGIT_ONLY == {"A", "B", "E", "H"}
NIE_PREFIX == [X |-> 0, Y |-> 1, Z |-> 2]

VARIABLES good,   \* a valid id
          typed   \* what was typed

----------------------------------------------------------------------------
\* The number in the second to eighth characters.
Seven(v) ==
    LET D(i) == DigitValue[v[i]]
    IN  1000000 * D(2) + 100000 * D(3) + 10000 * D(4) + 1000 * D(5)
        + 100 * D(6) + 10 * D(7) + D(8)

DniLetter(n) == DNI_LETTERS[(n % 23) + 1]

AllDigits(v, from, to) == \A i \in from..to : v[i] \in Digits

\* _check_dni.
CheckDni(v) ==
    /\ AllDigits(v, 1, 8)
    /\ v[9] = DniLetter(10000000 * DigitValue[v[1]] + Seven(v))

\* _check_nie.
CheckNie(v) ==
    /\ v[1] \in DOMAIN NIE_PREFIX /\ AllDigits(v, 2, 8)
    /\ v[9] = DniLetter(10000000 * NIE_PREFIX[v[1]] + Seven(v))

\* Mistake to detect: a doubled digit is not reduced to the sum of its digits.
DoubledOnly(n) == 2 * n

\* A doubled digit, digit-summed.
Weighted(n) == ((2 * n) \div 10) + ((2 * n) % 10)

\* Of the seven digits, the first, third, fifth and seventh are doubled.
CifTotal(v) ==
    LET D(i) == DigitValue[v[i]]
    IN  Weighted(D(2)) + D(3) + Weighted(D(4)) + D(5) + Weighted(D(6)) + D(7) + Weighted(D(8))

CifControl(v) == (10 - (CifTotal(v) % 10)) % 10

\* _check_cif: some kinds of entity take a letter, some a digit, the others either.
CheckCif(v) ==
    /\ v[1] \in CIF_FIRST_LETTERS /\ AllDigits(v, 2, 8)
    /\ \/ v[1] \notin CIF_DIGIT_ONLY /\ v[9] = CIF_CONTROL_LETTERS[CifControl(v) + 1]
       \/ v[1] \notin CIF_LETTER_ONLY /\ v[9] \in Digits /\ DigitValue[v[9]] = CifControl(v)

\* is_valid_spanish_taxid, of an id that is not empty.
Valid(v) == CheckDni(v) \/ CheckNie(v) \/ CheckCif(v)

\* Client.clean, and recipient_snapshot, which runs it again: a B2C client may
\* have no id.
Clean(type, v) == IF v = << >> THEN type = "B2C" ELSE Valid(v)

\* _validate_issuable refuses an invoice without the recipient's id.
CanBeInvoiced(type, v) == Clean(type, v) /\ v # << >>

----------------------------------------------------------------------------
Controls == Digits \cup {DNI_LETTERS[i] : i \in DOMAIN DNI_LETTERS}
                   \cup {CIF_CONTROL_LETTERS[i] : i \in DOMAIN CIF_CONTROL_LETTERS}

TaxIdInit ==
    /\ \E lead \in Leads, ds \in Sevens, control \in Controls :
          good = <<lead>> \o ds \o <<control>>
    /\ Valid(good)
    /\ typed = good

\* One character is mistaken for another of its kind; the letter of a CIF tells
\* the kind of entity and is covered by no check.
Mistype(i, c) ==
    /\ typed = good
    /\ \/ typed[i] \in Digits /\ c \in Digits
       \/ i = 1 /\ {typed[i], c} \subseteq DOMAIN NIE_PREFIX
       \/ i = 9 /\ {typed[i], c} \cap Digits = {}
    /\ typed' = [typed EXCEPT ![i] = c]
    /\ UNCHANGED good

TaxIdNext == \E i \in 1..9, c \in Controls : Mistype(i, c)

TaxIdSpec == TaxIdInit /\ [][TaxIdNext]_<<good, typed>>

----------------------------------------------------------------------------
(* Properties *)

\* validation.py:1-14, clients/services.py:5-8: no client of either type can be
\* saved or invoiced with an id in which one character was mistaken for another
\* of its kind, in any of the three formats and in any position; with the right
\* id it can.
SingleErrorsAreCaught ==
    \A type \in {"B2B", "B2C"} :
        good # << >> => CanBeInvoiced(type, typed) = (typed = good)
=============================================================================
