------------------------------- MODULE Amounts -------------------------------
(***************************************************************************)
(* The amounts of an invoice (invoicing/calc.py), of its Verifactu record  *)
(* (compliance/records.py) and of its QR code (documents/services.py), as  *)
(* lines are added to the form.                                            *)
(*                                                                         *)
(* Money is in cents, quantities in thousandths, IVA rates in percent and  *)
(* the IRPF rate in hundredths of it, as the forms and columns hold them   *)
(* (2, 3, 0 and 2 decimal places).  Names, identifiers and the layout of   *)
(* the XML are left out.                                                   *)
(***************************************************************************)
EXTENDS Integers, Sequences

CONSTANTS Quantities, Prices,  \* of the lines that can be added
          IrpfRates,
          MaxLines             \* bound: the number of lines

ASSUME AmountsAssumption ==
    /\ Quantities \subseteq Nat /\ Prices \subseteq Nat
    /\ IrpfRates \subseteq 0..10000
    /\ MaxLines \in Nat

IVA_RATES == {21, 10, 4, 0}

Lines == [quantity : Quantities, price : Prices, rate : IVA_RATES]

VARIABLES lines, irpf

----------------------------------------------------------------------------
(* calc.py *)

\* Mistake to detect: fractions of a cent are cut off.
Truncated(n, d) == IF n >= 0 THEN n \div d ELSE -((-n) \div d)

\* money: n/d cents, ROUND_HALF_UP, which rounds halves away from zero.
Money(n, d) == IF n >= 0 THEN (2 * n + d) \div (2 * d) ELSE -((2 * (-n) + d) \div (2 * d))

\* line_amount.
LineAmount(l) == Money(l.quantity * l.price, 1000)

\* The numbers of a sequence, added one by one.
SumSeq(s) ==
    LET upto[i \in 0..Len(s)] == IF i = 0 THEN 0 ELSE upto[i - 1] + s[i]
    IN  upto[Len(s)]

\* What each line adds to the base of a rate.
Column(ls, r) == [i \in 1..Len(ls) |-> IF ls[i].rate = r THEN LineAmount(ls[i]) ELSE 0]

\* The bases by rate.
Bases(ls) == [r \in IVA_RATES |-> SumSeq(Column(ls, r))]

Percent(base, rate) == Money(base * rate, 100)

\* A sum over the rate groups; an absent rate has base 0 and adds nothing.
SumOverRates(f) == f[21] + f[10] + f[4] + f[0]

Iva(b) == [r \in IVA_RATES |-> Percent(b[r], r)]

\* compute_totals.
Totals(b, irpfRate) ==
    LET base == SumOverRates(b)
        iva == SumOverRates(Iva(b))
        retention == Money(base * irpfRate, 10000)
    IN  [taxable_base |-> base, iva_total |-> iva, irpf_retention |-> retention,
         grand_total |-> base + iva - retention]

----------------------------------------------------------------------------
(* records.py *)

\* Mistake to detect: exempt lines are left out of the breakdown.
TaxedGroups(ls) == {r \in IVA_RATES \ {0} : \E i \in DOMAIN ls : ls[i].rate = r}

\* The rate groups of the invoice.
Groups(ls) == {r \in IVA_RATES : \E i \in DOMAIN ls : ls[i].rate = r}

\* _desglose, by TipoImpositivo: the exempt group has a base and no CuotaRepercutida.
Desglose(ls) ==
    [r \in Groups(ls) |->
        [base |-> Bases(ls)[r], cuota |-> IF r = 0 THEN 0 ELSE Iva(Bases(ls))[r]]]

\* build_registro_alta: the amounts of the record; IRPF is no part of them.
Alta(ls) ==
    LET t == Totals(Bases(ls), 0)
    IN  [cuota_total |-> t.iva_total, importe_total |-> t.taxable_base + t.iva_total,
         desglose |-> Desglose(ls)]

\* ImporteRectificacion of a rectificativa por sustitucion of a record.
Rectificada(alta) == [base |-> alta.importe_total - alta.cuota_total, cuota |-> alta.cuota_total]

\* _importe_total of the QR code, from the totals stored with the invoice.
QrImporte(totals) == totals.taxable_base + totals.iva_total

----------------------------------------------------------------------------
AmountsInit == lines = << >> /\ irpf \in IrpfRates

\* The forms take no negative quantity or price.
AddLine(l) ==
    /\ Len(lines) < MaxLines
    /\ lines' = Append(lines, l)
    /\ UNCHANGED irpf

AmountsNext == \E l \in Lines : AddLine(l)

AmountsSpec == AmountsInit /\ [][AmountsNext]_<<lines, irpf>>

----------------------------------------------------------------------------
(* Properties *)

Exact(ls) == SumSeq([i \in 1..Len(ls) |-> ls[i].quantity * ls[i].price])
Distance(m, n) == IF m >= n THEN m - n ELSE n - m

\* calc.py:4-8: against exact arithmetic on the lines, the base is off by at most
\* half a cent per line, the IVA, rounded per rate and not per line, by at most
\* half a cent per taxed rate from the rates of the rounded bases, and the
\* retention, rounded once, by half a cent.
RoundingIsBounded ==
    LET b == Bases(lines)
        t == Totals(b, irpf)
        taxed == [r \in IVA_RATES |-> IF r # 0 /\ r \in Groups(lines) THEN 1 ELSE 0]
    IN  /\ 2 * Distance(1000 * t.taxable_base, Exact(lines)) <= 1000 * Len(lines)
        /\ 2 * Distance(100 * t.iva_total, 21 * b[21] + 10 * b[10] + 4 * b[4])
              <= 100 * SumOverRates(taxed)
        /\ 2 * Distance(10000 * t.irpf_retention, irpf * t.taxable_base) <= 10000

\* documents/services.py:16-20, records.py:136-139: the amounts of the record are
\* the sums of its own breakdown, equal what the QR code says, come back to the
\* total to pay once the retention is taken off, and give the base a
\* rectificativa substitutes.
RecordAddsUp ==
    LET t == Totals(Bases(lines), irpf)
        a == Alta(lines)
        d == a.desglose
        cuotas == [r \in IVA_RATES |-> IF r \in DOMAIN d THEN d[r].cuota ELSE 0]
        bases == [r \in IVA_RATES |-> IF r \in DOMAIN d THEN d[r].base ELSE 0]
    IN  /\ a.cuota_total = SumOverRates(cuotas)
        /\ a.importe_total = SumOverRates(bases) + a.cuota_total
        /\ QrImporte(t) = a.importe_total
        /\ t.grand_total = a.importe_total - t.irpf_retention
        /\ Rectificada(a) = [base |-> t.taxable_base, cuota |-> t.iva_total]
=============================================================================
