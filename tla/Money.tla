------------------------------- MODULE Money --------------------------------
(***************************************************************************)
(* The money arithmetic of core/money.py and of an invoice's totals.       *)
(* Amounts are whole cents: a Decimal with two places is its value times   *)
(* 100, so every stored amount is a natural number and only the two        *)
(* products that can leave the grid (quantity * unit price, taxable * rate)*)
(* need the rounding rule.                                                 *)
(***************************************************************************)
EXTENDS Integers

(* quantize: n/d rounded to the nearest integer, ties upwards              *)
(* (ROUND_HALF_UP; every amount rounded by the code is non-negative).      *)
HalfUp(n, d) == (2 * n + d) \div (2 * d)

(* InvoiceLineItem.compute_total: quantity has two places, price is cents. *)
LineCents(quantity, price) == HalfUp(quantity * price, 100)

(* recalculate_invoice: a discount above the subtotal zeroes the bill.     *)
Taxable(subtotal, discount) ==
    IF discount < subtotal THEN subtotal - discount ELSE 0

(* tax_rate: a percentage with two places, in hundredths of a percent.     *)
TaxRates == 0 .. 10000

(* recalculate_invoice: the tax is rounded once, on the discounted amount. *)
TaxCents(subtotal, discount, rate) ==
    HalfUp(Taxable(subtotal, discount) * rate, 10000)

InvoiceTotal(subtotal, discount, rate) ==
    Taxable(subtotal, discount) + TaxCents(subtotal, discount, rate)

=============================================================================
