-------------------------- MODULE MCInvoiceLedger --------------------------
(***************************************************************************)
(* Small instances of InvoiceLedger for TLC.                               *)
(***************************************************************************)
EXTENDS InvoiceLedger, FiniteSetsExt, TLC

CONSTANT l1

(* l1 is 1.25 hours at 2 cents, 2.5 rounded up to 3; any other costs one.   *)
MCPrice == [l \in Lines |-> IF l = l1 THEN LineCents(125, 2) ELSE LineCents(100, 1)]
MCLineTotal == [S \in SUBSET Lines |-> MapThenSumSet(LAMBDA l : MCPrice[l], S)]

MCSymmetry == Permutations(Workers) \cup Permutations(Invoices) \cup Permutations(PaymentIds)

=============================================================================
