---------------------------- MODULE FinanceBooks ----------------------------
(***************************************************************************)
(* The finance tables as the reports read them.  Receivable says what may   *)
(* happen to an invoice; here each transaction of finance/services.py also  *)
(* leaves the rows the pages add up: payments and their reversals, and the  *)
(* credit notes, whose number matters to a query that joins them.  How the  *)
(* services lock and check is the module InvoiceLedger.                     *)
(***************************************************************************)
EXTENDS Receivable, FiniteSets

CONSTANTS
    Amounts,        \* the amounts of an invoice, a payment or a credit note
    InvoiceCcy,     \* the currency of an invoice
    InvoiceCase,    \* its case
    DaysLate        \* days since its due date, 0 when it is not past

VARIABLES
    gross,      \* the sum of the payment rows of an invoice
    reversed,   \* the sum of their reversal rows
    notes,      \* how many credit note rows it has
    dropped     \* the drafts that were cancelled

bookVars == <<state, billed, collected, waived, gross, reversed, notes, dropped>>

ASSUME AmountsAssumption == Amounts \subseteq Int \ {0}

(* No two dates are further apart than the first day of year 1 and the last *)
(* of year 9999.                                                            *)
MaxDays == 3652058

ASSUME InvoicesAssumption ==
    /\ IsFiniteSet(Invoices)
    /\ DaysLate \in [Invoices -> 0 .. MaxDays]

BooksInit ==
    /\ RInit
    /\ gross = [i \in Invoices |-> 0]
    /\ reversed = [i \in Invoices |-> 0]
    /\ notes = [i \in Invoices |-> 0]
    /\ dropped = {}

issue_invoice(i) ==
    /\ i \notin dropped
    /\ \E a \in Amounts : billed' = [billed EXCEPT ![i] = a]
    /\ Bill(i)
    /\ UNCHANGED <<gross, reversed, notes, dropped>>

cancel_invoice(i) ==
    /\ state[i] = "unbilled"
    /\ i \notin dropped
    /\ dropped' = dropped \cup {i}
    /\ UNCHANGED <<state, billed, collected, waived, gross, reversed, notes>>

record_payment(i) ==
    /\ \E a \in Amounts :
          /\ collected' = [collected EXCEPT ![i] = @ + a]
          /\ gross' = [gross EXCEPT ![i] = @ + a]
    /\ Collect(i)
    /\ UNCHANGED <<reversed, notes, dropped>>

(* Mutant: the invoice is updated, the reversal row never written.         *)
reverse_paymentUnrecorded(i) ==
    /\ \E a \in Amounts : collected' = [collected EXCEPT ![i] = @ - a]
    /\ GiveBack(i)
    /\ UNCHANGED <<gross, reversed, notes, dropped>>

reverse_payment(i) ==
    /\ \E a \in Amounts :
          /\ collected' = [collected EXCEPT ![i] = @ - a]
          /\ reversed' = [reversed EXCEPT ![i] = @ + a]
    /\ GiveBack(i)
    /\ UNCHANGED <<gross, notes, dropped>>

issue_credit_note(i) ==
    /\ \E a \in Amounts : waived' = [waived EXCEPT ![i] = @ + a]
    /\ Waive(i)
    /\ notes' = [notes EXCEPT ![i] = @ + 1]
    /\ UNCHANGED <<gross, reversed, dropped>>

BooksNext ==
    \E i \in Invoices :
        \/ issue_invoice(i) \/ cancel_invoice(i) \/ record_payment(i)
        \/ reverse_payment(i) \/ issue_credit_note(i)

=============================================================================
