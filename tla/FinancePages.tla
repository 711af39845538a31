---------------------------- MODULE FinancePages ----------------------------
(***************************************************************************)
(* What the finance pages and reports show (finance/selectors.py and the    *)
(* finance part of reports/selectors.py).  Amounts are summed by currency,  *)
(* each sum by a query of its own, and what remains of a currency is        *)
(* worked out from the sums.                                               *)
(***************************************************************************)
EXTENDS OfficePages, FinanceBooks

(* The rows of two tables are not the same rows.                            *)
ASSUME TablesAssumption == Records \cap Invoices = {}

(* An invoice is taken to be billed to the client of its case.              *)
(* _issued(): every invoice but drafts and cancelled ones, as a fully       *)
(* credited invoice is.                                                     *)
Issued == {i \in Invoices : state[i] = "open"}

credited_total(i) == billed[i] - waived[i]

Floor(n) == IF n < 0 THEN 0 ELSE n

outstanding(i) == Floor(credited_total(i) - collected[i])

(* InvoiceQuerySet.open(): the statuses unpaid and partially paid.          *)
Open == {i \in Issued : collected[i] < credited_total(i)}

overdue_invoices == {i \in Open : DaysLate[i] > 0}

invoice_list(f) ==
    {i \in Invoices \ dropped : state[i] # "void" /\ (f.only => i \in overdue_invoices)}

Scope(S, f) == {i \in S : Matches(f, InvoiceCase[i], ClientOf[InvoiceCase[i]])}

CaseAndCcy == [i \in Invoices |-> <<InvoiceCase[i], InvoiceCcy[i]>>]

At(sums, k) == IF k \in DOMAIN sums THEN sums[k] ELSE 0

(* _invoice_totals_by_currency: two queries, then the floor.  The rows of   *)
(* the first are those of the query set given: one for each invoice, unless *)
(* the query set already joins something else (copies).                     *)
Times(copies, amount) == [i \in Invoices |-> copies[i] * amount[i]]

invoice_totals(q, S, copies) ==
    IF q = "totals" THEN [invoiced |-> Sums(S, InvoiceCcy, Times(copies, billed)),
                          paid |-> Sums(S, InvoiceCcy, Times(copies, collected))]
    ELSE Sums(S, InvoiceCcy, waived)

remaining(got, c) ==
    Floor(At(got.totals.invoiced, c) - At(got.credited, c) - At(got.totals.paid, c))

Single == [i \in Invoices |-> 1]

(* with_balances() annotates the sum of the credit notes: a LEFT JOIN, with *)
(* one row for each note of the invoice, that stays when the query set is   *)
(* grouped again by currency.                                              *)
JoinedNotes == [i \in Invoices |-> IF notes[i] = 0 THEN 1 ELSE notes[i]]

InvoiceRow(i) == [ccy |-> InvoiceCcy[i], total |-> billed[i], paid |-> collected[i],
                  outstanding |-> outstanding(i), late |-> DaysLate[i]]

(* Mutant: the totals are asked of the annotated query set of the rows.    *)
build_revenue_reportJoined(q, f) ==
    LET S == Scope(Issued, f)
    IN  IF q = "rows" THEN [i \in S |-> InvoiceRow(i)]
        ELSE IF q \in {"totals", "credited"} THEN invoice_totals(q, S, JoinedNotes)
        ELSE IF q = "counts" THEN Sums(S, InvoiceCcy, Single)
        ELSE Cardinality(S)

build_revenue_report(q, f) ==
    LET S == Scope(Issued, f)
    IN  IF q = "rows" THEN [i \in S |-> InvoiceRow(i)]
        ELSE IF q \in {"totals", "credited"} THEN invoice_totals(q, S, Single)
        ELSE IF q = "counts" THEN Sums(S, InvoiceCcy, Single)
        ELSE Cardinality(S)

(* The payments of an invoice are one row here, and so are their reversals. *)
PaymentRow(i) == [ccy |-> InvoiceCcy[i], net |-> gross[i] - reversed[i]]

payment_list(f) == {i \in Scope(Invoices, f) : gross[i] > 0}

build_payment_report(q, f) ==
    LET S == payment_list(f)
    IN  IF q = "rows" THEN [i \in S |-> PaymentRow(i)]
        ELSE IF q = "gross" THEN Sums(S, InvoiceCcy, gross)
        ELSE Sums(S, InvoiceCcy, reversed)

AgingBuckets == {<<0, 30>>, <<31, 60>>, <<61, 90>>, <<91, 1000000000>>}

build_outstanding_report(q, f) ==
    LET S == {i \in Scope(Open, f) : f.only => DaysLate[i] > 0}
    IN  IF q = "rows" THEN [i \in S |-> InvoiceRow(i)]
        ELSE invoice_totals(q, S, JoinedNotes)

aging(rows, c, b) ==
    SumFunctionOnSet([i \in DOMAIN rows |-> rows[i].outstanding],
        {i \in DOMAIN rows : rows[i].ccy = c /\ rows[i].late \in b[1] .. b[2]})

(* One line for each case and currency.                                     *)
build_case_financials_report(q, f) ==
    LET S == Scope(Issued, f)
    IN  IF q = "totals" THEN [invoiced |-> Sums(S, CaseAndCcy, billed),
                              paid |-> Sums(S, CaseAndCcy, collected)]
        ELSE IF q = "credited" THEN Sums({i \in S : notes[i] > 0}, CaseAndCcy, waived)
        ELSE Sums(case_expenses(f), CaseAndExpenseCcy, Amount)

(* The finance tab of a case: the summary, then the rows it sums up.        *)
case_invoices(f) == Scope(Invoices, f)

case_financials(q, f) ==
    IF q = "expenses" THEN Sums(case_expenses(f), ExpenseCcy, Amount)
    ELSE invoice_totals(q, Issued \cap case_invoices(f), Single)

CaseFinanceTab(q, f) ==
    IF q \in {"totals", "credited", "expenses"} THEN case_financials(q, f)
    ELSE IF q = "case_invoices" THEN [i \in case_invoices(f) |-> InvoiceRow(i)]
    ELSE IF q = "case_payments" THEN [i \in payment_list(f) |-> PaymentRow(i)]
    ELSE ShowRows(case_expenses(f))

(* The page of a client: the same without expenses, and its papers.  The    *)
(* view cuts the tabs after 6 invoices and payments, 8 documents and        *)
(* contracts; here they are the query sets it cuts them from.               *)
client_invoices(f) == Scope(Invoices, f)

client_financials(q, f) ==
    invoice_totals(q, Issued \cap client_invoices(f), Single)

ClientDetailView(q, f) ==
    IF q \in {"totals", "credited"} THEN client_financials(q, f)
    ELSE IF q = "client_invoices" THEN [i \in client_invoices(f) |-> InvoiceRow(i)]
    ELSE IF q = "client_payments" THEN [i \in payment_list(f) |-> PaymentRow(i)]
    ELSE IF q = "client_documents" THEN ShowRows(client_documents(f))
    ELSE ShowRows(client_contracts(f))

InvoiceListView(q, f) ==
    IF q = "count" THEN Cardinality(invoice_list(f))
    ELSE [i \in invoice_list(f) |-> InvoiceRow(i)]

PaymentListView(q, f) ==
    IF q = "count" THEN Cardinality(payment_list(f))
    ELSE [i \in payment_list(f) |-> PaymentRow(i)]

(* The financial overview of the dashboard: everything the office invoiced. *)
firm_financials(q) ==
    IF q = "expenses" THEN Sums(Live("expense"), ExpenseCcy, Amount)
    ELSE invoice_totals(q, Issued, Single)

=============================================================================
