---------------------------- MODULE InvoiceLedger ---------------------------
(***************************************************************************)
(* Invoices, their line items and their append-only ledgers (payments,     *)
(* reversals, credit notes), as finance/services.py changes them from      *)
(* concurrent web requests on PostgreSQL (READ COMMITTED,                   *)
(* ATOMIC_REQUESTS off).                                                    *)
(*                                                                          *)
(* A view loads the invoice outside any transaction and hands that          *)
(* instance to a service, which is one transaction.  The services fall in   *)
(* two families:                                                            *)
(*                                                                          *)
(*  - draft edits (add_line_item, remove_line_item, update_invoice,         *)
(*    cancel_invoice) decide on the loaded instance and take the row lock   *)
(*    only with their first UPDATE;                                         *)
(*  - issue_invoice, record_payment, reverse_payment, issue_credit_note     *)
(*    re-read the row under SELECT ... FOR UPDATE and hold it to COMMIT.    *)
(*                                                                          *)
(* A request is the record req[w]; its effects become visible in the one    *)
(* step that commits it.                                                    *)
(***************************************************************************)
EXTENDS Money, FiniteSets, Functions

CONSTANTS
    Workers,          \* concurrent web requests (gunicorn workers)
    Invoices,         \* primary keys of invoices
    Lines,            \* primary keys of line items
    LineTotal,        \* LineTotal[S]: the Sum("line_total") of the set of lines S
    PaymentIds,       \* primary keys of payments
    Amounts,          \* amounts a form can submit, in cents
    Discounts, Rates, \* the draft money inputs
    MaxNumber,        \* bound: how many numbers this year's sequence hands out
    NoLine,           \* no line item
    NoInvoice,        \* no invoice
    SingleDraftClerk  \* ADR-0032: a draft is edited by one clerk at a time

ASSUME LedgerAssumption ==
    /\ LineTotal \in [SUBSET Lines -> Nat]
    /\ LineTotal[{}] = 0
    /\ Amounts \subseteq Nat \ {0}
    /\ Discounts \subseteq Nat
    /\ Rates \subseteq TaxRates
    /\ MaxNumber \in Nat
    /\ IsFiniteSet(PaymentIds)   \* a key is a 64-bit integer
    /\ NoLine \notin Lines
    /\ NoInvoice \notin Invoices
    /\ SingleDraftClerk \in BOOLEAN

VARIABLES
    inv,       \* finance_invoice: the stored row of each invoice
    lines,     \* finance_invoicelineitem: the line items of each invoice
    pay,       \* finance_payment, with the sum of each payment's reversals
    credited,  \* Sum of the invoice's credit notes
    seq,       \* the NumberSequence row ("invoice", this year)
    req        \* the request each worker is serving

vars == <<inv, lines, pay, credited, seq, req>>

OpenStatuses   == {"unpaid", "partially_paid"}
IssuedStatuses == OpenStatuses \cup {"paid"}
Statuses       == {"absent", "draft", "cancelled"} \cup IssuedStatuses

DraftEdits == {"add_line", "remove_line", "update", "cancel"}
LockedOps  == {"issue", "pay", "reverse", "credit"}

(* number = 0 is the NULL invoice_number of an invoice never issued.  tax   *)
(* and subtotal are functions of the other columns wherever they are read.  *)
Row == [status : Statuses, number : Nat, discount : Nat, rate : TaxRates,
        total : Nat, paid : Nat]

NoRow == [status |-> "absent", number |-> 0, discount |-> 0, rate |-> 0,
          total |-> 0, paid |-> 0]

(* snap is the request's copy of the row, seen the line items it summed.    *)
Request == [op : {"none"} \cup DraftEdits \cup LockedOps,
            phase : {"idle", "loaded", "summed", "locked"},
            inv : Invoices \cup {NoInvoice}, snap : Row,
            line : Lines \cup {NoLine}, seen : SUBSET Lines]

Idle == [op |-> "none", phase |-> "idle", inv |-> NoInvoice, snap |-> NoRow,
         line |-> NoLine, seen |-> {}]

NoPayment == [invoice |-> NoInvoice, amount |-> 0, reversed |-> 0]

Init ==
    /\ inv = [i \in Invoices |-> NoRow]
    /\ lines = [i \in Invoices |-> {}]
    /\ pay = [p \in PaymentIds |-> NoPayment]
    /\ credited = [i \in Invoices |-> 0]
    /\ seq = 0
    /\ req = [w \in Workers |-> Idle]

-----------------------------------------------------------------------------
(* Definitions with a "Mutant" name are plausible bugs of the definition    *)
(* that follows them; no action uses one.                                   *)

(* _require_draft, and the same test under the lock in issue_invoice.       *)
RequireDraftMutant(row) == row.status \notin {"absent", "cancelled"}
RequireDraft(row) == row.status = "draft"

(* No transaction holds the row lock of invoice i.                          *)
RowFreeMutant(i) == i \in Invoices
RowFree(i) == \A v \in Workers : ~(req[v].phase = "locked" /\ req[v].inv = i)

(* Under ADR-0032's working assumption nobody else edits or issues draft i. *)
ClerkFree(i) ==
    SingleDraftClerk =>
        \A v \in Workers :
            ~(req[v].inv = i /\ req[v].op \in DraftEdits \cup {"issue"})

(* The CHECK constraints of Invoice on a row about to be written.           *)
ChecksHold(row) == 0 <= row.paid /\ row.paid <= row.total

(* recalculate_invoice on an instance, given the lines its aggregate saw.   *)
Recalculated(row, S) ==
    [row EXCEPT !.total = InvoiceTotal(LineTotal[S], row.discount, row.rate)]

(* outstanding = credited_total - amount_paid.                              *)
OutstandingMutant(row, creditSum) == row.total - row.paid
Outstanding(row, creditSum) == row.total - creditSum - row.paid

(* next_number under the lock of the sequence row.                          *)
NextNumberMutant == Cardinality({i \in Invoices : inv[i].status \in IssuedStatuses}) + 1
NextNumber == seq + 1

(* _apply_payment_status: the status derived from paid and credited_total.  *)
AppliedStatusGross(row, creditSum) ==
    IF row.status \in {"draft", "cancelled"} THEN row.status
    ELSE IF row.paid <= 0 THEN "unpaid"
    ELSE IF row.paid >= row.total THEN "paid"
    ELSE "partially_paid"
AppliedStatusReopens(row, creditSum) ==
    IF row.status = "draft" THEN row.status
    ELSE IF row.paid <= 0 THEN "unpaid"
    ELSE IF row.paid >= row.total - creditSum THEN "paid"
    ELSE "partially_paid"
AppliedStatusStored(row, creditSum) ==
    IF row.status \in {"draft", "cancelled"} THEN row.status
    ELSE IF row.paid <= 0 THEN "unpaid"
    ELSE IF row.paid >= row.total - creditSum THEN "paid"
    ELSE "overdue"
AppliedStatus(row, creditSum) ==
    IF row.status \in {"draft", "cancelled"} THEN row.status
    ELSE IF row.paid <= 0 THEN "unpaid"
    ELSE IF row.paid >= row.total - creditSum THEN "paid"
    ELSE "partially_paid"

Finish(w) == req' = [req EXCEPT ![w] = Idle]

-----------------------------------------------------------------------------
(* create_invoice: one INSERT, then a recalculation over no lines.          *)
CreateInvoice(i, d, r) ==
    /\ inv[i].status = "absent"
    /\ inv' = [inv EXCEPT ![i] =
                 Recalculated([NoRow EXCEPT !.status = "draft",
                                            !.discount = d, !.rate = r], {})]
    /\ UNCHANGED <<lines, pay, credited, seq, req>>

(* A view of the draft family loads the invoice (and the line to remove)    *)
(* and the service's _require_draft accepts that instance.                  *)
BeginDraftEdit(w, i, op, l) ==
    /\ req[w].phase = "idle"
    /\ RequireDraft(inv[i])
    /\ ClerkFree(i)
    /\ op = "add_line" =>
          /\ l \in Lines
          /\ \A j \in Invoices : l \notin lines[j]
          /\ \A v \in Workers : req[v].line # l
    /\ op = "remove_line" => l \in lines[i]
    /\ op \notin {"add_line", "remove_line"} => l = NoLine
    /\ req' = [req EXCEPT ![w] = [op |-> op, phase |-> "loaded", inv |-> i,
                                  snap |-> inv[i], line |-> l, seen |-> {}]]
    /\ UNCHANGED <<inv, lines, pay, credited, seq>>

(* What the aggregate of recalculate_invoice sums: the committed lines and  *)
(* this transaction's own INSERT or DELETE, never another's uncommitted one.*)
LinesSeenMutant(r) == lines[r.inv]
LinesSeen(r) == IF r.op = "add_line" THEN lines[r.inv] \cup {r.line}
                                     ELSE lines[r.inv] \ {r.line}

(* The INSERT or DELETE of the line, then the aggregate.  A DELETE waits    *)
(* for a transaction that is deleting the same line.                        *)
SumLines(w) ==
    LET r == req[w] IN
    /\ r.phase = "loaded"
    /\ r.op \in {"add_line", "remove_line"}
    /\ \A v \in Workers : ~(req[v].phase = "summed" /\ req[v].line = r.line)
    /\ req' = [req EXCEPT ![w] =
                 [@ EXCEPT !.phase = "summed", !.seen = LinesSeen(r)]]
    /\ UNCHANGED <<inv, lines, pay, credited, seq>>

(* save(update_fields=[subtotal, discount, tax_amount, total]) of a         *)
(* recalculated instance: only those columns reach the row.                 *)
SavedTotals(w) ==
    LET fresh == Recalculated(req[w].snap, req[w].seen)
    IN  [inv[req[w].inv] EXCEPT !.discount = fresh.discount,
                                !.total = fresh.total]

AddLine(w) ==
    LET i == req[w].inv IN
    /\ req[w].op = "add_line" /\ req[w].phase = "summed"
    /\ RowFree(i)
    /\ ChecksHold(SavedTotals(w))
    /\ inv' = [inv EXCEPT ![i] = SavedTotals(w)]
    /\ lines' = [lines EXCEPT ![i] = @ \cup {req[w].line}]
    /\ Finish(w)
    /\ UNCHANGED <<pay, credited, seq>>

RemoveLine(w) ==
    LET i == req[w].inv IN
    /\ req[w].op = "remove_line" /\ req[w].phase = "summed"
    /\ RowFree(i)
    /\ ChecksHold(SavedTotals(w))
    /\ inv' = [inv EXCEPT ![i] = SavedTotals(w)]
    /\ lines' = [lines EXCEPT ![i] = @ \ {req[w].line}]
    /\ Finish(w)
    /\ UNCHANGED <<pay, credited, seq>>

(* update_invoice: a save() of EVERY column of the loaded instance, with    *)
(* the new money inputs, then a recalculation under the row lock that save  *)
(* took.  (d, r) equal to the stored pair is a change of another field; a   *)
(* form that changes nothing writes nothing and is Rollback.                *)
UpdateInvoice(w, d, r) ==
    LET i == req[w].inv
        saved == Recalculated([req[w].snap EXCEPT !.discount = d, !.rate = r],
                              lines[i])
    IN
    /\ req[w].op = "update" /\ req[w].phase = "loaded"
    /\ RowFree(i)
    /\ ChecksHold(saved)
    /\ inv' = [inv EXCEPT ![i] = saved]
    /\ Finish(w)
    /\ UNCHANGED <<lines, pay, credited, seq>>

(* cancel_invoice: save(update_fields=["status", ...]).                     *)
CancelInvoice(w) ==
    LET i == req[w].inv IN
    /\ req[w].op = "cancel" /\ req[w].phase = "loaded"
    /\ RowFree(i)
    /\ inv' = [inv EXCEPT ![i].status = "cancelled"]
    /\ Finish(w)
    /\ UNCHANGED <<lines, pay, credited, seq>>

(* SELECT ... FOR UPDATE: waits for the row lock, reads the committed row.  *)
LockInvoice(w, i, op) ==
    /\ req[w].phase = "idle"
    /\ inv[i].status # "absent"
    /\ RowFree(i)
    /\ op = "issue" => ClerkFree(i)
    /\ req' = [req EXCEPT ![w] = [op |-> op, phase |-> "locked", inv |-> i,
                                  snap |-> inv[i], line |-> NoLine, seen |-> {}]]
    /\ UNCHANGED <<inv, lines, pay, credited, seq>>

(* issue_invoice under the lock: draft, at least one line, fresh totals,    *)
(* discount within the subtotal, a positive total; then the next number.    *)
IssueInvoice(w) ==
    LET i == req[w].inv
        fresh == Recalculated(req[w].snap, lines[i])
    IN
    /\ req[w].op = "issue" /\ req[w].phase = "locked"
    /\ RequireDraft(req[w].snap)
    /\ lines[i] # {}
    /\ fresh.discount <= LineTotal[lines[i]]
    /\ fresh.total > 0
    /\ seq < MaxNumber
    /\ seq' = NextNumber
    /\ inv' = [inv EXCEPT ![i] = [@ EXCEPT !.discount = fresh.discount,
                                           !.total = fresh.total,
                                           !.number = NextNumber,
                                           !.status = "unpaid"]]
    /\ Finish(w)
    /\ UNCHANGED <<lines, pay, credited>>

(* record_payment under the lock: the amount fits the outstanding balance,  *)
(* amount_paid = F("amount_paid") + amount, then the derived status.        *)
RecordPayment(w, p, a) ==
    LET i == req[w].inv
        row == [inv[i] EXCEPT !.paid = @ + a]
    IN
    /\ req[w].op = "pay" /\ req[w].phase = "locked"
    /\ req[w].snap.status \in OpenStatuses
    /\ a <= Outstanding(req[w].snap, credited[i])
    /\ pay[p] = NoPayment
    /\ ChecksHold(row)
    /\ pay' = [pay EXCEPT ![p] = [invoice |-> i, amount |-> a, reversed |-> 0]]
    /\ inv' = [inv EXCEPT ![i] = [row EXCEPT !.status = AppliedStatus(row, credited[i])]]
    /\ Finish(w)
    /\ UNCHANGED <<lines, credited, seq>>

(* What can still be given back on a payment, and the invoice row after it. *)
RefundableMutant(p, a) == a <= pay[p].amount
Refundable(p, a) == pay[p].reversed + a <= pay[p].amount

ReversedRowMutant(row, a) ==
    IF row.status = "cancelled" THEN row ELSE [row EXCEPT !.paid = @ - a]
ReversedRow(row, a) == [row EXCEPT !.paid = @ - a]

(* reverse_payment under the lock of the payment's invoice: no check of the *)
(* invoice's status, so the money of a voided invoice can be given back.    *)
ReversePayment(w, p, a) ==
    LET i == req[w].inv
        row == ReversedRow(inv[i], a)
    IN
    /\ req[w].op = "reverse" /\ req[w].phase = "locked"
    /\ pay[p].invoice = i
    /\ Refundable(p, a)
    /\ ChecksHold(row)
    /\ pay' = [pay EXCEPT ![p].reversed = @ + a]
    /\ inv' = [inv EXCEPT ![i] = [row EXCEPT !.status = AppliedStatus(row, credited[i])]]
    /\ Finish(w)
    /\ UNCHANGED <<lines, credited, seq>>

(* issue_credit_note under the lock: within the invoice total; a fully      *)
(* credited invoice is void, whatever was paid on it.                       *)
IssueCreditNote(w, a) ==
    LET i == req[w].inv
        sum == credited[i] + a
    IN
    /\ req[w].op = "credit" /\ req[w].phase = "locked"
    /\ req[w].snap.status \in IssuedStatuses
    /\ sum <= req[w].snap.total
    /\ credited' = [credited EXCEPT ![i] = sum]
    /\ inv' = [inv EXCEPT ![i].status = IF sum >= req[w].snap.total
                                        THEN "cancelled"
                                        ELSE AppliedStatus(inv[i], sum)]
    /\ Finish(w)
    /\ UNCHANGED <<lines, pay, seq>>

(* A failed validation, a CHECK violation, nothing to change, or a worker   *)
(* that dies: the transaction leaves no trace and its locks are released.   *)
Rollback(w) ==
    /\ req[w].phase # "idle"
    /\ Finish(w)
    /\ UNCHANGED <<inv, lines, pay, credited, seq>>

-----------------------------------------------------------------------------
Commit(w) ==
    \/ AddLine(w)
    \/ RemoveLine(w)
    \/ \E d \in Discounts, r \in Rates : UpdateInvoice(w, d, r)
    \/ CancelInvoice(w)
    \/ IssueInvoice(w)
    \/ \E p \in PaymentIds, a \in Amounts : RecordPayment(w, p, a)
    \/ \E p \in PaymentIds, a \in Amounts : ReversePayment(w, p, a)
    \/ \E a \in Amounts : IssueCreditNote(w, a)

Begin(w) ==
    \/ \E i \in Invoices, op \in DraftEdits, l \in Lines \cup {NoLine} :
           BeginDraftEdit(w, i, op, l)
    \/ \E i \in Invoices, op \in LockedOps : LockInvoice(w, i, op)

Next ==
    \/ \E i \in Invoices, d \in Discounts, r \in Rates : CreateInvoice(i, d, r)
    \/ \E w \in Workers : Begin(w) \/ SumLines(w) \/ Commit(w) \/ Rollback(w)

Spec == Init /\ [][Next]_vars

-----------------------------------------------------------------------------
(* Type invariant: the shape of every table and of every request.           *)
TypeOK ==
    /\ inv \in [Invoices -> Row]
    /\ lines \in [Invoices -> SUBSET Lines]
    /\ pay \in [PaymentIds -> [invoice : Invoices \cup {NoInvoice},
                               amount : Nat, reversed : Nat]]
    /\ credited \in [Invoices -> Nat]
    /\ seq \in Nat
    /\ req \in [Workers -> Request]

(* The sum of an invoice's payments less the sum of their reversals.        *)
Kept == [p \in PaymentIds |-> pay[p].amount - pay[p].reversed]
PaymentsOf(i) == {p \in PaymentIds : pay[p].invoice = i}
received == [i \in Invoices |-> SumFunctionOnSet(Kept, PaymentsOf(i))]

(* What the payment handlers promise: amount_paid, kept by F() increments,  *)
(* is the sum of the payments less the sum of the reversals.                *)
PaidMatchesReceived == \A i \in Invoices : inv[i].paid = received[i]

(* The stored totals are the ones the invoice's own lines, discount and     *)
(* rate give, on a draft (every edit recalculates) and, once issued, for    *)
(* ever: what is printed adds up to what is billed.                         *)
LinesExplainTotal ==
    \A i \in Invoices :
        inv[i].status # "absent" =>
            inv[i].total = InvoiceTotal(LineTotal[lines[i]],
                                        inv[i].discount, inv[i].rate)

(* The status column of a numbered invoice is the one its balance implies:  *)
(* void exactly when fully credited, else unpaid, paid or partially paid by *)
(* amount_paid against the credited total.  It is stored, so every handler  *)
(* that moves either side has to refresh it.                                *)
StatusMatchesBalance ==
    \A i \in Invoices : inv[i].number # 0 =>
        LET due == inv[i].total - credited[i]
        IN  /\ inv[i].status = "cancelled" <=> due = 0
            /\ inv[i].status = "unpaid" <=> (due # 0 /\ inv[i].paid = 0)
            /\ inv[i].status = "paid" <=> (due > 0 /\ inv[i].paid >= due)

(* No two invoices ever carry the same number, and none carries one the     *)
(* sequence has not handed out, stale draft saves included.                 *)
NumbersUnique ==
    /\ \A i \in Invoices : inv[i].number <= seq
    /\ \A i, j \in Invoices : inv[i].number = inv[j].number
                                => i = j \/ inv[i].number = 0

(* The numbers in use are exactly 1..seq: a rolled-back issue gives its     *)
(* number back and no invoice loses the one it has.                         *)
NumbersGapless ==
    /\ NumbersUnique
    /\ \A n \in 1..seq : \E i \in Invoices : inv[i].number = n

(* The money that can still be given back on a payment is part of what its  *)
(* invoice records as paid, so the amount_paid >= 0 constraint never        *)
(* rejects a reversal the service accepted, not even on a voided invoice.   *)
RefundableWithinPaid ==
    \A p \in PaymentIds : pay[p] # NoPayment =>
        pay[p].amount - pay[p].reversed <= inv[pay[p].invoice].paid

(* What a locking service read under SELECT ... FOR UPDATE is still the     *)
(* stored row when it commits: no draft edit writes past the lock.          *)
LockedCopyIsCurrent ==
    \A w \in Workers : req[w].phase = "locked" => req[w].snap = inv[req[w].inv]

(* Nothing of an issued invoice that was billed ever changes: not its       *)
(* number, its line items, its discount, its rate or its total (ADR-0012).  *)
IssuedIsFrozen ==
    [][\A i \in Invoices : inv[i].number # 0 =>
          /\ lines'[i] = lines[i]
          /\ \A c \in {"number", "discount", "rate", "total"} :
                inv'[i][c] = inv[i][c]]_vars

(* A cancelled invoice, draft or voided, is never reopened.                 *)
CancelledIsFinal ==
    [][\A i \in Invoices : inv[i].status = "cancelled"
                              => inv'[i].status = "cancelled"]_vars

(* Money is taken only against an open balance: a step that raises          *)
(* amount_paid leaves it within the total less the credit notes, two        *)
(* payments racing for the last of the balance included.                    *)
NeverOverCollects ==
    [][\A i \in Invoices : inv'[i].paid > inv[i].paid =>
          /\ inv[i].status \in OpenStatuses
          /\ inv'[i].paid <= inv'[i].total - credited'[i]]_vars

-----------------------------------------------------------------------------
(* The strengthening that makes the properties inductive.  The first part   *)
(* holds whatever the clerks do.                                            *)

RequestsWellFormed ==
    \A w \in Workers :
        /\ req[w].phase = "idle" <=> req[w].op = "none"
        /\ req[w].phase = "locked" <=> req[w].op \in LockedOps
        /\ req[w].phase = "idle" => req[w].inv = NoInvoice
        /\ req[w].phase # "idle" => req[w].inv \in Invoices
        /\ req[w].phase = "summed" => req[w].op \in {"add_line", "remove_line"}
        /\ req[w].op = "add_line" => req[w].line \in Lines

(* A request only ever holds an invoice that exists: rows are never deleted.*)
RequestsOnRows ==
    \A w \in Workers : req[w].phase # "idle" =>
        inv[req[w].inv].status # "absent" /\ req[w].snap.status # "absent"

LocksExclusive ==
    \A v, w \in Workers :
        /\ req[v].phase = "locked"
        /\ req[w].phase = "locked"
        /\ req[v].inv = req[w].inv
        => v = w

(* The second part needs SingleDraftClerk: two requests on one draft never  *)
(* overlap, so the copy a draft edit decides on is still the stored row.    *)
DraftExclusive ==
    \A v, w \in Workers :
        /\ req[v].op \in DraftEdits \cup {"issue"}
        /\ req[w].op \in DraftEdits \cup {"issue"}
        /\ req[v].inv = req[w].inv
        => v = w

DraftCopyIsCurrent ==
    \A w \in Workers : req[w].op \in DraftEdits =>
        /\ req[w].snap = inv[req[w].inv]
        /\ req[w].snap.status = "draft"
        /\ req[w].phase = "summed" =>
              req[w].seen = IF req[w].op = "add_line"
                            THEN lines[req[w].inv] \cup {req[w].line}
                            ELSE lines[req[w].inv] \ {req[w].line}

-----------------------------------------------------------------------------
(* InvoiceLedger implements Receivable: a numbered invoice is a billed one, *)
(* its total, amount_paid and credit notes are the abstract amounts.        *)
Billed(i) == inv[i].number # 0

Receivables == INSTANCE Receivable WITH
    state <- [i \in Invoices |-> IF ~Billed(i) THEN "unbilled"
                                 ELSE IF inv[i].status = "cancelled" THEN "void"
                                 ELSE "open"],
    billed <- [i \in Invoices |-> IF Billed(i) THEN inv[i].total ELSE 0],
    collected <- [i \in Invoices |-> inv[i].paid],
    waived <- credited

(* Every behaviour of the requests, however they interleave, is one the     *)
(* abstract receivable allows.                                              *)
ImplementsReceivable == Receivables!RSpec

=============================================================================
