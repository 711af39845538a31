------------------------ MODULE InvoiceLedgerProofs -------------------------
(***************************************************************************)
(* Proofs about InvoiceLedger, for any set of workers, invoices, lines,    *)
(* payments and amounts.                                                   *)
(***************************************************************************)
EXTENDS InvoiceLedger, MoneyProofs

(* A recalculated row is a row with the same columns but the total.         *)
LEMMA RecalculatedRow ==
    ASSUME NEW row \in Row, NEW S \in SUBSET Lines
    PROVE  /\ Recalculated(row, S) \in Row
           /\ Recalculated(row, S) = [row EXCEPT !.total = Recalculated(row, S).total]
           /\ Recalculated(row, S).total
                = InvoiceTotal(LineTotal[S], row.discount, row.rate)
  <1>1. LineTotal[S] \in Nat /\ row.discount \in Nat /\ row.rate \in Nat
    BY LedgerAssumption, RatesAreNat DEF Row
  <1>2. InvoiceTotal(LineTotal[S], row.discount, row.rate) \in Nat
    BY <1>1, InvoiceTotalNat
  <1>3. QED
    BY <1>2 DEF Recalculated, Row

(* The derived status of an issued or closed row is a status.               *)
LEMMA AppliedStatusType ==
    ASSUME NEW row, NEW c
    PROVE  AppliedStatus(row, c) \in Statuses
  BY DEF AppliedStatus, Statuses, IssuedStatuses, OpenStatuses

(* The rows the handlers build from a row are rows.                         *)
LEMMA EditedRow ==
    ASSUME NEW row \in Row, NEW d \in Discounts, NEW r \in Rates
    PROVE  /\ [row EXCEPT !.discount = d, !.rate = r] \in Row
           /\ [row EXCEPT !.status = "draft", !.discount = d, !.rate = r] \in Row
  <1>1. d \in Nat /\ r \in TaxRates /\ "draft" \in Statuses
    BY LedgerAssumption DEF Statuses
  <1>2. QED
    BY <1>1 DEF Row

(* The row issue_invoice writes is a row.                                   *)
LEMMA NumberedRow ==
    ASSUME NEW row \in Row, NEW d \in Nat, NEW t \in Nat, NEW n \in Nat
    PROVE  [row EXCEPT !.discount = d, !.total = t, !.number = n,
                       !.status = "unpaid"] \in Row
  <1>1. "unpaid" \in Statuses
    BY DEF Statuses, IssuedStatuses, OpenStatuses
  <1>2. QED
    BY <1>1 DEF Row

-----------------------------------------------------------------------------
(* The part of the invariant that needs no assumption on the clerks.        *)
TypeInv == TypeOK /\ RequestsWellFormed

(* The empty tables have their shape.                                       *)
LEMMA InitTypeInv == Init => TypeInv
  <1> SUFFICES ASSUME Init PROVE TypeInv
    OBVIOUS
  <1> USE DEF Init
  <1>1. NoRow \in Row
    BY LedgerAssumption, RatesAreNat DEF NoRow, Row, Statuses
  <1>2. Idle \in Request
    BY <1>1 DEF Idle, Request
  <1>3. TypeOK
    BY <1>1, <1>2 DEF TypeOK, NoPayment
  <1>4. RequestsWellFormed
    BY DEF RequestsWellFormed, Idle, LockedOps
  <1>5. QED
    BY <1>3, <1>4 DEF TypeInv

(* A request that ends leaves a well-formed request table.                  *)
LEMMA FinishTypeInv ==
    ASSUME TypeInv, NEW w \in Workers, Finish(w)
    PROVE  req' \in [Workers -> Request] /\ RequestsWellFormed'
  <1>1. NoRow \in Row /\ Idle \in Request
    BY LedgerAssumption, RatesAreNat DEF NoRow, Row, Statuses, Idle, Request
  <1>2. req' \in [Workers -> Request]
    BY <1>1 DEF Finish, TypeInv, TypeOK
  <1>3. RequestsWellFormed'
    BY DEF Finish, TypeInv, TypeOK, RequestsWellFormed, Idle, LockedOps, DraftEdits
  <1>4. QED
    BY <1>2, <1>3

(* What a line edit writes is a row, made of two.                           *)
LEMMA SavedTotalsRow ==
    ASSUME TypeInv, NEW w \in Workers, req[w].phase # "idle"
    PROVE  SavedTotals(w) \in Row
  <1>1. /\ req[w] \in Request /\ req[w].inv \in Invoices
        /\ req[w].snap \in Row /\ req[w].seen \in SUBSET Lines
    BY DEF TypeInv, TypeOK, RequestsWellFormed, Request
  <1>2. inv[req[w].inv] \in Row
    BY <1>1 DEF TypeInv, TypeOK
  <1>3. Recalculated(req[w].snap, req[w].seen) \in Row
    BY <1>1, RecalculatedRow
  <1>4. QED
    BY <1>2, <1>3 DEF SavedTotals, Row

(* Every step keeps the shapes: one proof step per action.                  *)
LEMMA NextTypeInv == TypeInv /\ [Next]_vars => TypeInv'
  <1> SUFFICES ASSUME TypeInv, [Next]_vars PROVE TypeInv'
    OBVIOUS
  <1>0. /\ \A i \in Invoices : inv[i] \in Row /\ lines[i] \in SUBSET Lines
        /\ \A w \in Workers : req[w] \in Request
    BY DEF TypeInv, TypeOK
  <1>1. ASSUME NEW i \in Invoices, NEW d \in Discounts, NEW r \in Rates,
               CreateInvoice(i, d, r)
        PROVE  TypeInv'
    <2>1. [NoRow EXCEPT !.status = "draft", !.discount = d, !.rate = r] \in Row
      <3>1. NoRow \in Row
        BY RatesAreNat DEF NoRow, Row, Statuses
      <3>2. QED
        BY <3>1, EditedRow
    <2>2. Recalculated([NoRow EXCEPT !.status = "draft", !.discount = d, !.rate = r], {})
            \in Row
      BY <2>1, RecalculatedRow
    <2>3. QED
      BY <1>1, <2>2 DEF CreateInvoice, TypeInv, TypeOK, RequestsWellFormed
  <1>2. ASSUME NEW w \in Workers, NEW i \in Invoices, NEW op \in DraftEdits,
               NEW l \in Lines \cup {NoLine}, BeginDraftEdit(w, i, op, l)
        PROVE  TypeInv'
    <2> DEFINE new == [op |-> op, phase |-> "loaded", inv |-> i, snap |-> inv[i],
                       line |-> l, seen |-> {}]
    <2>1. new \in Request
      BY <1>0 DEF Request
    <2>2. op = "add_line" => l \in Lines
      BY <1>2 DEF BeginDraftEdit
    <2>3. req' = [req EXCEPT ![w] = new]
      BY <1>2 DEF BeginDraftEdit
    <2>4. TypeOK'
      BY <1>2, <2>1, <2>3 DEF BeginDraftEdit, TypeInv, TypeOK
    <2>5. RequestsWellFormed'
      BY <2>2, <2>3 DEF TypeInv, TypeOK, RequestsWellFormed, DraftEdits, LockedOps
    <2>6. QED
      BY <2>4, <2>5 DEF TypeInv
  <1>3. ASSUME NEW w \in Workers, NEW i \in Invoices, NEW op \in LockedOps,
               LockInvoice(w, i, op)
        PROVE  TypeInv'
    <2> DEFINE new == [op |-> op, phase |-> "locked", inv |-> i, snap |-> inv[i],
                       line |-> NoLine, seen |-> {}]
    <2>1. new \in Request
      BY <1>0 DEF Request
    <2>2. req' = [req EXCEPT ![w] = new]
      BY <1>3 DEF LockInvoice
    <2>3. TypeOK'
      BY <1>3, <2>1, <2>2 DEF LockInvoice, TypeInv, TypeOK
    <2>4. RequestsWellFormed'
      BY <2>2 DEF TypeInv, TypeOK, RequestsWellFormed, LockedOps
    <2>5. QED
      BY <2>3, <2>4 DEF TypeInv
  <1>4. ASSUME NEW w \in Workers, SumLines(w)
        PROVE  TypeInv'
    <2>1. /\ req[w].inv \in Invoices
          /\ req[w].op = "add_line" => req[w].line \in Lines
      BY <1>4 DEF SumLines, TypeInv, RequestsWellFormed
    <2> DEFINE S == IF req[w].op = "add_line"
                    THEN lines[req[w].inv] \cup {req[w].line}
                    ELSE lines[req[w].inv] \ {req[w].line}
    <2>2. S \in SUBSET Lines
      BY <1>0, <2>1
    <2>3. req' = [req EXCEPT ![w] = [req[w] EXCEPT !.phase = "summed", !.seen = S]]
      BY <1>4 DEF SumLines, LinesSeen
    <2>4. TypeOK'
      <3>1. [req[w] EXCEPT !.phase = "summed", !.seen = S] \in Request
        BY <1>0, <2>2 DEF Request
      <3>2. QED
        BY <1>4, <2>3, <3>1 DEF SumLines, TypeInv, TypeOK
    <2>5. RequestsWellFormed'
      BY <1>0, <1>4, <2>3
      DEF SumLines, TypeInv, TypeOK, RequestsWellFormed, Request, LockedOps
    <2>6. QED
      BY <2>4, <2>5 DEF TypeInv
  <1>5. ASSUME NEW w \in Workers, AddLine(w)
        PROVE  TypeInv'
    <2>1. /\ SavedTotals(w) \in Row /\ req[w].inv \in Invoices
          /\ req[w].line \in Lines
      BY <1>5, SavedTotalsRow DEF AddLine, TypeInv, RequestsWellFormed
    <2>2. QED
      BY <1>5, <2>1, FinishTypeInv DEF AddLine, TypeInv, TypeOK
  <1>6. ASSUME NEW w \in Workers, RemoveLine(w)
        PROVE  TypeInv'
    <2>1. SavedTotals(w) \in Row /\ req[w].inv \in Invoices
      BY <1>6, SavedTotalsRow DEF RemoveLine, TypeInv, RequestsWellFormed
    <2>2. QED
      BY <1>6, <2>1, FinishTypeInv DEF RemoveLine, TypeInv, TypeOK
  <1>7. ASSUME NEW w \in Workers, NEW d \in Discounts, NEW r \in Rates,
               UpdateInvoice(w, d, r)
        PROVE  TypeInv'
    <2> DEFINE edited == [req[w].snap EXCEPT !.discount = d, !.rate = r]
    <2>1. req[w].inv \in Invoices
      BY <1>7 DEF UpdateInvoice, TypeInv, RequestsWellFormed
    <2>2. edited \in Row
      BY <1>0, EditedRow DEF Request
    <2>3. Recalculated(edited, lines[req[w].inv]) \in Row
      BY <1>0, <2>1, <2>2, RecalculatedRow
    <2>4. QED
      BY <1>7, <2>3, FinishTypeInv DEF UpdateInvoice, TypeInv, TypeOK
  <1>8. ASSUME NEW w \in Workers, CancelInvoice(w)
        PROVE  TypeInv'
    <2>1. [inv[req[w].inv] EXCEPT !.status = "cancelled"] \in Row
      BY <1>0, <1>8 DEF CancelInvoice, TypeInv, RequestsWellFormed, Row, Statuses
    <2>2. QED
      BY <1>8, <2>1, FinishTypeInv DEF CancelInvoice, TypeInv, TypeOK
  <1>9. ASSUME NEW w \in Workers, IssueInvoice(w)
        PROVE  TypeInv'
    <2> DEFINE i == req[w].inv
               fresh == Recalculated(req[w].snap, lines[i])
               row == [inv[i] EXCEPT !.discount = fresh.discount,
                                     !.total = fresh.total,
                                     !.number = seq + 1, !.status = "unpaid"]
    <2>1. i \in Invoices
      BY <1>9 DEF IssueInvoice, TypeInv, RequestsWellFormed
    <2>2. fresh \in Row
      BY <1>0, <2>1, RecalculatedRow DEF Request
    <2>3. seq \in Nat
      BY DEF TypeInv, TypeOK
    <2>4. row \in Row
      <3>1. fresh.discount \in Nat /\ fresh.total \in Nat /\ seq + 1 \in Nat
        BY <2>2, <2>3 DEF Row
      <3>2. inv[i] \in Row
        BY <1>0, <2>1
      <3>3. QED
        BY <3>1, <3>2, NumberedRow
    <2>5. inv' = [inv EXCEPT ![i] = row]
      BY <1>9, <2>1 DEF IssueInvoice, NextNumber, TypeInv, TypeOK
    <2>6. QED
      <3>1. /\ seq' = seq + 1 /\ UNCHANGED <<lines, pay, credited>>
            /\ Finish(w)
        BY <1>9 DEF IssueInvoice, NextNumber
      <3>2. inv' \in [Invoices -> Row]
        BY <2>1, <2>4, <2>5 DEF TypeInv, TypeOK
      <3>3. QED
        BY <2>3, <3>1, <3>2, FinishTypeInv DEF TypeInv, TypeOK
  <1>10. ASSUME NEW w \in Workers, NEW p \in PaymentIds, NEW a \in Amounts,
                RecordPayment(w, p, a)
         PROVE  TypeInv'
    <2> DEFINE i == req[w].inv
               paidrow == [inv[i] EXCEPT !.paid = @ + a]
               row == [paidrow EXCEPT !.status = AppliedStatus(paidrow, credited[i])]
    <2>1. i \in Invoices /\ a \in Nat
      BY <1>10, LedgerAssumption DEF RecordPayment, TypeInv, RequestsWellFormed
    <2>2. paidrow \in Row
      BY <1>0, <2>1 DEF Row
    <2>3. row \in Row
      BY <2>2, AppliedStatusType DEF Row
    <2>4. QED
      BY <1>10, <2>1, <2>3, FinishTypeInv DEF RecordPayment, TypeInv, TypeOK
  <1>11. ASSUME NEW w \in Workers, NEW p \in PaymentIds, NEW a \in Amounts,
                ReversePayment(w, p, a)
         PROVE  TypeInv'
    <2> DEFINE i == req[w].inv
               paidrow == [inv[i] EXCEPT !.paid = @ - a]
               row == [paidrow EXCEPT !.status = AppliedStatus(paidrow, credited[i])]
    <2>1. i \in Invoices /\ a \in Nat
      BY <1>11, LedgerAssumption DEF ReversePayment, TypeInv, RequestsWellFormed
    <2>2. inv[i].paid - a \in Nat
      BY <1>0, <1>11, <2>1 DEF ReversePayment, ReversedRow, ChecksHold, Row
    <2>3. paidrow \in Row
      BY <1>0, <2>1, <2>2 DEF Row
    <2>4. row \in Row
      BY <2>3, AppliedStatusType DEF Row
    <2>5. pay' \in [PaymentIds -> [invoice : Invoices \cup {NoInvoice},
                                   amount : Nat, reversed : Nat]]
      BY <1>11, <2>1 DEF ReversePayment, TypeInv, TypeOK
    <2>6. QED
      BY <1>11, <2>1, <2>4, <2>5, FinishTypeInv DEF ReversePayment, ReversedRow, TypeInv, TypeOK
  <1>12. ASSUME NEW w \in Workers, NEW a \in Amounts, IssueCreditNote(w, a)
         PROVE  TypeInv'
    <2> DEFINE i == req[w].inv
               sum == credited[i] + a
               s == IF sum >= req[w].snap.total THEN "cancelled"
                    ELSE AppliedStatus(inv[i], sum)
    <2>1. i \in Invoices /\ a \in Nat
      BY <1>12, LedgerAssumption DEF IssueCreditNote, TypeInv, RequestsWellFormed
    <2>2. sum \in Nat
      BY <2>1 DEF TypeInv, TypeOK
    <2>3. s \in Statuses
      BY AppliedStatusType DEF Statuses
    <2>4. [inv[i] EXCEPT !.status = s] \in Row
      BY <1>0, <2>1, <2>3 DEF Row
    <2>5. QED
      BY <1>12, <2>2, <2>4, FinishTypeInv DEF IssueCreditNote, TypeInv, TypeOK
  <1>13. ASSUME NEW w \in Workers, Rollback(w)
         PROVE  TypeInv'
    BY <1>13, FinishTypeInv DEF Rollback, TypeInv, TypeOK
  <1>14. CASE UNCHANGED vars
    BY <1>14 DEF vars, TypeInv, TypeOK, RequestsWellFormed
  <1>15. QED
    BY <1>1, <1>2, <1>3, <1>4, <1>5, <1>6, <1>7, <1>8, <1>9, <1>10, <1>11,
       <1>12, <1>13, <1>14 DEF Next, Begin, Commit

(* Every table and every request keeps its shape, whatever the interleaving *)
(* and without any assumption on the clerks: amounts never go negative and  *)
(* a status column never leaves the choices of InvoiceStatus.               *)
THEOREM TypeCorrect == Spec => []TypeOK
  <1>1. TypeInv => TypeOK
    BY DEF TypeInv
  <1>2. QED
    BY <1>1, InitTypeInv, NextTypeInv, PTL DEF Spec
-----------------------------------------------------------------------------
(* The row lock.  This part needs no assumption on the clerks either.       *)
LockInv == TypeInv /\ RequestsOnRows /\ LocksExclusive /\ LockedCopyIsCurrent

(* The fields of a request have their types.                                *)
LEMMA RequestFacts ==
    ASSUME TypeInv
    PROVE  /\ inv \in [Invoices -> Row] /\ req \in [Workers -> Request]
           /\ \A w \in Workers :
                /\ req[w].phase # "idle" => req[w].inv \in Invoices
                /\ req[w].phase = "locked" => req[w].phase # "idle"
  BY DEF TypeInv, TypeOK, RequestsWellFormed

(* A request that writes its row and ends disturbs no lock, provided no      *)
(* other request holds the lock of that row.                                *)
LEMMA CommitKeepsLocks ==
    ASSUME LockInv, NEW w \in Workers, Finish(w), req[w].inv \in Invoices,
           NEW row, row.status # "absent",
           inv' = [inv EXCEPT ![req[w].inv] = row],
           \A v \in Workers :
               v # w /\ req[v].phase = "locked" => req[v].inv # req[w].inv
    PROVE  RequestsOnRows' /\ LocksExclusive' /\ LockedCopyIsCurrent'
  <1>1. /\ inv \in [Invoices -> Row] /\ req \in [Workers -> Request]
        /\ \A v \in Workers : req[v].phase # "idle" => req[v].inv \in Invoices
    BY RequestFacts DEF LockInv
  <1>2. \A v \in Workers : req'[v] = IF v = w THEN Idle ELSE req[v]
    BY <1>1 DEF Finish
  <1>3. Idle.phase = "idle"
    BY DEF Idle
  <1>4. \A j \in Invoices : inv'[j] = IF j = req[w].inv THEN row ELSE inv[j]
    BY <1>1
  <1>5. RequestsOnRows'
    BY <1>1, <1>2, <1>3, <1>4 DEF LockInv, RequestsOnRows
  <1>6. LocksExclusive'
    BY <1>2, <1>3 DEF LockInv, LocksExclusive
  <1>7. LockedCopyIsCurrent'
    BY <1>1, <1>2, <1>3, <1>4 DEF LockInv, LockedCopyIsCurrent
  <1>8. QED
    BY <1>5, <1>6, <1>7

(* The owner of a row lock is its only owner.                               *)
LEMMA OwnerIsAlone ==
    ASSUME LockInv, NEW w \in Workers, req[w].phase = "locked"
    PROVE  \A v \in Workers :
               v # w /\ req[v].phase = "locked" => req[v].inv # req[w].inv
  BY DEF LockInv, LocksExclusive

(* A status recomputed on an existing row is not "absent".                  *)
LEMMA AppliedStatusPresent ==
    ASSUME NEW row, NEW c
    PROVE  AppliedStatus(row, c) # "absent"
  BY DEF AppliedStatus

(* At first nobody holds a lock.                                            *)
LEMMA InitLockInv == Init => LockInv
  BY InitTypeInv
  DEF Init, LockInv, RequestsOnRows, LocksExclusive, LockedCopyIsCurrent, Idle

(* Every step keeps the lock invariant: one proof step per action.          *)
LEMMA NextLockInv == LockInv /\ [Next]_vars => LockInv'
  <1> SUFFICES ASSUME LockInv, [Next]_vars PROVE LockInv'
    OBVIOUS
  <1> DEFINE Goal == RequestsOnRows /\ LocksExclusive /\ LockedCopyIsCurrent
  <1>0. TypeInv'
    BY NextTypeInv DEF LockInv
  <1>a. /\ inv \in [Invoices -> Row] /\ req \in [Workers -> Request]
        /\ \A v \in Workers : req[v].phase # "idle" => req[v].inv \in Invoices
        /\ \A v \in Workers : req[v].phase \in {"loaded", "summed", "locked"}
                => req[v].phase # "idle"
    BY RequestFacts DEF LockInv
  <1>d. ASSUME NEW w \in Workers, Finish(w), req[w].phase = "locked",
               req[w].inv \in Invoices, NEW row, row.status # "absent",
               inv' = [inv EXCEPT ![req[w].inv] = row]
        PROVE  Goal'
    <2>1. \A v \in Workers :
              v # w /\ req[v].phase = "locked" => req[v].inv # req[w].inv
      BY <1>d, OwnerIsAlone
    <2>2. RequestsOnRows' /\ LocksExclusive' /\ LockedCopyIsCurrent'
      BY <1>d, <2>1, CommitKeepsLocks
    <2>3. QED
      BY <2>2
  <1>1. ASSUME NEW i \in Invoices, NEW d \in Discounts, NEW r \in Rates,
               CreateInvoice(i, d, r)
        PROVE  Goal'
    <2>1. \A v \in Workers : req[v].phase # "idle" => req[v].inv # i
      BY <1>1 DEF CreateInvoice, LockInv, RequestsOnRows
    <2>2. \A j \in Invoices : j # i => inv'[j] = inv[j]
      BY <1>a, <1>1 DEF CreateInvoice
    <2>3. req' = req
      BY <1>1 DEF CreateInvoice
    <2>4. QED
      BY <1>a, <2>1, <2>2, <2>3
      DEF LockInv, RequestsOnRows, LocksExclusive, LockedCopyIsCurrent
  <1>2. ASSUME NEW w \in Workers, NEW i \in Invoices, NEW op \in DraftEdits,
               NEW l \in Lines \cup {NoLine}, BeginDraftEdit(w, i, op, l)
        PROVE  Goal'
    <2> DEFINE new == [op |-> op, phase |-> "loaded", inv |-> i, snap |-> inv[i],
                       line |-> l, seen |-> {}]
    <2>1. inv' = inv /\ req' = [req EXCEPT ![w] = new] /\ inv[i].status = "draft"
      BY <1>2 DEF BeginDraftEdit, RequireDraft
    <2>2. \A v \in Workers : req'[v] = IF v = w THEN new ELSE req[v]
      BY <1>a, <2>1
    <2>3. QED
      BY <2>1, <2>2 DEF LockInv, RequestsOnRows, LocksExclusive, LockedCopyIsCurrent
  <1>3. ASSUME NEW w \in Workers, NEW i \in Invoices, NEW op \in LockedOps,
               LockInvoice(w, i, op)
        PROVE  Goal'
    <2> DEFINE new == [op |-> op, phase |-> "locked", inv |-> i, snap |-> inv[i],
                       line |-> NoLine, seen |-> {}]
    <2>1. /\ inv' = inv /\ req' = [req EXCEPT ![w] = new]
          /\ inv[i].status # "absent" /\ RowFree(i)
      BY <1>3 DEF LockInvoice
    <2>2. \A v \in Workers : req'[v] = IF v = w THEN new ELSE req[v]
      BY <1>a, <2>1
    <2>3. QED
      BY <2>1, <2>2
      DEF LockInv, RequestsOnRows, LocksExclusive, LockedCopyIsCurrent, RowFree
  <1>4. ASSUME NEW w \in Workers, SumLines(w)
        PROVE  Goal'
    <2> DEFINE S == IF req[w].op = "add_line"
                    THEN lines[req[w].inv] \cup {req[w].line}
                    ELSE lines[req[w].inv] \ {req[w].line}
               new == [req[w] EXCEPT !.phase = "summed", !.seen = S]
    <2>1. /\ inv' = inv /\ req' = [req EXCEPT ![w] = new]
          /\ req[w].phase = "loaded"
      BY <1>4 DEF SumLines, LinesSeen
    <2>2. \A v \in Workers : req'[v] = IF v = w THEN new ELSE req[v]
      BY <1>a, <2>1
    <2>3. new.phase = "summed" /\ new.inv = req[w].inv /\ new.snap = req[w].snap
      BY <1>a DEF Request
    <2>4. QED
      BY <2>1, <2>2, <2>3
      DEF LockInv, RequestsOnRows, LocksExclusive, LockedCopyIsCurrent
  <1>5. ASSUME NEW w \in Workers, AddLine(w) \/ RemoveLine(w)
        PROVE  Goal'
    <2>1. /\ req[w].phase = "summed" /\ RowFree(req[w].inv) /\ Finish(w)
          /\ inv' = [inv EXCEPT ![req[w].inv] = SavedTotals(w)]
      BY <1>5 DEF AddLine, RemoveLine
    <2>2. SavedTotals(w).status = inv[req[w].inv].status
      BY <1>a, <2>1 DEF SavedTotals, Row
    <2>3. SavedTotals(w).status # "absent" /\ req[w].inv \in Invoices
      BY <1>a, <2>1, <2>2 DEF LockInv, RequestsOnRows
    <2>4. QED
      BY <2>1, <2>3, CommitKeepsLocks DEF RowFree
  <1>6. ASSUME NEW w \in Workers, NEW d \in Discounts, NEW r \in Rates,
               UpdateInvoice(w, d, r)
        PROVE  Goal'
    <2> DEFINE edited == [req[w].snap EXCEPT !.discount = d, !.rate = r]
               row == Recalculated(edited, lines[req[w].inv])
    <2>1. /\ req[w].phase = "loaded" /\ RowFree(req[w].inv) /\ Finish(w)
          /\ inv' = [inv EXCEPT ![req[w].inv] = row]
      BY <1>6 DEF UpdateInvoice
    <2>2. row.status = req[w].snap.status
      BY <1>a DEF Recalculated, Request, Row
    <2>3. row.status # "absent" /\ req[w].inv \in Invoices
      BY <1>a, <2>1, <2>2 DEF LockInv, RequestsOnRows
    <2>4. QED
      BY <2>1, <2>3, CommitKeepsLocks DEF RowFree
  <1>7. ASSUME NEW w \in Workers, CancelInvoice(w)
        PROVE  Goal'
    <2> DEFINE row == [inv[req[w].inv] EXCEPT !.status = "cancelled"]
    <2>1. /\ req[w].phase = "loaded" /\ RowFree(req[w].inv) /\ Finish(w)
          /\ req[w].inv \in Invoices
          /\ inv' = [inv EXCEPT ![req[w].inv] = row]
      BY <1>a, <1>7 DEF CancelInvoice
    <2>2. row.status # "absent"
      BY <1>a, <2>1 DEF Row
    <2>3. QED
      BY <2>1, <2>2, CommitKeepsLocks DEF RowFree
  <1>8. ASSUME NEW w \in Workers, IssueInvoice(w)
        PROVE  Goal'
    <2> DEFINE fresh == Recalculated(req[w].snap, lines[req[w].inv])
               row == [inv[req[w].inv] EXCEPT !.discount = fresh.discount,
                                              !.total = fresh.total,
                                              !.number = seq + 1,
                                              !.status = "unpaid"]
    <2>1. /\ req[w].phase = "locked" /\ Finish(w) /\ req[w].inv \in Invoices
          /\ inv' = [inv EXCEPT ![req[w].inv] = row]
      BY <1>a, <1>8 DEF IssueInvoice, NextNumber
    <2>2. row.status # "absent"
      BY <1>a, <2>1 DEF Row
    <2>3. QED
      BY <1>d, <2>1, <2>2
  <1>9. ASSUME NEW w \in Workers, NEW p \in PaymentIds, NEW a \in Amounts,
               RecordPayment(w, p, a) \/ ReversePayment(w, p, a)
        PROVE  Goal'
    <2>1. PICK paidrow \in {[inv[req[w].inv] EXCEPT !.paid = @ + a],
                            [inv[req[w].inv] EXCEPT !.paid = @ - a]} :
            /\ req[w].phase = "locked" /\ Finish(w) /\ req[w].inv \in Invoices
            /\ inv' = [inv EXCEPT ![req[w].inv] =
                         [paidrow EXCEPT !.status =
                            AppliedStatus(paidrow, credited[req[w].inv])]]
      BY <1>a, <1>9 DEF RecordPayment, ReversePayment, ReversedRow
    <2> DEFINE row == [paidrow EXCEPT !.status =
                         AppliedStatus(paidrow, credited[req[w].inv])]
    <2>2. row.status # "absent"
      BY <1>a, <2>1, AppliedStatusPresent DEF Row
    <2>3. QED
      BY <1>d, <2>1, <2>2
  <1>10. ASSUME NEW w \in Workers, NEW a \in Amounts, IssueCreditNote(w, a)
         PROVE  Goal'
    <2> DEFINE s == IF credited[req[w].inv] + a >= req[w].snap.total
                    THEN "cancelled"
                    ELSE AppliedStatus(inv[req[w].inv], credited[req[w].inv] + a)
               row == [inv[req[w].inv] EXCEPT !.status = s]
    <2>1. /\ req[w].phase = "locked" /\ Finish(w) /\ req[w].inv \in Invoices
          /\ inv' = [inv EXCEPT ![req[w].inv] = row]
      BY <1>a, <1>10 DEF IssueCreditNote
    <2>2. s # "absent"
      BY AppliedStatusPresent
    <2>3. row.status # "absent"
      BY <1>a, <2>1, <2>2 DEF Row
    <2>4. QED
      BY <1>d, <2>1, <2>3
  <1>11. ASSUME NEW w \in Workers, Rollback(w)
         PROVE  Goal'
    <2>1. inv' = inv /\ req' = [req EXCEPT ![w] = Idle]
      BY <1>11 DEF Rollback, Finish
    <2>2. \A v \in Workers : req'[v] = IF v = w THEN Idle ELSE req[v]
      BY <1>a, <2>1
    <2>3. Idle.phase = "idle"
      BY DEF Idle
    <2>4. QED
      BY <2>1, <2>2, <2>3
      DEF LockInv, RequestsOnRows, LocksExclusive, LockedCopyIsCurrent
  <1>12. ASSUME UNCHANGED vars
         PROVE  Goal'
    <2>1. inv' = inv /\ req' = req
      BY <1>12 DEF vars
    <2>2. QED
      BY <2>1 DEF LockInv, RequestsOnRows, LocksExclusive, LockedCopyIsCurrent
  <1> HIDE DEF Goal
  <1>13. Goal'
    BY <1>1, <1>2, <1>3, <1>4, <1>5, <1>6, <1>7, <1>8, <1>9, <1>10, <1>11, <1>12
    DEF Next, Begin, Commit
  <1>14. QED
    BY <1>0, <1>13 DEF LockInv, Goal

(* The lock discipline: what issue_invoice, record_payment, reverse_payment *)
(* and issue_credit_note read under SELECT ... FOR UPDATE is still the      *)
(* stored row when they commit, in every interleaving of any number of      *)
(* requests, stale draft edits included.                                    *)
THEOREM LockedCopyStaysCurrent == Spec => []LockedCopyIsCurrent
  <1>1. LockInv => LockedCopyIsCurrent
    BY DEF LockInv
  <1>2. QED
    BY <1>1, InitLockInv, NextLockInv, PTL DEF Spec

-----------------------------------------------------------------------------
(* Numbers and collections when drafts race.  A draft carries no number and *)
(* no money, nor does the copy a draft edit holds: whatever a stale save    *)
(* puts back, it is neither.                                                *)
Blank(row) == row.status \in {"absent", "draft"} => row.number = 0 /\ row.paid = 0

DraftsBlank ==
    /\ \A i \in Invoices : Blank(inv[i])
    /\ \A w \in Workers : req[w].op \in DraftEdits =>
          req[w].snap.status = "draft" /\ Blank(req[w].snap)

RacingInv == LockInv /\ DraftsBlank /\ NumbersUnique

(* What a commit does to the one row it writes.                             *)
Effect(i, row) ==
    /\ inv' = [inv EXCEPT ![i] = row]
    /\ Blank(row)
    /\ \/ row.number \in {0, inv[i].number} /\ seq' = seq
       \/ row.number = seq + 1 /\ seq' = seq + 1
    /\ row.paid > inv[i].paid =>
          inv[i].status \in OpenStatuses /\ row.paid <= row.total - credited'[i]

(* Only the statement that gives a number changes one.                      *)
LEMMA EffectKeepsNumbers ==
    ASSUME RacingInv, NEW i \in Invoices, NEW row \in Row, Effect(i, row)
    PROVE  NumbersUnique' /\ \A j \in Invoices : Blank(inv'[j])
  <1>1. /\ inv \in [Invoices -> Row] /\ seq \in Nat
        /\ \A j \in Invoices : inv[j].number \in Nat
    BY DEF RacingInv, LockInv, TypeInv, TypeOK, Row
  <1>2. \A j \in Invoices : inv'[j] = IF j = i THEN row ELSE inv[j]
    BY <1>1 DEF Effect
  <1>3. NumbersUnique'
    BY <1>1, <1>2 DEF RacingInv, NumbersUnique, Effect
  <1>4. QED
    BY <1>2, <1>3 DEF RacingInv, DraftsBlank, Effect

LEMMA AppliedStatusKeepsDrafts ==
    ASSUME NEW row, NEW c
    PROVE  AppliedStatus(row, c) = "draft" <=> row.status = "draft"
  BY DEF AppliedStatus, IssuedStatuses, OpenStatuses

(* A commit that edits or cancels a draft, perhaps one issued meanwhile.    *)
LEMMA DraftEditEffect ==
    ASSUME RacingInv, NEW w \in Workers,
           \/ AddLine(w) \/ RemoveLine(w) \/ CancelInvoice(w)
           \/ \E d \in Discounts, r \in Rates : UpdateInvoice(w, d, r)
    PROVE  \E i \in Invoices, row \in Row : Effect(i, row)
  <1> DEFINE i == req[w].inv
  <1>1. /\ TypeInv /\ inv \in [Invoices -> Row] /\ lines \in [Invoices -> SUBSET Lines]
        /\ req[w] \in Request /\ req[w].snap \in Row
    BY DEF RacingInv, LockInv, TypeInv, TypeOK, Request
  <1>2. i \in Invoices /\ req[w].phase # "idle" /\ req[w].op \in DraftEdits /\ seq' = seq
    BY <1>1 DEF TypeInv, RequestsWellFormed, AddLine, RemoveLine, CancelInvoice,
       UpdateInvoice, DraftEdits
  <1>3. inv[i] \in Row /\ Blank(inv[i]) /\ inv[i].paid \in Nat
    BY <1>1, <1>2 DEF RacingInv, DraftsBlank, Row
  <1>4. ASSUME AddLine(w) \/ RemoveLine(w)
        PROVE  Effect(i, SavedTotals(w)) /\ SavedTotals(w) \in Row
    <2>1. SavedTotals(w) \in Row
      BY <1>1, <1>2, SavedTotalsRow
    <2>2. /\ SavedTotals(w).status = inv[i].status
          /\ SavedTotals(w).number = inv[i].number
          /\ SavedTotals(w).paid = inv[i].paid
      BY <1>3 DEF SavedTotals, Row
    <2>3. inv' = [inv EXCEPT ![i] = SavedTotals(w)]
      BY <1>4 DEF AddLine, RemoveLine
    <2>4. QED
      BY <1>2, <1>3, <2>1, <2>2, <2>3 DEF Effect, Blank
  <1>5. ASSUME CancelInvoice(w) PROVE \E row \in Row : Effect(i, row)
    <2> DEFINE row == [inv[i] EXCEPT !.status = "cancelled"]
    <2>1. row \in Row /\ row.status = "cancelled" /\ row.number = inv[i].number
          /\ row.paid = inv[i].paid
      BY <1>3 DEF Row, Statuses
    <2>2. inv' = [inv EXCEPT ![i] = row]
      BY <1>1, <1>2, <1>5 DEF CancelInvoice
    <2>3. Effect(i, row)
      BY <1>2, <1>3, <2>1, <2>2 DEF Effect, Blank
    <2>4. QED
      BY <2>1, <2>3
  <1>6. ASSUME NEW d \in Discounts, NEW r \in Rates, UpdateInvoice(w, d, r)
        PROVE  \E row \in Row : Effect(i, row)
    <2> DEFINE edited == [req[w].snap EXCEPT !.discount = d, !.rate = r]
               row == Recalculated(edited, lines[i])
    <2>1. edited \in Row /\ lines[i] \in SUBSET Lines
      BY <1>1, <1>2, EditedRow
    <2>2. row \in Row /\ row = [edited EXCEPT !.total = row.total]
      BY <2>1, RecalculatedRow
    <2>3. /\ row.status = req[w].snap.status /\ row.number = req[w].snap.number
          /\ row.paid = req[w].snap.paid
      BY <1>1, <2>1, <2>2 DEF Row
    <2>4. req[w].snap.status = "draft" /\ Blank(req[w].snap)
      BY <1>2 DEF RacingInv, DraftsBlank
    <2>5. row.number = 0 /\ row.paid = 0
      BY <2>3, <2>4 DEF Blank
    <2>6. inv' = [inv EXCEPT ![i] = row]
      BY <1>6 DEF UpdateInvoice
    <2> HIDE DEF row
    <2>7. Effect(i, row)
      BY <1>2, <1>3, <2>5, <2>6 DEF Effect, Blank
    <2>8. QED
      BY <2>2, <2>7
  <1>7. QED
    BY <1>2, <1>4, <1>5, <1>6

(* A commit under the row lock: what it decided on is the stored row.       *)
LEMMA LockedEffect ==
    ASSUME RacingInv, NEW w \in Workers,
           \/ IssueInvoice(w)
           \/ \E p \in PaymentIds, a \in Amounts : RecordPayment(w, p, a)
           \/ \E p \in PaymentIds, a \in Amounts : ReversePayment(w, p, a)
           \/ \E a \in Amounts : IssueCreditNote(w, a)
    PROVE  \E i \in Invoices, row \in Row : Effect(i, row)
  <1> DEFINE i == req[w].inv
  <1>1. /\ TypeInv /\ inv \in [Invoices -> Row] /\ lines \in [Invoices -> SUBSET Lines]
        /\ req[w] \in Request /\ req[w].snap \in Row /\ seq \in Nat
        /\ credited \in [Invoices -> Nat]
    BY DEF RacingInv, LockInv, TypeInv, TypeOK, Request
  <1>2. req[w].phase = "locked"
    BY DEF IssueInvoice, RecordPayment, ReversePayment, IssueCreditNote
  <1>3. i \in Invoices /\ req[w].snap = inv[i]
    BY <1>1, <1>2 DEF RacingInv, LockInv, TypeInv, RequestsWellFormed, LockedCopyIsCurrent
  <1>4. /\ inv[i] \in Row /\ Blank(inv[i]) /\ inv[i].paid \in Nat /\ inv[i].total \in Nat
        /\ inv[i].number \in Nat /\ credited[i] \in Nat
    BY <1>1, <1>3 DEF RacingInv, DraftsBlank, Row
  <1>5. ASSUME IssueInvoice(w) PROVE \E row \in Row : Effect(i, row)
    <2> DEFINE fresh == Recalculated(req[w].snap, lines[i])
               row == [inv[i] EXCEPT !.discount = fresh.discount, !.total = fresh.total,
                                     !.number = seq + 1, !.status = "unpaid"]
    <2>1. fresh \in Row
      BY <1>1, <1>3, RecalculatedRow
    <2>2. fresh.discount \in Nat /\ fresh.total \in Nat /\ seq + 1 \in Nat
      BY <1>1, <2>1 DEF Row
    <2>3. inv' = [inv EXCEPT ![i] = row] /\ seq' = seq + 1
      BY <1>1, <1>3, <1>5 DEF IssueInvoice, NextNumber
    <2> HIDE DEF fresh
    <2>4. row \in Row /\ row.status = "unpaid" /\ row.number = seq + 1
          /\ row.paid = inv[i].paid
      BY <1>4, <2>2, NumberedRow DEF Row
    <2> HIDE DEF row
    <2>5. Effect(i, row)
      BY <1>4, <2>3, <2>4 DEF Effect, Blank
    <2>6. QED
      BY <2>4, <2>5
  <1>6. ASSUME NEW p \in PaymentIds, NEW a \in Amounts,
               RecordPayment(w, p, a)
        PROVE  \E row \in Row : Effect(i, row)
    <2> DEFINE paidrow == [inv[i] EXCEPT !.paid = @ + a]
               row == [paidrow EXCEPT !.status = AppliedStatus(paidrow, credited[i])]
    <2>1. a \in Nat /\ AppliedStatus(paidrow, credited[i]) \in Statuses
      BY LedgerAssumption, AppliedStatusType
    <2>2. /\ inv' = [inv EXCEPT ![i] = row] /\ seq' = seq /\ credited' = credited
          /\ inv[i].status \in OpenStatuses
          /\ a <= inv[i].total - credited[i] - inv[i].paid
      BY <1>3, <1>6 DEF RecordPayment, Outstanding
    <2>3. paidrow \in Row /\ paidrow.status = inv[i].status
      BY <1>4, <2>1 DEF Row
    <2>4. AppliedStatus(paidrow, credited[i]) \notin {"absent", "draft"}
      BY <2>2, <2>3, AppliedStatusPresent, AppliedStatusKeepsDrafts DEF OpenStatuses
    <2>5. /\ row \in Row /\ row.status \notin {"absent", "draft"}
          /\ row.number = inv[i].number /\ row.paid = inv[i].paid + a
          /\ row.total = inv[i].total
      BY <1>4, <2>1, <2>3, <2>4 DEF Row
    <2> HIDE DEF row
    <2>6. Effect(i, row)
      BY <1>4, <2>1, <2>2, <2>5 DEF Effect, Blank
    <2>7. QED
      BY <2>5, <2>6
  <1>7. ASSUME NEW p \in PaymentIds, NEW a \in Amounts,
               ReversePayment(w, p, a)
        PROVE  \E row \in Row : Effect(i, row)
    <2> DEFINE less == [inv[i] EXCEPT !.paid = @ - a]
               row == [less EXCEPT !.status = AppliedStatus(less, credited[i])]
    <2>1. a \in Nat /\ a > 0 /\ AppliedStatus(less, credited[i]) \in Statuses
      BY LedgerAssumption, AppliedStatusType
    <2>2. /\ inv' = [inv EXCEPT ![i] = row] /\ seq' = seq
          /\ 0 <= inv[i].paid - a
      BY <1>4, <1>7 DEF ReversePayment, ReversedRow, ChecksHold, Row
    <2>3. less \in Row /\ less.status = inv[i].status
      BY <1>4, <2>1, <2>2 DEF Row
    <2>4. inv[i].status \notin {"absent", "draft"}
      BY <1>4, <2>1, <2>2 DEF Blank
    <2>5. AppliedStatus(less, credited[i]) \notin {"absent", "draft"}
      BY <2>3, <2>4, AppliedStatusPresent, AppliedStatusKeepsDrafts
    <2>6. /\ row \in Row /\ row.status \notin {"absent", "draft"}
          /\ row.number = inv[i].number /\ row.paid = inv[i].paid - a
      BY <1>4, <2>1, <2>3, <2>5 DEF Row
    <2> HIDE DEF row
    <2>7. Effect(i, row)
      BY <1>4, <2>1, <2>2, <2>6 DEF Effect, Blank
    <2>8. QED
      BY <2>6, <2>7
  <1>8. ASSUME NEW a \in Amounts, IssueCreditNote(w, a)
        PROVE  \E row \in Row : Effect(i, row)
    <2> DEFINE sum == credited[i] + a
               s == IF sum >= inv[i].total THEN "cancelled" ELSE AppliedStatus(inv[i], sum)
               row == [inv[i] EXCEPT !.status = s]
    <2>1. /\ inv' = [inv EXCEPT ![i] = row] /\ seq' = seq
          /\ inv[i].status \in IssuedStatuses
      BY <1>1, <1>3, <1>8 DEF IssueCreditNote
    <2>2. inv[i].status \notin {"absent", "draft"}
      BY <2>1 DEF IssuedStatuses, OpenStatuses
    <2>3. s \in Statuses /\ s \notin {"absent", "draft"}
      BY <2>2, AppliedStatusType, AppliedStatusPresent, AppliedStatusKeepsDrafts DEF Statuses
    <2> HIDE DEF s
    <2>4. /\ row \in Row /\ row.status \notin {"absent", "draft"}
          /\ row.number = inv[i].number /\ row.paid = inv[i].paid
      BY <1>4, <2>3 DEF Row
    <2> HIDE DEF row
    <2>5. Effect(i, row)
      BY <1>4, <2>1, <2>4 DEF Effect, Blank
    <2>6. QED
      BY <2>4, <2>5
  <1>9. QED
    BY <1>3, <1>5, <1>6, <1>7, <1>8

(* Every step either leaves the invoices alone or has such an effect.       *)
LEMMA StepEffect ==
    ASSUME RacingInv, [Next]_vars
    PROVE  \/ UNCHANGED <<inv, seq>>
           \/ \E i \in Invoices, row \in Row : Effect(i, row)
  <1>1. ASSUME NEW i \in Invoices, NEW d \in Discounts, NEW r \in Rates,
               CreateInvoice(i, d, r)
        PROVE  \E row \in Row : Effect(i, row)
    <2> DEFINE first == [NoRow EXCEPT !.status = "draft", !.discount = d, !.rate = r]
               row == Recalculated(first, {})
    <2>1. first \in Row
      <3>1. NoRow \in Row
        BY RatesAreNat DEF NoRow, Row, Statuses
      <3>2. QED
        BY <3>1, EditedRow
    <2>2. row \in Row /\ row = [first EXCEPT !.total = row.total]
      BY <2>1, RecalculatedRow
    <2>3. first.number = 0 /\ first.paid = 0
      BY DEF NoRow
    <2>4. row.number = 0 /\ row.paid = 0
      BY <2>1, <2>2, <2>3 DEF Row
    <2>5. inv' = [inv EXCEPT ![i] = row] /\ seq' = seq /\ inv[i].paid \in Nat
      BY <1>1 DEF CreateInvoice, RacingInv, LockInv, TypeInv, TypeOK, Row
    <2> HIDE DEF row
    <2>6. Effect(i, row)
      BY <2>4, <2>5 DEF Effect, Blank
    <2>7. QED
      BY <2>2, <2>6
  <1>2. ASSUME NEW w \in Workers, Begin(w) \/ SumLines(w) \/ Rollback(w)
        PROVE  UNCHANGED <<inv, seq>>
    BY <1>2 DEF Begin, BeginDraftEdit, LockInvoice, SumLines, Rollback
  <1>3. ASSUME NEW w \in Workers, Commit(w)
        PROVE  \E i \in Invoices, row \in Row : Effect(i, row)
    BY <1>3, DraftEditEffect, LockedEffect DEF Commit
  <1>4. CASE UNCHANGED vars
    BY <1>4 DEF vars
  <1>5. QED
    BY <1>1, <1>2, <1>3, <1>4 DEF Next

(* The copies of draft edits are blank drafts: they are taken of one.       *)
LEMMA CopiesStayBlank ==
    ASSUME RacingInv, [Next]_vars
    PROVE  \A v \in Workers : req'[v].op \in DraftEdits =>
               req'[v].snap.status = "draft" /\ Blank(req'[v].snap)
  <1> DEFINE Copy(q) == q.op \in DraftEdits => q.snap.status = "draft" /\ Blank(q.snap)
  <1>1. /\ \A v \in Workers : req[v] \in Request /\ Copy(req[v])
        /\ req \in [Workers -> Request] /\ \A i \in Invoices : Blank(inv[i])
    BY DEF RacingInv, DraftsBlank, LockInv, TypeInv, TypeOK
  <1>2. Copy(Idle)
    BY DEF Idle, DraftEdits
  <1> SUFFICES \A v \in Workers : Copy(req'[v])
    OBVIOUS
  <1>3. ASSUME NEW w \in Workers, Finish(w) PROVE \A v \in Workers : Copy(req'[v])
    <2>1. \A v \in Workers : req'[v] = IF v = w THEN Idle ELSE req[v]
      BY <1>1, <1>3 DEF Finish
    <2> HIDE DEF Copy
    <2>2. QED
      BY <1>1, <1>2, <2>1
  <1>4. ASSUME NEW w \in Workers, NEW i \in Invoices, NEW op \in DraftEdits,
               NEW l \in Lines \cup {NoLine}, BeginDraftEdit(w, i, op, l)
        PROVE  \A v \in Workers : Copy(req'[v])
    <2> DEFINE new == [op |-> op, phase |-> "loaded", inv |-> i, snap |-> inv[i],
                       line |-> l, seen |-> {}]
    <2>1. req' = [req EXCEPT ![w] = new] /\ inv[i].status = "draft"
      BY <1>4 DEF BeginDraftEdit, RequireDraft
    <2>2. Copy(new)
      BY <1>1, <2>1
    <2>3. \A v \in Workers : req'[v] = IF v = w THEN new ELSE req[v]
      BY <1>1, <2>1
    <2> HIDE DEF Copy, new
    <2>4. QED
      BY <1>1, <2>2, <2>3
  <1>5. ASSUME NEW w \in Workers, NEW i \in Invoices, NEW op \in LockedOps,
               LockInvoice(w, i, op)
        PROVE  \A v \in Workers : Copy(req'[v])
    <2> DEFINE new == [op |-> op, phase |-> "locked", inv |-> i, snap |-> inv[i],
                       line |-> NoLine, seen |-> {}]
    <2>1. req' = [req EXCEPT ![w] = new]
      BY <1>5 DEF LockInvoice
    <2>2. Copy(new)
      BY DEF LockedOps, DraftEdits
    <2>3. \A v \in Workers : req'[v] = IF v = w THEN new ELSE req[v]
      BY <1>1, <2>1
    <2> HIDE DEF Copy, new
    <2>4. QED
      BY <1>1, <2>2, <2>3
  <1>6. ASSUME NEW w \in Workers, SumLines(w) PROVE \A v \in Workers : Copy(req'[v])
    <2> DEFINE new == [req[w] EXCEPT !.phase = "summed", !.seen = LinesSeen(req[w])]
    <2>1. req' = [req EXCEPT ![w] = new]
      BY <1>6 DEF SumLines
    <2>2. new.op = req[w].op /\ new.snap = req[w].snap
      BY <1>1 DEF Request
    <2>3. \A v \in Workers : req'[v] = IF v = w THEN new ELSE req[v]
      BY <1>1, <2>1
    <2> HIDE DEF new
    <2>4. QED
      BY <1>1, <2>2, <2>3
  <1>7. ASSUME NEW i \in Invoices, NEW d \in Discounts, NEW r \in Rates,
               CreateInvoice(i, d, r)
        PROVE  \A v \in Workers : Copy(req'[v])
    BY <1>1, <1>7 DEF CreateInvoice
  <1>8. CASE UNCHANGED vars
    BY <1>1, <1>8 DEF vars
  <1>9. ASSUME NEW w \in Workers, Commit(w) \/ Rollback(w) PROVE Finish(w)
    BY <1>9 DEF Commit, Rollback, AddLine, RemoveLine, UpdateInvoice, CancelInvoice,
       IssueInvoice, RecordPayment, ReversePayment, IssueCreditNote
  <1> HIDE DEF Copy
  <1>10. QED
    BY <1>3, <1>4, <1>5, <1>6, <1>7, <1>8, <1>9 DEF Next, Begin

(* The inductive invariant holds at the start.                              *)
LEMMA InitRacingInv == Init => RacingInv
  BY InitLockInv
  DEF Init, RacingInv, DraftsBlank, NumbersUnique, Blank, NoRow, Idle, DraftEdits

(* Every step of a request keeps it.                                        *)
LEMMA NextRacingInv == RacingInv /\ [Next]_vars => RacingInv'
  <1> SUFFICES ASSUME RacingInv, [Next]_vars PROVE RacingInv'
    OBVIOUS
  <1>1. LockInv'
    BY NextLockInv DEF RacingInv
  <1>2. NumbersUnique' /\ \A i \in Invoices : Blank(inv'[i])
    <2>1. CASE UNCHANGED <<inv, seq>>
      BY <2>1 DEF RacingInv, NumbersUnique, DraftsBlank
    <2>2. ASSUME NEW i \in Invoices, NEW row \in Row, Effect(i, row)
          PROVE  NumbersUnique' /\ \A j \in Invoices : Blank(inv'[j])
      BY <2>2, EffectKeepsNumbers
    <2>3. QED
      BY <2>1, <2>2, StepEffect
  <1>3. DraftsBlank'
    BY <1>2, CopiesStayBlank DEF DraftsBlank, Blank
  <1>4. QED
    BY <1>1, <1>2, <1>3 DEF RacingInv

(* However many clerks edit, cancel and issue the same draft at once, no    *)
(* two invoices ever carry the same number (next_number, update_invoice).   *)
THEOREM NumbersStayUnique == Spec => []NumbersUnique
  <1>1. RacingInv => NumbersUnique
    BY DEF RacingInv
  <1>2. QED
    BY <1>1, InitRacingInv, NextRacingInv, PTL DEF Spec

(* Nor is money ever taken beyond the open balance of an invoice, in every  *)
(* interleaving of payments, credit notes and stale draft saves             *)
(* (record_payment under its lock).                                         *)
THEOREM CollectsWithinBalance == Spec => NeverOverCollects
  <1> DEFINE Within ==
        \A i \in Invoices : inv'[i].paid > inv[i].paid =>
            /\ inv[i].status \in OpenStatuses
            /\ inv'[i].paid <= inv'[i].total - credited'[i]
  <1>1. RacingInv /\ [Next]_vars => [Within]_vars
    <2> SUFFICES ASSUME RacingInv, [Next]_vars PROVE Within
      OBVIOUS
    <2>1. inv \in [Invoices -> Row] /\ \A i \in Invoices : inv[i].paid \in Nat
      BY DEF RacingInv, LockInv, TypeInv, TypeOK, Row
    <2>2. CASE UNCHANGED <<inv, seq>>
      BY <2>1, <2>2
    <2>3. ASSUME NEW i \in Invoices, NEW row \in Row, Effect(i, row) PROVE Within
      <3>1. \A j \in Invoices : inv'[j] = IF j = i THEN row ELSE inv[j]
        BY <2>1, <2>3 DEF Effect
      <3>2. QED
        BY <2>1, <2>3, <3>1 DEF Effect
    <2>4. QED
      BY <2>2, <2>3, StepEffect
  <1>2. QED
    BY <1>1, InitRacingInv, NextRacingInv, PTL DEF Spec, NeverOverCollects

-----------------------------------------------------------------------------
(* What the ledger rows of an invoice add up to, and how a payment and a    *)
(* reversal move it.                                                        *)
LEMMA LedgerSum ==
    ASSUME TypeOK
    PROVE  /\ received \in [Invoices -> Int]
           /\ Kept \in [PaymentIds -> Int]
           /\ \A i \in Invoices : IsFiniteSet(PaymentsOf(i))
  <1>1. Kept \in [PaymentIds -> Int]
    BY DEF TypeOK, Kept
  <1>2. \A i \in Invoices : IsFiniteSet(PaymentsOf(i))
    BY LedgerAssumption, FS_Subset DEF PaymentsOf
  <1>3. ASSUME NEW i \in Invoices
        PROVE  SumFunctionOnSet(Kept, PaymentsOf(i)) \in Int
    <2>1. \A p \in PaymentsOf(i) : Kept[p] \in Int
      BY <1>1 DEF PaymentsOf
    <2>2. QED
      BY <1>2, <2>1, SumRemove
  <1>4. QED
    BY <1>1, <1>2, <1>3 DEF received

(* A ledger starts without payments, so nothing was received.               *)
LEMMA InitLedgerSum ==
    ASSUME Init
    PROVE  \A i \in Invoices : received[i] = 0
  <1>1. \A i \in Invoices : PaymentsOf(i) = {}
    BY LedgerAssumption DEF Init, NoPayment, PaymentsOf
  <1>2. QED
    BY <1>1, SumEmpty DEF received

(* What was received depends only on the payments and their reversals.      *)
LEMMA SamePayments ==
    ASSUME UNCHANGED pay
    PROVE  UNCHANGED received
  BY DEF received, Kept, PaymentsOf

(* A payment row adds its amount to what was received.                      *)
LEMMA PaymentMovesSum ==
    ASSUME TypeOK, TypeOK', NEW w \in Workers, NEW p \in PaymentIds, NEW a \in Amounts,
           RecordPayment(w, p, a), NEW i \in Invoices, req[w].inv = i
    PROVE  received' = [received EXCEPT ![i] = @ + a]
  <1>1. /\ pay' = [pay EXCEPT ![p] = [invoice |-> i, amount |-> a, reversed |-> 0]]
        /\ pay[p].invoice = NoInvoice
        /\ pay \in [PaymentIds -> [invoice : Invoices \cup {NoInvoice},
                                   amount : Nat, reversed : Nat]]
        /\ a \in Nat /\ NoInvoice \notin Invoices
    BY LedgerAssumption DEF RecordPayment, NoPayment, TypeOK
  <1>2. /\ Kept'[p] = a
        /\ \A q \in PaymentIds : q # p => Kept'[q] = Kept[q]
    BY <1>1 DEF Kept
  <1>3. /\ p \notin PaymentsOf(i)
        /\ PaymentsOf(i)' = PaymentsOf(i) \cup {p}
        /\ \A j \in Invoices : p \notin PaymentsOf(j)
                               /\ (j # i => PaymentsOf(j)' = PaymentsOf(j))
    <2>1. pay'[p].invoice = i /\ \A q \in PaymentIds : q # p => pay'[q] = pay[q]
      BY <1>1
    <2>2. \A j \in Invoices : p \notin PaymentsOf(j)
      BY <1>1 DEF PaymentsOf
    <2>3. \A j \in Invoices : j # i => PaymentsOf(j)' = PaymentsOf(j)
      BY <2>1, <2>2 DEF PaymentsOf
    <2>4. PaymentsOf(i)' = PaymentsOf(i) \cup {p}
      BY <2>1 DEF PaymentsOf
    <2>5. QED
      BY <2>2, <2>3, <2>4
  <1>4. /\ Kept \in [PaymentIds -> Int] /\ Kept' \in [PaymentIds -> Int]
        /\ received \in [Invoices -> Int]
        /\ \A j \in Invoices : IsFiniteSet(PaymentsOf(j)) /\ PaymentsOf(j) \subseteq PaymentIds
    BY LedgerSum DEF PaymentsOf, TypeOK, Kept
  <1>5. ASSUME NEW j \in Invoices
        PROVE  SumFunctionOnSet(Kept', PaymentsOf(j)) = SumFunctionOnSet(Kept, PaymentsOf(j))
    <2>1. \A q \in PaymentsOf(j) : Kept'[q] = Kept[q]
      BY <1>2, <1>3, <1>4
    <2>2. QED
      BY <1>4, <2>1, SumSame
  <1>6. SumFunctionOnSet(Kept', PaymentsOf(i) \cup {p})
           = a + SumFunctionOnSet(Kept', PaymentsOf(i))
    <2>1. \A q \in PaymentsOf(i) \cup {p} : Kept'[q] \in Int
      BY <1>4
    <2>2. QED
      BY <1>2, <1>3, <1>4, <2>1, SumAdd
  <1>7. \A j \in Invoices : received'[j] = IF j = i THEN received[j] + a ELSE received[j]
    <2>1. received'[i] = a + received[i]
      BY <1>3, <1>5, <1>6 DEF received
    <2>2. ASSUME NEW j \in Invoices, j # i
          PROVE  received'[j] = received[j]
      <3>1. PaymentsOf(j)' = PaymentsOf(j)
        BY <1>3, <2>2
      <3>2. QED
        BY <1>5, <3>1 DEF received
    <2>3. received[i] \in Int
      BY <1>4
    <2>4. QED
      BY <1>1, <2>1, <2>2, <2>3
  <1>8. received' = [j \in Invoices |-> received'[j]]
    BY DEF received
  <1>9. QED
    BY <1>4, <1>7, <1>8

(* A reversal takes its amount from what was received.                      *)
LEMMA ReversalMovesSum ==
    ASSUME TypeOK, TypeOK', NEW w \in Workers, NEW p \in PaymentIds, NEW a \in Amounts,
           ReversePayment(w, p, a), NEW i \in Invoices, req[w].inv = i
    PROVE  received' = [received EXCEPT ![i] = @ - a]
  <1>1. /\ pay' = [pay EXCEPT ![p].reversed = @ + a]
        /\ pay[p].invoice = i
        /\ pay \in [PaymentIds -> [invoice : Invoices \cup {NoInvoice},
                                   amount : Nat, reversed : Nat]]
        /\ a \in Nat
    BY LedgerAssumption DEF ReversePayment, TypeOK
  <1>2. /\ Kept'[p] = Kept[p] - a
        /\ \A q \in PaymentIds : q # p => Kept'[q] = Kept[q]
    BY <1>1 DEF Kept
  <1>3. p \in PaymentsOf(i) /\ \A j \in Invoices : PaymentsOf(j)' = PaymentsOf(j)
    BY <1>1 DEF PaymentsOf
  <1>4. /\ Kept \in [PaymentIds -> Int] /\ Kept' \in [PaymentIds -> Int]
        /\ received \in [Invoices -> Int]
        /\ \A j \in Invoices : IsFiniteSet(PaymentsOf(j)) /\ PaymentsOf(j) \subseteq PaymentIds
    BY LedgerSum DEF PaymentsOf, TypeOK, Kept
  <1>5. received'[i] = received[i] + (Kept'[p] - Kept[p])
    <2>1. \A q \in PaymentsOf(i) : Kept[q] \in Int /\ Kept'[q] \in Int
      BY <1>4
    <2>2. \A q \in PaymentsOf(i) : q # p => Kept'[q] = Kept[q]
      BY <1>2, <1>4
    <2>3. QED
      BY <1>3, <1>4, <2>1, <2>2, SumOneChanged DEF received
  <1>6. ASSUME NEW j \in Invoices, j # i
        PROVE  received'[j] = received[j]
    <2>1. \A q \in PaymentsOf(j) : Kept'[q] = Kept[q]
      BY <1>1, <1>2, <1>4, <1>6 DEF PaymentsOf
    <2>2. QED
      BY <1>3, <1>4, <2>1, SumSame DEF received
  <1>7. received'[i] = received[i] - a
    <2>1. Kept[p] \in Int /\ received[i] \in Int
      BY <1>4
    <2>2. a \in Int
      BY <1>1
    <2>3. received'[i] = received[i] + ((Kept[p] - a) - Kept[p])
      BY <1>2, <1>5
    <2>4. QED
      BY <2>1, <2>2, <2>3
  <1>8. received' = [j \in Invoices |-> received'[j]]
    BY DEF received
  <1>9. QED
    BY <1>4, <1>6, <1>7, <1>8

(* A recorded payment belongs to an invoice and has not been given back     *)
(* twice over.                                                              *)
PaymentsSound ==
    \A p \in PaymentIds :
        /\ pay[p].reversed <= pay[p].amount
        /\ pay[p] = NoPayment \/ pay[p].invoice \in Invoices

(* Every step keeps the payments sound.                                     *)
LEMMA NextPaymentsSound == LockInv /\ PaymentsSound /\ [Next]_vars => PaymentsSound'
  <1> SUFFICES ASSUME LockInv, PaymentsSound, [Next]_vars PROVE PaymentsSound'
    OBVIOUS
  <1>0. /\ TypeOK
        /\ \A w \in Workers : req[w].phase # "idle" => req[w].inv \in Invoices
        /\ \A a \in Amounts : a \in Nat
        /\ NoInvoice \notin Invoices
    BY LedgerAssumption DEF LockInv, TypeInv, RequestsWellFormed
  <1>1. CASE UNCHANGED pay
    BY <1>1 DEF PaymentsSound
  <1>2. ASSUME NEW w \in Workers, NEW p \in PaymentIds, NEW a \in Amounts,
               RecordPayment(w, p, a)
        PROVE  PaymentsSound'
    <2>1. /\ pay' = [pay EXCEPT ![p] = [invoice |-> req[w].inv, amount |-> a, reversed |-> 0]]
          /\ req[w].inv \in Invoices /\ a \in Nat
      BY <1>0, <1>2 DEF RecordPayment
    <2>2. pay'[p].reversed = 0 /\ pay'[p].amount = a /\ pay'[p].invoice \in Invoices
      BY <1>0, <2>1 DEF TypeOK
    <2>3. \A q \in PaymentIds : q # p => pay'[q] = pay[q]
      BY <1>0, <2>1 DEF TypeOK
    <2>4. QED
      BY <2>1, <2>2, <2>3 DEF PaymentsSound
  <1>3. ASSUME NEW w \in Workers, NEW p \in PaymentIds, NEW a \in Amounts,
               ReversePayment(w, p, a)
        PROVE  PaymentsSound'
    <2>1. /\ pay' = [pay EXCEPT ![p].reversed = @ + a]
          /\ pay[p].reversed + a <= pay[p].amount
          /\ pay[p].invoice = req[w].inv
          /\ req[w].phase = "locked"
      BY <1>3 DEF ReversePayment, Refundable
    <2>2. pay[p].invoice \in Invoices
      BY <1>0, <2>1
    <2>3. /\ pay'[p].reversed = pay[p].reversed + a /\ pay'[p].amount = pay[p].amount
          /\ pay'[p].invoice = pay[p].invoice
      <3>1. pay[p] \in [invoice : Invoices \cup {NoInvoice}, amount : Nat, reversed : Nat]
        BY <1>0 DEF TypeOK
      <3>2. pay'[p] = [pay[p] EXCEPT !.reversed = @ + a]
        BY <1>0, <2>1 DEF TypeOK
      <3>3. QED
        BY <3>1, <3>2
    <2>4. \A q \in PaymentIds : q # p => pay'[q] = pay[q]
      BY <1>0, <2>1 DEF TypeOK
    <2>5. QED
      BY <2>1, <2>2, <2>3, <2>4 DEF PaymentsSound
  <1>4. \/ UNCHANGED pay
        \/ \E w \in Workers, p \in PaymentIds, a \in Amounts :
               RecordPayment(w, p, a) \/ ReversePayment(w, p, a)
    BY DEF Next, vars, CreateInvoice, Begin, BeginDraftEdit, LockInvoice, SumLines, Commit,
           AddLine, RemoveLine, UpdateInvoice, CancelInvoice, IssueInvoice,
           IssueCreditNote, Rollback
  <1>5. QED
    BY <1>1, <1>2, <1>3, <1>4

(* Reversals racing on one payment never give back more than it was, for    *)
(* any number of workers (reverse_payment under the invoice's lock).        *)
THEOREM ReversalsWithinPayment == Spec => []PaymentsSound
  <1>1. Init => PaymentsSound
    BY DEF Init, PaymentsSound, NoPayment
  <1>2. QED
    BY <1>1, InitLockInv, NextLockInv, NextPaymentsSound, PTL DEF Spec
-----------------------------------------------------------------------------
(***************************************************************************)
(* What InvoiceLedger guarantees when no two clerks work on one draft       *)
(* (ADR-0032), with payments, reversals and credit notes racing freely.     *)
(*                                                                         *)
(* Every step is first classified by what it does to one invoice (Quiet,    *)
(* DraftStep, BillStep, CollectStep, GiveBackStep, WaiveStep); the books,   *)
(* the numbers and the refinement then follow from the class alone.         *)
(***************************************************************************)

(* The books of one invoice.                                                *)
SoundBooks(row, ls, waived, sum) ==
    /\ row.number = 0 => /\ row.status \in {"absent", "draft", "cancelled"}
                         /\ row.paid = 0
                         /\ waived = 0
                         /\ row.status = "absent" => ls = {}
    /\ row.number # 0 => /\ row.status \in IssuedStatuses \cup {"cancelled"}
                         /\ row.total > 0
                         /\ waived <= row.total
                         /\ row.status = "cancelled" <=> waived = row.total
                         /\ row.status = "unpaid" <=> (waived # row.total /\ row.paid = 0)
                         /\ row.status = "paid" <=>
                               (waived < row.total /\ row.paid >= row.total - waived)
    /\ row.paid = sum
    /\ row.status # "absent" =>
           row.total = InvoiceTotal(LineTotal[ls], row.discount, row.rate)

Sound == \A i \in Invoices : SoundBooks(inv[i], lines[i], credited[i], received[i])

ClerkInv == LockInv /\ DraftExclusive /\ DraftCopyIsCurrent /\ Sound

-----------------------------------------------------------------------------
(* What a step does to the tables.                                          *)
OnlyRow(i) == \A j \in Invoices : j # i => inv'[j] = inv[j]

Quiet == UNCHANGED <<inv, lines, credited, received, seq>>

DraftStep(i) ==
    /\ inv[i].status \in {"absent", "draft"}
    /\ OnlyRow(i)
    /\ \A j \in Invoices : j # i => lines'[j] = lines[j]
    /\ inv'[i].number = inv[i].number
    /\ inv'[i].paid = inv[i].paid
    /\ inv'[i].status \in {"draft", "cancelled"}
    /\ inv'[i].total = InvoiceTotal(LineTotal[lines'[i]], inv'[i].discount, inv'[i].rate)
    /\ UNCHANGED <<credited, received, seq>>

BillStep(i) ==
    /\ inv[i].status = "draft"
    /\ OnlyRow(i)
    /\ inv'[i].number = seq + 1
    /\ inv'[i].paid = inv[i].paid
    /\ inv'[i].status = "unpaid"
    /\ inv'[i].total > 0
    /\ inv'[i].total = InvoiceTotal(LineTotal[lines[i]], inv'[i].discount, inv'[i].rate)
    /\ seq' = seq + 1
    /\ UNCHANGED <<lines, credited, received>>

(* amount_paid moves by a, in cents, and the status is derived again.       *)
MovesPaid(i, a) ==
    /\ OnlyRow(i)
    /\ \A c \in {"number", "discount", "rate", "total"} : inv'[i][c] = inv[i][c]
    /\ inv'[i].paid = inv[i].paid + a
    /\ inv'[i].status = AppliedStatus([inv[i] EXCEPT !.paid = @ + a], credited[i])
    /\ received' = [received EXCEPT ![i] = @ + a]
    /\ UNCHANGED <<lines, credited, seq>>

CollectStep(i, a) ==
    /\ inv[i].status \in OpenStatuses
    /\ a > 0
    /\ a <= inv[i].total - credited[i] - inv[i].paid
    /\ MovesPaid(i, a)

GiveBackStep(i, a) ==
    /\ a > 0
    /\ a <= inv[i].paid
    /\ MovesPaid(i, 0 - a)

WaiveStep(i, a) ==
    /\ inv[i].status \in IssuedStatuses
    /\ a > 0
    /\ credited[i] + a <= inv[i].total
    /\ OnlyRow(i)
    /\ \A c \in {"number", "discount", "rate", "total", "paid"} : inv'[i][c] = inv[i][c]
    /\ inv'[i].status = IF credited[i] + a >= inv[i].total THEN "cancelled"
                        ELSE AppliedStatus(inv[i], credited[i] + a)
    /\ credited' = [credited EXCEPT ![i] = @ + a]
    /\ UNCHANGED <<lines, received, seq>>

Classified ==
    \/ Quiet
    \/ \E i \in Invoices :
        \/ DraftStep(i)
        \/ BillStep(i)
        \/ \E a \in Amounts : CollectStep(i, a) \/ GiveBackStep(i, a) \/ WaiveStep(i, a)

-----------------------------------------------------------------------------
(* The types the proofs below use, in one place.                            *)
LEMMA Types ==
    ASSUME LockInv
    PROVE  /\ inv \in [Invoices -> Row]
           /\ lines \in [Invoices -> SUBSET Lines]
           /\ credited \in [Invoices -> Nat]
           /\ received \in [Invoices -> Int]
           /\ seq \in Nat
           /\ req \in [Workers -> Request]
           /\ \A w \in Workers :
                 /\ req[w].phase # "idle" => req[w].inv \in Invoices
                 /\ req[w].op \in DraftEdits \cup LockedOps => req[w].phase # "idle"
                 /\ req[w].phase = "locked" => req[w].snap = inv[req[w].inv]
  <1>1. TypeOK /\ RequestsWellFormed /\ LockedCopyIsCurrent
    BY DEF LockInv, TypeInv
  <1>2. \A w \in Workers : req[w].op \in DraftEdits \cup LockedOps => req[w].phase # "idle"
    BY <1>1 DEF RequestsWellFormed, DraftEdits, LockedOps
  <1>3. QED
    BY <1>1, <1>2, LedgerSum DEF TypeOK, RequestsWellFormed, LockedCopyIsCurrent

(* The columns of a row have their types.                                   *)
LEMMA Columns ==
    ASSUME NEW row \in Row
    PROVE  /\ row.status \in Statuses /\ row.number \in Nat /\ row.discount \in Nat
           /\ row.rate \in TaxRates /\ row.total \in Nat /\ row.paid \in Nat
  BY DEF Row

(* A draft has no number.                                                   *)
LEMMA DraftUnnumbered ==
    ASSUME Sound, NEW i \in Invoices, inv[i].status \in {"absent", "draft"}
    PROVE  inv[i].number = 0
  BY DEF Sound, SoundBooks, IssuedStatuses, OpenStatuses

(* A recalculation of a row, column by column.                              *)
LEMMA RecalculatedColumns ==
    ASSUME NEW row \in Row, NEW S \in SUBSET Lines
    PROVE  LET new == Recalculated(row, S) IN
           /\ new.total = InvoiceTotal(LineTotal[S], row.discount, row.rate)
           /\ \A c \in {"status", "number", "discount", "rate", "paid"} : new[c] = row[c]
  BY DEF Recalculated, Row

-----------------------------------------------------------------------------
(* Every step of the ledger has a class.                                    *)
LEMMA StepIsClassified == ClerkInv /\ [Next]_vars => Classified
  <1> SUFFICES ASSUME ClerkInv, [Next]_vars PROVE Classified
    OBVIOUS
  <1>0. /\ inv \in [Invoices -> Row]
        /\ lines \in [Invoices -> SUBSET Lines]
        /\ credited \in [Invoices -> Nat]
        /\ received \in [Invoices -> Int]
        /\ seq \in Nat
        /\ req \in [Workers -> Request]
        /\ \A w \in Workers :
              /\ req[w].phase # "idle" => req[w].inv \in Invoices
              /\ req[w].op \in DraftEdits \cup LockedOps => req[w].phase # "idle"
              /\ req[w].phase = "locked" => req[w].snap = inv[req[w].inv]
    BY Types DEF ClerkInv
  <1>t. TypeOK /\ TypeOK'
    BY NextLockInv DEF ClerkInv, LockInv, TypeInv
  <1>s. Sound /\ DraftCopyIsCurrent
    BY DEF ClerkInv
  <1>a. \A a \in Amounts : a \in Nat /\ a > 0
    BY LedgerAssumption
  <1>1. ASSUME NEW i \in Invoices, NEW d \in Discounts, NEW r \in Rates,
               CreateInvoice(i, d, r)
        PROVE  DraftStep(i)
    <2> DEFINE blank == [NoRow EXCEPT !.status = "draft", !.discount = d, !.rate = r]
    <2>1. NoRow \in Row
      BY LedgerAssumption, RatesAreNat DEF NoRow, Row, Statuses
    <2>2. blank \in Row
      BY <2>1, EditedRow
    <2>3. /\ blank.status = "draft" /\ blank.number = 0 /\ blank.paid = 0
      BY DEF NoRow
    <2>4. inv[i].number = 0 /\ inv[i].paid = 0 /\ lines[i] = {} /\ inv[i].status = "absent"
      BY <1>1, <1>s DEF CreateInvoice, Sound, SoundBooks, IssuedStatuses, OpenStatuses
    <2> HIDE DEF blank
    <2>5. inv' = [inv EXCEPT ![i] = Recalculated(blank, {})]
      BY <1>1 DEF CreateInvoice, blank
    <2>6. inv'[i] = Recalculated(blank, {})
      BY <1>0, <2>5
    <2>7. UNCHANGED <<lines, credited, received, seq>>
      BY <1>1, SamePayments DEF CreateInvoice
    <2>8. /\ inv'[i].total = InvoiceTotal(LineTotal[{}], inv'[i].discount, inv'[i].rate)
          /\ inv'[i].status = "draft" /\ inv'[i].number = 0 /\ inv'[i].paid = 0
      BY <2>2, <2>3, <2>6, RecalculatedColumns
    <2>9. QED
      BY <1>0, <2>4, <2>5, <2>7, <2>8 DEF DraftStep, OnlyRow
  <1>2. ASSUME NEW w \in Workers, AddLine(w) \/ RemoveLine(w)
        PROVE  DraftStep(req[w].inv)
    <2>1. /\ req[w].phase = "summed" /\ req[w].op \in {"add_line", "remove_line"}
          /\ inv' = [inv EXCEPT ![req[w].inv] = SavedTotals(w)]
          /\ UNCHANGED <<credited, received, seq>>
      BY <1>2, SamePayments DEF AddLine, RemoveLine
    <2>2. /\ req[w].op \in DraftEdits /\ req[w].inv \in Invoices
          /\ req[w].snap = inv[req[w].inv] /\ req[w].snap.status = "draft"
      BY <1>0, <1>s, <2>1 DEF DraftEdits, DraftCopyIsCurrent
    <2>3. /\ lines'[req[w].inv] = req[w].seen
          /\ \A j \in Invoices : j # req[w].inv => lines'[j] = lines[j]
      BY <1>0, <1>2, <1>s, <2>1, <2>2 DEF AddLine, RemoveLine, DraftCopyIsCurrent
    <2>4. req[w].snap \in Row /\ req[w].seen \in SUBSET Lines
      BY <1>0 DEF Request
    <2>5. /\ Recalculated(req[w].snap, req[w].seen).discount = req[w].snap.discount
          /\ Recalculated(req[w].snap, req[w].seen).total =
                InvoiceTotal(LineTotal[req[w].seen], req[w].snap.discount, req[w].snap.rate)
      BY <2>4, RecalculatedColumns
    <2>6. inv'[req[w].inv] =
             [inv[req[w].inv] EXCEPT
                !.discount = req[w].snap.discount,
                !.total = InvoiceTotal(LineTotal[req[w].seen], req[w].snap.discount,
                                       req[w].snap.rate)]
      BY <1>0, <2>1, <2>2, <2>5 DEF SavedTotals
    <2>7. LET new == inv'[req[w].inv] IN
          /\ new.total = InvoiceTotal(LineTotal[req[w].seen], new.discount, new.rate)
          /\ new.status = "draft" /\ new.number = inv[req[w].inv].number
          /\ new.paid = inv[req[w].inv].paid
      BY <1>0, <2>2, <2>6 DEF Row
    <2>8. OnlyRow(req[w].inv)
      BY <1>0, <2>1 DEF OnlyRow
    <2>9. QED
      BY <2>1, <2>2, <2>3, <2>7, <2>8 DEF DraftStep
  <1>3. ASSUME NEW w \in Workers, NEW d \in Discounts, NEW r \in Rates,
               UpdateInvoice(w, d, r)
        PROVE  DraftStep(req[w].inv)
    <2> DEFINE edited == [req[w].snap EXCEPT !.discount = d, !.rate = r]
    <2>1. /\ req[w].inv \in Invoices /\ req[w].op \in DraftEdits
          /\ req[w].snap = inv[req[w].inv] /\ req[w].snap.status = "draft"
      BY <1>0, <1>3, <1>s DEF UpdateInvoice, DraftEdits, DraftCopyIsCurrent
    <2>2. edited \in Row /\ edited.status = "draft"
          /\ edited.number = inv[req[w].inv].number /\ edited.paid = inv[req[w].inv].paid
      <3>1. req[w].snap \in Row
        BY <1>0 DEF Request
      <3>2. edited \in Row
        BY <3>1, EditedRow
      <3>3. QED
        BY <2>1, <3>1, <3>2 DEF Row
    <2>3. /\ inv' = [inv EXCEPT ![req[w].inv] = Recalculated(edited, lines[req[w].inv])]
          /\ UNCHANGED <<lines, credited, received, seq>>
      BY <1>3, SamePayments DEF UpdateInvoice
    <2> HIDE DEF edited
    <2>4. lines[req[w].inv] \in SUBSET Lines
      BY <1>0, <2>1
    <2>5. LET new == Recalculated(edited, lines[req[w].inv]) IN
          /\ new.total = InvoiceTotal(LineTotal[lines[req[w].inv]], new.discount, new.rate)
          /\ new.status = "draft" /\ new.number = inv[req[w].inv].number
          /\ new.paid = inv[req[w].inv].paid
      BY <2>2, <2>4, RecalculatedColumns
    <2>6. inv'[req[w].inv] = Recalculated(edited, lines[req[w].inv]) /\ OnlyRow(req[w].inv)
      BY <1>0, <2>1, <2>3 DEF OnlyRow
    <2>7. QED
      BY <2>1, <2>3, <2>5, <2>6 DEF DraftStep
  <1>4. ASSUME NEW w \in Workers, CancelInvoice(w)
        PROVE  DraftStep(req[w].inv)
    <2>1. /\ req[w].inv \in Invoices /\ req[w].op \in DraftEdits
          /\ inv[req[w].inv].status = "draft"
      BY <1>0, <1>4, <1>s DEF CancelInvoice, DraftEdits, DraftCopyIsCurrent
    <2>2. /\ inv' = [inv EXCEPT ![req[w].inv] = [@ EXCEPT !.status = "cancelled"]]
          /\ UNCHANGED <<lines, credited, received, seq>>
      BY <1>4, SamePayments DEF CancelInvoice
    <2>3. inv'[req[w].inv] = [inv[req[w].inv] EXCEPT !.status = "cancelled"]
          /\ OnlyRow(req[w].inv)
      BY <1>0, <2>1, <2>2 DEF OnlyRow
    <2>4. LET new == inv'[req[w].inv] IN
          /\ new.status = "cancelled" /\ new.number = inv[req[w].inv].number
          /\ new.paid = inv[req[w].inv].paid /\ new.total = inv[req[w].inv].total
          /\ new.discount = inv[req[w].inv].discount /\ new.rate = inv[req[w].inv].rate
      BY <1>0, <2>1, <2>3 DEF Row
    <2>5. inv[req[w].inv].total = InvoiceTotal(LineTotal[lines[req[w].inv]],
             inv[req[w].inv].discount, inv[req[w].inv].rate)
      BY <1>s, <2>1 DEF Sound, SoundBooks
    <2>6. QED
      BY <2>1, <2>2, <2>3, <2>4, <2>5 DEF DraftStep
  <1>5. ASSUME NEW w \in Workers, IssueInvoice(w)
        PROVE  BillStep(req[w].inv)
    <2> DEFINE fresh == Recalculated(req[w].snap, lines[req[w].inv])
    <2>1. /\ req[w].inv \in Invoices /\ req[w].snap = inv[req[w].inv]
          /\ req[w].snap.status = "draft"
      BY <1>0, <1>5 DEF IssueInvoice, RequireDraft
    <2>2. /\ inv' = [inv EXCEPT ![req[w].inv] =
                       [@ EXCEPT !.discount = fresh.discount, !.total = fresh.total,
                                 !.number = seq + 1, !.status = "unpaid"]]
          /\ seq' = seq + 1 /\ fresh.total > 0
          /\ UNCHANGED <<lines, credited, received>>
      BY <1>5, SamePayments DEF IssueInvoice, NextNumber
    <2>3. inv[req[w].inv] \in Row /\ lines[req[w].inv] \in SUBSET Lines
      BY <1>0, <2>1
    <2>4. /\ fresh.discount = inv[req[w].inv].discount
          /\ fresh.total = InvoiceTotal(LineTotal[lines[req[w].inv]],
                              inv[req[w].inv].discount, inv[req[w].inv].rate)
      BY <2>1, <2>3, RecalculatedColumns
    <2> HIDE DEF fresh
    <2>5. /\ inv'[req[w].inv] = [inv[req[w].inv] EXCEPT
                !.discount = fresh.discount, !.total = fresh.total,
                !.number = seq + 1, !.status = "unpaid"]
          /\ OnlyRow(req[w].inv)
      BY <1>0, <2>1, <2>2 DEF OnlyRow
    <2>6. LET new == inv'[req[w].inv] IN
          /\ new.status = "unpaid" /\ new.number = seq + 1
          /\ new.paid = inv[req[w].inv].paid /\ new.total = fresh.total
          /\ new.discount = fresh.discount /\ new.rate = inv[req[w].inv].rate
      BY <2>3, <2>5 DEF Row
    <2>7. QED
      BY <2>1, <2>2, <2>4, <2>5, <2>6 DEF BillStep
  <1>6. ASSUME NEW w \in Workers, NEW p \in PaymentIds, NEW a \in Amounts,
               RecordPayment(w, p, a)
        PROVE  CollectStep(req[w].inv, a)
    <2> DEFINE row == [inv[req[w].inv] EXCEPT !.paid = @ + a]
    <2>1. /\ req[w].inv \in Invoices /\ req[w].snap = inv[req[w].inv]
          /\ req[w].snap.status \in OpenStatuses
          /\ a <= inv[req[w].inv].total - credited[req[w].inv] - inv[req[w].inv].paid
      BY <1>0, <1>6 DEF RecordPayment, Outstanding
    <2>2. /\ inv' = [inv EXCEPT ![req[w].inv] =
                       [row EXCEPT !.status = AppliedStatus(row, credited[req[w].inv])]]
          /\ received' = [received EXCEPT ![req[w].inv] = @ + a]
          /\ UNCHANGED <<lines, credited, seq>>
      BY <1>t, <1>6, <2>1, PaymentMovesSum DEF RecordPayment
    <2>3. inv[req[w].inv] \in Row
      BY <1>0, <2>1
    <2>4. /\ inv'[req[w].inv] = [row EXCEPT !.status = AppliedStatus(row, credited[req[w].inv])]
          /\ OnlyRow(req[w].inv)
      BY <1>0, <2>1, <2>2 DEF OnlyRow
    <2>5. LET new == inv'[req[w].inv] IN
          /\ \A c \in {"number", "discount", "rate", "total"} : new[c] = inv[req[w].inv][c]
          /\ new.paid = inv[req[w].inv].paid + a
          /\ new.status = AppliedStatus(row, credited[req[w].inv])
      BY <2>3, <2>4 DEF Row
    <2>6. QED
      BY <1>a, <2>1, <2>2, <2>4, <2>5 DEF CollectStep, MovesPaid
  <1>7. ASSUME NEW w \in Workers, NEW p \in PaymentIds, NEW a \in Amounts,
               ReversePayment(w, p, a)
        PROVE  GiveBackStep(req[w].inv, a)
    <2> DEFINE row == [inv[req[w].inv] EXCEPT !.paid = @ - a]
    <2>1. req[w].inv \in Invoices /\ ChecksHold(row)
      BY <1>0, <1>7 DEF ReversePayment, ReversedRow
    <2>2. /\ inv' = [inv EXCEPT ![req[w].inv] =
                       [row EXCEPT !.status = AppliedStatus(row, credited[req[w].inv])]]
          /\ received' = [received EXCEPT ![req[w].inv] = @ - a]
          /\ UNCHANGED <<lines, credited, seq>>
      BY <1>t, <1>7, <2>1, ReversalMovesSum DEF ReversePayment, ReversedRow
    <2>3. inv[req[w].inv] \in Row /\ inv[req[w].inv].paid \in Nat /\ a \in Nat
      BY <1>0, <1>a, <2>1, Columns
    <2>4. a <= inv[req[w].inv].paid
      BY <2>1, <2>3 DEF ChecksHold, Row
    <2>5. /\ inv'[req[w].inv] = [row EXCEPT !.status = AppliedStatus(row, credited[req[w].inv])]
          /\ OnlyRow(req[w].inv)
      BY <1>0, <2>1, <2>2 DEF OnlyRow
    <2>6. LET new == inv'[req[w].inv] IN
          /\ \A c \in {"number", "discount", "rate", "total"} : new[c] = inv[req[w].inv][c]
          /\ new.paid = inv[req[w].inv].paid - a
          /\ new.status = AppliedStatus(row, credited[req[w].inv])
      BY <2>3, <2>5 DEF Row
    <2>7. row = [inv[req[w].inv] EXCEPT !.paid = @ + (0 - a)]
          /\ inv[req[w].inv].paid - a = inv[req[w].inv].paid + (0 - a)
      <3>1. inv[req[w].inv].paid - a = inv[req[w].inv].paid + (0 - a)
        BY <2>3
      <3>2. QED
        BY <3>1
    <2>8. received' = [received EXCEPT ![req[w].inv] = @ + (0 - a)]
      <3>1. received[req[w].inv] \in Int
        BY <1>0, <2>1
      <3>2. received[req[w].inv] - a = received[req[w].inv] + (0 - a)
        BY <2>3, <3>1
      <3>3. QED
        BY <2>2, <3>2
    <2> HIDE DEF row
    <2>9. QED
      BY <1>a, <2>2, <2>4, <2>5, <2>6, <2>7, <2>8 DEF GiveBackStep, MovesPaid
  <1>8. ASSUME NEW w \in Workers, NEW a \in Amounts, IssueCreditNote(w, a)
        PROVE  WaiveStep(req[w].inv, a)
    <2> DEFINE s == IF credited[req[w].inv] + a >= inv[req[w].inv].total THEN "cancelled"
                    ELSE AppliedStatus(inv[req[w].inv], credited[req[w].inv] + a)
    <2>1. /\ req[w].inv \in Invoices /\ req[w].snap = inv[req[w].inv]
          /\ req[w].snap.status \in IssuedStatuses
          /\ credited[req[w].inv] + a <= req[w].snap.total
      BY <1>0, <1>8 DEF IssueCreditNote
    <2>2. /\ inv' = [inv EXCEPT ![req[w].inv] = [@ EXCEPT !.status = s]]
          /\ credited' = [credited EXCEPT ![req[w].inv] = @ + a]
          /\ UNCHANGED <<lines, received, seq>>
      BY <1>0, <1>8, <2>1, SamePayments DEF IssueCreditNote
    <2>3. inv[req[w].inv] \in Row
      BY <1>0, <2>1
    <2>4. inv'[req[w].inv] = [inv[req[w].inv] EXCEPT !.status = s] /\ OnlyRow(req[w].inv)
      BY <1>0, <2>1, <2>2 DEF OnlyRow
    <2>5. LET new == inv'[req[w].inv] IN
          /\ \A c \in {"number", "discount", "rate", "total", "paid"} :
                new[c] = inv[req[w].inv][c]
          /\ new.status = s
      BY <2>3, <2>4 DEF Row
    <2>6. QED
      BY <1>a, <2>1, <2>2, <2>4, <2>5 DEF WaiveStep
  <1>9. ASSUME NEW w \in Workers, Begin(w) \/ SumLines(w) \/ Rollback(w)
        PROVE  Quiet
    BY <1>9, SamePayments DEF Begin, BeginDraftEdit, LockInvoice, SumLines, Rollback, Quiet
  <1>10. CASE UNCHANGED vars
    BY <1>10, SamePayments DEF vars, Classified, Quiet
  <1>11. ASSUME NEW w \in Workers, Commit(w)
         PROVE  req[w].inv \in Invoices
    <2>1. req[w].phase \in {"loaded", "summed", "locked"}
      BY <1>11, Zenon
      DEF Commit, AddLine, RemoveLine, UpdateInvoice, CancelInvoice, IssueInvoice,
          RecordPayment, ReversePayment, IssueCreditNote
    <2>2. QED
      BY <1>0, <2>1
  <1>12. QED
    BY <1>1, <1>2, <1>3, <1>4, <1>5, <1>6, <1>7, <1>8, <1>9, <1>10, <1>11
    DEF Next, Commit, Classified

-----------------------------------------------------------------------------
(* The derived status of an issued row, from what was paid and credited.    *)
LEMMA AppliedStatusOfIssued ==
    ASSUME NEW row \in Row, row.status \in IssuedStatuses, NEW c \in Nat
    PROVE  /\ AppliedStatus(row, c) \in IssuedStatuses
           /\ AppliedStatus(row, c) = "unpaid" <=> row.paid = 0
           /\ AppliedStatus(row, c) = "paid" <=>
                 row.paid > 0 /\ row.paid >= row.total - c
  <1>1. row.paid \in Nat /\ row.total \in Nat
    BY Columns
  <1>2. row.status \notin {"draft", "cancelled"}
    BY DEF IssuedStatuses, OpenStatuses
  <1>3. QED
    BY <1>1, <1>2 DEF AppliedStatus, IssuedStatuses, OpenStatuses

(* A step that moves amount_paid keeps the books of an issued invoice, and  *)
(* of a void one, in balance.                                               *)
LEMMA MovesPaidSound ==
    ASSUME ClerkInv, NEW i \in Invoices, NEW a \in Int, MovesPaid(i, a),
           inv[i].number # 0, inv[i].paid + a >= 0
    PROVE  SoundBooks(inv[i], lines[i], credited[i], received[i])'
  <1>1. /\ inv[i] \in Row /\ credited[i] \in Nat /\ received[i] \in Int
        /\ inv[i].paid \in Nat /\ inv[i].total \in Nat /\ inv[i].number \in Nat
    BY Types, Columns DEF ClerkInv
  <1>2. SoundBooks(inv[i], lines[i], credited[i], received[i])
    BY DEF ClerkInv, Sound
  <1> DEFINE row == [inv[i] EXCEPT !.paid = @ + a]
  <1>3. /\ row \in Row /\ row.status = inv[i].status /\ row.total = inv[i].total
        /\ row.paid = inv[i].paid + a
    BY <1>1 DEF Row
  <1>4. /\ inv'[i].number = inv[i].number /\ inv'[i].total = inv[i].total
        /\ inv'[i].discount = inv[i].discount /\ inv'[i].rate = inv[i].rate
        /\ inv'[i].paid = inv[i].paid + a
        /\ inv'[i].status = AppliedStatus(row, credited[i])
        /\ lines' = lines /\ credited' = credited
    BY DEF MovesPaid
  <1>5. received'[i] = received[i] + a
    BY Types DEF MovesPaid, ClerkInv
  <1> HIDE DEF row
  <1>6. CASE inv[i].status = "cancelled"
    <2>1. inv'[i].status = "cancelled"
      BY <1>3, <1>4, <1>6 DEF AppliedStatus, IssuedStatuses, OpenStatuses
    <2>2. QED
      BY <1>1, <1>2, <1>4, <1>5, <1>6, <2>1 DEF SoundBooks
  <1>7. CASE inv[i].status \in IssuedStatuses
    <2>1. /\ inv'[i].status \in IssuedStatuses
          /\ inv'[i].status = "unpaid" <=> inv'[i].paid = 0
          /\ inv'[i].status = "paid" <=>
                inv'[i].paid > 0 /\ inv'[i].paid >= inv[i].total - credited[i]
      BY <1>1, <1>3, <1>4, <1>7, AppliedStatusOfIssued
    <2>2. inv'[i].status # "cancelled" /\ inv[i].status # "cancelled"
      BY <1>7, <2>1 DEF IssuedStatuses, OpenStatuses
    <2>3. credited[i] < inv[i].total /\ inv[i].total > 0 /\ inv[i].paid = received[i]
          /\ inv[i].total = InvoiceTotal(LineTotal[lines[i]], inv[i].discount, inv[i].rate)
      BY <1>1, <1>2, <1>7, <2>2 DEF SoundBooks, IssuedStatuses, OpenStatuses
    <2>4. QED
      BY <1>1, <1>4, <1>5, <2>1, <2>2, <2>3 DEF SoundBooks
  <1>8. QED
    BY <1>2, <1>6, <1>7 DEF SoundBooks

(* Money on an invoice means it was billed.                                 *)
LEMMA PaidIsBilled ==
    ASSUME ClerkInv, NEW i \in Invoices,
           inv[i].status \in IssuedStatuses \/ inv[i].paid > 0
    PROVE  /\ inv[i].number # 0 /\ inv[i].status \in IssuedStatuses \cup {"cancelled"}
           /\ inv[i].total > 0
  BY DEF ClerkInv, Sound, SoundBooks, IssuedStatuses, OpenStatuses

(* An issued invoice still asks for something.                              *)
LEMMA IssuedIsOpen ==
    ASSUME ClerkInv, NEW i \in Invoices, inv[i].status \in IssuedStatuses
    PROVE  credited[i] # inv[i].total /\ inv[i].paid = received[i]
           /\ inv[i].total = InvoiceTotal(LineTotal[lines[i]], inv[i].discount, inv[i].rate)
  BY PaidIsBilled DEF ClerkInv, Sound, SoundBooks, IssuedStatuses, OpenStatuses

(* A credit note keeps the books in balance; the last one voids.            *)
LEMMA WaiveSound ==
    ASSUME ClerkInv, NEW i \in Invoices, NEW a \in Nat, WaiveStep(i, a)
    PROVE  SoundBooks(inv[i], lines[i], credited[i], received[i])'
  <1>1. /\ inv[i] \in Row /\ credited[i] \in Nat
        /\ inv[i].paid \in Nat /\ inv[i].total \in Nat
    BY Types, Columns DEF ClerkInv
  <1>2. /\ inv[i].status \in IssuedStatuses /\ a > 0 /\ credited[i] + a <= inv[i].total
        /\ inv'[i].number = inv[i].number /\ inv'[i].total = inv[i].total
        /\ inv'[i].discount = inv[i].discount /\ inv'[i].rate = inv[i].rate
        /\ inv'[i].paid = inv[i].paid
        /\ lines' = lines /\ received' = received
        /\ inv'[i].status = IF credited[i] + a >= inv[i].total THEN "cancelled"
                            ELSE AppliedStatus(inv[i], credited[i] + a)
    BY DEF WaiveStep
  <1>3. credited'[i] = credited[i] + a
    BY Types DEF WaiveStep, ClerkInv
  <1>4. /\ inv[i].number # 0 /\ inv[i].total > 0 /\ inv[i].paid = received[i]
        /\ inv[i].total = InvoiceTotal(LineTotal[lines[i]], inv[i].discount, inv[i].rate)
    BY <1>2, PaidIsBilled, IssuedIsOpen
  <1>5. CASE credited[i] + a = inv[i].total
    BY <1>1, <1>2, <1>3, <1>4, <1>5 DEF SoundBooks
  <1>6. CASE credited[i] + a < inv[i].total
    <2>1. inv'[i].status = AppliedStatus(inv[i], credited[i] + a) /\ credited[i] + a \in Nat
      BY <1>1, <1>2, <1>6
    <2>2. /\ inv'[i].status \in IssuedStatuses
          /\ inv'[i].status = "unpaid" <=> inv[i].paid = 0
          /\ inv'[i].status = "paid" <=>
                inv[i].paid > 0 /\ inv[i].paid >= inv[i].total - (credited[i] + a)
      BY <1>1, <1>2, <2>1, AppliedStatusOfIssued
    <2>3. inv'[i].status # "cancelled"
      BY <2>2 DEF IssuedStatuses, OpenStatuses
    <2>4. QED
      BY <1>1, <1>2, <1>3, <1>4, <1>6, <2>2, <2>3 DEF SoundBooks
  <1>7. QED
    BY <1>1, <1>2, <1>5, <1>6

(* Every class of steps keeps the books of every invoice.                   *)
LEMMA ClassifiedSound == ClerkInv /\ Classified /\ TypeOK' => Sound'
  <1> SUFFICES ASSUME ClerkInv, Classified, TypeOK', NEW j \in Invoices
               PROVE  SoundBooks(inv[j], lines[j], credited[j], received[j])'
    BY DEF Sound
  <1>0. SoundBooks(inv[j], lines[j], credited[j], received[j])
    BY DEF ClerkInv, Sound
  <1>t. /\ credited \in [Invoices -> Nat] /\ received \in [Invoices -> Int] /\ seq \in Nat
        /\ \A i \in Invoices : inv[i].paid \in Nat
    BY Types, Columns DEF ClerkInv
  <1>a. \A a \in Amounts : a \in Nat
    BY LedgerAssumption
  <1>1. CASE Quiet
    BY <1>0, <1>1 DEF Quiet
  <1>2. ASSUME NEW i \in Invoices, DraftStep(i)
        PROVE  SoundBooks(inv[j], lines[j], credited[j], received[j])'
    <2>1. CASE j # i
      BY <1>0, <1>2, <2>1 DEF DraftStep, OnlyRow
    <2>2. CASE j = i
      <3>1. inv[i].number = 0
        BY <1>2, DraftUnnumbered DEF DraftStep, ClerkInv
      <3>2. QED
        BY <1>0, <1>2, <2>2, <3>1 DEF DraftStep, SoundBooks
    <2>3. QED
      BY <2>1, <2>2
  <1>3. ASSUME NEW i \in Invoices, BillStep(i)
        PROVE  SoundBooks(inv[j], lines[j], credited[j], received[j])'
    <2>1. CASE j # i
      BY <1>0, <1>3, <2>1 DEF BillStep, OnlyRow
    <2>2. CASE j = i
      <3>1. inv[i].number = 0
        BY <1>3, DraftUnnumbered DEF BillStep, ClerkInv
      <3>2. inv'[i].number # 0 /\ inv'[i].total > 0
        BY <1>3, <1>t DEF BillStep
      <3>3. inv'[i].total \in Nat /\ inv'[i].paid \in Nat
        BY Columns DEF TypeOK
      <3>4. QED
        BY <1>0, <1>3, <2>2, <3>1, <3>2, <3>3
        DEF BillStep, SoundBooks, IssuedStatuses, OpenStatuses
    <2>3. QED
      BY <2>1, <2>2
  <1>4. ASSUME NEW i \in Invoices, NEW a \in Amounts, CollectStep(i, a)
        PROVE  SoundBooks(inv[j], lines[j], credited[j], received[j])'
    <2>1. CASE j # i
      BY <1>0, <1>4, <1>t, <2>1 DEF CollectStep, MovesPaid, OnlyRow
    <2>2. CASE j = i
      <3>1. inv[i].number # 0
        BY <1>4, PaidIsBilled DEF CollectStep, IssuedStatuses
      <3>2. QED
        BY <1>4, <1>a, <1>t, <2>2, <3>1, MovesPaidSound DEF CollectStep
    <2>3. QED
      BY <2>1, <2>2
  <1>5. ASSUME NEW i \in Invoices, NEW a \in Amounts, GiveBackStep(i, a)
        PROVE  SoundBooks(inv[j], lines[j], credited[j], received[j])'
    <2>1. CASE j # i
      BY <1>0, <1>5, <1>t, <2>1 DEF GiveBackStep, MovesPaid, OnlyRow
    <2>2. CASE j = i
      <3>1. inv[i].paid > 0 /\ inv[i].paid + (0 - a) >= 0 /\ 0 - a \in Int
        BY <1>5, <1>a, <1>t DEF GiveBackStep
      <3>2. inv[i].number # 0
        BY <3>1, PaidIsBilled
      <3>3. QED
        BY <1>5, <2>2, <3>1, <3>2, MovesPaidSound DEF GiveBackStep
    <2>3. QED
      BY <2>1, <2>2
  <1>6. ASSUME NEW i \in Invoices, NEW a \in Amounts, WaiveStep(i, a)
        PROVE  SoundBooks(inv[j], lines[j], credited[j], received[j])'
    <2>1. CASE j # i
      BY <1>0, <1>6, <1>t, <2>1 DEF WaiveStep, OnlyRow
    <2>2. CASE j = i
      BY <1>6, <1>a, <2>2, WaiveSound
    <2>3. QED
      BY <2>1, <2>2
  <1>7. QED
    BY <1>1, <1>2, <1>3, <1>4, <1>5, <1>6 DEF Classified

-----------------------------------------------------------------------------
(* Under the one-clerk assumption the copies of the draft edits stay        *)
(* current: a commit writes only a draft nobody else is editing, or an      *)
(* invoice that is no draft.                                                *)
LEMMA CommitWritesItsRow ==
    ASSUME ClerkInv, NEW w \in Workers, Commit(w)
    PROVE  /\ req[w].inv \in Invoices
           /\ Finish(w)
           /\ OnlyRow(req[w].inv)
           /\ \A j \in Invoices : j # req[w].inv => lines'[j] = lines[j]
           /\ \/ req[w].op \in DraftEdits \cup {"issue"}
              \/ inv[req[w].inv].status # "draft"
  <1>0. /\ inv \in [Invoices -> Row] /\ lines \in [Invoices -> SUBSET Lines]
        /\ \A v \in Workers :
              /\ req[v].phase # "idle" => req[v].inv \in Invoices
              /\ req[v].phase = "locked" => req[v].snap = inv[req[v].inv]
    BY Types DEF ClerkInv
  <1>1. CASE AddLine(w) \/ RemoveLine(w)
    BY <1>0, <1>1 DEF AddLine, RemoveLine, OnlyRow, DraftEdits
  <1>2. ASSUME NEW d \in Discounts, NEW r \in Rates, UpdateInvoice(w, d, r)
        PROVE  /\ req[w].inv \in Invoices /\ Finish(w) /\ OnlyRow(req[w].inv)
               /\ lines' = lines /\ req[w].op \in DraftEdits
    BY <1>0, <1>2 DEF UpdateInvoice, OnlyRow, DraftEdits
  <1>3. CASE CancelInvoice(w)
    BY <1>0, <1>3 DEF CancelInvoice, OnlyRow, DraftEdits
  <1>4. CASE IssueInvoice(w)
    BY <1>0, <1>4 DEF IssueInvoice, OnlyRow
  <1>5. ASSUME NEW p \in PaymentIds, NEW a \in Amounts, RecordPayment(w, p, a)
        PROVE  /\ req[w].inv \in Invoices /\ Finish(w) /\ OnlyRow(req[w].inv)
               /\ lines' = lines /\ inv[req[w].inv].status # "draft"
    BY <1>0, <1>5 DEF RecordPayment, OnlyRow, OpenStatuses
  <1>6. ASSUME NEW p \in PaymentIds, NEW a \in Amounts, ReversePayment(w, p, a)
        PROVE  /\ req[w].inv \in Invoices /\ Finish(w) /\ OnlyRow(req[w].inv)
               /\ lines' = lines /\ inv[req[w].inv].status # "draft"
    <2>1. /\ req[w].inv \in Invoices /\ Finish(w) /\ OnlyRow(req[w].inv)
          /\ lines' = lines
      BY <1>0, <1>6 DEF ReversePayment, OnlyRow
    <2>2. inv[req[w].inv].paid - a >= 0 /\ a \in Nat /\ a > 0
      BY <1>0, <1>6, <2>1, LedgerAssumption DEF ReversePayment, ReversedRow, ChecksHold, Row
    <2>3. inv[req[w].inv].paid > 0
      BY <1>0, <2>1, <2>2, Columns
    <2>4. inv[req[w].inv].status # "draft"
      BY <2>1, <2>3, PaidIsBilled DEF IssuedStatuses, OpenStatuses
    <2>5. QED
      BY <2>1, <2>4
  <1>7. ASSUME NEW a \in Amounts, IssueCreditNote(w, a)
        PROVE  /\ req[w].inv \in Invoices /\ Finish(w) /\ OnlyRow(req[w].inv)
               /\ lines' = lines /\ inv[req[w].inv].status # "draft"
    BY <1>0, <1>7 DEF IssueCreditNote, OnlyRow, IssuedStatuses, OpenStatuses
  <1>8. QED
    BY <1>1, <1>2, <1>3, <1>4, <1>5, <1>6, <1>7 DEF Commit

(* Such a commit leaves the other draft edits alone.                        *)
LEMMA CommitKeepsCopies ==
    ASSUME ClerkInv, NEW w \in Workers, Commit(w)
    PROVE  DraftExclusive' /\ DraftCopyIsCurrent'
  <1>1. /\ req[w].inv \in Invoices /\ Finish(w) /\ OnlyRow(req[w].inv)
        /\ \A j \in Invoices : j # req[w].inv => lines'[j] = lines[j]
        /\ \/ req[w].op \in DraftEdits \cup {"issue"}
           \/ inv[req[w].inv].status # "draft"
    BY CommitWritesItsRow
  <1>2. /\ req \in [Workers -> Request]
        /\ \A v \in Workers : req[v].op \in DraftEdits => req[v].inv \in Invoices
    BY Types DEF ClerkInv
  <1>3. \A v \in Workers : req'[v] = IF v = w THEN Idle ELSE req[v]
    BY <1>1, <1>2 DEF Finish
  <1>4. Idle.op \notin DraftEdits \cup {"issue"}
    BY DEF Idle, DraftEdits
  <1>5. ASSUME NEW v \in Workers, v # w, req[v].op \in DraftEdits
        PROVE  req[v].inv # req[w].inv
    <2>1. inv[req[v].inv].status = "draft"
      BY <1>5 DEF ClerkInv, DraftCopyIsCurrent
    <2>2. CASE req[w].op \in DraftEdits \cup {"issue"}
      BY <1>5, <2>2 DEF ClerkInv, DraftExclusive
    <2>3. CASE inv[req[w].inv].status # "draft"
      BY <2>1, <2>3
    <2>4. QED
      BY <1>1, <2>2, <2>3
  <1>6. DraftExclusive'
    BY <1>3, <1>4 DEF ClerkInv, DraftExclusive
  <1>7. DraftCopyIsCurrent'
    <2> SUFFICES ASSUME NEW v \in Workers, req'[v].op \in DraftEdits
                 PROVE  /\ req'[v].snap = inv'[req'[v].inv]
                        /\ req'[v].snap.status = "draft"
                        /\ req'[v].phase = "summed" =>
                              req'[v].seen = IF req'[v].op = "add_line"
                                             THEN lines'[req'[v].inv] \cup {req'[v].line}
                                             ELSE lines'[req'[v].inv] \ {req'[v].line}
      BY DEF DraftCopyIsCurrent
    <2>1. v # w /\ req'[v] = req[v]
      BY <1>3, <1>4
    <2>2. req[v].inv \in Invoices /\ req[v].inv # req[w].inv
      BY <1>2, <1>5, <2>1
    <2>3. inv'[req[v].inv] = inv[req[v].inv] /\ lines'[req[v].inv] = lines[req[v].inv]
      BY <1>1, <2>2 DEF OnlyRow
    <2>4. QED
      BY <2>1, <2>3 DEF ClerkInv, DraftCopyIsCurrent
  <1>8. QED
    BY <1>6, <1>7

(* Nobody edits a draft that is being edited or issued, so every draft edit *)
(* goes on working on a current copy.                                       *)
LEMMA CopiesStayCurrent ==
    ASSUME SingleDraftClerk, ClerkInv, [Next]_vars
    PROVE  DraftExclusive' /\ DraftCopyIsCurrent'
  <1> DEFINE Goal == DraftExclusive /\ DraftCopyIsCurrent
  <1>0. /\ inv \in [Invoices -> Row] /\ req \in [Workers -> Request]
        /\ \A v \in Workers :
              /\ req[v].phase # "idle" => req[v].inv \in Invoices
              /\ req[v].op \in DraftEdits \cup LockedOps => req[v].phase # "idle"
    BY Types DEF ClerkInv
  <1>i. DraftExclusive /\ DraftCopyIsCurrent /\ RequestsOnRows
    BY DEF ClerkInv, LockInv
  <1>1. ASSUME NEW i \in Invoices, NEW d \in Discounts, NEW r \in Rates,
               CreateInvoice(i, d, r)
        PROVE  Goal'
    <2>1. req' = req /\ lines' = lines /\ \A j \in Invoices : j # i => inv'[j] = inv[j]
      BY <1>0, <1>1 DEF CreateInvoice
    <2>2. \A v \in Workers : req[v].op \in DraftEdits =>
              req[v].inv \in Invoices /\ req[v].inv # i
      BY <1>0, <1>1, <1>i DEF CreateInvoice, RequestsOnRows
    <2>3. DraftExclusive'
      BY <1>i, <2>1 DEF DraftExclusive
    <2>4. DraftCopyIsCurrent'
      BY <1>i, <2>1, <2>2 DEF DraftCopyIsCurrent
    <2>5. QED
      BY <2>3, <2>4
  <1>2. ASSUME NEW w \in Workers, NEW i \in Invoices, NEW op \in DraftEdits,
               NEW l \in Lines \cup {NoLine}, BeginDraftEdit(w, i, op, l)
        PROVE  Goal'
    <2> DEFINE new == [op |-> op, phase |-> "loaded", inv |-> i, snap |-> inv[i],
                       line |-> l, seen |-> {}]
    <2>1. /\ inv' = inv /\ lines' = lines /\ req' = [req EXCEPT ![w] = new]
          /\ inv[i].status = "draft"
          /\ \A v \in Workers : ~(req[v].inv = i /\ req[v].op \in DraftEdits \cup {"issue"})
      BY <1>2 DEF BeginDraftEdit, RequireDraft, ClerkFree
    <2>2. \A v \in Workers : req'[v] = IF v = w THEN new ELSE req[v]
      BY <1>0, <2>1
    <2>3. new.op = op /\ new.inv = i /\ new.snap = inv[i] /\ new.phase = "loaded"
      OBVIOUS
    <2> HIDE DEF new
    <2>4. DraftExclusive'
      BY <1>i, <2>1, <2>2, <2>3 DEF DraftExclusive
    <2>5. ASSUME NEW v \in Workers, req'[v].op \in DraftEdits
          PROVE  /\ req'[v].snap = inv'[req'[v].inv]
                 /\ req'[v].snap.status = "draft"
                 /\ req'[v].phase = "summed" =>
                       req'[v].seen = IF req'[v].op = "add_line"
                                      THEN lines'[req'[v].inv] \cup {req'[v].line}
                                      ELSE lines'[req'[v].inv] \ {req'[v].line}
      <3>1. CASE v = w
        BY <2>1, <2>2, <2>3, <3>1
      <3>2. CASE v # w
        BY <1>i, <2>1, <2>2, <2>5, <3>2 DEF DraftCopyIsCurrent
      <3>3. QED
        BY <3>1, <3>2
    <2>6. DraftCopyIsCurrent'
      BY <2>5 DEF DraftCopyIsCurrent
    <2>7. QED
      BY <2>4, <2>6
  <1>3. ASSUME NEW w \in Workers, NEW i \in Invoices, NEW op \in LockedOps,
               LockInvoice(w, i, op)
        PROVE  Goal'
    <2> DEFINE new == [op |-> op, phase |-> "locked", inv |-> i, snap |-> inv[i],
                       line |-> NoLine, seen |-> {}]
    <2>1. /\ inv' = inv /\ lines' = lines /\ req' = [req EXCEPT ![w] = new]
          /\ op = "issue" => \A v \in Workers :
                ~(req[v].inv = i /\ req[v].op \in DraftEdits \cup {"issue"})
      BY <1>3 DEF LockInvoice, ClerkFree
    <2>2. \A v \in Workers : req'[v] = IF v = w THEN new ELSE req[v]
      BY <1>0, <2>1
    <2>3. op \notin DraftEdits
      BY DEF DraftEdits, LockedOps
    <2>4. DraftExclusive'
      BY <1>i, <2>1, <2>2, <2>3 DEF DraftExclusive
    <2>5. DraftCopyIsCurrent'
      BY <1>i, <2>1, <2>2, <2>3 DEF DraftCopyIsCurrent
    <2>6. QED
      BY <2>4, <2>5
  <1>4. ASSUME NEW w \in Workers, SumLines(w)
        PROVE  Goal'
    <2> DEFINE new == [req[w] EXCEPT !.phase = "summed", !.seen = LinesSeen(req[w])]
    <2>1. /\ inv' = inv /\ lines' = lines /\ req' = [req EXCEPT ![w] = new]
      BY <1>4 DEF SumLines
    <2>2. \A v \in Workers : req'[v] = IF v = w THEN new ELSE req[v]
      BY <1>0, <2>1
    <2>3. /\ new.op = req[w].op /\ new.inv = req[w].inv /\ new.snap = req[w].snap
          /\ new.line = req[w].line /\ new.seen = LinesSeen(req[w])
      BY <1>0 DEF Request
    <2> HIDE DEF new
    <2>4. DraftExclusive'
      BY <1>i, <2>1, <2>2, <2>3 DEF DraftExclusive
    <2>5. DraftCopyIsCurrent'
      BY <1>i, <2>1, <2>2, <2>3 DEF DraftCopyIsCurrent, LinesSeen
    <2>6. QED
      BY <2>4, <2>5
  <1>5. ASSUME NEW w \in Workers, Commit(w)
        PROVE  Goal'
    BY <1>5, CommitKeepsCopies
  <1>6. ASSUME NEW w \in Workers, Rollback(w)
        PROVE  Goal'
    <2>1. /\ inv' = inv /\ lines' = lines /\ req' = [req EXCEPT ![w] = Idle]
      BY <1>6 DEF Rollback, Finish
    <2>2. \A v \in Workers : req'[v] = IF v = w THEN Idle ELSE req[v]
      BY <1>0, <2>1
    <2>3. Idle.op \notin DraftEdits \cup {"issue"}
      BY DEF Idle, DraftEdits
    <2>4. DraftExclusive'
      BY <1>i, <2>1, <2>2, <2>3 DEF DraftExclusive
    <2>5. DraftCopyIsCurrent'
      BY <1>i, <2>1, <2>2, <2>3 DEF DraftCopyIsCurrent
    <2>6. QED
      BY <2>4, <2>5
  <1>7. ASSUME UNCHANGED vars PROVE Goal'
    BY <1>7, <1>i DEF vars, DraftExclusive, DraftCopyIsCurrent
  <1> HIDE DEF Goal
  <1>8. Goal'
    BY <1>1, <1>2, <1>3, <1>4, <1>5, <1>6, <1>7 DEF Next, Begin
  <1>9. QED
    BY <1>8 DEF Goal

-----------------------------------------------------------------------------
(* The invariant of the ledger under the one-clerk assumption.              *)
LEMMA InitClerkInv == Init => ClerkInv
  <1> SUFFICES ASSUME Init PROVE ClerkInv
    OBVIOUS
  <1>1. DraftExclusive /\ DraftCopyIsCurrent
    BY DEF Init, Idle, DraftExclusive, DraftCopyIsCurrent, DraftEdits
  <1>2. Sound
    BY InitLedgerSum DEF Init, NoRow, Sound, SoundBooks
  <1>3. QED
    BY <1>1, <1>2, InitLockInv DEF ClerkInv

(* Every step keeps it.                                                     *)
LEMMA NextClerkInv ==
    ASSUME SingleDraftClerk
    PROVE  ClerkInv /\ [Next]_vars => ClerkInv'
  <1> SUFFICES ASSUME ClerkInv, [Next]_vars PROVE ClerkInv'
    OBVIOUS
  <1>1. LockInv' /\ TypeOK'
    BY NextLockInv DEF ClerkInv, LockInv, TypeInv
  <1>2. Sound'
    BY <1>1, StepIsClassified, ClassifiedSound
  <1>3. QED
    BY <1>1, <1>2, CopiesStayCurrent DEF ClerkInv

(* So with one clerk per draft it holds in every reachable state.          *)
LEMMA ClerkInvAlways ==
    ASSUME SingleDraftClerk
    PROVE  Spec => []ClerkInv
  BY InitClerkInv, NextClerkInv, PTL DEF Spec

(* amount_paid, which the handlers keep by increments and decrements, is    *)
(* the payments less the reversals.                                         *)
THEOREM PaidIsReceived ==
    ASSUME SingleDraftClerk
    PROVE  Spec => []PaidMatchesReceived
  <1>1. ClerkInv => PaidMatchesReceived
    BY DEF ClerkInv, Sound, SoundBooks, PaidMatchesReceived
  <1>2. QED
    BY <1>1, ClerkInvAlways, PTL

(* What can still be given back on a payment is part of what its invoice    *)
(* records as paid: it is one term of the sum amount_paid is.               *)
THEOREM RefundableStaysWithinPaid ==
    ASSUME SingleDraftClerk
    PROVE  Spec => []RefundableWithinPaid
  <1>1. ASSUME ClerkInv, PaymentsSound, NEW p \in PaymentIds, pay[p] # NoPayment
        PROVE  pay[p].amount - pay[p].reversed <= inv[pay[p].invoice].paid
    <2>1. pay[p].invoice \in Invoices
      BY <1>1 DEF PaymentsSound
    <2> DEFINE i == pay[p].invoice
    <2>2. TypeOK /\ p \in PaymentsOf(i)
      BY <1>1 DEF ClerkInv, LockInv, TypeInv, PaymentsOf
    <2>3. \A q \in PaymentsOf(i) : Kept[q] \in Nat
      <3>1. \A q \in PaymentIds : pay[q].amount \in Nat /\ pay[q].reversed \in Nat
        BY <2>2 DEF TypeOK
      <3>2. QED
        BY <1>1, <3>1 DEF Kept, PaymentsOf, PaymentsSound
    <2>4. Kept[p] <= SumFunctionOnSet(Kept, PaymentsOf(i))
      BY <2>1, <2>2, <2>3, LedgerSum, SumNat
    <2>5. inv[i].paid = SumFunctionOnSet(Kept, PaymentsOf(i))
      BY <1>1, <2>1 DEF ClerkInv, Sound, SoundBooks, received
    <2>6. QED
      BY <2>4, <2>5 DEF Kept
  <1>2. ClerkInv /\ PaymentsSound => RefundableWithinPaid
    BY <1>1 DEF RefundableWithinPaid
  <1>3. QED
    BY <1>2, ClerkInvAlways, ReversalsWithinPayment, PTL


(* What is printed adds up to what is billed: the stored total is the one   *)
(* the line items, the discount and the rate give.                          *)
THEOREM LinesAlwaysExplainTotal ==
    ASSUME SingleDraftClerk
    PROVE  Spec => []LinesExplainTotal
  <1>1. ClerkInv => LinesExplainTotal
    BY DEF ClerkInv, Sound, SoundBooks, LinesExplainTotal
  <1>2. QED
    BY <1>1, ClerkInvAlways, PTL

(* The stored status of a billed invoice is the one its balance implies,    *)
(* after any sequence of payments, reversals and credit notes.              *)
THEOREM StatusAlwaysMatchesBalance ==
    ASSUME SingleDraftClerk
    PROVE  Spec => []StatusMatchesBalance
  <1>1. ASSUME ClerkInv, NEW i \in Invoices, inv[i].number # 0
        PROVE  LET due == inv[i].total - credited[i]
               IN  /\ inv[i].status = "cancelled" <=> due = 0
                   /\ inv[i].status = "unpaid" <=> (due # 0 /\ inv[i].paid = 0)
                   /\ inv[i].status = "paid" <=> (due > 0 /\ inv[i].paid >= due)
    <2>1. inv[i].total \in Nat /\ inv[i].paid \in Nat /\ credited[i] \in Nat
      BY <1>1, Types, Columns DEF ClerkInv
    <2>2. SoundBooks(inv[i], lines[i], credited[i], received[i])
      BY <1>1 DEF ClerkInv, Sound
    <2>3. QED
      BY <1>1, <2>1, <2>2 DEF SoundBooks
  <1>2. ClerkInv => StatusMatchesBalance
    BY <1>1 DEF StatusMatchesBalance
  <1>3. QED
    BY <1>2, ClerkInvAlways, PTL

-----------------------------------------------------------------------------
(* Nothing that was billed on an issued invoice ever changes (ADR-0012).    *)
LEMMA ClassifiedFrozen ==
    ASSUME ClerkInv, Classified, NEW j \in Invoices, inv[j].number # 0
    PROVE  /\ lines'[j] = lines[j]
           /\ \A c \in {"number", "discount", "rate", "total"} : inv'[j][c] = inv[j][c]
  <1>1. CASE Quiet
    BY <1>1 DEF Quiet
  <1>2. ASSUME NEW i \in Invoices, DraftStep(i) \/ BillStep(i)
        PROVE  lines'[j] = lines[j] /\ inv'[j] = inv[j]
    <2>1. inv[i].number = 0
      BY <1>2, DraftUnnumbered DEF DraftStep, BillStep, ClerkInv
    <2>2. QED
      BY <1>2, <2>1 DEF DraftStep, BillStep, OnlyRow
  <1>3. ASSUME NEW i \in Invoices, NEW a \in Amounts,
               CollectStep(i, a) \/ GiveBackStep(i, a) \/ WaiveStep(i, a)
        PROVE  /\ lines'[j] = lines[j]
               /\ \A c \in {"number", "discount", "rate", "total"} : inv'[j][c] = inv[j][c]
    <2>1. CASE j # i
      BY <1>3, <2>1 DEF CollectStep, GiveBackStep, WaiveStep, MovesPaid, OnlyRow
    <2>2. CASE j = i
      BY <1>3, <2>2 DEF CollectStep, GiveBackStep, WaiveStep, MovesPaid
    <2>3. QED
      BY <2>1, <2>2
  <1>4. QED
    BY <1>1, <1>2, <1>3 DEF Classified

(* An issued invoice is immutable: its number, line items, discount, rate   *)
(* and total are the ones it was issued with, whatever else goes on.        *)
THEOREM IssuedStaysFrozen ==
    ASSUME SingleDraftClerk
    PROVE  Spec => IssuedIsFrozen
  <1> DEFINE Frozen == \A i \in Invoices : inv[i].number # 0 =>
                         /\ lines'[i] = lines[i]
                         /\ \A c \in {"number", "discount", "rate", "total"} :
                               inv'[i][c] = inv[i][c]
  <1>1. ClerkInv /\ [Next]_vars => Frozen
    BY StepIsClassified, ClassifiedFrozen
  <1>2. ClerkInv /\ [Next]_vars => [Frozen]_vars
    BY <1>1
  <1> HIDE DEF Frozen
  <1>3. Spec => [][Frozen]_vars
    BY <1>2, ClerkInvAlways, PTL DEF Spec
  <1>4. QED
    BY <1>3 DEF IssuedIsFrozen, Frozen

(* A cancelled or voided invoice is never reopened, not even by a reversal. *)
THEOREM CancelledStaysFinal ==
    ASSUME SingleDraftClerk
    PROVE  Spec => CancelledIsFinal
  <1> DEFINE Final == \A i \in Invoices :
                        inv[i].status = "cancelled" => inv'[i].status = "cancelled"
  <1>1. ASSUME ClerkInv, Classified, NEW j \in Invoices, inv[j].status = "cancelled"
        PROVE  inv'[j].status = "cancelled"
    <2>1. CASE Quiet
      BY <1>1, <2>1 DEF Quiet
    <2>2. ASSUME NEW i \in Invoices, DraftStep(i) \/ BillStep(i)
          PROVE  inv'[j].status = "cancelled"
      BY <1>1, <2>2 DEF DraftStep, BillStep, OnlyRow
    <2>3. ASSUME NEW i \in Invoices, NEW a \in Int, MovesPaid(i, a)
          PROVE  inv'[j].status = "cancelled"
      <3>1. CASE j # i
        BY <1>1, <2>3, <3>1 DEF MovesPaid, OnlyRow
      <3>2. CASE j = i
        <4>1. inv[i] \in Row
          BY <1>1, Types DEF ClerkInv
        <4>2. [inv[i] EXCEPT !.paid = @ + a].status = "cancelled"
          BY <1>1, <3>2, <4>1 DEF Row
        <4>3. AppliedStatus([inv[i] EXCEPT !.paid = @ + a], credited[i]) = "cancelled"
          BY <4>2 DEF AppliedStatus, IssuedStatuses, OpenStatuses
        <4>4. QED
          BY <2>3, <3>2, <4>3 DEF MovesPaid
      <3>3. QED
        BY <3>1, <3>2
    <2>4. ASSUME NEW i \in Invoices, NEW a \in Amounts, WaiveStep(i, a)
          PROVE  inv'[j].status = "cancelled"
      BY <1>1, <2>4 DEF WaiveStep, OnlyRow, IssuedStatuses, OpenStatuses
    <2>5. \A a \in Amounts : a \in Int /\ 0 - a \in Int
      BY LedgerAssumption
    <2>6. QED
      BY <1>1, <2>1, <2>2, <2>3, <2>4, <2>5 DEF Classified, CollectStep, GiveBackStep
  <1>2. ClerkInv /\ [Next]_vars => [Final]_vars
    BY <1>1, StepIsClassified
  <1> HIDE DEF Final
  <1>3. Spec => [][Final]_vars
    BY <1>2, ClerkInvAlways, PTL DEF Spec
  <1>4. QED
    BY <1>3 DEF CancelledIsFinal, Final

-----------------------------------------------------------------------------
(* Numbers: only BillStep gives one, to an invoice that has none.           *)
LEMMA ClassifiedNumbers ==
    ASSUME ClerkInv, Classified, NumbersGapless
    PROVE  NumbersGapless'
  <1>0. seq \in Nat /\ \A i \in Invoices : inv[i].number \in Nat
    BY Types, Columns DEF ClerkInv
  <1>1. ASSUME seq' = seq, \A j \in Invoices : inv'[j].number = inv[j].number
        PROVE  NumbersGapless'
    BY <1>1 DEF NumbersGapless, NumbersUnique
  <1>2. ASSUME NEW i \in Invoices, BillStep(i)
        PROVE  NumbersGapless'
    <2>1. inv[i].number = 0
      BY <1>2, DraftUnnumbered DEF BillStep, ClerkInv
    <2>2. /\ seq' = seq + 1 /\ inv'[i].number = seq + 1
          /\ \A j \in Invoices : j # i => inv'[j].number = inv[j].number
      BY <1>2 DEF BillStep, OnlyRow
    <2>3. \A j \in Invoices : inv[j].number <= seq
      BY DEF NumbersGapless, NumbersUnique
    <2>4. NumbersUnique'
      BY <1>0, <2>1, <2>2, <2>3 DEF NumbersGapless, NumbersUnique
    <2>5. ASSUME NEW n \in 1..seq' PROVE \E j \in Invoices : inv'[j].number = n
      <3>1. CASE n = seq + 1
        BY <2>2, <3>1
      <3>2. CASE n \in 1..seq
        <4>1. PICK j \in Invoices : inv[j].number = n
          BY <3>2 DEF NumbersGapless
        <4>2. j # i
          BY <2>1, <3>2, <4>1
        <4>3. QED
          BY <2>2, <4>1, <4>2
      <3>3. QED
        BY <1>0, <2>2, <3>1, <3>2
    <2>6. QED
      BY <2>4, <2>5 DEF NumbersGapless
  <1>3. ASSUME NEW i \in Invoices,
               \/ DraftStep(i)
               \/ \E a \in Amounts : CollectStep(i, a) \/ GiveBackStep(i, a) \/ WaiveStep(i, a)
        PROVE  seq' = seq /\ \A j \in Invoices : inv'[j].number = inv[j].number
    BY <1>3 DEF DraftStep, CollectStep, GiveBackStep, WaiveStep, MovesPaid, OnlyRow
  <1>4. QED
    BY <1>1, <1>2, <1>3 DEF Classified, Quiet

(* The numbers in use are exactly 1..seq, each on one invoice: none is lost *)
(* to a rollback, a stale save or a cancellation.                           *)
THEOREM NumbersStayGapless ==
    ASSUME SingleDraftClerk
    PROVE  Spec => []NumbersGapless
  <1>1. Init => NumbersGapless
    BY DEF Init, NoRow, NumbersGapless, NumbersUnique
  <1>2. ClerkInv /\ NumbersGapless /\ [Next]_vars => NumbersGapless'
    BY StepIsClassified, ClassifiedNumbers
  <1>3. QED
    BY <1>1, <1>2, ClerkInvAlways, PTL DEF Spec

-----------------------------------------------------------------------------
(* The refinement: what each class of steps does to the abstract amounts.   *)
State(i) == IF ~Billed(i) THEN "unbilled"
            ELSE IF inv[i].status = "cancelled" THEN "void" ELSE "open"
Amount(i) == IF Billed(i) THEN inv[i].total ELSE 0

(* A row that does not change keeps its abstract state.                     *)
LEMMA SameRow ==
    ASSUME NEW i \in Invoices, inv'[i] = inv[i]
    PROVE  State(i)' = State(i) /\ Amount(i)' = Amount(i)
  BY DEF State, Amount, Billed

(* A draft edit does not show.                                              *)
LEMMA DraftIsHidden ==
    ASSUME ClerkInv, NEW i \in Invoices, DraftStep(i)
    PROVE  /\ \A j \in Invoices : State(j)' = State(j) /\ Amount(j)' = Amount(j)
           /\ \A j \in Invoices : inv'[j].paid = inv[j].paid
           /\ credited' = credited
  <1>1. inv[i].number = 0 /\ inv'[i].number = 0
    BY DraftUnnumbered DEF DraftStep, ClerkInv
  <1>2. State(i)' = State(i) /\ Amount(i)' = Amount(i)
    BY <1>1 DEF State, Amount, Billed
  <1>3. QED
    BY <1>2, SameRow DEF DraftStep, OnlyRow

(* Issuing bills a positive amount.                                         *)
LEMMA BillIsBill ==
    ASSUME ClerkInv, NEW i \in Invoices, BillStep(i)
    PROVE  Receivables!Bill(i)
  <1>1. inv[i].number = 0 /\ seq \in Nat
    BY DraftUnnumbered, Types DEF BillStep, ClerkInv
  <1>2. /\ inv'[i].number # 0 /\ inv'[i].status = "unpaid" /\ inv'[i].total > 0
        /\ \A j \in Invoices : inv'[j].paid = inv[j].paid
        /\ \A j \in Invoices : j # i => inv'[j] = inv[j]
        /\ credited' = credited
    BY <1>1 DEF BillStep, OnlyRow
  <1>3. State(i) = "unbilled" /\ State(i)' = "open" /\ Amount(i)' = inv'[i].total
    BY <1>1, <1>2 DEF State, Amount, Billed
  <1>4. \A j \in Invoices : j # i => State(j)' = State(j) /\ Amount(j)' = Amount(j)
    BY <1>2, SameRow
  <1>5. QED
    BY <1>2, <1>3, <1>4 DEF Receivables!Bill, Receivables!OnlyAt, State, Amount

(* A step that moves amount_paid leaves the billed amount and the state.    *)
LEMMA MovesOnlyPaid ==
    ASSUME ClerkInv, NEW i \in Invoices, NEW a \in Int, MovesPaid(i, a)
    PROVE  /\ \A j \in Invoices : State(j)' = State(j) /\ Amount(j)' = Amount(j)
           /\ \A j \in Invoices : j # i => inv'[j].paid = inv[j].paid
           /\ inv'[i].paid = inv[i].paid + a
           /\ credited' = credited
  <1> DEFINE row == [inv[i] EXCEPT !.paid = @ + a]
  <1>1. inv[i] \in Row
    BY Types DEF ClerkInv
  <1>2. row.status = inv[i].status
    BY <1>1 DEF Row
  <1>3. /\ inv'[i].number = inv[i].number /\ inv'[i].total = inv[i].total
        /\ inv'[i].status = AppliedStatus(row, credited[i])
    BY DEF MovesPaid
  <1> HIDE DEF row
  <1>4. inv'[i].status = "cancelled" <=> inv[i].status = "cancelled"
    <2>1. CASE inv[i].status = "cancelled"
      BY <1>2, <1>3, <2>1 DEF AppliedStatus, IssuedStatuses, OpenStatuses
    <2>2. CASE inv[i].status # "cancelled"
      BY <1>2, <1>3, <2>2 DEF AppliedStatus, IssuedStatuses, OpenStatuses
    <2>3. QED
      BY <2>1, <2>2
  <1>5. State(i)' = State(i) /\ Amount(i)' = Amount(i)
    BY <1>3, <1>4 DEF State, Amount, Billed
  <1>6. QED
    BY <1>5, SameRow DEF MovesPaid, OnlyRow

(* A payment collects within what the credit notes leave.                   *)
LEMMA CollectIsCollect ==
    ASSUME ClerkInv, NEW i \in Invoices, NEW a \in Nat, CollectStep(i, a)
    PROVE  Receivables!Collect(i)
  <1>1. /\ \A j \in Invoices : State(j)' = State(j) /\ Amount(j)' = Amount(j)
        /\ \A j \in Invoices : j # i => inv'[j].paid = inv[j].paid
        /\ inv'[i].paid = inv[i].paid + a
        /\ credited' = credited
    BY MovesOnlyPaid DEF CollectStep
  <1>2. inv[i].paid \in Nat /\ inv[i].total \in Nat /\ credited[i] \in Nat
    BY Types, Columns DEF ClerkInv
  <1>3. inv[i].number # 0 /\ inv[i].status # "cancelled"
    BY PaidIsBilled DEF CollectStep, IssuedStatuses, OpenStatuses
  <1>4. State(i) = "open" /\ Amount(i) = inv[i].total
    BY <1>3 DEF State, Amount, Billed
  <1>5. inv'[i].paid > inv[i].paid /\ inv'[i].paid <= Amount(i) - credited[i]
    BY <1>1, <1>2, <1>4 DEF CollectStep
  <1>6. QED
    BY <1>1, <1>4, <1>5 DEF Receivables!Collect, Receivables!OnlyAt, State, Amount

(* A reversal gives back what was collected.                                *)
LEMMA GiveBackIsGiveBack ==
    ASSUME ClerkInv, NEW i \in Invoices, NEW a \in Nat, GiveBackStep(i, a)
    PROVE  Receivables!GiveBack(i)
  <1>1. /\ \A j \in Invoices : State(j)' = State(j) /\ Amount(j)' = Amount(j)
        /\ \A j \in Invoices : j # i => inv'[j].paid = inv[j].paid
        /\ inv'[i].paid = inv[i].paid + (0 - a)
        /\ credited' = credited
    BY MovesOnlyPaid DEF GiveBackStep
  <1>2. inv[i].paid \in Nat /\ a > 0 /\ a <= inv[i].paid
    BY Types, Columns DEF ClerkInv, GiveBackStep
  <1>3. inv'[i].paid \in 0 .. inv[i].paid - 1
    BY <1>1, <1>2
  <1>4. inv[i].number # 0
    BY <1>2, PaidIsBilled
  <1>5. State(i) # "unbilled"
    BY <1>4 DEF State, Billed
  <1>6. QED
    BY <1>1, <1>3, <1>5 DEF Receivables!GiveBack, Receivables!OnlyAt, State, Amount

(* A credit note waives; the one that completes the amount voids.           *)
LEMMA WaiveIsWaive ==
    ASSUME ClerkInv, NEW i \in Invoices, NEW a \in Nat, WaiveStep(i, a)
    PROVE  Receivables!Waive(i)
  <1>1. /\ inv[i] \in Row /\ credited[i] \in Nat /\ inv[i].total \in Nat
        /\ inv[i].status \in IssuedStatuses
        /\ a > 0 /\ credited[i] + a <= inv[i].total
        /\ inv'[i].number = inv[i].number /\ inv'[i].total = inv[i].total
        /\ \A j \in Invoices : j # i => inv'[j] = inv[j]
        /\ \A j \in Invoices : inv'[j].paid = inv[j].paid
        /\ inv'[i].status = IF credited[i] + a >= inv[i].total THEN "cancelled"
                            ELSE AppliedStatus(inv[i], credited[i] + a)
    BY Types, Columns DEF ClerkInv, WaiveStep, OnlyRow
  <1>2. /\ credited'[i] = credited[i] + a
        /\ credited' = [credited EXCEPT ![i] = credited'[i]]
    BY Types DEF WaiveStep, ClerkInv
  <1>3. inv[i].number # 0 /\ inv[i].status # "cancelled"
    BY <1>1, PaidIsBilled DEF IssuedStatuses, OpenStatuses
  <1>4. inv'[i].status = "cancelled" <=> credited'[i] = inv[i].total
    <2>1. CASE credited[i] + a = inv[i].total
      BY <1>1, <1>2, <2>1
    <2>2. CASE credited[i] + a < inv[i].total
      <3>1. AppliedStatus(inv[i], credited[i] + a) \in IssuedStatuses
        BY <1>1, <2>2, AppliedStatusOfIssued
      <3>2. QED
        BY <1>1, <1>2, <2>2, <3>1 DEF IssuedStatuses, OpenStatuses
    <2>3. QED
      BY <1>1, <2>1, <2>2
  <1>5. /\ State(i) = "open" /\ Amount(i) = inv[i].total /\ Amount(i)' = Amount(i)
        /\ State(i)' = IF credited'[i] = inv[i].total THEN "void" ELSE "open"
    BY <1>1, <1>3, <1>4 DEF State, Amount, Billed
  <1>6. \A j \in Invoices : j # i => State(j)' = State(j) /\ Amount(j)' = Amount(j)
    BY <1>1, SameRow
  <1>7. credited'[i] \in credited[i] + 1 .. Amount(i)
    BY <1>1, <1>2, <1>5
  <1>8. QED
    BY <1>1, <1>2, <1>5, <1>6, <1>7
    DEF Receivables!Waive, Receivables!OnlyAt, State, Amount

(* InvoiceLedger implements Receivable: however the requests interleave,    *)
(* an invoice is billed once, collects within its balance, and is voided    *)
(* for good by the credit note that completes its amount.                   *)
THEOREM LedgerRefinesReceivable ==
    ASSUME SingleDraftClerk
    PROVE  Spec => ImplementsReceivable
  <1>1. Init => Receivables!RInit
    BY DEF Init, NoRow, Billed, Receivables!RInit
  <1>2. ClerkInv /\ [Next]_vars => [Receivables!RNext]_Receivables!rvars
    <2> SUFFICES ASSUME ClerkInv, [Next]_vars
                 PROVE  [Receivables!RNext]_Receivables!rvars
      OBVIOUS
    <2>1. CASE Quiet
      BY <2>1 DEF Quiet, Receivables!rvars, Billed
    <2>2. ASSUME NEW i \in Invoices, DraftStep(i)
          PROVE  UNCHANGED Receivables!rvars
      BY <2>2, DraftIsHidden DEF Receivables!rvars, State, Amount
    <2>3. ASSUME NEW i \in Invoices, BillStep(i)
          PROVE  Receivables!RNext
      BY <2>3, BillIsBill DEF Receivables!RNext
    <2>4. ASSUME NEW i \in Invoices, NEW a \in Amounts,
                 CollectStep(i, a) \/ GiveBackStep(i, a) \/ WaiveStep(i, a)
          PROVE  Receivables!RNext
      <3>1. a \in Nat
        BY LedgerAssumption
      <3>2. QED
        BY <2>4, <3>1, CollectIsCollect, GiveBackIsGiveBack, WaiveIsWaive
        DEF Receivables!RNext
    <2>5. Classified
      BY StepIsClassified
    <2>6. QED
      BY <2>1, <2>2, <2>3, <2>4, <2>5 DEF Classified
  <1>3. QED
    BY <1>1, <1>2, ClerkInvAlways, PTL DEF Spec, ImplementsReceivable, Receivables!RSpec
=============================================================================
