----------------------------- MODULE PagesProofs -----------------------------
(***************************************************************************)
(* What the pages of the office show, for any records, invoices and writes  *)
(* committed beside.  The invariant says that the answers a page holds are  *)
(* the ones the tables give, as long as nothing was committed beside it     *)
(* (PageInv), that the books are in order (BooksOK), and what the gross     *)
(* sums of the payment report are worth when something was (NetInv).  What  *)
(* a page claims then follows from its queries alone: the lists behind the  *)
(* dashboard and the links, the breakdowns of the reports, the sums of the  *)
(* finance pages, and the days of the agenda.                               *)
(***************************************************************************)
EXTENDS OfficeProofs, MoneyProofs

(* The answer to a query depends only on the records and the books: first   *)
(* the lists.                                                               *)
LEMMA ListsSame ==
    ASSUME UNCHANGED row, NEW q, NEW f
    PROVE  /\ TaskListView(q, f)' = TaskListView(q, f)
           /\ DeadlineListView(q, f)' = DeadlineListView(q, f)
           /\ CaseListView(q, f)' = CaseListView(q, f)
           /\ ClientListView(q, f)' = ClientListView(q, f)
           /\ CourtListView(q, f)' = CourtListView(q, f)
           /\ DocumentListView(q, f)' = DocumentListView(q, f)
           /\ ExpenseListView(q, f)' = ExpenseListView(q, f)
           /\ HearingListView(q, f)' = HearingListView(q, f)
           /\ ContractListView(q, f)' = ContractListView(q, f)
  BY DEF TaskListView, task_list, DeadlineListView, deadline_list, overdue_deadlines,
     CaseListView, case_list, ClientListView, client_list, CourtListView, court_list,
     DocumentListView, document_list, ExpenseListView, expense_list, HearingListView,
     hearing_list, upcoming, ContractListView, contract_list,
     expiring_contracts, ListPage, ShowRows, DefaultOpen, NotIn, Statused, Live, Rows,
     Exists, Urgent, DaysTo, PastDue

(* The tabs of a case and the reports over records.                         *)
LEMMA RecordReportsSame ==
    ASSUME UNCHANGED row, NEW q, NEW f
    PROVE  /\ CaseDetailView(q, f)' = CaseDetailView(q, f)
           /\ build_task_report(q, f)' = build_task_report(q, f)
           /\ build_deadline_report(q, f)' = build_deadline_report(q, f)
           /\ build_hearing_report(q, f)' = build_hearing_report(q, f)
           /\ build_case_report(q, f)' = build_case_report(q, f)
           /\ build_client_report(q, f)' = build_client_report(q, f)
           /\ build_expense_report(q, f)' = build_expense_report(q, f)
  BY DEF CaseDetailView, case_hearings, case_tasks, case_deadlines, case_documents,
     case_contracts, build_task_report, build_deadline_report, build_hearing_report,
     build_case_report, build_client_report, ActiveCases, build_expense_report,
     case_expenses, Sums, Amount, CountBy, Of, ShowRows, NotIn, Statused, Live, Rows,
     Exists, Urgent, DaysTo, PastDue

(* The pages that read the books.                                           *)
LEMMA FinancePagesSame ==
    ASSUME UNCHANGED <<row, bookVars>>, NEW q, NEW f
    PROVE  /\ InvoiceListView(q, f)' = InvoiceListView(q, f)
           /\ PaymentListView(q, f)' = PaymentListView(q, f)
           /\ build_revenue_report(q, f)' = build_revenue_report(q, f)
           /\ build_payment_report(q, f)' = build_payment_report(q, f)
           /\ build_outstanding_report(q, f)' = build_outstanding_report(q, f)
           /\ build_case_financials_report(q, f)' = build_case_financials_report(q, f)
           /\ CaseFinanceTab(q, f)' = CaseFinanceTab(q, f)
           /\ ClientDetailView(q, f)' = ClientDetailView(q, f)
           /\ firm_financials(q)' = firm_financials(q)
  BY DEF bookVars, InvoiceListView, invoice_list, overdue_invoices, PaymentListView,
     payment_list, PaymentRow, InvoiceRow, build_revenue_report, build_payment_report,
     build_outstanding_report, build_case_financials_report, CaseFinanceTab,
     case_invoices, case_financials, case_expenses, ClientDetailView, client_invoices,
     client_financials, client_documents, client_contracts, firm_financials,
     invoice_totals, Times, JoinedNotes, outstanding, credited_total, Open, Issued,
     Scope, Sums, Amount, Of, ShowRows, Live, Rows, Exists

(* The dashboard and the agenda.                                            *)
LEMMA BoardsSame ==
    ASSUME UNCHANGED <<row, told, bookVars>>, NEW q, NEW s
    PROVE  /\ dashboard_query(q)' = dashboard_query(q)
           /\ calendar_query(q, s)' = calendar_query(q, s)
<1>1. /\ open_cases' = open_cases
      /\ overdue_tasks' = overdue_tasks
      /\ overdue_deadlines' = overdue_deadlines
      /\ upcoming_hearings' = upcoming_hearings
      /\ today_hearings' = today_hearings
      /\ expiring_contracts' = expiring_contracts
      /\ upcoming_deadlines' = upcoming_deadlines
  BY DEF open_cases, overdue_tasks, overdue_deadlines, upcoming_hearings, upcoming,
     today_hearings, expiring_contracts, upcoming_deadlines, NotIn, Live, Rows, Exists,
     DaysTo, PastDue
<1>2. Open' = Open /\ overdue_invoices' = overdue_invoices
  BY DEF bookVars, overdue_invoices, credited_total, Open, Issued
<1>3. dashboard_query(q)' = dashboard_query(q)
  BY <1>1, <1>2 DEF bookVars, dashboard_query, shared_counts, attention, kpis,
     case_analytics, recent_activity, CountBy, Rows, Exists, Urgent
<1>4. calendar_query(q, s)' = calendar_query(q, s)
  BY <1>2 DEF calendar_query, Within, due, calendar_hearings, calendar_tasks,
     calendar_deadlines, calendar_contracts, calendar_invoices, Live, Rows, Exists,
     DaysTo
<1>q. QED
  BY <1>3, <1>4

(* Every query of every page.                                               *)
LEMMA AskSame ==
    ASSUME UNCHANGED <<row, told, bookVars>>, NEW p, NEW q, NEW f
    PROVE  Ask(p, q, f)' = Ask(p, q, f)
  BY ListsSame, RecordReportsSame, FinancePagesSame, BoardsSame DEF Ask

(* The elements of a list are all different.                                *)
ListsOnce(s) ==
    /\ Len(s) \in Nat
    /\ \A i, j \in 1 .. Len(s) : s[i] = s[j] => i = j

(* No page runs the same query twice.                                       *)
LEMMA PlansListOnce ==
    ASSUME NEW p \in DOMAIN Plan
    PROVE  ListsOnce(Plan[p])
<1>1. ListsOnce(Listing) /\ ListsOnce(Breakdown) /\ ListsOnce(payment_queries)
  BY DEF ListsOnce, Listing, Breakdown, payment_queries
<1>2. ListsOnce(calendar_events)
  BY DEF ListsOnce, calendar_events
<1>3. ListsOnce(build_dashboard)
  BY SMTT(120) DEF ListsOnce, build_dashboard
<1>4. /\ ListsOnce(Plan.CaseDetailView)
      /\ ListsOnce(Plan.CaseFinanceTab)
      /\ ListsOnce(Plan.ClientDetailView)
  BY DEF ListsOnce, Plan
<1>5. /\ ListsOnce(Plan.case_report)
      /\ ListsOnce(Plan.client_report)
      /\ ListsOnce(Plan.expense_report)
  BY DEF ListsOnce, Plan
<1>6. /\ ListsOnce(Plan.revenue_report)
      /\ ListsOnce(Plan.outstanding_report)
      /\ ListsOnce(Plan.case_financials_report)
      /\ ListsOnce(Plan.overview)
  BY DEF ListsOnce, Plan
<1>q. QED
  BY <1>1, <1>2, <1>3, <1>4, <1>5, <1>6 DEF Plan

(* The number of queries answered says which ones they are.                 *)
LEMMA Prefixes ==
    ASSUME NEW s, ListsOnce(s), NEW k \in 0 .. Len(s)
    PROVE  /\ IsFiniteSet({s[j] : j \in 1 .. k})
           /\ Cardinality({s[j] : j \in 1 .. k}) = k
<1> DEFINE f == [j \in 1 .. k |-> s[j]]
           T == {s[j] : j \in 1 .. k}
<1>1. f \in Bijection(1 .. k, T)
  BY DEF Bijection, Injection, Surjection, IsInjective, ListsOnce
<1>2. IsFiniteSet(1 .. k) /\ Cardinality(1 .. k) = k
  BY FS_Interval DEF ListsOnce
<1>q. QED
  BY <1>1, <1>2, FS_Bijection DEF ExistsBijection

(* What a report is built with is a filter the page can have.               *)
LEMMA ResolvedIsFilter ==
    ASSUME NEW p \in Reports, NEW f \in Filters(p), NEW posted \in BOOLEAN
    PROVE  resolved_filters(p, f, posted) \in Filters(p)
  BY DEF Reports, FinanceReports, Filters, resolved_filters, Unboxed, AgendaPages, Kind

(* A page holds the answers to the first queries of its plan; while nothing *)
(* was committed beside it, they are the answers the tables give now.       *)
PageInv ==
    page # NoPage =>
        /\ page = [name |-> page.name, filter |-> page.filter, got |-> page.got,
                   overlaps |-> page.overlaps, held |-> page.held]
        /\ page.name \in DOMAIN Plan
        /\ page.filter \in Filters(page.name)
        /\ page.overlaps \in 0 .. MaxOverlaps
        /\ \E k \in 0 .. Len(Plan[page.name]) :
              DOMAIN page.got = {Plan[page.name][j] : j \in 1 .. k}
        /\ page.overlaps = 0 =>
              \A p \in {page.name}, f \in {page.filter}, q \in DOMAIN page.got :
                 page.got[q] = Ask(p, q, f)

(* The next query of a page.                                                *)
LEMMA NextQueryHolds ==
    ASSUME PageInv, NextQuery, UNCHANGED <<row, told, bookVars>>
    PROVE  PageInv'
<1> DEFINE P == Plan[page.name]
<1>1. PICK k \in 0 .. Len(P) : DOMAIN page.got = {P[j] : j \in 1 .. k}
  BY DEF NextQuery, PageInv
<1>2. ListsOnce(P)
  BY PlansListOnce DEF NextQuery, PageInv
<1>3. Cardinality(DOMAIN page.got) = k
  BY <1>1, <1>2, Prefixes
<1>4. k + 1 \in 0 .. Len(P)
  BY <1>2, <1>3, k # Len(P) DEF NextQuery, Complete, ListsOnce
<1> DEFINE q == P[k + 1]
           a == Ask(page.name, q, page.filter)
           h == IF q = "gross" THEN Held ELSE page.held
<1>5. page' = [page EXCEPT !.got = With(@, q, a), !.held = h]
  BY <1>3 DEF NextQuery
<1>6. page' = [name |-> page.name, filter |-> page.filter, got |-> With(page.got, q, a),
               overlaps |-> page.overlaps, held |-> h]
  BY <1>5, page # NoPage DEF PageInv, NextQuery
<1>7. DOMAIN With(page.got, q, a) = {P[j] : j \in 1 .. k + 1}
  BY <1>1, <1>2 DEF With, ListsOnce
<1>8. ASSUME page.overlaps = 0, NEW r \in DOMAIN With(page.got, q, a)
      PROVE  With(page.got, q, a)[r] = Ask(page.name, r, page.filter)
  BY <1>8, page # NoPage DEF With, PageInv, NextQuery
<1>9. ASSUME page'.overlaps = 0, NEW p \in {page.name}', NEW f \in {page.filter}',
             NEW r \in (DOMAIN page.got)'
      PROVE  page'.got[r] = Ask(p, r, f)'
  <2>1. page.overlaps = 0 /\ p = page.name /\ f = page.filter
        /\ r \in DOMAIN With(page.got, q, a) /\ page'.got = With(page.got, q, a)
    BY <1>6, <1>9
  <2>2. Ask(p, r, f)' = Ask(p, r, f)
    BY AskSame
  <2>q. QED
    BY <1>8, <2>1, <2>2
<1>q. QED
  <2>1. page'.name = page.name /\ page'.filter = page.filter
        /\ page'.overlaps = page.overlaps /\ page'.got = With(page.got, q, a)
    BY <1>6
  <2>2. page' = [name |-> page'.name, filter |-> page'.filter, got |-> page'.got,
                 overlaps |-> page'.overlaps, held |-> page'.held]
    BY <1>6
  <2>3. /\ page.name \in DOMAIN Plan
        /\ page.filter \in Filters(page.name)
        /\ page.overlaps \in 0 .. MaxOverlaps
    BY DEF PageInv, NextQuery
  <2>4. \E m \in 0 .. Len(Plan[page'.name]) :
           DOMAIN page'.got = {Plan[page'.name][j] : j \in 1 .. m}
    <3>1. Plan[page'.name] = P
      BY <2>1
    <3>2. DOMAIN page'.got = {P[j] : j \in 1 .. k + 1}
      BY <1>7, <2>1
    <3> HIDE DEF P
    <3>q. QED
      BY <1>4, <3>1, <3>2
  <2>q. QED
    BY <1>9, <2>1, <2>2, <2>3, <2>4 DEF PageInv

(* A page that is opened holds no answers yet.                              *)
LEMMA OpenPageHolds ==
    ASSUME PageInv, NEW pages, pages \subseteq DOMAIN Plan, NEW p \in pages,
           NEW f \in Filters(p), NEW posted \in BOOLEAN,
           OpenPage(p, IF p \in Reports THEN resolved_filters(p, f, posted) ELSE f)
    PROVE  PageInv'
<1> DEFINE g == IF p \in Reports THEN resolved_filters(p, f, posted) ELSE f
<1>1. g \in Filters(p)
  BY ResolvedIsFilter
<1> HIDE DEF g
<1>2. OpenPage(p, g)
  BY DEF g
<1>3. page' = [name |-> p, filter |-> g, got |-> Nothing, overlaps |-> 0,
               held |-> Nothing]
  BY <1>2 DEF OpenPage
<1>4. DOMAIN Nothing = {} /\ {Plan[p][j] : j \in 1 .. 0} = {}
  BY DEF Nothing
<1>5. Len(Plan[p]) \in Nat /\ 0 \in 0 .. MaxOverlaps
  BY PlansListOnce, PagesAssumption DEF ListsOnce
<1>6. \E k \in 0 .. Len(Plan[p]) : DOMAIN Nothing = {Plan[p][j] : j \in 1 .. k}
  BY <1>4, <1>5, 0 \in 0 .. Len(Plan[p])
<1>q. QED
  BY <1>1, <1>3, <1>4, <1>5, <1>6 DEF PageInv

(* Every step keeps the answers of a page right.                            *)
LEMMA PageStepHolds == PageInv /\ [OfficeNext]_officeVars => PageInv'
<1> SUFFICES ASSUME PageInv, [OfficeNext]_officeVars PROVE PageInv'
  OBVIOUS
<1>1. ASSUME UNCHANGED page, UNCHANGED <<row, told, bookVars>> PROVE PageInv'
  <2>1. ASSUME NEW p, NEW q, NEW f PROVE Ask(p, q, f)' = Ask(p, q, f)
    BY <1>1, AskSame
  <2>q. QED
    BY <1>1, <2>1 DEF PageInv
<1>2. ASSUME NEW pages, pages \subseteq DOMAIN Plan, Read(pages) PROVE PageInv'
  <2>1. UNCHANGED <<row, told, bookVars>>
    BY <1>2 DEF Read, recordVars
  <2>2. CASE NextQuery
    BY <2>1, <2>2, NextQueryHolds
  <2>3. CASE SendPage
    BY <2>3 DEF SendPage, PageInv
  <2>q. QED
    BY <1>2, <2>2, <2>3, OpenPageHolds DEF Read
<1>3. ASSUME Beside PROVE PageInv'
  <2>1. CASE page # NoPage /\ <<row, told, bookVars>>' # <<row, told, bookVars>>
    <3>1. /\ page.overlaps < MaxOverlaps
          /\ page' = [page EXCEPT !.overlaps = @ + 1]
      BY <1>3, <2>1 DEF Beside
    <3>2. page' = [name |-> page.name, filter |-> page.filter, got |-> page.got,
                   overlaps |-> page.overlaps + 1, held |-> page.held]
      BY <2>1, <3>1 DEF PageInv
    <3>3. page.overlaps + 1 \in 0 .. MaxOverlaps /\ page.overlaps + 1 # 0
      BY <2>1, <3>1, PagesAssumption DEF PageInv
    <3>q. QED
      BY <2>1, <3>2, <3>3 DEF PageInv
  <2>2. CASE UNCHANGED page /\ (page = NoPage \/ UNCHANGED <<row, told, bookVars>>)
    BY <1>1, <2>2 DEF PageInv
  <2>q. QED
    BY <1>3, <2>1, <2>2 DEF Beside
<1>4. CASE UNCHANGED officeVars
  BY <1>1, <1>4 DEF officeVars, recordVars
<1>5. CASE EditTeam
  BY <1>1, <1>5 DEF EditTeam, recordVars
<1>q. QED
  BY <1>2, <1>3, <1>4, <1>5 DEF OfficeNext, EditRecords, EditBooks

(* No page is open at the start.                                            *)
LEMMA PageInitHolds == OfficeInit => PageInv
  BY DEF OfficeInit, PageInv

(* The books are in order: what was collected is what was paid less what    *)
(* was reversed, and no more was waived than billed.                        *)
BooksOK ==
    /\ state \in [Invoices -> {"unbilled", "open", "void"}]
    /\ billed \in [Invoices -> Nat]
    /\ waived \in [Invoices -> Nat]
    /\ collected \in [Invoices -> Nat]
    /\ gross \in [Invoices -> Nat]
    /\ reversed \in [Invoices -> Nat]
    /\ notes \in [Invoices -> Nat]
    /\ \A i \in Invoices :
          /\ collected[i] = gross[i] - reversed[i]
          /\ waived[i] <= billed[i]
          /\ notes[i] = 0 => waived[i] = 0
          /\ state[i] = "unbilled" => waived[i] = 0
    /\ dropped \subseteq {i \in Invoices : state[i] = "unbilled"}

(* Every transaction keeps the books in order.                              *)
LEMMA BooksStepHolds == BooksOK /\ [BooksNext]_bookVars => BooksOK'
<1> SUFFICES ASSUME BooksOK, [BooksNext]_bookVars PROVE BooksOK'
  OBVIOUS
<1> USE AmountsAssumption
<1>1. ASSUME NEW i \in Invoices, issue_invoice(i) PROVE BooksOK'
  <2>1. PICK a \in Amounts : billed' = [billed EXCEPT ![i] = a]
    BY <1>1 DEF issue_invoice
  <2>2. a \in Nat /\ waived[i] = 0
    BY <1>1, <2>1 DEF BooksOK, issue_invoice, Bill
  <2>3. billed' \in [Invoices -> Nat] /\ \A j \in Invoices : waived[j] <= billed'[j]
    BY <2>1, <2>2 DEF BooksOK
  <2>4. /\ state' = [state EXCEPT ![i] = "open"] /\ i \notin dropped
        /\ UNCHANGED <<collected, waived, gross, reversed, notes, dropped>>
    BY <1>1 DEF issue_invoice, Bill
  <2>q. QED
    BY <2>3, <2>4 DEF BooksOK
<1>2. ASSUME NEW i \in Invoices, cancel_invoice(i) PROVE BooksOK'
  BY <1>2 DEF BooksOK, cancel_invoice
<1>3. ASSUME NEW i \in Invoices, record_payment(i) PROVE BooksOK'
  BY <1>3 DEF BooksOK, record_payment, Collect
<1>4. ASSUME NEW i \in Invoices, reverse_payment(i) PROVE BooksOK'
  BY <1>4 DEF BooksOK, reverse_payment, GiveBack
<1>5. ASSUME NEW i \in Invoices, issue_credit_note(i) PROVE BooksOK'
  BY <1>5 DEF BooksOK, issue_credit_note, Waive
<1>6. CASE UNCHANGED bookVars
  BY <1>6 DEF BooksOK, bookVars
<1>q. QED
  BY <1>1, <1>2, <1>3, <1>4, <1>5, <1>6 DEF BooksNext

(* Payments and reversals only accumulate. *)
LEMMA BooksGrow ==
    ASSUME BooksOK, [BooksNext]_bookVars, NEW i \in Invoices
    PROVE  gross[i] <= gross'[i] /\ reversed[i] <= reversed'[i]
<1> USE AmountsAssumption
<1>1. ASSUME NEW j \in Invoices, record_payment(j)
      PROVE  gross[i] <= gross'[i] /\ reversed[i] <= reversed'[i]
  BY <1>1 DEF BooksOK, record_payment, Collect
<1>2. ASSUME NEW j \in Invoices, reverse_payment(j)
      PROVE  gross[i] <= gross'[i] /\ reversed[i] <= reversed'[i]
  BY <1>2 DEF BooksOK, reverse_payment, GiveBack
<1>3. ASSUME NEW j \in Invoices, issue_invoice(j) \/ cancel_invoice(j) \/ issue_credit_note(j)
      PROVE  gross[i] <= gross'[i] /\ reversed[i] <= reversed'[i]
  BY <1>3 DEF BooksOK, issue_invoice, cancel_invoice, issue_credit_note
<1>q. QED
  BY <1>1, <1>2, <1>3 DEF BooksNext, bookVars, BooksOK

(* The books start empty.                                                   *)
LEMMA BooksInitHolds == OfficeInit => BooksOK
  BY DEF OfficeInit, BooksInit, RInit, BooksOK

(* A line of a query of sums, or 0 when there is none, is the sum over the  *)
(* rows of its key.                                                        *)
LEMMA LineIsSum ==
    ASSUME NEW S, NEW key, NEW amount, NEW k, NEW T,
           \A x : x \in T <=> x \in S /\ key[x] = k
    PROVE  At(Sums(S, key, amount), k) = SumFunctionOnSet(amount, T)
<1>0. T = {x \in S : key[x] = k}
  OBVIOUS
<1>1. CASE k \in {key[x] : x \in S}
  BY <1>0, <1>1 DEF Sums, At
<1>2. CASE k \notin {key[x] : x \in S}
  <2>1. T = {}
    BY <1>2
  <2>q. QED
    BY <1>2, <2>1, SumEmpty DEF Sums, At
<1>q. QED
  BY <1>1, <1>2

(* A line that is shown, too.                                               *)
LEMMA ShownLineIsSum ==
    ASSUME NEW S, NEW key, NEW amount, NEW k \in DOMAIN Sums(S, key, amount), NEW T,
           \A x : x \in T <=> x \in S /\ key[x] = k
    PROVE  Sums(S, key, amount)[k] = SumFunctionOnSet(amount, T)
  BY LineIsSum DEF At

(* What the reversals of the payments a report lists come to now.          *)
Given(f, c) == SumFunctionOnSet(reversed, {i \in payment_list(f) : InvoiceCcy[i] = c})

(* The gross sums a page holds exceed what the office held then by no more  *)
(* than the reversals it will read, or has read.                            *)
NetInv ==
    page # NoPage /\ "gross" \in DOMAIN page.got =>
        \A f \in {page.filter}, c \in DOMAIN page.got.gross :
            /\ page.got.gross[c] \in Int /\ page.held[c] \in Int
            /\ page.got.gross[c] - Given(f, c) <= page.held[c]
            /\ "revs" \in DOMAIN page.got =>
                  page.got.gross[c] - At(page.got.revs, c) <= page.held[c]

(* Fewer terms, none negative, sum up to no more.                           *)
LEMMA SumSubset ==
    ASSUME NEW f, NEW S, IsFiniteSet(S), NEW T \in SUBSET S, \A x \in S : f[x] \in Nat
    PROVE  SumFunctionOnSet(f, T) <= SumFunctionOnSet(f, S)
<1>1. IsFiniteSet(T) /\ IsFiniteSet(S \ T)
  BY FS_Subset
<1>2. S = T \cup (S \ T) /\ T \cap (S \ T) = {}
  OBVIOUS
<1>3. SumFunctionOnSet(f, S) = SumFunctionOnSet(f, T) + SumFunctionOnSet(f, S \ T)
  <2>1. \A x \in T \cup (S \ T) : f[x] \in Int
    OBVIOUS
  <2> QED BY <1>1, <1>2, <2>1, SumUnion
<1>4. SumFunctionOnSet(f, T) \in Nat /\ SumFunctionOnSet(f, S \ T) \in Nat
  BY <1>1, SumNat
<1>q. QED
  BY <1>3, <1>4

(* A transaction takes back no reversal, and hides no payment from a        *)
(* report.                                                                  *)
LEMMA GivenGrows ==
    ASSUME BooksOK, BooksOK', [BooksNext]_bookVars, NEW f, NEW c
    PROVE  Given(f, c) \in Int /\ Given(f, c)' \in Int /\ Given(f, c) <= Given(f, c)'
<1> DEFINE S == {i \in Invoices : Matches(f, InvoiceCase[i], ClientOf[InvoiceCase[i]])
                                  /\ gross[i] > 0 /\ InvoiceCcy[i] = c}
           T == {i \in Invoices : Matches(f, InvoiceCase[i], ClientOf[InvoiceCase[i]])
                                  /\ gross'[i] > 0 /\ InvoiceCcy[i] = c}
<1>1. /\ Given(f, c) = SumFunctionOnSet(reversed, S)
      /\ Given(f, c)' = SumFunctionOnSet(reversed', T)
  BY DEF Given, payment_list, Scope, Matches
<1>2. S \subseteq T /\ IsFiniteSet(T) /\ IsFiniteSet(S)
  <2>1. ASSUME NEW i \in S PROVE i \in T
    BY BooksGrow DEF BooksOK
  <2>2. S \subseteq Invoices /\ T \subseteq Invoices
    OBVIOUS
  <2> HIDE DEF S, T
  <2>q. QED
    BY <2>1, <2>2, InvoicesAssumption, FS_Subset
<1>3. \A i \in T : reversed[i] \in Nat /\ reversed'[i] \in Nat /\ reversed[i] <= reversed'[i]
  BY BooksGrow DEF BooksOK
<1> HIDE DEF S, T
<1>4. SumFunctionOnSet(reversed, S) <= SumFunctionOnSet(reversed', S)
  BY <1>2, <1>3, SumMonotonic
<1>5. SumFunctionOnSet(reversed', S) <= SumFunctionOnSet(reversed', T)
  BY <1>2, <1>3, SumSubset
<1>6. SumFunctionOnSet(reversed, S) \in Nat /\ SumFunctionOnSet(reversed', S) \in Nat
      /\ SumFunctionOnSet(reversed', T) \in Nat
  BY <1>2, <1>3, SumNat
<1>q. QED
  BY <1>1, <1>4, <1>5, <1>6

(* Which pages ask for the gross sums, and that they do before the reversals. *)
LEMMA GrossFirst ==
    ASSUME NEW p \in DOMAIN Plan, NEW k \in 1 .. Len(Plan[p])
    PROVE  /\ Plan[p][k] = "gross" => p = "payment_report" /\ k = 2
           /\ Plan[p][k] = "revs" => p = "payment_report" /\ k = 3
<1> DEFINE Without(s) == \A j \in 1 .. Len(s) : s[j] \notin {"gross", "revs"}
<1>3. Without(Listing) /\ Without(Breakdown) /\ Without(calendar_events)
  BY DEF Listing, Breakdown, calendar_events
<1>4. Without(build_dashboard)
  BY SMTT(60) DEF build_dashboard
<1>5. Without(Plan.CaseDetailView) /\ Without(Plan.CaseFinanceTab)
      /\ Without(Plan.ClientDetailView)
  BY DEF Plan
<1>6. Without(Plan.case_report) /\ Without(Plan.client_report) /\ Without(Plan.expense_report)
      /\ Without(Plan.revenue_report)
  BY DEF Plan
<1>7. Without(Plan.outstanding_report) /\ Without(Plan.case_financials_report)
      /\ Without(Plan.overview)
  BY DEF Plan
<1>1. p # "payment_report" => Without(Plan[p])
  <2>1. p # "payment_report" =>
           Plan[p] \in {Listing, Breakdown, calendar_events, build_dashboard,
                        Plan.CaseDetailView, Plan.CaseFinanceTab, Plan.ClientDetailView,
                        Plan.case_report, Plan.client_report, Plan.expense_report,
                        Plan.revenue_report, Plan.outstanding_report,
                        Plan.case_financials_report, Plan.overview}
    BY DEF Plan
  <2> HIDE DEF Without
  <2>q. QED
    BY <1>3, <1>4, <1>5, <1>6, <1>7, <2>1
<1>2. p = "payment_report" => Plan[p] = <<"rows", "gross", "revs">>
  BY DEF Plan, payment_queries
<1>q. QED
  BY <1>1, <1>2

(* When the gross sums are read, they exceed what the office holds by at    *)
(* most the reversals there are.                                            *)
LEMMA GrossWhenRead ==
    ASSUME BooksOK, NEW f,
           NEW c \in DOMAIN build_payment_report("gross", f)
    PROVE  LET g == build_payment_report("gross", f)[c]
           IN  /\ g \in Int /\ Held[c] \in Int
               /\ g - Given(f, c) <= Held[c]
<1> DEFINE S == {i \in payment_list(f) : InvoiceCcy[i] = c}
           A == {i \in Invoices : InvoiceCcy[i] = c}
<1>0. build_payment_report("gross", f) = Sums(payment_list(f), InvoiceCcy, gross)
  BY DEF build_payment_report
<1>1. build_payment_report("gross", f)[c] = SumFunctionOnSet(gross, S)
  <2>1. c \in DOMAIN Sums(payment_list(f), InvoiceCcy, gross)
    BY <1>0
  <2>2. Sums(payment_list(f), InvoiceCcy, gross)[c] = SumFunctionOnSet(gross, S)
    <3>1. \A x : x \in S <=> x \in payment_list(f) /\ InvoiceCcy[x] = c
      OBVIOUS
    <3> HIDE DEF S
    <3>q. QED
      BY <2>1, <3>1, ShownLineIsSum
  <2>q. QED
    BY <1>0, <2>2
<1>2. c \in {InvoiceCcy[i] : i \in payment_list(f)} /\ payment_list(f) \subseteq Invoices
  BY <1>0 DEF Sums, payment_list, Scope
<1>3. c \in DOMAIN Held
  BY <1>2 DEF Held, Sums
<1>4. Held[c] = SumFunctionOnSet(collected, A)
  <2>1. c \in DOMAIN Sums(Invoices, InvoiceCcy, collected)
    BY <1>3 DEF Held
  <2>2. Sums(Invoices, InvoiceCcy, collected)[c] = SumFunctionOnSet(collected, A)
    <3>1. \A x : x \in A <=> x \in Invoices /\ InvoiceCcy[x] = c
      OBVIOUS
    <3> HIDE DEF A
    <3>q. QED
      BY <2>1, <3>1, ShownLineIsSum
  <2>q. QED
    BY <2>2 DEF Held
<1>5. S \subseteq A /\ IsFiniteSet(S) /\ IsFiniteSet(A)
  BY <1>2, InvoicesAssumption, FS_Subset
<1>6. /\ \A i \in A : collected[i] \in Nat
      /\ \A i \in S : /\ collected[i] \in Int /\ gross[i] \in Int /\ reversed[i] \in Int
                      /\ gross[i] = collected[i] + reversed[i]
  BY <1>2 DEF BooksOK
<1>7. Given(f, c) = SumFunctionOnSet(reversed, S)
  BY DEF Given
<1> HIDE DEF S, A
<1>8. SumFunctionOnSet(gross, S)
         = SumFunctionOnSet(collected, S) + SumFunctionOnSet(reversed, S)
  BY <1>5, <1>6, SumOfSums
<1>9. SumFunctionOnSet(collected, S) <= SumFunctionOnSet(collected, A)
  BY <1>5, <1>6, SumSubset
<1>10. /\ SumFunctionOnSet(collected, S) \in Int /\ SumFunctionOnSet(reversed, S) \in Int
       /\ SumFunctionOnSet(collected, A) \in Int /\ SumFunctionOnSet(gross, S) \in Int
  BY <1>5, <1>6, SumRemove
<1>q. QED
  BY <1>1, <1>4, <1>7, <1>8, <1>9, <1>10

(* The query that is read next and what the page is then. *)
LEMMA NextQueryIs ==
    ASSUME PageInv, NextQuery
    PROVE  \E p \in DOMAIN Plan : \E k \in 1 .. Len(Plan[p]), f \in Filters(p) :
              /\ p = page.name /\ f = page.filter
              /\ DOMAIN page.got = {Plan[p][j] : j \in 1 .. k - 1}
              /\ page' = [name |-> p, filter |-> f,
                          got |-> With(page.got, Plan[p][k], Ask(p, Plan[p][k], f)),
                          overlaps |-> page.overlaps,
                          held |-> IF Plan[p][k] = "gross" THEN Held ELSE page.held]
<1>0. page # NoPage
  BY DEF NextQuery
<1>1. /\ page.name \in DOMAIN Plan
      /\ page.filter \in Filters(page.name)
      /\ \E m \in 0 .. Len(Plan[page.name]) :
            DOMAIN page.got = {Plan[page.name][j] : j \in 1 .. m}
  BY <1>0 DEF PageInv
<1> DEFINE p == page.name
           f == page.filter
<1>2. PICK m \in 0 .. Len(Plan[p]) : DOMAIN page.got = {Plan[p][j] : j \in 1 .. m}
  BY <1>1
<1>3. ListsOnce(Plan[p])
  BY <1>1, PlansListOnce
<1>4. Cardinality(DOMAIN page.got) = m
  BY <1>2, <1>3, Prefixes
<1>5. m + 1 \in 1 .. Len(Plan[p]) /\ m + 1 - 1 = m
  BY <1>1, <1>3, <1>4 DEF NextQuery, Complete, ListsOnce
<1>6. page' = [page EXCEPT !.got = With(@, Plan[p][m + 1], Ask(p, Plan[p][m + 1], f)),
                           !.held = IF Plan[p][m + 1] = "gross" THEN Held ELSE @]
  BY <1>1, <1>4 DEF NextQuery
<1>7. page' = [name |-> p, filter |-> f,
               got |-> With(page.got, Plan[p][m + 1], Ask(p, Plan[p][m + 1], f)),
               overlaps |-> page.overlaps,
               held |-> IF Plan[p][m + 1] = "gross" THEN Held ELSE page.held]
  BY <1>0, <1>1, <1>6 DEF PageInv
<1>8. p \in DOMAIN Plan /\ f \in Filters(p) /\ p = page.name /\ f = page.filter
  BY <1>1
<1> HIDE DEF p, f
<1>q. QED
  BY <1>2, <1>5, <1>7, <1>8

(* The queries of the payment report.                                       *)
LEMMA PaymentReportAsks ==
    ASSUME NEW q, NEW f
    PROVE  Ask("payment_report", q, f) = build_payment_report(q, f)
  BY DEF Ask

(* Reading a query keeps the gross sums in bounds.                          *)
LEMMA NetQueryHolds ==
    ASSUME PageInv, NetInv, BooksOK, NextQuery, UNCHANGED <<row, told, bookVars>>
    PROVE  NetInv'
<1>0. PICK p \in DOMAIN Plan : \E k \in 1 .. Len(Plan[p]), f \in Filters(p) :
         /\ p = page.name /\ f = page.filter
         /\ DOMAIN page.got = {Plan[p][j] : j \in 1 .. k - 1}
         /\ page' = [name |-> p, filter |-> f,
                     got |-> With(page.got, Plan[p][k], Ask(p, Plan[p][k], f)),
                     overlaps |-> page.overlaps,
                     held |-> IF Plan[p][k] = "gross" THEN Held ELSE page.held]
  BY NextQueryIs
<1>1. PICK k \in 1 .. Len(Plan[p]), f \in Filters(p) :
         /\ p = page.name /\ f = page.filter
         /\ DOMAIN page.got = {Plan[p][j] : j \in 1 .. k - 1}
         /\ page' = [name |-> p, filter |-> f,
                     got |-> With(page.got, Plan[p][k], Ask(p, Plan[p][k], f)),
                     overlaps |-> page.overlaps,
                     held |-> IF Plan[p][k] = "gross" THEN Held ELSE page.held]
  BY <1>0
<1>2. ASSUME NEW g, NEW c PROVE Given(g, c)' = Given(g, c)
  BY DEF Given, payment_list, Scope, Matches, bookVars
<1> DEFINE q == Plan[p][k]
           a == Ask(p, q, f)
<1>3. /\ page'.filter = f
      /\ page'.got = With(page.got, q, a)
      /\ page'.held = IF q = "gross" THEN Held ELSE page.held
  BY <1>1
<1>4. /\ DOMAIN page'.got = DOMAIN page.got \cup {q}
      /\ \A r \in DOMAIN page'.got : page'.got[r] = IF r = q THEN a ELSE page.got[r]
  BY <1>3 DEF With
<1>5. CASE q = "gross"
  <2>1. p = "payment_report" /\ k = 2 /\ q # "revs"
    BY <1>5, GrossFirst
  <2>2. "revs" \notin DOMAIN page.got
    BY <1>1, <2>1, GrossFirst
  <2>3. page'.got.gross = build_payment_report("gross", f)
    BY <1>4, <1>5, <2>1, PaymentReportAsks
  <2> HIDE DEF q
  <2>q. QED
    BY <1>2, <1>3, <1>4, <1>5, <2>1, <2>2, <2>3, GrossWhenRead DEF NetInv
<1>6. CASE q = "revs"
  <2>1. p = "payment_report"
    BY <1>6, GrossFirst
  <2>2. page'.got.revs = Sums(payment_list(f), InvoiceCcy, reversed)
    BY <1>4, <1>6, <2>1, PaymentReportAsks DEF build_payment_report
  <2>3. ASSUME NEW c PROVE At(page'.got.revs, c) = Given(f, c)
    BY <2>2, LineIsSum DEF Given
  <2>4. page # NoPage
    BY DEF NextQuery
  <2>q. QED
    BY <1>1, <1>2, <1>3, <1>4, <1>6, <2>3, <2>4 DEF NetInv
<1>7. CASE q \notin {"gross", "revs"}
  <2>1. page # NoPage
    BY DEF NextQuery
  <2>2. \A r \in {"gross", "revs"} :
           (r \in DOMAIN page'.got <=> r \in DOMAIN page.got)
           /\ (r \in DOMAIN page.got => page'.got[r] = page.got[r])
    BY <1>4, <1>7
  <2> HIDE DEF q, a
  <2>q. QED
    BY <1>1, <1>2, <1>3, <1>7, <2>1, <2>2 DEF NetInv
<1>q. QED
  BY <1>5, <1>6, <1>7

(* So does a write committed beside the page: it can only add to the        *)
(* reversals that will be read.                                             *)
LEMMA NetBesideHolds ==
    ASSUME PageInv, NetInv, BooksOK, BooksOK', [BooksNext]_bookVars,
           UNCHANGED page \/ (page # NoPage /\ page' = [page EXCEPT !.overlaps = @ + 1])
    PROVE  NetInv'
<1>1. \A f, c : /\ Given(f, c) \in Int /\ Given(f, c)' \in Int
                /\ Given(f, c) <= Given(f, c)'
  BY GivenGrows
<1>2. CASE page = NoPage
  BY <1>2 DEF NetInv
<1>3. CASE page # NoPage
  <2>1. page'.got = page.got /\ page'.held = page.held /\ page'.filter = page.filter
    BY <1>3 DEF PageInv
  <2>q. QED
    BY <1>1, <1>3, <2>1 DEF NetInv
<1>q. QED
  BY <1>2, <1>3

(* The invariant of the office as the pages see it.                         *)
OfficeInv == BooksOK /\ PageInv /\ NetInv

(* The invariant holds at the start.                                        *)
LEMMA OfficeInvInit == OfficeInit => OfficeInv
<1>1. OfficeInit => NetInv
  BY DEF OfficeInit, NetInv
<1>q. QED
  BY <1>1, BooksInitHolds, PageInitHolds DEF OfficeInv

(* Every step of the office keeps it.                                       *)
LEMMA OfficeInvStep == OfficeInv /\ [OfficeNext]_officeVars => OfficeInv'
<1> SUFFICES ASSUME BooksOK, PageInv, NetInv, [OfficeNext]_officeVars
             PROVE  BooksOK' /\ NetInv'
  BY PageStepHolds DEF OfficeInv
<1>1. [BooksNext]_bookVars
  BY DEF OfficeNext, EditRecords, EditBooks, EditTeam, Read, officeVars
<1>2. BooksOK'
  BY <1>1, BooksStepHolds
<1>3. CASE UNCHANGED page
  BY <1>1, <1>2, <1>3, NetBesideHolds
<1>4. CASE Beside
  BY <1>1, <1>2, <1>3, <1>4, NetBesideHolds DEF Beside
<1>5. CASE Read(DOMAIN Plan)
  <2>1. UNCHANGED <<row, told, bookVars>>
    BY <1>5 DEF Read, recordVars
  <2>2. CASE NextQuery
    BY <1>2, <2>1, <2>2, NetQueryHolds
  <2>3. ASSUME NEW p, NEW f, OpenPage(p, f) PROVE NetInv'
    BY <2>3 DEF OpenPage, NetInv, Nothing
  <2>4. CASE SendPage
    BY <1>2, <2>4 DEF SendPage, NetInv
  <2>q. QED
    BY <1>2, <1>5, <2>2, <2>3, <2>4 DEF Read
<1>q. QED
  BY <1>2, <1>3, <1>4, <1>5 DEF OfficeNext, EditRecords, EditBooks, EditTeam, officeVars

(* It holds in every state of the office.                                   *)
LEMMA OfficeInvariant == OfficeSpec => []OfficeInv
  BY OfficeInvInit, OfficeInvStep, PTL DEF OfficeSpec

(* Whatever payments are recorded and reversed while the payment report is  *)
(* built, its net never exceeds what the office held when it read its gross *)
(* sums (build_payment_report).                                             *)
THEOREM ReportedNetWasHeld == OfficeSpec => []NetNeverOverstated
<1>1. OfficeInv => NetNeverOverstated
  BY DEF OfficeInv, NetInv, NetNeverOverstated
<1>q. QED
  BY <1>1, OfficeInvariant, PTL

(* The elements of a list.                                                  *)
In(s) == {s[j] : j \in 1 .. Len(s)}

(* A page nothing was committed beside holds the answers of now to every    *)
(* query of its plan.                                                       *)
LEMMA QuietPage ==
    ASSUME PageInv, Quiet
    PROVE  \E p \in DOMAIN Plan : \E f \in Filters(p) :
              /\ p = page.name /\ f = page.filter
              /\ DOMAIN page.got = In(Plan[p])
              /\ \A q \in DOMAIN page.got : page.got[q] = Ask(p, q, f)
<1>1. page # NoPage /\ page.overlaps = 0
  BY DEF Quiet, Complete
<1> DEFINE p == page.name
           f == page.filter
<1>2. /\ p \in DOMAIN Plan /\ f \in Filters(p)
      /\ \A q \in DOMAIN page.got : page.got[q] = Ask(p, q, f)
  BY <1>1 DEF PageInv
<1>3. PICK k \in 0 .. Len(Plan[p]) : DOMAIN page.got = {Plan[p][j] : j \in 1 .. k}
  BY <1>1 DEF PageInv
<1>4. k = Len(Plan[p])
  <2>1. ListsOnce(Plan[p])
    BY <1>2, PlansListOnce
  <2>2. Cardinality(DOMAIN page.got) = k
    BY <1>3, <2>1, Prefixes
  <2>q. QED
    BY <2>2 DEF Quiet, Complete
<1>5. p = page.name /\ f = page.filter
  OBVIOUS
<1>6. DOMAIN page.got = In(Plan[p])
  BY <1>3, <1>4 DEF In
<1> HIDE DEF p, f
<1>q. QED
  BY <1>2, <1>5, <1>6

(* Each page asks its own builder.                                          *)
LEMMA AskIs ==
    ASSUME NEW q, NEW f
    PROVE  /\ Ask("TaskListView", q, f) = TaskListView(q, f)
           /\ Ask("DeadlineListView", q, f) = DeadlineListView(q, f)
           /\ Ask("CaseListView", q, f) = CaseListView(q, f)
           /\ Ask("ClientListView", q, f) = ClientListView(q, f)
           /\ Ask("CourtListView", q, f) = CourtListView(q, f)
           /\ Ask("DocumentListView", q, f) = DocumentListView(q, f)
           /\ Ask("ExpenseListView", q, f) = ExpenseListView(q, f)
           /\ Ask("HearingListView", q, f) = HearingListView(q, f)
           /\ Ask("ContractListView", q, f) = ContractListView(q, f)
           /\ Ask("InvoiceListView", q, f) = InvoiceListView(q, f)
           /\ Ask("PaymentListView", q, f) = PaymentListView(q, f)
           /\ Ask("CaseDetailView", q, f) = CaseDetailView(q, f)
           /\ Ask("CaseFinanceTab", q, f) = CaseFinanceTab(q, f)
           /\ Ask("ClientDetailView", q, f) = ClientDetailView(q, f)
           /\ Ask("task_report", q, f) = build_task_report(q, f)
           /\ Ask("deadline_report", q, f) = build_deadline_report(q, f)
           /\ Ask("hearing_report", q, f) = build_hearing_report(q, f)
           /\ Ask("case_report", q, f) = build_case_report(q, f)
           /\ Ask("client_report", q, f) = build_client_report(q, f)
           /\ Ask("expense_report", q, f) = build_expense_report(q, f)
           /\ Ask("revenue_report", q, f) = build_revenue_report(q, f)
           /\ Ask("payment_report", q, f) = build_payment_report(q, f)
           /\ Ask("outstanding_report", q, f) = build_outstanding_report(q, f)
           /\ Ask("case_financials_report", q, f) = build_case_financials_report(q, f)
           /\ Ask("overview", q, f) = firm_financials(q)
           /\ Ask("dashboard", q, f) = dashboard_query(q)
           /\ \A p \in AgendaPages : Ask(p, q, f) = calendar_query(q, screen(p, f.day))
  BY DEF Ask, AgendaPages

(* The rows of a kind a query fetches are found by the view that opens one. *)
LEMMA OpenedRows ==
    ASSUME NEW k \in DOMAIN Lifecycle
    PROVE  /\ \A r \in Live(k) : Found(r)
           /\ k \notin {"task", "document"} => \A r \in Rows(k) : Found(r)
  BY DEF Live, Rows, Table, Found

(* Of the tasks and documents, the live ones are.                           *)
LEMMA KindsOpen ==
    /\ \A r \in Live("task") \cup Live("document") \cup Live("expense") : Found(r)
    /\ \A r \in Rows("deadline") \cup Rows("case") \cup Rows("client") \cup Rows("court")
                 \cup Rows("hearing") \cup Rows("contract") : Found(r)
<1>1. \A k \in {"task", "document", "expense", "deadline", "case", "client", "court",
               "hearing", "contract"} : k \in DOMAIN Lifecycle
  BY KindsAreListed
<1>q. QED
  BY <1>1, OpenedRows

(* What the list views and the reports show can be opened.                  *)
Opens(S) == \A r \in Records \cap S : Found(r)

(* The lists show what can be opened.                                       *)
LEMMA ListedOpens ==
    ASSUME NEW f
    PROVE  /\ Opens(task_list(f)) /\ Opens(deadline_list(f)) /\ Opens(case_list(f))
           /\ Opens(client_list(f)) /\ Opens(court_list(f)) /\ Opens(document_list(f))
           /\ Opens(expense_list(f)) /\ Opens(hearing_list(f)) /\ Opens(contract_list(f))
  BY KindsOpen
  DEF Opens, task_list, deadline_list, case_list, client_list, court_list, document_list,
      expense_list, hearing_list, contract_list, DefaultOpen, NotIn, Statused

(* The list views show what their lists hold.                               *)
LEMMA ListPagesOpen ==
    ASSUME NEW f,
           NEW p \in {"TaskListView", "DeadlineListView", "CaseListView", "ClientListView",
                      "CourtListView", "DocumentListView", "ExpenseListView",
                      "HearingListView", "ContractListView"}
    PROVE  Opens(DOMAIN Ask(p, "rows", f))
  BY ListedOpens, AskIs
  DEF ListPage, ShowRows, TaskListView, DeadlineListView, CaseListView, ClientListView,
      CourtListView, DocumentListView, ExpenseListView, HearingListView, ContractListView

(* The reports over records show what can be opened.                        *)
LEMMA ReportsOpen ==
    ASSUME NEW f,
           NEW p \in {"task_report", "deadline_report", "hearing_report", "case_report",
                      "client_report", "expense_report"}
    PROVE  Opens(DOMAIN Ask(p, "rows", f))
<1>1. /\ Opens(DOMAIN build_task_report("rows", f))
      /\ Opens(DOMAIN build_deadline_report("rows", f))
  BY KindsOpen DEF Opens, build_task_report, build_deadline_report, ShowRows, Statused
<1>2. /\ Opens(DOMAIN build_hearing_report("rows", f))
      /\ Opens(DOMAIN build_case_report("rows", f))
  BY KindsOpen DEF Opens, build_hearing_report, build_case_report, ShowRows, Statused, NotIn
<1>3. /\ Opens(DOMAIN build_client_report("rows", f))
      /\ Opens(DOMAIN build_expense_report("rows", f))
  BY KindsOpen DEF Opens, build_client_report, build_expense_report, case_expenses, Of,
                   ShowRows, Statused
<1>q. QED
  BY <1>1, <1>2, <1>3, AskIs

(* The invoice pages show invoices only.                                    *)
LEMMA FinanceRowsAreInvoices ==
    ASSUME NEW f
    PROVE  /\ DOMAIN Ask("InvoiceListView", "rows", f) \subseteq Invoices
           /\ DOMAIN Ask("PaymentListView", "rows", f) \subseteq Invoices
           /\ DOMAIN Ask("revenue_report", "rows", f) \subseteq Invoices
           /\ DOMAIN Ask("payment_report", "rows", f) \subseteq Invoices
           /\ DOMAIN Ask("outstanding_report", "rows", f) \subseteq Invoices
           /\ DOMAIN Ask("CaseFinanceTab", "case_invoices", f) \subseteq Invoices
           /\ DOMAIN Ask("CaseFinanceTab", "case_payments", f) \subseteq Invoices
           /\ DOMAIN Ask("ClientDetailView", "client_invoices", f) \subseteq Invoices
           /\ DOMAIN Ask("ClientDetailView", "client_payments", f) \subseteq Invoices
<1>1. /\ payment_list(f) \subseteq Invoices
      /\ invoice_list(f) \subseteq Invoices
      /\ case_invoices(f) \subseteq Invoices /\ client_invoices(f) \subseteq Invoices
      /\ Scope(Issued, f) \subseteq Invoices /\ Scope(Open, f) \subseteq Invoices
  BY DEF payment_list, invoice_list, case_invoices, client_invoices, Scope, Issued, Open
<1>2. /\ DOMAIN InvoiceListView("rows", f) \subseteq Invoices
      /\ DOMAIN PaymentListView("rows", f) \subseteq Invoices
      /\ DOMAIN build_revenue_report("rows", f) \subseteq Invoices
      /\ DOMAIN build_payment_report("rows", f) \subseteq Invoices
      /\ DOMAIN build_outstanding_report("rows", f) \subseteq Invoices
  BY <1>1 DEF InvoiceListView, PaymentListView, build_revenue_report,
              build_payment_report, build_outstanding_report
<1>3. /\ DOMAIN CaseFinanceTab("case_invoices", f) \subseteq Invoices
      /\ DOMAIN CaseFinanceTab("case_payments", f) \subseteq Invoices
      /\ DOMAIN ClientDetailView("client_invoices", f) \subseteq Invoices
      /\ DOMAIN ClientDetailView("client_payments", f) \subseteq Invoices
  BY <1>1 DEF CaseFinanceTab, ClientDetailView
<1>q. QED
  BY <1>2, <1>3, AskIs

(* The tabs of a case and of a client show what can be opened.              *)
LEMMA DetailsOpen ==
    ASSUME NEW f
    PROVE  /\ \A q \in {"hearings", "case_tasks", "case_deadlines", "case_documents",
                        "case_contracts"} : Opens(DOMAIN Ask("CaseDetailView", q, f))
           /\ Opens(DOMAIN Ask("CaseFinanceTab", "case_expenses", f))
           /\ \A q \in {"client_documents", "client_contracts"} :
                 Opens(DOMAIN Ask("ClientDetailView", q, f))
<1>1. /\ Opens(case_hearings(f)) /\ Opens(case_tasks(f)) /\ Opens(case_deadlines(f))
      /\ Opens(case_documents(f)) /\ Opens(case_contracts(f)) /\ Opens(case_expenses(f))
      /\ Opens(client_documents(f)) /\ Opens(client_contracts(f))
  BY KindsOpen DEF Opens, case_hearings, case_tasks, case_deadlines, case_documents,
                   case_contracts, case_expenses, client_documents, client_contracts, Of
<1>2. \A q \in {"hearings", "case_tasks", "case_deadlines", "case_documents",
                "case_contracts"} : Opens(DOMAIN CaseDetailView(q, f))
  BY <1>1 DEF CaseDetailView, ShowRows
<1>3. /\ Opens(DOMAIN CaseFinanceTab("case_expenses", f))
      /\ Opens(DOMAIN ClientDetailView("client_documents", f))
      /\ Opens(DOMAIN ClientDetailView("client_contracts", f))
  BY <1>1 DEF CaseFinanceTab, ClientDetailView, ShowRows
<1>q. QED
  BY <1>2, <1>3, AskIs

(* So do the blocks and tables of the dashboard,                            *)
LEMMA BlocksOpen ==
    ASSUME NEW f, NEW q \in ShownRows
    PROVE  Opens(Ask("dashboard", q, f))
<1>1. /\ Opens({c \in open_cases : row[c].value \in {HIGH, URGENT}})
      /\ Opens(open_cases) /\ Opens(overdue_tasks)
      /\ Opens(overdue_deadlines) /\ Opens(upcoming_deadlines)
      /\ Opens(upcoming_hearings) /\ Opens(today_hearings)
      /\ Opens(expiring_contracts)
  BY KindsOpen DEF Opens, open_cases, overdue_tasks, overdue_deadlines,
     upcoming_deadlines, upcoming_hearings, upcoming, today_hearings,
     expiring_contracts, NotIn
<1>2. Opens(overdue_invoices)
  BY TablesAssumption DEF Opens, overdue_invoices, Open, Issued
<1>3. CASE q \in Blocks
  <2>1. dashboard_query(q) = attention(q)
    BY <1>3 DEF dashboard_query, Blocks
  <2>q. QED
    BY <1>1, <1>2, <1>3, <2>1, AskIs DEF attention, Blocks
<1>4. CASE q \in {"today_hearings", "upcoming_deadlines", "recent_cases"}
  BY <1>1, <1>4, AskIs DEF dashboard_query, Blocks
<1>q. QED
  BY <1>3, <1>4 DEF ShownRows

(* What the log tells of was there, whether it can still be opened or not.  *)
LEMMA ActivityWasThere ==
    ASSUME LoggedExist, NEW f, NEW r \in Records,
           r \in Ask("dashboard", "recent_activity", f)
    PROVE  Found(r) \/ (Exists(r) /\ row[r].gone)
<1>1. Ask("dashboard", "recent_activity", f) = recent_activity
  BY AskIs DEF dashboard_query, Blocks
<1>2. told[r].status # "absent"
  BY <1>1, TablesAssumption DEF recent_activity
<1>3. Exists(r)
  BY <1>2 DEF LoggedExist
<1>4. CASE Found(r)
  BY <1>4
<1>5. CASE ~Found(r)
  <2>1. ~~row[r].gone
    BY <1>3, <1>5 DEF Found
  <2>q. QED
    BY <1>3, <2>1
<1>q. QED
  BY <1>4, <1>5

(* and the agenda.                                                          *)
LEMMA EventsOpen ==
    ASSUME NEW f, NEW p \in AgendaPages, NEW q
    PROVE  Opens(Ask(p, q, f))
<1>1. /\ Opens(calendar_hearings) /\ Opens(calendar_tasks) /\ Opens(calendar_deadlines)
      /\ Opens(calendar_contracts)
  BY KindsOpen DEF Opens, calendar_hearings, calendar_tasks, calendar_deadlines,
                   calendar_contracts
<1>2. Opens(calendar_invoices)
  BY TablesAssumption DEF Opens, calendar_invoices, Open, Issued
<1>3. Opens(calendar_query(q, screen(p, f.day)))
  BY <1>1, <1>2 DEF calendar_query, Within, Opens
<1>q. QED
  BY <1>3, AskIs

ListPages == {"TaskListView", "DeadlineListView", "CaseListView", "ClientListView",
              "CourtListView", "DocumentListView", "ExpenseListView",
              "HearingListView", "ContractListView"}

RecordReports == {"task_report", "deadline_report", "hearing_report", "case_report",
                  "client_report", "expense_report"}

InvoiceReports == {"InvoiceListView", "PaymentListView", "revenue_report",
                   "payment_report", "outstanding_report"}

(* Every page is of one of these kinds.                                     *)
LEMMA PagesAre ==
    DOMAIN Plan = ListPages \cup RecordReports \cup InvoiceReports \cup AgendaPages
                  \cup {"CaseDetailView", "CaseFinanceTab", "ClientDetailView",
                        "case_financials_report", "overview", "dashboard"}
  BY DEF Plan, ListPages, RecordReports, InvoiceReports, AgendaPages

(* The queries of the tabs, the dashboard and the agenda.                   *)
LEMMA PlansOfTabs ==
    /\ In(Plan["CaseDetailView"])
          = {"hearings", "case_tasks", "case_deadlines", "case_documents", "case_contracts"}
    /\ In(Plan["CaseFinanceTab"])
          = {"totals", "credited", "expenses", "case_invoices", "case_payments",
             "case_expenses"}
    /\ In(Plan["ClientDetailView"])
          = {"totals", "credited", "client_invoices", "client_payments",
             "client_documents", "client_contracts"}
    /\ In(Plan["dashboard"])
          = Blocks \cup {"active_cases", "urgent_cases", "overdue_tasks",
                         "expiring_contracts", "today_hearings", "total_clients",
                         "outstanding_invoices", "upcoming_deadlines", "case_total",
                         "by_status", "by_priority", "recent_cases",
                         "recent_activity"}
    /\ \A p \in AgendaPages : In(Plan[p])
          = {"hearings", "tasks", "deadlines", "contracts", "invoices"}
    /\ \A p \in {"case_financials_report", "overview"} :
          In(Plan[p]) = {"totals", "credited", "expenses"}
<1> USE DEF In
<1>1. In(<<"hearings", "case_tasks", "case_deadlines", "case_documents", "case_contracts">>)
          = {"hearings", "case_tasks", "case_deadlines", "case_documents", "case_contracts"}
  OBVIOUS
<1>2. In(<<"totals", "credited", "expenses", "case_invoices", "case_payments",
           "case_expenses">>)
          = {"totals", "credited", "expenses", "case_invoices", "case_payments",
             "case_expenses"}
  OBVIOUS
<1>3. In(<<"totals", "credited", "client_invoices", "client_payments",
           "client_documents", "client_contracts">>)
          = {"totals", "credited", "client_invoices", "client_payments",
             "client_documents", "client_contracts"}
  OBVIOUS
<1>4. In(build_dashboard) = Blocks \cup {"active_cases", "urgent_cases", "overdue_tasks",
                         "expiring_contracts", "today_hearings", "total_clients",
                         "outstanding_invoices", "upcoming_deadlines", "case_total",
                         "by_status", "by_priority", "recent_cases",
                         "recent_activity"}
  BY DEF build_dashboard, Blocks
<1>5. In(calendar_events) = {"hearings", "tasks", "deadlines", "contracts", "invoices"}
  BY DEF calendar_events
<1>6. In(<<"totals", "credited", "expenses">>) = {"totals", "credited", "expenses"}
  OBVIOUS
<1>q. QED
  <2>1. /\ Plan["CaseDetailView"] = <<"hearings", "case_tasks", "case_deadlines",
                                      "case_documents", "case_contracts">>
        /\ Plan["CaseFinanceTab"] = <<"totals", "credited", "expenses", "case_invoices",
                                      "case_payments", "case_expenses">>
        /\ Plan["ClientDetailView"] = <<"totals", "credited", "client_invoices",
                                        "client_payments", "client_documents",
                                        "client_contracts">>
        /\ Plan["dashboard"] = build_dashboard
        /\ \A p \in AgendaPages : Plan[p] = calendar_events
        /\ Plan["case_financials_report"] = <<"totals", "credited", "expenses">>
        /\ Plan["overview"] = <<"totals", "credited", "expenses">>
    BY DEF Plan, AgendaPages
  <2> HIDE DEF In
  <2>q. QED
    BY <1>1, <1>2, <1>3, <1>4, <1>5, <1>6, <2>1

(* What a page holds that nothing was committed beside, by its name.        *)
LEMMA QuietAnswers ==
    ASSUME PageInv, Quiet, NEW p, p = page.name
    PROVE  /\ p \in DOMAIN Plan
           /\ DOMAIN page.got = In(Plan[p])
           /\ \A q \in In(Plan[p]) : page.got[q] = Ask(p, q, page.filter)
           /\ page.filter \in Filters(p)
<1>1. PICK n \in DOMAIN Plan : \E f \in Filters(n) :
         /\ n = page.name /\ f = page.filter
         /\ DOMAIN page.got = In(Plan[n])
         /\ \A q \in DOMAIN page.got : page.got[q] = Ask(n, q, f)
  BY QuietPage
<1>q. QED
  BY <1>1

(* A page nothing was committed beside shows what can be opened.            *)
LEMMA LinksOpen == PageInv /\ LoggedExist => EveryLinkOpens
<1>0. ASSUME PageInv, LoggedExist, Quiet, page.name = "dashboard",
             NEW r \in Records, r \in page.got.recent_activity
      PROVE  Found(r) \/ (Exists(r) /\ row[r].gone)
  <2>1. page.got.recent_activity = Ask("dashboard", "recent_activity", page.filter)
    BY <1>0, QuietAnswers, PlansOfTabs
  <2>q. QED
    BY <1>0, <2>1, ActivityWasThere
<1>a. ASSUME PageInv, LoggedExist, Quiet, Opens(ShownRecords)
      PROVE  EveryLinkOpens
  <2>1. \A r \in ShownRecords : Found(r)
    BY <1>a DEF Opens, ShownRecords
  <2>q. QED
    BY <1>0, <1>a, <2>1 DEF EveryLinkOpens
<1> SUFFICES ASSUME PageInv, Quiet PROVE Opens(ShownRecords)
  BY <1>a DEF EveryLinkOpens
<1>1. PICK p \in DOMAIN Plan : \E f \in Filters(p) :
         /\ p = page.name /\ f = page.filter
         /\ DOMAIN page.got = In(Plan[p])
         /\ \A q \in DOMAIN page.got : page.got[q] = Ask(p, q, f)
  BY QuietPage
<1>2. PICK f \in Filters(p) :
         /\ p = page.name /\ f = page.filter
         /\ DOMAIN page.got = In(Plan[p])
         /\ \A q \in DOMAIN page.got : page.got[q] = Ask(p, q, f)
  BY <1>1
<1>3. CASE p \in ListPages \cup RecordReports \cup InvoiceReports
  <2>1. p \notin AgendaPages \cup {"dashboard", "CaseDetailView", "CaseFinanceTab",
                                    "ClientDetailView"}
    BY <1>3 DEF ListPages, RecordReports, InvoiceReports, AgendaPages
  <2>2. ShownRecords = Records \cap
           (IF "rows" \in DOMAIN page.got THEN DOMAIN page.got.rows ELSE {})
    BY <1>2, <2>1 DEF ShownRecords
  <2>3. Opens(DOMAIN Ask(p, "rows", f))
    <3>1. CASE p \in InvoiceReports
      BY <3>1, FinanceRowsAreInvoices, TablesAssumption DEF Opens, InvoiceReports
    <3>q. QED
      BY <1>3, <3>1, ListPagesOpen, ReportsOpen DEF ListPages, RecordReports
  <2>q. QED
    BY <1>2, <2>2, <2>3 DEF Opens
<1>4. CASE p = "dashboard"
  <2>1. ShownRecords = Records \cap UNION {page.got[q] : q \in ShownRows}
    BY <1>2, <1>4 DEF ShownRecords
  <2>2. \A q \in ShownRows : page.got[q] = Ask("dashboard", q, f)
    BY <1>2, <1>4, PlansOfTabs DEF ShownRows
  <2>q. QED
    BY <2>1, <2>2, BlocksOpen DEF Opens
<1>5. CASE p \in AgendaPages
  <2>1. ShownRecords = Records \cap UNION {page.got[q] : q \in DOMAIN page.got}
    BY <1>2, <1>5 DEF ShownRecords, AgendaPages
  <2>q. QED
    BY <1>2, <1>5, <2>1, EventsOpen DEF Opens
<1>6. CASE p \in {"CaseDetailView", "CaseFinanceTab", "ClientDetailView"}
  <2>1. ShownRecords = Records \cap UNION {DOMAIN page.got[q] :
                           q \in DOMAIN page.got \ {"totals", "credited", "expenses"}}
    BY <1>2, <1>6 DEF ShownRecords, AgendaPages
  <2>2. ASSUME NEW q \in DOMAIN page.got \ {"totals", "credited", "expenses"}
        PROVE  Opens(DOMAIN page.got[q])
    <3>1. page.got[q] = Ask(p, q, f)
      BY <1>2
    <3>0. \A S : S \subseteq Invoices => Opens(S)
      BY TablesAssumption DEF Opens
    <3>2. CASE p = "CaseDetailView"
      <4>1. q \in {"hearings", "case_tasks", "case_deadlines", "case_documents",
                   "case_contracts"}
        BY <1>2, <3>2, PlansOfTabs
      <4>q. QED
        BY <3>1, <3>2, <4>1, DetailsOpen
    <3>3. CASE p = "CaseFinanceTab"
      <4>1. q \in {"case_invoices", "case_payments", "case_expenses"}
        BY <1>2, <3>3, PlansOfTabs
      <4>q. QED
        BY <3>0, <3>1, <3>3, <4>1, DetailsOpen, FinanceRowsAreInvoices
    <3>4. CASE p = "ClientDetailView"
      <4>1. q \in {"client_invoices", "client_payments", "client_documents",
                   "client_contracts"}
        BY <1>2, <3>4, PlansOfTabs
      <4>q. QED
        BY <3>0, <3>1, <3>4, <4>1, DetailsOpen, FinanceRowsAreInvoices
    <3>q. QED
      BY <1>6, <3>2, <3>3, <3>4
  <2>q. QED
    BY <2>1, <2>2 DEF Opens
<1>7. CASE p \in {"case_financials_report", "overview"}
  <2>1. "rows" \notin DOMAIN page.got
    BY <1>2, <1>7, PlansOfTabs
  <2>q. QED
    BY <1>2, <1>7, <2>1 DEF ShownRecords, AgendaPages, Opens
<1>q. QED
  BY <1>3, <1>4, <1>5, <1>6, <1>7, PagesAre

(* The types of the office follow from the invariants of its parts.         *)
LEMMA TypesHold ==
    ASSUME RecordsTypeOK, ColumnsKept, TeamTypeOK, OfficeInv
    PROVE  OfficeTypeOK
<1>1. /\ state \in [Invoices -> {"unbilled", "open", "void"}]
      /\ \A i \in Invoices : collected[i] = gross[i] - reversed[i]
  BY DEF OfficeInv, BooksOK
<1>2. page # NoPage =>
         /\ page.filter \in Filters(page.name)
         /\ \E k \in 0 .. Len(Plan[page.name]) :
               DOMAIN page.got = {Plan[page.name][j] : j \in 1 .. k}
         /\ page.overlaps \in 0 .. MaxOverlaps
  BY DEF OfficeInv, PageInv
<1>q. QED
  BY <1>1, <1>2 DEF OfficeTypeOK

(* The tables keep their columns, an invoice the amount of its rows, and a  *)
(* page holds the answers to the first queries of its plan, for a filter    *)
(* its form can post.                                                       *)
THEOREM OfficeTypeCorrect == OfficeSpec => []OfficeTypeOK
  BY TypesHold, OfficeInvariant, OfficeImplementsRecords, RecordsInvariant,
     ColumnsInvariant, TeamInvariant, PTL DEF RecordsInv

(* Every record a page lists can be opened from it, unless it was removed   *)
(* while the page was read (_get_task, _get_document).  Of the links in the *)
(* recent activity of the dashboard, the ones that do not open are to       *)
(* records deleted or withdrawn since, never to one that was not there      *)
(* (_recent_activity).                                                      *)
THEOREM LinksLeadSomewhere == OfficeSpec => []EveryLinkOpens
<1>1. OfficeInv /\ LoggedExist => EveryLinkOpens
  BY LinksOpen DEF OfficeInv
<1>q. QED
  BY <1>1, OfficeInvariant, OfficeImplementsRecords, LoggedIsThere, PTL

(* A table has finitely many rows.                                          *)
LEMMA FiniteTables ==
    ASSUME NEW k \in DOMAIN Lifecycle
    PROVE  /\ Rows(k) \subseteq Records /\ IsFiniteSet(Rows(k))
           /\ Live(k) \subseteq Rows(k) /\ IsFiniteSet(Live(k))
<1>1. Rows(k) \subseteq Records /\ Live(k) \subseteq Rows(k)
  BY DEF Rows, Live, Table
<1>q. QED
  BY <1>1, TablesAreFinite, FS_Subset

(* The numbers and the blocks of the dashboard.                             *)
LEMMA DashboardAnswers ==
    ASSUME PageInv, Quiet, page.name = "dashboard"
    PROVE  /\ page.got.active_cases = Cardinality(open_cases)
           /\ page.got.urgent_cases = Cardinality({c \in open_cases : Urgent(c)})
           /\ page.got.overdue_tasks = Cardinality(overdue_tasks)
           /\ page.got.expiring_contracts = Cardinality(expiring_contracts)
           /\ page.got.high_priority_block =
                 {c \in open_cases : row[c].value \in {HIGH, URGENT}}
           /\ page.got.tasks_block = overdue_tasks
           /\ page.got.deadlines_block = overdue_deadlines
           /\ page.got.hearings_block = upcoming_hearings
           /\ page.got.contracts_block = expiring_contracts
           /\ page.got.invoices_block = overdue_invoices
           /\ page.got.total_clients = Cardinality(Rows("client"))
           /\ page.got.outstanding_invoices = Cardinality(Open)
           /\ page.got.upcoming_deadlines = upcoming_deadlines
           /\ page.got.recent_cases = open_cases
           /\ page.got.case_total = Cardinality(Rows("case"))
           /\ page.got.by_status = CountBy(Rows("case"), "case")
           /\ page.got.by_priority =
                 [v \in Values |-> Cardinality({c \in open_cases : row[c].value = v})]
<1>1. \A q \in In(Plan["dashboard"]) : page.got[q] = dashboard_query(q)
  BY QuietAnswers, AskIs
<1>2. \A q \in Blocks : page.got[q] = attention(q)
  BY <1>1, PlansOfTabs DEF dashboard_query, Blocks
<1>3. \A q \in {"active_cases", "urgent_cases", "overdue_tasks", "expiring_contracts",
                "total_clients", "outstanding_invoices", "upcoming_deadlines",
                "recent_cases", "case_total", "by_status", "by_priority"} :
         page.got[q] = dashboard_query(q)
  BY <1>1, PlansOfTabs
<1>4. /\ page.got.high_priority_block =
            {c \in open_cases : row[c].value \in {HIGH, URGENT}}
      /\ page.got.tasks_block = overdue_tasks
      /\ page.got.deadlines_block = overdue_deadlines
      /\ page.got.hearings_block = upcoming_hearings
      /\ page.got.contracts_block = expiring_contracts
      /\ page.got.invoices_block = overdue_invoices
  BY <1>2 DEF attention, Blocks
<1>5. /\ page.got.active_cases = Cardinality(open_cases)
      /\ page.got.urgent_cases = Cardinality({c \in open_cases : Urgent(c)})
      /\ page.got.overdue_tasks = Cardinality(overdue_tasks)
      /\ page.got.expiring_contracts = Cardinality(expiring_contracts)
  BY <1>3 DEF dashboard_query, shared_counts
<1>6. /\ page.got.total_clients = Cardinality(Rows("client"))
      /\ page.got.outstanding_invoices = Cardinality(Open)
      /\ page.got.upcoming_deadlines = upcoming_deadlines
      /\ page.got.recent_cases = open_cases
  BY <1>3 DEF dashboard_query, kpis, Blocks
<1>7. /\ page.got.case_total = Cardinality(Rows("case"))
      /\ page.got.by_status = CountBy(Rows("case"), "case")
      /\ page.got.by_priority =
            [v \in Values |-> Cardinality({c \in open_cases : row[c].value = v})]
  BY <1>3 DEF dashboard_query, case_analytics, Blocks
<1>q. QED
  BY <1>4, <1>5, <1>6, <1>7

(* The lists the tiles and blocks of the dashboard lead to.                 *)
LEMMA ListsOfTiles ==
    ASSUME BooksOK
    PROVE  /\ case_list(Chosen(FALSE)) = open_cases
           /\ case_list(Chosen(TRUE)) = {c \in open_cases : Urgent(c)}
           /\ task_list(Chosen(TRUE)) = overdue_tasks
           /\ deadline_list(Chosen(TRUE)) = overdue_deadlines
           /\ hearing_list(Chosen(FALSE)) = upcoming
           /\ contract_list(Chosen(TRUE)) = expiring_contracts
           /\ invoice_list(Chosen(TRUE)) = overdue_invoices
           /\ Open \subseteq invoice_list(Chosen(FALSE))
<1>1. /\ case_list(Chosen(FALSE)) = open_cases
      /\ case_list(Chosen(TRUE)) = {c \in open_cases : Urgent(c)}
  BY DEF case_list, Chosen, DefaultOpen, open_cases
<1>2. task_list(Chosen(TRUE)) = overdue_tasks
  BY DEF task_list, Chosen, DefaultOpen, overdue_tasks, NotIn
<1>3. deadline_list(Chosen(TRUE)) = overdue_deadlines
  BY DEF deadline_list, Chosen, DefaultOpen, overdue_deadlines, NotIn, DEADLINE_CLOSED
<1>4. contract_list(Chosen(TRUE)) = expiring_contracts
  BY DEF contract_list, Chosen, DefaultOpen, expiring_contracts, NotIn, CONTRACT_CLOSED
<1>5. /\ invoice_list(Chosen(TRUE)) = overdue_invoices
      /\ Open \subseteq invoice_list(Chosen(FALSE))
  BY DEF invoice_list, Chosen, overdue_invoices, Open, Issued, BooksOK
<1>6. hearing_list(Chosen(FALSE)) = upcoming
  BY DEF hearing_list, Chosen, Statused, upcoming
<1>q. QED
  BY <1>1, <1>2, <1>3, <1>4, <1>5, <1>6

(* The clients are those listed and the archived ones.                      *)
LEMMA ClientsListed ==
    Cardinality(Rows("client")) =
        Cardinality(client_list(Chosen(FALSE)))
        + Cardinality(client_list([Chosen(FALSE) EXCEPT !.status = "archived"]))
<1> DEFINE A == client_list(Chosen(FALSE))
           B == client_list([Chosen(FALSE) EXCEPT !.status = "archived"])
<1>1. A = {r \in Rows("client") : row[r].status \notin {"archived"}}
  BY DEF client_list, Chosen, DefaultOpen, NotIn
<1>2. B = {r \in Rows("client") : row[r].status = "archived"}
  BY DEF client_list, Chosen, DefaultOpen, Statused, None
<1> HIDE DEF A, B
<1>3. A \cup B = Rows("client") /\ A \cap B = {}
  BY <1>1, <1>2
<1>4. IsFiniteSet(A) /\ IsFiniteSet(B)
  BY <1>1, <1>2, FiniteTables, KindsAreListed, FS_Subset
<1>5. /\ Cardinality(A \cup B) = Cardinality(A) + Cardinality(B) - Cardinality(A \cap B)
      /\ Cardinality(A) \in Nat /\ Cardinality(B) \in Nat
  BY <1>4, FS_Union, FS_CardinalityType
<1>6. Cardinality(A \cap B) = 0
  BY <1>3, FS_EmptySet
<1>7. Cardinality(Rows("client")) = Cardinality(A) + Cardinality(B)
  <2>1. \A a, b \in Nat : a + b - 0 = a + b
    OBVIOUS
  <2>2. Cardinality(A \cup B) = Cardinality(A) + Cardinality(B)
    BY <1>5, <1>6, <2>1
  <2>q. QED
    BY <1>3, <2>2
<1>q. QED
  BY <1>7 DEF A, B

(* A date of a row is some days from today.                                 *)
LEMMA DaysToIsInt ==
    ASSUME RecordsTypeOK, NEW r \in Records
    PROVE  DaysTo(r) \in Int
<1>1. row[r].value \in Values \cup {0}
  BY DEF RecordsTypeOK, Row
<1>q. QED
  BY <1>1, DatesAssumption DEF DaysTo

(* Breakdowns that cover their rows.                                        *)
LEMMA CasesBrokenDown ==
    ASSUME RecordsTypeOK, ColumnsKept
    PROVE  /\ SumFunctionOnSet([v \in Values |->
                  Cardinality({c \in open_cases : row[c].value = v})], Values)
                = Cardinality(open_cases)
           /\ SumFunctionOnSet(CountBy(Rows("case"), "case"), Lifecycle["case"])
                = Cardinality(Rows("case"))
<1>1. "case" \in DOMAIN Lifecycle
  BY KindsAreListed
<1>2. \A c \in Rows("case") : row[c].value \in Values /\ row[c].status \in Lifecycle["case"]
  <2>1. \A c \in Rows("case") : c \in Records /\ KindOf[c] = "case" /\ Exists(c)
    BY <1>1 DEF Rows, Table
  <2>q. QED
    BY <1>1, <2>1, ColumnsSet DEF ColumnsKept
<1>3. IsFiniteSet(Rows("case")) /\ IsFiniteSet(open_cases) /\ open_cases \subseteq Rows("case")
  BY <1>1, FiniteTables, FS_Subset DEF open_cases, NotIn
<1>4. IsFiniteSet(Values) /\ IsFiniteSet(Lifecycle["case"])
  <2>0. \A S, x : IsFiniteSet(S) => IsFiniteSet(S \cup {x})
    BY FS_AddElement
  <2>1. IsFiniteSet((((({} \cup {"new"} \cup {"in_progress"}) \cup {"in_trial"})
                      \cup {"on_hold"}) \cup {"concluded"}) \cup {"closed"})
    BY <2>0, FS_EmptySet, Zenon
  <2>2. (((({} \cup {"new"} \cup {"in_progress"}) \cup {"in_trial"})
                      \cup {"on_hold"}) \cup {"concluded"}) \cup {"closed"} = CaseStatus
    BY DEF CaseStatus
  <2>q. QED
    BY <2>1, <2>2, TablesAreFinite DEF Lifecycle
<1>5. SumFunctionOnSet([v \in Values |->
          Cardinality({c \in open_cases : row[c].value = v})], Values)
        = Cardinality(open_cases)
  <2> DEFINE key == [c \in open_cases |-> row[c].value]
             counts == [v \in Values |-> Cardinality({c \in open_cases : row[c].value = v})]
  <2>1. \A c \in open_cases : key[c] \in Values
    BY <1>2, <1>3
  <2>2. ASSUME NEW v \in Values
        PROVE  counts[v] = Cardinality({c \in open_cases : key[c] = v})
    <3>1. {c \in open_cases : key[c] = v} = {c \in open_cases : row[c].value = v}
      OBVIOUS
    <3>q. QED
      BY <3>1
  <2> HIDE DEF key, counts
  <2>3. SumFunctionOnSet(counts, Values) = Cardinality(open_cases)
    <3>1. IsFiniteSet(open_cases) /\ IsFiniteSet(Values)
      BY <1>3, <1>4
    <3>2. \A v \in Values : counts[v] = Cardinality({c \in open_cases : key[c] = v})
      BY <2>2
    <3>q. QED
      BY <3>1, <3>2, <2>1, CountInGroups
  <2>q. QED
    BY <2>3 DEF counts
<1>6. SumFunctionOnSet(CountBy(Rows("case"), "case"), Lifecycle["case"])
        = Cardinality(Rows("case"))
  <2> DEFINE key == [c \in Rows("case") |-> row[c].status]
             counts == CountBy(Rows("case"), "case")
  <2>1. \A c \in Rows("case") : key[c] \in Lifecycle["case"]
    BY <1>2
  <2>2. ASSUME NEW v \in Lifecycle["case"]
        PROVE  counts[v] = Cardinality({c \in Rows("case") : key[c] = v})
    <3>1. {c \in Rows("case") : key[c] = v} = {c \in Rows("case") : row[c].status = v}
      OBVIOUS
    <3>q. QED
      BY <3>1 DEF CountBy
  <2> HIDE DEF key, counts
  <2>3. SumFunctionOnSet(counts, Lifecycle["case"]) = Cardinality(Rows("case"))
    BY <1>3, <1>4, <2>1, <2>2, CountInGroups
  <2>q. QED
    BY <2>3 DEF counts
<1>q. QED
  BY <1>5, <1>6

(* The dashboard agrees with itself, and relates to the lists it leads to.  *)
LEMMA TilesAgree ==
    ASSUME RecordsTypeOK, ColumnsKept, BooksOK, PageInv
    PROVE  DashboardAgrees
<1> SUFFICES ASSUME page.name = "dashboard" PROVE DashboardAgrees
  BY DEF DashboardAgrees
<1> DEFINE got == page.got
<1>1. "tasks_block" \in DOMAIN got =>
         kpi(got, "overdue_tasks") = attention_count(got, "tasks_block")
  BY DEF kpi, attention_count
<1>2. "contracts_block" \in DOMAIN got =>
         kpi(got, "expiring_contracts") = attention_count(got, "contracts_block")
  BY DEF kpi, attention_count
<1>3. ASSUME Quiet
      PROVE  /\ \A b \in Blocks : attention_count(got, b) = Cardinality(got[b])
             /\ kpi(got, "active_cases") = SumFunctionOnSet(got.by_priority, Values)
             /\ kpi(got, "active_cases") = Cardinality(got.recent_cases)
             /\ got.case_total = SumFunctionOnSet(got.by_status, Lifecycle["case"])
             /\ got.deadlines_block \subseteq got.upcoming_deadlines
  <2>1. kpi(got, "active_cases") = Cardinality(open_cases)
    BY <1>3, DashboardAnswers DEF kpi
  <2>2. \A b \in Blocks : attention_count(got, b) = Cardinality(got[b])
    BY <1>3, DashboardAnswers DEF attention_count
  <2>3. overdue_deadlines \subseteq upcoming_deadlines
    <3>1. ASSUME NEW r \in Records, PastDue(r) PROVE DaysTo(r) <= 14
      BY <3>1, DaysToIsInt DEF PastDue
    <3>2. Rows("deadline") \subseteq Records
      BY FiniteTables, KindsAreListed
    <3>q. QED
      BY <3>1, <3>2 DEF overdue_deadlines, upcoming_deadlines, DEADLINE_HORIZON_DAYS
  <2>q. QED
    BY <1>3, <2>1, <2>2, <2>3, DashboardAnswers, CasesBrokenDown
<1>4. ASSUME Quiet
      PROVE  /\ \A b \in {"tasks_block", "deadlines_block", "contracts_block",
                           "invoices_block"} : got[b] = LinkedList(b)
             /\ {c \in got.high_priority_block : Urgent(c)} =
                   LinkedList("high_priority_block")
             /\ got.hearings_block \subseteq LinkedList("hearings_block")
  <2>1. {c \in {c \in open_cases : row[c].value \in {HIGH, URGENT}} : Urgent(c)}
           = {c \in open_cases : Urgent(c)}
    BY DEF Urgent
  <2>2. upcoming_hearings \subseteq upcoming
    BY DEF upcoming_hearings
  <2>q. QED
    BY <1>4, <2>1, <2>2, DashboardAnswers, ListsOfTiles DEF LinkedList
<1>5. ASSUME Quiet
      PROVE  /\ kpi(got, "active_cases") = Cardinality(case_list(Chosen(FALSE)))
             /\ kpi(got, "urgent_cases") = Cardinality(case_list(Chosen(TRUE)))
             /\ kpi(got, "total_clients") =
                   Cardinality(client_list(Chosen(FALSE)))
                   + Cardinality(client_list([Chosen(FALSE) EXCEPT !.status = "archived"]))
             /\ kpi(got, "outstanding_invoices") =
                   Cardinality(Open \cap invoice_list(Chosen(FALSE)))
  <2>1. Open \cap invoice_list(Chosen(FALSE)) = Open
    BY ListsOfTiles
  <2>2. /\ kpi(got, "active_cases") = got.active_cases
        /\ kpi(got, "urgent_cases") = got.urgent_cases
        /\ kpi(got, "total_clients") = got.total_clients
        /\ kpi(got, "outstanding_invoices") = got.outstanding_invoices
    BY DEF kpi
  <2>q. QED
    BY <1>5, <2>1, <2>2, DashboardAnswers, ListsOfTiles, ClientsListed
<1> HIDE DEF got
<1>q. QED
  BY <1>1, <1>2, <1>3, <1>4, <1>5 DEF DashboardAgrees, got

(* A tile and the block about the same thing never disagree, whatever       *)
(* commits beside.  On a page nothing was committed beside, each block      *)
(* counts the rows it shows, and each number relates to the list it leads   *)
(* to: the same records for the blocks of tasks, deadlines, contracts and   *)
(* invoices and the tiles of cases; for the high-priority block a list of   *)
(* the urgent part, for the hearings of seven days a list that goes on, for *)
(* the clients one without the archived, and for the outstanding invoices   *)
(* one of them and others (_shared_counts, _attention, _kpis).              *)
THEOREM DashboardIsConsistent == OfficeSpec => []DashboardAgrees
<1>1. RecordsTypeOK /\ ColumnsKept /\ OfficeInv => DashboardAgrees
  BY TilesAgree DEF OfficeInv
<1>q. QED
  BY <1>1, OfficeInvariant, OfficeImplementsRecords, RecordsInvariant,
     ColumnsInvariant, PTL DEF RecordsInv

(* The queries of the reports.                                              *)
LEMMA PlansOfReports ==
    /\ \A p \in {"task_report", "deadline_report", "hearing_report"} :
          In(Plan[p]) = {"rows", "by_status"}
    /\ In(Plan["case_report"]) = {"rows", "by_status", "by_priority"}
    /\ In(Plan["client_report"]) = {"rows", "by_status", "total", "with_active"}
    /\ In(Plan["expense_report"]) = {"rows", "per_ccy", "per_ccy_cat"}
    /\ In(Plan["revenue_report"]) = {"rows", "totals", "credited", "counts", "count"}
    /\ In(Plan["payment_report"]) = {"rows", "gross", "revs"}
    /\ In(Plan["outstanding_report"]) = {"rows", "totals", "credited"}
    /\ \A p \in ListPages \cup {"InvoiceListView", "PaymentListView"} :
          In(Plan[p]) = {"count", "rows"}
<1> USE DEF In
<1>1. In(Breakdown) = {"rows", "by_status"} /\ In(Listing) = {"count", "rows"}
  BY DEF Breakdown, Listing
<1>2. In(<<"rows", "by_status", "by_priority">>) = {"rows", "by_status", "by_priority"}
  OBVIOUS
<1>3. In(<<"rows", "by_status", "total", "with_active">>)
         = {"rows", "by_status", "total", "with_active"}
  OBVIOUS
<1>4. In(<<"rows", "per_ccy", "per_ccy_cat">>) = {"rows", "per_ccy", "per_ccy_cat"}
  OBVIOUS
<1>5. In(<<"rows", "totals", "credited", "counts", "count">>)
         = {"rows", "totals", "credited", "counts", "count"}
  OBVIOUS
<1>6. In(<<"rows", "gross", "revs">>) = {"rows", "gross", "revs"}
  OBVIOUS
<1>7. In(<<"rows", "totals", "credited">>) = {"rows", "totals", "credited"}
  OBVIOUS
<1>8. /\ \A p \in {"task_report", "deadline_report", "hearing_report"} : Plan[p] = Breakdown
      /\ Plan["case_report"] = <<"rows", "by_status", "by_priority">>
      /\ Plan["client_report"] = <<"rows", "by_status", "total", "with_active">>
      /\ Plan["expense_report"] = <<"rows", "per_ccy", "per_ccy_cat">>
      /\ Plan["revenue_report"] = <<"rows", "totals", "credited", "counts", "count">>
      /\ Plan["payment_report"] = <<"rows", "gross", "revs">>
      /\ Plan["outstanding_report"] = <<"rows", "totals", "credited">>
      /\ \A p \in ListPages \cup {"InvoiceListView", "PaymentListView"} : Plan[p] = Listing
  BY DEF Plan, ListPages, payment_queries
<1> HIDE DEF In
<1>q. QED
  BY <1>1, <1>2, <1>3, <1>4, <1>5, <1>6, <1>7, <1>8

(* The breakdown by status of the rows shown.                               *)
LEMMA CountsTheRows ==
    ASSUME NEW S, NEW k, NEW s \in Lifecycle[k]
    PROVE  CountBy(S, k)[s] = Cardinality(Having(ShowRows(S), s))
<1>1. Having(ShowRows(S), s) = {r \in S : row[r].status = s}
  BY DEF Having, ShowRows
<1>q. QED
  BY <1>1 DEF CountBy

(* Each report counts its rows by status.                                   *)
LEMMA StatusesAddUp ==
    ASSUME NEW f, NEW p \in {"task_report", "deadline_report", "hearing_report",
                             "case_report", "client_report"}
    PROVE  \A s \in DOMAIN Ask(p, "by_status", f) :
              Ask(p, "by_status", f)[s] = Cardinality(Having(Ask(p, "rows", f), s))
<1>0. \A S, k : DOMAIN CountBy(S, k) = Lifecycle[k]
  BY DEF CountBy
<1>1. ASSUME NEW S, NEW k,
             Ask(p, "rows", f) = ShowRows(S), Ask(p, "by_status", f) = CountBy(S, k)
      PROVE  \A s \in DOMAIN Ask(p, "by_status", f) :
                Ask(p, "by_status", f)[s] = Cardinality(Having(Ask(p, "rows", f), s))
  BY <1>0, <1>1, CountsTheRows
<1>2. CASE p \in {"task_report", "deadline_report", "hearing_report", "case_report"}
  <2> DEFINE late == {r \in Live("task") : row[r].status \in {"new", "in_progress"}
                                           /\ PastDue(r)}
             tasks == {r \in Statused(Live("task"), f) : f.only => r \in late}
             deadlines == {r \in Statused(Rows("deadline"), f) :
                              f.only => row[r].status = "pending" /\ PastDue(r)}
             cases == IF f.status # None THEN Statused(Rows("case"), f)
                      ELSE IF f.only THEN NotIn(Rows("case"), TERMINAL_STATUSES)
                      ELSE Rows("case")
             hearings == Statused(Rows("hearing"), f)
  <2>1. /\ build_task_report("rows", f) = ShowRows(tasks)
        /\ build_task_report("by_status", f) = CountBy(tasks, "task")
    BY DEF build_task_report
  <2>2. /\ build_deadline_report("rows", f) = ShowRows(deadlines)
        /\ build_deadline_report("by_status", f) = CountBy(deadlines, "deadline")
    BY DEF build_deadline_report
  <2>3. /\ build_case_report("rows", f) = ShowRows(cases)
        /\ build_case_report("by_status", f) = CountBy(cases, "case")
    BY DEF build_case_report
  <2>4. /\ build_hearing_report("rows", f) = ShowRows(hearings)
        /\ build_hearing_report("by_status", f) = CountBy(hearings, "hearing")
    BY DEF build_hearing_report
  <2> HIDE DEF tasks, deadlines, cases, hearings
  <2>5. CASE p = "task_report"
    <3>1. Ask(p, "rows", f) = ShowRows(tasks) /\ Ask(p, "by_status", f) = CountBy(tasks, "task")
      BY <2>1, <2>5, AskIs
    <3>q. QED
      BY <1>1, <3>1
  <2>6. CASE p = "deadline_report"
    <3>1. /\ Ask(p, "rows", f) = ShowRows(deadlines)
          /\ Ask(p, "by_status", f) = CountBy(deadlines, "deadline")
      BY <2>2, <2>6, AskIs
    <3>q. QED
      BY <1>1, <3>1
  <2>7. CASE p = "case_report"
    <3>1. Ask(p, "rows", f) = ShowRows(cases) /\ Ask(p, "by_status", f) = CountBy(cases, "case")
      BY <2>3, <2>7, AskIs
    <3>q. QED
      BY <1>1, <3>1
  <2>8. CASE p = "hearing_report"
    <3>1. /\ Ask(p, "rows", f) = ShowRows(hearings)
          /\ Ask(p, "by_status", f) = CountBy(hearings, "hearing")
      BY <2>4, <2>8, AskIs
    <3>q. QED
      BY <1>1, <3>1
  <2>q. QED
    BY <1>2, <2>5, <2>6, <2>7, <2>8
<1>3. CASE p = "client_report"
  <2> DEFINE base == {l \in Statused(Rows("client"), f) :
                         f.only => l \in {m \in Rows("client") : ActiveCases(m) # {}}}
             rows == [l \in base |-> [status |-> row[l].status,
                                      active |-> Cardinality(ActiveCases(l))]]
  <2>1. Ask(p, "rows", f) = rows /\ Ask(p, "by_status", f) = CountBy(base, "client")
    BY <1>3, AskIs DEF build_client_report
  <2>2. ASSUME NEW s \in Lifecycle["client"]
        PROVE  CountBy(base, "client")[s] = Cardinality(Having(rows, s))
    <3>1. Having(rows, s) = {r \in base : row[r].status = s}
      BY DEF Having
    <3> HIDE DEF base
    <3>q. QED
      BY <3>1 DEF CountBy
  <2> HIDE DEF base, rows
  <2>q. QED
    BY <1>0, <2>1, <2>2
<1>q. QED
  BY <1>2, <1>3

(* The case report counts them by priority.                                 *)
LEMMA PrioritiesAddUp ==
    ASSUME NEW f, NEW v \in DOMAIN Ask("case_report", "by_priority", f)
    PROVE  LET rows == Ask("case_report", "rows", f)
           IN  Ask("case_report", "by_priority", f)[v] =
                  Cardinality({r \in DOMAIN rows : rows[r].value = v})
<1> DEFINE qs == IF f.status # None THEN Statused(Rows("case"), f)
                 ELSE IF f.only THEN NotIn(Rows("case"), TERMINAL_STATUSES)
                 ELSE Rows("case")
<1>1. /\ Ask("case_report", "rows", f) = ShowRows(qs)
      /\ Ask("case_report", "by_priority", f) =
            [w \in Values |-> Cardinality({r \in qs : row[r].value = w})]
  BY AskIs DEF build_case_report
<1>2. {r \in DOMAIN ShowRows(qs) : ShowRows(qs)[r].value = v} = {r \in qs : row[r].value = v}
  BY DEF ShowRows
<1> HIDE DEF qs
<1>q. QED
  BY <1>1, <1>2

(* The client report counts its clients, and those with active cases.       *)
LEMMA ClientsAddUp ==
    ASSUME NEW f
    PROVE  LET rows == Ask("client_report", "rows", f)
           IN  /\ Ask("client_report", "total", f) = Cardinality(DOMAIN rows)
               /\ Ask("client_report", "with_active", f) =
                     Cardinality({l \in DOMAIN rows : rows[l].active > 0})
<1> DEFINE with == {m \in Rows("client") : ActiveCases(m) # {}}
           base == {l \in Statused(Rows("client"), f) : f.only => l \in with}
           rows == [l \in base |-> [status |-> row[l].status,
                                    active |-> Cardinality(ActiveCases(l))]]
<1>1. /\ Ask("client_report", "rows", f) = rows
      /\ Ask("client_report", "total", f) = Cardinality(base)
      /\ Ask("client_report", "with_active", f) = Cardinality(base \cap with)
  <2>1. build_client_report("rows", f) = rows
    BY DEF build_client_report
  <2>2. build_client_report("total", f) = Cardinality(base)
    BY DEF build_client_report
  <2>3. build_client_report("with_active", f) = Cardinality(base \cap with)
    BY DEF build_client_report
  <2> HIDE DEF rows, base, with
  <2>q. QED
    BY <2>1, <2>2, <2>3, AskIs
<1>2. ASSUME NEW l PROVE ActiveCases(l) # {} <=> Cardinality(ActiveCases(l)) > 0
  <2>1. IsFiniteSet(Rows("case")) /\ ActiveCases(l) \subseteq Rows("case")
    BY FiniteTables, KindsAreListed DEF ActiveCases, NotIn
  <2>2. IsFiniteSet(ActiveCases(l))
    BY <2>1, FS_Subset
  <2>q. QED
    BY <2>2, FS_CardinalityType, FS_EmptySet
<1>3. \A l \in base : rows[l].active > 0 <=> l \in with
  BY <1>2 DEF Statused
<1>4. {l \in DOMAIN rows : rows[l].active > 0} = base \cap with
  <2>1. DOMAIN rows = base
    OBVIOUS
  <2> HIDE DEF base, rows, with
  <2>q. QED
    BY <1>3, <2>1
<1>5. DOMAIN rows = base
  OBVIOUS
<1> HIDE DEF base, rows, with
<1>q. QED
  BY <1>1, <1>4, <1>5

(* A finite set has finitely many keys.                                     *)
LEMMA KeysFinite ==
    ASSUME NEW S, IsFiniteSet(S), NEW key
    PROVE  IsFiniteSet({key[x] : x \in S})
<1> DEFINE K == {key[x] : x \in S}
           f == [x \in S |-> key[x]]
<1>1. f \in Surjection(S, K)
  BY DEF Surjection
<1>q. QED
  BY <1>1, FS_Surjection

(* Some lines of a query of sums come to the sum over the rows they stand   *)
(* for.                                                                     *)
LEMMA LinesAddUp ==
    ASSUME NEW S, IsFiniteSet(S), NEW amount, \A x \in S : amount[x] \in Int,
           NEW key, NEW sums, sums = Sums(S, key, amount),
           NEW K, K \subseteq DOMAIN sums,
           NEW T, \A x : x \in T <=> x \in S /\ key[x] \in K
    PROVE  SumFunctionOnSet(sums, K) = SumFunctionOnSet(amount, T)
<1>1. IsFiniteSet(T) /\ \A x \in T : amount[x] \in Int
  <2>1. T \subseteq S
    OBVIOUS
  <2>q. QED
    BY <2>1, FS_Subset
<1>2. DOMAIN sums = {key[x] : x \in S}
  BY DEF Sums
<1>3. IsFiniteSet(K)
  BY <1>2, KeysFinite, FS_Subset
<1>4. \A x \in T : key[x] \in K
  OBVIOUS
<1>5. ASSUME NEW k \in K
      PROVE  sums[k] = SumFunctionOnSet(amount, {x \in T : key[x] = k})
  <2> DEFINE U == {x \in T : key[x] = k}
  <2>1. \A x : x \in U <=> x \in S /\ key[x] = k
    OBVIOUS
  <2> HIDE DEF U
  <2>2. Sums(S, key, amount)[k] = SumFunctionOnSet(amount, U)
    BY <2>1, ShownLineIsSum
  <2>q. QED
    BY <2>2 DEF U
<1>6. \A k \in K : sums[k] = SumFunctionOnSet(amount, {x \in T : key[x] = k})
  BY <1>5
<1>q. QED
  BY <1>1, <1>3, <1>4, <1>6, SumInGroups, SMTT(60)

(* Sums by a pair of columns add up to the sum by the first.                *)
LEMMA GroupedAgain ==
    ASSUME NEW S, IsFiniteSet(S), NEW amount, \A x \in S : amount[x] \in Int,
           NEW key, NEW pair, \A x \in S : pair[x][1] = key[x],
           NEW c \in DOMAIN Sums(S, key, amount), NEW K,
           \A k : k \in K <=> k \in DOMAIN Sums(S, pair, amount) /\ k[1] = c
    PROVE  Sums(S, key, amount)[c] = SumFunctionOnSet(Sums(S, pair, amount), K)
<1> DEFINE T == {x \in S : key[x] = c}
<1>1. \A x : x \in T <=> x \in S /\ key[x] = c
  OBVIOUS
<1>2. \A x : x \in T <=> x \in S /\ pair[x] \in K
  BY DEF Sums
<1>3. K \subseteq DOMAIN Sums(S, pair, amount)
  OBVIOUS
<1> HIDE DEF T
<1>4. Sums(S, key, amount)[c] = SumFunctionOnSet(amount, T)
  BY <1>1, ShownLineIsSum
<1>5. SumFunctionOnSet(Sums(S, pair, amount), K) = SumFunctionOnSet(amount, T)
  BY <1>2, <1>3, LinesAddUp
<1>q. QED
  BY <1>4, <1>5

(* The amounts of the expenses, in the table and in the rows of a page.     *)
LEMMA AmountsShown ==
    ASSUME RecordsTypeOK, NEW S \in SUBSET Records, NEW c
    PROVE  /\ IsFiniteSet(S) /\ \A e \in S : Amount[e] \in Int
           /\ SumFunctionOnSet(Amount, {e \in S : ExpenseCcy[e] = c})
                = SumFunctionOnSet(Column(ShowRows(S), "value"),
                      {e \in DOMAIN ShowRows(S) : ExpenseCcy[e] = c})
<1> DEFINE T == {e \in S : ExpenseCcy[e] = c}
           col == Column(ShowRows(S), "value")
<1>1. IsFiniteSet(S) /\ IsFiniteSet(T)
  <2>1. T \subseteq Records
    OBVIOUS
  <2> HIDE DEF T
  <2>q. QED
    BY <2>1, TablesAreFinite, FS_Subset
<1>2. \A e \in S : Amount[e] \in Int
  <2>1. \A e \in S : row[e] \in Row
    BY DEF RecordsTypeOK
  <2>2. \A e \in S : row[e].value \in Values \cup {0}
    BY <2>1 DEF Row
  <2>3. \A e \in S : Amount[e] = row[e].value
    BY DEF Amount
  <2>4. Values \cup {0} \subseteq Int
    BY KindsAssumption
  <2>q. QED
    BY <2>2, <2>3, <2>4
<1>3. DOMAIN ShowRows(S) = S /\ \A e \in T : col[e] = Amount[e]
  BY DEF ShowRows, Column, Amount
<1> HIDE DEF T, col
<1>4. SumFunctionOnSet(Amount, T) = SumFunctionOnSet(col, T)
  BY <1>1, <1>3, SumSame
<1>q. QED
  BY <1>1, <1>2, <1>3, <1>4 DEF T, col

(* The expense report sums its rows by currency, and so do its categories.  *)
LEMMA ExpensesAddUp ==
    ASSUME RecordsTypeOK, NEW f, NEW c \in DOMAIN Ask("expense_report", "per_ccy", f)
    PROVE  LET rows == Ask("expense_report", "rows", f)
               per_ccy_cat == Ask("expense_report", "per_ccy_cat", f)
           IN  /\ Ask("expense_report", "per_ccy", f)[c] =
                     SumFunctionOnSet(Column(rows, "value"),
                         {e \in DOMAIN rows : ExpenseCcy[e] = c})
               /\ Ask("expense_report", "per_ccy", f)[c] =
                     SumFunctionOnSet(per_ccy_cat, {k \in DOMAIN per_ccy_cat : k[1] = c})
<1> DEFINE S == case_expenses(f)
           T == {e \in S : ExpenseCcy[e] = c}
<1>1. /\ Ask("expense_report", "rows", f) = ShowRows(S)
      /\ Ask("expense_report", "per_ccy", f) = Sums(S, ExpenseCcy, Amount)
      /\ Ask("expense_report", "per_ccy_cat", f) = Sums(S, CcyAndCategory, Amount)
  BY AskIs DEF build_expense_report
<1>2. S \in SUBSET Records
  BY KindsAreListed, FiniteTables DEF case_expenses, Of
<1> HIDE DEF S
<1>3. IsFiniteSet(S) /\ \A e \in S : Amount[e] \in Int
  BY <1>2, AmountsShown
<1>4. Sums(S, ExpenseCcy, Amount)[c] = SumFunctionOnSet(Amount, T)
  <2>1. \A x : x \in T <=> x \in S /\ ExpenseCcy[x] = c
    OBVIOUS
  <2>2. c \in DOMAIN Sums(S, ExpenseCcy, Amount)
    BY <1>1
  <2> HIDE DEF T
  <2>q. QED
    BY <2>1, <2>2, ShownLineIsSum
<1>5. \A e \in S : CcyAndCategory[e][1] = ExpenseCcy[e]
  BY <1>2 DEF CcyAndCategory
<1>6. Sums(S, ExpenseCcy, Amount)[c]
         = SumFunctionOnSet(Sums(S, CcyAndCategory, Amount),
               {k \in DOMAIN Sums(S, CcyAndCategory, Amount) : k[1] = c})
  <2> DEFINE K == {k \in DOMAIN Sums(S, CcyAndCategory, Amount) : k[1] = c}
  <2>1. \A k : k \in K <=> k \in DOMAIN Sums(S, CcyAndCategory, Amount) /\ k[1] = c
    OBVIOUS
  <2>2. c \in DOMAIN Sums(S, ExpenseCcy, Amount)
    BY <1>1
  <2> HIDE DEF K
  <2>3. Sums(S, ExpenseCcy, Amount)[c]
           = SumFunctionOnSet(Sums(S, CcyAndCategory, Amount), K)
    BY <1>3, <1>5, <2>1, <2>2, GroupedAgain
  <2>q. QED
    BY <2>3 DEF K
<1>7. SumFunctionOnSet(Amount, {e \in S : ExpenseCcy[e] = c})
         = SumFunctionOnSet(Column(ShowRows(S), "value"),
               {e \in DOMAIN ShowRows(S) : ExpenseCcy[e] = c})
  BY <1>2, AmountsShown
<1>q. QED
  BY <1>1, <1>4, <1>6, <1>7

(* Which pages break their rows down by status.                             *)
LEMMA BrokenDown ==
    ASSUME NEW p \in DOMAIN Plan, {"rows", "by_status"} \subseteq In(Plan[p])
    PROVE  p \in {"task_report", "deadline_report", "hearing_report", "case_report",
                  "client_report"}
<1>1. CASE p \in ListPages
  BY <1>1, PlansOfReports
<1>2. CASE p \in RecordReports
  BY <1>2, PlansOfReports DEF RecordReports
<1>3. CASE p \in InvoiceReports
  BY <1>3, PlansOfReports DEF InvoiceReports
<1>4. CASE p = "dashboard"
  BY <1>4, PlansOfTabs DEF Blocks
<1>5. CASE p \in AgendaPages \cup {"CaseDetailView", "CaseFinanceTab", "ClientDetailView",
                                    "case_financials_report", "overview"}
  BY <1>5, PlansOfTabs
<1>q. QED
  BY <1>1, <1>2, <1>3, <1>4, <1>5, PagesAre

(* The breakdowns of a report nothing was committed beside count its rows.  *)
LEMMA RowsAddUp ==
    ASSUME RecordsTypeOK, PageInv
    PROVE  ReportsAddUp
<1> SUFFICES ASSUME Quiet PROVE ReportsAddUp
  BY DEF ReportsAddUp
<1> DEFINE got == page.got
           f == page.filter
<1>1. \A p : p = page.name => /\ p \in DOMAIN Plan
                              /\ DOMAIN got = In(Plan[p])
                              /\ \A q \in In(Plan[p]) : got[q] = Ask(p, q, f)
  BY QuietAnswers
<1> HIDE DEF got, f
<1>2. ASSUME {"rows", "by_status"} \subseteq DOMAIN got, NEW s \in DOMAIN got.by_status
      PROVE  got.by_status[s] = Cardinality(Having(got.rows, s))
  <2>1. PICK p : p = page.name
    OBVIOUS
  <2>2. p \in {"task_report", "deadline_report", "hearing_report", "case_report",
               "client_report"}
    BY <1>1, <1>2, <2>1, BrokenDown
  <2>3. got.rows = Ask(p, "rows", f) /\ got.by_status = Ask(p, "by_status", f)
    BY <1>1, <1>2, <2>1
  <2>q. QED
    BY <1>2, <2>2, <2>3, StatusesAddUp
<1>3. ASSUME page.name = "case_report", NEW v \in DOMAIN got.by_priority
      PROVE  got.by_priority[v] =
                Cardinality({r \in DOMAIN got.rows : got.rows[r].value = v})
  <2>1. /\ got.rows = Ask("case_report", "rows", f)
        /\ got.by_priority = Ask("case_report", "by_priority", f)
    BY <1>1, <1>3, PlansOfReports
  <2>q. QED
    BY <1>3, <2>1, PrioritiesAddUp
<1>4. ASSUME page.name = "client_report"
      PROVE  /\ got.total = Cardinality(DOMAIN got.rows)
             /\ got.with_active =
                   Cardinality({l \in DOMAIN got.rows : got.rows[l].active > 0})
  <2>1. /\ got.rows = Ask("client_report", "rows", f)
        /\ got.total = Ask("client_report", "total", f)
        /\ got.with_active = Ask("client_report", "with_active", f)
    BY <1>1, <1>4, PlansOfReports
  <2>q. QED
    BY <2>1, ClientsAddUp
<1>5. ASSUME page.name = "expense_report", NEW c \in DOMAIN got.per_ccy
      PROVE  /\ got.per_ccy[c] =
                   SumFunctionOnSet(Column(got.rows, "value"),
                       {e \in DOMAIN got.rows : ExpenseCcy[e] = c})
             /\ got.per_ccy[c] =
                   SumFunctionOnSet(got.per_ccy_cat,
                       {k \in DOMAIN got.per_ccy_cat : k[1] = c})
  <2>1. /\ got.rows = Ask("expense_report", "rows", f)
        /\ got.per_ccy = Ask("expense_report", "per_ccy", f)
        /\ got.per_ccy_cat = Ask("expense_report", "per_ccy_cat", f)
    BY <1>1, <1>5, PlansOfReports
  <2>q. QED
    BY <1>5, <2>1, ExpensesAddUp
<1>q. QED
  BY <1>2, <1>3, <1>4, <1>5 DEF ReportsAddUp, got

(* The rows of a report nothing was committed beside are what each of its   *)
(* breakdowns counts or sums (_counts, build_client_report,                 *)
(* build_expense_report).                                                   *)
THEOREM ReportsAreConsistent == OfficeSpec => []ReportsAddUp
<1>1. RecordsTypeOK /\ OfficeInv => ReportsAddUp
  BY RowsAddUp DEF OfficeInv
<1>q. QED
  BY <1>1, OfficeInvariant, OfficeImplementsRecords, RecordsInvariant, PTL DEF RecordsInv

(* A sum of zeros.                                                          *)
LEMMA SumZero ==
    ASSUME NEW f, NEW S, IsFiniteSet(S), \A x \in S : f[x] = 0
    PROVE  SumFunctionOnSet(f, S) = 0
<1>1. \A x \in S : f[x] \in Int /\ f[x] \in Int /\ f[x] = f[x] + f[x]
  OBVIOUS
<1>2. SumFunctionOnSet(f, S) = SumFunctionOnSet(f, S) + SumFunctionOnSet(f, S)
  BY <1>1, SumOfSums
<1>3. SumFunctionOnSet(f, S) \in Int
  BY <1>1, SumRemove
<1>4. \A n \in Int : n = n + n => n = 0
  OBVIOUS
<1>q. QED
  BY <1>2, <1>3, <1>4

(* Rows that add nothing can be left out.                                   *)
LEMMA SumOfRest ==
    ASSUME NEW f, NEW S, IsFiniteSet(S), NEW T \in SUBSET S,
           \A x \in S : f[x] \in Int, \A x \in S : x \notin T => f[x] = 0
    PROVE  SumFunctionOnSet(f, T) = SumFunctionOnSet(f, S)
<1>1. IsFiniteSet(T) /\ IsFiniteSet(S \ T)
  BY FS_Subset
<1>2. S = T \cup (S \ T) /\ T \cap (S \ T) = {}
  OBVIOUS
<1>3. SumFunctionOnSet(f, S) = SumFunctionOnSet(f, T) + SumFunctionOnSet(f, S \ T)
  <2>1. \A x \in T \cup (S \ T) : f[x] \in Int
    OBVIOUS
  <2>q. QED
    BY <1>1, <1>2, <2>1, SumUnion
<1>4. SumFunctionOnSet(f, S \ T) = 0
  <2>1. \A x \in S \ T : f[x] = 0
    OBVIOUS
  <2>q. QED
    BY <1>1, <2>1, SumZero
<1>5. SumFunctionOnSet(f, T) \in Int
  <2>1. \A x \in T : f[x] \in Int
    OBVIOUS
  <2>q. QED
    BY <1>1, <2>1, SumRemove
<1>q. QED
  BY <1>3, <1>4, <1>5

(* A sum by a key that can take the values of K.                            *)
LEMMA SumByKey ==
    ASSUME NEW S, IsFiniteSet(S), NEW K, IsFiniteSet(K), NEW key \in [S -> K],
           NEW f, \A x \in S : f[x] \in Int, NEW sums,
           \A k \in K : \A T :
              (\A x : x \in T <=> x \in S /\ key[x] = k)
                 => sums[k] = SumFunctionOnSet(f, T)
    PROVE  SumFunctionOnSet(sums, K) = SumFunctionOnSet(f, S)
<1>1. ASSUME NEW k \in K
      PROVE  sums[k] = SumFunctionOnSet(f, {x \in S : key[x] = k})
  <2> DEFINE U == {x \in S : key[x] = k}
  <2>1. \A x : x \in U <=> x \in S /\ key[x] = k
    OBVIOUS
  <2> HIDE DEF U
  <2>2. sums[k] = SumFunctionOnSet(f, U)
    BY <2>1
  <2>q. QED
    BY <2>2 DEF U
<1>2. \A k \in K : sums[k] = SumFunctionOnSet(f, {x \in S : key[x] = k})
  BY <1>1
<1>3. \A x \in S : key[x] \in K
  OBVIOUS
<1>q. QED
  BY <1>2, <1>3, SumInGroups, SMTT(60)

(* What each invoice leaves to pay.                                         *)
Left == [i \in Invoices |-> outstanding(i)]

(* What an invoice leaves to pay.                                           *)
LEMMA LeftIs ==
    ASSUME BooksOK, NEW i \in Invoices
    PROVE  /\ Left[i] \in Nat
           /\ billed[i] - waived[i] - collected[i] <= Left[i]
           /\ collected[i] <= credited_total(i) =>
                 Left[i] = billed[i] - waived[i] - collected[i]
  BY DEF BooksOK, Left, outstanding, credited_total, Floor

(* A set of invoices is finite, and its columns are numbers.                *)
LEMMA SomeInvoices ==
    ASSUME BooksOK, NEW T \in SUBSET Invoices
    PROVE  /\ IsFiniteSet(T)
           /\ SumFunctionOnSet(billed, T) \in Int /\ SumFunctionOnSet(waived, T) \in Int
           /\ SumFunctionOnSet(collected, T) \in Int /\ SumFunctionOnSet(Left, T) \in Nat
<1>1. IsFiniteSet(T)
  BY InvoicesAssumption, FS_Subset
<1>2. /\ \A i \in T : billed[i] \in Int
      /\ \A i \in T : waived[i] \in Int
      /\ \A i \in T : collected[i] \in Int
  BY DEF BooksOK
<1>3. \A i \in T : Left[i] \in Nat
  BY LeftIs
<1>q. QED
  BY <1>1, <1>2, <1>3, SumRemove, SumNat

(* What remains of a currency, worked out from its sums, is at most what    *)
(* its invoices leave, and exactly that when none was paid beyond its       *)
(* credited total.                                                          *)
LEMMA WhatRemains ==
    ASSUME BooksOK, NEW T \in SUBSET Invoices
    PROVE  LET n == Floor(SumFunctionOnSet(billed, T) - SumFunctionOnSet(waived, T)
                             - SumFunctionOnSet(collected, T))
           IN  /\ n <= SumFunctionOnSet(Left, T)
               /\ (\A i \in T : collected[i] <= credited_total(i))
                     => n = SumFunctionOnSet(Left, T)
<1> DEFINE spent == [i \in Invoices |-> waived[i] + collected[i]]
           rest == [i \in Invoices |-> billed[i] - waived[i] - collected[i]]
<1>1. IsFiniteSet(T)
  BY SomeInvoices
<1>2. \A i \in T : /\ billed[i] \in Int /\ waived[i] \in Int /\ collected[i] \in Int
                   /\ spent[i] \in Int /\ rest[i] \in Int /\ Left[i] \in Int
                   /\ spent[i] = waived[i] + collected[i]
                   /\ billed[i] = rest[i] + spent[i]
                   /\ rest[i] <= Left[i]
                   /\ collected[i] <= credited_total(i) => rest[i] = Left[i]
  BY LeftIs DEF BooksOK
<1> HIDE DEF spent, rest
<1>3. SumFunctionOnSet(spent, T)
         = SumFunctionOnSet(waived, T) + SumFunctionOnSet(collected, T)
  BY <1>1, <1>2, SumOfSums
<1>4. SumFunctionOnSet(billed, T)
         = SumFunctionOnSet(rest, T) + SumFunctionOnSet(spent, T)
  BY <1>1, <1>2, SumOfSums
<1>5. SumFunctionOnSet(rest, T) <= SumFunctionOnSet(Left, T)
  BY <1>1, <1>2, SumMonotonic
<1>6. ASSUME \A i \in T : collected[i] <= credited_total(i)
      PROVE  SumFunctionOnSet(rest, T) = SumFunctionOnSet(Left, T)
  <2>1. \A i \in T : rest[i] = Left[i]
    BY <1>2, <1>6
  <2>q. QED
    BY <1>1, <2>1, SumSame
<1>7. /\ SumFunctionOnSet(billed, T) \in Int /\ SumFunctionOnSet(waived, T) \in Int
      /\ SumFunctionOnSet(collected, T) \in Int /\ SumFunctionOnSet(Left, T) \in Nat
      /\ SumFunctionOnSet(rest, T) \in Int /\ SumFunctionOnSet(spent, T) \in Int
  <2>1. \A i \in T : rest[i] \in Int
    BY <1>2
  <2>2. \A i \in T : spent[i] \in Int
    BY <1>2
  <2>q. QED
    BY <1>1, <2>1, <2>2, SomeInvoices, SumRemove
<1>q. QED
  BY <1>3, <1>4, <1>5, <1>6, <1>7 DEF Floor

(* The columns of the invoices and payments a page shows.                   *)
LEMMA InvoiceColumns ==
    ASSUME BooksOK, NEW S \in SUBSET Invoices, NEW rows, DOMAIN rows = S,
           \A i \in S : rows[i] = InvoiceRow(i),
           NEW c, NEW T, \A i : i \in T <=> i \in S /\ InvoiceCcy[i] = c
    PROVE  /\ RowSum(rows, c, "total") = SumFunctionOnSet(billed, T)
           /\ RowSum(rows, c, "paid") = SumFunctionOnSet(collected, T)
           /\ RowSum(rows, c, "outstanding") = SumFunctionOnSet(Left, T)
<1>1. T \in SUBSET Invoices /\ IsFiniteSet(T)
  BY SomeInvoices
<1>2. T = {i \in DOMAIN rows : rows[i].ccy = c}
  BY DEF InvoiceRow
<1>3. \A i \in T : /\ Column(rows, "total")[i] = billed[i]
                   /\ Column(rows, "paid")[i] = collected[i]
                   /\ Column(rows, "outstanding")[i] = Left[i]
  BY <1>1 DEF InvoiceRow, Column, Left
<1>4. /\ SumFunctionOnSet(Column(rows, "total"), T) = SumFunctionOnSet(billed, T)
      /\ SumFunctionOnSet(Column(rows, "paid"), T) = SumFunctionOnSet(collected, T)
      /\ SumFunctionOnSet(Column(rows, "outstanding"), T) = SumFunctionOnSet(Left, T)
  BY <1>1, <1>3, SumSame
<1>q. QED
  BY <1>2, <1>4 DEF RowSum

(* The net column of the payment rows is what was collected.                *)
LEMMA PaymentColumn ==
    ASSUME BooksOK, NEW S \in SUBSET Invoices, NEW rows, DOMAIN rows = S,
           \A i \in S : rows[i] = PaymentRow(i),
           NEW c, NEW T, \A i : i \in T <=> i \in S /\ InvoiceCcy[i] = c
    PROVE  RowSum(rows, c, "net") = SumFunctionOnSet(collected, T)
<1>1. T \in SUBSET Invoices /\ IsFiniteSet(T)
  BY SomeInvoices
<1>2. T = {i \in DOMAIN rows : rows[i].ccy = c}
  BY DEF PaymentRow
<1>3. \A i \in T : Column(rows, "net")[i] = collected[i]
  BY <1>1 DEF PaymentRow, Column, BooksOK
<1>4. SumFunctionOnSet(Column(rows, "net"), T) = SumFunctionOnSet(collected, T)
  BY <1>1, <1>3, SumSame
<1>q. QED
  BY <1>2, <1>4 DEF RowSum

(* The sums by currency over invoices that are joined to one row each.      *)
LEMMA TotalsAre ==
    ASSUME BooksOK, NEW S \in SUBSET Invoices, NEW copies, \A i \in S : copies[i] = 1,
           NEW totals, totals = invoice_totals("totals", S, copies),
           NEW credited, credited = invoice_totals("credited", S, copies),
           NEW c, NEW T, \A i : i \in T <=> i \in S /\ InvoiceCcy[i] = c
    PROVE  /\ At(totals.invoiced, c) = SumFunctionOnSet(billed, T)
           /\ At(totals.paid, c) = SumFunctionOnSet(collected, T)
           /\ At(credited, c) = SumFunctionOnSet(waived, T)
<1>1. /\ totals.invoiced = Sums(S, InvoiceCcy, Times(copies, billed))
      /\ totals.paid = Sums(S, InvoiceCcy, Times(copies, collected))
      /\ credited = Sums(S, InvoiceCcy, waived)
  BY DEF invoice_totals
<1>3. T \in SUBSET Invoices /\ IsFiniteSet(T)
  BY SomeInvoices
<1>4. \A i \in T : /\ Times(copies, billed)[i] = billed[i]
                   /\ Times(copies, collected)[i] = collected[i]
  <2>1. \A i \in T : /\ i \in Invoices /\ copies[i] = 1
                     /\ billed[i] \in Nat /\ collected[i] \in Nat
    BY <1>3 DEF BooksOK
  <2>2. \A n \in Nat : 1 * n = n
    OBVIOUS
  <2>3. \A i \in T : /\ Times(copies, billed)[i] = 1 * billed[i]
                     /\ Times(copies, collected)[i] = 1 * collected[i]
    BY <2>1 DEF Times
  <2>q. QED
    BY <2>1, <2>2, <2>3
<1>5. /\ SumFunctionOnSet(Times(copies, billed), T) = SumFunctionOnSet(billed, T)
      /\ SumFunctionOnSet(Times(copies, collected), T) = SumFunctionOnSet(collected, T)
  BY <1>3, <1>4, SumSame
<1>6. /\ At(totals.invoiced, c) = SumFunctionOnSet(Times(copies, billed), T)
      /\ At(totals.paid, c) = SumFunctionOnSet(Times(copies, collected), T)
      /\ At(credited, c) = SumFunctionOnSet(waived, T)
  BY <1>1, LineIsSum
<1>q. QED
  BY <1>5, <1>6

(* The revenue report.                                                      *)
LEMMA RevenueAddsUp ==
    ASSUME BooksOK, NEW f, NEW got,
           \A q \in In(Plan["revenue_report"]) : got[q] = Ask("revenue_report", q, f)
    PROVE  /\ got.count = Cardinality(DOMAIN got.rows)
           /\ DOMAIN got.counts = DOMAIN got.totals.invoiced
           /\ \A c \in DOMAIN got.counts :
                 LET left_ == RowSum(got.rows, c, "outstanding")
                 IN  /\ got.totals.invoiced[c] = RowSum(got.rows, c, "total")
                     /\ got.totals.paid[c] = RowSum(got.rows, c, "paid")
                     /\ remaining(got, c) <= left_
                     /\ (\A i \in DOMAIN got.rows : collected[i] <= credited_total(i))
                            => remaining(got, c) = left_
<1> DEFINE S == Scope(Issued, f)
<1>1. S \in SUBSET Invoices
  BY DEF Scope, Issued
<1>2. /\ got.rows = [i \in S |-> InvoiceRow(i)]
      /\ got.totals = invoice_totals("totals", S, Single)
      /\ got.credited = invoice_totals("credited", S, Single)
      /\ got.counts = Sums(S, InvoiceCcy, Single)
      /\ got.count = Cardinality(S)
  <2>1. \A q \in {"rows", "totals", "credited", "counts", "count"} :
           got[q] = build_revenue_report(q, f)
    BY PlansOfReports, AskIs
  <2>q. QED
    BY <2>1 DEF build_revenue_report
<1> HIDE DEF S
<1>3. DOMAIN got.rows = S /\ \A i \in S : got.rows[i] = InvoiceRow(i)
  BY <1>2
<1>4. \A i \in S : Single[i] = 1
  BY <1>1 DEF Single
<1>5. DOMAIN got.counts = {InvoiceCcy[i] : i \in S}
  BY <1>2 DEF Sums
<1>6. ASSUME NEW c \in DOMAIN got.counts
      PROVE  LET left_ == RowSum(got.rows, c, "outstanding")
             IN  /\ DOMAIN got.counts = DOMAIN got.totals.invoiced
                 /\ got.totals.invoiced[c] = RowSum(got.rows, c, "total")
                 /\ got.totals.paid[c] = RowSum(got.rows, c, "paid")
                 /\ remaining(got, c) <= left_
                 /\ (\A i \in DOMAIN got.rows : collected[i] <= credited_total(i))
                        => remaining(got, c) = left_
  <2> DEFINE T == {i \in S : InvoiceCcy[i] = c}
  <2>1. /\ \A i : i \in T <=> i \in S /\ InvoiceCcy[i] = c
        /\ T \in SUBSET Invoices /\ T \subseteq S
    BY <1>1
  <2> HIDE DEF T
  <2>2. /\ RowSum(got.rows, c, "total") = SumFunctionOnSet(billed, T)
        /\ RowSum(got.rows, c, "paid") = SumFunctionOnSet(collected, T)
        /\ RowSum(got.rows, c, "outstanding") = SumFunctionOnSet(Left, T)
    BY <1>1, <1>3, <2>1, InvoiceColumns
  <2>3. /\ DOMAIN got.totals.invoiced = {InvoiceCcy[i] : i \in S}
        /\ DOMAIN got.totals.paid = {InvoiceCcy[i] : i \in S}
        /\ At(got.totals.invoiced, c) = SumFunctionOnSet(billed, T)
        /\ At(got.totals.paid, c) = SumFunctionOnSet(collected, T)
        /\ At(got.credited, c) = SumFunctionOnSet(waived, T)
    <3>1. /\ At(got.totals.invoiced, c) = SumFunctionOnSet(billed, T)
          /\ At(got.totals.paid, c) = SumFunctionOnSet(collected, T)
          /\ At(got.credited, c) = SumFunctionOnSet(waived, T)
      <4> DEFINE totals == got.totals
                 credited == got.credited
      <4>1. /\ totals = invoice_totals("totals", S, Single)
            /\ credited = invoice_totals("credited", S, Single)
        BY <1>2
      <4> HIDE DEF totals, credited
      <4>2. /\ At(totals.invoiced, c) = SumFunctionOnSet(billed, T)
            /\ At(totals.paid, c) = SumFunctionOnSet(collected, T)
            /\ At(credited, c) = SumFunctionOnSet(waived, T)
        BY <1>1, <1>4, <2>1, <4>1, TotalsAre
      <4>q. QED
        BY <4>2 DEF totals, credited
    <3>2. /\ DOMAIN got.totals.invoiced = {InvoiceCcy[i] : i \in S}
          /\ DOMAIN got.totals.paid = {InvoiceCcy[i] : i \in S}
      BY <1>2 DEF invoice_totals, Sums
    <3>q. QED
      BY <3>1, <3>2
  <2>4. /\ got.totals.invoiced[c] = SumFunctionOnSet(billed, T)
        /\ got.totals.paid[c] = SumFunctionOnSet(collected, T)
    BY <1>5, <2>3 DEF At
  <2>5. remaining(got, c) = Floor(SumFunctionOnSet(billed, T) - SumFunctionOnSet(waived, T)
                                     - SumFunctionOnSet(collected, T))
    BY <2>3 DEF remaining
  <2>q. QED
    BY <1>3, <1>5, <2>1, <2>2, <2>3, <2>4, <2>5, WhatRemains
<1>7. DOMAIN got.totals.invoiced = {InvoiceCcy[i] : i \in S}
  BY <1>2 DEF invoice_totals, Sums
<1>q. QED
  BY <1>2, <1>3, <1>5, <1>6, <1>7

(* The payment report, and what the office holds.                           *)
LEMMA PaymentsAddUp ==
    ASSUME BooksOK, NEW f, NEW got,
           \A q \in In(Plan["payment_report"]) : got[q] = Ask("payment_report", q, f),
           NEW c \in DOMAIN got.gross
    PROVE  /\ got.gross[c] - At(got.revs, c) = RowSum(got.rows, c, "net")
           /\ f.case = None /\ f.client = None =>
                 got.gross[c] - At(got.revs, c) = Held[c]
<1> DEFINE S == payment_list(f)
           T == {i \in S : InvoiceCcy[i] = c}
           A == {i \in Invoices : InvoiceCcy[i] = c}
<1>1. S \in SUBSET Invoices
  BY DEF payment_list, Scope
<1>2. /\ got.rows = [i \in S |-> PaymentRow(i)]
      /\ got.gross = Sums(S, InvoiceCcy, gross)
      /\ got.revs = Sums(S, InvoiceCcy, reversed)
  <2>1. \A q \in {"rows", "gross", "revs"} : got[q] = build_payment_report(q, f)
    BY PlansOfReports, AskIs
  <2>q. QED
    BY <2>1 DEF build_payment_report
<1>3. f.case = None /\ f.client = None => \A i \in Invoices : i \notin S => gross[i] = 0
  BY DEF payment_list, Scope, Matches, BooksOK
<1> HIDE DEF S
<1>4. /\ \A i : i \in T <=> i \in S /\ InvoiceCcy[i] = c
      /\ \A i : i \in A <=> i \in Invoices /\ InvoiceCcy[i] = c
      /\ T \in SUBSET Invoices /\ T \in SUBSET A /\ A \in SUBSET Invoices
  BY <1>1
<1>5. c \in DOMAIN Sums(S, InvoiceCcy, gross) /\ c \in DOMAIN Held
  <2>1. c \in DOMAIN Sums(S, InvoiceCcy, gross)
    BY <1>2
  <2>q. QED
    BY <1>1, <2>1 DEF Held, Sums
<1> HIDE DEF T, A
<1>6. /\ got.gross[c] = SumFunctionOnSet(gross, T)
      /\ At(got.revs, c) = SumFunctionOnSet(reversed, T)
  BY <1>2, <1>4, <1>5, LineIsSum, ShownLineIsSum
<1>7. RowSum(got.rows, c, "net") = SumFunctionOnSet(collected, T)
  <2>1. DOMAIN got.rows = S /\ \A i \in S : got.rows[i] = PaymentRow(i)
    BY <1>2
  <2>q. QED
    BY <1>1, <1>4, <2>1, PaymentColumn
<1>8. SumFunctionOnSet(gross, T)
         = SumFunctionOnSet(collected, T) + SumFunctionOnSet(reversed, T)
  <2>1. \A i \in T : /\ collected[i] \in Int /\ reversed[i] \in Int
                     /\ gross[i] = collected[i] + reversed[i]
    BY <1>4 DEF BooksOK
  <2>q. QED
    BY <1>4, <2>1, SomeInvoices, SumOfSums
<1>9. SumFunctionOnSet(collected, T) \in Int /\ SumFunctionOnSet(reversed, T) \in Int
  <2>1. \A i \in T : reversed[i] \in Int
    BY <1>4 DEF BooksOK
  <2>q. QED
    BY <1>4, <2>1, SomeInvoices, SumRemove
<1>10. ASSUME f.case = None, f.client = None
       PROVE  SumFunctionOnSet(collected, T) = Held[c]
  <2>1. Held[c] = SumFunctionOnSet(collected, A)
    BY <1>4, <1>5, ShownLineIsSum DEF Held
  <2>2. \A i \in A : collected[i] \in Int /\ (i \notin T => collected[i] = 0)
    BY <1>3, <1>4, <1>10 DEF BooksOK
  <2>3. IsFiniteSet(A)
    BY <1>4, SomeInvoices
  <2>q. QED
    BY <1>4, <2>1, <2>2, <2>3, SumOfRest
<1>q. QED
  BY <1>6, <1>7, <1>8, <1>9, <1>10

(* The oldest date is in the last bucket.                                   *)
LEMMA DaysBound == MaxDays \in Int /\ MaxDays < 1000000000
  BY SMT DEF MaxDays

(* Each age falls into one bucket.                                          *)
LEMMA OneBucket ==
    /\ IsFiniteSet(AgingBuckets)
    /\ \A d \in 0 .. MaxDays : \E b \in AgingBuckets :
          \A a \in AgingBuckets : d \in a[1] .. a[2] <=> a = b
<1>1. IsFiniteSet(AgingBuckets)
  <2>0. \A S, x : IsFiniteSet(S) => IsFiniteSet(S \cup {x})
    BY FS_AddElement
  <2> DEFINE b1 == <<0, 30>>
             b2 == <<31, 60>>
             b3 == <<61, 90>>
             b4 == <<91, 1000000000>>
  <2>1. AgingBuckets = {b1, b2, b3, b4}
    BY SMT DEF AgingBuckets
  <2> HIDE DEF b1, b2, b3, b4
  <2>2. IsFiniteSet((({} \cup {b1} \cup {b2}) \cup {b3}) \cup {b4})
    BY <2>0, FS_EmptySet, Zenon
  <2>3. (({} \cup {b1} \cup {b2}) \cup {b3}) \cup {b4} = AgingBuckets
    BY <2>1
  <2>q. QED
    BY <2>2, <2>3
<1>2. ASSUME NEW d \in 0 .. MaxDays
      PROVE  \E b \in AgingBuckets : \A a \in AgingBuckets : d \in a[1] .. a[2] <=> a = b
  <2>1. d \in Int /\ 0 <= d /\ d < 1000000000
    <3>1. \A m \in Int : d \in 0 .. m => d \in Int /\ 0 <= d /\ d <= m
      OBVIOUS
    <3>2. d \in Int /\ 0 <= d /\ d <= MaxDays
      BY <3>1, DaysBound, SMT
    <3>q. QED
      BY <3>2, DaysBound, SMT
  <2>0. /\ <<0, 30>> \in AgingBuckets /\ <<31, 60>> \in AgingBuckets
        /\ <<61, 90>> \in AgingBuckets /\ <<91, 1000000000>> \in AgingBuckets
    BY SMT DEF AgingBuckets
  <2>2. CASE d <= 30
    <3>1. \A a \in AgingBuckets : d \in a[1] .. a[2] <=> a = <<0, 30>>
      BY <2>1, <2>2, SMT DEF AgingBuckets
    <3>q. QED
      BY <2>0, <3>1, SMT
  <2>3. CASE 31 <= d /\ d <= 60
    <3>1. \A a \in AgingBuckets : d \in a[1] .. a[2] <=> a = <<31, 60>>
      BY <2>1, <2>3, SMT DEF AgingBuckets
    <3>q. QED
      BY <2>0, <3>1, SMT
  <2>4. CASE 61 <= d /\ d <= 90
    <3>1. \A a \in AgingBuckets : d \in a[1] .. a[2] <=> a = <<61, 90>>
      BY <2>1, <2>4, SMT DEF AgingBuckets
    <3>q. QED
      BY <2>0, <3>1, SMT
  <2>5. CASE 91 <= d
    <3>1. \A a \in AgingBuckets : d \in a[1] .. a[2] <=> a = <<91, 1000000000>>
      BY <2>1, <2>5, SMT DEF AgingBuckets
    <3>q. QED
      BY <2>0, <3>1, SMT
  <2>q. QED
    BY <2>1, <2>2, <2>3, <2>4, <2>5, SMT
<1>q. QED
  BY <1>1, <1>2

(* The buckets by age share out the rows of a currency.                     *)
LEMMA AgesAddUp ==
    ASSUME BooksOK, NEW S \in SUBSET Invoices, NEW rows, DOMAIN rows = S,
           \A i \in S : rows[i] = InvoiceRow(i), NEW c
    PROVE  SumFunctionOnSet([b \in AgingBuckets |-> aging(rows, c, b)], AgingBuckets)
              = RowSum(rows, c, "outstanding")
<1> DEFINE T == {i \in S : InvoiceCcy[i] = c}
           col == [i \in DOMAIN rows |-> rows[i].outstanding]
           sums == [b \in AgingBuckets |-> aging(rows, c, b)]
           age == [i \in T |-> CHOOSE b \in AgingBuckets : DaysLate[i] \in b[1] .. b[2]]
<1>1. T \in SUBSET Invoices /\ T \subseteq S
  OBVIOUS
<1>2. IsFiniteSet(T)
  BY <1>1, SomeInvoices
<1>3. ASSUME NEW i \in T
      PROVE  /\ age[i] \in AgingBuckets
             /\ \A b \in AgingBuckets : age[i] = b <=> rows[i].late \in b[1] .. b[2]
  <2>1. DaysLate[i] \in 0 .. MaxDays /\ rows[i].late = DaysLate[i]
    BY <1>1, InvoicesAssumption DEF InvoiceRow
  <2>2. PICK b \in AgingBuckets :
           \A a \in AgingBuckets : DaysLate[i] \in a[1] .. a[2] <=> a = b
    BY <2>1, OneBucket
  <2>3. age[i] = b
    BY <2>2
  <2>q. QED
    BY <2>1, <2>2, <2>3
<1>4. age \in [T -> AgingBuckets]
  BY <1>3
<1>5. \A i \in T : col[i] \in Int /\ col[i] = Column(rows, "outstanding")[i]
  BY <1>1, LeftIs DEF InvoiceRow, Column, Left
<1>6. ASSUME NEW b \in AgingBuckets, NEW U, \A i : i \in U <=> i \in T /\ age[i] = b
      PROVE  sums[b] = SumFunctionOnSet(col, U)
  <2>1. \A i \in DOMAIN rows : rows[i].ccy = InvoiceCcy[i]
    BY DEF InvoiceRow
  <2>2. \A i : i \in T <=> i \in DOMAIN rows /\ rows[i].ccy = c
    BY <2>1
  <2>3. \A i \in T : age[i] = b <=> rows[i].late \in b[1] .. b[2]
    BY <1>3
  <2> HIDE DEF T, age
  <2>4. U = {i \in DOMAIN rows : rows[i].ccy = c /\ rows[i].late \in b[1] .. b[2]}
    BY <1>6, <2>2, <2>3
  <2>q. QED
    BY <2>4 DEF aging
<1>7. T = {i \in DOMAIN rows : rows[i].ccy = c}
  BY DEF InvoiceRow
<1> HIDE DEF T, col, sums, age
<1>8. SumFunctionOnSet(sums, AgingBuckets) = SumFunctionOnSet(col, T)
  BY <1>2, <1>4, <1>5, <1>6, OneBucket, SumByKey
<1>9. SumFunctionOnSet(col, T) = SumFunctionOnSet(Column(rows, "outstanding"), T)
  BY <1>2, <1>5, SumSame
<1>q. QED
  BY <1>7, <1>8, <1>9 DEF sums, RowSum

(* The outstanding report, when no invoice has two credit notes.            *)
LEMMA OutstandingAddsUp ==
    ASSUME BooksOK, NEW f, NEW got,
           \A q \in In(Plan["outstanding_report"]) :
              got[q] = Ask("outstanding_report", q, f),
           OneNote(got.rows), NEW c \in DOMAIN got.totals.invoiced
    PROVE  /\ remaining(got, c) = RowSum(got.rows, c, "outstanding")
           /\ remaining(got, c) =
                 SumFunctionOnSet([b \in AgingBuckets |-> aging(got.rows, c, b)],
                                  AgingBuckets)
<1> DEFINE S == {i \in Scope(Open, f) : f.only => DaysLate[i] > 0}
           T == {i \in S : InvoiceCcy[i] = c}
<1>1. /\ S \in SUBSET Invoices
      /\ \A i \in S : collected[i] <= credited_total(i)
  BY DEF Scope, Open, Issued, BooksOK, credited_total
<1>2. /\ got.rows = [i \in S |-> InvoiceRow(i)]
      /\ got.totals = invoice_totals("totals", S, JoinedNotes)
      /\ got.credited = invoice_totals("credited", S, JoinedNotes)
  <2>1. \A q \in {"rows", "totals", "credited"} : got[q] = build_outstanding_report(q, f)
    BY PlansOfReports, AskIs
  <2>q. QED
    BY <2>1 DEF build_outstanding_report
<1> HIDE DEF S
<1>3. DOMAIN got.rows = S /\ \A i \in S : got.rows[i] = InvoiceRow(i)
  BY <1>2
<1>4. \A i \in S : JoinedNotes[i] = 1
  BY <1>1, <1>3 DEF JoinedNotes, OneNote, BooksOK
<1>5. /\ \A i : i \in T <=> i \in S /\ InvoiceCcy[i] = c
      /\ T \in SUBSET Invoices /\ T \subseteq S
  BY <1>1
<1> HIDE DEF T
<1>6. /\ At(got.totals.invoiced, c) = SumFunctionOnSet(billed, T)
      /\ At(got.totals.paid, c) = SumFunctionOnSet(collected, T)
      /\ At(got.credited, c) = SumFunctionOnSet(waived, T)
  <2> DEFINE totals == got.totals
             credited == got.credited
  <2>1. /\ totals = invoice_totals("totals", S, JoinedNotes)
        /\ credited = invoice_totals("credited", S, JoinedNotes)
    BY <1>2
  <2> HIDE DEF totals, credited
  <2>2. /\ At(totals.invoiced, c) = SumFunctionOnSet(billed, T)
        /\ At(totals.paid, c) = SumFunctionOnSet(collected, T)
        /\ At(credited, c) = SumFunctionOnSet(waived, T)
    <3>1. /\ BooksOK /\ S \in SUBSET Invoices
          /\ \A i \in S : JoinedNotes[i] = 1
          /\ \A i : i \in T <=> i \in S /\ InvoiceCcy[i] = c
      BY <1>1, <1>4, <1>5
    <3>q. QED
      BY <2>1, <3>1, TotalsAre
  <2>q. QED
    BY <2>2 DEF totals, credited
<1>7. RowSum(got.rows, c, "outstanding") = SumFunctionOnSet(Left, T)
  BY <1>1, <1>3, <1>5, InvoiceColumns
<1>8. remaining(got, c) = SumFunctionOnSet(Left, T)
  BY <1>1, <1>5, <1>6, WhatRemains DEF remaining
<1>9. SumFunctionOnSet([b \in AgingBuckets |-> aging(got.rows, c, b)], AgingBuckets)
         = RowSum(got.rows, c, "outstanding")
  BY <1>1, <1>3, AgesAddUp
<1>q. QED
  BY <1>7, <1>8, <1>9

(* The summary of a case or a client fits the rows below it.                *)
LEMMA SummaryHolds ==
    ASSUME BooksOK, NEW f, NEW S \in SUBSET Invoices, S = Scope(Invoices, f),
           NEW got,
           got.totals = invoice_totals("totals", Issued \cap S, Single),
           got.credited = invoice_totals("credited", Issued \cap S, Single),
           NEW invoices, invoices = [i \in S |-> InvoiceRow(i)],
           NEW payments, payments = [i \in payment_list(f) |-> PaymentRow(i)]
    PROVE  SummaryFits(got, invoices, payments)
<1> DEFINE I == Issued \cap S
           P == {i \in I : gross[i] > 0}
<1>1. I \in SUBSET Invoices /\ P \in SUBSET Invoices
  OBVIOUS
<1>2. DOMAIN OfIssued(invoices) = I /\ \A i \in I : OfIssued(invoices)[i] = InvoiceRow(i)
  BY DEF OfIssued
<1>3. DOMAIN OfIssued(payments) = P /\ \A i \in P : OfIssued(payments)[i] = PaymentRow(i)
  <2>1. payment_list(f) \cap Issued = P
    BY DEF payment_list
  <2>q. QED
    BY <2>1 DEF OfIssued
<1>4. \A i \in I : Single[i] = 1
  BY <1>1 DEF Single
<1>5. \A i \in I : collected[i] \in Int /\ (i \notin P => collected[i] = 0)
  BY <1>1 DEF BooksOK
<1>6. DOMAIN got.totals.paid = {InvoiceCcy[i] : i \in I}
  BY DEF invoice_totals, Sums
<1>7. P \subseteq I
  OBVIOUS
<1>8. /\ got.totals = invoice_totals("totals", I, Single)
      /\ got.credited = invoice_totals("credited", I, Single)
  OBVIOUS
<1> HIDE DEF I, P
<1>9. ASSUME NEW c \in DOMAIN got.totals.paid
      PROVE  /\ got.totals.paid[c] = RowSum(OfIssued(payments), c, "net")
             /\ remaining(got, c) <= RowSum(OfIssued(invoices), c, "outstanding")
  <2> DEFINE T == {i \in I : InvoiceCcy[i] = c}
             U == {i \in P : InvoiceCcy[i] = c}
             totals == got.totals
             credited == got.credited
  <2>1. /\ \A i : i \in T <=> i \in I /\ InvoiceCcy[i] = c
        /\ \A i : i \in U <=> i \in P /\ InvoiceCcy[i] = c
    OBVIOUS
  <2>2. /\ totals = invoice_totals("totals", I, Single)
        /\ credited = invoice_totals("credited", I, Single)
    BY <1>8
  <2>3. totals = got.totals /\ credited = got.credited
    OBVIOUS
  <2> HIDE DEF T, U, totals, credited
  <2>4. T \in SUBSET Invoices /\ U \in SUBSET T
    BY <1>1, <1>7, <2>1
  <2>5. /\ At(totals.invoiced, c) = SumFunctionOnSet(billed, T)
        /\ At(totals.paid, c) = SumFunctionOnSet(collected, T)
        /\ At(credited, c) = SumFunctionOnSet(waived, T)
    BY <1>1, <1>4, <2>1, <2>2, TotalsAre
  <2>6. RowSum(OfIssued(invoices), c, "outstanding") = SumFunctionOnSet(Left, T)
    BY <1>1, <1>2, <2>1, InvoiceColumns
  <2>7. RowSum(OfIssued(payments), c, "net") = SumFunctionOnSet(collected, U)
    BY <1>1, <1>3, <2>1, PaymentColumn
  <2>8. SumFunctionOnSet(collected, U) = SumFunctionOnSet(collected, T)
    <3>1. \A i \in T : collected[i] \in Int
      BY <1>5, <2>1
    <3>2. \A i \in T : i \notin U => collected[i] = 0
      BY <1>5, <2>1
    <3>q. QED
      BY <2>4, <3>1, <3>2, SomeInvoices, SumOfRest
  <2>9. got.totals.paid[c] = SumFunctionOnSet(collected, T)
    BY <2>3, <2>5 DEF At
  <2>10. remaining(got, c) = Floor(SumFunctionOnSet(billed, T) - SumFunctionOnSet(waived, T)
                                      - SumFunctionOnSet(collected, T))
    BY <2>3, <2>5 DEF remaining
  <2>q. QED
    BY <2>4, <2>6, <2>7, <2>8, <2>9, <2>10, WhatRemains
<1>q. QED
  BY <1>9 DEF SummaryFits

(* The summary of a case is its line of the report on cases.                *)
LEMMA CaseLine ==
    ASSUME BooksOK, NEW f, f.case # None, NEW S \in SUBSET Invoices, S = Scope(Issued, f),
           NEW c, NEW T, \A i : i \in T <=> i \in S /\ InvoiceCcy[i] = c
    PROVE  LET report(q) == build_case_financials_report(q, f)
               line == <<f.case, c>>
           IN  /\ At(report("totals").invoiced, line) = SumFunctionOnSet(billed, T)
               /\ At(report("totals").paid, line) = SumFunctionOnSet(collected, T)
               /\ At(report("credited"), line) = SumFunctionOnSet(waived, T)
               /\ T # {} => line \in DOMAIN report("totals").invoiced
<1> DEFINE line == <<f.case, c>>
           N == {i \in S : notes[i] > 0}
           V == {i \in T : notes[i] > 0}
<1>1. /\ build_case_financials_report("totals", f).invoiced = Sums(S, CaseAndCcy, billed)
      /\ build_case_financials_report("totals", f).paid = Sums(S, CaseAndCcy, collected)
      /\ build_case_financials_report("credited", f) = Sums(N, CaseAndCcy, waived)
  BY DEF build_case_financials_report
<1>2. T \in SUBSET Invoices /\ T \subseteq S /\ V \in SUBSET T
  OBVIOUS
<1>3. \A i \in S : CaseAndCcy[i] = <<f.case, InvoiceCcy[i]>>
  BY DEF CaseAndCcy, Scope, Matches
<1>4. /\ \A i : i \in T <=> i \in S /\ CaseAndCcy[i] = line
      /\ \A i : i \in V <=> i \in N /\ CaseAndCcy[i] = line
  BY <1>3
<1>5. T # {} => line \in DOMAIN Sums(S, CaseAndCcy, billed)
  BY <1>2, <1>4 DEF Sums
<1>6. \A i \in T : waived[i] \in Int /\ (i \notin V => waived[i] = 0)
  BY <1>2 DEF BooksOK
<1> HIDE DEF line, N, V
<1>7. /\ At(Sums(S, CaseAndCcy, billed), line) = SumFunctionOnSet(billed, T)
      /\ At(Sums(S, CaseAndCcy, collected), line) = SumFunctionOnSet(collected, T)
      /\ At(Sums(N, CaseAndCcy, waived), line) = SumFunctionOnSet(waived, V)
  BY <1>4, LineIsSum
<1>8. SumFunctionOnSet(waived, V) = SumFunctionOnSet(waived, T)
  BY <1>2, <1>6, SomeInvoices, SumOfRest
<1>q. QED
  BY <1>1, <1>5, <1>7, <1>8 DEF line

(* The finance tab of a case.                                               *)
LEMMA CaseTabAddsUp ==
    ASSUME RecordsTypeOK, BooksOK, NEW f, f.case # None, NEW got,
           \A q \in In(Plan["CaseFinanceTab"]) : got[q] = Ask("CaseFinanceTab", q, f)
    PROVE  /\ \A c \in DOMAIN got.totals.invoiced :
                 LET report(q) == build_case_financials_report(q, f)
                     line == <<f.case, c>>
                 IN  /\ got.totals.invoiced[c] = report("totals").invoiced[line]
                     /\ remaining(got, c) =
                           remaining([totals |-> report("totals"),
                                      credited |-> report("credited")], line)
           /\ \A c \in DOMAIN got.expenses :
                 got.expenses[c] =
                     SumFunctionOnSet(Column(got.case_expenses, "value"),
                         {e \in DOMAIN got.case_expenses : ExpenseCcy[e] = c})
           /\ SummaryFits(got, got.case_invoices, got.case_payments)
<1> DEFINE S == Scope(Invoices, f)
           I == Issued \cap S
           E == case_expenses(f)
<1>1. S \in SUBSET Invoices /\ I \in SUBSET Invoices /\ I = Scope(Issued, f)
  BY DEF Scope, Issued
<1>2. /\ got.totals = invoice_totals("totals", I, Single)
      /\ got.credited = invoice_totals("credited", I, Single)
      /\ got.expenses = Sums(E, ExpenseCcy, Amount)
      /\ got.case_invoices = [i \in S |-> InvoiceRow(i)]
      /\ got.case_payments = [i \in payment_list(f) |-> PaymentRow(i)]
      /\ got.case_expenses = ShowRows(E)
  <2>1. \A q \in {"totals", "credited", "expenses", "case_invoices", "case_payments",
                  "case_expenses"} : got[q] = CaseFinanceTab(q, f)
    BY PlansOfTabs, AskIs
  <2>q. QED
    BY <2>1 DEF CaseFinanceTab, case_financials, case_invoices
<1>3. SummaryFits(got, got.case_invoices, got.case_payments)
  <2> DEFINE invoices == got.case_invoices
             payments == got.case_payments
  <2>1. /\ invoices = [i \in S |-> InvoiceRow(i)]
        /\ payments = [i \in payment_list(f) |-> PaymentRow(i)]
        /\ S = Scope(Invoices, f)
        /\ got.totals = invoice_totals("totals", Issued \cap S, Single)
        /\ got.credited = invoice_totals("credited", Issued \cap S, Single)
    BY <1>2
  <2> HIDE DEF invoices, payments, S
  <2>2. SummaryFits(got, invoices, payments)
    BY <1>1, <2>1, SummaryHolds
  <2>q. QED
    BY <2>2 DEF invoices, payments
<1>4. ASSUME NEW c \in DOMAIN got.expenses
      PROVE  got.expenses[c] =
                SumFunctionOnSet(Column(got.case_expenses, "value"),
                    {e \in DOMAIN got.case_expenses : ExpenseCcy[e] = c})
  <2> DEFINE T == {e \in E : ExpenseCcy[e] = c}
  <2>1. E \in SUBSET Records
    BY KindsAreListed, FiniteTables DEF case_expenses, Of
  <2> HIDE DEF E
  <2>2. \A e : e \in T <=> e \in E /\ ExpenseCcy[e] = c
    OBVIOUS
  <2>3. SumFunctionOnSet(Amount, T) = SumFunctionOnSet(Column(ShowRows(E), "value"),
                                          {e \in DOMAIN ShowRows(E) : ExpenseCcy[e] = c})
    BY <2>1, AmountsShown
  <2> HIDE DEF T
  <2>4. Sums(E, ExpenseCcy, Amount)[c] = SumFunctionOnSet(Amount, T)
    BY <1>2, <2>2, ShownLineIsSum
  <2>q. QED
    BY <1>2, <2>3, <2>4
<1> HIDE DEF S, I, E
<1>5. \A i \in I : Single[i] = 1
  BY <1>1 DEF Single
<1>6. DOMAIN got.totals.invoiced = {InvoiceCcy[i] : i \in I}
  BY <1>2 DEF invoice_totals, Sums
<1>7. ASSUME NEW c \in DOMAIN got.totals.invoiced
      PROVE  LET report(q) == build_case_financials_report(q, f)
                 line == <<f.case, c>>
             IN  /\ got.totals.invoiced[c] = report("totals").invoiced[line]
                 /\ remaining(got, c) =
                       remaining([totals |-> report("totals"),
                                  credited |-> report("credited")], line)
  <2> DEFINE T == {i \in I : InvoiceCcy[i] = c}
             totals == got.totals
             credited == got.credited
             line == <<f.case, c>>
             sums == build_case_financials_report("totals", f)
             notes_ == build_case_financials_report("credited", f)
  <2>1. /\ \A i : i \in T <=> i \in I /\ InvoiceCcy[i] = c
        /\ T # {}
    BY <1>6
  <2>2. /\ totals = invoice_totals("totals", I, Single)
        /\ credited = invoice_totals("credited", I, Single)
    BY <1>2
  <2> HIDE DEF T, totals, credited
  <2>3. /\ At(totals.invoiced, c) = SumFunctionOnSet(billed, T)
        /\ At(totals.paid, c) = SumFunctionOnSet(collected, T)
        /\ At(credited, c) = SumFunctionOnSet(waived, T)
    <3>1. /\ BooksOK /\ I \in SUBSET Invoices
          /\ \A i \in I : Single[i] = 1
          /\ \A i : i \in T <=> i \in I /\ InvoiceCcy[i] = c
      BY <1>1, <1>5, <2>1
    <3>q. QED
      BY <2>2, <3>1, TotalsAre
  <2>4. /\ At(sums.invoiced, line) = SumFunctionOnSet(billed, T)
        /\ At(sums.paid, line) = SumFunctionOnSet(collected, T)
        /\ At(notes_, line) = SumFunctionOnSet(waived, T)
        /\ line \in DOMAIN sums.invoiced
    BY <1>1, <2>1, CaseLine
  <2> HIDE DEF line, sums, notes_
  <2>5. got.totals.invoiced[c] = sums.invoiced[line]
    BY <2>3, <2>4 DEF At, totals
  <2>6. remaining(got, c) = remaining([totals |-> sums, credited |-> notes_], line)
    BY <2>3, <2>4 DEF remaining, totals, credited
  <2>q. QED
    BY <2>5, <2>6 DEF line, sums, notes_
<1>q. QED
  BY <1>3, <1>4, <1>7

(* The page of a client.                                                    *)
LEMMA ClientPageAddsUp ==
    ASSUME BooksOK, NEW f, NEW got,
           \A q \in In(Plan["ClientDetailView"]) : got[q] = Ask("ClientDetailView", q, f)
    PROVE  SummaryFits(got, got.client_invoices, got.client_payments)
<1> DEFINE S == Scope(Invoices, f)
           invoices == got.client_invoices
           payments == got.client_payments
<1>1. S \in SUBSET Invoices
  BY DEF Scope
<1>2. /\ got.totals = invoice_totals("totals", Issued \cap S, Single)
      /\ got.credited = invoice_totals("credited", Issued \cap S, Single)
      /\ invoices = [i \in S |-> InvoiceRow(i)]
      /\ payments = [i \in payment_list(f) |-> PaymentRow(i)]
      /\ S = Scope(Invoices, f)
  <2>1. \A q \in {"totals", "credited", "client_invoices", "client_payments"} :
           got[q] = ClientDetailView(q, f)
    BY PlansOfTabs, AskIs
  <2>q. QED
    BY <2>1 DEF ClientDetailView, client_financials, client_invoices
<1> HIDE DEF S, invoices, payments
<1>3. SummaryFits(got, invoices, payments)
  BY <1>1, <1>2, SummaryHolds
<1>q. QED
  BY <1>3 DEF invoices, payments

(* All of it, for a page nothing was committed beside.                      *)
LEMMA MoneyAddsUp ==
    ASSUME RecordsTypeOK, BooksOK, PageInv
    PROVE  InvoicePagesAddUp
<1> SUFFICES ASSUME Quiet PROVE InvoicePagesAddUp
  BY DEF InvoicePagesAddUp
<1> DEFINE got == page.got
           f == page.filter
<1>1. \A p : p = page.name => /\ f \in Filters(p)
                              /\ \A q \in In(Plan[p]) : got[q] = Ask(p, q, f)
  BY QuietAnswers
<1> HIDE DEF got, f
<1>2. ASSUME page.name = "revenue_report"
      PROVE  /\ got.count = Cardinality(DOMAIN got.rows)
             /\ DOMAIN got.counts = DOMAIN got.totals.invoiced
             /\ \A c \in DOMAIN got.counts :
                   LET left_ == RowSum(got.rows, c, "outstanding")
                   IN  /\ got.totals.invoiced[c] = RowSum(got.rows, c, "total")
                       /\ got.totals.paid[c] = RowSum(got.rows, c, "paid")
                       /\ remaining(got, c) <= left_
                       /\ (\A i \in DOMAIN got.rows : collected[i] <= credited_total(i))
                              => remaining(got, c) = left_
  <2>1. \A q \in In(Plan["revenue_report"]) : got[q] = Ask("revenue_report", q, f)
    BY <1>1, <1>2
  <2>q. QED
    BY <2>1, RevenueAddsUp
<1>3. ASSUME page.name = "outstanding_report" /\ OneNote(got.rows),
             NEW c \in DOMAIN got.totals.invoiced
      PROVE  /\ remaining(got, c) = RowSum(got.rows, c, "outstanding")
             /\ remaining(got, c) =
                   SumFunctionOnSet([b \in AgingBuckets |-> aging(got.rows, c, b)],
                                    AgingBuckets)
  <2>1. \A q \in In(Plan["outstanding_report"]) : got[q] = Ask("outstanding_report", q, f)
    BY <1>1, <1>3
  <2>2. OneNote(got.rows)
    BY <1>3
  <2>q. QED
    BY <1>3, <2>1, <2>2, OutstandingAddsUp
<1>4. ASSUME page.name = "payment_report", NEW c \in DOMAIN got.gross
      PROVE  /\ got.gross[c] - At(got.revs, c) = RowSum(got.rows, c, "net")
             /\ f.case = None /\ f.client = None =>
                   got.gross[c] - At(got.revs, c) = Held[c]
  <2>1. \A q \in In(Plan["payment_report"]) : got[q] = Ask("payment_report", q, f)
    BY <1>1, <1>4
  <2>q. QED
    BY <1>4, <2>1, PaymentsAddUp
<1>5. ASSUME page.name = "CaseFinanceTab"
      PROVE  /\ \A c \in DOMAIN got.totals.invoiced :
                   LET report(q) == build_case_financials_report(q, f)
                       line == <<f.case, c>>
                   IN  /\ got.totals.invoiced[c] = report("totals").invoiced[line]
                       /\ remaining(got, c) =
                             remaining([totals |-> report("totals"),
                                        credited |-> report("credited")], line)
             /\ \A c \in DOMAIN got.expenses :
                   got.expenses[c] =
                       SumFunctionOnSet(Column(got.case_expenses, "value"),
                           {e \in DOMAIN got.case_expenses : ExpenseCcy[e] = c})
             /\ SummaryFits(got, got.case_invoices, got.case_payments)
  <2>1. \A q \in In(Plan["CaseFinanceTab"]) : got[q] = Ask("CaseFinanceTab", q, f)
    BY <1>1, <1>5
  <2>2. f.case # None
    BY <1>1, <1>5, PagesAssumption DEF Filters
  <2>q. QED
    BY <2>1, <2>2, CaseTabAddsUp
<1>6. ASSUME page.name = "ClientDetailView"
      PROVE  SummaryFits(got, got.client_invoices, got.client_payments)
  <2>1. \A q \in In(Plan["ClientDetailView"]) : got[q] = Ask("ClientDetailView", q, f)
    BY <1>1, <1>6
  <2>q. QED
    BY <2>1, ClientPageAddsUp
<1>q. QED
  BY <1>2, <1>3, <1>4, <1>5, <1>6 DEF InvoicePagesAddUp, got, f

(* What the finance pages say agrees with their own rows, with one another  *)
(* and with what the office holds, when nothing was committed beside        *)
(* (_invoice_totals_by_currency, build_payment_report, the aging of         *)
(* build_outstanding_report).                                               *)
THEOREM FinancePagesAgree == OfficeSpec => []InvoicePagesAddUp
<1>1. RecordsTypeOK /\ OfficeInv => InvoicePagesAddUp
  BY MoneyAddsUp DEF OfficeInv
<1>q. QED
  BY <1>1, OfficeInvariant, OfficeImplementsRecords, RecordsInvariant, PTL DEF RecordsInv

(* A week.                                                                  *)
LEMMA Weeks ==
    ASSUME NEW d \in Int
    PROVE  /\ week_start(d) \in Int
           /\ week_start(d) <= d /\ d <= week_start(d) + 6
           /\ week_start(week_start(d) + 7) = week_start(d) + 7
           /\ week_start(week_start(d) - 7) = week_start(d) - 7
  BY SMT DEF week_start, weekday, SATURDAY

(* Two month starts with none in between.                                   *)
Follows(n, m) ==
    /\ m \in MonthStarts /\ n \in MonthStarts
    /\ m < n
    /\ \A k \in MonthStarts : k <= m \/ n <= k

(* A day from one month start to the next lies in that month.               *)
LEMMA MonthIs ==
    ASSUME NEW b, NEW c, Follows(c, b), NEW d \in Int, b <= d, d < c
    PROVE  month_start(d) = b /\ next_month(d) = c
<1>1. MonthStarts \subseteq Int /\ b \in MonthStarts /\ c \in MonthStarts
  BY MonthsAssumption DEF Follows
<1>2. \A m \in MonthStarts :
         m <= d /\ (\A n \in MonthStarts : n <= d => n <= m) <=> m = b
  BY <1>1 DEF Follows
<1>3. \A m \in MonthStarts :
         d < m /\ (\A n \in MonthStarts : d < n => m <= n) <=> m = c
  BY <1>1 DEF Follows
<1>4. month_start(d) = b
  BY <1>1, <1>2 DEF month_start
<1>5. next_month(d) = c
  BY <1>1, <1>3 DEF next_month
<1>q. QED
  BY <1>4, <1>5

(* The page of the month from b to the day before c.                        *)
MonthPage(b, c) ==
    Screen(week_start(b) .. week_start(c - 1) + 6, week_start(b),
           week_start(c - 1) + 6 + 1, b - 1, week_start(c - 1) + 6 + 1)

(* All days of a month show the same page.                                  *)
LEMMA MonthPages ==
    ASSUME NEW b, NEW c, Follows(c, b)
    PROVE  /\ b \in Int /\ c \in Int /\ b + 28 <= c
           /\ \A d \in Int : b <= d /\ d < c => AgendaMonthView(d) = MonthPage(b, c)
<1>1. b \in Int /\ c \in Int /\ b + 28 <= c
  BY MonthsAssumption DEF Follows
<1>2. \A d \in Int : b <= d /\ d < c => AgendaMonthView(d) = MonthPage(b, c)
  BY MonthIs DEF AgendaMonthView, MonthPage
<1>q. QED
  BY <1>1, <1>2

(* The view p of day d draws the days it asks for, and its links lead to a   *)
(* view that leaves no day out in between and that leads back.              *)
Turns(p, d) ==
    LET s == screen(p, d)
        after == screen(p, s.next)
        before == screen(p, s.prev)
    IN  /\ s.start \in Int /\ s.end \in Int /\ s.days = s.start .. s.end - 1
        /\ after # s /\ after.start <= s.end /\ screen(p, after.prev) = s
        /\ before # s /\ s.start <= before.end /\ screen(p, before.next) = s

(* The pages of the agenda can be turned and turned back: of a month,       *)
LEMMA MonthTurns ==
    ASSUME NEW d \in Days
    PROVE  Turns("AgendaMonthView", d)
<1>1. PICK a \in MonthStarts, b \in MonthStarts, c \in MonthStarts, e \in MonthStarts :
         /\ Follows(b, a) /\ Follows(c, b) /\ Follows(e, c)
         /\ b <= d /\ d < c
  BY DaysAssumption DEF Follows
<1>2. d \in Int
  BY DaysAssumption
<1>3. /\ a \in Int /\ b \in Int /\ c \in Int /\ e \in Int
      /\ a + 28 <= b /\ b + 28 <= c /\ c + 28 <= e
  BY <1>1, MonthPages
<1> DEFINE SeenOn(x) == screen("AgendaMonthView", x)
           next == week_start(c - 1) + 6 + 1
           turn == week_start(b - 1) + 6 + 1
<1>4. /\ week_start(a) \in Int /\ week_start(a) <= a
      /\ week_start(b) \in Int /\ week_start(b) <= b /\ b <= week_start(b) + 6
      /\ week_start(c) \in Int /\ week_start(c) <= c /\ c <= week_start(c) + 6
      /\ next \in Int /\ c <= next /\ next <= c + 6
      /\ turn \in Int /\ b <= turn /\ turn <= b + 6
  BY <1>3, Weeks
<1>5. SeenOn(d) = MonthPage(b, c)
  BY <1>1, <1>2, MonthPages DEF screen
<1>6. SeenOn(next) = MonthPage(c, e) /\ SeenOn(c - 1) = MonthPage(b, c)
  BY <1>1, <1>3, <1>4, MonthPages DEF screen
<1>7. SeenOn(b - 1) = MonthPage(a, b) /\ SeenOn(turn) = MonthPage(b, c)
  BY <1>1, <1>3, <1>4, MonthPages DEF screen
<1>8. /\ SeenOn(d).start = week_start(b) /\ SeenOn(d).end = next /\ SeenOn(d).next = next
      /\ SeenOn(d).prev = b - 1 /\ SeenOn(d).days = week_start(b) .. week_start(c - 1) + 6
  BY <1>5 DEF MonthPage, Screen
<1>9. SeenOn(next).start = week_start(c) /\ SeenOn(next).prev = c - 1
  BY <1>6 DEF MonthPage, Screen
<1>10. /\ SeenOn(b - 1).start = week_start(a) /\ SeenOn(b - 1).end = turn
       /\ SeenOn(b - 1).next = turn
  BY <1>7 DEF MonthPage, Screen
<1>11. week_start(c - 1) + 6 = next - 1 /\ week_start(c - 1) \in Int
  BY <1>3, Weeks
<1>12. week_start(a) # week_start(b) /\ week_start(c) # week_start(b)
  BY <1>3, <1>4
<1> HIDE DEF SeenOn, next, turn
<1>13. SeenOn(SeenOn(d).next) = SeenOn(next) /\ SeenOn(SeenOn(d).prev) = SeenOn(b - 1)
  BY <1>8
<1>14. /\ SeenOn(SeenOn(next).prev) = SeenOn(d)
       /\ SeenOn(SeenOn(b - 1).next) = SeenOn(d)
  BY <1>5, <1>6, <1>7, <1>9, <1>10
<1>15. SeenOn(next) # SeenOn(d) /\ SeenOn(next).start <= SeenOn(d).end
  <2>1. week_start(c) <= next
    BY <1>3, <1>4
  <2>2. SeenOn(next).start # SeenOn(d).start
    BY <1>8, <1>9, <1>12
  <2>q. QED
    BY <1>8, <1>9, <2>1, <2>2
<1>16. SeenOn(b - 1) # SeenOn(d) /\ SeenOn(d).start <= SeenOn(b - 1).end
  <2>1. week_start(b) <= turn
    BY <1>3, <1>4
  <2>2. SeenOn(b - 1).start # SeenOn(d).start
    BY <1>8, <1>10, <1>12
  <2>q. QED
    BY <1>8, <1>10, <2>1, <2>2
<1>17. /\ SeenOn(d).start \in Int /\ SeenOn(d).end \in Int
       /\ SeenOn(d).days = SeenOn(d).start .. SeenOn(d).end - 1
  BY <1>4, <1>8, <1>11
<1> USE DEF SeenOn
<1>q. QED
  BY <1>13, <1>14, <1>15, <1>16, <1>17 DEF Turns

(* of a week,                                                               *)
LEMMA WeekTurns ==
    ASSUME NEW d \in Int
    PROVE  Turns("AgendaWeekView", d)
<1> DEFINE SeenOn(x) == screen("AgendaWeekView", x)
           w == week_start(d)
<1>1. /\ w \in Int /\ week_start(w + 7) = w + 7 /\ week_start(w - 7) = w - 7
      /\ week_start(w) = w
  BY Weeks
<1> HIDE DEF w
<1>2. /\ SeenOn(d) = Screen(w .. w + 6, w, w + 7, w - 7, w + 7)
  BY DEF screen, AgendaWeekView, w
<1>3. SeenOn(w + 7) = Screen(w + 7 .. w + 7 + 6, w + 7, w + 7 + 7, w + 7 - 7, w + 7 + 7)
  BY <1>1 DEF screen, AgendaWeekView
<1>4. SeenOn(w - 7) = Screen(w - 7 .. w - 7 + 6, w - 7, w - 7 + 7, w - 7 - 7, w - 7 + 7)
  BY <1>1 DEF screen, AgendaWeekView
<1>5. SeenOn(w) = SeenOn(d)
  BY <1>1, <1>2 DEF screen, AgendaWeekView
<1>6. w + 7 - 7 = w /\ w - 7 + 7 = w /\ w + 6 = w + 7 - 1
  BY <1>1
<1> HIDE DEF SeenOn
<1>q. QED
  BY <1>1, <1>2, <1>3, <1>4, <1>5, <1>6 DEF Turns, SeenOn, Screen

(* and of a day.                                                            *)
LEMMA DayTurns ==
    ASSUME NEW d \in Int
    PROVE  Turns("AgendaDayView", d)
<1> DEFINE SeenOn(x) == screen("AgendaDayView", x)
<1>1. \A x : SeenOn(x) = Screen({x}, x, x + 1, x - 1, x + 1)
  BY DEF screen, AgendaDayView
<1>2. d + 1 - 1 = d /\ d - 1 + 1 = d /\ {d} = d .. d + 1 - 1 /\ d + 1 # d /\ d - 1 # d
  OBVIOUS
<1> HIDE DEF SeenOn
<1>3. /\ SeenOn(d).next = d + 1 /\ SeenOn(d).prev = d - 1
      /\ SeenOn(d).start = d /\ SeenOn(d).end = d + 1 /\ SeenOn(d).days = d .. d + 1 - 1
  BY <1>1, <1>2 DEF Screen
<1>4. SeenOn(d + 1).start = d + 1 /\ SeenOn(d + 1).prev = d
  BY <1>1, <1>2 DEF Screen
<1>5. SeenOn(d - 1).start = d - 1 /\ SeenOn(d - 1).end = d /\ SeenOn(d - 1).next = d
  BY <1>1, <1>2 DEF Screen
<1> HIDE DEF SeenOn
<1>6. /\ SeenOn(SeenOn(d).next) # SeenOn(d) /\ SeenOn(SeenOn(d).next).start <= SeenOn(d).end
      /\ SeenOn(SeenOn(SeenOn(d).next).prev) = SeenOn(d)
  BY <1>2, <1>3, <1>4
<1>7. /\ SeenOn(SeenOn(d).prev) # SeenOn(d) /\ SeenOn(d).start <= SeenOn(SeenOn(d).prev).end
      /\ SeenOn(SeenOn(SeenOn(d).prev).next) = SeenOn(d)
  BY <1>2, <1>3, <1>5
<1>8. /\ SeenOn(d).start \in Int /\ SeenOn(d).end \in Int
      /\ SeenOn(d).days = SeenOn(d).start .. SeenOn(d).end - 1
  BY <1>3
<1> USE DEF SeenOn
<1>q. QED
  BY <1>6, <1>7, <1>8 DEF Turns

(* Every event is due on some day.                                          *)
LEMMA DueOnADay ==
    ASSUME RecordsTypeOK
    PROVE  \A x \in Records \cup Invoices : due(x) \in Int
<1>1. Today \in Int
  BY DaysAssumption
<1>2. ASSUME NEW x \in Invoices PROVE Today - DaysLate[x] \in Int
  BY <1>1, DaysBound, InvoicesAssumption
<1>3. ASSUME NEW x \in Records PROVE Today + DaysTo(x) \in Int
  BY <1>1, DaysToIsInt
<1>q. QED
  BY <1>2, <1>3 DEF due

(* What is due are the rows the agenda asks for.                            *)
LEMMA CalendarIs ==
    ASSUME RecordsTypeOK, ColumnsKept, BooksOK
    PROVE  CalendarItems = calendar_hearings \cup calendar_tasks \cup calendar_deadlines
                           \cup calendar_contracts \cup calendar_invoices
<1>1. ASSUME NEW k \in DOMAIN Lifecycle, NEW r
      PROVE  r \in Rows(k) <=> /\ r \in Records /\ KindOf[r] = k
                              /\ row[r].status \in Lifecycle[k]
  <2>1. "absent" \notin Lifecycle[k]
    BY KindsAreListed
    DEF Lifecycle, TaskStatus, DeadlineStatus, CaseStatus, ClientStatus
  <2>2. ASSUME r \in Records, KindOf[r] = k, Exists(r)
        PROVE  row[r].status \in Lifecycle[k]
    BY <2>2, ColumnsSet DEF ColumnsKept
  <2>q. QED
    BY <2>1, <2>2 DEF Rows, Table, Exists
<1>2. {"task", "deadline", "hearing", "contract"} \subseteq DOMAIN Lifecycle
  BY KindsAreListed
<1>3. /\ Lifecycle["task"] = TaskStatus /\ Lifecycle["deadline"] = DeadlineStatus
      /\ Lifecycle["hearing"] = {"scheduled", "held", "postponed", "cancelled"}
      /\ Lifecycle["contract"] = {"draft", "active", "expired", "cancelled"}
  BY DEF Lifecycle
<1>4. \A r : r \in calendar_tasks <=>
         r \in Records /\ KindOf[r] = "task" /\ row[r].status \in TaskStatus /\ ~row[r].gone
  BY <1>1, <1>2, <1>3 DEF calendar_tasks, Live
<1>5. \A r : r \in calendar_deadlines <=>
         r \in Records /\ KindOf[r] = "deadline" /\ row[r].status \in DeadlineStatus
  BY <1>1, <1>2, <1>3 DEF calendar_deadlines
<1>6. \A r : r \in calendar_hearings <=>
         /\ r \in Records /\ KindOf[r] = "hearing"
         /\ row[r].status \in {"scheduled", "held", "postponed"}
  BY <1>1, <1>2, <1>3 DEF calendar_hearings
<1>7. \A r : r \in calendar_contracts <=>
         r \in Records /\ KindOf[r] = "contract" /\ row[r].status = "active"
  BY <1>1, <1>2, <1>3 DEF calendar_contracts
<1>8. \A i : i \in calendar_invoices <=>
         i \in Invoices /\ state[i] = "open" /\ collected[i] + waived[i] < billed[i]
  BY DEF calendar_invoices, Open, Issued, credited_total, BooksOK
<1>q. QED
  BY <1>4, <1>5, <1>6, <1>7, <1>8 DEF CalendarItems

(* A page of the agenda fetches what is due in its window.                  *)
LEMMA EventsFetched ==
    ASSUME RecordsTypeOK, ColumnsKept, BooksOK, PageInv, Quiet, NEW p \in AgendaPages, p = page.name,
           NEW s, s = screen(p, page.filter.day),
           NEW fetched, fetched = UNION {page.got[q] : q \in DOMAIN page.got}
    PROVE  \A x : x \in fetched <=>
              x \in CalendarItems /\ s.start <= due(x) /\ due(x) < s.end
<1> DEFINE QS == {"hearings", "tasks", "deadlines", "contracts", "invoices"}
<1>1. In(Plan[p]) = QS
  BY PlansOfTabs
<1>2. DOMAIN page.got = QS /\ \A q \in QS : page.got[q] = Ask(p, q, page.filter)
  BY <1>1, QuietAnswers
<1> HIDE DEF QS
<1>3. \A q \in QS : page.got[q] = calendar_query(q, s)
  <2>1. \A q, f : Ask(p, q, f) = calendar_query(q, screen(p, f.day))
    BY AskIs
  <2>q. QED
    BY <1>2, <2>1
<1>4. fetched = UNION {calendar_query(q, s) : q \in QS}
  BY <1>2, <1>3
<1>5. \A x : x \in fetched <=> \E q \in QS : x \in calendar_query(q, s)
  BY <1>4
<1>6. \A x : x \in fetched <=>
         \/ x \in calendar_query("hearings", s)
         \/ x \in calendar_query("tasks", s)
         \/ x \in calendar_query("deadlines", s)
         \/ x \in calendar_query("contracts", s)
         \/ x \in calendar_query("invoices", s)
  BY <1>5 DEF QS
<1>7. /\ calendar_query("hearings", s) = Within(s, calendar_hearings)
      /\ calendar_query("tasks", s) = Within(s, calendar_tasks)
      /\ calendar_query("deadlines", s) = Within(s, calendar_deadlines)
      /\ calendar_query("contracts", s) = Within(s, calendar_contracts)
      /\ calendar_query("invoices", s) = Within(s, calendar_invoices)
  BY DEF calendar_query
<1>q. QED
  BY <1>6, <1>7, CalendarIs DEF Within

(* The buckets of what was fetched.                                         *)
LEMMA BucketsShow ==
    ASSUME NEW fetched, NEW d
    PROVE  /\ Cell(bucket(fetched, due), d) = {x \in fetched : due(x) = d}
           /\ DOMAIN bucket(fetched, due) = {due(x) : x \in fetched}
<1>1. DOMAIN bucket(fetched, due) = {due(x) : x \in fetched}
  BY DEF bucket
<1>2. CASE d \in DOMAIN bucket(fetched, due)
  BY <1>2 DEF bucket, Cell
<1>3. CASE d \notin DOMAIN bucket(fetched, due)
  <2>1. {x \in fetched : due(x) = d} = {}
    BY <1>1, <1>3
  <2>q. QED
    BY <1>1, <1>3, <2>1 DEF Cell
<1>q. QED
  BY <1>1, <1>2, <1>3

(* A page of the agenda nothing was committed beside misses nothing.        *)
LEMMA AgendaShowsAll ==
    RecordsTypeOK /\ ColumnsKept /\ OfficeInv => AgendaMissesNothing
<1> SUFFICES ASSUME RecordsTypeOK, ColumnsKept, BooksOK, PageInv, Quiet, NEW p \in AgendaPages, p = page.name
             PROVE  AgendaMissesNothing
  BY DEF AgendaMissesNothing, OfficeInv
<1> DEFINE d == page.filter.day
           s == screen(p, d)
           fetched == UNION {page.got[q] : q \in DOMAIN page.got}
           buckets == bucket(fetched, due)
<1>1. d \in Days
  <2>1. page.filter \in Filters(p)
    BY QuietAnswers
  <2>q. QED
    BY <2>1 DEF Filters
<1>2. Turns(p, d)
  <2>1. d \in Int
    BY <1>1, DaysAssumption
  <2>q. QED
    BY <1>1, <2>1, MonthTurns, WeekTurns, DayTurns DEF AgendaPages
<1>3. \A x : x \in fetched <=>
         x \in CalendarItems /\ s.start <= due(x) /\ due(x) < s.end
  BY EventsFetched
<1>4. s.start \in Int /\ s.end \in Int /\ s.days = s.start .. s.end - 1
  BY <1>2 DEF Turns
<1>5. \A c : Cell(buckets, c) = {x \in fetched : due(x) = c}
  BY BucketsShow
<1>6. DOMAIN buckets = {due(x) : x \in fetched}
  BY BucketsShow
<1>7. \A x \in CalendarItems : due(x) \in Int
  BY DueOnADay DEF CalendarItems
<1>8. \A n \in Int : s.start <= n /\ n < s.end <=> n \in s.days
  BY <1>4
<1> HIDE DEF s, fetched, buckets, d
<1>9. \A x : x \in fetched <=> x \in CalendarItems /\ due(x) \in s.days
  BY <1>3, <1>7, <1>8
<1>10. \A c \in s.days : Cell(buckets, c) = {x \in CalendarItems : due(x) = c}
  BY <1>5, <1>9
<1>11. DOMAIN buckets \subseteq s.days
  BY <1>6, <1>9
<1> USE DEF d
<1>q. QED
  BY <1>2, <1>10, <1>11 DEF AgendaMissesNothing, Turns, s, fetched, buckets

(* The agenda loses no day and no event: each cell shows what is due on its *)
(* day, postponed hearings on their old day included, and turning the page  *)
(* leaves no day out and leads back (calendar_events, _bucket,              *)
(* AgendaMonthView).                                                        *)
THEOREM AgendaLosesNothing == OfficeSpec => []AgendaMissesNothing
  BY AgendaShowsAll, OfficeInvariant, OfficeImplementsRecords, RecordsInvariant,
     ColumnsInvariant, PTL DEF RecordsInv
=============================================================================
