------------------------------- MODULE Office -------------------------------
(***************************************************************************)
(* The office at work: web processes that edit records, a case team and the *)
(* finance tables, while another builds a page from several queries.  Every *)
(* query commits on its own, so a page may show tables of several moments.  *)
(***************************************************************************)
EXTENDS FinancePages, CaseTeam, Agenda, Sequences

CONSTANTS
    Cases, Clients, \* the cases and clients a page can be asked for
    Days,           \* the days the agenda can be opened at
    Today,
    MaxOverlaps     \* bound: writes committed while one page is built

ASSUME PagesAssumption ==
    /\ None \notin Cases \cup Clients
    /\ MaxOverlaps \in Nat

(* A day the agenda is opened at lies in a month, with one before it and    *)
(* one after it.                                                            *)
ASSUME DaysAssumption ==
    LET Follows(n, m) == m < n /\ \A k \in MonthStarts : k <= m \/ n <= k
    IN  /\ Today \in Int /\ Days \subseteq Int
        /\ \A d \in Days : \E a, b, c, e \in MonthStarts :
              /\ Follows(b, a) /\ Follows(c, b) /\ Follows(e, c)
              /\ b <= d /\ d < c

VARIABLE page   \* the page being built, or NoPage

officeVars == <<recordVars, bookVars, teamVars, page>>

NoPage == [name |-> "none"]
Nothing == [q \in {} |-> 0]

-----------------------------------------------------------------------------
(* The queries of each page, in the order the code runs them.  The plan of  *)
(* the dashboard: the shared counts, the attention blocks, today's          *)
(* hearings, the counts of the KPI row, the deadlines to come, the case     *)
(* analytics, the recent cases and the recent activity.  Its financial      *)
(* overview (firm_financials) is read between the last two; it shares no    *)
(* query with them and is a page of its own here.                           *)
Listing == <<"count", "rows">>
Breakdown == <<"rows", "by_status">>

build_dashboard ==
    <<"active_cases", "urgent_cases", "overdue_tasks", "expiring_contracts",
      "high_priority_block", "tasks_block", "deadlines_block",
      "hearings_block", "contracts_block", "invoices_block", "today_hearings",
      "total_clients", "outstanding_invoices", "upcoming_deadlines",
      "case_total", "by_status", "by_priority", "recent_cases",
      "recent_activity">>

calendar_events == <<"hearings", "tasks", "deadlines", "contracts", "invoices">>

(* Mutant: the reversals are summed before the payments.                   *)
payment_queriesSwapped == <<"rows", "revs", "gross">>

payment_queries == <<"rows", "gross", "revs">>

Plan ==
    [TaskListView |-> Listing, DeadlineListView |-> Listing,
     CaseListView |-> Listing, ClientListView |-> Listing,
     CourtListView |-> Listing, DocumentListView |-> Listing,
     ExpenseListView |-> Listing, HearingListView |-> Listing,
     ContractListView |-> Listing, InvoiceListView |-> Listing,
     PaymentListView |-> Listing,
     CaseDetailView |-> <<"hearings", "case_tasks", "case_deadlines",
                          "case_documents", "case_contracts">>,
     CaseFinanceTab |-> <<"totals", "credited", "expenses", "case_invoices",
                          "case_payments", "case_expenses">>,
     ClientDetailView |-> <<"totals", "credited", "client_invoices",
                            "client_payments", "client_documents",
                            "client_contracts">>,
     task_report |-> Breakdown, deadline_report |-> Breakdown,
     hearing_report |-> Breakdown,
     case_report |-> <<"rows", "by_status", "by_priority">>,
     client_report |-> <<"rows", "by_status", "total", "with_active">>,
     expense_report |-> <<"rows", "per_ccy", "per_ccy_cat">>,
     revenue_report |-> <<"rows", "totals", "credited", "counts", "count">>,
     payment_report |-> payment_queries,
     outstanding_report |-> <<"rows", "totals", "credited">>,
     case_financials_report |-> <<"totals", "credited", "expenses">>,
     overview |-> <<"totals", "credited", "expenses">>,
     dashboard |-> build_dashboard,
     AgendaDayView |-> calendar_events,
     AgendaWeekView |-> calendar_events,
     AgendaMonthView |-> calendar_events]

Kind ==
    [TaskListView |-> "task", DeadlineListView |-> "deadline",
     CaseListView |-> "case", ClientListView |-> "client",
     HearingListView |-> "hearing", ContractListView |-> "contract",
     task_report |-> "task", deadline_report |-> "deadline",
     hearing_report |-> "hearing", case_report |-> "case",
     client_report |-> "client"]

AgendaPages == {"AgendaDayView", "AgendaWeekView", "AgendaMonthView"}

FinanceReports == {"revenue_report", "payment_report", "outstanding_report",
                   "case_financials_report", "expense_report"}

Reports == FinanceReports \cup
    {"task_report", "deadline_report", "hearing_report", "case_report", "client_report"}

(* The pages without a check box.                                          *)
Unboxed == {"ClientListView", "DocumentListView", "ExpenseListView", "PaymentListView",
            "CaseDetailView", "CaseFinanceTab", "ClientDetailView", "hearing_report",
            "overview", "dashboard"}
           \cup AgendaPages \cup (FinanceReports \ {"outstanding_report"})

Filters(p) ==
    [status : {None} \cup (IF p \in DOMAIN Kind THEN Lifecycle[Kind[p]] ELSE {}),
     only : IF p \in Unboxed THEN {FALSE} ELSE BOOLEAN,
     case : IF p \in {"CaseDetailView", "CaseFinanceTab"} THEN Cases
            ELSE {None} \cup (IF p \in FinanceReports THEN Cases ELSE {}),
     client : IF p = "ClientDetailView" THEN Clients
              ELSE {None} \cup (IF p \in FinanceReports THEN Clients ELSE {}),
     day : IF p \in AgendaPages THEN Days ELSE {Today}]

-----------------------------------------------------------------------------
open_cases == NotIn(Rows("case"), TERMINAL_STATUSES)

shared_counts(q) ==
    IF q = "active_cases" THEN Cardinality(open_cases)
    ELSE IF q = "urgent_cases" THEN Cardinality({c \in open_cases : Urgent(c)})
    ELSE IF q = "overdue_tasks" THEN Cardinality(overdue_tasks)
    ELSE Cardinality(expiring_contracts)

attention(q) ==
    IF q = "high_priority_block"
    THEN {c \in open_cases : row[c].value \in {HIGH, URGENT}}
    ELSE IF q = "tasks_block" THEN overdue_tasks
    ELSE IF q = "deadlines_block" THEN overdue_deadlines
    ELSE IF q = "hearings_block" THEN upcoming_hearings
    ELSE IF q = "contracts_block" THEN expiring_contracts
    ELSE overdue_invoices

kpis(q) ==
    IF q = "total_clients" THEN Cardinality(Rows("client"))
    ELSE Cardinality(Open)

case_analytics(q) ==
    IF q = "case_total" THEN Cardinality(Rows("case"))
    ELSE IF q = "by_status" THEN CountBy(Rows("case"), "case")
    ELSE [v \in Values |-> Cardinality({c \in open_cases : row[c].value = v})]

(* What the log tells of, whatever became of it since: the last change of a *)
(* record named in _ACTIVITY_BY_CAP, and every invoice that was issued.     *)
(* Nothing of a court is in that list.  The limit of twelve is left out.    *)
recent_activity ==
    {r \in Records : told[r].status # "absent" /\ KindOf[r] # "court"}
    \cup {i \in Invoices : state[i] # "unbilled"}

Blocks == {"high_priority_block", "tasks_block", "deadlines_block",
           "hearings_block", "contracts_block", "invoices_block"}

dashboard_query(q) ==
    IF q \in {"active_cases", "urgent_cases", "overdue_tasks",
              "expiring_contracts"} THEN shared_counts(q)
    ELSE IF q \in Blocks THEN attention(q)
    ELSE IF q = "today_hearings" THEN today_hearings
    ELSE IF q \in {"total_clients", "outstanding_invoices"} THEN kpis(q)
    ELSE IF q = "upcoming_deadlines" THEN upcoming_deadlines
    ELSE IF q = "recent_cases" THEN open_cases
    ELSE IF q = "recent_activity" THEN recent_activity
    ELSE case_analytics(q)

(* Mutant: every block counts its own rows.                                *)
attention_countOwn(got, b) == Cardinality(got[b])

(* The number a block shows: the shared count when there is one, else the   *)
(* rows it fetched.                                                         *)
attention_count(got, b) ==
    IF b = "tasks_block" THEN got.overdue_tasks
    ELSE IF b = "contracts_block" THEN got.expiring_contracts
    ELSE Cardinality(got[b])

kpi(got, k) == IF k = "today_hearings" THEN Cardinality(got[k]) ELSE got[k]

(* The day an event is on.                                                 *)
due(x) == IF x \in Invoices THEN Today - DaysLate[x] ELSE Today + DaysTo(x)

Within(s, S) == {x \in S : s.start <= due(x) /\ due(x) < s.end}

calendar_hearings == {r \in Rows("hearing") : row[r].status # "cancelled"}
calendar_tasks == Live("task")
calendar_deadlines == Rows("deadline")
calendar_contracts == {r \in Rows("contract") : row[r].status = "active"}
calendar_invoices == Open

screen(p, d) ==
    IF p = "AgendaDayView" THEN AgendaDayView(d)
    ELSE IF p = "AgendaWeekView" THEN AgendaWeekView(d)
    ELSE AgendaMonthView(d)

calendar_query(q, s) ==
    Within(s, IF q = "hearings" THEN calendar_hearings
              ELSE IF q = "tasks" THEN calendar_tasks
              ELSE IF q = "deadlines" THEN calendar_deadlines
              ELSE IF q = "contracts" THEN calendar_contracts
              ELSE calendar_invoices)

Ask(p, q, f) ==
    IF p = "TaskListView" THEN TaskListView(q, f)
    ELSE IF p = "DeadlineListView" THEN DeadlineListView(q, f)
    ELSE IF p = "CaseListView" THEN CaseListView(q, f)
    ELSE IF p = "ClientListView" THEN ClientListView(q, f)
    ELSE IF p = "CourtListView" THEN CourtListView(q, f)
    ELSE IF p = "DocumentListView" THEN DocumentListView(q, f)
    ELSE IF p = "ExpenseListView" THEN ExpenseListView(q, f)
    ELSE IF p = "HearingListView" THEN HearingListView(q, f)
    ELSE IF p = "ContractListView" THEN ContractListView(q, f)
    ELSE IF p = "InvoiceListView" THEN InvoiceListView(q, f)
    ELSE IF p = "PaymentListView" THEN PaymentListView(q, f)
    ELSE IF p = "CaseDetailView" THEN CaseDetailView(q, f)
    ELSE IF p = "CaseFinanceTab" THEN CaseFinanceTab(q, f)
    ELSE IF p = "ClientDetailView" THEN ClientDetailView(q, f)
    ELSE IF p = "task_report" THEN build_task_report(q, f)
    ELSE IF p = "deadline_report" THEN build_deadline_report(q, f)
    ELSE IF p = "hearing_report" THEN build_hearing_report(q, f)
    ELSE IF p = "case_report" THEN build_case_report(q, f)
    ELSE IF p = "client_report" THEN build_client_report(q, f)
    ELSE IF p = "expense_report" THEN build_expense_report(q, f)
    ELSE IF p = "revenue_report" THEN build_revenue_report(q, f)
    ELSE IF p = "payment_report" THEN build_payment_report(q, f)
    ELSE IF p = "outstanding_report" THEN build_outstanding_report(q, f)
    ELSE IF p = "case_financials_report" THEN build_case_financials_report(q, f)
    ELSE IF p = "overview" THEN firm_financials(q)
    ELSE IF p = "dashboard" THEN dashboard_query(q)
    ELSE calendar_query(q, screen(p, f.day))

Held == Sums(Invoices, InvoiceCcy, collected)

Complete == page # NoPage /\ Cardinality(DOMAIN page.got) = Len(Plan[page.name])

(* A page no write was committed beside.                                    *)
Quiet == Complete /\ page.overlaps = 0

OfficeInit ==
    RecordsInit /\ BooksInit /\ TeamInit /\ page = NoPage

OpenPage(p, f) ==
    /\ page = NoPage
    /\ page' = [name |-> p, filter |-> f, got |-> Nothing, overlaps |-> 0,
                held |-> Nothing]

With(got, q, answer) == [k \in DOMAIN got \cup {q} |-> IF k = q THEN answer ELSE got[k]]

(* `held` remembers what the office held when the gross sums were read.     *)
NextQuery ==
    /\ page # NoPage /\ ~Complete
    /\ LET q == Plan[page.name][Cardinality(DOMAIN page.got) + 1]
       IN  page' = [page EXCEPT !.got = With(@, q, Ask(page.name, q, page.filter)),
                                !.held = IF q = "gross" THEN Held ELSE @]

SendPage == Complete /\ page' = NoPage

Read(pages) ==
    /\ \/ \E p \in pages : \E f \in Filters(p), posted \in BOOLEAN :
              OpenPage(p, IF p \in Reports THEN resolved_filters(p, f, posted) ELSE f)
       \/ NextQuery
       \/ SendPage
    /\ UNCHANGED <<recordVars, bookVars, teamVars>>

(* What a write of the records or the books does to the page being built.   *)
Beside ==
    IF page = NoPage \/ <<row, told, bookVars>>' = <<row, told, bookVars>>
    THEN UNCHANGED page
    ELSE /\ page.overlaps < MaxOverlaps
         /\ page' = [page EXCEPT !.overlaps = @ + 1]

EditRecords == RecordsNext /\ UNCHANGED <<bookVars, teamVars>> /\ Beside
EditBooks == BooksNext /\ UNCHANGED <<recordVars, teamVars>> /\ Beside
EditTeam == TeamNext /\ UNCHANGED <<recordVars, bookVars, page>>

OfficeNext == EditRecords \/ EditBooks \/ EditTeam \/ Read(DOMAIN Plan)

OfficeSpec == OfficeInit /\ [][OfficeNext]_officeVars

-----------------------------------------------------------------------------
OfficeTypeOK ==
    /\ RecordsTypeOK /\ ColumnsKept
    /\ TeamTypeOK
    /\ state \in [Invoices -> {"unbilled", "open", "void"}]
    /\ \A i \in Invoices : collected[i] = gross[i] - reversed[i]
    /\ page # NoPage =>
          /\ page.filter \in Filters(page.name)
          /\ \E k \in 0 .. Len(Plan[page.name]) :
                DOMAIN page.got = {Plan[page.name][j] : j \in 1 .. k}
          /\ page.overlaps \in 0 .. MaxOverlaps

Column(rows, name) == [i \in DOMAIN rows |-> rows[i][name]]

Having(rows, s) == {r \in DOMAIN rows : rows[r].status = s}

(* A report nothing was committed beside shows breakdowns that count its    *)
(* rows: by status and by priority, the clients and those with active       *)
(* cases, the expenses by currency and by category.  The rows and each      *)
(* breakdown are separate queries, joined and filtered in different ways    *)
(* (_counts, build_client_report, build_expense_report).                    *)
ReportsAddUp ==
    Quiet =>
        LET got == page.got
        IN  /\ {"rows", "by_status"} \subseteq DOMAIN got =>
                 \A s \in DOMAIN got.by_status :
                     got.by_status[s] = Cardinality(Having(got.rows, s))
            /\ page.name = "case_report" =>
                 \A v \in DOMAIN got.by_priority :
                     got.by_priority[v] =
                         Cardinality({r \in DOMAIN got.rows : got.rows[r].value = v})
            /\ page.name = "client_report" =>
                 /\ got.total = Cardinality(DOMAIN got.rows)
                 /\ got.with_active =
                       Cardinality({l \in DOMAIN got.rows : got.rows[l].active > 0})
            /\ page.name = "expense_report" =>
                 \A c \in DOMAIN got.per_ccy :
                     /\ got.per_ccy[c] =
                           SumFunctionOnSet(Column(got.rows, "value"),
                               {e \in DOMAIN got.rows : ExpenseCcy[e] = c})
                     /\ got.per_ccy[c] =
                           SumFunctionOnSet(got.per_ccy_cat,
                               {k \in DOMAIN got.per_ccy_cat : k[1] = c})

RowSum(rows, c, name) ==
    SumFunctionOnSet(Column(rows, name), {i \in DOMAIN rows : rows[i].ccy = c})

(* The rows of the invoices a summary counts: not of a draft, nor of one    *)
(* credited in full, whose payments the page lists all the same.            *)
OfIssued(rows) == [i \in DOMAIN rows \cap Issued |-> rows[i]]

(* The summary of a case or client against the rows below it; on the page   *)
(* of a client, against the query sets whose first rows it shows.           *)
SummaryFits(got, invoices, payments) ==
    \A c \in DOMAIN got.totals.paid :
        /\ got.totals.paid[c] = RowSum(OfIssued(payments), c, "net")
        /\ remaining(got, c) <= RowSum(OfIssued(invoices), c, "outstanding")

OneNote(rows) == \A i \in DOMAIN rows : notes[i] < 2

(* What the finance pages say agrees with their own rows and with one       *)
(* another, when nothing was committed beside: the invoices of a currency   *)
(* add up to its totals; what remains of it is at most what the rows leave, *)
(* and exactly that unless an invoice was credited below what was paid (the *)
(* sum is floored, not its terms); the buckets by age share out what        *)
(* remains; the net of the payments is what the office holds; the summary   *)
(* of a case or a client fits the rows of issued invoices shown below it,   *)
(* and that of a case the report on it.  Excepted is the total of the       *)
(* outstanding report over invoices with several credit notes.              *)
InvoicePagesAddUp ==
    Quiet =>
        LET got == page.got
        IN  /\ page.name = "revenue_report" =>
                 /\ got.count = Cardinality(DOMAIN got.rows)
                 /\ DOMAIN got.counts = DOMAIN got.totals.invoiced
                 /\ \A c \in DOMAIN got.counts :
                       LET left_ == RowSum(got.rows, c, "outstanding")
                       IN  /\ got.totals.invoiced[c] = RowSum(got.rows, c, "total")
                           /\ got.totals.paid[c] = RowSum(got.rows, c, "paid")
                           /\ remaining(got, c) <= left_
                           /\ (\A i \in DOMAIN got.rows : collected[i] <= credited_total(i))
                                  => remaining(got, c) = left_
            /\ page.name = "outstanding_report" /\ OneNote(got.rows) =>
                 \A c \in DOMAIN got.totals.invoiced :
                     /\ remaining(got, c) = RowSum(got.rows, c, "outstanding")
                     /\ remaining(got, c) =
                           SumFunctionOnSet([b \in AgingBuckets |-> aging(got.rows, c, b)],
                                            AgingBuckets)
            /\ page.name = "payment_report" =>
                 \A c \in DOMAIN got.gross :
                     /\ got.gross[c] - At(got.revs, c) =
                           RowSum(got.rows, c, "net")
                     /\ page.filter.case = None /\ page.filter.client = None =>
                           got.gross[c] - At(got.revs, c) = Held[c]
            /\ page.name = "CaseFinanceTab" =>
                 /\ \A c \in DOMAIN got.totals.invoiced :
                     LET report(q) == build_case_financials_report(q, page.filter)
                         line == <<page.filter.case, c>>
                     IN  /\ got.totals.invoiced[c] = report("totals").invoiced[line]
                         /\ remaining(got, c) =
                               remaining([totals |-> report("totals"),
                                          credited |-> report("credited")], line)
                 /\ \A c \in DOMAIN got.expenses :
                     got.expenses[c] =
                         SumFunctionOnSet(Column(got.case_expenses, "value"),
                             {e \in DOMAIN got.case_expenses : ExpenseCcy[e] = c})
                 /\ SummaryFits(got, got.case_invoices, got.case_payments)
            /\ page.name = "ClientDetailView" =>
                 SummaryFits(got, got.client_invoices, got.client_payments)

(* Whatever payments are recorded and reversed while the payment report is  *)
(* built, the net it shows never exceeds what the office held when its      *)
(* gross sums were read: they are read first, the reversals after           *)
(* (build_payment_report).                                                  *)
NetNeverOverstated ==
    {"gross", "revs"} \subseteq (IF page = NoPage THEN {} ELSE DOMAIN page.got) =>
        \A c \in DOMAIN page.got.gross :
            page.got.gross[c] - At(page.got.revs, c) <= page.held[c]

Chosen(only) ==
    [status |-> None, only |-> only, case |-> None, client |-> None, day |-> Today]

(* The list a block of the dashboard leads to.                              *)
LinkedList(b) ==
    IF b = "high_priority_block" THEN case_list(Chosen(TRUE))
    ELSE IF b = "tasks_block" THEN task_list(Chosen(TRUE))
    ELSE IF b = "deadlines_block" THEN deadline_list(Chosen(TRUE))
    ELSE IF b = "hearings_block" THEN hearing_list(Chosen(FALSE))
    ELSE IF b = "contracts_block" THEN contract_list(Chosen(TRUE))
    ELSE invoice_list(Chosen(TRUE))

(* The number on a tile of the dashboard and the one on the attention block *)
(* about the same thing never disagree, whatever commits while the page is  *)
(* built (_shared_counts).  When nothing does, each block shows the rows it *)
(* counts, the open cases are those of the breakdown by priority and those  *)
(* listed as recent, and the numbers relate to the lists they lead to: the  *)
(* blocks of tasks, deadlines, contracts and invoices show exactly the      *)
(* records of their list, and the tiles of active and of urgent cases count *)
(* theirs.  The other lists differ from the numbers: that of the            *)
(* high-priority block is the urgent part of it, that of the hearings of    *)
(* seven days goes on after them, the clients counted are those listed and  *)
(* the archived ones, and the outstanding invoices are some of those listed *)
(* (_attention, _kpis, _case_analytics).                                    *)
DashboardAgrees ==
    page.name = "dashboard" =>
        LET got == page.got
        IN  /\ "tasks_block" \in DOMAIN got =>
                 kpi(got, "overdue_tasks") = attention_count(got, "tasks_block")
            /\ "contracts_block" \in DOMAIN got =>
                 kpi(got, "expiring_contracts") = attention_count(got, "contracts_block")
            /\ Quiet =>
                 /\ \A b \in Blocks : attention_count(got, b) = Cardinality(got[b])
                 /\ kpi(got, "active_cases") =
                       SumFunctionOnSet(got.by_priority, Values)
                 /\ kpi(got, "active_cases") = Cardinality(got.recent_cases)
                 /\ got.case_total =
                       SumFunctionOnSet(got.by_status, Lifecycle["case"])
                 /\ got.deadlines_block \subseteq got.upcoming_deadlines
                 /\ \A b \in {"tasks_block", "deadlines_block", "contracts_block",
                              "invoices_block"} : got[b] = LinkedList(b)
                 /\ kpi(got, "active_cases") = Cardinality(case_list(Chosen(FALSE)))
                 /\ kpi(got, "urgent_cases") = Cardinality(case_list(Chosen(TRUE)))
                 /\ {c \in got.high_priority_block : Urgent(c)} =
                       LinkedList("high_priority_block")
                 /\ got.hearings_block \subseteq LinkedList("hearings_block")
                 /\ kpi(got, "total_clients") =
                       Cardinality(client_list(Chosen(FALSE)))
                       + Cardinality(client_list([Chosen(FALSE) EXCEPT !.status = "archived"]))
                 /\ kpi(got, "outstanding_invoices") =
                       Cardinality(Open \cap invoice_list(Chosen(FALSE)))

ShownRows == Blocks \cup {"today_hearings", "upcoming_deadlines", "recent_cases"}

ShownRecords ==
    Records \cap
        (IF page.name = "dashboard" THEN UNION {page.got[q] : q \in ShownRows}
         ELSE IF page.name \in AgendaPages
         THEN UNION {page.got[q] : q \in DOMAIN page.got}
         ELSE IF page.name \in {"CaseDetailView", "CaseFinanceTab", "ClientDetailView"}
         THEN UNION {DOMAIN page.got[q] :
                        q \in DOMAIN page.got \ {"totals", "credited", "expenses"}}
         ELSE IF "rows" \in DOMAIN page.got THEN DOMAIN page.got.rows
         ELSE {})

(* Every record a page lists can be opened from it: the lists, the reports, *)
(* the tabs of a case and a client, the blocks and tables of the dashboard  *)
(* and the agenda leave out what the detail views do not find (_get_task,   *)
(* _get_document), unless it was removed while they read.  The exception is *)
(* the recent activity of the dashboard, which asks the log and not the     *)
(* tables (_recent_activity): what it links to was once there, and does not *)
(* open only if it was deleted or withdrawn since.                          *)
EveryLinkOpens ==
    Quiet =>
        /\ \A r \in ShownRecords : Found(r)
        /\ page.name = "dashboard" =>
             \A r \in Records \cap page.got.recent_activity :
                 Found(r) \/ (Exists(r) /\ row[r].gone)

(* What the agenda is about: every task that is not deleted and every       *)
(* deadline, done or not; hearings that are not cancelled, so that one      *)
(* postponed stays on its old day; contracts in force; invoices that leave  *)
(* something to pay.                                                       *)
CalendarItems ==
    {r \in Records :
        \/ KindOf[r] = "task" /\ row[r].status \in TaskStatus /\ ~row[r].gone
        \/ KindOf[r] = "deadline" /\ row[r].status \in DeadlineStatus
        \/ KindOf[r] = "hearing" /\ row[r].status \in {"scheduled", "held", "postponed"}
        \/ KindOf[r] = "contract" /\ row[r].status = "active"}
    \cup {i \in Invoices : state[i] = "open" /\ collected[i] + waived[i] < billed[i]}

(* The agenda loses no day and no event.  When nothing is committed beside, *)
(* each cell shows exactly the items of the calendar that are due on its    *)
(* day, a postponed hearing on its old day among them, and everything       *)
(* fetched is in a cell; and the links of a view lead to one that leaves no *)
(* day out in between and that leads back, also where a month ends with a   *)
(* week (calendar_events, _bucket, AgendaMonthView).                        *)
AgendaMissesNothing ==
    Quiet /\ page.name \in AgendaPages =>
        LET s == screen(page.name, page.filter.day)
            fetched == UNION {page.got[q] : q \in DOMAIN page.got}
            buckets == bucket(fetched, due)
            after == screen(page.name, s.next)
            before == screen(page.name, s.prev)
        IN  /\ \A d \in s.days : Cell(buckets, d) = {x \in CalendarItems : due(x) = d}
            /\ DOMAIN buckets \subseteq s.days
            /\ after # s /\ after.start <= s.end /\ screen(page.name, after.prev) = s
            /\ before # s /\ s.start <= before.end /\ screen(page.name, before.next) = s

-----------------------------------------------------------------------------
(* What the repository says of its pages and the code does not do.          *)

(* The outstanding total of a currency is what its open invoices leave to   *)
(* pay: "Accurate per-currency outstanding (independent of the row cap)."   *)
(* (build_outstanding_report; _invoice_totals_by_currency: joining the      *)
(* credit notes into the totals "would fan out" them).                      *)
OutstandingTotalIsReal ==
    Quiet /\ page.name = "outstanding_report" =>
        \A c \in DOMAIN page.got.totals.invoiced :
            remaining(page.got, c) =
                RowSum(page.got.rows, c, "outstanding")

=============================================================================
