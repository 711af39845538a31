---------------------------- MODULE OfficePages ----------------------------
(***************************************************************************)
(* What the pages show: the list views, the reports (reports/selectors.py), *)
(* the dashboard and the agenda.  A page is built from several queries, one *)
(* after the other and outside any transaction, so each sees the tables as  *)
(* they are when it runs.  An operator here is the builder of a page: given *)
(* the name of a query and the posted filter, it is the query's result now. *)
(*                                                                         *)
(* The value of a case is its priority, that of a task, deadline, hearing   *)
(* or contract its date, given by DaysAway; a hearing is taken to be at the *)
(* hour it is now.  The value of an expense is its amount.  Lists, tabs and *)
(* blocks are taken to fit a page (they are cut after 6 to 25 rows) and     *)
(* reports to stay under MAX_ROWS.  Text search is left out: it narrows a   *)
(* list further.                                                            *)
(***************************************************************************)
EXTENDS OfficeRecords, FiniteSetsExt, Integers

CONSTANTS
    CaseOf, ClientOf,   \* the case and the client a record belongs to
    ExpenseCcy, ExpenseCategory, \* columns of an expense
    DaysAway            \* how many days from today a date is

ASSUME DatesAssumption == DaysAway \in [Values \cup {0} -> Int]

None == "any"

(* A filter: a status, the page's own check box (overdue, urgent, with      *)
(* active cases, inactive included, all dates), a case, a client, and the   *)
(* day a page of the agenda is opened at.                                   *)
Matches(f, case, client) ==
    /\ f.case # None => case = f.case
    /\ f.client # None => client = f.client

Of(S, f) == {r \in S : Matches(f, CaseOf[r], ClientOf[r])}

Statused(S, f) == {r \in S : f.status # None => row[r].status = f.status}

Rows(k) == {r \in Table[k] : Exists(r)}
Live(k) == {r \in Rows(k) : ~row[r].gone}

URGENT == 1
HIGH == 2

Urgent(c) == row[c].value = URGENT

DaysTo(r) == DaysAway[row[r].value]
PastDue(r) == DaysTo(r) < 0

ATTENTION_HEARING_DAYS == 7
DEADLINE_HORIZON_DAYS == 14
EXPIRING_CONTRACT_DAYS == 30

TASK_CLOSED == {"done", "cancelled"}
DEADLINE_CLOSED == {"met", "missed", "cancelled"}
CONTRACT_CLOSED == {"expired", "cancelled"}
TERMINAL_STATUSES == {"concluded", "closed"}

(* ScopedQuerySet.open(): everything but the closed statuses.               *)
NotIn(S, closed) == {r \in S : row[r].status \notin closed}

ShowRows(S) == [r \in S |-> row[r]]
CountBy(S, k) == [s \in Lifecycle[k] |-> Cardinality({r \in S : row[r].status = s})]

(* A list view: the paginator counts, then the template fetches the rows.   *)
ListPage(q, S) == IF q = "count" THEN Cardinality(S) ELSE ShowRows(S)

-----------------------------------------------------------------------------
(* The lists.  With no status chosen, a list leaves the closed ones out.    *)

DefaultOpen(S, f, closed) ==
    IF f.status = None THEN NotIn(S, closed) ELSE Statused(S, f)

overdue_tasks == {r \in NotIn(Live("task"), TASK_CLOSED) : PastDue(r)}

(* Mutant: alive() is forgotten.                                           *)
task_listRetired(f) == DefaultOpen(Rows("task"), f, TASK_CLOSED)

task_list(f) ==
    LET S == DefaultOpen(Live("task"), f, TASK_CLOSED)
    IN  IF f.only THEN {r \in S : PastDue(r) /\ row[r].status \notin TASK_CLOSED}
        ELSE S

overdue_deadlines ==
    {r \in Rows("deadline") : row[r].status = "pending" /\ PastDue(r)}

deadline_list(f) ==
    LET S == DefaultOpen(Rows("deadline"), f, DEADLINE_CLOSED)
    IN  IF f.only THEN S \cap overdue_deadlines ELSE S

case_list(f) ==
    {r \in DefaultOpen(Rows("case"), f, TERMINAL_STATUSES) : f.only => Urgent(r)}

client_list(f) == DefaultOpen(Rows("client"), f, {"archived"})

court_list(f) == {r \in Rows("court") : f.only \/ row[r].status = "active"}

document_list(f) == Live("document")

expense_list(f) == Live("expense")

(* HearingQuerySet.upcoming(): with no end.                                 *)
upcoming ==
    {r \in Rows("hearing") : row[r].status = "scheduled" /\ DaysTo(r) >= 0}

hearing_list(f) ==
    {r \in Statused(Rows("hearing"), f) : ~f.only => r \in upcoming}

upcoming_hearings == {r \in upcoming : DaysTo(r) < ATTENTION_HEARING_DAYS}

today_hearings ==
    {r \in Rows("hearing") : row[r].status = "scheduled" /\ DaysTo(r) = 0}

expiring_contracts ==
    {r \in Rows("contract") :
        row[r].status = "active" /\ DaysTo(r) \in 0 .. EXPIRING_CONTRACT_DAYS}

contract_list(f) ==
    LET S == DefaultOpen(Rows("contract"), f, CONTRACT_CLOSED)
    IN  IF f.only THEN S \cap expiring_contracts ELSE S

(* Those past due are among them.                                          *)
upcoming_deadlines ==
    {r \in Rows("deadline") :
        row[r].status = "pending" /\ DaysTo(r) <= DEADLINE_HORIZON_DAYS}

TaskListView(q, f) == ListPage(q, task_list(f))
DeadlineListView(q, f) == ListPage(q, deadline_list(f))
CaseListView(q, f) == ListPage(q, case_list(f))
ClientListView(q, f) == ListPage(q, client_list(f))
CourtListView(q, f) == ListPage(q, court_list(f))
DocumentListView(q, f) == ListPage(q, document_list(f))
ExpenseListView(q, f) == ListPage(q, expense_list(f))
HearingListView(q, f) == ListPage(q, hearing_list(f))
ContractListView(q, f) == ListPage(q, contract_list(f))

-----------------------------------------------------------------------------
(* The tabs of a case and of a client.                                      *)

case_tasks(f) == Of(Live("task"), f)
case_deadlines(f) == Of(Rows("deadline"), f)
case_hearings(f) == Of(Rows("hearing"), f)
case_contracts(f) == Of(Rows("contract"), f)
case_documents(f) == Of(Live("document"), f)
case_expenses(f) == Of(Live("expense"), f)
client_contracts(f) == Of(Rows("contract"), f)
client_documents(f) == Of(Live("document"), f)

CaseDetailView(q, f) ==
    ShowRows(IF q = "hearings" THEN case_hearings(f)
             ELSE IF q = "case_tasks" THEN case_tasks(f)
             ELSE IF q = "case_deadlines" THEN case_deadlines(f)
             ELSE IF q = "case_documents" THEN case_documents(f)
             ELSE case_contracts(f))

-----------------------------------------------------------------------------
(* The reports over records: the rows, then the breakdowns.                 *)

build_task_report(q, f) ==
    LET late == {r \in Live("task") : row[r].status \in {"new", "in_progress"}
                                      /\ PastDue(r)}
        qs == {r \in Statused(Live("task"), f) : f.only => r \in late}
    IN  IF q = "rows" THEN ShowRows(qs) ELSE CountBy(qs, "task")

build_deadline_report(q, f) ==
    LET qs == {r \in Statused(Rows("deadline"), f) :
                  f.only => row[r].status = "pending" /\ PastDue(r)}
    IN  IF q = "rows" THEN ShowRows(qs) ELSE CountBy(qs, "deadline")

(* The check box of the case report asks for the open ones.                 *)
build_case_report(q, f) ==
    LET qs == IF f.status # None THEN Statused(Rows("case"), f)
              ELSE IF f.only THEN NotIn(Rows("case"), TERMINAL_STATUSES)
              ELSE Rows("case")
    IN  IF q = "rows" THEN ShowRows(qs)
        ELSE IF q = "by_status" THEN CountBy(qs, "case")
        ELSE [v \in Values |-> Cardinality({r \in qs : row[r].value = v})]

ActiveCases(l) ==
    {c \in NotIn(Rows("case"), TERMINAL_STATUSES) : ClientOf[c] = l}

build_client_report(q, f) ==
    LET withActive == {l \in Rows("client") : ActiveCases(l) # {}}
        base == {l \in Statused(Rows("client"), f) : f.only => l \in withActive}
    IN  IF q = "rows" THEN [l \in base |-> [status |-> row[l].status,
                                            active |-> Cardinality(ActiveCases(l))]]
        ELSE IF q = "by_status" THEN CountBy(base, "client")
        ELSE IF q = "total" THEN Cardinality(base)
        ELSE Cardinality(base \cap withActive)

build_hearing_report(q, f) ==
    LET qs == Statused(Rows("hearing"), f)
    IN  IF q = "rows" THEN ShowRows(qs) ELSE CountBy(qs, "hearing")

(* What a report is built with: the posted filter, or on a fresh page the   *)
(* initial value of each field; only the case report starts with its box    *)
(* ticked.                                                                  *)
resolved_filters(report, f, posted) ==
    IF posted THEN f
    ELSE [f EXCEPT !.status = None, !.case = None, !.client = None,
                   !.only = report = "case_report"]

(* One query: the sums of a column, a line for each value of the key.       *)
Sums(S, key, amount) ==
    [k \in {key[x] : x \in S} |->
        SumFunctionOnSet(amount, {x \in S : key[x] = k})]

CcyAndCategory == [e \in Records |-> <<ExpenseCcy[e], ExpenseCategory[e]>>]
CaseAndExpenseCcy == [e \in Records |-> <<CaseOf[e], ExpenseCcy[e]>>]

Amount == [e \in Records |-> row[e].value]

(* Mutant: the sums are taken over retired expenses too.                   *)
build_expense_reportAll(q, f) ==
    LET S == Of(Rows("expense"), f)
    IN  IF q = "rows" THEN ShowRows(S \cap Live("expense"))
        ELSE IF q = "per_ccy" THEN Sums(S, ExpenseCcy, Amount)
        ELSE Sums(S, CcyAndCategory, Amount)

build_expense_report(q, f) ==
    LET S == case_expenses(f)
    IN  IF q = "rows" THEN ShowRows(S)
        ELSE IF q = "per_ccy" THEN Sums(S, ExpenseCcy, Amount)
        ELSE Sums(S, CcyAndCategory, Amount)

=============================================================================
