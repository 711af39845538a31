------------------------------ MODULE MCOffice ------------------------------
(***************************************************************************)
(* Small instances of Office for TLC.  One run explores several of them:    *)
(* an area is a part of the office that is looked at alone, chosen at the   *)
(* start, with its records, workers and pages.                              *)
(***************************************************************************)
EXTENDS Office, TLC

CONSTANTS
    w1, w2,
    t1, t2, d1, d2, c1, c2, l1, l2, o1, f1, e1, e2, h1, g1,
    i1, i2, i3

VARIABLES
    area,   \* the instance explored
    writes  \* how many writes were committed; the area bounds them

mcVars == <<officeVars, area, writes>>

Kinds == [task |-> {t1, t2}, deadline |-> {d1, d2}, case |-> {c1, c2},
          client |-> {l1}, court |-> {o1}, document |-> {f1},
          expense |-> {e1, e2}, hearing |-> {h1}, contract |-> {g1}]

MCRecords == UNION {Kinds[k] : k \in DOMAIN Kinds}
MCKindOf == [r \in MCRecords |-> CHOOSE k \in DOMAIN Kinds : r \in Kinds[k]]

(* The second record of a kind is of another case, and of another client.   *)
MCCaseOf == [r \in MCRecords |-> IF r \in {t2, d2, e2, c2} THEN c2 ELSE c1]
MCClientOf == [r \in MCRecords |-> IF MCCaseOf[r] = c2 THEN l2 ELSE l1]
MCExpenseCcy == (e1 :> "ILS") @@ (e2 :> "ILS")
MCExpenseCategory == (e1 :> "travel") @@ (e2 :> "office")

MCInvoiceCcy == (i1 :> "ILS") @@ (i2 :> "ILS") @@ (i3 :> "USD")
MCInvoiceCase == (i1 :> c1) @@ (i2 :> c1) @@ (i3 :> c2)
MCDaysLate == (i1 :> 40) @@ (i2 :> 0) @@ (i3 :> 100)

(* The values each kind takes where pages are read: a priority is urgent,   *)
(* high or neither, a date today, yesterday, in 40 days or in three.        *)
MCDaysAway == (0 :> 0) @@ (1 :> -1) @@ (2 :> 40) @@ (3 :> 3)

ValuesOf(a, k) ==
    IF a.pages = {} THEN {0, 1}
    ELSE IF k = "hearing" THEN 0 .. 3
    ELSE IF k \in {"case", "deadline"} THEN 0 .. 2
    ELSE {0, 1}

Area(records, workers, invoices, pages, overlaps, bound) ==
    [records |-> records, workers |-> workers, invoices |-> invoices,
     pages |-> pages, overlaps |-> overlaps, bound |-> bound]

InvoicePages ==
    {"revenue_report", "payment_report", "outstanding_report", "CaseFinanceTab",
     "InvoiceListView", "PaymentListView"}

(* Today is the Saturday a month of 28 days begins on, right after one that *)
(* ends with a week; then a month that begins within one.                   *)
MCToday == 5
MCMonthStarts == {-54, -26, 5, 33, 64, 94}
MCDays == {4, 5, 40}

(* Two workers race over one record of each kind.                           *)
Races == {Area({r}, 2, {}, {}, 0, 3) : r \in {t1, d1, c1, l1, o1, f1, e1}}

(* Pages read while nothing is committed, of every content the records get. *)
Reading ==
    {Area({t1, t2}, 1, {}, {"task_report", "TaskListView"}, 0, 2),
     Area({d1, d2}, 1, {}, {"deadline_report", "DeadlineListView"}, 0, 2),
     Area({c1, c2}, 1, {}, {"case_report", "CaseListView"}, 0, 2),
     Area({c1, l1}, 1, {}, {"client_report", "ClientListView"}, 0, 2),
     Area({o1, f1}, 1, {}, {"CourtListView", "DocumentListView"}, 0, 2),
     Area({h1, g1}, 1, {},
          {"HearingListView", "ContractListView", "hearing_report"}, 0, 1),
     Area({f1, g1}, 1, {}, {"ClientDetailView"}, 0, 2),
     Area({t1, f1, g1}, 1, {}, {"CaseDetailView"}, 0, 1),
     Area({d1, h1}, 1, {}, {"CaseDetailView"}, 0, 1),
     Area({e1, e2}, 1, {}, {"expense_report", "ExpenseListView"}, 0, 2),
     Area({t1, d1, h1}, 1, {i1}, {"dashboard"} \cup AgendaPages, 0, 1),
     Area({c1, l1}, 1, {}, {"dashboard"}, 0, 1),
     Area({g1}, 1, {}, AgendaPages, 0, 1),
     Area({}, 0, {i1, i2}, InvoicePages \cup {"ClientDetailView"}, 0, 5),
     Area({e1}, 0, {i1}, {"CaseFinanceTab", "overview"}, 0, 2),
     Area({}, 0, {i1, i3},
          InvoicePages \cup {"ClientDetailView", "case_financials_report"}, 0, 4)}

(* Pages read while a write commits.                                        *)
Overlapping ==
    {Area({r}, 1, {}, {"dashboard"}, 1, 1) : r \in {t1, g1, c1}}
    \cup
    {Area({}, 0, {i1, i2}, {"payment_report"}, 2, 4),
     Area({}, 0, {i1, i3}, {"payment_report"}, 1, 4)}

NoRecords == Area({}, 0, {}, {}, 0, 0)

Areas == Races \cup {NoRecords} \cup Reading \cup Overlapping

(* The tables an area may start from.                                       *)
TablesOf(a) ==
    LET old(r) == {NoRow} \cup {Fresh(s, v) : s \in FirstStatuses[MCKindOf[r]],
                                       v \in ValuesOf(a, MCKindOf[r])}
        some == [a.records -> UNION {old(r) : r \in a.records}]
    IN  {[r \in MCRecords |-> IF r \in a.records THEN t[r] ELSE NoRow] :
            t \in {u \in some : \A r \in a.records : u[r] \in old(r)}}

MCInit ==
    /\ area \in Areas
    /\ row \in TablesOf(area)
    /\ OfficeInit
    /\ writes = 0

Step ==
    \/ area.records # {} /\ (page # NoPage => area.overlaps > 0) /\ EditRecords
    \/ area.invoices # {} /\ EditBooks
    \/ area = NoRecords /\ EditTeam
    \/ /\ area.overlaps = 0 => \A w \in Workers : req[w] = Idle
       /\ Read(area.pages)

InArea ==
    /\ \A r \in Records \ area.records : row'[r] = row[r]
    /\ \A r \in area.records : row'[r].value \in ValuesOf(area, KindOf[r])
    /\ \A w \in Workers :
          req'[w].view \in EditViews =>
              req'[w].input.value \in ValuesOf(area, KindOf[req'[w].rec])
    /\ files' \ files \subseteq area.records
    /\ Cardinality({w \in Workers : req'[w] # Idle}) <= area.workers
    /\ \A i \in Invoices \ area.invoices : state'[i] = state[i] /\ i \notin dropped'
    /\ page' # NoPage => page'.overlaps <= area.overlaps

MCNext ==
    /\ Step
    /\ InArea
    /\ writes' = IF <<row, told, bookVars>>' = <<row, told, bookVars>>
                 THEN writes ELSE writes + 1
    /\ writes' <= area.bound
    /\ UNCHANGED area

MCSpec == MCInit /\ [][MCNext]_mcVars

MCSymmetry == Permutations(Workers)

=============================================================================
