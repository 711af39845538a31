SPECIFICATION MCSpec
CONSTANTS
    w1 = w1  w2 = w2
    t1 = t1  t2 = t2  d1 = d1  d2 = d2  c1 = c1  c2 = c2  l1 = l1  l2 = l2
    o1 = o1  f1 = f1  e1 = e1  e2 = e2  h1 = h1  g1 = g1
    i1 = i1  i2 = i2  i3 = i3
    Workers = {w1, w2}
    Records <- MCRecords
    KindOf <- MCKindOf
    Values = {0, 1, 2, 3}
    CaseOf <- MCCaseOf
    ClientOf <- MCClientOf
    ExpenseCcy <- MCExpenseCcy
    ExpenseCategory <- MCExpenseCategory
    DaysAway <- MCDaysAway
    Invoices = {i1, i2, i3}
    InvoiceCcy <- MCInvoiceCcy
    InvoiceCase <- MCInvoiceCase
    DaysLate <- MCDaysLate
    Amounts = {1, 3}
    Cases = {c1}
    Clients = {l1}
    Days <- MCDays
    Today <- MCToday
    MonthStarts <- MCMonthStarts
    Clerks = {w1, w2}
    Lawyers = {l1}
    Parties = {t1}
    MaxTeamEvents = 2
    MaxOverlaps = 2
INVARIANTS
    OfficeTypeOK
    StampMatchesStatus
    LogTellsRow
    RowsHaveFiles
    TimelineTellsTeam
    ReportsAddUp
    InvoicePagesAddUp
    NetNeverOverstated
    DashboardAgrees
    EveryLinkOpens
    AgendaMissesNothing
SYMMETRY MCSymmetry
CHECK_DEADLOCK FALSE
