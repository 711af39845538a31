SPECIFICATION Spec
CONSTANTS
    l1 = l1
    Workers = {w1, w2}
    Invoices = {i1, i2}
    Lines = {l1, l2}
    LineTotal <- MCLineTotal
    PaymentIds = {p1, p2}
    Amounts = {1, 2}
    Discounts = {0, 1}
    Rates = {0, 5000}
    MaxNumber = 2
    NoLine = NoLine
    NoInvoice = NoInvoice
    SingleDraftClerk = TRUE
SYMMETRY MCSymmetry
INVARIANTS
    TypeOK
    PaidMatchesReceived
    LinesExplainTotal
    StatusMatchesBalance
    NumbersGapless
    RefundableWithinPaid
PROPERTIES
    IssuedIsFrozen
    CancelledIsFinal
    ImplementsReceivable
