SPECIFICATION Spec
CONSTANTS
    l1 = l1
    Workers = {w1, w2}
    Invoices = {i1}
    Lines = {l1}
    LineTotal <- MCLineTotal
    PaymentIds = {p1}
    Amounts = {1, 2}
    Discounts = {0}
    Rates = {0}
    MaxNumber = 2
    NoLine = NoLine
    NoInvoice = NoInvoice
    SingleDraftClerk = FALSE
SYMMETRY MCSymmetry
PROPERTY
    IssuedIsFrozen
