----------------------------- MODULE Receivable -----------------------------
(***************************************************************************)
(* What the finance app promises about the money an invoice asks for,      *)
(* without rows, requests or locks (ADR-0012, ADR-0032): an invoice is      *)
(* billed once, for a fixed amount; money is collected only up to what      *)
(* credit notes leave of it and never on a void one; what was collected can *)
(* be given back; credit notes only accumulate, and the one that completes  *)
(* the billed amount voids the invoice for good.                            *)
(***************************************************************************)
EXTENDS Integers

CONSTANTS Invoices

VARIABLES
    state,      \* "unbilled", "open" or "void"
    billed,     \* the amount billed, 0 before that
    collected,  \* what the client paid and was not given back
    waived      \* the sum of the credit notes

rvars == <<state, billed, collected, waived>>

RInit ==
    /\ state = [i \in Invoices |-> "unbilled"]
    /\ billed = [i \in Invoices |-> 0]
    /\ collected = [i \in Invoices |-> 0]
    /\ waived = [i \in Invoices |-> 0]

(* The table f changes at i only. *)
OnlyAt(f, g, i) == g = [f EXCEPT ![i] = g[i]]

Bill(i) ==
    /\ state[i] = "unbilled"
    /\ state' = [state EXCEPT ![i] = "open"]
    /\ OnlyAt(billed, billed', i)
    /\ billed'[i] > 0
    /\ UNCHANGED <<collected, waived>>

Collect(i) ==
    /\ state[i] = "open"
    /\ OnlyAt(collected, collected', i)
    /\ collected'[i] > collected[i]
    /\ collected'[i] <= billed[i] - waived[i]
    /\ UNCHANGED <<state, billed, waived>>

GiveBack(i) ==
    /\ state[i] # "unbilled"
    /\ OnlyAt(collected, collected', i)
    /\ collected'[i] \in 0 .. collected[i] - 1
    /\ UNCHANGED <<state, billed, waived>>

Waive(i) ==
    /\ state[i] = "open"
    /\ OnlyAt(waived, waived', i)
    /\ waived'[i] \in waived[i] + 1 .. billed[i]
    /\ state' = [state EXCEPT ![i] = IF waived'[i] = billed[i]
                                     THEN "void" ELSE "open"]
    /\ UNCHANGED <<billed, collected>>

RNext ==
    \E i \in Invoices : Bill(i) \/ Collect(i) \/ GiveBack(i) \/ Waive(i)

RSpec == RInit /\ [][RNext]_rvars

=============================================================================
