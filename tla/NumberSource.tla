---------------------------- MODULE NumberSource ----------------------------
(***************************************************************************)
(* What core/numbering.py promises its callers: for each (scope, period),  *)
(* the rows that committed carry 1, 2, 3, ... in the order they committed. *)
(***************************************************************************)
EXTENDS Naturals, Sequences

CONSTANT Keys      \* the (scope, period) pairs

VARIABLE issued    \* the numbers of the committed rows, in commit order

NInit == issued = [k \in Keys |-> <<>>]

Give(k) == issued' = [issued EXCEPT ![k] = Append(@, Len(@) + 1)]

NNext == \E k \in Keys : Give(k)

NSpec == NInit /\ [][NNext]_issued
=============================================================================
