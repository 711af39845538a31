---------------------------- MODULE MCNumbering -----------------------------
(***************************************************************************)
(* A small instance of Numbering for TLC: three racing transactions on two *)
(* (scope, period) pairs, neither of which has a sequence row yet.          *)
(***************************************************************************)
EXTENDS Numbering
=============================================================================
