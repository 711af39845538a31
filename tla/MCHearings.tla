----------------------------- MODULE MCHearings -----------------------------
(***************************************************************************)
(* A small instance of Hearings for TLC.                                   *)
(***************************************************************************)
EXTENDS Hearings, TLC

MCSymmetry == Permutations(Workers)
=============================================================================
