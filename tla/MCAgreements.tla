---------------------------- MODULE MCAgreements ----------------------------
(***************************************************************************)
(* Small instances of Agreements for TLC.                                  *)
(***************************************************************************)
EXTENDS Agreements

=============================================================================
