----------------------------- MODULE MCPosition -----------------------------
(***************************************************************************)
(* Position with a one-sided and a two-sided basket, both of them odd.     *)
(***************************************************************************)
EXTENDS Position

MCBaskets == {[base |-> 1, quote |-> 0], [base |-> 3, quote |-> 2]}
=============================================================================
