------------------------------ MODULE MCMarket ------------------------------
(***************************************************************************)
(* Market with no admin and with every user a possible quote authority: no *)
(* operator tells one user from another.                                   *)
(***************************************************************************)
EXTENDS Market, TLC

UserSymmetry == Permutations(Users)
=============================================================================
