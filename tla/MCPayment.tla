------------------------------ MODULE MCPayment ------------------------------
(***************************************************************************)
(* Instances of Payment small enough for TLC.                              *)
(***************************************************************************)
EXTENDS Payment, TLC

CONSTANTS b1, b2

Symmetry == Permutations(Handlers) \union Permutations(Bookings)
===============================================================================
