-------------------------- MODULE MCRequestDispatch --------------------------
(***************************************************************************)
(* Small instances of RequestDispatch: two requests, at most two           *)
(* middlewares, one executor thread.                                       *)
(***************************************************************************)
EXTENDS RequestDispatch

CONSTANTS r1, r2
=============================================================================
