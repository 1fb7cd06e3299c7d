------------------------------ MODULE MCListener ------------------------------
(***************************************************************************)
(* Listener with a client that the first client_ca vouches for and the     *)
(* second does not.                                                        *)
(***************************************************************************)
EXTENDS Listener, TLC

MCVouches == 1 :> {"alice"} @@ 2 :> {}
=============================================================================
