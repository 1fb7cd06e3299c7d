---------------------------- MODULE MCClientPools ----------------------------
(***************************************************************************)
(* ClientPools with callers whose configurations may give the name         *)
(* different settings.                                                     *)
(***************************************************************************)
EXTENDS ClientPools

CONSTANTS c1, c2, c3
=============================================================================
