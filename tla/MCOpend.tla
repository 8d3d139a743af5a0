------------------------------ MODULE MCOpend ------------------------------
(***************************************************************************)
(* An instance of Opend for TLC: more callers than workers, more workers   *)
(* than one turn of the loop accepts.                                      *)
(***************************************************************************)
EXTENDS Opend

CONSTANTS c1, c2, c3

ThreeClients == {c1, c2, c3}
=============================================================================
