------------------------------- MODULE MCSbuf -------------------------------
(***************************************************************************)
(* Sbuf with texts that fill a small buffer exactly, overfill it, and end  *)
(* in a blank.                                                             *)
(***************************************************************************)
EXTENDS Sbuf

MCTexts == {<<"b", " ">>, <<"a", "b", "c">>}

=============================================================================
