--------------------------- MODULE MCTransaction ---------------------------
(***************************************************************************)
(* Two runs of mdpkg on one root; the first one's package has a script.    *)
(***************************************************************************)
EXTENDS Transaction

MCPackages == {"a", "b"}
MCScripted == {"a"}
=============================================================================
