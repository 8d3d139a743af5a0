--------------------------- MODULE MCOpenRequest ---------------------------
(***************************************************************************)
(* Instances of OpenRequest for TLC: requests for up to two handlers, with *)
(* and without the caller's terminal.                                      *)
(***************************************************************************)
EXTENDS OpenRequest

MCRequests ==
    [terminal : {<<TRUE>>, <<FALSE>>, <<TRUE, TRUE>>, <<TRUE, FALSE>>, <<FALSE, TRUE>>},
     wait : BOOLEAN]
=============================================================================
