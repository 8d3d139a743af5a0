--------------------------- MODULE AtomicInstall ---------------------------
(***************************************************************************)
(* What mdpkg promises about an offline root: it always holds a whole      *)
(* tree, and a package is added to it at once or not at all.               *)
(***************************************************************************)
CONSTANT Packages

VARIABLE content   \* the packages installed in the root

Init == content = {}

Install(k) == k \notin content /\ content' = content \union {k}

Next == \E k \in Packages : Install(k)

Spec == Init /\ [][Next]_content
=============================================================================
