---------------------------- MODULE MCInstall ----------------------------
(***************************************************************************)
(* Small roots and packages for Install: two names, a and b, that are      *)
(* missing, files, directories or links to each other, out of the root or  *)
(* to themselves, and packages of one and two components that write to     *)
(* them.                                                                   *)
(***************************************************************************)
EXTENDS Install, TLC

MCNames == {"a", "b", "l", "x", "y", "z", "receipts", "mdpkg", ".mdpkg-scripts", ".lock",
            "c1.plist", "c1.bom", "c1.inventory", "c2.plist", "c2.bom", "c2.inventory", "nothing"}

Root == <<>> :> Dir("base")
A == <<"a">>
B == <<"b">>

AsA == {<<>>, A :> Dir("base"), A :> File("base")}
       \cup {A :> Link("base", to) : to \in {B, <<"/", "b">>, <<"..">>, A, <<"b", "..">>}}
AsB == {<<>>, B :> Dir("base"),
        (B :> Dir("base")) @@ (<<"b", "x">> :> File("base")), B :> Link("base", A),
        (B :> Dir("base")) @@ (<<"b", "l">> :> Link("base", <<"/", "a">>)),
        (B :> Dir("base")) @@ (<<"b", "l">> :> Link("base", <<"..", "a">>))}
AsRecords == {<<>>, (ReceiptsDir :> Dir("base")) @@ (<<"receipts", "c2.plist">> :> File("base"))}

MCTrees == {Root @@ a @@ b @@ r : a \in AsA, b \in AsB, r \in AsRecords}

Entry3(path, kind, to) == [path |-> path, kind |-> kind, to |-> to]

First(payload, hooks) ==
    [payload |-> payload, hooks |-> hooks, plist |-> "c1.plist", bom |-> "c1.bom",
     inventory |-> "c1.inventory"]
Second(payload, hooks) ==
    [payload |-> payload, hooks |-> hooks, plist |-> "c2.plist", bom |-> "c2.bom",
     inventory |-> "c2.inventory"]

AX == Entry3(<<"a", "x">>, "file", <<>>)
BX == Entry3(<<"b", "x">>, "file", <<>>)

MCPackages == {
    <<First(<<Entry3(A, "dir", <<>>), AX>>, {"pre", "post"})>>,
    <<First(<<AX, Entry3(<<"b", "l", "y">>, "file", <<>>)>>, {"pre"})>>,
    <<First(<<BX>>, {}), Second(<<Entry3(A, "dir", <<>>), AX>>, {"post"})>>,
    <<First(<<Entry3(A, "link", B)>>, {}), Second(<<BX>>, {"post"})>>,
    <<First(<<Entry3(A, "link", <<"b", "..">>)>>, {}), Second(<<AX>>, {})>>,
    <<Second(<<Entry3(<<"b", "l">>, "link", <<"..", "a">>), Entry3(<<"l">>, "link", B)>>, {})>>,
    <<First(<<AX, Entry3(B, "dir", <<>>)>>, {"post"}),
      Second(<<Entry3(<<"a", "y">>, "file", <<>>)>>, {"pre"})>>,
    <<First(<<>>, {})>>}

MCScriptOps == {
    [path |-> <<"nothing">>, node |-> Missing],
    [path |-> A, node |-> Missing],
    [path |-> A, node |-> Link("script", B)],
    [path |-> <<"a", "x">>, node |-> File("script")],
    [path |-> <<"b", "x">>, node |-> File("script")]}

MCOtherPaths == {<<"a", "x">>, <<"b", "z">>}

=============================================================================
