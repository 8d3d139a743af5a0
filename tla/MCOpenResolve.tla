--------------------------- MODULE MCOpenResolve ---------------------------
(***************************************************************************)
(* Instances of OpenResolve for TLC: an item of every kind, tables and     *)
(* bundles that compete for the same selectors.                            *)
(***************************************************************************)
EXTENDS OpenResolve

Line(origin, command, selectors, single, valid) ==
    [selectors |-> selectors, valid |-> valid,
     handler |-> [command |-> command, single |-> single, origin |-> origin]]

UserLines == <<Line("u1", "less", {"ext:a", "role:editor"}, TRUE, FALSE),
               Line("u2", "nano", {"ext:a", "type:text"}, TRUE, TRUE),
               Line("u3", "cat", {"ext:a", "app:x"}, FALSE, TRUE)>>
SystemLines == <<Line("s1", "run", {"type:executable", "ext:a"}, FALSE, TRUE),
                 Line("s2", "run", {"type:text", "scheme:h", "role:editor"}, FALSE, TRUE),
                 Line("s3", "ls", {"type:directory", "type:file"}, FALSE, TRUE)>>

File(lines, trusted) == [lines |-> lines, trusted |-> trusted]

MCUserFiles == {File(UserLines, TRUE), File(UserLines, FALSE), File(<<>>, TRUE)}
MCSystemFiles == {File(SystemLines, TRUE), File(<<>>, TRUE)}

Bundle(path, claims, names, isReadable) ==
    [path |-> path, claims |-> claims, names |-> names, readable |-> isReadable]

Broken == Bundle("b0", {"ext:b"}, {"app:x"}, FALSE)
First == Bundle("b1", {"ext:a", "ext:b"}, {"app:x", "bundle:y"}, TRUE)
Second == Bundle("b2", {"ext:b", "scheme:h"}, {"app:x"}, TRUE)

MCBundleLists == {<<>>, <<Broken, First, Second>>, <<Second, First>>}

Folder == [type |-> "directory"]
Regular(ext, executable, text) ==
    [type |-> "file", ext |-> ext, executable |-> executable, text |-> text,
     folder |-> Folder]
App(b) == [type |-> "bundle", bundle |-> b, folder |-> Folder]

MCItems == {Regular(<<"ext:a">>, FALSE, TRUE), Regular(<<"ext:b">>, TRUE, TRUE),
            Regular(<<>>, TRUE, TRUE), Regular(<<>>, FALSE, FALSE), App(First), App(Broken),
            [type |-> "url", scheme |-> "scheme:h"],
            [type |-> "directory", folder |-> Folder], [type |-> "missing", folder |-> Folder]}

Applications == {[by |-> "selector", selector |-> "app:x"],
                 [by |-> "selector", selector |-> "bundle:y"],
                 [by |-> "selector", selector |-> "role:editor"],
                 [by |-> "path", bundle |-> First], [by |-> "path", bundle |-> Broken]}
NoApplication == [by |-> "none"]

MCRequests ==
    [items : UNION {[1 .. n -> MCItems] : n \in 0 .. 2}, reveal : BOOLEAN,
     app : {NoApplication} \union Applications]
        \union [items : [1 .. 3 -> MCItems], reveal : {FALSE}, app : {NoApplication}]
=============================================================================
