---------------------------- MODULE MCSelection ----------------------------
(***************************************************************************)
(* Small Distributions: two choices whose properties depend on each other  *)
(* in every way, references with and without an expression, and versions   *)
(* of up to two components.                                                *)
(***************************************************************************)
EXTENDS Selection, TLC

One == "one"
Two == "two"

\* selected of both choices and enabled of the first may have an expression.
SelectedOf == {Absent, Literal(TRUE), Literal(FALSE), Same(One, "selected"),
               Negated(Two, "selected"), Same(Two, "selected"), Same(One, "enabled")}
EnabledOf == {Absent, Negated(One, "selected"), Same(Two, "selected")}

Exprs == {[c \in {One, Two} |->
              [k \in Keys |->
                  IF k = "selected" THEN (IF c = One THEN a ELSE b)
                  ELSE IF k = "enabled" /\ c = One THEN e ELSE Absent]] :
             a \in SelectedOf, b \in SelectedOf, e \in EnabledOf}

Starts == {[c \in {One, Two} |-> [k \in Keys |->
               IF k # "selected" THEN TRUE ELSE IF c = One THEN a ELSE b]] :
              a \in BOOLEAN, b \in BOOLEAN}

\* Nodes of one document, in its order; most have no version attribute.
Versioned(id, dir, active, version) ==
    [id |-> id, dir |-> dir, active |-> active, version |-> version]
Ref(id, dir, active) == Versioned(id, dir, active, "")
Nodes(list) == {("at" :> i) @@ list[i] : i \in DOMAIN list}

Packages == One :> <<"p", "q">> @@ Two :> <<"q", "r">>

\* Two references to one directory, which the second one misnames.
Plain == Nodes(<<Ref("p", "P", Absent), Ref("q", "Q", Absent), Ref("r", "P", Absent)>>)
Merging == Nodes(<<Versioned("p", "P", Absent, "1"), Ref("q", "Q", Absent),
                   Ref("q", "", Same(Two, "selected")),
                   Ref("r", "R", Negated(One, "selected")),
                   Ref("r", "", Negated(One, "selected")), Versioned("p", "", Absent, "1")>>)
Conflicting == Nodes(<<Ref("p", "P", Literal(TRUE)), Ref("p", "", Literal(FALSE)),
                       Ref("q", "Q", Absent), Ref("r", "R", Absent)>>)
OtherVersion == Nodes(<<Versioned("p", "P", Absent, "1"), Versioned("p", "", Absent, "2"),
                        Ref("q", "Q", Absent), Ref("r", "R", Absent)>>)
Repeated == Nodes(<<Ref("p", "P", Absent), Ref("p", "P", Absent),
                    Ref("q", "Q", Absent), Ref("r", "R", Absent)>>)
Missing == Nodes(<<Ref("p", "P", Absent), Ref("q", "None", Absent), Ref("r", "R", Absent)>>)

Distribution(start, expr, outline, refs, script, need, warn) ==
    [document |-> <<Two, One>>,
     start |-> start, expr |-> expr, outline |-> outline, packages |-> Packages,
     refs |-> refs, script |-> script, need |-> need, warn |-> warn,
     requireScripts |-> outline # <<Two, One>> \/ expr[One]["enabled"] # Absent]

Static == [c \in {One, Two} |-> [k \in Keys |-> Absent]]
AllOn == [c \in {One, Two} |-> [k \in Keys |-> TRUE]]

Digits == {<<0>>, <<1>>, <<0, 1>>, <<1, 0>>}
Versions == {<<>>, <<<<>>>>} \cup {<<a>> : a \in Digits} \cup {<<a, b>> : a \in Digits, b \in Digits}

Settling ==
    {Distribution(s, e, <<One, Two>>, r, {}, <<>>, FALSE) :
        s \in Starts, e \in Exprs, r \in {Plain, Merging}}
    \cup {Distribution(AllOn, e, o, Merging, {[of |-> Two, key |-> "selected", value |-> FALSE]},
                       <<>>, FALSE) : e \in Exprs, o \in {<<Two, One>>, <<One, One>>, <<Two>>}}
    \cup {Distribution(AllOn, Static, <<One, Two>>, r, {}, <<>>, FALSE) :
             r \in {Conflicting, OtherVersion, Repeated, Missing}}
    \cup {[Distribution(AllOn, Static, <<One, Two>>, Plain, {}, <<>>, FALSE)
             EXCEPT !.document = <<Two, One, Two>>]}

Checking(v, w) == Distribution(AllOn, Static, <<One, Two>>, Plain, {}, v, w)

MCSituations ==
    (Settling \X {<<<<1>>>>})
    \cup {<<Checking(v, w), r>> : v \in Versions, w \in BOOLEAN, r \in Versions}

MCIdentifier == "P" :> "p" @@ "Q" :> "q" @@ "R" :> "r"

=============================================================================
