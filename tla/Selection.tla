----------------------------- MODULE Selection -----------------------------
(***************************************************************************)
(* Which components of a product archive mdpkg installs: the loading and   *)
(* the resolution of a Distribution (src/pkgs/installer/package.c,         *)
(* installer-js.c, main.c).                                                *)
(*                                                                         *)
(* A Distribution has choices, listed in an outline.  Each has three       *)
(* properties, selected, enabled and visible, with start values and        *)
(* perhaps an expression over the properties of all choices, and           *)
(* references to packages.  JavaScript is abstracted to what it computes:  *)
(* an expression is a literal, another property or its negation, the       *)
(* inline script an assignment, a check a comparison of versions.  A       *)
(* version is a sequence of components, a component a sequence of digits.  *)
(***************************************************************************)
EXTENDS Integers, FiniteSets, Sequences, Functions

CONSTANTS
    Situations,         \* Distributions, each with the version of a root
    Identifier,         \* what the PackageInfo of each component directory says
    MaxPasses           \* settle_choices' limit, 64

VARIABLES
    dist, target, root, \* the package, whether -target is given, the root's version
    js,                 \* needs_js
    phase,
    state,              \* choices[id].selected, enabled and visible
    before, pass, cursor,   \* settle_choices, and the choice a loop is at
    item,               \* the choice's reference that is loaded next
    loaded,             \* pkg->components, by directory
    why                 \* of die()

vars == <<dist, target, root, js, phase, state, before, pass, cursor, item, loaded, why>>
given == <<dist, target, root>>

Keys == {"selected", "enabled", "visible"}
Absent == [op |-> "absent"]
Literal(b) == [op |-> "literal", value |-> b]
Same(c, key) == [op |-> "same", of |-> c, key |-> key]
Negated(c, key) == [op |-> "not", of |-> c, key |-> key]

Expressions(ids) ==
    {Absent} \cup {Literal(b) : b \in BOOLEAN}
    \cup {Same(c, k) : c \in ids, k \in Keys} \cup {Negated(c, k) : c \in ids, k \in Keys}

(* What the parser and the abstraction of expressions give: a start value    *)
(* and perhaps an expression for every property of every choice of the      *)
(* document, and the references of each choice in a list.                  *)
ASSUME SituationsAssumption ==
    \A d \in {s[1] : s \in Situations} :
        LET ids == Range(d.document)
        IN  /\ d.document \in Seq(ids)
            /\ d.outline \in Seq(Range(d.outline))
            /\ d.start \in [ids -> [Keys -> BOOLEAN]]
            /\ d.expr \in [ids -> [Keys -> Expressions(ids)]]
            /\ \A c \in ids : d.packages[c] \in Seq(Range(d.packages[c]))
            /\ \A n \in d.refs : n.active \in Expressions(ids)
            /\ \A a \in d.script : a.value \in BOOLEAN
            /\ d.need \in Seq(Seq(0..9))

ASSUME RootsAssumption == \A s \in Situations : s[2] \in Seq(Seq(0..9))

ASSUME MaxPassesAssumption == MaxPasses \in Nat \ {0}

Ids == Range(dist.document)
Constant(e) == e.op \in {"absent", "literal"}

Eval(s, e) ==
    CASE e.op = "absent" -> TRUE
      [] e.op = "literal" -> e.value
      [] e.op = "same" -> s[e.of][e.key]
      [] e.op = "not" -> ~s[e.of][e.key]

Phases == {"load", "initialize", "script", "check", "settle", "candidates", "select",
           "done", "dead"}

TypeOK ==
    /\ target \in BOOLEAN /\ js \in BOOLEAN
    /\ phase \in Phases
    /\ state \in [Ids -> [Keys -> BOOLEAN]]
    /\ before \in [Ids -> [Keys -> BOOLEAN]]
    /\ pass \in 0..(MaxPasses - 1)
    /\ cursor \in Nat \ {0} /\ item \in Nat \ {0}
    /\ loaded \in Seq(DOMAIN Identifier)
    /\ ~js => state = dist.start

Init ==
    /\ \E s \in Situations : dist = s[1] /\ root = s[2]
    /\ target \in BOOLEAN
    /\ js = FALSE
    /\ phase = "load"
    /\ state = dist.start /\ before = dist.start
    /\ pass = 0 /\ cursor = 1 /\ item = 1
    /\ loaded = <<>>
    /\ why = "none"

-----------------------------------------------------------------------------
(* Versions *)

\* a before b in a dictionary of words of one length.
Smaller(a, b) == \E i \in DOMAIN a : a[i] < b[i] /\ \A j \in 1..(i - 1) : a[j] = b[j]

\* Mutant: leading zeros count.
LessComponentZeros(a, b) == Len(a) < Len(b) \/ (Len(a) = Len(b) /\ Smaller(a, b))

\* Digits without their leading zeros.
Zeros(d) == {i \in 0..Len(d) : \A j \in 1..i : d[j] = 0}
Leading(d) == CHOOSE i \in Zeros(d) : i + 1 \notin Zeros(d)
Significant(d) == SubSeq(d, Leading(d) + 1, Len(d))

\* One component less than another, leading zeros dropped: shorter, or as
\* long and smaller at the first difference (memcmp).
LessComponent(a, b) ==
    LET x == Significant(a)
        y == Significant(b)
    IN  \/ Len(x) < Len(y)
        \/ Len(x) = Len(y) /\ Smaller(x, y)

\* compare_versions: the first components that differ decide, and a
\* component that is not there reads as empty.
Part(v, i) == IF i \in DOMAIN v THEN v[i] ELSE <<>>
LessAt(v, w, i) == LessComponent(Part(v, i), Part(w, i))

compare_versions(a, b) ==
    LET differ == {i \in DOMAIN a \cup DOMAIN b : LessAt(a, b, i) \/ LessAt(b, a, i)}
        first == CHOOSE i \in differ : \A j \in differ : i <= j
    IN  IF differ = {} THEN 0 ELSE IF LessAt(a, b, first) THEN -1 ELSE 1

valid_version(v) == v # <<>> /\ \A i \in DOMAIN v : v[i] # <<>>

-----------------------------------------------------------------------------
(* References: attributes merge over the pkg-ref nodes with one id, which    *)
(* their places in the document tell apart.                                *)
RefNodes(id) == {n \in dist.refs : n.id = id}
RefIds == {n.id : n \in dist.refs}

Merged(id, key, none) == {n[key] : n \in RefNodes(id)} \ {none}

\* find_reference dies unless there is one location and no conflict.
ReferenceIsSound(id) ==
    /\ Cardinality({n \in RefNodes(id) : n.dir # ""}) = 1
    /\ \A a, b \in Merged(id, "active", Absent) : a = b
    /\ \A v, w \in Merged(id, "version", "") : v = w

RefDir(id) == CHOOSE d \in Merged(id, "dir", "") : TRUE
RefActive(id) ==
    LET told == Merged(id, "active", Absent)
    IN  IF told = {} THEN Absent ELSE CHOOSE e \in told : TRUE

Die(reason) ==
    /\ phase' = "dead" /\ why' = reason
    /\ UNCHANGED <<given, state, before, pass, cursor, item, loaded>>

Go(to) == phase' = to /\ UNCHANGED <<given, why>>

-----------------------------------------------------------------------------
(* validate_distribution: what is not a literal needs JavaScript, which     *)
(* require-scripts may rule out for expressions.                           *)
HasExpressions ==
    \/ \E c \in Ids : \E k \in Keys : ~Constant(dist.expr[c][k])
    \/ \E n \in dist.refs : ~Constant(n.active)

NeedsJs == HasExpressions \/ dist.script # {} \/ dist.need # <<>>

\* outline_choices and check_choices: every choice once in the document and
\* in the outline, references sound.
OutlineIsSound ==
    /\ Range(dist.outline) = Ids
    /\ IsInjective(dist.outline) /\ IsInjective(dist.document)
    /\ \A c \in Ids : \A id \in Range(dist.packages[c]) :
          id \in RefIds /\ ReferenceIsSound(id)

(* package_load of a product archive with the elements it must have, then    *)
(* main's three ways on.                                                   *)
Load ==
    /\ phase = "load"
    /\ js' = NeedsJs
    /\ IF OutlineIsSound /\ (HasExpressions => dist.requireScripts)
       THEN /\ Go(IF ~NeedsJs THEN "select" ELSE IF target THEN "initialize" ELSE "candidates")
            /\ UNCHANGED <<state, before, pass, cursor, item, loaded>>
       ELSE Die("malformed")

(* initialize_choices *)
Initialize ==
    /\ phase = "initialize"
    /\ state' = dist.start
    /\ Go("script")
    /\ UNCHANGED <<js, before, pass, cursor, item, loaded>>

(* The inline script runs once, before the checks. *)
Script ==
    /\ phase = "script"
    /\ state' = [c \in Ids |-> [k \in Keys |->
                    IF \E a \in dist.script : a.of = c /\ a.key = k
                    THEN (CHOOSE a \in dist.script : a.of = c /\ a.key = k).value
                    ELSE state[c][k]]]
    /\ Go("check")
    /\ UNCHANGED <<js, before, pass, cursor, item, loaded>>

(* installer_js_check, for a check that the root is at least dist.need: a    *)
(* false result stops the install unless the check says Warn.  The           *)
(* installation-check and the volume-check, which is run after it in the    *)
(* same way, are one check here.                                           *)
Check ==
    /\ phase = "check"
    /\ UNCHANGED js
    /\ IF dist.need = <<>> \/ (valid_version(root) /\ valid_version(dist.need)
                               /\ (dist.warn \/ compare_versions(root, dist.need) >= 0))
       THEN Go("settle") /\ UNCHANGED <<state, before, pass, cursor, item, loaded>>
       ELSE Die("check")

-----------------------------------------------------------------------------
(* settle_choices *)

\* One property of choice c, when it has an expression.
Assign(s, c, key) ==
    IF dist.expr[c][key] = Absent THEN s
    ELSE [s EXCEPT ![c] = [@ EXCEPT ![key] = Eval(s, dist.expr[c][key])]]

\* The three expressions of choice c, one after the other.
Reevaluate(s, c) ==
    Assign(Assign(Assign(s, c, "selected"), c, "enabled"), c, "visible")

BeginPass ==
    /\ phase = "settle" /\ cursor = 1 /\ dist.outline # <<>>
    /\ before' = state
    /\ state' = Reevaluate(state, dist.outline[1])
    /\ cursor' = 2
    /\ Go(phase)
    /\ UNCHANGED <<js, pass, item, loaded>>

Evaluate ==
    /\ phase = "settle" /\ cursor \in 2..Len(dist.outline)
    /\ state' = Reevaluate(state, dist.outline[cursor])
    /\ cursor' = cursor + 1
    /\ Go(phase)
    /\ UNCHANGED <<js, before, pass, item, loaded>>

\* Mutant: only what is selected is compared.
UnchangedSelection == \A c \in Ids : state[c]["selected"] = before[c]["selected"]

Unchanged == state = before

\* Mutant: the limit is reached one pass early.
LastPassEarly == pass + 2 >= MaxPasses

LastPass == pass + 1 = MaxPasses

EndPass ==
    /\ phase = "settle" /\ cursor > Len(dist.outline)
    /\ UNCHANGED js
    /\ IF Unchanged
       THEN cursor' = 1 /\ Go("select") /\ UNCHANGED <<state, before, pass, item, loaded>>
       ELSE IF LastPass THEN Die("unstable")
       ELSE /\ cursor' = 1 /\ pass' = pass + 1
            /\ Go(phase) /\ UNCHANGED <<state, before, item, loaded>>

(* The deadline all evaluations share (interrupted, evaluate); package_resolve *)
(* evaluates whether a reference is active, too.                           *)
TimeLimit ==
    /\ phase \in {"script", "check", "settle"} \/ (phase = "select" /\ js)
    /\ UNCHANGED js
    /\ Die("time")

-----------------------------------------------------------------------------
\* Mutant: the PackageInfo is not compared with the reference.
IsNamedAnyhow(dir, id) == TRUE

IsNamed(dir, id) == Identifier[dir] = id

(* load_component, then the next reference of the choice: a directory is     *)
(* loaded once, as the component that the first reference to it names; the   *)
(* id of a later one is not looked at.                                     *)
load_component(id) ==
    LET dir == RefDir(id)
    IN  IF dir \in Range(loaded)
        THEN item' = item + 1 /\ Go(phase) /\ UNCHANGED <<state, before, pass, cursor, loaded>>
        ELSE IF dir \notin DOMAIN Identifier THEN Die("missing")
        ELSE IF ~IsNamed(dir, id) THEN Die("misnamed")
        ELSE IF \E d \in Range(loaded) : Identifier[d] = id THEN Die("duplicate")
        ELSE /\ loaded' = Append(loaded, dir) /\ item' = item + 1
             /\ Go(phase) /\ UNCHANGED <<state, before, pass, cursor>>

\* Past a reference, and past a choice.
Skip == item' = item + 1 /\ Go(phase) /\ UNCHANGED <<state, before, pass, cursor, loaded>>
NextChoice ==
    /\ cursor' = cursor + 1 /\ item' = 1
    /\ Go(phase) /\ UNCHANGED <<state, before, pass, loaded>>

Selected(c) ==
    IF js THEN state[c]["selected"]
    ELSE dist.start[c]["selected"] /\ Eval(state, dist.expr[c]["selected"])

Active(id) == Eval(state, RefActive(id))

(* package_resolve: the next reference of a selected choice, or on to the    *)
(* next choice.                                                            *)
Select ==
    /\ phase = "select" /\ cursor <= Len(dist.outline)
    /\ UNCHANGED js
    /\ LET c == dist.outline[cursor]
       IN  IF Selected(c) /\ item <= Len(dist.packages[c])
           THEN LET id == dist.packages[c][item]
                IN  IF Active(id) THEN load_component(id) ELSE Skip
           ELSE NextChoice

(* check_payload_paths; the paths themselves are PayloadPaths'. *)
Finish ==
    /\ phase = "select" /\ cursor > Len(dist.outline)
    /\ UNCHANGED js
    /\ IF loaded = <<>> THEN Die("nothing")
       ELSE Go("done") /\ UNCHANGED <<state, before, pass, cursor, item, loaded>>

(* package_inspect_candidates: metadata of every reference, nothing run.     *)
(* The choices come in the order of the document, not of the outline.      *)
Candidates ==
    /\ phase = "candidates"
    /\ UNCHANGED js
    /\ IF cursor > Len(dist.document)
       THEN Go("done") /\ UNCHANGED <<state, before, pass, cursor, item, loaded>>
       ELSE LET c == dist.document[cursor]
            IN  IF item <= Len(dist.packages[c]) THEN load_component(dist.packages[c][item])
                ELSE NextChoice

Step ==
    \/ Load \/ Initialize \/ Script \/ Check
    \/ BeginPass \/ Evaluate \/ EndPass
    \/ Select \/ Finish \/ Candidates

Next == Step \/ TimeLimit

Spec == Init /\ [][Next]_vars

-----------------------------------------------------------------------------
(* "Choices reevaluate in outline order until stable" (README.md:137): what *)
(* is installed was selected by a state in which every expression has the   *)
(* value it had, although each was evaluated while others still changed     *)
(* (package.c:462).                                                         *)
SelectionIsStable ==
    (js /\ phase \in {"select", "done"} /\ target) =>
        \A c \in Ids : \A k \in Keys :
            dist.expr[c][k] # Absent => Eval(state, dist.expr[c][k]) = state[c][k]

(* The properties that an expression chain from <<c, k>> goes through, by    *)
(* length: those of length n.                                              *)
Chains(n) ==
    {s \in [1..n -> Ids \X Keys] :
        /\ \A i \in 1..n : dist.expr[s[i][1]][s[i][2]] # Absent
        /\ \A i \in 1..(n - 1) :
              LET e == dist.expr[s[i][1]][s[i][2]]
              IN  ~Constant(e) /\ <<e.of, e.key>> = s[i + 1]}

(* mdpkg refuses a Distribution as unstable only when it has to: expressions *)
(* that depend on each other in a chain of fewer than MaxPasses, in         *)
(* whatever order the outline lists them, settle within the limit           *)
(* (package.c:465, 492).                                                    *)
UnstableHasReason == why = "unstable" => Chains(MaxPasses) # {}

(* The references that a resolution for a target, or one without            *)
(* JavaScript, wants; without a target, JavaScript makes all of them        *)
(* candidates.                                                             *)
Wanted(c, id) == (target \/ ~js) => Selected(c) /\ Active(id)

(* The components loaded are exactly those of active references of selected *)
(* choices, or of all references when there is no target for the JavaScript *)
(* (package.c:526-550, 563), each once, and each is named by a reference    *)
(* that wants it.  A reference that shares its directory with such a one    *)
(* has that directory loaded too, although not under its own id             *)
(* (package.c:68-70); no directory is loaded for misnaming references only. *)
LoadedIsWanted ==
    phase = "done" =>
        /\ IsInjective(loaded)
        /\ \A c \in Ids : \A id \in Range(dist.packages[c]) :
              Wanted(c, id) => RefDir(id) \in Range(loaded)
        /\ \A d \in Range(loaded) :
              \E c \in Ids : \E id \in Range(dist.packages[c]) :
                 Wanted(c, id) /\ RefDir(id) = d /\ Identifier[d] = id

(* A version's components as numbers, digits from the left: the numbers of   *)
(* all beginnings of d, and of d.                                          *)
Numbers(d) ==
    LET upTo[i \in 0..Len(d)] == IF i = 0 THEN 0 ELSE 10 * upTo[i - 1] + d[i]
    IN  upTo
Number(d) == Numbers(d)[Len(d)]

\* Version v before w: less at the first component that differs.
NumberAt(v, i) == IF i \in DOMAIN v THEN Number(v[i]) ELSE 0
Earlier(v, w) ==
    \E i \in DOMAIN v \cup DOMAIN w :
        /\ NumberAt(v, i) < NumberAt(w, i)
        /\ \A j \in DOMAIN v \cup DOMAIN w : j < i => NumberAt(v, j) = NumberAt(w, j)

(* "compareVersions(a, b) compares numeric dotted versions, ignoring leading *)
(* zeros and treating omitted trailing components as zero" (README.md:104): *)
(* a check for a version stops the install if and only if the root's        *)
(* version is an earlier one, component by component as numbers.            *)
CheckIsNumeric ==
    (dist.need # <<>> /\ valid_version(dist.need) /\ valid_version(root)) =>
        /\ phase = "settle" /\ ~dist.warn => ~Earlier(root, dist.need)
        /\ why = "check" => ~dist.warn /\ Earlier(root, dist.need)

=============================================================================
