-------------------------- MODULE SelectionProofs --------------------------
(***************************************************************************)
(* Proofs about Selection, for every set of Distributions and every limit  *)
(* of passes.                                                              *)
(*                                                                         *)
(* A property of a choice is stale when its expression has another value   *)
(* than the property.  settle_choices evaluates each property once in a    *)
(* pass, so a property that is stale afterwards depends on one that        *)
(* changed after it was evaluated.  Followed back from pass to pass, this  *)
(* is a chain of as many dependencies as there were passes: that is why a  *)
(* Distribution refused as unstable has a chain of MaxPasses.  And when a  *)
(* pass changes nothing, no property differed from its expression at the   *)
(* time it was evaluated nor later: what is selected is stable.            *)
(*                                                                         *)
(* compareVersions scans digits.  Where the first difference is decides    *)
(* both that scan and the comparison of the numbers, which is shown by     *)
(* least counterexample over the digits read (UpTo, FirstDecides).         *)
(***************************************************************************)
EXTENDS Selection, WellFoundedInduction, TLAPS

Props == Ids \X Keys
States == [Ids -> [Keys -> BOOLEAN]]

Expr(p) == dist.expr[p[1]][p[2]]
Value(s, p) == s[p[1]][p[2]]
Dep(p) == <<Expr(p).of, Expr(p).key>>
Stale(s, p) == Expr(p) # Absent /\ Eval(s, Expr(p)) # Value(s, p)

HasChain(n, p) == \E ch \in Chains(n) : ch[1] = p

Typed == dist.expr \in [Ids -> [Keys -> Expressions(Ids)]]

-----------------------------------------------------------------------------
(* Chains *)

(* An expression is a chain of one. *)
LEMMA ChainOfOne ==
    ASSUME NEW p \in Props, Expr(p) # Absent
    PROVE  HasChain(1, p)
  <1> DEFINE ch == [i \in 1..1 |-> p]
  <1>1. ch \in Chains(1)
    BY DEF Chains, Props, Expr
  <1> QED
    BY <1>1 DEF HasChain

(* A chain from what a property depends on is a longer one from it. *)
LEMMA ChainExtends ==
    ASSUME Typed, NEW n \in Nat \ {0}, NEW p \in Props, ~Constant(Expr(p)),
           HasChain(n, Dep(p))
    PROVE  HasChain(n + 1, p)
  <1>1. PICK old \in Chains(n) : old[1] = Dep(p)
    BY Zenon DEF HasChain
  <1> DEFINE ch == [i \in 1..(n + 1) |-> IF i = 1 THEN p ELSE old[i - 1]]
  <1>2. /\ old \in [1..n -> Ids \X Keys]
        /\ \A i \in 1..n : dist.expr[old[i][1]][old[i][2]] # Absent
        /\ \A i \in 1..(n - 1) :
              LET e == dist.expr[old[i][1]][old[i][2]]
              IN  ~Constant(e) /\ <<e.of, e.key>> = old[i + 1]
    BY <1>1, Zenon DEF Chains
  <1>3. ch \in [1..(n + 1) -> Ids \X Keys]
    BY <1>2 DEF Props
  <1>4. \A i \in 1..(n + 1) : dist.expr[ch[i][1]][ch[i][2]] # Absent
    <2>1. dist.expr[p[1]][p[2]] # Absent
      BY DEF Constant, Expr, Absent
    <2> SUFFICES ASSUME NEW i \in 1..(n + 1)
                 PROVE  dist.expr[ch[i][1]][ch[i][2]] # Absent
      BY Zenon
    <2>2. CASE i = 1
      BY <2>1, <2>2, Zenon
    <2>3. CASE i # 1
      <3>1. i - 1 \in 1..n
        <4> HIDE DEF ch
        <4> QED
          BY <2>3
      <3>2. ch[i] = old[i - 1]
        BY <2>3, Zenon
      <3> QED
        BY <1>2, <3>1, <3>2, Zenon
    <2> HIDE DEF ch
    <2> QED
      BY <2>2, <2>3, Zenon
  <1>5. ASSUME NEW i \in 1..n
        PROVE  LET e == dist.expr[ch[i][1]][ch[i][2]]
               IN  ~Constant(e) /\ <<e.of, e.key>> = ch[i + 1]
    <2>1. CASE i = 1
      <3>1. 1 \in 1..(n + 1) /\ 2 \in 1..(n + 1) /\ 1 + 1 = 2 /\ 2 - 1 = 1 /\ 2 # 1
        <4> HIDE DEF ch
        <4> QED
          OBVIOUS
      <3>2. ch[i] = p /\ ch[i + 1] = old[1]
        BY <2>1, <3>1, Zenon
      <3> QED
        BY <1>1, <3>2, Zenon DEF Dep, Expr
    <2>2. CASE i # 1
      <3>1. /\ i - 1 \in 1..(n - 1) /\ i \in 1..(n + 1) /\ i + 1 \in 1..(n + 1)
            /\ i + 1 # 1 /\ (i + 1) - 1 = (i - 1) + 1
        <4> HIDE DEF ch
        <4> QED
          BY <2>2
      <3>2. ch[i] = old[i - 1] /\ ch[i + 1] = old[(i + 1) - 1]
        BY <2>2, <3>1, Zenon
      <3>3. ch[i + 1] = old[(i - 1) + 1]
        BY <3>1, <3>2, Zenon
      <3> QED
        BY <1>2, <3>1, <3>2, <3>3, Zenon
    <2> QED
      BY <2>1, <2>2, Zenon
  <1>6. ch \in Chains(n + 1)
    <2> HIDE DEF ch
    <2>1. (n + 1) - 1 = n
      OBVIOUS
    <2> QED
      BY <1>3, <1>4, <1>5, <2>1, Zenon DEF Chains
  <1> QED
    BY <1>6 DEF HasChain

(* A chain begins with a shorter one. *)
LEMMA ChainShortens ==
    ASSUME NEW n \in Nat \ {0}, NEW p, HasChain(n + 1, p)
    PROVE  HasChain(n, p)
  <1>1. PICK old \in Chains(n + 1) : old[1] = p
    BY Zenon DEF HasChain
  <1> DEFINE ch == [i \in 1..n |-> old[i]]
  <1>2. /\ old \in [1..(n + 1) -> Ids \X Keys]
        /\ \A i \in 1..(n + 1) : dist.expr[old[i][1]][old[i][2]] # Absent
        /\ \A i \in 1..((n + 1) - 1) :
              LET e == dist.expr[old[i][1]][old[i][2]]
              IN  ~Constant(e) /\ <<e.of, e.key>> = old[i + 1]
    BY <1>1, Zenon DEF Chains
  <1>3. /\ \A i \in 1..n : i \in 1..(n + 1)
        /\ \A i \in 1..(n - 1) : i \in 1..((n + 1) - 1) /\ i \in 1..n /\ i + 1 \in 1..n
        /\ 1 \in 1..n
    OBVIOUS
  <1>4. ch \in [1..n -> Ids \X Keys] /\ \A i \in 1..n : ch[i] = old[i]
    BY <1>2, <1>3, Zenon
  <1> HIDE DEF ch
  <1>5. \A i \in 1..n : dist.expr[ch[i][1]][ch[i][2]] # Absent
    BY <1>2, <1>3, <1>4, Zenon
  <1>6. ASSUME NEW i \in 1..(n - 1)
        PROVE  LET e == dist.expr[ch[i][1]][ch[i][2]]
               IN  ~Constant(e) /\ <<e.of, e.key>> = ch[i + 1]
    <2>1. ch[i] = old[i] /\ ch[i + 1] = old[i + 1] /\ i \in 1..((n + 1) - 1)
      BY <1>3, <1>4, Zenon
    <2> QED
      BY <1>2, <2>1, Zenon
  <1>7. ch \in Chains(n)
    BY <1>4, <1>5, <1>6, Zenon DEF Chains
  <1> QED
    BY <1>1, <1>3, <1>4, <1>7, Zenon DEF HasChain

-----------------------------------------------------------------------------
(* One property evaluated *)

(* What an expression computes, and what it depends on. *)
LEMMA EvalType ==
    ASSUME Typed, NEW s \in States, NEW p \in Props
    PROVE  /\ Eval(s, Expr(p)) \in BOOLEAN
           /\ Value(s, p) \in BOOLEAN
           /\ ~Constant(Expr(p)) => Dep(p) \in Props
  <1>1. Expr(p) \in Expressions(Ids)
    BY Zenon DEF Typed, Props, Expr
  <1>2. Value(s, p) \in BOOLEAN
    BY Zenon DEF States, Props, Value
  <1>3. CASE Expr(p) = Absent
    BY <1>2, <1>3 DEF Eval, Absent, Constant
  <1>4. CASE \E b \in BOOLEAN : Expr(p) = Literal(b)
    BY <1>2, <1>4 DEF Eval, Literal, Constant
  <1>5. CASE \E c \in Ids, k \in Keys : Expr(p) = Same(c, k)
    BY <1>2, <1>5 DEF Eval, Same, Constant, Dep, Props, States
  <1>6. CASE \E c \in Ids, k \in Keys : Expr(p) = Negated(c, k)
    BY <1>2, <1>6 DEF Eval, Negated, Constant, Dep, Props, States
  <1> QED
    BY <1>1, <1>3, <1>4, <1>5, <1>6 DEF Expressions

LEMMA EvalDepends ==
    ASSUME Typed, NEW s \in States, NEW t \in States, NEW p \in Props,
           Constant(Expr(p)) \/ Value(s, Dep(p)) = Value(t, Dep(p))
    PROVE  Eval(s, Expr(p)) = Eval(t, Expr(p))
  <1>1. Expr(p) \in Expressions(Ids)
    BY Zenon DEF Typed, Props, Expr
  <1>2. CASE Expr(p) = Absent
    BY <1>2 DEF Eval, Absent
  <1>3. CASE \E b \in BOOLEAN : Expr(p) = Literal(b)
    BY <1>3 DEF Eval, Literal
  <1>4. CASE \E c \in Ids, k \in Keys : Expr(p) = Same(c, k)
    BY <1>4, Zenon DEF Eval, Same, Constant, Dep, Value
  <1>5. CASE \E c \in Ids, k \in Keys : Expr(p) = Negated(c, k)
    BY <1>5, Zenon DEF Eval, Negated, Constant, Dep, Value
  <1> QED
    BY <1>1, <1>2, <1>3, <1>4, <1>5 DEF Expressions

(* Assign gives a property the value of its expression and changes no other. *)
LEMMA AssignDoes ==
    ASSUME Typed, NEW s \in States, NEW p \in Props
    PROVE  LET t == Assign(s, p[1], p[2])
           IN  /\ t \in States
               /\ \A q \in Props : q # p => Value(t, q) = Value(s, q)
               /\ IF Expr(p) = Absent THEN t = s ELSE Value(t, p) = Eval(s, Expr(p))
  <1> DEFINE t == Assign(s, p[1], p[2])
  <1>1. PICK c \in Ids, k \in Keys : p = <<c, k>>
    BY DEF Props
  <1>2. CASE Expr(p) = Absent
    BY <1>1, <1>2, Zenon DEF Assign, Expr
  <1>3. CASE Expr(p) # Absent
    <2>1. t = [s EXCEPT ![c] = [s[c] EXCEPT ![k] = Eval(s, Expr(p))]]
      BY <1>1, <1>3, Zenon DEF Assign, Expr
    <2>2. Eval(s, Expr(p)) \in BOOLEAN
      BY EvalType, Zenon
    <2>3. t \in States
      BY <2>1, <2>2 DEF States
    <2>4. ASSUME NEW q \in Props, q # p
          PROVE  Value(t, q) = Value(s, q)
      <3>1. PICK d \in Ids, j \in Keys : q = <<d, j>>
        BY DEF Props
      <3>2. d # c \/ j # k
        BY <1>1, <2>4, <3>1, Zenon
      <3> QED
        BY <2>1, <3>1, <3>2 DEF Value, States
    <2>5. Value(t, p) = Eval(s, Expr(p))
      BY <1>1, <2>1 DEF Value, States
    <2> QED
      BY <1>3, <2>3, <2>4, <2>5, Zenon
  <1> QED
    BY <1>2, <1>3, Zenon

-----------------------------------------------------------------------------
(* One pass *)

(* Pass n of settle_choices, which began with b, is at s and has evaluated   *)
(* the properties in E: the others are as they were, what changed has a     *)
(* chain of n + 1, and what is stale depends on a property that changed in  *)
(* this pass or, when it was not evaluated yet, in the one before.         *)
Settling(s, b, E, n) ==
    /\ \A p \in Props \ E : Value(s, p) = Value(b, p)
    /\ s = b => \A p \in E : ~Stale(s, p)
    /\ \A p \in Props : Value(s, p) # Value(b, p) => HasChain(n + 1, p)
    /\ \A p \in E : Stale(s, p) => ~Constant(Expr(p)) /\ HasChain(n + 1, Dep(p))
    /\ n > 0 => \A p \in Props \ E :
                  Stale(s, p) => ~Constant(Expr(p)) /\ HasChain(n, Dep(p))

(* A property that is stale after another one was evaluated was stale, or    *)
(* depends on the one that changed.                                        *)
LEMMA NewlyStale ==
    ASSUME Typed, NEW s \in States, NEW p \in Props, NEW q \in Props,
           Stale(Assign(s, p[1], p[2]), q)
    PROVE  LET t == Assign(s, p[1], p[2])
           IN  \/ q # p /\ Stale(s, q)
               \/ ~Constant(Expr(q)) /\ Dep(q) = p /\ Value(t, p) # Value(s, p)
  <1> DEFINE t == Assign(s, p[1], p[2])
  <1>1. /\ t \in States
        /\ \A r \in Props : r # p => Value(t, r) = Value(s, r)
        /\ IF Expr(p) = Absent THEN t = s ELSE Value(t, p) = Eval(s, Expr(p))
    BY AssignDoes, Zenon
  <1> HIDE DEF t
  <1>2. Stale(t, q)
    BY Zenon DEF t
  <1>3. CASE Constant(Expr(q)) \/ Value(t, Dep(q)) = Value(s, Dep(q))
    <2>1. Eval(t, Expr(q)) = Eval(s, Expr(q))
      BY <1>1, <1>3, EvalDepends, Zenon
    <2>2. q # p
      BY <1>1, <1>2, <2>1, Zenon DEF Stale
    <2> QED
      BY <1>1, <1>2, <2>1, <2>2, Zenon DEF Stale, t
  <1>4. CASE ~Constant(Expr(q)) /\ Value(t, Dep(q)) # Value(s, Dep(q))
    <2>1. Dep(q) \in Props
      BY <1>4, EvalType, Zenon
    <2> QED
      BY <1>1, <1>4, <2>1, Zenon DEF t
  <1> QED
    BY <1>3, <1>4, Zenon

(* What changes when it is evaluated has a chain of n + 1. *)
LEMMA ChangedHasChain ==
    ASSUME Typed, NEW s \in States, NEW b \in States, NEW E \in SUBSET Props, NEW n \in Nat,
           Settling(s, b, E, n),
           NEW p \in Props \ E, Value(Assign(s, p[1], p[2]), p) # Value(s, p)
    PROVE  HasChain(n + 1, p)
  <1>1. Stale(s, p)
    BY AssignDoes, Zenon DEF Stale
  <1>2. CASE n = 0
    <2>1. HasChain(1, p)
      BY <1>1, ChainOfOne, Zenon DEF Stale
    <2> QED
      BY <1>2, <2>1
  <1>3. CASE n > 0
    <2>1. ~Constant(Expr(p)) /\ HasChain(n, Dep(p))
      BY <1>1, <1>3, Zenon DEF Settling
    <2> QED
      BY <1>3, <2>1, ChainExtends
  <1> QED
    BY <1>2, <1>3

LEMMA AssignSettles ==
    ASSUME Typed, NEW s \in States, NEW b \in States, NEW E \in SUBSET Props, NEW n \in Nat,
           Settling(s, b, E, n), NEW p \in Props \ E
    PROVE  /\ Assign(s, p[1], p[2]) \in States
           /\ Settling(Assign(s, p[1], p[2]), b, E \cup {p}, n)
  <1> DEFINE t == Assign(s, p[1], p[2])
  <1>1. /\ t \in States
        /\ \A q \in Props : q # p => Value(t, q) = Value(s, q)
    BY AssignDoes, Zenon
  <1>2. Value(t, p) # Value(s, p) => HasChain(n + 1, p)
    BY ChangedHasChain, Zenon
  <1>3. \A q \in Props : Stale(t, q) =>
            \/ q # p /\ Stale(s, q)
            \/ ~Constant(Expr(q)) /\ Dep(q) = p /\ Value(t, p) # Value(s, p)
    BY NewlyStale, Zenon
  <1> HIDE DEF t
  <1>4. \A q \in Props \ (E \cup {p}) : Value(t, q) = Value(b, q)
    BY <1>1, Zenon DEF Settling
  <1>5. t = b => \A q \in E \cup {p} : ~Stale(t, q)
    <2> SUFFICES ASSUME t = b, NEW q \in E \cup {p}, Stale(t, q)
                 PROVE  FALSE
      BY Zenon
    <2>1. Value(t, p) = Value(s, p)
      BY Zenon DEF Settling
    <2>2. s = t
      <3>1. \A r \in Props : Value(t, r) = Value(s, r)
        BY <1>1, <2>1, Zenon
      <3>2. \A c \in Ids, k \in Keys : t[c][k] = s[c][k]
        <4> SUFFICES ASSUME NEW c \in Ids, NEW k \in Keys
                     PROVE  t[c][k] = s[c][k]
          BY Zenon
        <4>1. <<c, k>> \in Props /\ <<c, k>>[1] = c /\ <<c, k>>[2] = k
          BY Zenon DEF Props
        <4> QED
          BY <3>1, <4>1, Zenon DEF Value
      <3>3. \A c \in Ids : t[c] \in [Keys -> BOOLEAN] /\ s[c] \in [Keys -> BOOLEAN]
        BY <1>1, Zenon DEF States
      <3>4. \A c \in Ids : t[c] = s[c]
        BY <3>2, <3>3
      <3> QED
        BY <1>1, <3>4 DEF States
    <2>3. q # p /\ Stale(s, q)
      BY <1>3, <2>1, Zenon
    <2> QED
      BY <2>2, <2>3, Zenon DEF Settling
  <1>6. \A q \in Props : Value(t, q) # Value(b, q) => HasChain(n + 1, q)
    <2> SUFFICES ASSUME NEW q \in Props, Value(t, q) # Value(b, q)
                 PROVE  HasChain(n + 1, q)
      BY Zenon
    <2>1. CASE q = p
      BY <1>2, <2>1, Zenon DEF Settling
    <2>2. CASE q # p
      BY <1>1, <2>2, Zenon DEF Settling
    <2> QED
      BY <2>1, <2>2, Zenon
  <1>7. \A q \in E \cup {p} : Stale(t, q) => ~Constant(Expr(q)) /\ HasChain(n + 1, Dep(q))
    BY <1>2, <1>3, Zenon DEF Settling
  <1>8. n > 0 => \A q \in Props \ (E \cup {p}) :
                    Stale(t, q) => ~Constant(Expr(q)) /\ HasChain(n, Dep(q))
    <2>1. n > 0 /\ HasChain(n + 1, p) => HasChain(n, p)
      BY ChainShortens
    <2> QED
      BY <1>2, <1>3, <2>1, Zenon DEF Settling
  <1> QED
    BY <1>1, <1>4, <1>5, <1>6, <1>7, <1>8, Zenon DEF Settling, t

(* The three properties of a choice. *)
LEMMA ReevaluateSettles ==
    ASSUME Typed, NEW s \in States, NEW b \in States, NEW E \in SUBSET Props, NEW n \in Nat,
           Settling(s, b, E, n), NEW c \in Ids, \A k \in Keys : <<c, k>> \notin E
    PROVE  /\ Reevaluate(s, c) \in States
           /\ Settling(Reevaluate(s, c), b, E \cup ({c} \X Keys), n)
  <1> DEFINE P(k) == <<c, k>>
             s1 == Assign(s, c, "selected")
             s2 == Assign(s1, c, "enabled")
             s3 == Assign(s2, c, "visible")
             E1 == E \cup {P("selected")}
             E2 == E1 \cup {P("enabled")}
             E3 == E2 \cup {P("visible")}
  <1>1. /\ P("selected") \in Props \ E /\ P("enabled") \in Props \ E1
        /\ P("visible") \in Props \ E2
        /\ E1 \in SUBSET Props /\ E2 \in SUBSET Props
    BY DEF Props, Keys
  <1>2. \A k : P(k)[1] = c /\ P(k)[2] = k
    BY Zenon
  <1>3. s1 \in States /\ Settling(s1, b, E1, n)
    BY <1>1, <1>2, AssignSettles, Zenon
  <1>4. s2 \in States /\ Settling(s2, b, E2, n)
    BY <1>1, <1>2, <1>3, AssignSettles, Zenon
  <1>5. s3 \in States /\ Settling(s3, b, E3, n)
    <2> HIDE DEF s2, E2
    <2> QED
      BY <1>1, <1>2, <1>4, AssignSettles, Zenon
  <1>6. E3 = E \cup ({c} \X Keys)
    BY DEF Keys
  <1> QED
    BY <1>5, <1>6, Zenon DEF Reevaluate
-----------------------------------------------------------------------------
(* The types, and which way a Distribution goes *)

Given == \E s \in Situations : dist = s[1]

BaseInvariant ==
    /\ TypeOK /\ Given
    /\ phase = "load" => ~js
    /\ phase \notin {"load", "dead"} => OutlineIsSound
    /\ phase \in {"load", "initialize", "script", "check"} => pass = 0 /\ cursor = 1
    /\ phase \notin {"select", "candidates", "done", "dead"} => item = 1 /\ loaded = <<>>
    /\ phase \in {"initialize", "script", "check", "settle"} => js /\ target
    /\ phase = "candidates" => js /\ ~target
    /\ phase = "select" => (js => target)

LEMMA GivenTypes ==
    ASSUME Given
    PROVE  /\ Typed
           /\ dist.start \in States
           /\ dist.document \in Seq(Ids)
           /\ dist.outline \in Seq(Range(dist.outline))
           /\ \A c \in Ids : dist.packages[c] \in Seq(Range(dist.packages[c]))
           /\ \A a \in dist.script : a.value \in BOOLEAN
  <1>1. PICK s \in Situations : dist = s[1]
    BY Zenon DEF Given
  <1>2. dist \in {r[1] : r \in Situations}
    BY <1>1, Zenon
  <1> QED
    BY <1>2, SituationsAssumption, Zenon DEF Typed, States, Ids

LEMMA ReevaluateType ==
    ASSUME Typed, NEW s \in States, NEW c \in Ids
    PROVE  Reevaluate(s, c) \in States
  <1>1. \A k \in Keys : <<c, k>> \in Props /\ <<c, k>>[1] = c /\ <<c, k>>[2] = k
    BY Zenon DEF Props
  <1>2. \A t \in States : \A k \in Keys : Assign(t, c, k) \in States
    <2> SUFFICES ASSUME NEW t \in States, NEW k \in Keys
                 PROVE  Assign(t, c, k) \in States
      BY Zenon
    <2> DEFINE p == <<c, k>>
    <2>1. Assign(t, p[1], p[2]) \in States
      BY <1>1, AssignDoes, Zenon
    <2> QED
      BY <1>1, <2>1, Zenon
  <1> QED
    BY <1>2, Zenon DEF Reevaluate, Keys

(* The choices that a loop over a sound outline meets. *)
LEMMA OutlineTypes ==
    ASSUME Given, OutlineIsSound
    PROVE  /\ Len(dist.outline) \in Nat /\ DOMAIN dist.outline = 1..Len(dist.outline)
           /\ \A i \in 1..Len(dist.outline) : dist.outline[i] \in Ids
           /\ \A c \in Ids : \E i \in 1..Len(dist.outline) : dist.outline[i] = c
           /\ \A i, j \in 1..Len(dist.outline) : dist.outline[i] = dist.outline[j] => i = j
  <1>1. Len(dist.outline) \in Nat /\ DOMAIN dist.outline = 1..Len(dist.outline)
    BY GivenTypes
  <1>2. Range(dist.outline) = Ids /\ IsInjective(dist.outline)
    BY Zenon DEF OutlineIsSound
  <1> QED
    BY <1>1, <1>2, Zenon DEF Range, IsInjective

LEMMA BaseStep ==
    ASSUME BaseInvariant, [Next]_vars
    PROVE  BaseInvariant'
  <1>t. /\ TypeOK /\ Given /\ Typed /\ dist.start \in States
        /\ state \in States /\ before \in States /\ pass \in 0..(MaxPasses - 1)
    BY GivenTypes, Zenon DEF BaseInvariant, TypeOK, States
  <1>g. ASSUME dist' = dist
        PROVE  /\ Given' /\ Ids' = Ids /\ States' = States
               /\ OutlineIsSound' = OutlineIsSound
    <2>1. Given' /\ Ids' = Ids /\ States' = States
      BY <1>g, <1>t, Zenon DEF Given, Ids, States
    <2>2. OutlineIsSound' = OutlineIsSound
      BY <1>g DEF OutlineIsSound, Ids, ReferenceIsSound, RefIds, RefNodes, Merged
    <2> QED
      BY <2>1, <2>2, Zenon
  <1>d. ASSUME NEW reason, Die(reason), js' = js \/ (phase = "load" /\ js' = NeedsJs)
        PROVE  BaseInvariant'
    <2>1. /\ phase' = "dead"
          /\ UNCHANGED <<dist, target, root, state, before, pass, cursor, item, loaded>>
      BY <1>d, Zenon DEF Die, given
    <2>2. js' \in BOOLEAN /\ (~js' => state' = dist'.start)
      <3>1. phase = "load" => ~js
        BY Zenon DEF BaseInvariant
      <3> QED
        BY <1>d, <1>t, <2>1, <3>1, Zenon DEF TypeOK, NeedsJs, HasExpressions
    <2>3. TypeOK'
      BY <1>t, <1>g, <2>1, <2>2, Zenon DEF TypeOK, Phases, States
    <2> QED
      BY <1>g, <1>t, <2>1, <2>3, Zenon DEF BaseInvariant
  <1>s. ASSUME UNCHANGED <<dist, target, root>>, js' \in BOOLEAN, phase' \in Phases,
               state' \in States, before' \in States, pass' \in 0..(MaxPasses - 1),
               cursor' \in Nat \ {0}, item' \in Nat \ {0}, loaded' \in Seq(DOMAIN Identifier),
               ~js' => state' = dist.start
        PROVE  TypeOK' /\ Given' /\ OutlineIsSound' = OutlineIsSound
    BY <1>g, <1>t, <1>s, Zenon DEF TypeOK, States
  <1>1. CASE Load
    <2>1. CASE Die("malformed")
      BY <1>1, <1>d, <2>1, Zenon DEF Load
    <2>2. CASE ~Die("malformed")
      <3>1. /\ phase = "load" /\ js' = NeedsJs /\ OutlineIsSound
            /\ phase' = IF ~NeedsJs THEN "select"
                        ELSE IF target THEN "initialize" ELSE "candidates"
            /\ UNCHANGED <<dist, target, root, state, before, pass, cursor, item, loaded>>
        BY <1>1, <2>2, Zenon DEF Load, Go, given
      <3>2. NeedsJs \in BOOLEAN
        BY Zenon DEF NeedsJs, HasExpressions
      <3>3. state = dist.start
        BY <3>1, Zenon DEF BaseInvariant, TypeOK
      <3>4. TypeOK' /\ Given' /\ OutlineIsSound'
        BY <1>s, <1>t, <3>1, <3>2, <3>3, Zenon DEF TypeOK, Phases
      <3> QED
        BY <1>t, <3>1, <3>2, <3>4, Zenon DEF BaseInvariant, TypeOK
    <2> QED
      BY <2>1, <2>2, Zenon
  <1>2. CASE Initialize
    <2>1. /\ phase = "initialize" /\ phase' = "script" /\ state' = dist.start
          /\ UNCHANGED <<dist, target, root, js, before, pass, cursor, item, loaded>>
      BY <1>2, Zenon DEF Initialize, Go, given
    <2>2. TypeOK' /\ Given' /\ OutlineIsSound'
      BY <1>s, <1>t, <2>1, Zenon DEF TypeOK, Phases, BaseInvariant
    <2> QED
      BY <2>1, <2>2, Zenon DEF BaseInvariant
  <1>3. CASE Script
    <2>1. /\ phase = "script" /\ phase' = "check"
          /\ UNCHANGED <<dist, target, root, js, before, pass, cursor, item, loaded>>
      BY <1>3, Zenon DEF Script, Go, given
    <2>2. state' \in States
      <3>1. ASSUME NEW c \in Ids, NEW k \in Keys
            PROVE  (IF \E a \in dist.script : a.of = c /\ a.key = k
                    THEN (CHOOSE a \in dist.script : a.of = c /\ a.key = k).value
                    ELSE state[c][k]) \in BOOLEAN
        BY <1>t, GivenTypes, Zenon DEF States
      <3> QED
        BY <1>3, <3>1, Zenon DEF Script, States
    <2>3. TypeOK' /\ Given' /\ OutlineIsSound'
      BY <1>s, <1>t, <2>1, <2>2, Zenon DEF TypeOK, Phases, BaseInvariant
    <2> QED
      BY <2>1, <2>3, Zenon DEF BaseInvariant
  <1>4. CASE Check
    <2>1. CASE Die("check")
      BY <1>4, <1>d, <2>1, Zenon DEF Check
    <2>2. CASE ~Die("check")
      <3>1. /\ phase = "check" /\ phase' = "settle"
            /\ UNCHANGED <<dist, target, root, js, state, before, pass, cursor, item, loaded>>
        BY <1>4, <2>2, Zenon DEF Check, Go, given
      <3>2. TypeOK' /\ Given' /\ OutlineIsSound'
        BY <1>s, <1>t, <3>1, Zenon DEF TypeOK, Phases, BaseInvariant
      <3> QED
        BY <3>1, <3>2, Zenon DEF BaseInvariant
    <2> QED
      BY <2>1, <2>2, Zenon
  <1>5. CASE BeginPass \/ Evaluate
    <2>1. /\ phase = "settle" /\ phase' = "settle" /\ cursor \in 1..Len(dist.outline)
          /\ before' \in {before, state}
          /\ state' = Reevaluate(state, dist.outline[cursor])
          /\ cursor' = cursor + 1
          /\ UNCHANGED <<dist, target, root, js, pass, item, loaded>>
      <3>1. dist.outline # <<>> => 1 \in 1..Len(dist.outline)
        BY <1>t, GivenTypes
      <3>2. CASE BeginPass
        BY <3>1, <3>2 DEF BeginPass, Go, given
      <3>3. CASE Evaluate
        BY <1>t, <3>3 DEF Evaluate, Go, given, TypeOK
      <3> QED
        BY <1>5, <3>2, <3>3, Zenon
    <2>2. OutlineIsSound /\ js /\ target /\ item = 1 /\ loaded = <<>>
      BY <2>1, Zenon DEF BaseInvariant
    <2>3. state' \in States
      BY <1>t, <2>1, <2>2, OutlineTypes, ReevaluateType, Zenon
    <2>4. TypeOK' /\ Given' /\ OutlineIsSound'
      <3>1. /\ UNCHANGED <<dist, target, root>> /\ js' \in BOOLEAN /\ phase' \in Phases
            /\ before' \in States /\ cursor' \in Nat \ {0} /\ item' \in Nat \ {0}
            /\ loaded' \in Seq(DOMAIN Identifier) /\ pass' \in 0..(MaxPasses - 1)
        BY <1>t, <2>1 DEF TypeOK
      <3> QED
        BY <1>s, <2>1, <2>2, <2>3, <3>1, Zenon
    <2> QED
      BY <2>1, <2>2, <2>4, Zenon DEF BaseInvariant
  <1>6. CASE EndPass
    <2>1. CASE Die("unstable")
      BY <1>6, <1>d, <2>1, Zenon DEF EndPass
    <2>2. CASE ~Die("unstable")
      <3>1. /\ phase = "settle" /\ cursor' = 1
            /\ UNCHANGED <<dist, target, root, js, state, before, item, loaded>>
            /\ \/ phase' = "select" /\ pass' = pass
               \/ phase' = "settle" /\ pass' = pass + 1 /\ pass + 1 # MaxPasses
        BY <1>6, <2>2, Zenon DEF EndPass, Go, given, LastPass
      <3>2. pass' \in 0..(MaxPasses - 1)
        BY <1>t, <3>1, MaxPassesAssumption
      <3>3. TypeOK' /\ Given' /\ OutlineIsSound'
        BY <1>s, <1>t, <3>1, <3>2, Zenon DEF TypeOK, Phases, BaseInvariant
      <3> QED
        BY <3>1, <3>3, Zenon DEF BaseInvariant
    <2> QED
      BY <2>1, <2>2, Zenon
  <1>7. CASE TimeLimit
    BY <1>7, <1>d, Zenon DEF TimeLimit
  <1>8. ASSUME NEW id, load_component(id), phase \in {"select", "candidates"}, js' = js
        PROVE  BaseInvariant'
    <2>1. CASE \E reason : Die(reason)
      BY <1>8, <1>d, <2>1, Zenon
    <2>2. CASE ~\E reason : Die(reason)
      <3>1. /\ UNCHANGED <<dist, target, root, js, phase, state, before, pass, cursor>>
            /\ item' = item + 1
            /\ \/ loaded' = loaded
               \/ RefDir(id) \in DOMAIN Identifier /\ loaded' = Append(loaded, RefDir(id))
        BY <1>8, <2>2, Zenon DEF load_component, Go, given
      <3>2. loaded' \in Seq(DOMAIN Identifier)
        <4>1. loaded \in Seq(DOMAIN Identifier)
          BY <1>t, Zenon DEF TypeOK
        <4> QED
          BY <3>1, <4>1
      <3>3. TypeOK' /\ Given' /\ OutlineIsSound'
        BY <1>8, <1>s, <1>t, <3>1, <3>2 DEF TypeOK, BaseInvariant
      <3> QED
        BY <1>8, <3>1, <3>3 DEF BaseInvariant
    <2> QED
      BY <2>1, <2>2, Zenon
  <1>9. ASSUME Skip \/ NextChoice, phase \in {"select", "candidates"}, js' = js
        PROVE  BaseInvariant'
    <2>1. /\ UNCHANGED <<dist, target, root, js, phase, state, before, pass, loaded>>
          /\ item' \in {1, item + 1} /\ cursor' \in {cursor, cursor + 1}
      BY <1>9, Zenon DEF Skip, NextChoice, Go, given
    <2>2. TypeOK' /\ Given' /\ OutlineIsSound'
      BY <1>9, <1>s, <1>t, <2>1 DEF TypeOK, BaseInvariant
    <2> QED
      BY <1>9, <2>1, <2>2 DEF BaseInvariant
  <1>10. ASSUME phase \in {"select", "candidates"}, Go("done"),
                UNCHANGED <<js, state, before, pass, cursor, item, loaded>>
         PROVE  BaseInvariant'
    <2>1. /\ UNCHANGED <<dist, target, root>> /\ phase' = "done"
      BY <1>10, Zenon DEF Go, given
    <2>2. TypeOK' /\ Given' /\ OutlineIsSound'
      BY <1>10, <1>s, <1>t, <2>1, Zenon DEF TypeOK, BaseInvariant, Phases
    <2> QED
      BY <2>1, <2>2, Zenon DEF BaseInvariant
  <1>11. CASE Select
    BY <1>8, <1>9, <1>11, Zenon DEF Select
  <1>12. CASE Finish
    BY <1>d, <1>10, <1>12, Zenon DEF Finish
  <1>13. CASE Candidates
    BY <1>8, <1>9, <1>10, <1>13, Zenon DEF Candidates
  <1>14. CASE UNCHANGED vars
    BY <1>14, <1>t, <1>s, Zenon DEF vars, BaseInvariant, TypeOK
  <1> QED
    BY <1>1, <1>2, <1>3, <1>4, <1>5, <1>6, <1>7, <1>11, <1>12, <1>13, <1>14, Zenon DEF Next, Step

-----------------------------------------------------------------------------
(* Settling *)

Evaluated(i) == {p \in Props : \E j \in 1..(i - 1) : dist.outline[j] = p[1]}

SettleInvariant ==
    /\ phase = "settle" =>
          /\ cursor <= Len(dist.outline) + 1
          /\ Settling(state, IF cursor = 1 THEN state ELSE before, Evaluated(cursor), pass)
    /\ SelectionIsStable
    /\ UnstableHasReason

(* Loading *)

(* The choices in the order in which they are gone through. *)
Order == IF phase = "candidates" THEN dist.document ELSE dist.outline

PassedIsLoaded ==
    \A i \in DOMAIN Order : \A j \in DOMAIN dist.packages[Order[i]] :
        (i < cursor \/ (i = cursor /\ j < item)) =>
            LET id == dist.packages[Order[i]][j]
            IN  Wanted(Order[i], id) => RefDir(id) \in Range(loaded)

LoadedIsNamed ==
    \A d \in Range(loaded) :
        \E c \in Ids : \E id \in Range(dist.packages[c]) :
            Wanted(c, id) /\ RefDir(id) = d /\ Identifier[d] = id

LoadInvariant ==
    /\ phase \in {"select", "candidates"} => PassedIsLoaded
    /\ IsInjective(loaded)
    /\ phase # "dead" => LoadedIsNamed
    /\ LoadedIsWanted
    /\ why # "duplicate"

-----------------------------------------------------------------------------
(* What depends on the Distribution alone stays. *)
LEMMA SameDistribution ==
    ASSUME dist' = dist
    PROVE  /\ Ids' = Ids /\ Props' = Props /\ States' = States
           /\ \A n : Chains(n)' = Chains(n)
           /\ \A n, p : HasChain(n, p)' = HasChain(n, p)
           /\ \A p : Expr(p)' = Expr(p) /\ Dep(p)' = Dep(p)
           /\ \A i : Evaluated(i)' = Evaluated(i)
  <1>1. Ids' = Ids /\ Props' = Props /\ States' = States
    BY Zenon DEF Ids, Props, States
  <1>2. \A n : Chains(n)' = Chains(n)
    BY <1>1, Zenon DEF Chains
  <1>3. \A n, p : HasChain(n, p)' = HasChain(n, p)
    BY <1>2, Zenon DEF HasChain
  <1>4. \A p : Expr(p)' = Expr(p) /\ Dep(p)' = Dep(p)
    BY Zenon DEF Expr, Dep
  <1>5. \A i : Evaluated(i)' = Evaluated(i)
    BY <1>1, Zenon DEF Evaluated
  <1> QED
    BY <1>1, <1>2, <1>3, <1>4, <1>5, Zenon

LEMMA SettlingAgain ==
    ASSUME dist' = dist, cursor' # 1,
           Settling(state', before', Evaluated(cursor'), pass')
    PROVE  Settling(state, IF cursor = 1 THEN state ELSE before, Evaluated(cursor), pass)'
  <1>1. \A s, p : Stale(s, p)' = Stale(s, p)
    BY SameDistribution DEF Stale
  <1> QED
    BY <1>1, SameDistribution DEF Settling, Stale, Evaluated

LEMMA SettleStep ==
    ASSUME BaseInvariant, SettleInvariant, [Next]_vars
    PROVE  SettleInvariant'
  <1>t. /\ Given /\ Typed /\ state \in States /\ before \in States
        /\ pass \in Nat /\ cursor \in Nat \ {0}
    BY MaxPassesAssumption, GivenTypes DEF BaseInvariant, TypeOK, States
  <1>a. ASSUME dist' = dist, phase' # "settle", why' = why \/ why' # "unstable",
               \/ phase' \notin {"select", "done"} \/ ~js' \/ ~target'
               \/ phase \in {"select", "done"} /\ UNCHANGED <<js, target, state>>
        PROVE  SettleInvariant'
    <2>1. SelectionIsStable'
      BY <1>a, SameDistribution, Zenon DEF SettleInvariant, SelectionIsStable
    <2>2. UnstableHasReason'
      BY <1>a, SameDistribution, Zenon DEF SettleInvariant, UnstableHasReason
    <2> QED
      BY <1>a, <2>1, <2>2, Zenon DEF SettleInvariant
  <1>d. ASSUME NEW reason, Die(reason), reason # "unstable"
        PROVE  SettleInvariant'
    BY <1>a, <1>d, Zenon DEF Die, given
  <1>k. ASSUME dist' = dist, phase' = "settle", why' = why, cursor' <= Len(dist.outline) + 1,
               Settling(state, IF cursor = 1 THEN state ELSE before, Evaluated(cursor), pass)'
        PROVE  SettleInvariant'
    BY <1>k, SameDistribution, Zenon DEF SettleInvariant, SelectionIsStable, UnstableHasReason
  <1>1. CASE Load
    <2>1. CASE Die("malformed")
      BY <1>d, <2>1, Zenon
    <2>2. CASE ~Die("malformed")
      BY <1>1, <1>a, <2>2, Zenon DEF Load, Go, given
    <2> QED
      BY <2>1, <2>2, Zenon
  <1>2. CASE Initialize \/ Script
    BY <1>2, <1>a, Zenon DEF Initialize, Script, Go, given
  <1>3. CASE Check
    <2>1. CASE Die("check")
      BY <1>d, <2>1, Zenon
    <2>2. CASE ~Die("check")
      <3>1. /\ phase' = "settle" /\ dist' = dist /\ why' = why /\ cursor' = 1 /\ pass' = 0
            /\ cursor' <= Len(dist.outline) + 1
        <4>1. phase = "check" /\ OutlineIsSound /\ cursor = 1 /\ pass = 0
          BY <1>3, Zenon DEF Check, BaseInvariant
        <4>2. Len(dist.outline) \in Nat
          BY <1>t, <4>1, OutlineTypes, Zenon
        <4> QED
          BY <1>3, <2>2, <4>1, <4>2 DEF Check, Go, given
      <3>2. Evaluated(cursor)' = {}
        BY <3>1 DEF Evaluated
      <3>3. Settling(state, IF cursor = 1 THEN state ELSE before, Evaluated(cursor), pass)'
        BY <3>1, <3>2 DEF Settling
      <3> QED
        BY <1>k, <3>1, <3>3, Zenon
    <2> QED
      BY <2>1, <2>2, Zenon
  <1>4. CASE BeginPass \/ Evaluate
    <2> DEFINE c == dist.outline[cursor]
    <2>1. /\ phase = "settle" /\ phase' = "settle" /\ cursor \in 1..Len(dist.outline)
          /\ before' = IF cursor = 1 THEN state ELSE before
          /\ state' = Reevaluate(state, c)
          /\ cursor' = cursor + 1
          /\ UNCHANGED <<dist, pass, why>>
      <3>1. dist.outline # <<>> => 1 \in 1..Len(dist.outline)
        BY <1>t, GivenTypes
      <3>2. CASE BeginPass
        BY <3>1, <3>2 DEF BeginPass, Go, given
      <3>3. CASE Evaluate
        BY <1>t, <3>3 DEF Evaluate, Go, given
      <3> QED
        BY <1>4, <3>2, <3>3, Zenon
    <2>2. /\ Len(dist.outline) \in Nat /\ c \in Ids
          /\ \A j \in 1..(cursor - 1) : dist.outline[j] # c
      BY <1>t, <2>1, OutlineTypes DEF BaseInvariant
    <2>3. before' \in States /\ Settling(state, before', Evaluated(cursor), pass)
      BY <1>t, <2>1, Zenon DEF SettleInvariant
    <2>4. /\ Evaluated(cursor) \in SUBSET Props
          /\ \A k \in Keys : <<c, k>> \notin Evaluated(cursor)
      BY <2>2, Zenon DEF Evaluated
    <2>5. Settling(state', before', Evaluated(cursor) \cup ({c} \X Keys), pass)
      BY <1>t, <2>1, <2>2, <2>3, <2>4, ReevaluateSettles, Zenon
    <2>6. Evaluated(cursor) \cup ({c} \X Keys) = Evaluated(cursor')
      BY <1>t, <2>1, <2>2 DEF Evaluated, Props
    <2>7. Settling(state', before', Evaluated(cursor'), pass')
      BY <2>1, <2>5, <2>6, Zenon
    <2>8. cursor' # 1 /\ cursor' <= Len(dist.outline) + 1
      BY <1>t, <2>1, <2>2
    <2> QED
      BY <1>k, <2>1, <2>7, <2>8, SettlingAgain, Zenon
  <1>5. CASE EndPass
    <2>1. /\ phase = "settle" /\ cursor > Len(dist.outline) /\ dist' = dist
          /\ state' = state /\ before' = before /\ js' = js /\ target' = target
      BY <1>5, Zenon DEF EndPass, Go, Die, given
    <2>2. /\ Len(dist.outline) \in Nat
          /\ \A p \in Props : \E i \in 1..Len(dist.outline) : dist.outline[i] = p[1]
      BY <1>t, <2>1, OutlineTypes, Zenon DEF BaseInvariant, Props
    <2>3. Evaluated(cursor) = Props
      BY <1>t, <2>1, <2>2 DEF Evaluated
    <2>4. CASE cursor = 1
      <3>1. Ids = {}
        BY <1>t, <2>1, <2>2, <2>4, OutlineTypes DEF BaseInvariant
      <3>2. state = before
        BY <1>t, <3>1 DEF States
      <3>3. phase' = "select" /\ why' = why
        BY <1>5, <3>2, Zenon DEF EndPass, Unchanged, Go
      <3>4. SelectionIsStable' /\ UnstableHasReason'
        BY <2>1, <3>1, <3>3, SameDistribution, Zenon
           DEF SettleInvariant, SelectionIsStable, UnstableHasReason
      <3> QED
        BY <3>3, <3>4, Zenon DEF SettleInvariant
    <2>5. CASE cursor # 1
      <3>1. Settling(state, before, Props, pass)
        BY <2>1, <2>3, <2>5, Zenon DEF SettleInvariant
      <3>2. CASE state = before
        <4>1. phase' = "select" /\ why' = why
          BY <1>5, <3>2, Zenon DEF EndPass, Unchanged, Go
        <4>2. \A p \in Props : ~Stale(state, p)
          BY <3>1, <3>2, Zenon DEF Settling
        <4>3. SelectionIsStable'
          <5>1. ASSUME NEW c \in Ids, NEW k \in Keys, dist.expr[c][k] # Absent
                PROVE  Eval(state, dist.expr[c][k]) = state[c][k]
            <6>1. <<c, k>> \in Props /\ <<c, k>>[1] = c /\ <<c, k>>[2] = k
              BY Zenon DEF Props
            <6>2. ~Stale(state, <<c, k>>)
              BY <4>2, <6>1, Zenon
            <6> QED
              BY <5>1, <6>1, <6>2, Zenon DEF Stale, Expr, Value
          <5> QED
            BY <2>1, <5>1, SameDistribution, Zenon DEF SelectionIsStable
        <4>4. UnstableHasReason'
          BY <2>1, <4>1, SameDistribution, Zenon DEF SettleInvariant, UnstableHasReason
        <4> QED
          BY <4>1, <4>3, <4>4, Zenon DEF SettleInvariant
      <3>3. CASE state # before /\ LastPass
        <4>1. phase' = "dead" /\ pass + 1 = MaxPasses
          BY <1>5, <3>3, Zenon DEF EndPass, Unchanged, LastPass, Die
        <4>2. PICK p \in Props : Value(state, p) # Value(before, p)
          <5>1. PICK c \in Ids, k \in Keys : state[c][k] # before[c][k]
            <6>1. PICK c \in Ids : state[c] # before[c]
              BY <1>t, <3>3 DEF States
            <6>2. state[c] \in [Keys -> BOOLEAN] /\ before[c] \in [Keys -> BOOLEAN]
              BY <1>t, Zenon DEF States
            <6> QED
              BY <6>1, <6>2
          <5>2. <<c, k>> \in Props /\ <<c, k>>[1] = c /\ <<c, k>>[2] = k
            BY Zenon DEF Props
          <5> QED
            BY <5>1, <5>2, Zenon DEF Value
        <4>3. HasChain(MaxPasses, p)
          BY <3>1, <4>1, <4>2, Zenon DEF Settling
        <4>4. Chains(MaxPasses) # {}
          BY <4>3, Zenon DEF HasChain
        <4> QED
          BY <2>1, <4>1, <4>4, SameDistribution, Zenon DEF SettleInvariant, SelectionIsStable, UnstableHasReason
      <3>4. CASE state # before /\ ~LastPass
        <4>1. phase' = "settle" /\ why' = why /\ cursor' = 1 /\ pass' = pass + 1
          BY <1>5, <3>4, Zenon DEF EndPass, Unchanged, Go
        <4>2. Evaluated(cursor)' = {}
          BY <4>1 DEF Evaluated
        <4>3. \A p \in Props : Stale(state, p) => ~Constant(Expr(p)) /\ HasChain(pass + 1, Dep(p))
          BY <3>1, Zenon DEF Settling
        <4>4. \A p \in Props : (Stale(state, p) => ~Constant(Expr(p)) /\ HasChain(pass, Dep(p)))'
          BY <2>1, <4>1, <4>3, SameDistribution, Zenon DEF Stale
        <4>5. Settling(state, IF cursor = 1 THEN state ELSE before, Evaluated(cursor), pass)'
          BY <2>1, <4>1, <4>2, <4>4, SameDistribution, Zenon DEF Settling
        <4> QED
          BY <1>k, <2>1, <2>2, <4>1, <4>5
      <3> QED
        BY <3>2, <3>3, <3>4, Zenon
    <2> QED
      BY <2>4, <2>5, Zenon
  <1>6. CASE TimeLimit
    BY <1>6, <1>d, Zenon DEF TimeLimit
  <1>7. ASSUME NEW id, load_component(id), phase \in {"select", "candidates"}, js' = js
        PROVE  SettleInvariant'
    <2>1. CASE \E reason \in {"missing", "misnamed", "duplicate"} : Die(reason)
      BY <1>d, <2>1, Zenon
    <2>2. CASE ~\E reason \in {"missing", "misnamed", "duplicate"} : Die(reason)
      <3>1. UNCHANGED <<dist, target, phase, state, why>>
        BY <1>7, <2>2, Zenon DEF load_component, Go, given
      <3> QED
        BY <1>7, <1>a, <3>1, Zenon
    <2> QED
      BY <2>1, <2>2, Zenon
  <1>8. ASSUME Skip \/ NextChoice, phase \in {"select", "candidates"}, js' = js
        PROVE  SettleInvariant'
    BY <1>8, <1>a, Zenon DEF Skip, NextChoice, Go, given
  <1>9. CASE Select
    BY <1>7, <1>8, <1>9, Zenon DEF Select
  <1>10. CASE Finish
    <2>1. CASE Die("nothing")
      BY <1>d, <2>1, Zenon
    <2>2. CASE ~Die("nothing")
      BY <1>10, <1>a, <2>2, Zenon DEF Finish, Go, given
    <2> QED
      BY <2>1, <2>2, Zenon
  <1>11. CASE Candidates
    <2>1. ~target
      BY <1>11, Zenon DEF Candidates, BaseInvariant
    <2>2. CASE cursor > Len(dist.document)
      BY <1>11, <1>a, <2>1, <2>2, Zenon DEF Candidates, Go, given
    <2>3. CASE ~(cursor > Len(dist.document))
      BY <1>7, <1>8, <1>11, <2>3, Zenon DEF Candidates
    <2> QED
      BY <2>2, <2>3, Zenon
  <1>12. CASE UNCHANGED vars
    <2>1. CASE phase = "settle"
      <3>1. Settling(state, IF cursor = 1 THEN state ELSE before, Evaluated(cursor), pass)'
        BY <1>12, <2>1, SameDistribution DEF vars, SettleInvariant, Settling, Stale, Evaluated
      <3> QED
        BY <1>12, <1>k, <2>1, <3>1, Zenon DEF vars, SettleInvariant
    <2>2. CASE phase # "settle"
      BY <1>12, <1>a, <2>2, Zenon DEF vars
    <2> QED
      BY <2>1, <2>2, Zenon
  <1> QED
    BY <1>1, <1>2, <1>3, <1>4, <1>5, <1>6, <1>9, <1>10, <1>11, <1>12, Zenon DEF Next, Step

-----------------------------------------------------------------------------
LEMMA SameWanted ==
    ASSUME UNCHANGED <<dist, target, js, state>>
    PROVE  /\ Ids' = Ids /\ \A id : RefDir(id)' = RefDir(id)
           /\ \A c, id : Wanted(c, id)' = Wanted(c, id)
  <1>1. Ids' = Ids /\ \A id : RefDir(id)' = RefDir(id)
    BY Zenon DEF Ids, RefDir, Merged, RefNodes
  <1>2. \A id : RefActive(id)' = RefActive(id)
    BY Zenon DEF RefActive, Merged, RefNodes
  <1>3. \A c : Selected(c)' = Selected(c)
    BY Zenon DEF Selected
  <1>4. \A id : Active(id)' = Active(id)
    BY <1>2, Zenon DEF Active
  <1>5. \A c, id : Wanted(c, id)' = Wanted(c, id)
    BY <1>3, <1>4, Zenon DEF Wanted
  <1> QED
    BY <1>1, <1>5, Zenon

LEMMA AppendRange ==
    ASSUME NEW D, NEW s \in Seq(D), NEW d \in D
    PROVE  /\ Range(Append(s, d)) = Range(s) \cup {d}
           /\ IsInjective(s) /\ d \notin Range(s) => IsInjective(Append(s, d))
  <1> DEFINE t == Append(s, d)
  <1>1. /\ Len(s) \in Nat /\ DOMAIN s = 1..Len(s) /\ DOMAIN t = 1..(Len(s) + 1)
        /\ \A i \in 1..Len(s) : t[i] = s[i]
        /\ t[Len(s) + 1] = d
    OBVIOUS
  <1> HIDE DEF t
  <1>2. Range(t) = Range(s) \cup {d}
    <2>1. \A i \in DOMAIN s : i \in DOMAIN t
      BY <1>1
    <2>2. \A i \in DOMAIN t : i \in DOMAIN s \/ i = Len(s) + 1
      BY <1>1
    <2>3. Len(s) + 1 \in DOMAIN t
      BY <1>1
    <2> QED
      BY <1>1, <2>1, <2>2, <2>3, Zenon DEF Range
  <1>3. ASSUME IsInjective(s), d \notin Range(s), NEW i \in DOMAIN t, NEW j \in DOMAIN t,
               t[i] = t[j]
        PROVE  i = j
    <2>1. \A k \in 1..Len(s) : s[k] # d
      BY <1>1, <1>3, Zenon DEF Range
    <2> QED
      BY <1>1, <1>3, <2>1 DEF IsInjective
  <1> QED
    BY <1>2, <1>3, Zenon DEF IsInjective, t

(* The choices of a walk, and the references of each. *)
LEMMA OrderTypes ==
    ASSUME BaseInvariant, phase \in {"select", "candidates"}
    PROVE  /\ Len(Order) \in Nat /\ DOMAIN Order = 1..Len(Order)
           /\ \A i \in DOMAIN Order : Order[i] \in Ids
           /\ \A c \in Ids : \E i \in DOMAIN Order : Order[i] = c
           /\ \A c \in Ids : /\ Len(dist.packages[c]) \in Nat
                             /\ DOMAIN dist.packages[c] = 1..Len(dist.packages[c])
  <1>1. Given /\ OutlineIsSound
    BY Zenon DEF BaseInvariant
  <1>2. \A c \in Ids : /\ Len(dist.packages[c]) \in Nat
                       /\ DOMAIN dist.packages[c] = 1..Len(dist.packages[c])
    BY <1>1, GivenTypes
  <1>3. CASE phase = "candidates"
    <2>1. /\ Len(dist.document) \in Nat /\ DOMAIN dist.document = 1..Len(dist.document)
          /\ Order = dist.document
      BY <1>1, <1>3, GivenTypes DEF Order
    <2> QED
      BY <1>2, <2>1, Zenon DEF Ids, Range
  <1>4. CASE phase # "candidates"
    BY <1>1, <1>2, <1>4, OutlineTypes, Zenon DEF Order
  <1> QED
    BY <1>3, <1>4, Zenon

(* A step of a walk that loads the reference it passes, or passes none that  *)
(* is wanted.                                                              *)
LEMMA WalkStep ==
    ASSUME LoadInvariant, phase \in {"select", "candidates"},
           UNCHANGED <<dist, target, js, state, phase, why>>,
           IsInjective(loaded'), LoadedIsNamed', Range(loaded) \subseteq Range(loaded'),
           \A i \in DOMAIN Order : \A j \in DOMAIN dist.packages[Order[i]] :
              /\ i < cursor' \/ (i = cursor' /\ j < item')
              /\ ~(i < cursor \/ (i = cursor /\ j < item))
              /\ Wanted(Order[i], dist.packages[Order[i]][j])
              => RefDir(dist.packages[Order[i]][j]) \in Range(loaded')
    PROVE  LoadInvariant'
  <1>1. Order' = Order
    BY Zenon DEF Order
  <1>2. PassedIsLoaded
    BY Zenon DEF LoadInvariant
  <1>3. ASSUME NEW i \in DOMAIN Order, NEW j \in DOMAIN dist.packages[Order[i]],
               i < cursor' \/ (i = cursor' /\ j < item'),
               Wanted(Order[i], dist.packages[Order[i]][j])
        PROVE  RefDir(dist.packages[Order[i]][j]) \in Range(loaded')
    <2>1. CASE i < cursor \/ (i = cursor /\ j < item)
      BY <1>2, <1>3, <2>1, Zenon DEF PassedIsLoaded
    <2>2. CASE ~(i < cursor \/ (i = cursor /\ j < item))
      BY <1>3, <2>2, Zenon
    <2> QED
      BY <2>1, <2>2, Zenon
  <1>4. PassedIsLoaded'
    BY <1>1, <1>3, SameWanted DEF PassedIsLoaded
  <1> QED
    BY <1>4, Zenon DEF LoadInvariant, LoadedIsWanted

(* Loading a wanted reference of a choice keeps what is loaded named by a    *)
(* wanted reference, and never meets an identifier again.                  *)
LEMMA ComponentIsLoaded ==
    ASSUME BaseInvariant, LoadInvariant, phase \in {"select", "candidates"},
           NEW i \in DOMAIN Order, i = cursor, NEW j \in DOMAIN dist.packages[Order[i]], j = item,
           Wanted(Order[i], dist.packages[Order[i]][j]),
           load_component(dist.packages[Order[i]][j]), js' = js
    PROVE  LoadInvariant'
  <1> DEFINE c == Order[i]
             id == dist.packages[c][j]
             dir == RefDir(id)
  <1>t. /\ loaded \in Seq(DOMAIN Identifier) /\ IsInjective(loaded) /\ LoadedIsNamed
        /\ why # "duplicate" /\ i \in Nat /\ j \in Nat /\ c \in Ids /\ id \in Range(dist.packages[c])
    BY OrderTypes, Zenon DEF BaseInvariant, TypeOK, LoadInvariant, Range
  <1>1. ~(dir \notin Range(loaded) /\ \E d \in Range(loaded) : Identifier[d] = id)
    BY <1>t, Zenon DEF LoadedIsNamed
  <1>2. CASE Die("missing") \/ Die("misnamed")
    BY <1>t, <1>2, Zenon DEF Die, LoadInvariant, LoadedIsWanted
  <1>3. CASE ~(Die("missing") \/ Die("misnamed"))
    <2>1. /\ item' = item + 1 /\ cursor' = cursor
          /\ UNCHANGED <<dist, target, js, state, phase, why>>
          /\ \/ loaded' = loaded /\ dir \in Range(loaded)
             \/ /\ loaded' = Append(loaded, dir) /\ dir \in DOMAIN Identifier
                /\ dir \notin Range(loaded) /\ Identifier[dir] = id
      <3> HIDE DEF dir, id
      <3> USE DEF dir
      <3>1. load_component(id)
        BY Zenon DEF id
      <3> QED
        BY <1>1, <1>3, <3>1, Zenon DEF load_component, IsNamed, Go, given
    <2>2. /\ IsInjective(loaded') /\ Range(loaded) \subseteq Range(loaded')
          /\ dir \in Range(loaded')
          /\ \A d \in Range(loaded') : d \in Range(loaded) \/ (d = dir /\ Identifier[d] = id)
      <3>1. CASE loaded' = loaded
        BY <1>t, <2>1, <3>1
      <3>2. CASE loaded' # loaded
        <4> HIDE DEF dir, id
        <4>1. /\ loaded' = Append(loaded, dir) /\ dir \in DOMAIN Identifier
              /\ dir \notin Range(loaded) /\ Identifier[dir] = id
          BY <2>1, <3>2, Zenon
        <4>2. Range(loaded') = Range(loaded) \cup {dir} /\ IsInjective(loaded')
          BY <1>t, <4>1, AppendRange
        <4> QED
          BY <4>1, <4>2, Zenon
      <3> QED
        BY <3>1, <3>2, Zenon
    <2>3. LoadedIsNamed'
      <3>1. \A d \in Range(loaded') : \E a \in Ids : \E r \in Range(dist.packages[a]) :
               Wanted(a, r) /\ RefDir(r) = d /\ Identifier[d] = r
        <4> SUFFICES ASSUME NEW d \in Range(loaded')
                     PROVE  \E a \in Ids : \E r \in Range(dist.packages[a]) :
                               Wanted(a, r) /\ RefDir(r) = d /\ Identifier[d] = r
          BY Zenon
        <4>1. CASE d \in Range(loaded)
          BY <1>t, <4>1, Zenon DEF LoadedIsNamed
        <4>2. CASE d = dir /\ Identifier[d] = id
          BY <1>t, <4>2, Zenon
        <4> QED
          BY <2>2, <4>1, <4>2, Zenon
      <3> QED
        BY <2>1, <3>1, SameWanted DEF LoadedIsNamed
    <2>4. ASSUME NEW x \in DOMAIN Order, NEW y \in DOMAIN dist.packages[Order[x]],
                 x < cursor' \/ (x = cursor' /\ y < item'),
                 ~(x < cursor \/ (x = cursor /\ y < item))
          PROVE  RefDir(dist.packages[Order[x]][y]) \in Range(loaded')
      <3>1. x \in Nat /\ y \in Nat
        BY OrderTypes
      <3>2. x = i /\ y = j
        BY <1>t, <2>1, <2>4, <3>1
      <3> QED
        BY <2>2, <3>2, Zenon
    <2> QED
      BY <2>1, <2>2, <2>3, <2>4, WalkStep, Zenon
  <1> QED
    BY <1>2, <1>3, Zenon

LEMMA LoadStep ==
    ASSUME BaseInvariant, LoadInvariant, [Next]_vars
    PROVE  LoadInvariant'
  <1>t. cursor \in Nat \ {0} /\ item \in Nat \ {0} /\ IsInjective(loaded) /\ why # "duplicate"
    BY Zenon DEF BaseInvariant, TypeOK, LoadInvariant
  <1>a. ASSUME phase' \notin {"select", "candidates", "done"}, loaded' = loaded,
               phase' = "dead" \/ loaded = <<>>, why' # "duplicate"
        PROVE  LoadInvariant'
    <2>1. loaded = <<>> => LoadedIsNamed'
      <3>1. loaded = <<>> => DOMAIN loaded' = {}
        BY <1>a
      <3> QED
        BY <3>1, Zenon DEF LoadedIsNamed, Range
    <2> QED
      BY <1>a, <1>t, <2>1, Zenon DEF LoadInvariant, LoadedIsWanted
  <1>d. ASSUME NEW reason, Die(reason), reason # "duplicate"
        PROVE  LoadInvariant'
    BY <1>a, <1>d, Zenon DEF Die
  <1>b. ASSUME loaded = <<>>, cursor' = 1, item' = 1, UNCHANGED <<dist, loaded, why>>,
               phase' \in {"select", "candidates"}, Given, OutlineIsSound
        PROVE  LoadInvariant'
    <2>1. /\ Order' \in {dist.outline, dist.document}
          /\ DOMAIN Order' \subseteq Nat \ {0}
          /\ \A c \in Ids : DOMAIN dist.packages[c] \subseteq Nat \ {0}
          /\ \A i \in DOMAIN Order' : Order'[i] \in Ids
      <3>1. Order' \in {dist.outline, dist.document}
        BY <1>b, Zenon DEF Order
      <3>2. /\ DOMAIN dist.document = 1..Len(dist.document) /\ Len(dist.document) \in Nat
            /\ \A c \in Ids : /\ Len(dist.packages[c]) \in Nat
                              /\ DOMAIN dist.packages[c] = 1..Len(dist.packages[c])
        BY <1>b, GivenTypes
      <3>3. \A i \in DOMAIN dist.document : dist.document[i] \in Ids
        BY Zenon DEF Ids, Range
      <3> QED
        BY <1>b, <3>1, <3>2, <3>3, OutlineTypes
    <2>2. \A i \in DOMAIN Order' : \A j \in DOMAIN dist'.packages[Order'[i]] : ~(i < 1) /\ ~(j < 1)
      BY <1>b, <2>1
    <2>3. PassedIsLoaded'
      BY <1>b, <2>2, Zenon DEF PassedIsLoaded
    <2> QED
      BY <1>b, <1>t, <2>3 DEF LoadInvariant, LoadedIsWanted, LoadedIsNamed, Range
  <1>1. CASE Load
    <2>1. CASE Die("malformed")
      BY <1>d, <2>1, Zenon
    <2>2. CASE ~Die("malformed")
      <3>1. /\ phase = "load" /\ OutlineIsSound
            /\ phase' \in {"select", "initialize", "candidates"}
            /\ UNCHANGED <<dist, cursor, item, loaded, why>>
        BY <1>1, <2>2, Zenon DEF Load, Go, given
      <3>2. Given /\ cursor = 1 /\ item = 1 /\ loaded = <<>>
        BY <3>1, Zenon DEF BaseInvariant
      <3>3. CASE phase' \in {"select", "candidates"}
        BY <1>b, <3>1, <3>2, <3>3, Zenon
      <3>4. CASE phase' = "initialize"
        BY <1>a, <1>t, <3>1, <3>2, <3>4, Zenon
      <3> QED
        BY <3>1, <3>3, <3>4, Zenon
    <2> QED
      BY <2>1, <2>2, Zenon
  <1>2. CASE Initialize \/ Script \/ BeginPass \/ Evaluate
    <2>1. /\ phase \in {"initialize", "script", "settle"}
          /\ phase' \in {"script", "check", "settle"} /\ loaded' = loaded /\ why' = why
      BY <1>2, Zenon DEF Initialize, Script, BeginPass, Evaluate, Go
    <2>2. loaded = <<>>
      BY <2>1, Zenon DEF BaseInvariant
    <2> QED
      BY <1>a, <1>t, <2>1, <2>2, Zenon
  <1>3. CASE Check
    <2>1. CASE Die("check")
      BY <1>d, <2>1, Zenon
    <2>2. CASE ~Die("check")
      <3>1. phase = "check" /\ phase' = "settle" /\ loaded' = loaded /\ why' = why
        BY <1>3, <2>2, Zenon DEF Check, Go
      <3> QED
        BY <1>a, <1>t, <3>1, Zenon DEF BaseInvariant
    <2> QED
      BY <2>1, <2>2, Zenon
  <1>4. CASE EndPass
    <2>1. CASE Die("unstable")
      BY <1>d, <2>1, Zenon
    <2>2. CASE ~Die("unstable")
      <3>1. /\ phase = "settle" /\ phase' \in {"select", "settle"} /\ cursor' = 1
            /\ UNCHANGED <<dist, item, loaded, why>>
        BY <1>4, <2>2, Zenon DEF EndPass, Go, given
      <3>2. Given /\ OutlineIsSound /\ item = 1 /\ loaded = <<>>
        BY <3>1, Zenon DEF BaseInvariant
      <3>3. CASE phase' = "select"
        BY <1>b, <3>1, <3>2, <3>3, Zenon
      <3>4. CASE phase' = "settle"
        BY <1>a, <1>t, <3>1, <3>2, <3>4, Zenon
      <3> QED
        BY <3>1, <3>3, <3>4, Zenon
    <2> QED
      BY <2>1, <2>2, Zenon
  <1>5. CASE TimeLimit
    BY <1>5, <1>d, Zenon DEF TimeLimit
  <1>6. ASSUME phase \in {"select", "candidates"}, NextChoice, js' = js, cursor \in DOMAIN Order,
               \A j \in DOMAIN dist.packages[Order[cursor]] :
                  j >= item => ~Wanted(Order[cursor], dist.packages[Order[cursor]][j])
        PROVE  LoadInvariant'
    <2>1. /\ cursor' = cursor + 1 /\ item' = 1
          /\ UNCHANGED <<dist, target, js, state, phase, why, loaded>>
      BY <1>6, Zenon DEF NextChoice, Go, given
    <2>2. ASSUME NEW x \in DOMAIN Order, NEW y \in DOMAIN dist.packages[Order[x]],
                 x < cursor' \/ (x = cursor' /\ y < item'),
                 ~(x < cursor \/ (x = cursor /\ y < item))
          PROVE  ~Wanted(Order[x], dist.packages[Order[x]][y])
      <3>1. x \in Nat /\ y \in Nat \ {0}
        BY <1>6, OrderTypes
      <3>2. x = cursor /\ y >= item
        BY <1>t, <2>1, <2>2, <3>1
      <3> QED
        BY <1>6, <3>2, Zenon
    <2>3. LoadedIsNamed' /\ IsInjective(loaded')
      BY <1>6, <1>t, <2>1, SameWanted, Zenon DEF LoadInvariant, LoadedIsNamed
    <2> QED
      BY <1>6, <2>1, <2>2, <2>3, WalkStep, Zenon
  <1>7. ASSUME phase = "select", Skip, js' = js, cursor \in DOMAIN Order,
               item \in DOMAIN dist.packages[Order[cursor]],
               ~Wanted(Order[cursor], dist.packages[Order[cursor]][item])
        PROVE  LoadInvariant'
    <2>1. /\ cursor' = cursor /\ item' = item + 1
          /\ UNCHANGED <<dist, target, js, state, phase, why, loaded>>
      BY <1>7, Zenon DEF Skip, Go, given
    <2>2. ASSUME NEW x \in DOMAIN Order, NEW y \in DOMAIN dist.packages[Order[x]],
                 x < cursor' \/ (x = cursor' /\ y < item'),
                 ~(x < cursor \/ (x = cursor /\ y < item))
          PROVE  ~Wanted(Order[x], dist.packages[Order[x]][y])
      <3>1. x \in Nat /\ y \in Nat
        BY <1>7, OrderTypes
      <3>2. x = cursor /\ y = item
        BY <1>t, <2>1, <2>2, <3>1
      <3> QED
        BY <1>7, <3>2, Zenon
    <2>3. LoadedIsNamed' /\ IsInjective(loaded')
      BY <1>7, <1>t, <2>1, SameWanted, Zenon DEF LoadInvariant, LoadedIsNamed
    <2> QED
      BY <1>7, <2>1, <2>2, <2>3, WalkStep, Zenon
  <1>8. CASE Select
    <2> DEFINE c == dist.outline[cursor]
    <2>1. /\ phase = "select" /\ cursor <= Len(dist.outline) /\ js' = js /\ (target \/ ~js)
          /\ Order = dist.outline
      BY <1>8, Zenon DEF Select, BaseInvariant, TypeOK, Order
    <2>2. /\ cursor \in DOMAIN Order /\ c \in Ids /\ Len(dist.packages[c]) \in Nat
          /\ DOMAIN dist.packages[c] = 1..Len(dist.packages[c])
      BY <1>t, <2>1, OrderTypes
    <2>3. \A id : Wanted(c, id) <=> Selected(c) /\ Active(id)
      BY <2>1, Zenon DEF Wanted
    <2>4. CASE Selected(c) /\ item <= Len(dist.packages[c])
      <3>1. item \in DOMAIN dist.packages[c]
        BY <1>t, <2>2, <2>4
      <3>2. CASE Active(dist.packages[c][item])
        <4>1. load_component(dist.packages[c][item])
          BY <1>8, <2>4, <3>2, Zenon DEF Select
        <4> QED
          BY <2>1, <2>2, <2>3, <2>4, <3>1, <3>2, <4>1, ComponentIsLoaded, Zenon
      <3>3. CASE ~Active(dist.packages[c][item])
        <4>1. Skip
          BY <1>8, <2>4, <3>3, Zenon DEF Select
        <4> QED
          BY <1>7, <2>1, <2>2, <2>3, <3>1, <3>3, <4>1, Zenon
      <3> QED
        BY <3>2, <3>3, Zenon
    <2>5. CASE ~(Selected(c) /\ item <= Len(dist.packages[c]))
      <3>1. NextChoice
        BY <1>8, <2>5, Zenon DEF Select
      <3>2. \A j \in DOMAIN dist.packages[c] : j >= item => ~Wanted(c, dist.packages[c][j])
        BY <1>t, <2>2, <2>3, <2>5
      <3> QED
        BY <1>6, <2>1, <2>2, <3>1, <3>2, Zenon
    <2> QED
      BY <2>4, <2>5, Zenon
  <1>9. ASSUME phase \in {"select", "candidates"}, Go("done"), cursor > Len(Order),
               UNCHANGED <<js, state, loaded>>
        PROVE  LoadInvariant'
    <2>1. UNCHANGED <<dist, target, js, state, loaded, why>> /\ phase' = "done"
      BY <1>9, Zenon DEF Go, given
    <2>2. ASSUME NEW c \in Ids, NEW id \in Range(dist.packages[c]), Wanted(c, id)
          PROVE  RefDir(id) \in Range(loaded)
      <3>1. PICK i \in DOMAIN Order : Order[i] = c /\ i < cursor
        BY <1>9, <1>t, OrderTypes
      <3>2. PICK j \in DOMAIN dist.packages[c] : dist.packages[c][j] = id
        BY Zenon DEF Range
      <3> QED
        BY <1>9, <2>2, <3>1, <3>2, Zenon DEF LoadInvariant, PassedIsLoaded
    <2>3. LoadedIsNamed
      BY <1>9, Zenon DEF LoadInvariant
    <2>4. LoadedIsNamed'
      BY <2>1, <2>3, SameWanted, Zenon DEF LoadedIsNamed
    <2>5. LoadedIsWanted'
      BY <1>t, <2>1, <2>2, <2>3, SameWanted DEF LoadedIsWanted, LoadedIsNamed
    <2> QED
      BY <1>t, <2>1, <2>4, <2>5, Zenon DEF LoadInvariant
  <1>10. CASE Finish
    <2>1. CASE Die("nothing")
      BY <1>d, <2>1, Zenon
    <2>2. CASE ~Die("nothing")
      BY <1>9, <1>10, <2>2, Zenon DEF Finish, Order
    <2> QED
      BY <2>1, <2>2, Zenon
  <1>11. CASE Candidates
    <2> DEFINE c == dist.document[cursor]
    <2>1. /\ phase = "candidates" /\ js' = js /\ Order = dist.document /\ js /\ ~target
      BY <1>11, Zenon DEF Candidates, BaseInvariant, Order
    <2>2. CASE cursor > Len(dist.document)
      BY <1>9, <1>11, <2>1, <2>2, Zenon DEF Candidates
    <2>3. CASE ~(cursor > Len(dist.document))
      <3>1. /\ cursor \in DOMAIN Order /\ c \in Ids /\ Len(dist.packages[c]) \in Nat
            /\ DOMAIN dist.packages[c] = 1..Len(dist.packages[c])
        BY <1>t, <2>1, <2>3, OrderTypes
      <3>2. \A id : Wanted(c, id)
        BY <2>1, Zenon DEF Wanted
      <3>3. CASE item <= Len(dist.packages[c])
        <4>1. item \in DOMAIN dist.packages[c] /\ load_component(dist.packages[c][item])
          BY <1>11, <1>t, <2>3, <3>1, <3>3 DEF Candidates
        <4> QED
          BY <2>1, <3>1, <3>2, <4>1, ComponentIsLoaded, Zenon
      <3>4. CASE ~(item <= Len(dist.packages[c]))
        <4>1. NextChoice
          BY <1>11, <2>3, <3>4, Zenon DEF Candidates
        <4>2. \A j \in DOMAIN dist.packages[c] : ~(j >= item)
          BY <1>t, <3>1, <3>4
        <4> QED
          BY <1>6, <2>1, <3>1, <4>1, <4>2, Zenon
      <3> QED
        BY <3>3, <3>4, Zenon
    <2> QED
      BY <2>2, <2>3, Zenon
  <1>12. CASE UNCHANGED vars
    <2>1. UNCHANGED <<dist, target, js, state, phase, cursor, item, loaded, why>>
      BY <1>12, Zenon DEF vars
    <2>2. Order' = Order
      BY <2>1, Zenon DEF Order
    <2> QED
      BY <2>1, <2>2, SameWanted DEF LoadInvariant, PassedIsLoaded, LoadedIsNamed, LoadedIsWanted
  <1> QED
    BY <1>1, <1>2, <1>3, <1>4, <1>5, <1>8, <1>10, <1>11, <1>12, Zenon DEF Next, Step

-----------------------------------------------------------------------------
(* Versions as numbers *)

(* Every set of natural numbers that is not empty has a smallest one. *)
LEMMA Smallest ==
    ASSUME NEW T, T \subseteq Nat, T # {}
    PROVE  \E x \in T : \A y \in T : x <= y
  <1> DEFINE R == {r \in Nat \X Nat : r[1] < r[2]}
  <1>1. IsWellFoundedOn(R, Nat)
    BY NatLessThanWellFounded DEF OpToRel
  <1>2. PICK x \in T : \A y \in T : ~(<<y, x>> \in R)
    <2> HIDE DEF R
    <2> QED
      BY <1>1, WFMin
  <1>3. ASSUME NEW y \in T
        PROVE  x <= y
    <2>1. x \in Nat /\ y \in Nat /\ ~(y < x)
      BY <1>2
    <2> QED
      BY <2>1
  <1> QED
    BY <1>3

(* Induction up to n, over a set. *)
LEMMA UpTo ==
    ASSUME NEW n \in Nat, NEW S, 0 \in S,
           \A i \in 0..(n - 1) : i \in S => i + 1 \in S
    PROVE  \A i \in 0..n : i \in S
  <1> DEFINE T == (0..n) \ S
  <1>1. SUFFICES ASSUME T # {}
                 PROVE  FALSE
    OBVIOUS
  <1>2. PICK x \in T : \A y \in T : x <= y
    <2>1. T \subseteq Nat
      OBVIOUS
    <2> HIDE DEF T
    <2> QED
      BY <1>1, <2>1, Smallest
  <1>3. x \in 1..n /\ x - 1 \in 0..(n - 1) /\ x - 1 \in 0..n /\ x - 1 + 1 = x /\ ~(x <= x - 1)
    OBVIOUS
  <1>4. x - 1 \in S
    BY <1>2, <1>3
  <1> QED
    BY <1>3, <1>4

(* The recursion of Numbers has a solution, which is its value. *)
LEMMA NumbersAre ==
    ASSUME NEW d \in Seq(0..9)
    PROVE  /\ Numbers(d) \in [0..Len(d) -> Nat]
           /\ Numbers(d)[0] = 0
           /\ \A i \in 0..(Len(d) - 1) : Numbers(d)[i + 1] = 10 * Numbers(d)[i] + d[i + 1]
  <1> DEFINE n == Len(d)
             Body(f) == [i \in 0..n |-> IF i = 0 THEN 0 ELSE 10 * f[i - 1] + d[i]]
             Sums(f, m) == f[0] = 0 /\ \A i \in 1..m : f[i] = 10 * f[i - 1] + d[i]
             S == {m \in 0..n : \E f \in [0..m -> Nat] : Sums(f, m)}
  <1>1. n \in Nat /\ \A i \in 1..n : d[i] \in Nat
    OBVIOUS
  <1>2. 0 \in S
    <2>1. [i \in 0..0 |-> 0] \in [0..0 -> Nat] /\ Sums([i \in 0..0 |-> 0], 0)
      OBVIOUS
    <2>2. 0 \in 0..n
      BY <1>1
    <2> QED
      BY <2>1, <2>2, Zenon
  <1>3. ASSUME NEW m \in 0..(n - 1), m \in S
        PROVE  m + 1 \in S
    <2>1. PICK f \in [0..m -> Nat] : Sums(f, m)
      BY <1>3
    <2> DEFINE g == [i \in 0..(m + 1) |-> IF i = m + 1 THEN 10 * f[m] + d[m + 1] ELSE f[i]]
    <2>2. g \in [0..(m + 1) -> Nat]
      BY <1>1
    <2>3. Sums(g, m + 1)
      <3>1. g[0] = 0
        BY <2>1
      <3>2. ASSUME NEW i \in 1..(m + 1)
            PROVE  g[i] = 10 * g[i - 1] + d[i]
        <4>1. CASE i = m + 1
          <5>1. g[i] = 10 * f[m] + d[i] /\ i - 1 = m /\ m # m + 1 /\ m \in 0..(m + 1)
            BY <4>1
          <5>2. g[i - 1] = f[m]
            BY <5>1
          <5> QED
            BY <5>1, <5>2
        <4>2. CASE i # m + 1
          <5>1. i \in 1..m /\ i - 1 \in 0..m /\ i - 1 # m + 1 /\ i - 1 \in 0..(m + 1)
            BY <4>2
          <5>2. g[i] = f[i] /\ g[i - 1] = f[i - 1]
            BY <5>1, <4>2
          <5> QED
            BY <5>1, <5>2, <2>1
        <4> QED
          BY <4>1, <4>2
      <3> QED
        BY <3>1, <3>2
    <2>4. m + 1 \in 0..n
      BY <1>1
    <2> QED
      BY <2>2, <2>3, <2>4, Zenon
  <1>4. n \in S
    <2>1. n \in 0..n
      BY <1>1
    <2> HIDE DEF S, n
    <2>2. \A i \in 0..n : i \in S
      BY <1>1, <1>2, <1>3, UpTo
    <2> QED
      BY <2>1, <2>2
  <1>5. PICK f \in [0..n -> Nat] : Sums(f, n)
    BY <1>4
  <1>6. f = Body(f)
    BY <1>5, <1>1
  <1>7. Numbers(d) = Body(Numbers(d))
    <2>1. \E h : h = Body(h)
      BY <1>6
    <2> QED
      BY <2>1, Zenon DEF Numbers
  <1> DEFINE u == Numbers(d)
             N == {i \in 0..n : u[i] \in Nat}
  <1>8. DOMAIN u = 0..n /\ \A i \in 0..n : u[i] = IF i = 0 THEN 0 ELSE 10 * u[i - 1] + d[i]
    <2> HIDE DEF u
    <2>1. u = Body(u)
      BY <1>7 DEF u
    <2> QED
      BY <2>1
  <1>9. \A i \in 0..n : i \in N
    <2>1. 0 \in N
      BY <1>8, <1>1
    <2>2. ASSUME NEW i \in 0..(n - 1), i \in N
          PROVE  i + 1 \in N
      BY <2>2, <1>8, <1>1
    <2> HIDE DEF N, n
    <2> QED
      BY <1>1, <2>1, <2>2, UpTo
  <1>10. \A i \in 0..n : u[i] \in Nat
    BY <1>9, Zenon
  <1>11. u \in [0..n -> Nat]
    <2> HIDE DEF u
    <2> QED
      BY <1>7, <1>10 DEF u
  <1>12. u[0] = 0 /\ \A i \in 0..(n - 1) : u[i + 1] = 10 * u[i] + d[i + 1]
    <2> HIDE DEF u
    <2>1. \A i \in 0..(n - 1) : i + 1 \in 0..n /\ i + 1 # 0 /\ i + 1 - 1 = i
      BY <1>1
    <2> QED
      BY <1>8, <1>1, <2>1
  <1> QED
    BY <1>11, <1>12, Zenon

(* A component with no zero in front, and what was dropped. *)
LEMMA LeadingIs ==
    ASSUME NEW d \in Seq(0..9)
    PROVE  /\ Leading(d) \in 0..Len(d)
           /\ \A j \in 1..Leading(d) : d[j] = 0
           /\ Leading(d) < Len(d) => d[Leading(d) + 1] > 0
           /\ Len(Significant(d)) = Len(d) - Leading(d)
           /\ \A i \in 1..(Len(d) - Leading(d)) : Significant(d)[i] = d[Leading(d) + i]
           /\ Numbers(d)[Leading(d)] = 0
  <1> DEFINE n == Len(d)
             z == Leading(d)
             u == Numbers(d)
  <1>1. n \in Nat /\ \A i \in 1..n : d[i] \in 0..9
    OBVIOUS
  <1>2. \E i \in Zeros(d) : i + 1 \notin Zeros(d)
    <2> SUFFICES ASSUME \A i \in Zeros(d) : i + 1 \in Zeros(d)
                 PROVE  FALSE
      OBVIOUS
    <2>1. 0 \in Zeros(d) /\ n + 1 \in Nat /\ n + 1 \in 0..(n + 1) /\ n + 1 \notin 0..n
      BY <1>1 DEF Zeros
    <2>2. \A i \in 0..(n + 1) : i \in Zeros(d)
      BY <2>1, UpTo
    <2> QED
      BY <2>1, <2>2 DEF Zeros
  <1>3. z \in Zeros(d) /\ z + 1 \notin Zeros(d)
    BY <1>2, Zenon DEF Leading
  <1>4. z \in 0..n /\ \A j \in 1..z : d[j] = 0
    BY <1>3 DEF Zeros
  <1>5. ASSUME z < n
        PROVE  d[z + 1] > 0
    <2>1. z + 1 \in 0..n /\ z + 1 \in 1..n
      BY <1>1, <1>4, <1>5
    <2>2. PICK j \in 1..(z + 1) : d[j] # 0
      BY <1>3, <2>1 DEF Zeros
    <2>3. j = z + 1
      BY <1>1, <1>4, <2>2
    <2> QED
      BY <1>1, <2>1, <2>2, <2>3
  <1>6. Len(Significant(d)) = n - z /\ \A i \in 1..(n - z) : Significant(d)[i] = d[z + i]
    <2> HIDE DEF z
    <2>1. Significant(d) = SubSeq(d, z + 1, n)
      BY DEF Significant, z
    <2>2. z + 1 \in 1..(n + 1) /\ n \in 0..n
      BY <1>1, <1>4
    <2> QED
      BY <1>1, <1>4, <2>1, <2>2
  <1>7. u[z] = 0
    <2> DEFINE S == {i \in 0..z : u[i] = 0}
    <2>1. z \in Nat /\ u[0] = 0 /\ \A i \in 0..(n - 1) : u[i + 1] = 10 * u[i] + d[i + 1]
      BY <1>1, <1>4, NumbersAre
    <2>2. 0 \in S
      BY <2>1
    <2>3. ASSUME NEW i \in 0..(z - 1), i \in S
          PROVE  i + 1 \in S
      <3>1. i + 1 \in 1..z /\ i \in 0..(n - 1) /\ i + 1 \in 0..z
        BY <1>1, <1>4
      <3>2. u[i] = 0 /\ d[i + 1] = 0 /\ u[i + 1] = 10 * u[i] + d[i + 1]
        BY <1>4, <2>1, <2>3, <3>1
      <3> QED
        BY <3>1, <3>2
    <2>4. \A i \in 0..z : i \in S
      <3> HIDE DEF S, z
      <3> QED
        BY <2>1, <2>2, <2>3, UpTo
    <2> QED
      BY <2>1, <2>4
  <1> QED
    BY <1>4, <1>5, <1>6, <1>7, Zenon

(* A holds the numbers of the beginnings of the n digits x. *)
IsDigits(x, n) == \A i \in 1..n : x[i] \in 0..9
IsNumbers(A, x, n) ==
    /\ A \in [0..n -> Nat]
    /\ A[0] = 0
    /\ \A i \in 0..(n - 1) : A[i + 1] = 10 * A[i] + x[i + 1]

(* The number of a component is that of its significant digits. *)
LEMMA SignificantIs ==
    ASSUME NEW d \in Seq(0..9)
    PROVE  LET x == Significant(d)
               n == Len(x)
           IN  /\ n \in Nat /\ DOMAIN x = 1..n /\ IsDigits(x, n)
               /\ n > 0 => x[1] > 0
               /\ \E A : IsNumbers(A, x, n) /\ A[n] = Number(d)
  <1> DEFINE x == Significant(d)
             n == Len(x)
             z == Leading(d)
             u == Numbers(d)
             A == [i \in 0..n |-> u[z + i]]
  <1>1. Len(d) \in Nat /\ \A i \in 1..Len(d) : d[i] \in 0..9
    OBVIOUS
  <1>2. /\ z \in 0..Len(d) /\ n = Len(d) - z /\ u[z] = 0
        /\ z < Len(d) => d[z + 1] > 0
        /\ \A i \in 1..n : x[i] = d[z + i]
    BY LeadingIs
  <1>3. /\ u \in [0..Len(d) -> Nat]
        /\ \A i \in 0..(Len(d) - 1) : u[i + 1] = 10 * u[i] + d[i + 1]
    BY NumbersAre, Zenon
  <1>4. DOMAIN x = 1..n
    <2>1. z + 1 \in 1..(Len(d) + 1)
      BY <1>1, <1>2
    <2>2. x \in Seq(0..9)
      <3> HIDE DEF z
      <3> QED
        BY <2>1 DEF Significant, z
    <2> HIDE DEF x
    <2> QED
      BY <2>2
  <1> HIDE DEF x, z, u
  <1>5. n \in Nat /\ \A i \in 0..n : z + i \in 0..Len(d)
    BY <1>1, <1>2
  <1>6. \A i \in 1..n : z + i \in 1..Len(d)
    BY <1>1, <1>2
  <1> HIDE DEF n
  <1>7. A \in [0..n -> Nat] /\ A[0] = 0 /\ A[n] = Number(d)
    <2>1. 0 \in 0..n /\ n \in 0..n /\ z + 0 = z /\ z + n = Len(d)
      BY <1>1, <1>2, <1>5
    <2>2. A \in [0..n -> Nat]
      BY <1>3, <1>5
    <2> QED
      BY <1>2, <2>1, <2>2 DEF Number, u
  <1>8. IsDigits(x, n)
    BY <1>1, <1>2, <1>6, Zenon DEF IsDigits
  <1>9. ASSUME NEW i \in 0..(n - 1)
        PROVE  A[i + 1] = 10 * A[i] + x[i + 1]
    <2>1. i \in 0..n /\ i + 1 \in 0..n /\ i + 1 \in 1..n
      BY <1>5
    <2>2. /\ z + (i + 1) \in 1..Len(d) /\ z + i \in 0..(Len(d) - 1)
          /\ z + (i + 1) = (z + i) + 1
      BY <1>1, <1>2, <2>1 DEF n
    <2>3. A[i + 1] = u[z + (i + 1)] /\ A[i] = u[z + i]
      BY <2>1, Zenon
    <2> HIDE DEF A
    <2>4. u[(z + i) + 1] = 10 * u[z + i] + d[(z + i) + 1]
      BY <1>3, <2>2, Zenon
    <2>5. x[i + 1] = d[z + (i + 1)]
      BY <1>2, <2>1, Zenon
    <2> QED
      BY <2>2, <2>3, <2>4, <2>5, Zenon
  <1>10. ASSUME n > 0
        PROVE  x[1] > 0
    <2>1. z < Len(d) /\ 1 \in 1..n
      BY <1>1, <1>2, <1>5, <1>10
    <2> QED
      BY <1>2, <2>1
  <1> HIDE DEF A
  <1>11. IsNumbers(A, x, n)
    BY <1>7, <1>9, Zenon DEF IsNumbers
  <1> QED
    BY <1>4, <1>5, <1>7, <1>8, <1>10, <1>11, Zenon DEF n, x

(* One digit more. *)
LEMMA NextMore ==
    ASSUME NEW p \in Nat, NEW q \in Nat, NEW a \in 0..9, NEW b \in 0..9, p < q
    PROVE  10 * p + a < 10 * q + b
  OBVIOUS

LEMMA NextDiffers ==
    ASSUME NEW p \in Nat, NEW a \in 0..9, NEW b \in 0..9
    PROVE  \/ a = b
           \/ a # b /\ a < b /\ 10 * p + a < 10 * p + b
           \/ a # b /\ b < a /\ 10 * p + b < 10 * p + a
  OBVIOUS

LEMMA NotBoth ==
    ASSUME NEW a \in 0..9, NEW b \in 0..9, b < a
    PROVE  a # b /\ ~(a < b)
  OBVIOUS

LEMMA NextPositive ==
    ASSUME NEW q \in Nat, NEW b \in 0..9, q > 0 \/ b > 0
    PROVE  10 * q + b > 0
  OBVIOUS

(* A number, its next digit, and its next number. *)
LEMMA NextNumber ==
    ASSUME NEW n \in Nat, NEW x, IsDigits(x, n), NEW A, IsNumbers(A, x, n), NEW i \in 0..(n - 1)
    PROVE  A[i] \in Nat /\ x[i + 1] \in 0..9 /\ A[i + 1] = 10 * A[i] + x[i + 1]
  <1>1. i + 1 \in 1..n /\ i \in 0..n
    OBVIOUS
  <1> QED
    BY <1>1, Zenon DEF IsDigits, IsNumbers

(* With a first digit that is not zero, a number is not zero. *)
LEMMA PositiveNumbers ==
    ASSUME NEW m \in Nat \ {0}, NEW y, IsDigits(y, m), y[1] > 0, NEW B, IsNumbers(B, y, m)
    PROVE  \A i \in 0..(m - 1) : B[i + 1] > 0
  <1> DEFINE P == {i \in 0..(m - 1) : B[i + 1] > 0}
  <1>1. 0 \in P
    <2>1. 0 \in 0..(m - 1) /\ 0 + 1 = 1
      OBVIOUS
    <2>2. B[0] \in Nat /\ y[0 + 1] \in 0..9 /\ B[0 + 1] = 10 * B[0] + y[0 + 1]
      BY <2>1, NextNumber
    <2>3. B[0 + 1] > 0
      BY <2>1, <2>2, NextPositive, Zenon
    <2> QED
      BY <2>1, <2>3, Zenon
  <1>2. ASSUME NEW i \in 0..(m - 1 - 1), i \in P
        PROVE  i + 1 \in P
    <2>1. i + 1 \in 0..(m - 1) /\ i \in 0..(m - 1)
      OBVIOUS
    <2>2. B[i + 1] \in Nat /\ y[i + 1 + 1] \in 0..9 /\ B[i + 1 + 1] = 10 * B[i + 1] + y[i + 1 + 1]
      BY <2>1, NextNumber
    <2>3. B[i + 1 + 1] > 0
      BY <1>2, <2>2, NextPositive, Zenon
    <2> QED
      BY <2>1, <2>3, Zenon
  <1>3. \A i \in 0..(m - 1) : i \in P
    <2>1. m - 1 \in Nat
      OBVIOUS
    <2> HIDE DEF P
    <2> QED
      BY <1>1, <1>2, <2>1, UpTo
  <1> QED
    BY <1>3, Zenon

(* More significant digits make a larger number. *)
LEMMA LongerIsMore ==
    ASSUME NEW n \in Nat, NEW m \in Nat, n < m,
           NEW x, IsDigits(x, n), NEW y, IsDigits(y, m), y[1] > 0,
           NEW A, IsNumbers(A, x, n), NEW B, IsNumbers(B, y, m)
    PROVE  A[n] < B[m]
  <1> DEFINE k == m - n
             S == {i \in 0..n : A[i] < B[i + k]}
  <1>1. k \in Nat /\ k - 1 \in 0..(m - 1) /\ k - 1 + 1 = 0 + k /\ n + k = m
    OBVIOUS
  <1>2. \A i \in 0..(n - 1) : i + k \in 0..(m - 1) /\ i + k + 1 = i + 1 + k
    OBVIOUS
  <1> HIDE DEF k
  <1>3. 0 \in S
    <2>1. A[0] = 0
      BY Zenon DEF IsNumbers
    <2>2. m \in Nat \ {0}
      OBVIOUS
    <2>3. B[k - 1 + 1] > 0
      BY <1>1, <2>2, PositiveNumbers
    <2>4. A[0] < B[0 + k]
      BY <1>1, <2>1, <2>3
    <2>5. 0 \in 0..n
      OBVIOUS
    <2> QED
      BY <2>4, <2>5, Zenon
  <1>4. ASSUME NEW i \in 0..(n - 1), i \in S
        PROVE  i + 1 \in S
    <2>1. i + 1 \in 0..n
      OBVIOUS
    <2>2. A[i] \in Nat /\ x[i + 1] \in 0..9 /\ A[i + 1] = 10 * A[i] + x[i + 1]
      BY NextNumber, ZenonT(30)
    <2>3. /\ B[i + k] \in Nat /\ y[i + k + 1] \in 0..9
          /\ B[i + k + 1] = 10 * B[i + k] + y[i + k + 1]
      BY <1>2, NextNumber, ZenonT(30)
    <2>4. A[i + 1] < B[i + k + 1]
      BY <1>4, <2>2, <2>3, NextMore, Zenon
    <2> QED
      BY <1>2, <2>1, <2>4, Zenon
  <1>5. \A i \in 0..n : i \in S
    <2> HIDE DEF S
    <2> QED
      BY <1>3, <1>4, UpTo
  <1>6. n \in 0..n
    OBVIOUS
  <1> QED
    BY <1>1, <1>5, <1>6, Zenon

Differ(x, y, i) == x[i] # y[i] /\ \A j \in 1..(i - 1) : x[j] = y[j]

(* Of as many significant digits, the first difference decides. *)
LEMMA FirstDecides ==
    ASSUME NEW n \in Nat,
           NEW x, IsDigits(x, n), NEW y, IsDigits(y, n),
           NEW A, IsNumbers(A, x, n), NEW B, IsNumbers(B, y, n)
    PROVE  \/ A[n] = B[n] /\ \A i \in 1..n : x[i] = y[i]
           \/ A[n] < B[n] /\ \E i \in 1..n : Differ(x, y, i) /\ x[i] < y[i]
           \/ B[n] < A[n] /\ \E i \in 1..n : Differ(x, y, i) /\ y[i] < x[i]
  <1> DEFINE Equal(m) == A[m] = B[m] /\ \A i \in 1..m : x[i] = y[i]
             Less(m) == A[m] < B[m] /\ \E i \in 1..m : Differ(x, y, i) /\ x[i] < y[i]
             More(m) == B[m] < A[m] /\ \E i \in 1..m : Differ(x, y, i) /\ y[i] < x[i]
             S == {m \in 0..n : Equal(m) \/ Less(m) \/ More(m)}
  <1>1. 0 \in S
    <2>1. 0 \in 0..n /\ \A i \in 1..0 : x[i] = y[i]
      OBVIOUS
    <2>2. A[0] = B[0]
      BY Zenon DEF IsNumbers
    <2> QED
      BY <2>1, <2>2, Zenon
  <1>2. ASSUME NEW m \in 0..(n - 1), m \in S
        PROVE  m + 1 \in S
    <2>1. m + 1 \in 0..n /\ m + 1 \in 1..(m + 1)
      OBVIOUS
    <2>2. \A i \in 1..m : i \in 1..(m + 1)
      OBVIOUS
    <2>3. \A i \in 1..(m + 1 - 1) : i \in 1..m
      OBVIOUS
    <2>4. \A i \in 1..(m + 1) : i \in 1..m \/ i = m + 1
      OBVIOUS
    <2>5. /\ A[m] \in Nat /\ x[m + 1] \in 0..9 /\ A[m + 1] = 10 * A[m] + x[m + 1]
          /\ B[m] \in Nat /\ y[m + 1] \in 0..9 /\ B[m + 1] = 10 * B[m] + y[m + 1]
      BY NextNumber, Zenon
    <2>6. CASE Less(m)
      <3>1. A[m + 1] < B[m + 1]
        BY <2>5, <2>6, NextMore, Zenon
      <3> QED
        BY <2>1, <2>2, <2>6, <3>1, Zenon
    <2>7. CASE More(m)
      <3>1. B[m + 1] < A[m + 1]
        BY <2>5, <2>7, NextMore, Zenon
      <3> QED
        BY <2>1, <2>2, <2>7, <3>1, Zenon
    <2>8. CASE Equal(m)
      <3>1. CASE x[m + 1] = y[m + 1]
        <4>1. A[m + 1] = B[m + 1]
          BY <2>5, <2>8, <3>1, Zenon
        <4>2. \A i \in 1..(m + 1) : x[i] = y[i]
          BY <2>4, <2>8, <3>1, Zenon
        <4> QED
          BY <2>1, <4>1, <4>2, Zenon
      <3>2. CASE x[m + 1] # y[m + 1]
        <4>1. Differ(x, y, m + 1)
          <5>1. ASSUME NEW j \in 1..(m + 1 - 1)
                PROVE  x[j] = y[j]
            <6>1. j \in 1..m
              OBVIOUS
            <6> QED
              BY <2>8, <6>1, Zenon
          <5> QED
            BY <3>2, <5>1 DEF Differ
        <4>2. \/ x[m + 1] < y[m + 1] /\ A[m + 1] < B[m + 1]
              \/ y[m + 1] < x[m + 1] /\ B[m + 1] < A[m + 1]
          <5>1. /\ A[m] = B[m]
                /\ \/ x[m + 1] < y[m + 1] /\ 10 * A[m] + x[m + 1] < 10 * A[m] + y[m + 1]
                   \/ y[m + 1] < x[m + 1] /\ 10 * A[m] + y[m + 1] < 10 * A[m] + x[m + 1]
            BY <2>5, <2>8, <3>2, NextDiffers, Zenon
          <5> QED
            BY <2>5, <5>1, Zenon
        <4> QED
          BY <2>1, <4>1, <4>2, Zenon
      <3> QED
        BY <3>1, <3>2, Zenon
    <2> QED
      BY <1>2, <2>6, <2>7, <2>8, Zenon
  <1>3. \A m \in 0..n : m \in S
    <2> HIDE DEF S
    <2> QED
      BY <1>1, <1>2, UpTo
  <1>4. n \in 0..n
    OBVIOUS
  <1> QED
    BY <1>3, <1>4, Zenon

(* compare_versions' comparison of two components (installer-js.c:127-137)   *)
(* is that of numbers.                                                     *)
LEMMA LessIsNumeric ==
    ASSUME NEW a \in Seq(0..9), NEW b \in Seq(0..9)
    PROVE  /\ Number(a) \in Nat /\ Number(b) \in Nat
           /\ LessComponent(a, b) <=> Number(a) < Number(b)
  <1> DEFINE x == Significant(a)
             y == Significant(b)
             n == Len(x)
             m == Len(y)
  <1>1. /\ n \in Nat /\ DOMAIN x = 1..n /\ IsDigits(x, n)
        /\ n > 0 => x[1] > 0
        /\ \E A : IsNumbers(A, x, n) /\ A[n] = Number(a)
    BY SignificantIs, Zenon
  <1>2. /\ m \in Nat /\ DOMAIN y = 1..m /\ IsDigits(y, m)
        /\ m > 0 => y[1] > 0
        /\ \E B : IsNumbers(B, y, m) /\ B[m] = Number(b)
    BY SignificantIs, Zenon
  <1>3. LessComponent(a, b) <=> n < m \/ (n = m /\ Smaller(x, y))
    BY Zenon DEF LessComponent
  <1> HIDE DEF x, y
  <1>4. PICK A : IsNumbers(A, x, n) /\ A[n] = Number(a)
    BY <1>1, Zenon
  <1>5. PICK B : IsNumbers(B, y, m) /\ B[m] = Number(b)
    BY <1>2, Zenon
  <1> HIDE DEF n, m
  <1>6. A[n] \in Nat /\ B[m] \in Nat
    <2>1. n \in 0..n /\ m \in 0..m
      BY <1>1, <1>2
    <2> QED
      BY <1>4, <1>5, <2>1 DEF IsNumbers
  <1>7. CASE n < m
    <2>1. y[1] > 0
      BY <1>1, <1>2, <1>7
    <2>2. A[n] < B[m]
      BY <1>1, <1>2, <1>4, <1>5, <1>7, <2>1, LongerIsMore, Zenon
    <2> QED
      BY <1>3, <1>4, <1>5, <1>6, <1>7, <2>2, Zenon
  <1>8. CASE m < n
    <2>1. x[1] > 0
      BY <1>1, <1>2, <1>8
    <2>2. B[m] < A[n]
      BY <1>1, <1>2, <1>4, <1>5, <1>8, <2>1, LongerIsMore, Zenon
    <2>3. ~(A[n] < B[m]) /\ ~(n < m) /\ n # m
      BY <1>1, <1>2, <1>6, <1>8, <2>2
    <2> QED
      BY <1>3, <1>4, <1>5, <1>6, <2>3, Zenon
  <1>9. CASE n = m
    <2>1. \/ A[n] = B[n] /\ \A i \in 1..n : x[i] = y[i]
          \/ A[n] < B[n] /\ \E i \in 1..n : Differ(x, y, i) /\ x[i] < y[i]
          \/ B[n] < A[n] /\ \E i \in 1..n : Differ(x, y, i) /\ y[i] < x[i]
      <3>1. IsDigits(y, n) /\ IsNumbers(B, y, n)
        BY <1>2, <1>5, <1>9, Zenon
      <3> QED
        BY <1>1, <1>4, <3>1, FirstDecides, Zenon
    <2>2. \A i \in 1..n : x[i] \in 0..9 /\ y[i] \in 0..9
      BY <1>1, <1>2, <1>9, Zenon DEF IsDigits
    <2>3. CASE A[n] < B[n]
      <3>1. PICK i \in 1..n : Differ(x, y, i) /\ x[i] < y[i]
        BY <1>6, <1>9, <2>1, <2>3
      <3>2. Smaller(x, y)
        BY <1>1, <3>1, Zenon DEF Smaller, Differ
      <3> QED
        BY <1>3, <1>4, <1>5, <1>6, <1>9, <2>3, <3>2, Zenon
    <2>4. CASE ~(A[n] < B[n])
      <3>1. ~Smaller(x, y)
        <4> SUFFICES ASSUME NEW i \in 1..n, x[i] < y[i], \A j \in 1..(i - 1) : x[j] = y[j]
                     PROVE  FALSE
          BY <1>1, Zenon DEF Smaller
        <4>1. x[i] # y[i] /\ x[i] \in 0..9 /\ y[i] \in 0..9
          BY <2>2
        <4>2. PICK k \in 1..n : Differ(x, y, k) /\ y[k] < x[k]
          BY <2>1, <2>4, <4>1, Zenon
        <4>3. \A j \in 1..(k - 1) : x[j] = y[j]
          BY <4>2, Zenon DEF Differ
        <4>4. x[k] # y[k] /\ ~(x[k] < y[k])
          <5>1. x[k] \in 0..9 /\ y[k] \in 0..9 /\ y[k] < x[k]
            BY <2>2, <4>2, Zenon
          <5> QED
            BY <5>1, NotBoth, Zenon
        <4>5. i # k
          BY <4>4, Zenon
        <4>6. i \in 1..(k - 1) \/ k \in 1..(i - 1)
          BY <1>1, <4>5
        <4> QED
          BY <4>1, <4>3, <4>4, <4>6, Zenon
      <3>2. ~(n < m)
        BY <1>1, <1>9
      <3> QED
        BY <1>3, <1>4, <1>5, <1>6, <1>9, <2>4, <3>1, <3>2, Zenon
    <2> QED
      BY <2>3, <2>4, Zenon
  <1>10. n < m \/ m < n \/ n = m
    BY <1>1, <1>2
  <1> QED
    BY <1>7, <1>8, <1>9, <1>10, Zenon

(* An empty component reads as zero. *)
LEMMA PartIsNumeric ==
    ASSUME NEW a \in Seq(Seq(0..9)), NEW b \in Seq(Seq(0..9)), NEW i
    PROVE  /\ NumberAt(a, i) \in Nat /\ NumberAt(b, i) \in Nat
           /\ LessAt(a, b, i) <=> NumberAt(a, i) < NumberAt(b, i)
  <1>1. <<>> \in Seq(0..9) /\ Len(<<>>) = 0
    OBVIOUS
  <1>2. Number(<<>>) = 0
    BY <1>1, NumbersAre, Zenon DEF Number
  <1>3. Part(a, i) \in Seq(0..9) /\ Part(b, i) \in Seq(0..9)
    BY <1>1 DEF Part
  <1>4. NumberAt(a, i) = Number(Part(a, i)) /\ NumberAt(b, i) = Number(Part(b, i))
    BY <1>2, Zenon DEF NumberAt, Part
  <1> QED
    BY <1>3, <1>4, LessIsNumeric, Zenon DEF LessAt

(* compare_versions as an order of numbers. *)
LEMMA CompareIsNumeric ==
    ASSUME NEW a \in Seq(Seq(0..9)), NEW b \in Seq(Seq(0..9))
    PROVE  compare_versions(a, b) >= 0 <=> ~Earlier(a, b)
  <1> DEFINE all == DOMAIN a \cup DOMAIN b
             differ == {i \in all : LessAt(a, b, i) \/ LessAt(b, a, i)}
             first == CHOOSE i \in differ : \A j \in differ : i <= j
  <1>1. /\ \A i : NumberAt(a, i) \in Nat /\ NumberAt(b, i) \in Nat
        /\ \A i : LessAt(a, b, i) <=> NumberAt(a, i) < NumberAt(b, i)
        /\ \A i : LessAt(b, a, i) <=> NumberAt(b, i) < NumberAt(a, i)
    BY PartIsNumeric, Zenon
  <1>2. compare_versions(a, b) = IF differ = {} THEN 0 ELSE IF LessAt(a, b, first) THEN -1 ELSE 1
    BY Zenon DEF compare_versions
  <1>3. all \subseteq Nat
    OBVIOUS
  <1>4. \A i \in all : i \notin differ => NumberAt(a, i) = NumberAt(b, i)
    BY <1>1
  <1>5. CASE differ = {}
    <2>1. compare_versions(a, b) = 0
      BY <1>2, <1>5, Zenon
    <2>2. ~Earlier(a, b)
      BY <1>1, <1>5, Zenon DEF Earlier
    <2> QED
      BY <2>1, <2>2
  <1>6. CASE differ # {}
    <2>1. first \in differ /\ \A j \in differ : first <= j
      <3>1. differ \subseteq Nat
        BY <1>3, Zenon
      <3> HIDE DEF differ
      <3>2. \E i \in differ : \A j \in differ : i <= j
        BY <1>6, <3>1, Smallest, Zenon
      <3> QED
        BY <3>2, Zenon
    <2>2. first \in all /\ first \in Nat /\ NumberAt(a, first) # NumberAt(b, first)
      BY <1>1, <1>3, <2>1
    <2> HIDE DEF first
    <2>3. ASSUME NEW j \in all, j < first
          PROVE  NumberAt(a, j) = NumberAt(b, j)
      <3>1. j \notin differ
        BY <1>3, <2>1, <2>2, <2>3
      <3> QED
        BY <1>4, <3>1, Zenon
    <2>4. CASE LessAt(a, b, first)
      <3>1. Earlier(a, b)
        BY <1>1, <2>2, <2>3, <2>4, Zenon DEF Earlier
      <3>2. compare_versions(a, b) = -1
        BY <1>2, <1>6, <2>4, Zenon
      <3> QED
        BY <3>1, <3>2
    <2>5. CASE ~LessAt(a, b, first)
      <3>1. ~Earlier(a, b)
        <4> SUFFICES ASSUME NEW i \in all, NumberAt(a, i) < NumberAt(b, i),
                            \A j \in all : j < i => NumberAt(a, j) = NumberAt(b, j)
                     PROVE  FALSE
          BY Zenon DEF Earlier
        <4>1. i \in differ /\ i # first
          BY <1>1, <2>5, Zenon
        <4>2. first < i
          BY <1>3, <2>1, <2>2, <4>1
        <4> QED
          BY <2>2, <4>2, Zenon
      <3>2. compare_versions(a, b) = 1
        BY <1>2, <1>6, <2>5, Zenon
      <3> QED
        BY <3>1, <3>2
    <2> QED
      BY <2>4, <2>5, Zenon
  <1> QED
    BY <1>5, <1>6, Zenon

(* What was compared stays as it is. *)
CheckInvariant == root \in Seq(Seq(0..9)) /\ CheckIsNumeric

LEMMA CheckStep ==
    ASSUME BaseInvariant, CheckInvariant, [Next]_vars
    PROVE  CheckInvariant'
  <1>1. Given /\ root \in Seq(Seq(0..9)) /\ CheckIsNumeric
    BY Zenon DEF BaseInvariant, CheckInvariant
  <1>2. dist.need \in Seq(Seq(0..9))
    <2>1. PICK s \in Situations : dist = s[1]
      BY <1>1, Zenon DEF Given
    <2>2. dist \in {r[1] : r \in Situations}
      BY <2>1, Zenon
    <2> QED
      BY <2>2, SituationsAssumption, Zenon
  <1>3. dist' = dist /\ root' = root
    BY Zenon DEF Next, Step, vars, given, Go, Die, Load, Initialize, Script, Check, BeginPass, Evaluate,
                 EndPass, TimeLimit, Select, load_component, Skip, NextChoice, Finish, Candidates
  <1>4. CASE ~Check
    <2>1. phase' = "settle" => phase = "settle"
      BY <1>4, Zenon DEF Next, Step, vars, given, Go, Die, Load, Initialize, Script, BeginPass, Evaluate,
                 EndPass, TimeLimit, Select, load_component, Skip, NextChoice, Finish, Candidates
    <2>2. why' = "check" => why = "check"
      BY <1>4, Zenon DEF Next, Step, vars, given, Go, Die, Load, Initialize, Script, BeginPass, Evaluate,
                 EndPass, TimeLimit, Select, load_component, Skip, NextChoice, Finish, Candidates
    <2> QED
      BY <1>1, <1>3, <2>1, <2>2, Zenon DEF CheckInvariant, CheckIsNumeric
  <1>5. CASE Check
    <2> SUFFICES ASSUME dist.need # <<>>, valid_version(dist.need), valid_version(root)
                 PROVE  /\ phase' = "settle" /\ ~dist.warn => ~Earlier(root, dist.need)
                        /\ why' = "check" => ~dist.warn /\ Earlier(root, dist.need)
      BY <1>1, <1>3, Zenon DEF CheckInvariant, CheckIsNumeric
    <2>1. compare_versions(root, dist.need) >= 0 <=> ~Earlier(root, dist.need)
      BY <1>1, <1>2, CompareIsNumeric, Zenon
    <2>2. CASE dist.warn \/ compare_versions(root, dist.need) >= 0
      BY <1>1, <1>5, <2>1, <2>2, Zenon DEF Check, Go, CheckIsNumeric
    <2>3. CASE ~(dist.warn \/ compare_versions(root, dist.need) >= 0)
      BY <1>5, <2>1, <2>3, Zenon DEF Check, Die
    <2> QED
      BY <2>2, <2>3, Zenon
  <1> QED
    BY <1>4, <1>5, Zenon

-----------------------------------------------------------------------------
SelectionInvariant ==
    BaseInvariant /\ SettleInvariant /\ LoadInvariant /\ CheckInvariant

LEMMA InitHolds == Init => SelectionInvariant
  <1> SUFFICES ASSUME Init
               PROVE  SelectionInvariant
    BY Zenon
  <1>1. Given
    BY Zenon DEF Init, Given
  <1>2. dist.start \in States
    BY <1>1, GivenTypes, Zenon
  <1>i. /\ target \in BOOLEAN /\ js = FALSE /\ phase = "load" /\ state = dist.start
        /\ before = dist.start /\ pass = 0 /\ cursor = 1 /\ item = 1 /\ loaded = <<>> /\ why = "none"
    BY Zenon DEF Init
  <1>3. TypeOK
    <2>1. loaded \in Seq(DOMAIN Identifier) /\ pass \in 0..(MaxPasses - 1)
      BY <1>i, MaxPassesAssumption
    <2>2. phase \in Phases /\ cursor \in Nat \ {0} /\ item \in Nat \ {0}
      BY <1>i DEF Phases
    <2>3. js \in BOOLEAN /\ state \in States /\ before \in States
      BY <1>i, <1>2, Zenon
    <2> QED
      BY <1>i, <2>1, <2>2, <2>3, Zenon DEF TypeOK, States
  <1>4. BaseInvariant
    BY <1>1, <1>3, Zenon DEF Init, BaseInvariant
  <1>5. SettleInvariant
    BY Zenon DEF Init, SettleInvariant, SelectionIsStable, UnstableHasReason
  <1>6. LoadInvariant
    <2>1. DOMAIN loaded = {}
      BY <1>i
    <2> QED
      BY <1>i, <2>1, Zenon DEF LoadInvariant, LoadedIsNamed, LoadedIsWanted, IsInjective, Range
  <1>7. CheckInvariant
    BY <1>i, RootsAssumption, Zenon DEF Init, CheckInvariant, CheckIsNumeric
  <1> QED
    BY <1>4, <1>5, <1>6, <1>7, Zenon DEF SelectionInvariant

(* The invariant from which the results below follow: which way a            *)
(* Distribution goes through package_load and package_resolve, how far      *)
(* settle_choices is from a fixed point, and what the references passed so  *)
(* far have loaded.                                                         *)
THEOREM SelectionInvariantHolds == Spec => []SelectionInvariant
  <1>1. SelectionInvariant /\ [Next]_vars => SelectionInvariant'
    BY BaseStep, SettleStep, LoadStep, CheckStep, Zenon DEF SelectionInvariant
  <1> QED
    BY <1>1, InitHolds, PTL DEF Spec

(* For every Distribution, whatever depends on what and in whatever order    *)
(* the outline lists it: when settle_choices ends (package.c:487), every    *)
(* expression has the value of its property.                               *)
THEOREM SelectionsAreStable == Spec => []SelectionIsStable
  <1>1. SelectionInvariant => SelectionIsStable
    BY Zenon DEF SelectionInvariant, SettleInvariant
  <1> QED
    BY <1>1, SelectionInvariantHolds, PTL

(* For every limit: a Distribution that settle_choices refuses               *)
(* (package.c:492) has a chain of as many expressions as there are passes,  *)
(* each of which depends on the next.                                      *)
THEOREM RefusalsHaveReason == Spec => []UnstableHasReason
  <1>1. SelectionInvariant => UnstableHasReason
    BY Zenon DEF SelectionInvariant, SettleInvariant
  <1> QED
    BY <1>1, SelectionInvariantHolds, PTL

(* package_resolve and package_inspect_candidates (package.c:526-577) load   *)
(* the directories of wanted references, and no other, once each, and each   *)
(* as the component that one of these references names.                    *)
THEOREM WantedIsLoaded == Spec => []LoadedIsWanted
  <1>1. SelectionInvariant => LoadedIsWanted
    BY Zenon DEF SelectionInvariant, LoadInvariant
  <1> QED
    BY <1>1, SelectionInvariantHolds, PTL

(* load_component's refusal of a second component with one identifier        *)
(* (package.c:85-87) is never met by the references of a Distribution: a    *)
(* reference has one directory, and the component in it has the             *)
(* reference's id.                                                         *)
THEOREM NoDuplicateIdentifier == Spec => [](why # "duplicate")
  <1>1. SelectionInvariant => why # "duplicate"
    BY Zenon DEF SelectionInvariant, LoadInvariant
  <1> QED
    BY <1>1, SelectionInvariantHolds, PTL

(* For versions of any number of components and digits: an install is        *)
(* stopped by a check of compareVersions (installer-js.c:124-143, 222) if   *)
(* and only if the root's version is the earlier one as numbers, leading    *)
(* zeros and missing components included.                                  *)
THEOREM ChecksAreNumeric == Spec => []CheckIsNumeric
  <1>1. SelectionInvariant => CheckIsNumeric
    BY Zenon DEF SelectionInvariant, CheckInvariant
  <1> QED
    BY <1>1, SelectionInvariantHolds, PTL
=============================================================================
