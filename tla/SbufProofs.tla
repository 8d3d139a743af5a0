---------------------------- MODULE SbufProofs ----------------------------
(***************************************************************************)
(* Proofs about string buffers, for buffers and texts of every length and  *)
(* every way the allocator and the drain may fail.                         *)
(***************************************************************************)
EXTENDS Sbuf, SequenceTheorems, FiniteSetTheorems, WellFoundedInduction, TLAPS

(* A buffer that is finished has no call under way that appends, and one    *)
(* that is not there has no storage.                                       *)
BufferInvariant ==
    /\ \/ dynamic = TRUE /\ heap = 1
       \/ dynamic = FALSE /\ heap = 0
    /\ op = "none" => ~dynamic /\ ~finished
    /\ finished => op \in {"none", "idle"}
    /\ FinishDelivers

(* Every step keeps the storage accounted for. *)
LEMMA BufferStep == BufferInvariant /\ [Next]_vars => BufferInvariant'
  <1> SUFFICES ASSUME BufferInvariant, [Next]_vars
               PROVE  BufferInvariant'
    OBVIOUS
  <1> USE DEF BufferInvariant, FinishDelivers, str, frame
  <1>1. CASE PutByte
    <2>1. ~finished /\ finished' = finished /\ op' # "none" /\ op # "none"
      BY <1>1 DEF PutByte, Store
    <2>2. (dynamic' = dynamic /\ heap' = heap) \/ Extend(1)
      BY <1>1 DEF PutByte
    <2> QED
      BY <2>1, <2>2 DEF Extend
  <1>2. CASE PutByteFails
    BY <1>2 DEF PutByteFails, Return
  <1>3. CASE PrintFits
    BY <1>3 DEF PrintFits, PrintBytes, Return
  <1>4. CASE PrintAgain
    <2>1. ~finished /\ finished' = finished /\ op' = op /\ op # "none"
      BY <1>4 DEF PrintAgain
    <2>2. (dynamic' = dynamic /\ heap' = heap) \/ Extend(Len(todo) - FreeSpace)
      BY <1>4 DEF PrintAgain
    <2> QED
      BY <2>1, <2>2 DEF Extend
  <1>5. CASE PrintFails
    BY <1>5 DEF PrintFails, PrintBytes, Return
  <1>e. CASE PrintError
    BY <1>e DEF PrintError, Return
  <1>6. CASE FinishDrain \/ FinishDrainFails
    BY <1>6 DEF FinishDrain, FinishDrainFails
  <1>7. CASE Finish
    BY <1>7 DEF Finish, FinishMore
  <1>8. CASE PadDone
    BY <1>8 DEF PadDone
  <1>9. CASE New
    <2>1. PICK own \in BOOLEAN : dynamic' = ~own /\ heap' = IF own THEN 0 ELSE 1
      BY <1>9 DEF New
    <2>2. finished' = finished /\ op = "none" /\ op' = "idle"
      BY <1>9 DEF New
    <2> QED
      BY <2>1, <2>2, Zenon
  <1>10. CASE Delete
    BY <1>10 DEF Delete
  <1>11. CASE Clear
    BY <1>11 DEF Clear, Cleared
  <1>12. CASE SetPos \/ Trim
    BY <1>12 DEF SetPos, Trim, Ready
  <1>d. CASE SetDrain
    BY <1>d DEF SetDrain, Ready
  <1>13. CASE BeginFinish \/ StartSection \/ EndSection
    BY <1>13 DEF BeginFinish, StartSection, EndSection, Ready
  <1>14. ASSUME NEW t \in Texts, Begin("cat", t) \/ Begin("printf", t) \/ Copy(t)
         PROVE  BufferInvariant'
    BY <1>14 DEF Begin, Copy, Cleared, Ready
  <1>15. CASE UNCHANGED vars
    BY <1>15 DEF vars
  <1> QED
    BY <1>1, <1>2, <1>3, <1>4, <1>5, <1>e, <1>6, <1>7, <1>8, <1>9, <1>10, <1>11, <1>12, <1>d,
       <1>13, <1>14, <1>15, Zenon
    DEF Next, Work, Fails, Call

(* There is nothing before the first buffer. *)
LEMMA BufferInit == Init => BufferInvariant
  BY DEF Init, Empty, BufferInvariant, FinishDelivers

(* Storage is freed once by whoever allocated it, however often a buffer    *)
(* was extended away from the caller's own.                                *)
THEOREM StorageIsFreedOnce == Spec => []NothingLeaks
  <1>1. BufferInvariant => NothingLeaks
    BY DEF BufferInvariant, NothingLeaks
  <1> QED
    BY <1>1, BufferInit, BufferStep, PTL DEF Spec

(* sbuf_finish without an error leaves nothing for the drain to take. *)
THEOREM DrainGetsAll == Spec => []FinishDelivers
  <1>1. BufferInvariant => FinishDelivers
    BY DEF BufferInvariant
  <1> QED
    BY <1>1, BufferInit, BufferStep, PTL DEF Spec

-----------------------------------------------------------------------------
(* Sizes. *)

(* A non-empty set of numbers has a least one. *)
LEMMA LeastOne ==
    ASSUME NEW S \in SUBSET Nat, S # {}
    PROVE  \E x \in S : \A y \in S : x <= y
  <1> DEFINE R == OpToRel(<, Nat)
  <1>1. IsWellFoundedOn(R, Nat)
    BY NatLessThanWellFounded, Zenon
  <1> HIDE DEF R
  <1>2. PICK x \in S : \A y \in S : ~(<<y, x>> \in R)
    BY <1>1, WFMin, Zenon
  <1>3. ASSUME NEW y \in S, y < x PROVE FALSE
    <2>1. <<y, x>> \in R
      BY <1>3 DEF R, OpToRel
    <2> QED
      BY <2>1, <1>2
  <1> QED
    BY <1>3

(* The subsets of 1..n are counted by a power of two, the elements by n. *)
LEMMA PowerOfTwo ==
    ASSUME NEW n \in Nat
    PROVE  2^n \in Nat /\ 2^n >= n
  <1> DEFINE S == 1..n
             f == [i \in S |-> {i}]
  <1>1. IsFiniteSet(S) /\ Cardinality(S) = n
    BY FS_Interval
  <1>2. f \in Injection(S, SUBSET S)
    BY DEF Injection, IsInjective
  <1> HIDE DEF S, f
  <1>3. IsFiniteSet(SUBSET S) /\ Cardinality(SUBSET S) = 2^n
    BY <1>1, FS_SUBSET
  <1>4. Cardinality(SUBSET S) \in Nat
    BY <1>3, FS_CardinalityType
  <1>5. Cardinality(S) <= Cardinality(SUBSET S)
    BY <1>2, <1>3, FS_Injection
  <1> QED
    BY <1>1, <1>3, <1>4, <1>5

(* sbuf_extendsize returns at least what it was asked for. *)
LEMMA ExtendSizeIsEnough ==
    ASSUME NEW n \in Nat
    PROVE  extendsize(n) \in Nat /\ extendsize(n) >= n
  <1> USE SbufAssumption
  <1>1. CASE n < MaxExtend
    <2> DEFINE powers == {MinExtend * 2^k : k \in 0..n}
               enough == {p \in powers : p >= n}
    <2>1. \A k \in 0..n : 2^k \in Nat
      BY PowerOfTwo
    <2>2. powers \subseteq Nat
      BY <2>1
    <2>3. MinExtend * 2^n \in powers
      OBVIOUS
    <2>4. MinExtend * 2^n >= n
      <3>1. 2^n \in Nat /\ 2^n >= n
        BY PowerOfTwo
      <3> DEFINE x == 2^n
      <3> HIDE DEF x
      <3>2. x \in Nat /\ x >= n
        BY <3>1 DEF x
      <3>3. MinExtend * x >= x
        BY <3>2
      <3>4. MinExtend * x >= n
        BY <3>2, <3>3
      <3> QED
        BY <3>4 DEF x
    <2> HIDE DEF powers
    <2>5. enough # {} /\ enough \in SUBSET Nat
      BY <2>2, <2>3, <2>4, Zenon
    <2>6. PICK p \in enough : \A q \in enough : p <= q
      BY <2>5, LeastOne, Zenon
    <2>7. \E r \in powers : r >= n /\ \A q \in powers : q >= n => r <= q
      BY <2>6
    <2> DEFINE r == CHOOSE r \in powers : r >= n /\ \A q \in powers : q >= n => r <= q
    <2>8. r \in powers /\ r >= n
      BY <2>7
    <2>9. extendsize(n) = r
      BY <1>1, Zenon DEF extendsize, powers
    <2> QED
      BY <2>2, <2>8, <2>9, Zenon
  <1>2. CASE ~(n < MaxExtend)
    <2>1. extendsize(n) = ((n + MaxExtend - 1) \div MaxExtend) * MaxExtend
      BY <1>2 DEF extendsize
    <2>2. (n + MaxExtend - 1) \div MaxExtend \in Nat
      OBVIOUS
    <2>3. ((n + MaxExtend - 1) \div MaxExtend) * MaxExtend >= n
      OBVIOUS
    <2> QED
      BY <2>1, <2>2, <2>3
  <1> QED
    BY <1>1, <1>2

-----------------------------------------------------------------------------
(* Sequences. *)

(* A sequence cut in two. *)
LEMMA CutInTwo ==
    ASSUME NEW S, NEW s \in Seq(S), NEW n \in 0..Len(s)
    PROVE  /\ SubSeq(s, 1, n) \in Seq(S) /\ Len(SubSeq(s, 1, n)) = n
           /\ SubSeq(s, n + 1, Len(s)) \in Seq(S)
           /\ Len(SubSeq(s, n + 1, Len(s))) = Len(s) - n
           /\ SubSeq(s, 1, n) \o SubSeq(s, n + 1, Len(s)) = s
  <1>1. Len(s) \in Nat /\ \A i \in 1..Len(s) : s[i] \in S
    BY LenProperties
  <1>2. SubSeq(s, 1, n) \in Seq(S) /\ Len(SubSeq(s, 1, n)) = n
    BY <1>1, SubSeqProperties
  <1>3. /\ SubSeq(s, n + 1, Len(s)) \in Seq(S)
        /\ Len(SubSeq(s, n + 1, Len(s))) = Len(s) - n
    BY <1>1, SubSeqProperties
  <1>4. SubSeq(s, 1, n) \o SubSeq(s, n + 1, Len(s)) = SubSeq(s, 1, Len(s))
    <2>1. 1 \in 1..Len(s) + 1 /\ n \in 1 - 1..Len(s) /\ Len(s) \in n..Len(s)
      BY <1>1
    <2> QED
      BY <2>1, ConcatAdjacentSubSeq, Zenon
  <1>5. SubSeq(s, 1, Len(s)) = s
    BY SubSeqFull
  <1> QED
    BY <1>2, <1>3, <1>4, <1>5, Zenon

(* One element moves from the beginning of a sequence to the end of another. *)
LEMMA OneMoves ==
    ASSUME NEW S, NEW a \in Seq(S), NEW s \in Seq(S), s # <<>>
    PROVE  /\ Append(a, Head(s)) \in Seq(S) /\ Len(Append(a, Head(s))) = Len(a) + 1
           /\ Tail(s) \in Seq(S)
           /\ Append(a, Head(s)) \o Tail(s) = a \o s
  <1> DEFINE h == Head(s)
             t == Tail(s)
  <1>1. h \in S /\ t \in Seq(S) /\ Len(t) = Len(s) - 1 /\ \A i \in 1..Len(t) : t[i] = s[i + 1]
    BY HeadTailProperties
  <1>2. s = <<h>> \o t
    <2>1. Len(s) \in Nat \ {0} /\ Len(t) \in Nat /\ h = s[1]
      BY <1>1, EmptySeq, LenProperties
    <2>2. s = SubSeq(s, 1, Len(s)) /\ t = SubSeq(s, 2, Len(s))
      BY SubSeqFull, TailIsSubSeq
    <2>3. 1 \in 1..Len(s) /\ Len(s) \in 1..Len(s) /\ 1 + 1 = 2
      BY <2>1
    <2>4. SubSeq(s, 1, Len(s)) = <<s[1]>> \o SubSeq(s, 1 + 1, Len(s))
      BY <2>3, SubSeqRecursiveFirst
    <2> QED
      BY <2>1, <2>2, <2>3, <2>4
  <1> HIDE DEF h, t
  <1>3. Append(a, h) = a \o <<h>> /\ Append(a, h) \in Seq(S) /\ Len(Append(a, h)) = Len(a) + 1
    BY <1>1, AppendIsConcat, AppendProperties
  <1>4. <<h>> \in Seq(S)
    BY <1>1
  <1>5. (a \o <<h>>) \o t = a \o (<<h>> \o t)
    BY <1>1, <1>4, ConcatAssociative
  <1> QED
    BY <1>1, <1>2, <1>3, <1>5 DEF h, t

(* The left part of a concatenation is its beginning. *)
LEMMA Beginning ==
    ASSUME NEW S, NEW g \in Seq(S), NEW r \in Seq(S)
    PROVE  /\ Len(g) <= Len(g \o r) /\ g = SubSeq(g \o r, 1, Len(g))
  <1> DEFINE t == g \o r
             p == SubSeq(t, 1, Len(g))
  <1>1. /\ t \in Seq(S) /\ Len(t) = Len(g) + Len(r)
        /\ \A i \in 1..Len(g) + Len(r) :
              t[i] = IF i <= Len(g) THEN g[i] ELSE r[i - Len(g)]
    BY ConcatProperties
  <1>2. Len(g) \in Nat /\ Len(r) \in Nat
    BY LenProperties
  <1> HIDE DEF t
  <1>3. \A i \in 1..Len(g) : t[i] \in S /\ t[i] = g[i]
    BY <1>1, <1>2, ElementOfSeq
  <1>4. p \in Seq(S) /\ Len(p) = Len(g) /\ \A i \in 1..Len(g) : p[i] = t[1 + i - 1]
    BY <1>2, <1>3, SubSeqProperties
  <1>5. \A i \in 1..Len(g) : p[i] = g[i]
    BY <1>2, <1>3, <1>4
  <1> HIDE DEF p
  <1>6. p = g
    BY <1>4, <1>5, SeqEqual
  <1> QED
    BY <1>1, <1>2, <1>6 DEF p, t

-----------------------------------------------------------------------------
(* Texts and sections. *)

(* Every variable has its type, and a buffer holds less than its size: the  *)
(* terminating zero always has its place.                                  *)
Shape ==
    /\ op \in Ops /\ error \in Errors /\ size \in Nat /\ sect \in Int
    /\ buf \in Seq(Chars) /\ out \in Seq(Chars)
    /\ text \in Seq(Chars) /\ todo \in Seq(Chars)
    /\ saved \in Seq(Int) /\ marks \in Seq(Int) /\ Len(saved) = Len(marks)
    /\ op # "none" => Len(buf) < size
    /\ op = "none" => buf = <<>>
    /\ under \in Nat /\ (under > 0 => buf = <<>>)

(* One sequence after another: \o, kept from being expanded. *)
Joint(a, b) == a \o b

(* What a call has still to do, and what was lost, is the rest of the text. *)
TextInvariant ==
    /\ op \notin {"cat", "printf", "pad"} => todo = <<>>
    /\ op \in {"cat", "printf"} => error = "none"
    /\ op = "pad" /\ error # "none" => todo = <<>>
    /\ ~unreported => under = 0
    /\ ~unreported => \E rest \in Seq(Chars) :
          Joint(Joint(out, buf), rest) = text /\ (error = "none" => rest = todo)

(* The length of the innermost section is right, and the one that was saved *)
(* of each other, if it is not the sign for none, was right when it was     *)
(* saved; but not those of the sections that a clear made wrong.            *)
SectionInvariant ==
    /\ wrong \in 0..Len(saved)
    /\ inSection => /\ saved # <<>>
                    /\ Len(saved) > wrong => sect = Position - marks[Len(marks)]
    /\ ~inSection => sect = 0
    /\ \A i \in DOMAIN saved : saved[i] # -1 =>
          i # 1 /\ (i - 1 > wrong => saved[i] = marks[i] - marks[i - 1])
    /\ op = "pad" => inSection

(* What the padding is to bring the section to is a multiple. *)
PadInvariant ==
    op = "pad" /\ error = "none" /\ sect + Len(todo) >= 0 =>
        (sect + Len(todo)) % Multiple = 0

(* Joining the bytes of texts. *)
LEMMA Regroup ==
    \A a, b, c \in Seq(Chars) : Joint(Joint(a, b), c) = Joint(a, Joint(b, c))
  BY ConcatAssociative DEF Joint

(* What is joined is a text, as long as both. *)
LEMMA Joined ==
    \A a, b \in Seq(Chars) : Joint(a, b) \in Seq(Chars) /\ Len(Joint(a, b)) = Len(a) + Len(b)
  BY ConcatProperties DEF Joint

(* The drain takes n bytes: what it has and what is left is what there was. *)
LEMMA DrainTakes ==
    ASSUME Shape, NEW n \in 1..Len(buf), Taken(n)
    PROVE  /\ out' \in Seq(Chars) /\ Rest(n) \in Seq(Chars)
           /\ Len(out') = Len(out) + n /\ Len(Rest(n)) = Len(buf) - n
           /\ Joint(out', Rest(n)) = Joint(out, buf)
           /\ size' = size
  <1> DEFINE a == SubSeq(buf, 1, n)
             b == SubSeq(buf, n + 1, Len(buf))
  <1>1. buf \in Seq(Chars) /\ out \in Seq(Chars)
    BY DEF Shape
  <1>2. n \in 0..Len(buf)
    BY <1>1
  <1>3. /\ a \in Seq(Chars) /\ Len(a) = n /\ b \in Seq(Chars) /\ Len(b) = Len(buf) - n
        /\ Joint(a, b) = buf
    BY <1>1, <1>2, CutInTwo DEF Joint
  <1>4. out' = Joint(out, a) /\ Rest(n) = b /\ size' = size
    BY DEF Taken, Rest, Joint
  <1> HIDE DEF a, b
  <1>5. Joint(out, a) \in Seq(Chars) /\ Len(Joint(out, a)) = Len(out) + Len(a)
    BY <1>1, <1>3, Joined, Zenon
  <1>6. Joint(Joint(out, a), b) = Joint(out, Joint(a, b))
    BY <1>1, <1>3, Regroup
  <1> QED
    BY <1>3, <1>4, <1>5, <1>6

(* A byte is stored after what was kept of the buffer, and the others are left. *)
Longer(kept, t) == Append(kept, Head(t))
Others(t) == Tail(t)

(* A byte moves from what is to be stored to what is: the text is the same. *)
LEMMA ByteIsStored ==
    ASSUME NEW o \in Seq(Chars), NEW kept \in Seq(Chars), NEW t \in Seq(Chars), t # <<>>
    PROVE  /\ Longer(kept, t) \in Seq(Chars) /\ Len(Longer(kept, t)) = Len(kept) + 1
           /\ Others(t) \in Seq(Chars)
           /\ Joint(Joint(o, Longer(kept, t)), Others(t)) = Joint(Joint(o, kept), t)
  <1> DEFINE b == Append(kept, Head(t))
             u == Tail(t)
  <1>1. b \in Seq(Chars) /\ Len(b) = Len(kept) + 1 /\ u \in Seq(Chars) /\ Joint(b, u) = Joint(kept, t)
    BY OneMoves DEF Joint
  <1> HIDE DEF b, u
  <1>2. Joint(Joint(o, b), u) = Joint(o, Joint(b, u))
    BY <1>1, Regroup
  <1>3. Joint(Joint(o, kept), t) = Joint(o, Joint(kept, t))
    BY Regroup
  <1> QED
    BY <1>1, <1>2, <1>3 DEF b, u, Longer, Others

(* sbuf_put_byte stores one byte, after it made room. *)
LEMMA PutByteDoes ==
    ASSUME Shape, PutByte
    PROVE  /\ out' \in Seq(Chars) /\ buf' \in Seq(Chars) /\ todo' \in Seq(Chars)
           /\ size' \in Nat /\ Len(buf') < size'
           /\ Position' = Position + 1
           /\ under' \in Nat /\ (under' > 0 => buf' = <<>>)
           /\ under = 0 => /\ under' = 0
                           /\ Joint(Joint(out', buf'), todo') = Joint(Joint(out, buf), todo)
           /\ todo' = Others(todo) /\ todo # <<>> /\ op \in {"cat", "pad"}
           /\ op' = IF Others(todo) = <<>> /\ op = "cat" THEN "idle" ELSE op
           /\ sect' = IF inSection THEN sect + 1 ELSE sect
           /\ error' = error
           /\ UNCHANGED <<frame, finished, text, marks, wrong, unreported>>
  <1>t. /\ buf \in Seq(Chars) /\ out \in Seq(Chars) /\ todo \in Seq(Chars) /\ size \in Nat
        /\ Len(buf) \in Nat /\ Len(out) \in Nat /\ under \in Nat /\ (under > 0 => buf = <<>>)
    BY DEF Shape
  <1>0. /\ todo # <<>> /\ op \in {"cat", "pad"} /\ Len(buf) < size
        /\ UNCHANGED <<frame, finished, text, marks, wrong, unreported>>
    BY DEF PutByte, Shape
  <1>b. ASSUME under > 0 PROVE FreeSpace > 0 /\ buf = <<>> /\ Len(buf) = 0
    BY <1>b, <1>t, <1>0 DEF FreeSpace
  <1>4. CASE under > 0
    <2>1. Store(buf) /\ UNCHANGED <<size, out, dynamic, heap>>
      <3>1. FreeSpace > 0 /\ ~(FreeSpace <= 0)
        BY <1>b, <1>4, <1>t DEF FreeSpace
      <3> QED
        BY <3>1 DEF PutByte
    <2>2. /\ buf' = buf /\ under' = under - 1 /\ out' = out /\ size' = size /\ todo' = Others(todo)
          /\ op' = IF Others(todo) = <<>> /\ op = "cat" THEN "idle" ELSE op
          /\ sect' = IF inSection THEN sect + 1 ELSE sect
          /\ error' = error
      BY <1>4, <2>1, Zenon DEF Store, Others
    <2>3. Others(todo) \in Seq(Chars)
      BY <1>t, <1>0, OneMoves DEF Others
    <2>4. Position' = Position + 1 /\ under' \in Nat /\ Len(buf') < size'
      BY <1>t, <1>0, <1>4, <2>2 DEF Position
    <2> QED
      BY <1>t, <1>0, <1>4, <1>b, <2>2, <2>3, <2>4
  <1>z. under # 0 => under > 0
    BY <1>t
  <1>1. CASE under = 0 /\ FreeSpace > 0 /\ Store(buf) /\ UNCHANGED <<size, out, dynamic, heap>>
    <2>1. /\ buf' = Longer(buf, todo) /\ todo' = Others(todo) /\ out' = out /\ size' = size
          /\ op' = IF Others(todo) = <<>> /\ op = "cat" THEN "idle" ELSE op
          /\ sect' = IF inSection THEN sect + 1 ELSE sect
          /\ error' = error /\ under' = 0
      BY <1>1, SMT DEF Store, Longer, Others
    <2>2. /\ buf' \in Seq(Chars) /\ Len(buf') = Len(buf) + 1 /\ todo' \in Seq(Chars)
          /\ Joint(Joint(out, buf'), todo') = Joint(Joint(out, buf), todo)
      BY <1>t, <1>0, <2>1, ByteIsStored
    <2>3. Len(buf) + 1 < size
      BY <1>t, <1>1 DEF FreeSpace
    <2>4. Position' = Position + 1
      BY <1>t, <1>1, <2>1, <2>2 DEF Position
    <2> QED
      BY <1>t, <1>0, <2>1, <2>2, <2>3, <2>4
  <1>2. CASE /\ under = 0 /\ FreeSpace <= 0 /\ drain
             /\ \E n \in 1..Len(buf) : Taken(n) /\ Store(Rest(n))
    <2>0. PICK n \in 1..Len(buf) : Taken(n) /\ Store(Rest(n))
      BY <1>2
    <2> DEFINE k == Rest(n)
    <2>1. /\ buf' = Longer(k, todo) /\ todo' = Others(todo)
          /\ op' = IF Others(todo) = <<>> /\ op = "cat" THEN "idle" ELSE op
          /\ sect' = IF inSection THEN sect + 1 ELSE sect
          /\ error' = error /\ under' = 0
      BY <1>2, <2>0, SMT DEF Store, Longer, Others
    <2>2. /\ out' \in Seq(Chars) /\ k \in Seq(Chars) /\ size' = size
          /\ Len(out') = Len(out) + n /\ Len(k) = Len(buf) - n
          /\ Joint(out', k) = Joint(out, buf)
      BY <2>0, DrainTakes
    <2> HIDE DEF k
    <2>3. /\ buf' \in Seq(Chars) /\ Len(buf') = Len(k) + 1 /\ todo' \in Seq(Chars)
          /\ Joint(Joint(out', buf'), todo') = Joint(Joint(out', k), todo)
      <3>1. k \in Seq(Chars) /\ out' \in Seq(Chars) /\ todo \in Seq(Chars) /\ todo # <<>>
        BY <1>t, <1>0, <2>2
      <3>2. /\ Longer(k, todo) \in Seq(Chars) /\ Len(Longer(k, todo)) = Len(k) + 1
            /\ Others(todo) \in Seq(Chars)
            /\ Joint(Joint(out', Longer(k, todo)), Others(todo)) = Joint(Joint(out', k), todo)
        BY <3>1, ByteIsStored
      <3> QED
        BY <2>1, <3>2
    <2>4. Len(buf') < size' /\ Position' = Position + 1
      BY <1>t, <1>0, <1>2, <2>1, <2>2, <2>3 DEF Position
    <2> QED
      BY <1>t, <1>0, <2>1, <2>2, <2>3, <2>4
  <1>3. CASE under = 0 /\ FreeSpace <= 0 /\ ~drain /\ Extend(1) /\ Store(buf)
    <2>1. /\ buf' = Longer(buf, todo) /\ todo' = Others(todo) /\ out' = out
          /\ size' = extendsize(size + 1)
          /\ op' = IF Others(todo) = <<>> /\ op = "cat" THEN "idle" ELSE op
          /\ sect' = IF inSection THEN sect + 1 ELSE sect
          /\ error' = error /\ under' = 0
      BY <1>3, SMT DEF Store, Extend, Longer, Others
    <2>2. /\ buf' \in Seq(Chars) /\ Len(buf') = Len(buf) + 1 /\ todo' \in Seq(Chars)
          /\ Joint(Joint(out, buf'), todo') = Joint(Joint(out, buf), todo)
      BY <1>t, <1>0, <2>1, ByteIsStored
    <2>3. size' \in Nat /\ size' >= size + 1
      BY <1>t, <2>1, ExtendSizeIsEnough
    <2>4. Position' = Position + 1
      BY <1>t, <1>3, <2>1, <2>2 DEF Position
    <2> QED
      BY <1>t, <1>0, <2>1, <2>2, <2>3, <2>4
  <1> QED
    BY <1>1, <1>2, <1>3, <1>4, <1>z DEF PutByte

(* sbuf_vprintf stores the n bytes for which there is room. *)
LEMMA PrintBytesDoes ==
    ASSUME Shape, NEW n \in 0..Len(todo), op = "printf", n <= FreeSpace, PrintBytes(n)
    PROVE  /\ out' = out /\ buf' \in Seq(Chars) /\ todo' = <<>> /\ op' = "idle"
           /\ size' = size /\ Len(buf') < size' /\ Position' = Position + n
           /\ under' \in Nat /\ (under' > 0 => buf' = <<>>)
           /\ SubSeq(todo, n + 1, Len(todo)) \in Seq(Chars)
           /\ under = 0 =>
                 /\ under' = 0
                 /\ Joint(Joint(out', buf'), SubSeq(todo, n + 1, Len(todo)))
                      = Joint(Joint(out, buf), todo)
           /\ sect' = IF inSection THEN sect + n ELSE sect
  <1>t. /\ buf \in Seq(Chars) /\ out \in Seq(Chars) /\ todo \in Seq(Chars) /\ size \in Nat
        /\ Len(buf) \in Nat /\ Len(out) \in Nat /\ Len(buf) < size
        /\ under \in Nat /\ (under > 0 => buf = <<>>) /\ Len(todo) \in Nat
    BY DEF Shape
  <1> DEFINE a == SubSeq(todo, 1, n)
             b == SubSeq(todo, n + 1, Len(todo))
             c == SubSeq(todo, under + 1, n)
  <1>1. /\ a \in Seq(Chars) /\ Len(a) = n /\ b \in Seq(Chars) /\ Joint(a, b) = todo
    BY <1>t, CutInTwo, Zenon DEF Joint
  <1>2. /\ out' = out /\ buf' = Joint(buf, c) /\ todo' = <<>> /\ op' = "idle" /\ size' = size
        /\ under' = (IF under > n THEN under - n ELSE 0)
        /\ sect' = IF inSection THEN sect + n ELSE sect
    BY DEF PrintBytes, Count, Return, Joint
  <1>c. c \in Seq(Chars) /\ Len(c) = (IF under > n THEN 0 ELSE n - under)
    <2>1. CASE under > n
      <3>1. under + 1 \in Int /\ n \in Int /\ n < under + 1
        BY <1>t, <2>1
      <3>2. c = <<>>
        BY <3>1, SubSeqEmpty
      <3> HIDE DEF c
      <3> QED
        BY <2>1, <3>2
    <2>2. CASE ~(under > n)
      <3>1. \A i \in 1..Len(todo) : todo[i] \in Chars
        BY <1>t, ElementOfSeq
      <3>2. \A i \in under + 1..n : todo[i] \in Chars
        BY <1>t, <3>1
      <3>3. under + 1 \in Int /\ n \in Int
        BY <1>t
      <3>4. /\ c \in Seq(Chars)
            /\ Len(c) = IF under + 1 <= n THEN n - (under + 1) + 1 ELSE 0
        BY <3>2, <3>3, SubSeqProperties
      <3> HIDE DEF c
      <3> QED
        BY <1>t, <2>2, <3>4
    <2> QED
      BY <2>1, <2>2
  <1>d. under = 0 => c = a
    OBVIOUS
  <1> HIDE DEF a, b, c
  <1>3. Joint(buf, c) \in Seq(Chars) /\ Len(Joint(buf, c)) = Len(buf) + Len(c)
    BY <1>t, <1>c, Joined, Zenon
  <1>4. Len(buf) + Len(c) < size
    BY <1>t, <1>c DEF FreeSpace
  <1>5. Joint(out, buf) \in Seq(Chars)
    BY <1>t, Joined
  <1>6. Joint(out, Joint(buf, a)) = Joint(Joint(out, buf), a)
    BY <1>t, <1>1, Regroup
  <1>7. Joint(Joint(Joint(out, buf), a), b) = Joint(Joint(out, buf), Joint(a, b))
    BY <1>1, <1>5, Regroup
  <1>8. Position' = Position + n
    <2>1. Len(buf') = Len(buf) + Len(c) /\ out' = out /\ n \in Nat
      BY <1>t, <1>2, <1>3
    <2>2. CASE under > n
      <3>1. Len(c) = 0 /\ under' = under - n
        BY <1>2, <1>c, <2>2
      <3> QED
        BY <1>t, <2>1, <3>1 DEF Position
    <2>3. CASE ~(under > n)
      <3>1. Len(c) = n - under /\ under' = 0
        BY <1>2, <1>c, <2>3
      <3> QED
        BY <1>t, <2>1, <3>1 DEF Position
    <2> QED
      BY <2>2, <2>3
  <1>9. under' \in Nat /\ (under' > 0 => buf' = <<>>)
    <2>1. under > n => Len(buf') = 0 /\ buf' \in Seq(Chars)
      BY <1>t, <1>2, <1>3, <1>c
    <2>2. under > n => buf' = <<>>
      BY <2>1, EmptySeq
    <2> QED
      BY <1>t, <1>2, <2>2
  <1>10. under = 0 => under' = 0 /\ Joint(Joint(out, buf'), b) = Joint(Joint(out, buf), todo)
    BY <1>1, <1>2, <1>6, <1>7, <1>d
  <1>11. buf' \in Seq(Chars) /\ Len(buf') < size'
    BY <1>2, <1>3, <1>4
  <1> QED
    BY <1>1, <1>2, <1>8, <1>9, <1>10, <1>11 DEF b

(* A vsnprintf that fails takes a byte, or one more below none. *)
LEMMA PrintErrorDoes ==
    ASSUME Shape, PrintError
    PROVE  /\ buf' \in Seq(Chars) /\ Len(buf') < size /\ todo' = <<>> /\ op' = "idle"
           /\ under' \in Nat /\ (under' > 0 => buf' = <<>>)
           /\ Position' = Position - 1
           /\ sect' = IF inSection THEN sect - 1 ELSE sect
           /\ unreported' = TRUE /\ op = "printf"
           /\ UNCHANGED <<frame, size, error, out, text, marks, wrong>>
  <1>t. /\ buf \in Seq(Chars) /\ size \in Nat /\ Len(buf) \in Nat /\ Len(out) \in Nat
        /\ under \in Nat /\ (under > 0 => buf = <<>>) /\ Len(buf) < size /\ sect \in Int
    BY DEF Shape, PrintError
  <1>1. /\ todo' = <<>> /\ op' = "idle" /\ unreported' = TRUE /\ op = "printf"
        /\ sect' = (IF inSection THEN sect + (-1) ELSE sect)
        /\ UNCHANGED <<frame, size, error, out, text, marks, wrong>>
    BY DEF PrintError, Return, Count
  <1>2. sect' = (IF inSection THEN sect - 1 ELSE sect)
    BY <1>t, <1>1
  <1>3. CASE buf = <<>>
    <2>1. under' = under + 1 /\ buf' = buf
      BY <1>3 DEF PrintError
    <2>2. Position' = Position - 1
      BY <1>t, <1>1, <2>1 DEF Position
    <2> QED
      BY <1>t, <1>1, <1>2, <1>3, <2>1, <2>2
  <1>4. CASE buf # <<>>
    <2>1. buf' = SubSeq(buf, 1, Len(buf) - 1) /\ under' = under
      BY <1>4 DEF PrintError
    <2>2. Len(buf) - 1 \in 0..Len(buf) /\ under = 0
      BY <1>t, <1>4, EmptySeq
    <2>3. buf' \in Seq(Chars) /\ Len(buf') = Len(buf) - 1
      BY <1>t, <2>1, <2>2, CutInTwo, ZenonT(40)
    <2>4. Position' = Position - 1
      <3>1. Len(buf') = Len(buf) - 1 /\ under' = under /\ out' = out
        BY <1>1, <2>1, <2>3
      <3> QED
        BY <1>t, <3>1 DEF Position
    <2>5. Len(buf') < size /\ under' = 0
      BY <1>t, <2>1, <2>2, <2>3
    <2> QED
      BY <1>1, <1>2, <2>3, <2>4, <2>5
  <1> QED
    BY <1>3, <1>4

(* Bytes move to the drain, or the buffer grows: no byte is lost. *)
LEMMA RoomIsMade ==
    ASSUME Shape, PrintAgain \/ FinishDrain
    PROVE  /\ out' \in Seq(Chars) /\ buf' \in Seq(Chars)
           /\ size' \in Nat /\ Len(buf') < size'
           /\ Position' = Position /\ (under' > 0 => buf' = <<>>)
           /\ Joint(out', buf') = Joint(out, buf)
           /\ UNCHANGED <<frame, op, todo, under, error, finished, sect, text, marks, wrong, unreported>>
  <1>t. /\ buf \in Seq(Chars) /\ out \in Seq(Chars) /\ todo \in Seq(Chars) /\ size \in Nat
        /\ Len(buf) \in Nat /\ Len(out) \in Nat /\ Len(todo) \in Nat /\ Len(buf) < size
        /\ under \in Nat /\ (under > 0 => buf = <<>>)
    BY DEF Shape, PrintAgain, FinishDrain
  <1>0. UNCHANGED <<frame, op, todo, under, error, finished, sect, text, marks, wrong, unreported>>
    BY DEF PrintAgain, FinishDrain
  <1>1. ASSUME NEW n \in 1..Len(buf), Taken(n), buf' = Rest(n)
        PROVE  /\ out' \in Seq(Chars) /\ buf' \in Seq(Chars)
               /\ size' \in Nat /\ Len(buf') < size'
               /\ Position' = Position /\ (under' > 0 => buf' = <<>>)
               /\ Joint(out', buf') = Joint(out, buf)
    <2>1. /\ out' \in Seq(Chars) /\ Rest(n) \in Seq(Chars)
          /\ Len(out') = Len(out) + n /\ Len(Rest(n)) = Len(buf) - n
          /\ Joint(out', Rest(n)) = Joint(out, buf)
          /\ size' = size
      BY <1>1, DrainTakes
    <2>2. Position' = Position
      BY <1>0, <1>1, <1>t, <2>1 DEF Position
    <2>3. under' = 0
      BY <1>0, <1>1, <1>t
    <2> QED
      BY <1>1, <1>t, <2>1, <2>2, <2>3
  <1>2. CASE Extend(Len(todo) - FreeSpace) /\ buf' = buf /\ FreeSpace < Len(todo)
    <2> DEFINE m == size + (Len(todo) - FreeSpace)
    <2>1. m \in Nat /\ m >= size
      BY <1>2, <1>t DEF FreeSpace
    <2>2. size' = extendsize(m) /\ out' = out
      BY <1>2 DEF Extend
    <2> HIDE DEF m
    <2>3. size' \in Nat /\ size' >= m
      BY <2>1, <2>2, ExtendSizeIsEnough
    <2>4. Len(buf) < size'
      BY <1>t, <2>1, <2>3
    <2>5. out' = out /\ buf' = buf /\ under' = under
      BY <1>0, <1>2, <2>2
    <2>6. Position' = Position
      BY <2>5 DEF Position
    <2> QED
      BY <1>t, <1>0, <2>3, <2>4, <2>5, <2>6
  <1> QED
    BY <1>0, <1>1, <1>2 DEF PrintAgain, FinishDrain

(* sbuf_trim and sbuf_setpos keep a beginning of the buffer. *)
LEMMA TrimCuts ==
    ASSUME Shape, Trim
    PROVE  \E n \in 0..Len(buf) : Cut(n) /\ Count(n - Len(buf))
  <1> DEFINE kept == {n \in 0..Len(buf) : \A i \in (n + 1)..Len(buf) : buf[i] = Space}
             n == CHOOSE n \in kept : \A m \in kept : n <= m
  <1>1. Len(buf) \in Nat
    BY DEF Shape
  <1>2. kept \in SUBSET Nat /\ Len(buf) \in kept /\ kept \subseteq 0..Len(buf)
    BY <1>1
  <1>3. Cut(n) /\ Count(n - Len(buf))
    BY DEF Trim
  <1> HIDE DEF kept
  <1>4. \E x \in kept : \A m \in kept : x <= m
    BY <1>2, LeastOne
  <1>5. n \in kept
    BY <1>4
  <1> QED
    BY <1>2, <1>3, <1>5, Zenon

(* A buffer is cut to n bytes: the text is cut with it. *)
LEMMA CutDoes ==
    ASSUME Shape, NEW n \in 0..Len(buf), Cut(n)
    PROVE  /\ buf' \in Seq(Chars) /\ Len(buf') = n /\ text' \in Seq(Chars)
           /\ \A rest \in Seq(Chars) : Joint(Joint(out, buf), rest) = text =>
                 \E r \in Seq(Chars) : /\ Joint(Joint(out, buf'), r) = text'
                                       /\ rest = <<>> => r = <<>>
  <1> DEFINE a == SubSeq(buf, 1, n)
             b == SubSeq(buf, n + 1, Len(buf))
  <1>t. buf \in Seq(Chars) /\ out \in Seq(Chars) /\ text \in Seq(Chars)
    BY DEF Shape
  <1>1. a \in Seq(Chars) /\ Len(a) = n /\ b \in Seq(Chars) /\ Joint(a, b) = buf
    BY <1>t, CutInTwo, Zenon DEF Joint
  <1>2. buf' = a /\ text' = IF Joint(out, buf) = text THEN Joint(out, a) ELSE text
    BY DEF Cut, Joint
  <1>e. <<>> \in Seq(Chars) /\ \A s \in Seq(Chars) : Joint(s, <<>>) = s
    BY ConcatEmptySeq DEF Joint
  <1> HIDE DEF a, b
  <1>3. Joint(out, a) \in Seq(Chars)
    BY <1>t, <1>1, Joined
  <1>4. ASSUME NEW rest \in Seq(Chars), Joint(Joint(out, buf), rest) = text
        PROVE  \E r \in Seq(Chars) : /\ Joint(Joint(out, buf'), r) = text'
                                     /\ rest = <<>> => r = <<>>
    <2>1. CASE Joint(out, buf) = text
      BY <1>2, <1>3, <1>e, <2>1, Zenon
    <2>2. CASE Joint(out, buf) # text
      <3>1. rest # <<>>
        <4>1. Joint(out, buf) \in Seq(Chars)
          BY <1>t, Joined
        <4> QED
          BY <1>4, <1>e, <2>2, <4>1
      <3>2. Joint(b, rest) \in Seq(Chars)
        BY <1>1, <1>4, Joined
      <3>3. Joint(Joint(out, a), b) = Joint(out, buf)
        BY <1>t, <1>1, Regroup
      <3>4. Joint(Joint(Joint(out, a), b), rest) = Joint(Joint(out, a), Joint(b, rest))
        BY <1>1, <1>3, <1>4, Regroup
      <3> QED
        BY <1>2, <1>4, <2>2, <3>1, <3>2, <3>3, <3>4
    <2> QED
      BY <2>1, <2>2
  <1> QED
    BY <1>1, <1>2, <1>3, <1>4, <1>t

(* The padding of a section is text. *)
LEMMA PaddingIsText ==
    ASSUME Shape, NEW t, t = [i \in 1..Padding |-> Pad]
    PROVE  t \in Seq(Chars) /\ (error # "none" => t = <<>>)
  <1>1. Padding \in Nat /\ (error # "none" => Padding = 0)
    <2> DEFINE length == IF sect > -Multiple THEN sect ELSE sect + Wrap
    <2>1. length \in Int /\ Multiple \in Nat \ {0}
      BY SbufAssumption DEF Shape
    <2>2. Padding = IF error = "none" THEN (-length) % Multiple ELSE 0
      BY DEF Padding
    <2> HIDE DEF length
    <2>3. (-length) % Multiple \in Nat
      BY <2>1
    <2> QED
      BY <2>2, <2>3
  <1>2. Pad \in Chars
    BY SbufAssumption
  <1> DEFINE m == Padding
  <1> HIDE DEF m
  <1>3. [i \in 1..m |-> Pad] \in Seq(Chars)
    BY <1>1, <1>2 DEF m
  <1>4. m = 0 => [i \in 1..m |-> Pad] = <<>>
    OBVIOUS
  <1> QED
    BY <1>1, <1>3, <1>4 DEF m

(* What there is fits where it is kept, after every step. *)
LEMMA ShapeStep == Shape /\ [Next]_vars => Shape'
  <1> SUFFICES ASSUME Shape, [Next]_vars
               PROVE  Shape'
    OBVIOUS
  <1> USE DEF str, frame
  <1>t. /\ op \in Ops /\ error \in Errors /\ size \in Nat /\ sect \in Int
        /\ buf \in Seq(Chars) /\ out \in Seq(Chars)
        /\ text \in Seq(Chars) /\ todo \in Seq(Chars)
        /\ saved \in Seq(Int) /\ marks \in Seq(Int) /\ Len(saved) = Len(marks)
        /\ op # "none" => Len(buf) < size
        /\ op = "none" => buf = <<>>
        /\ under \in Nat /\ (under > 0 => buf = <<>>)
    BY DEF Shape
  <1>n. /\ Len(buf) \in Nat /\ Len(out) \in Nat /\ Len(todo) \in Nat
        /\ <<>> \in Seq(Chars) /\ <<>> \in Seq(Int) /\ Len(<<>>) = 0
    BY <1>t
  <1>1. CASE PutByte
    <2>1. /\ out' \in Seq(Chars) /\ buf' \in Seq(Chars) /\ todo' \in Seq(Chars)
          /\ size' \in Nat /\ Len(buf') < size' /\ op' \in {"cat", "pad", "idle"}
          /\ sect' \in Int /\ error' = error /\ UNCHANGED <<saved, text, marks>>
          /\ under' \in Nat /\ (under' > 0 => buf' = <<>>)
      BY <1>1, <1>t, PutByteDoes
    <2> QED
      BY <1>t, <2>1 DEF Shape, Ops
  <1>2. CASE PutByteFails
    <2>1. /\ UNCHANGED <<saved, text, marks, size, buf, under, out, sect>> /\ todo' = <<>>
          /\ op' \in {"pad", "idle"} /\ op # "none" /\ error' \in {"drain", "nomem"}
      BY <1>2 DEF PutByteFails, Return
    <2> QED
      BY <1>t, <1>n, <2>1 DEF Shape, Ops, Errors
  <1>3. ASSUME NEW n \in 0..Len(todo), op = "printf", n <= FreeSpace, PrintBytes(n),
               error' \in Errors, UNCHANGED <<saved, text, marks>>
        PROVE  Shape'
    <2>1. /\ out' = out /\ buf' \in Seq(Chars) /\ todo' = <<>> /\ op' = "idle"
          /\ size' = size /\ Len(buf') < size' /\ under' \in Nat /\ (under' > 0 => buf' = <<>>)
          /\ sect' = IF inSection THEN sect + n ELSE sect
      BY <1>3, PrintBytesDoes
    <2> QED
      BY <1>t, <1>n, <1>3, <2>1 DEF Shape, Ops
  <1>4. CASE PrintFits
    <2>1. Len(todo) \in 0..Len(todo) /\ Len(todo) <= FreeSpace
      BY <1>4, <1>t, <1>n DEF PrintFits, FreeSpace
    <2>2. /\ op = "printf" /\ PrintBytes(Len(todo)) /\ error' \in Errors
          /\ UNCHANGED <<saved, text, marks>>
      BY <1>4, <1>t DEF PrintFits, Errors
    <2> QED
      BY <1>3, <2>1, <2>2
  <1>5. CASE PrintFails
    <2>1. op = "printf" /\ FreeSpace \in 0..Len(todo) /\ FreeSpace <= FreeSpace
      BY <1>5, <1>t, <1>n DEF PrintFails, FreeSpace
    <2>2. /\ PrintBytes(FreeSpace) /\ error' \in Errors
          /\ UNCHANGED <<saved, text, marks>>
      BY <1>5, <1>t DEF PrintFails, Errors
    <2> QED
      BY <1>3, <2>1, <2>2
  <1>e. CASE PrintError
    <2>1. /\ buf' \in Seq(Chars) /\ Len(buf') < size /\ todo' = <<>> /\ op' = "idle"
          /\ under' \in Nat /\ (under' > 0 => buf' = <<>>)
          /\ sect' = IF inSection THEN sect - 1 ELSE sect
          /\ UNCHANGED <<saved, size, error, out, text, marks>>
      BY <1>e, PrintErrorDoes
    <2> QED
      BY <1>t, <1>n, <2>1 DEF Shape, Ops
  <1>6. CASE PrintAgain \/ FinishDrain
    <2>1. /\ out' \in Seq(Chars) /\ buf' \in Seq(Chars) /\ size' \in Nat /\ Len(buf') < size'
          /\ UNCHANGED <<op, todo, under, error, sect, text, marks, saved>>
          /\ under' > 0 => buf' = <<>>
      BY <1>6, RoomIsMade
    <2>2. op # "none"
      BY <1>6 DEF PrintAgain, FinishDrain
    <2> QED
      BY <1>t, <2>1, <2>2 DEF Shape
  <1>7. CASE FinishDrainFails \/ Finish \/ BeginFinish
    <2>1. /\ UNCHANGED <<saved, text, marks, size, buf, under, out, sect, todo>> /\ op # "none"
          /\ op' \in {"finish", "idle"} /\ error' \in {error, "drain"}
      BY <1>7 DEF FinishDrainFails, Finish, BeginFinish, Ready
    <2> QED
      BY <1>t, <2>1 DEF Shape, Ops, Errors
  <1>8. CASE PadDone
    <2>1. /\ UNCHANGED <<text, size, buf, under, out, todo, error>> /\ op = "pad" /\ op' = "idle"
          /\ sect' = Outer(saved[Len(saved)])
          /\ saved' = SubSeq(saved, 1, Len(saved) - 1)
          /\ marks' = SubSeq(marks, 1, Len(marks) - 1)
      BY <1>8 DEF PadDone
    <2>2. saved' \in Seq(Int) /\ marks' \in Seq(Int) /\ Len(saved') = Len(marks')
      BY <1>t, <2>1
    <2> QED
      BY <1>t, <2>1, <2>2 DEF Shape, Ops, Outer
  <1>9. CASE New
    <2>1. PICK n \in Sizes, own \in BOOLEAN :
            size' = IF auto' /\ ~own THEN extendsize(n) ELSE n
      BY <1>9 DEF New
    <2>2. n \in Nat /\ n >= 2
      BY SbufAssumption
    <2>3. size' \in Nat /\ size' >= n
      BY <2>1, <2>2, ExtendSizeIsEnough
    <2>4. /\ UNCHANGED <<todo, buf, under, error, out, sect, saved, text, marks>>
          /\ op = "none" /\ op' = "idle"
      BY <1>9 DEF New
    <2> QED
      BY <1>t, <1>n, <2>2, <2>3, <2>4 DEF Shape, Ops
  <1>10. CASE Delete
    <2>1. /\ UNCHANGED todo /\ op' = "none" /\ size' = 0 /\ buf' = <<>> /\ error' = "none" /\ under' = 0
          /\ sect' = 0 /\ saved' = <<>> /\ out' = <<>> /\ text' = <<>> /\ marks' = <<>>
      BY <1>10 DEF Delete
    <2> QED
      BY <1>t, <1>n, <2>1 DEF Shape, Ops, Errors
  <1>11. ASSUME Cleared, op # "none", op' \in {"idle", "cat"}, todo' \in Seq(Chars),
                text' \in Seq(Chars)
         PROVE  Shape'
    <2>1. /\ UNCHANGED <<size, out, saved>> /\ buf' = <<>> /\ error' = "none" /\ sect' = 0 /\ under' = 0
          /\ marks' = [i \in DOMAIN marks |-> Len(out)]
      BY <1>11 DEF Cleared
    <2>2. marks' \in Seq(Int) /\ Len(marks') = Len(marks)
      BY <1>t, <1>n, <2>1
    <2> QED
      BY <1>t, <1>n, <1>11, <2>1, <2>2 DEF Shape, Ops, Errors
  <1>12. CASE Clear
    BY <1>12, <1>11, <1>t DEF Clear
  <1>13. ASSUME NEW t \in Texts, Copy(t)
         PROVE  Shape'
    <2>1. t \in Seq(Chars)
      BY SbufAssumption
    <2>2. Joint(out, t) \in Seq(Chars)
      BY <1>t, <2>1, Joined
    <2>3. /\ Cleared /\ op # "none" /\ op' \in {"idle", "cat"} /\ todo' = t
          /\ text' = Joint(out, t)
      BY <1>13 DEF Copy, Ready, Joint
    <2> QED
      BY <1>11, <2>1, <2>2, <2>3
  <1>14. ASSUME NEW t \in Texts, Begin("cat", t) \/ Begin("printf", t)
         PROVE  Shape'
    <2>1. t \in Seq(Chars)
      BY SbufAssumption
    <2>2. Joint(text, t) \in Seq(Chars)
      BY <1>t, <2>1, Joined
    <2>3. /\ UNCHANGED <<size, buf, under, out, error, sect, saved, marks>> /\ todo' = t
          /\ op # "none" /\ op' \in {"cat", "printf"} /\ text' = Joint(text, t)
      BY <1>14 DEF Begin, Ready, Joint
    <2> QED
      BY <1>t, <2>1, <2>2, <2>3 DEF Shape, Ops
  <1>15. CASE SetPos \/ Trim
    <2>1. PICK n \in 0..Len(buf) : Cut(n)
      BY <1>15, TrimCuts DEF SetPos
    <2>2. buf' \in Seq(Chars) /\ Len(buf') = n /\ text' \in Seq(Chars)
      BY <2>1, CutDoes
    <2>3. UNCHANGED <<op, todo, size, under, error, out, saved, marks>> /\ op # "none"
      BY <1>15 DEF SetPos, Trim, Ready
    <2>5. under' > 0 => buf' = <<>>
      <3>1. under > 0 => Len(buf) = 0
        BY <1>t
      <3>2. under > 0 => Len(buf') = 0
        BY <1>n, <2>2, <3>1
      <3> QED
        BY <2>2, <2>3, <3>2, EmptySeq
    <2>4. sect' \in Int
      <3>1. CASE SetPos
        BY <1>t, <3>1 DEF SetPos
      <3>2. CASE Trim
        BY <1>t, <1>n, <3>2, TrimCuts DEF Count
      <3> QED
        BY <1>15, <3>1, <3>2
    <2> QED
      BY <1>t, <1>n, <2>2, <2>3, <2>4, <2>5 DEF Shape
  <1>d. CASE SetDrain
    <2>1. UNCHANGED <<op, todo, size, buf, under, error, out, saved, marks, sect, text>>
      BY <1>d DEF SetDrain
    <2> QED
      BY <1>t, <2>1 DEF Shape
  <1>16. CASE StartSection
    <2>1. /\ UNCHANGED <<op, todo, size, buf, under, out, error, text>>
          /\ saved' = Append(saved, IF inSection THEN sect ELSE -1)
          /\ sect' = IF inSection THEN 0 ELSE sect
          /\ marks' = Append(marks, Position)
      BY <1>16 DEF StartSection
    <2>2. Position \in Int
      BY <1>n, <1>t DEF Position
    <2>3. saved' \in Seq(Int) /\ marks' \in Seq(Int) /\ Len(saved') = Len(marks')
      BY <1>t, <2>1, <2>2
    <2> QED
      BY <1>t, <2>1, <2>3 DEF Shape
  <1>17. CASE EndSection
    <2>1. /\ UNCHANGED <<size, buf, under, out, error, sect, saved, marks>>
          /\ op # "none" /\ op' = "pad" /\ todo' = [i \in 1..Padding |-> Pad]
          /\ text' = IF error = "none" THEN Joint(text, todo') ELSE text
      BY <1>17 DEF EndSection, Ready, Joint
    <2>2. todo' \in Seq(Chars)
      BY <2>1, PaddingIsText
    <2>3. Joint(text, todo') \in Seq(Chars)
      BY <1>t, <2>2, Joined
    <2> QED
      BY <1>t, <2>1, <2>2, <2>3 DEF Shape, Ops
  <1>18. CASE UNCHANGED vars
    BY <1>18, <1>t DEF vars, Shape
  <1> QED
    BY <1>1, <1>2, <1>4, <1>5, <1>e, <1>6, <1>7, <1>8, <1>9, <1>10, <1>12, <1>13, <1>14, <1>15,
       <1>d, <1>16, <1>17, <1>18
    DEF Next, Work, Fails, Call

(* What was lost or is still to do stays the rest of the text. *)
LEMMA TextStep == Shape /\ TextInvariant /\ [Next]_vars => TextInvariant'
  <1> SUFFICES ASSUME Shape, TextInvariant, [Next]_vars
               PROVE  TextInvariant'
    OBVIOUS
  <1> USE DEF str, frame
  <1>t. /\ op \in Ops /\ size \in Nat /\ buf \in Seq(Chars) /\ out \in Seq(Chars)
        /\ text \in Seq(Chars) /\ todo \in Seq(Chars)
        /\ Len(buf) \in Nat /\ Len(todo) \in Nat /\ under \in Nat
        /\ op # "none" => Len(buf) < size
    BY DEF Shape
  <1>s. /\ <<>> \in Seq(Chars)
        /\ \A s \in Seq(Chars) : Joint(s, <<>>) = s /\ Joint(<<>>, s) = s
    BY ConcatEmptySeq DEF Joint
  <1>j. Joint(out, buf) \in Seq(Chars)
    BY <1>t, Joined
  <1>k. ASSUME UNCHANGED <<out, buf, under, text, todo, error, unreported>>,
               op' \notin {"cat", "printf", "pad"} => op \notin {"cat", "printf", "pad"},
               op' \in {"cat", "printf"} => op \in {"cat", "printf"},
               op' = "pad" => op = "pad" \/ op \notin {"cat", "printf", "pad"}
        PROVE  TextInvariant'
    BY <1>k DEF TextInvariant
  <1>1. CASE PutByte
    <2>1. /\ todo' \in Seq(Chars) /\ todo' = Others(todo) /\ todo # <<>> /\ op \in {"cat", "pad"}
          /\ op' = IF Others(todo) = <<>> /\ op = "cat" THEN "idle" ELSE op
          /\ under = 0 =>
                under' = 0 /\ Joint(Joint(out', buf'), todo') = Joint(Joint(out, buf), todo)
          /\ error' = error /\ text' = text /\ unreported' = unreported
      BY <1>1, PutByteDoes
    <2>2. error = "none"
      BY <2>1 DEF TextInvariant
    <2>3. ~unreported => under = 0 /\ Joint(Joint(out, buf), todo) = text
      BY <2>2 DEF TextInvariant
    <2> QED
      BY <2>1, <2>2, <2>3 DEF TextInvariant
  <1>2. CASE PutByteFails
    <2>1. /\ UNCHANGED <<text, buf, under, out, unreported>> /\ todo' = <<>>
          /\ op' \in {"pad", "idle"} /\ error' \in {"drain", "nomem"}
      BY <1>2 DEF PutByteFails, Return
    <2> QED
      BY <2>1 DEF TextInvariant
  <1>3. ASSUME NEW n \in 0..Len(todo), op = "printf", n <= FreeSpace, PrintBytes(n),
               text' = text,
               \/ n = Len(todo) /\ unreported' = unreported
               \/ unreported' = (unreported \/ error' = "none")
        PROVE  TextInvariant'
    <2> DEFINE rest == SubSeq(todo, n + 1, Len(todo))
    <2>1. /\ todo' = <<>> /\ op' = "idle" /\ rest \in Seq(Chars)
          /\ under = 0 =>
                under' = 0 /\ Joint(Joint(out', buf'), rest) = Joint(Joint(out, buf), todo)
      BY <1>3, PrintBytesDoes
    <2>2. ~unreported => under = 0 /\ Joint(Joint(out, buf), todo) = text
      BY <1>3 DEF TextInvariant
    <2>3. n = Len(todo) => rest = <<>>
      BY <1>t
    <2>4. ~unreported' => ~unreported /\ (n = Len(todo) \/ error' # "none")
      BY <1>3, Zenon
    <2> HIDE DEF rest
    <2> QED
      BY <1>3, <2>1, <2>2, <2>3, <2>4 DEF TextInvariant
  <1>4. CASE PrintFits
    <2>1. Len(todo) \in 0..Len(todo) /\ Len(todo) <= FreeSpace
      BY <1>4, <1>t DEF PrintFits, FreeSpace
    <2>2. op = "printf" /\ PrintBytes(Len(todo)) /\ text' = text /\ unreported' = unreported
      BY <1>4 DEF PrintFits
    <2> QED
      BY <1>3, <2>1, <2>2
  <1>5. CASE PrintFails
    <2>1. op = "printf" /\ FreeSpace \in 0..Len(todo) /\ FreeSpace <= FreeSpace
      BY <1>5, <1>t DEF PrintFails, FreeSpace
    <2>2. PrintBytes(FreeSpace) /\ text' = text /\ unreported' = (unreported \/ error' = "none")
      BY <1>5 DEF PrintFails
    <2> QED
      BY <1>3, <2>1, <2>2
  <1>e. CASE PrintError
    <2>1. todo' = <<>> /\ op' = "idle" /\ unreported' = TRUE
      BY <1>e, PrintErrorDoes
    <2> QED
      BY <2>1 DEF TextInvariant
  <1>6. CASE PrintAgain \/ FinishDrain
    <2>1. /\ Joint(out', buf') = Joint(out, buf)
          /\ UNCHANGED <<op, todo, under, error, text, unreported>>
      BY <1>6, RoomIsMade
    <2> QED
      BY <2>1 DEF TextInvariant
  <1>7. CASE FinishDrainFails
    <2>1. UNCHANGED <<text, buf, under, out, unreported, todo, op>> /\ op = "finish" /\ error' = "drain"
      BY <1>7 DEF FinishDrainFails
    <2> QED
      BY <2>1 DEF TextInvariant
  <1>8. CASE Finish \/ BeginFinish
    <2>1. UNCHANGED <<out, buf, under, text, todo, error, unreported>>
      BY <1>8 DEF Finish, BeginFinish
    <2>2. op \in {"finish", "idle"} /\ op' \in {"finish", "idle"}
      BY <1>8 DEF Finish, BeginFinish, Ready
    <2> QED
      BY <1>k, <2>1, <2>2
  <1>9. CASE PadDone
    <2>1. /\ UNCHANGED <<out, buf, under, text, todo, error, unreported>> /\ todo = <<>> /\ op' = "idle"
      BY <1>9 DEF PadDone
    <2> QED
      BY <2>1 DEF TextInvariant
  <1>10. CASE New
    <2>1. UNCHANGED <<out, buf, under, text, todo, error, unreported>> /\ op = "none" /\ op' = "idle"
      BY <1>10 DEF New
    <2> QED
      BY <1>k, <2>1
  <1>11. CASE Delete
    <2>1. /\ todo' = todo /\ op = "idle" /\ op' = "none" /\ buf' = <<>> /\ error' = "none"
          /\ under' = 0 /\ out' = <<>> /\ text' = <<>>
      BY <1>11 DEF Delete
    <2>2. todo = <<>>
      BY <2>1 DEF TextInvariant
    <2>3. Joint(Joint(<<>>, <<>>), <<>>) = <<>>
      BY <1>s, Zenon
    <2> QED
      BY <1>s, <2>1, <2>2, <2>3, Zenon DEF TextInvariant
  <1>12. CASE Clear
    <2>1. /\ todo' = todo /\ op = "idle" /\ op' = op /\ buf' = <<>> /\ error' = "none"
          /\ under' = 0 /\ out' = out /\ text' = out
      BY <1>12 DEF Clear, Cleared
    <2>2. todo = <<>>
      BY <2>1 DEF TextInvariant
    <2>3. Joint(Joint(out, <<>>), <<>>) = out
      BY <1>s, <1>t
    <2> QED
      BY <1>s, <2>1, <2>2, <2>3, Zenon DEF TextInvariant
  <1>13. ASSUME NEW t \in Texts, Copy(t)
         PROVE  TextInvariant'
    <2>1. t \in Seq(Chars)
      BY SbufAssumption
    <2>2. /\ op' = "cat" /\ todo' = t /\ buf' = <<>> /\ under' = 0 /\ error' = "none" /\ out' = out
          /\ text' = Joint(out, t)
      BY <1>13 DEF Copy, Cleared, Joint
    <2>3. Joint(Joint(out, <<>>), t) = Joint(out, t)
      BY <1>s, <1>t
    <2> QED
      BY <2>1, <2>2, <2>3 DEF TextInvariant
  <1>14. ASSUME NEW t \in Texts, Begin("cat", t) \/ Begin("printf", t)
         PROVE  TextInvariant'
    <2>1. t \in Seq(Chars)
      BY SbufAssumption
    <2>2. /\ op = "idle" /\ op' \in {"cat", "printf"} /\ todo' = t /\ text' = Joint(text, t)
          /\ UNCHANGED <<buf, under, out, error, unreported>> /\ error = "none"
      BY <1>14 DEF Begin, Ready, Joint
    <2>3. ~unreported => Joint(out, buf) = text
      BY <1>s, <1>j, <2>2 DEF TextInvariant
    <2> QED
      BY <2>1, <2>2, <2>3 DEF TextInvariant
  <1>15. CASE SetPos \/ Trim
    <2>1. PICK n \in 0..Len(buf) : Cut(n)
      BY <1>15, TrimCuts DEF SetPos
    <2>2. \A rest \in Seq(Chars) : Joint(Joint(out, buf), rest) = text =>
             \E r \in Seq(Chars) : /\ Joint(Joint(out, buf'), r) = text'
                                   /\ rest = <<>> => r = <<>>
      BY <2>1, CutDoes
    <2>3. UNCHANGED <<op, todo, under, error, out, unreported>> /\ op = "idle"
      BY <1>15 DEF SetPos, Trim, Ready
    <2>4. todo = <<>>
      BY <2>3 DEF TextInvariant
    <2> QED
      BY <2>2, <2>3, <2>4 DEF TextInvariant
  <1>16. CASE StartSection \/ SetDrain
    <2>1. UNCHANGED <<op, out, buf, under, text, todo, error, unreported>>
      BY <1>16 DEF StartSection, SetDrain
    <2> QED
      BY <1>k, <2>1
  <1>17. CASE EndSection
    <2>1. /\ UNCHANGED <<buf, under, out, error, unreported>> /\ op = "idle"
          /\ op' = "pad" /\ todo' = [i \in 1..Padding |-> Pad]
          /\ text' = IF error = "none" THEN Joint(text, todo') ELSE text
      BY <1>17 DEF EndSection, Ready, Joint
    <2>2. todo' \in Seq(Chars) /\ (error # "none" => todo' = <<>>)
      BY <2>1, PaddingIsText, Zenon
    <2>3. error = "none" /\ ~unreported => Joint(out, buf) = text
      BY <1>s, <1>j, <2>1 DEF TextInvariant
    <2>4. UNCHANGED <<buf, under, out, error, unreported>> /\ op' = "pad"
          /\ text' = IF error = "none" THEN Joint(text, todo') ELSE text
      BY <2>1
    <2> QED
      BY <2>2, <2>3, <2>4 DEF TextInvariant
  <1>18. CASE UNCHANGED vars
    <2>1. UNCHANGED <<op, out, buf, under, text, todo, error, unreported>>
      BY <1>18 DEF vars
    <2> QED
      BY <1>k, <2>1
  <1> QED
    BY <1>1, <1>2, <1>4, <1>5, <1>e, <1>6, <1>7, <1>8, <1>9, <1>10, <1>11, <1>12, <1>13, <1>14,
       <1>15, <1>16, <1>17, <1>18
    DEF Next, Work, Fails, Call

(* Sections are counted right, after every step. *)
LEMMA SectionStep == Shape /\ SectionInvariant /\ [Next]_vars => SectionInvariant'
  <1> SUFFICES ASSUME Shape, SectionInvariant, [Next]_vars
               PROVE  SectionInvariant'
    OBVIOUS
  <1> USE DEF str, frame
  <1>t. /\ op \in Ops /\ size \in Nat /\ sect \in Int /\ buf \in Seq(Chars) /\ out \in Seq(Chars)
        /\ todo \in Seq(Chars) /\ Len(buf) \in Nat /\ Len(out) \in Nat /\ Len(todo) \in Nat
        /\ saved \in Seq(Int) /\ marks \in Seq(Int) /\ Len(saved) = Len(marks)
        /\ op # "none" => Len(buf) < size
        /\ under \in Nat
    BY DEF Shape
  <1>p. Position \in Int
    BY <1>t DEF Position
  <1>m. saved # <<>> => Len(marks) \in Nat \ {0} /\ marks[Len(marks)] \in Int
    BY <1>t
  <1>c. ASSUME NEW n \in Int, UNCHANGED <<saved, marks, inSection, wrong>>,
               Position' = Position + n,
               sect' = IF inSection THEN sect + n ELSE sect,
               op' = "pad" => op = "pad"
        PROVE  SectionInvariant'
    <2>1. Position' = Position + n /\ Position \in Int
      BY <1>c, <1>p
    <2>2. inSection /\ Len(saved) > wrong => sect' = Position' - marks'[Len(marks')]
      <3> SUFFICES ASSUME inSection, Len(saved) > wrong
                   PROVE  sect' = Position' - marks'[Len(marks')]
        OBVIOUS
      <3>1. saved # <<>> /\ sect = Position - marks[Len(marks)]
        BY DEF SectionInvariant
      <3>2. marks[Len(marks)] \in Int
        BY <1>m, <3>1
      <3>3. sect' = sect + n /\ marks' = marks
        BY <1>c
      <3> QED
        BY <2>1, <3>1, <3>2, <3>3
    <2> QED
      BY <1>c, <2>2 DEF SectionInvariant
  <1>k. ASSUME UNCHANGED <<saved, marks, inSection, wrong, out, buf, under, sect>>,
               op' = "pad" => op = "pad" \/ inSection
        PROVE  SectionInvariant'
    <2>1. Position' = Position
      BY <1>k DEF Position
    <2> QED
      BY <1>k, <2>1 DEF SectionInvariant
  <1>1. CASE PutByte
    <2>1. /\ Position' = Position + 1
          /\ sect' = IF inSection THEN sect + 1 ELSE sect
          /\ op' = IF Others(todo) = <<>> /\ op = "cat" THEN "idle" ELSE op
          /\ UNCHANGED <<saved, marks, inSection, wrong>>
      BY <1>1, PutByteDoes
    <2> QED
      BY <1>c, <2>1
  <1>2. CASE PutByteFails
    <2>1. /\ UNCHANGED <<saved, marks, inSection, wrong, out, buf, under, sect>>
          /\ op' = "pad" => op = "pad"
      BY <1>2 DEF PutByteFails, Return
    <2> QED
      BY <1>k, <2>1
  <1>3. ASSUME NEW n \in 0..Len(todo), op = "printf", n <= FreeSpace, PrintBytes(n),
               UNCHANGED <<saved, marks, inSection, wrong>>
        PROVE  SectionInvariant'
    <2>1. /\ op' = "idle" /\ Position' = Position + n
          /\ sect' = IF inSection THEN sect + n ELSE sect
      BY <1>3, PrintBytesDoes
    <2> QED
      BY <1>c, <1>3, <2>1
  <1>4. CASE PrintFits
    <2>1. Len(todo) \in 0..Len(todo) /\ Len(todo) <= FreeSpace
      BY <1>4, <1>t DEF PrintFits, FreeSpace
    <2>2. op = "printf" /\ PrintBytes(Len(todo)) /\ UNCHANGED <<saved, marks, inSection, wrong>>
      BY <1>4 DEF PrintFits
    <2> QED
      BY <1>3, <2>1, <2>2
  <1>5. CASE PrintFails
    <2>1. op = "printf" /\ FreeSpace \in 0..Len(todo) /\ FreeSpace <= FreeSpace
      BY <1>5, <1>t DEF PrintFails, FreeSpace
    <2>2. PrintBytes(FreeSpace) /\ UNCHANGED <<saved, marks, inSection, wrong>>
      BY <1>5 DEF PrintFails
    <2> QED
      BY <1>3, <2>1, <2>2
  <1>e. CASE PrintError
    <2>1. /\ Position' = Position + (-1)
          /\ sect' = IF inSection THEN sect + (-1) ELSE sect
          /\ op' = "idle" /\ UNCHANGED <<saved, marks, inSection, wrong>>
      BY <1>e, <1>t, <1>p, PrintErrorDoes
    <2> QED
      BY <1>c, <2>1
  <1>6. CASE PrintAgain \/ FinishDrain
    <2>1. /\ Position' = Position + 0
          /\ sect' = IF inSection THEN sect + 0 ELSE sect
          /\ UNCHANGED <<op, saved, marks, inSection, wrong>>
      BY <1>6, <1>t, <1>p, RoomIsMade
    <2> QED
      BY <1>c, <2>1
  <1>7. CASE FinishDrainFails \/ Finish \/ BeginFinish
    <2>1. UNCHANGED <<saved, marks, inSection, wrong, out, buf, under, sect>> /\ op' # "pad"
      BY <1>7 DEF FinishDrainFails, Finish, BeginFinish
    <2> QED
      BY <1>k, <2>1
  <1>8. CASE PadDone
    <2> DEFINE m == Len(saved)
               old == saved[m]
    <2>1. /\ op = "pad" /\ op' = "idle" /\ UNCHANGED <<out, buf, under>>
          /\ wrong' = (IF wrong < m THEN wrong ELSE m - 1)
          /\ inSection' = (old # -1)
          /\ sect' = IF old = -1 THEN 0 ELSE sect + old
          /\ saved' = SubSeq(saved, 1, m - 1)
          /\ marks' = SubSeq(marks, 1, m - 1)
      BY <1>8, <1>t DEF PadDone, Outer
    <2>2. /\ inSection /\ saved # <<>> /\ wrong \in 0..m
          /\ m > wrong => sect = Position - marks[m]
      BY <1>t, <2>1 DEF SectionInvariant
    <2>3. m \in Nat \ {0} /\ m \in DOMAIN saved /\ DOMAIN saved = 1..m
      BY <1>t, <2>2
    <2>4. /\ DOMAIN saved' = 1..(m - 1) /\ Len(marks') = m - 1 /\ Len(saved') = m - 1
          /\ \A i \in 1..(m - 1) : saved'[i] = saved[i] /\ marks'[i] = marks[i]
      BY <1>t, <2>1, <2>3
    <2>5. Position' = Position /\ Position \in Int
      BY <1>t, <2>1 DEF Position
    <2>w. /\ wrong' \in 0..(m - 1)
          /\ \A i \in 1..(m - 1) : i > wrong' => i > wrong /\ m > wrong
      BY <2>1, <2>2, <2>3
    <2>6. old # -1 => m # 1 /\ (m - 1 > wrong => old = marks[m] - marks[m - 1])
      BY <2>3 DEF SectionInvariant
    <2>7. \A i \in 1..m : marks[i] \in Int
      BY <1>t
    <2>8. inSection' => /\ saved' # <<>>
                        /\ Len(saved') > wrong' => sect' = Position' - marks'[Len(marks')]
      <3> SUFFICES ASSUME old # -1
                   PROVE  /\ saved' # <<>>
                          /\ m - 1 > wrong' => sect' = Position' - marks'[Len(marks')]
        BY <2>1, <2>4
      <3>1. m - 1 \in 1..(m - 1)
        BY <2>3, <2>6
      <3>2. saved' # <<>>
        BY <2>4, <3>1
      <3>3. marks'[Len(marks')] = marks[m - 1]
        BY <2>4, <3>1
      <3>4. marks[m] \in Int /\ marks[m - 1] \in Int
        BY <2>3, <2>7, <3>1
      <3>5. m - 1 > wrong' => sect' = (Position - marks[m]) + (marks[m] - marks[m - 1])
        <4>1. m - 1 > wrong' => m > wrong /\ m - 1 > wrong
          BY <2>w, <3>1
        <4> QED
          BY <2>1, <2>2, <2>6, <4>1
      <3> HIDE DEF m, old
      <3> QED
        BY <2>5, <3>2, <3>3, <3>4, <3>5
    <2>9. ~inSection' => sect' = 0
      BY <2>1, Zenon
    <2>10. \A i \in DOMAIN saved' : saved'[i] # -1 =>
              i # 1 /\ (i - 1 > wrong' => saved'[i] = marks'[i] - marks'[i - 1])
      <3> SUFFICES ASSUME NEW i \in 1..(m - 1), saved[i] # -1
                   PROVE  i # 1 /\ (i - 1 > wrong' => saved[i] = marks'[i] - marks'[i - 1])
        BY <2>4
      <3>1. i # 1 /\ (i - 1 > wrong => saved[i] = marks[i] - marks[i - 1])
        BY <2>3 DEF SectionInvariant
      <3>2. i - 1 \in 1..(m - 1)
        BY <2>3, <3>1
      <3>3. i - 1 > wrong' => i - 1 > wrong
        BY <2>w, <3>2
      <3> QED
        BY <2>4, <3>1, <3>2, <3>3
    <2>11. wrong' \in 0..Len(saved')
      BY <2>4, <2>w
    <2> QED
      BY <2>1, <2>8, <2>9, <2>10, <2>11 DEF SectionInvariant
  <1>9. CASE New
    <2>1. UNCHANGED <<saved, marks, inSection, wrong, out, buf, under, sect>> /\ op' # "pad"
      BY <1>9 DEF New
    <2> QED
      BY <1>k, <2>1
  <1>10. CASE Delete
    BY <1>10 DEF Delete, SectionInvariant
  <1>11. ASSUME Cleared, op' # "pad"
         PROVE  SectionInvariant'
    <2>1. /\ UNCHANGED <<out, saved, inSection>> /\ buf' = <<>> /\ sect' = 0 /\ under' = 0
          /\ wrong' = (IF saved = <<>> THEN 0 ELSE Len(saved) - 1)
          /\ marks' = [i \in DOMAIN marks |-> Len(out)]
      BY <1>11 DEF Cleared
    <2>2. Position' = Len(out)
      BY <1>t, <2>1 DEF Position
    <2>3. marks \in Seq(Int) /\ Len(out) \in Int
      BY <1>t
    <2>4. Len(marks') = Len(marks)
      BY <2>1, <2>3
    <2>5. inSection => saved # <<>> /\ marks'[Len(marks')] = Len(out)
      <3> SUFFICES ASSUME inSection
                   PROVE  saved # <<>> /\ marks'[Len(marks')] = Len(out)
        OBVIOUS
      <3>1. saved # <<>>
        BY DEF SectionInvariant
      <3>2. Len(marks) \in DOMAIN marks
        BY <1>t, <1>m, <3>1
      <3> QED
        BY <2>1, <2>4, <3>1, <3>2
    <2>6. wrong' \in 0..Len(saved) /\ \A i \in DOMAIN saved : ~(i - 1 > wrong')
      <3>1. Len(saved) \in Nat /\ DOMAIN saved = 1..Len(saved) /\ (saved # <<>> => Len(saved) # 0)
        BY <1>t, EmptySeq
      <3>2. saved = <<>> => Len(saved) = 0
        OBVIOUS
      <3> QED
        BY <2>1, <3>1, <3>2
    <2>7. \A i \in DOMAIN saved : saved[i] # -1 => i # 1
      BY DEF SectionInvariant
    <2>8. inSection => sect' = Position' - marks'[Len(marks')]
      BY <1>t, <2>1, <2>2, <2>5
    <2> QED
      BY <1>11, <2>1, <2>5, <2>6, <2>7, <2>8 DEF SectionInvariant
  <1>12. ASSUME \/ Clear
                \/ \E t \in Texts : Copy(t)
         PROVE  SectionInvariant'
    BY <1>12, <1>11 DEF Clear, Copy
  <1>13. ASSUME NEW t \in Texts, Begin("cat", t) \/ Begin("printf", t)
         PROVE  SectionInvariant'
    <2>1. UNCHANGED <<saved, marks, inSection, wrong, out, buf, under, sect>> /\ op' # "pad"
      BY <1>13 DEF Begin
    <2> QED
      BY <1>k, <2>1
  <1>14. CASE SetPos
    <2>1. UNCHANGED <<saved, marks, inSection, wrong, sect, op>> /\ ~inSection
      BY <1>14 DEF SetPos
    <2> QED
      BY <2>1 DEF SectionInvariant
  <1>15. CASE Trim
    <2>1. PICK n \in 0..Len(buf) : Cut(n) /\ Count(n - Len(buf))
      BY <1>15, TrimCuts
    <2>2. Len(buf') = n
      BY <2>1, CutDoes
    <2>3. UNCHANGED <<saved, marks, inSection, wrong, op, out, under>>
      BY <1>15 DEF Trim
    <2>4. n - Len(buf) \in Int /\ Position' = Position + (n - Len(buf))
      BY <1>t, <2>2, <2>3 DEF Position
    <2>5. sect' = IF inSection THEN sect + (n - Len(buf)) ELSE sect
      BY <2>1 DEF Count
    <2> QED
      BY <1>c, <2>3, <2>4, <2>5
  <1>d. CASE SetDrain
    <2>1. UNCHANGED <<saved, marks, inSection, wrong, out, buf, under, sect>> /\ op' # "pad"
      BY <1>d DEF SetDrain, Ready
    <2> QED
      BY <1>k, <2>1
  <1>16. CASE StartSection
    <2> DEFINE m == Len(saved) + 1
    <2>1. /\ UNCHANGED <<op, buf, under, out, wrong>> /\ op = "idle" /\ inSection' = TRUE
          /\ saved' = Append(saved, IF inSection THEN sect ELSE -1)
          /\ sect' = IF inSection THEN 0 ELSE sect
          /\ marks' = Append(marks, Position)
      BY <1>16 DEF StartSection, Ready
    <2>2. Position \in Int /\ Position' = Position
      BY <1>t, <2>1 DEF Position
    <2>3. /\ DOMAIN saved' = 1..m /\ m \in Nat \ {0} /\ Len(marks') = m
          /\ saved'[m] = (IF inSection THEN sect ELSE -1) /\ marks'[m] = Position
          /\ \A i \in 1..(m - 1) : saved'[i] = saved[i] /\ marks'[i] = marks[i]
          /\ DOMAIN saved = 1..(m - 1)
      BY <1>t, <2>1, <2>2
    <2>4. sect' = 0
      BY <2>1 DEF SectionInvariant
    <2>5. saved' # <<>> /\ sect' = Position' - marks'[Len(marks')]
      BY <2>2, <2>3, <2>4
    <2>w. wrong \in 0..(m - 1) /\ m \in Nat /\ Len(saved') = m
      BY <1>t, <2>1 DEF SectionInvariant
    <2>6. ASSUME NEW i \in DOMAIN saved', saved'[i] # -1
          PROVE  i # 1 /\ (i - 1 > wrong => saved'[i] = marks'[i] - marks'[i - 1])
      <3>1. CASE i = m
        <4>1. inSection
          BY <2>3, <2>6, <3>1
        <4>2. saved # <<>> /\ (m - 1 > wrong => sect = Position - marks[Len(marks)])
          <5>1. m - 1 = Len(saved)
            BY <1>t
          <5> HIDE DEF m
          <5> QED
            BY <4>1, <5>1 DEF SectionInvariant
        <4>3. m - 1 = Len(marks) /\ m - 1 \in 1..(m - 1) /\ m # 1
          BY <1>t, <4>2, EmptySeq
        <4> QED
          BY <2>3, <3>1, <4>1, <4>2, <4>3
      <3>2. CASE i # m
        <4>1. i \in 1..(m - 1)
          BY <2>3, <3>2
        <4>2. i # 1 /\ (i - 1 > wrong => saved[i] = marks[i] - marks[i - 1])
          BY <2>3, <2>6, <4>1 DEF SectionInvariant
        <4>3. i - 1 \in 1..(m - 1)
          BY <2>3, <4>1, <4>2
        <4> QED
          BY <2>3, <4>1, <4>2, <4>3
      <3> QED
        BY <3>1, <3>2
    <2>7. wrong' \in 0..Len(saved')
      BY <2>1, <2>w
    <2>8. wrong' = wrong /\ op' # "pad" /\ inSection'
      BY <2>1
    <2> QED
      BY <2>5, <2>6, <2>7, <2>8, Zenon DEF SectionInvariant
  <1>17. CASE EndSection
    <2>1. UNCHANGED <<saved, marks, inSection, wrong, out, buf, under, sect>> /\ inSection
      BY <1>17 DEF EndSection
    <2> QED
      BY <1>k, <2>1
  <1>18. CASE UNCHANGED vars
    BY <1>18, <1>k DEF vars
  <1> QED
    BY <1>1, <1>2, <1>4, <1>5, <1>e, <1>6, <1>7, <1>8, <1>9, <1>10, <1>12, <1>13, <1>14, <1>15,
       <1>d, <1>16, <1>17, <1>18
    DEF Next, Work, Fails, Call

(* What is missing to a multiple makes one. *)
LEMMA Rounded ==
    ASSUME NEW x \in Int, NEW m \in Nat \ {0}
    PROVE  (-x) % m \in 0..(m - 1) /\ (x + ((-x) % m)) % m = 0
  <1> DEFINE r == (-x) % m
             q == (-x) \div m
  <1>1. r \in 0..(m - 1) /\ q \in Int /\ -x = m * q + r
    OBVIOUS
  <1> HIDE DEF r, q
  <1>2. x + r = m * (-q) /\ -q \in Int
    BY <1>1
  <1>3. \A k \in Int : (m * k) % m = 0
    OBVIOUS
  <1>4. (x + r) % m = 0
    BY <1>2, <1>3
  <1> QED
    BY <1>1, <1>4 DEF r

(* A byte of padding that is stored is one less to store. *)
LEMMA PadStep ==
    Shape /\ SectionInvariant /\ PadInvariant /\ [Next]_vars => PadInvariant'
  <1> SUFFICES ASSUME Shape, SectionInvariant, PadInvariant, [Next]_vars
               PROVE  PadInvariant'
    OBVIOUS
  <1> USE DEF str, frame
  <1>t. sect \in Int /\ todo \in Seq(Chars) /\ Len(todo) \in Nat
    BY DEF Shape
  <1>n. ASSUME op' # "pad" \/ error' # "none"
        PROVE  PadInvariant'
    BY <1>n DEF PadInvariant
  <1>1. CASE PutByte
    <2>1. CASE op = "pad"
      <3>1. inSection
        BY <2>1 DEF SectionInvariant
      <3>2. /\ todo' = Tail(todo) /\ todo # <<>> /\ sect' = sect + 1
            /\ op' = op /\ error' = error
        BY <1>1, <2>1, <3>1, PutByteDoes DEF Others
      <3>3. Len(todo') = Len(todo) - 1
        BY <1>t, <3>2
      <3>4. sect' + Len(todo') = sect + Len(todo)
        BY <1>t, <3>2, <3>3
      <3> QED
        BY <3>2, <3>4 DEF PadInvariant
    <2>2. CASE op # "pad"
      <3>1. op' # "pad"
        BY <1>1, <2>2, PutByteDoes
      <3> QED
        BY <1>n, <3>1
    <2> QED
      BY <2>1, <2>2
  <1>2. CASE PutByteFails
    <2>1. error' # "none"
      BY <1>2 DEF PutByteFails
    <2> QED
      BY <1>n, <2>1
  <1>3. CASE PrintFits \/ PrintFails \/ PrintError \/ PrintAgain
    <2>1. op' # "pad"
      BY <1>3 DEF PrintFits, PrintFails, PrintError, PrintAgain, PrintBytes, Return
    <2> QED
      BY <1>n, <2>1
  <1>4. CASE FinishDrain \/ FinishDrainFails \/ Finish \/ PadDone \/ New \/ Delete \/ BeginFinish
    <2>1. op' # "pad"
      BY <1>4 DEF FinishDrain, FinishDrainFails, Finish, PadDone, New, Delete, BeginFinish
    <2> QED
      BY <1>n, <2>1
  <1>5. CASE Clear \/ SetDrain \/ SetPos \/ Trim \/ StartSection
    <2>1. op' # "pad"
      BY <1>5 DEF Clear, SetDrain, SetPos, Trim, StartSection, Ready
    <2> QED
      BY <1>n, <2>1
  <1>6. ASSUME NEW t \in Texts, Begin("cat", t) \/ Begin("printf", t) \/ Copy(t)
        PROVE  PadInvariant'
    <2>1. op' # "pad"
      BY <1>6 DEF Begin, Copy
    <2> QED
      BY <1>n, <2>1
  <1>7. CASE EndSection
    <2> DEFINE p == Padding
    <2>1. sect' = sect /\ error' = error /\ todo' = [i \in 1..p |-> Pad]
      BY <1>7 DEF EndSection
    <2>2. Multiple \in Nat \ {0} /\ Wrap \in 0..(Multiple - 1)
      BY SbufAssumption
    <2>3. CASE error = "none"
      <3>1. CASE sect > -Multiple
        <4>1. p = (-sect) % Multiple
          BY <2>3, <3>1 DEF Padding
        <4>2. p \in Nat /\ (sect + p) % Multiple = 0
          BY <1>t, <2>2, <4>1, Rounded
        <4> HIDE DEF p
        <4>3. Len(todo') = p
          BY <2>1, <4>2
        <4> QED
          BY <2>1, <4>2, <4>3 DEF PadInvariant
      <3>2. CASE ~(sect > -Multiple)
        <4> DEFINE x == sect + Wrap
        <4>1. p = (-x) % Multiple /\ x \in Int
          BY <1>t, <2>2, <2>3, <3>2 DEF Padding
        <4> HIDE DEF x
        <4>2. p \in 0..(Multiple - 1)
          BY <2>2, <4>1, Rounded
        <4> HIDE DEF p
        <4>3. Len(todo') = p
          BY <2>1, <4>2
        <4>4. sect' + Len(todo') < 0
          BY <1>t, <2>1, <2>2, <3>2, <4>2, <4>3
        <4>5. ~(sect' + Len(todo') >= 0)
          BY <1>t, <2>1, <4>2, <4>3, <4>4
        <4> QED
          BY <4>5 DEF PadInvariant
      <3> QED
        BY <3>1, <3>2
    <2> QED
      BY <1>n, <2>1, <2>3
  <1>8. CASE UNCHANGED vars
    BY <1>8 DEF vars, PadInvariant
  <1> QED
    BY <1>1, <1>2, <1>3, <1>4, <1>5, <1>6, <1>7, <1>8 DEF Next, Work, Fails, Call

(* Sizes, texts and sections are right in every state. *)
THEOREM InvariantHolds == Spec => [](Shape /\ TextInvariant /\ SectionInvariant /\ PadInvariant)
  <1>1. Init => Shape
    BY DEF Init, Empty, Shape, Ops, Errors
  <1>2. Init => TextInvariant
    <2>1. <<>> \in Seq(Chars) /\ Joint(Joint(<<>>, <<>>), <<>>) = <<>>
      BY DEF Joint
    <2> QED
      BY <2>1, Zenon DEF Init, Empty, TextInvariant
  <1>3. Init => SectionInvariant
    BY DEF Init, Empty, SectionInvariant
  <1>4. Init => PadInvariant
    BY DEF Init, PadInvariant
  <1> QED
    BY <1>1, <1>2, <1>3, <1>4, ShapeStep, TextStep, SectionStep, PadStep, PTL DEF Spec

(* Nothing is ever written past the end of a buffer: what it holds leaves   *)
(* room for the terminating zero, which is what the debugging build         *)
(* asserts.                                                                *)
THEOREM BufferHasRoom == Spec => [](op # "none" => Len(buf) < size)
  <1>1. Shape => (op # "none" => Len(buf) < size)
    BY DEF Shape
  <1> QED
    BY <1>1, InvariantHolds, PTL

(* However small the buffer, however little the drain takes and wherever    *)
(* the memory ends: unless a vsnprintf was cut for lack of memory or failed *)
(* (sbuf_vprintf, which reports neither), what was asked for is there, or   *)
(* an error says that it is not, and then a beginning of it is there.       *)
THEOREM LossIsReported == Spec => []NoSilentLoss
  <1>1. Shape /\ TextInvariant => NoSilentLoss
    <2> SUFFICES ASSUME Shape, TextInvariant, ~unreported
                 PROVE  LET got == out \o buf
                        IN  /\ under = 0
                            /\ Len(got) <= Len(text) /\ got = SubSeq(text, 1, Len(got))
                            /\ error = "none" => got \o todo = text
      BY DEF NoSilentLoss
    <2> DEFINE got == Joint(out, buf)
    <2>1. got \in Seq(Chars)
      BY Joined DEF Shape
    <2>2. PICK rest \in Seq(Chars) : Joint(got, rest) = text /\ (error = "none" => rest = todo)
      BY DEF TextInvariant
    <2> HIDE DEF got
    <2>3. Len(got) <= Len(Joint(got, rest)) /\ got = SubSeq(Joint(got, rest), 1, Len(got))
      BY <2>1, Beginning DEF Joint
    <2>4. Len(got) <= Len(text) /\ got = SubSeq(text, 1, Len(got))
      BY <2>2, <2>3
    <2>5. error = "none" => Joint(got, todo) = text
      BY <2>2
    <2>6. under = 0
      BY DEF TextInvariant
    <2> QED
      BY <2>4, <2>5, <2>6 DEF got, Joint
  <1> QED
    BY <1>1, InvariantHolds, PTL

(* However sections are nested, padded, drained, trimmed and cleared: each  *)
(* whose own beginning no clear in an inner one took away is as long as     *)
(* what was stored since it began, and is padded to a multiple unless its   *)
(* length is negative.                                                      *)
THEOREM SectionsAreCounted == Spec => []SectionsCount
  <1>1. Shape /\ SectionInvariant /\ PadInvariant => SectionsCount
    <2> SUFFICES ASSUME Shape, SectionInvariant, PadInvariant,
                        \A i \in 2..Len(saved) : saved[i] # -1
                 PROVE  /\ inSection /\ Len(saved) > wrong =>
                              sect = Position - marks[Len(marks)]
                        /\ \A i \in DOMAIN saved :
                              IF i = 1 THEN saved[i] = -1
                                       ELSE i - 1 > wrong => saved[i] = marks[i] - marks[i - 1]
                        /\ op = "pad" /\ error = "none" /\ sect + Len(todo) >= 0 =>
                              (sect + Len(todo)) % Multiple = 0
      BY DEF SectionsCount
    <2>1. saved \in Seq(Int) /\ DOMAIN saved = 1..Len(saved) /\ Len(saved) \in Nat
      BY DEF Shape
    <2>2. \A i \in DOMAIN saved :
             IF i = 1 THEN saved[i] = -1
                      ELSE i - 1 > wrong => saved[i] = marks[i] - marks[i - 1]
      BY <2>1 DEF SectionInvariant
    <2>3. inSection /\ Len(saved) > wrong => sect = Position - marks[Len(marks)]
      BY DEF SectionInvariant
    <2> QED
      BY <2>2, <2>3 DEF PadInvariant
  <1> QED
    BY <1>1, InvariantHolds, PTL
=============================================================================
