--------------------------- MODULE InstallProofs ---------------------------
(***************************************************************************)
(* Proofs about mdpkg install, for every root, package, script and limit:  *)
(* that nothing existing is replaced, that a failed install leaves nothing *)
(* behind, that an inventory that is there is the last of its component's  *)
(* files, and that the inventories of a build explain the root.            *)
(***************************************************************************)
EXTENDS Install, TLAPS

(* The phases in which the payload is placed and the run has not failed. *)
Working == DOMAIN Following \cup {"inventory", "restore", "done"}

(* Below the root everything is in a directory. *)
Tree(f) ==
    /\ f = [p \in DOMAIN f |-> f[p]] /\ DOMAIN f \subseteq Paths /\ IsDir(f, <<>>)
    /\ \A p \in DOMAIN f : f[p].kind \in Kinds /\ f[p].by \in Authors
    /\ \A p \in DOMAIN f : \A q \in Paths : IsStrictPrefix(q, p) => IsDir(f, q)

Types ==
    /\ live \in BOOLEAN /\ stuck \in BOOLEAN /\ phase \in Phases
    /\ base \in Trees /\ pkg \in Packages /\ Tree(fs)
    /\ at \in DOMAIN pkg /\ entry \in Nat
    /\ entry = 1 \/ entry \in DOMAIN pkg[at].payload
    /\ DOMAIN placed = DOMAIN pkg
    /\ \A i \in DOMAIN pkg :
          /\ DOMAIN placed[i] = DOMAIN pkg[i].payload
          /\ \A j \in DOMAIN placed[i] : placed[i][j].kind = pkg[i].payload[j].kind
    /\ phase \in Working \cup {"undo"} =>
          \A i \in DOMAIN pkg : \A j \in DOMAIN placed[i] :
              placed[i][j].path \in Paths /\ ~Reserved(placed[i][j].path)
    /\ journal \in Seq(Paths \ {<<>>}) /\ touched \subseteq Paths /\ astray \subseteq Paths
    /\ live \/ (journal = <<>> /\ phase \notin {"lock", "undo"})

(* What is in the journal is mdpkg's or was touched since; what another     *)
(* made was touched; what was there before is not in what mdpkg made.       *)
OwnInvariant ==
    /\ phase \in {"lock", "preflight"} =>
          journal = <<>> /\ \A p \in DOMAIN fs : fs[p].by # "mdpkg"
    /\ \A p \in Range(journal) \cap DOMAIN fs : fs[p].by = "mdpkg" \/ p \in touched
    /\ \A p \in DOMAIN fs : fs[p].by \in {"script", "other"} => p \in touched
    /\ \A p, q \in DOMAIN fs :
          fs[p].by = "mdpkg" /\ IsStrictPrefix(p, q) => fs[q].by \notin {"base", "lock"}

(* The journal has everything mdpkg made, a directory before what is in it, *)
(* unless the directory was touched, and what it has is in directories, but *)
(* for touched ones; while it is undone, what is left is held up by         *)
(* something touched that is not to be undone, or was till the undo went    *)
(* astray.                                                                  *)
JournalInvariant ==
    /\ phase = "failed" => journal = <<>>
    /\ \A i, j \in DOMAIN journal :
          i < j /\ IsStrictPrefix(journal[j], journal[i]) => journal[j] \in touched
    /\ \A i \in DOMAIN journal : \A d \in Paths :
          IsStrictPrefix(d, journal[i]) => IsDir(fs, d) \/ d \in touched
    /\ live /\ phase \in Working =>
          \A p \in DOMAIN fs : fs[p].by = "mdpkg" => p \in Range(journal)
    /\ live /\ phase \in {"undo", "failed"} /\ ~stuck =>
          \A p \in DOMAIN fs \ Range(journal) :
              fs[p].by = "mdpkg" =>
                  /\ fs[p].kind = "dir"
                  /\ \E q \in touched \cap (DOMAIN fs \cup astray) :
                        q = p \/ (IsStrictPrefix(p, q) /\ q \notin Range(journal))

Inventory(i) == Append(InventoryDir, pkg[i].inventory)

-----------------------------------------------------------------------------
(* Paths. *)

(* Being a beginning, name by name. *)
LEMMA PrefixIs ==
    ASSUME NEW p \in Paths, NEW q \in Paths
    PROVE  IsPrefix(p, q) <=> Len(p) <= Len(q) /\ \A n \in 1..Len(p) : p[n] = q[n]
  <1>1. Len(p) \in Nat /\ Len(q) \in Nat
    BY DEF Paths
  <1>2. SubSeq(p, 1, Len(p)) = p
    BY DEF Paths
  <1>3. ASSUME Len(p) <= Len(q)
        PROVE  /\ DOMAIN SubSeq(q, 1, Len(p)) = 1..Len(p)
               /\ \A n \in 1..Len(p) : SubSeq(q, 1, Len(p))[n] = q[n]
               /\ SubSeq(q, 1, Len(p)) \in Seq(Names)
    BY <1>1, <1>3 DEF Paths
  <1>4. DOMAIN p = 1..Len(p) /\ p \in Seq(Names)
    BY DEF Paths
  <1> DEFINE s == SubSeq(q, 1, Len(p))
  <1>5. ASSUME Len(p) <= Len(q), \A n \in 1..Len(p) : p[n] = q[n]
        PROVE  p = s
    <2>1. s \in Seq(Names) /\ DOMAIN s = DOMAIN p /\ \A n \in DOMAIN p : s[n] = p[n]
      BY <1>3, <1>4, <1>5, Zenon
    <2> HIDE DEF s
    <2> QED
      BY <1>4, <2>1
  <1> QED
    BY <1>2, <1>3, <1>5, Zenon DEF IsPrefix

(* Being a proper beginning is an order, the root the least path of it. *)
LEMMA PrefixOrder ==
    ASSUME NEW p \in Paths, NEW q \in Paths
    PROVE  /\ ~IsStrictPrefix(p, p)
           /\ IsPrefix(p, q) <=> (p = q \/ IsStrictPrefix(p, q))
           /\ IsStrictPrefix(p, q) => Len(p) < Len(q)
           /\ IsStrictPrefix(<<>>, p) <=> p # <<>>
           /\ \A r \in Paths : IsStrictPrefix(p, q) /\ IsStrictPrefix(q, r) => IsStrictPrefix(p, r)
  <1>1. Len(p) \in Nat /\ Len(q) \in Nat /\ <<>> \in Paths /\ Len(<<>>) = 0
    BY DEF Paths
  <1>2. IsPrefix(p, p) /\ IsPrefix(<<>>, p)
    BY <1>1, PrefixIs
  <1>3. IsPrefix(p, q) /\ Len(p) = Len(q) => p = q
    <2> SUFFICES ASSUME Len(p) = Len(q), \A n \in 1..Len(p) : p[n] = q[n]
                 PROVE  p = q
      BY PrefixIs, Zenon
    <2>1. p \in Seq(Names) /\ q \in Seq(Names)
      BY Zenon DEF Paths
    <2>2. DOMAIN p = 1..Len(p) /\ DOMAIN q = 1..Len(q)
      BY <2>1
    <2>3. DOMAIN p = DOMAIN q /\ \A n \in DOMAIN p : p[n] = q[n]
      BY <2>2, Zenon
    <2> QED
      BY <2>1, <2>3
  <1>4. IsStrictPrefix(p, q) => Len(p) < Len(q)
    <2>1. IsStrictPrefix(p, q) => Len(p) <= Len(q) /\ Len(p) # Len(q)
      BY <1>3, PrefixIs, Zenon DEF IsStrictPrefix
    <2>2. \A a, b \in Nat : a <= b /\ a # b => a < b
      OBVIOUS
    <2> QED
      BY <1>1, <2>1, <2>2, Zenon
  <1>5. ASSUME NEW r \in Paths, IsStrictPrefix(p, q), IsStrictPrefix(q, r)
        PROVE  IsStrictPrefix(p, r)
    <2>1. Len(r) \in Nat
      BY DEF Paths
    <2>2. Len(p) < Len(q) /\ Len(q) <= Len(r) /\ \A n \in 1..Len(q) : q[n] = r[n]
      BY <1>4, <1>5, PrefixIs, Zenon DEF IsStrictPrefix
    <2>3. \A n \in 1..Len(p) : p[n] = q[n]
      BY <1>5, PrefixIs, Zenon DEF IsStrictPrefix
    <2>4. \A n \in 1..Len(p) : p[n] = r[n]
      BY <1>1, <2>2, <2>3
    <2>5. Len(p) < Len(r)
      BY <1>1, <2>1, <2>2
    <2>6. IsPrefix(p, r)
      BY <1>1, <2>1, <2>4, <2>5, PrefixIs
    <2> QED
      BY <1>1, <2>1, <2>5, <2>6 DEF IsStrictPrefix
  <1> QED
    BY <1>2, <1>4, <1>5, Zenon DEF IsStrictPrefix

(* What is above a path, and right above it. *)
LEMMA AboveIs ==
    ASSUME NEW p \in Paths, NEW d
    PROVE  d \in Above(p) <=> d \in Paths /\ d # <<>> /\ IsStrictPrefix(d, p)
  <1>1. Len(p) \in Nat /\ p \in Seq(Names)
    BY DEF Paths
  <1>2. ASSUME d \in Above(p)
        PROVE  d \in Paths /\ d # <<>> /\ IsStrictPrefix(d, p)
    <2>1. PICK n \in 1..(Len(p) - 1) : d = SubSeq(p, 1, n)
      BY <1>2, Zenon DEF Above
    <2>2. /\ d \in Seq(Names) /\ Len(d) = n /\ \A k \in 1..n : d[k] = p[k]
          /\ n < Len(p) /\ n > 0
      BY <1>1, <2>1
    <2> HIDE DEF Paths
    <2>3. d \in Paths /\ d # <<>> /\ d # p
      BY <1>1, <2>2 DEF Paths
    <2> QED
      BY <1>1, <2>2, <2>3, PrefixIs DEF IsStrictPrefix
  <1>3. ASSUME d \in Paths, d # <<>>, IsStrictPrefix(d, p)
        PROVE  d \in Above(p)
    <2>1. Len(d) < Len(p) /\ IsPrefix(d, p)
      BY <1>3, PrefixOrder, Zenon DEF IsStrictPrefix
    <2>2. Len(d) \in Nat /\ Len(d) # 0 /\ SubSeq(d, 1, Len(d)) = d
      BY <1>3 DEF Paths
    <2>3. Len(d) \in 1..(Len(p) - 1) /\ d = SubSeq(p, 1, Len(d))
      BY <1>1, <2>1, <2>2 DEF IsPrefix
    <2> QED
      BY <2>3, Zenon DEF Above
  <1> QED
    BY <1>2, <1>3, Zenon

(* The directory of a path is right above it. *)
LEMMA FrontIs ==
    ASSUME NEW p \in Paths, p # <<>>
    PROVE  /\ Front(p) \in Paths /\ IsStrictPrefix(Front(p), p)
           /\ \A q \in Paths : IsStrictPrefix(q, p) => q = Front(p) \/ IsStrictPrefix(q, Front(p))
  <1>1. Len(p) \in Nat \ {0} /\ p \in Seq(Names)
    BY DEF Paths
  <1> DEFINE f == SubSeq(p, 1, Len(p) - 1)
  <1>2. f \in Seq(Names) /\ Len(f) = Len(p) - 1 /\ \A k \in 1..(Len(p) - 1) : f[k] = p[k]
    <2> DEFINE n == Len(p) - 1
    <2>1. n \in Nat /\ 1 \in Int /\ n \in Int /\ \A i \in 1..n : p[i] \in Names
      BY <1>1
    <2> HIDE DEF n
    <2>2. /\ SubSeq(p, 1, n) \in Seq(Names)
          /\ Len(SubSeq(p, 1, n)) = (IF 1 <= n THEN n - 1 + 1 ELSE 0)
          /\ \A i \in 1..(n - 1 + 1) : SubSeq(p, 1, n)[i] = p[1 + i - 1]
      BY <2>1
    <2>3. n = Len(p) - 1
      BY Zenon DEF n
    <2> QED
      BY <2>1, <2>2, <2>3
  <1>3. f = Front(p) /\ f \in Paths
    BY <1>2, Zenon DEF Front, Paths
  <1> HIDE DEF f
  <1>4. IsStrictPrefix(f, p)
    <2>1. Len(f) < Len(p) /\ \A n \in 1..Len(f) : f[n] = p[n]
      BY <1>1, <1>2
    <2>2. IsPrefix(f, p)
      BY <1>1, <1>2, <1>3, <2>1, PrefixIs
    <2> QED
      BY <1>1, <2>1, <2>2 DEF IsStrictPrefix
  <1>5. ASSUME NEW q \in Paths, IsStrictPrefix(q, p)
        PROVE  IsPrefix(q, f)
    <2>1. Len(q) \in Nat /\ Len(q) < Len(p) /\ \A n \in 1..Len(q) : q[n] = p[n]
      BY <1>5, PrefixIs, PrefixOrder DEF IsStrictPrefix, Paths
    <2> QED
      BY <1>1, <1>2, <1>3, <2>1, PrefixIs
  <1> QED
    BY <1>3, <1>4, <1>5, PrefixOrder, Zenon

(* A record is a name in the directory of its kind. *)
LEMMA RecordIs ==
    ASSUME NEW a \in Names, NEW x \in Names
    PROVE  /\ Append(<<a>>, x) \in Paths /\ Len(Append(<<a>>, x)) = 2
           /\ Append(<<a>>, x)[1] = a /\ Append(<<a>>, x)[2] = x
           /\ IsPrefix(<<a>>, Append(<<a>>, x)) /\ <<a>> \in Paths
  <1> DEFINE s == <<a>>
             t == Append(s, x)
  <1>1. s \in Paths /\ Len(s) = 1 /\ s[1] = a
    BY DEF Paths
  <1>2. t \in Paths /\ Len(t) = 2 /\ t[1] = a /\ t[2] = x
    BY <1>1 DEF Paths
  <1> HIDE DEF s, t
  <1>3. Len(s) <= Len(t) /\ \A n \in 1..Len(s) : s[n] = t[n]
    BY <1>1, <1>2
  <1>4. IsPrefix(s, t)
    BY <1>1, <1>2, <1>3, PrefixIs, Zenon
  <1> QED
    BY <1>1, <1>2, <1>4, Zenon DEF s, t

(* What is beneath a reserved directory is reserved. *)
LEMMA ReservedBeneath ==
    ASSUME NEW p \in Paths, NEW q \in Paths, IsPrefix(p, q), Reserved(p)
    PROVE  Reserved(q)
  <1>1. PICK d \in {ReceiptsDir, InventoryDir, ScriptsDir} : IsPrefix(d, p)
    BY Zenon DEF Reserved
  <1>2. d \in Paths
    <2>1. {"receipts", "mdpkg", ".mdpkg-scripts"} \subseteq Names
      BY InstallAssumption, Zenon
    <2>2. ReceiptsDir \in Paths /\ InventoryDir \in Paths /\ ScriptsDir \in Paths
      BY <2>1, RecordIs, Zenon DEF ReceiptsDir, InventoryDir, ScriptsDir
    <2> QED
      BY <2>2, Zenon
  <1>3. IsPrefix(d, q)
    BY <1>1, <1>2, PrefixOrder, Zenon
  <1> QED
    BY <1>1, <1>3, Zenon DEF Reserved

(* The records of a component are reserved paths of two names, and its      *)
(* inventory is none of the other records of any component.                 *)
LEMMA RecordPaths ==
    ASSUME NEW c \in Component
    PROVE  /\ Records(c) \subseteq Paths
           /\ \A p \in Records(c) : Reserved(p) /\ p # <<>> /\ Len(p) = 2
           /\ \A b \in Component :
                 /\ Append(InventoryDir, c.inventory) \notin
                       {Append(ReceiptsDir, b.plist), Append(ReceiptsDir, b.bom)}
                 /\ Append(InventoryDir, c.inventory) = Append(InventoryDir, b.inventory)
                       => c.inventory = b.inventory
  <1>1. "receipts" \in Names /\ "mdpkg" \in Names
    BY InstallAssumption, Zenon
  <1>2. \A b \in Component : b.plist \in Names /\ b.bom \in Names /\ b.inventory \in Names
    BY Zenon DEF Component
  <1>3. \A p \in Records(c) :
           /\ p \in Paths /\ Len(p) = 2
           /\ IsPrefix(ReceiptsDir, p) \/ IsPrefix(InventoryDir, p)
    <2>1. \A x \in Names :
             /\ Append(ReceiptsDir, x) \in Paths /\ Len(Append(ReceiptsDir, x)) = 2
             /\ IsPrefix(ReceiptsDir, Append(ReceiptsDir, x))
      BY <1>1, RecordIs, Zenon DEF ReceiptsDir
    <2>2. \A x \in Names :
             /\ Append(InventoryDir, x) \in Paths /\ Len(Append(InventoryDir, x)) = 2
             /\ IsPrefix(InventoryDir, Append(InventoryDir, x))
      BY <1>1, RecordIs, Zenon DEF InventoryDir
    <2> QED
      BY <1>2, <2>1, <2>2, Zenon DEF Records
  <1>4. \A b \in Component :
           /\ Append(InventoryDir, b.inventory)[1] = "mdpkg"
           /\ Append(InventoryDir, b.inventory)[2] = b.inventory
           /\ Append(ReceiptsDir, b.plist)[1] = "receipts"
           /\ Append(ReceiptsDir, b.bom)[1] = "receipts"
    BY <1>1, <1>2, RecordIs, Zenon DEF ReceiptsDir, InventoryDir
  <1>5. \A p \in Records(c) : p # <<>> /\ Reserved(p)
    <2> SUFFICES ASSUME NEW p \in Records(c)
                 PROVE  p # <<>> /\ Reserved(p)
      BY Zenon
    <2>1. Len(p) = 2 /\ (IsPrefix(ReceiptsDir, p) \/ IsPrefix(InventoryDir, p))
      BY <1>3, Zenon
    <2>2. Reserved(p)
      BY <2>1, Zenon DEF Reserved
    <2>3. Len(<<>>) = 0
      BY Zenon
    <2> QED
      BY <2>1, <2>2, <2>3
  <1> HIDE DEF Component
  <1>6. ASSUME NEW b \in Component
        PROVE  /\ Append(InventoryDir, c.inventory) # Append(ReceiptsDir, b.plist)
               /\ Append(InventoryDir, c.inventory) # Append(ReceiptsDir, b.bom)
    <2> DEFINE ci == Append(InventoryDir, c.inventory)
               bp == Append(ReceiptsDir, b.plist)
               bb == Append(ReceiptsDir, b.bom)
    <2>1. ci[1] = "mdpkg" /\ bp[1] = "receipts" /\ bb[1] = "receipts"
      BY <1>4, Zenon
    <2> HIDE DEF ci, bp, bb
    <2>2. ci # bp /\ ci # bb
      BY <2>1, Zenon
    <2> QED
      BY <2>2, Zenon DEF ci, bp, bb
  <1>7. ASSUME NEW b \in Component,
               Append(InventoryDir, c.inventory) = Append(InventoryDir, b.inventory)
        PROVE  c.inventory = b.inventory
    <2> DEFINE ci == Append(InventoryDir, c.inventory)
               bi == Append(InventoryDir, b.inventory)
    <2>1. ci[2] = c.inventory /\ bi[2] = b.inventory /\ ci = bi
      BY <1>4, <1>7, Zenon
    <2> HIDE DEF ci, bi
    <2> QED
      BY <2>1, Zenon
  <1>8. Records(c) \subseteq Paths /\ \A p \in Records(c) : Reserved(p) /\ p # <<>> /\ Len(p) = 2
    BY <1>3, <1>5, Zenon
  <1> QED
    BY <1>6, <1>7, <1>8, Zenon

-----------------------------------------------------------------------------
(* Trees. *)

(* A node in a directory, or in place of one that is none, keeps the tree. *)
LEMMA PutKeepsTree ==
    ASSUME NEW f, Tree(f), NEW p \in Paths, p # <<>>, ~IsDir(f, p),
           NEW node, node.kind \in Kinds, node.by \in Authors,
           \A q \in Paths : IsStrictPrefix(q, p) => IsDir(f, q)
    PROVE  Tree(Put(f, p, node))
  <1> DEFINE g == Put(f, p, node)
  <1>1. /\ DOMAIN g = DOMAIN f \cup {p} /\ g = [q \in DOMAIN g |-> g[q]] /\ g[p] = node
        /\ \A q \in DOMAIN f : q # p => g[q] = f[q]
    BY Zenon DEF Put
  <1> HIDE DEF g
  <1>2. \A q : q # p /\ IsDir(f, q) => IsDir(g, q)
    BY <1>1, Zenon DEF IsDir, Node, Missing
  <1>3. ASSUME NEW r \in DOMAIN g, NEW q \in Paths, IsStrictPrefix(q, r)
        PROVE  IsDir(g, q)
    <2>1. CASE r = p
      <3>1. q # p
        BY <1>3, <2>1, PrefixOrder, Zenon
      <3> QED
        BY <1>2, <1>3, <2>1, <3>1, Zenon
    <2>2. CASE r # p
      <3>1. r \in DOMAIN f
        BY <1>1, <2>2, Zenon
      <3>2. IsDir(f, q)
        BY <1>3, <3>1, Zenon DEF Tree
      <3> QED
        BY <1>2, <3>2, Zenon
    <2> QED
      BY <2>1, <2>2, Zenon
  <1>4. DOMAIN g \subseteq Paths /\ IsDir(g, <<>>)
    BY <1>1, <1>2, Zenon DEF Tree
  <1>5. \A r \in DOMAIN g : g[r].kind \in Kinds /\ g[r].by \in Authors
    BY <1>1, Zenon DEF Tree
  <1> QED
    BY <1>1, <1>3, <1>4, <1>5, Zenon DEF Tree, g

(* An empty directory, or what is none, is removed. *)
LEMMA WithoutKeepsTree ==
    ASSUME NEW f, Tree(f), NEW p \in Paths, p # <<>>, Inside(f, p) = {}
    PROVE  Tree(Without(f, p))
  <1> DEFINE g == Without(f, p)
  <1>1. /\ DOMAIN g = DOMAIN f \ {p} /\ g = [q \in DOMAIN g |-> g[q]]
        /\ \A q \in DOMAIN g : g[q] = f[q]
    BY Zenon DEF Without
  <1> HIDE DEF g
  <1>2. \A q : q # p /\ IsDir(f, q) => IsDir(g, q)
    BY <1>1, Zenon DEF IsDir, Node, Missing
  <1>3. ASSUME NEW r \in DOMAIN g, NEW q \in Paths, IsStrictPrefix(q, r)
        PROVE  IsDir(g, q)
    <2>1. q # p
      BY <1>1, <1>3, Zenon DEF Inside
    <2>2. IsDir(f, q)
      BY <1>1, <1>3, Zenon DEF Tree
    <2> QED
      BY <1>2, <2>1, <2>2, Zenon
  <1>4. DOMAIN g \subseteq Paths /\ IsDir(g, <<>>)
    BY <1>1, <1>2, Zenon DEF Tree
  <1>5. \A r \in DOMAIN g : g[r].kind \in Kinds /\ g[r].by \in Authors
    BY <1>1, Zenon DEF Tree
  <1> QED
    BY <1>1, <1>3, <1>4, <1>5, Zenon DEF Tree, g

(* What a script does leaves a tree, in which the script made what is new. *)
LEMMA ApplyKeepsTree ==
    ASSUME NEW f, Tree(f), NEW op \in ScriptOps
    PROVE  /\ Tree(Apply(f, op))
           /\ \A q \in DOMAIN Apply(f, op) :
                 Apply(f, op)[q].by = "script" \/ (q \in DOMAIN f /\ Apply(f, op)[q] = f[q])
  <1>1. op.path \in Paths /\ op.path # <<>>
    BY InstallAssumption, Zenon
  <1>2. op.node = Missing \/ (op.node.kind \in Kinds /\ op.node.by = "script")
    BY InstallAssumption, Zenon
  <1>3. CASE op.node = Missing
    <2> DEFINE dom == {q \in DOMAIN f : ~IsPrefix(op.path, q)}
               g == [q \in dom |-> f[q]]
    <2>1. /\ DOMAIN g = dom /\ g = [q \in DOMAIN g |-> g[q]]
          /\ \A q \in DOMAIN g : q \in DOMAIN f /\ g[q] = f[q]
      BY Zenon
    <2>2. g = Apply(f, op)
      BY <1>3, Zenon DEF Apply
    <2>3. \A q : q \in dom <=> q \in DOMAIN f /\ ~IsPrefix(op.path, q)
      BY Zenon
    <2> HIDE DEF dom, g
    <2>4. \A q : IsDir(f, q) /\ ~IsPrefix(op.path, q) => IsDir(g, q)
      BY <2>1, <2>3, Zenon DEF IsDir, Node, Missing
    <2>5. <<>> \in Paths /\ ~IsPrefix(op.path, <<>>)
      <3>1. <<>> \in Paths /\ Len(<<>>) = 0
        BY DEF Paths
      <3>2. IsPrefix(op.path, <<>>) => IsStrictPrefix(op.path, <<>>)
        BY <1>1, <3>1, PrefixOrder, Zenon
      <3>3. IsStrictPrefix(op.path, <<>>) => Len(op.path) < 0
        BY <1>1, <3>1, PrefixOrder, Zenon
      <3>4. Len(op.path) \in Nat
        BY <1>1 DEF Paths
      <3> QED
        BY <3>1, <3>2, <3>3, <3>4
    <2>6. ASSUME NEW r \in DOMAIN g, NEW q \in Paths, IsStrictPrefix(q, r)
          PROVE  IsDir(g, q)
      <3>1. r \in DOMAIN f /\ r \in Paths /\ ~IsPrefix(op.path, r)
        BY <2>1, <2>3, <2>6, Zenon DEF Tree
      <3>2. ~IsPrefix(op.path, q)
        BY <1>1, <2>6, <3>1, PrefixOrder, Zenon
      <3>3. IsDir(f, q)
        BY <2>6, <3>1, Zenon DEF Tree
      <3> QED
        BY <2>4, <3>2, <3>3, Zenon
    <2>7. DOMAIN g \subseteq Paths /\ IsDir(g, <<>>)
      BY <2>1, <2>4, <2>5, Zenon DEF Tree
    <2>8. \A r \in DOMAIN g : g[r].kind \in Kinds /\ g[r].by \in Authors
      BY <2>1, Zenon DEF Tree
    <2>9. Tree(g)
      BY <2>1, <2>6, <2>7, <2>8, Zenon DEF Tree
    <2> QED
      BY <2>1, <2>2, <2>9, Zenon
  <1>4. CASE op.node # Missing /\ IsDir(f, Front(op.path)) /\ ~IsDir(f, op.path)
    <2>1. Apply(f, op) = Put(f, op.path, op.node)
      BY <1>4, Zenon DEF Apply
    <2>2. \A q \in Paths : IsStrictPrefix(q, op.path) => IsDir(f, q)
      <3>1. Front(op.path) \in DOMAIN f
        BY <1>4, Zenon DEF IsDir, Node, Missing
      <3> QED
        BY <1>1, <1>4, <3>1, FrontIs, Zenon DEF Tree
    <2>3. Tree(Put(f, op.path, op.node))
      BY <1>1, <1>2, <1>4, <2>2, PutKeepsTree, Zenon DEF Authors
    <2>4. \A q \in DOMAIN Put(f, op.path, op.node) :
             \/ Put(f, op.path, op.node)[q].by = "script"
             \/ q \in DOMAIN f /\ Put(f, op.path, op.node)[q] = f[q]
      BY <1>2, <1>4, Zenon DEF Put
    <2> QED
      BY <2>1, <2>3, <2>4, Zenon
  <1>5. CASE op.node # Missing /\ ~(IsDir(f, Front(op.path)) /\ ~IsDir(f, op.path))
    BY <1>5, Zenon DEF Apply
  <1> QED
    BY <1>3, <1>4, <1>5, Zenon

(* Where two trees do not differ they are the same. *)
LEMMA DifferIs ==
    ASSUME NEW f, NEW g, Tree(f), Tree(g)
    PROVE  /\ \A q : Node(f, q) # Node(g, q) <=> q \in Differ(f, g)
           /\ \A q \in DOMAIN f \ Differ(f, g) : q \in DOMAIN g /\ g[q] = f[q]
           /\ \A q \in DOMAIN g \ Differ(f, g) : q \in DOMAIN f /\ g[q] = f[q]
           /\ Differ(f, g) \subseteq Paths
  <1>1. \A q \in DOMAIN f : f[q] # Missing
    BY DEF Tree, Missing, Kinds
  <1>2. \A q \in DOMAIN g : g[q] # Missing
    BY DEF Tree, Missing, Kinds
  <1> QED
    BY <1>1, <1>2, Zenon DEF Differ, Node, Tree

-----------------------------------------------------------------------------
(* What the steps do. *)

(* The phases of a component, in their order. *)
LEMMA FollowingIs ==
    /\ DOMAIN Following = {"pre", "extract", "links", "post", "plist", "bom"}
    /\ Following["pre"] = "extract" /\ Following["extract"] = "links"
    /\ Following["links"] = "post" /\ Following["post"] = "plist"
    /\ Following["plist"] = "bom" /\ Following["bom"] = "inventory"
  BY Zenon DEF Following

(* The components have the fields of one. *)
LEMMA PackageIs ==
    ASSUME Types
    PROVE  /\ pkg \in Seq(Component) /\ Len(pkg) \in Nat /\ DOMAIN pkg = 1..Len(pkg)
           /\ \A i \in DOMAIN pkg :
                 /\ pkg[i] \in Component /\ pkg[i].payload \in Seq(PayloadEntry)
                 /\ Len(pkg[i].payload) \in Nat
                 /\ DOMAIN pkg[i].payload = 1..Len(pkg[i].payload)
                 /\ \A j \in DOMAIN pkg[i].payload :
                       pkg[i].payload[j].kind \in {"dir", "file", "link"}
  <1>1. pkg \in Seq(Component)
    BY InstallAssumption, Zenon DEF Types
  <1>2. \A i \in DOMAIN pkg : pkg[i] \in Component
    BY <1>1
  <1>3. \A i \in DOMAIN pkg : pkg[i].payload \in Seq(PayloadEntry)
    BY <1>2, Zenon DEF Component
  <1>4. \A i \in DOMAIN pkg : \A j \in DOMAIN pkg[i].payload : pkg[i].payload[j] \in PayloadEntry
    BY <1>3
  <1>5. \A i \in DOMAIN pkg : \A j \in DOMAIN pkg[i].payload :
           pkg[i].payload[j].kind \in {"dir", "file", "link"}
    BY <1>4, Zenon DEF PayloadEntry
  <1>6. \A i \in DOMAIN pkg : /\ Len(pkg[i].payload) \in Nat
                             /\ DOMAIN pkg[i].payload = 1..Len(pkg[i].payload)
    BY <1>3
  <1>7. Len(pkg) \in Nat /\ DOMAIN pkg = 1..Len(pkg)
    BY <1>1
  <1> QED
    BY <1>1, <1>2, <1>3, <1>5, <1>6, <1>7, Zenon

(* What is written next is a path: of the payload, or a record. *)
LEMMA TargetIs ==
    ASSUME Types, Writing
    PROVE  /\ phase \in {"extract", "plist", "bom", "inventory"} /\ Target \in Paths
           /\ phase = "extract" =>
                 /\ entry \in DOMAIN placed[at] /\ Entry.kind \in {"dir", "file", "link"}
                 /\ Target = placed[at][entry].path /\ ~Reserved(Target)
           /\ phase = "plist" => Target = Append(ReceiptsDir, pkg[at].plist)
           /\ phase = "bom" => Target = Append(ReceiptsDir, pkg[at].bom)
           /\ phase = "inventory" => Target = Inventory(at)
           /\ phase # "extract" => Target \in Records(pkg[at])
  <1>1. phase \in {"extract", "plist", "bom", "inventory"} /\ phase \in Working
    BY FollowingIs, Zenon DEF Writing, Extracting, Working
  <1>2. at \in DOMAIN pkg /\ pkg[at] \in Component
    BY PackageIs, Zenon DEF Types
  <1>3. CASE phase = "extract"
    <2>1. pkg[at].payload # <<>>
      BY <1>3, Zenon DEF Writing, Extracting, C
    <2>2. 1 \in DOMAIN pkg[at].payload
      BY <1>2, <2>1, PackageIs
    <2>3. entry \in DOMAIN placed[at] /\ placed[at][entry].kind = pkg[at].payload[entry].kind
      BY <1>2, <2>2, Zenon DEF Types
    <2>4. placed[at][entry].kind \in {"dir", "file", "link"}
      BY <1>2, <2>3, PackageIs, Zenon DEF Types
    <2>5. placed[at][entry].path \in Paths /\ ~Reserved(placed[at][entry].path)
      BY <1>1, <1>2, <2>3, Zenon DEF Types
    <2> QED
      BY <1>3, <2>3, <2>4, <2>5, Zenon DEF Target, Entry
  <1>4. CASE phase # "extract"
    <2>1. /\ phase = "plist" => Target = Append(ReceiptsDir, pkg[at].plist)
          /\ phase = "bom" => Target = Append(ReceiptsDir, pkg[at].bom)
          /\ phase = "inventory" => Target = Inventory(at)
      BY <1>1, <1>4, Zenon DEF Target, C, Inventory
    <2>2. Target \in Records(pkg[at])
      BY <1>1, <1>4, <2>1, Zenon DEF Records, Inventory
    <2>3. Target \in Paths
      BY <1>2, <2>2, RecordPaths, Zenon
    <2> QED
      BY <1>1, <1>4, <2>1, <2>2, <2>3, Zenon
  <1> QED
    BY <1>1, <1>3, <1>4, Zenon

(* A node is made where there was none, in a directory. *)
Made(p, node) ==
    /\ p \in Paths /\ p # <<>> /\ p \notin DOMAIN fs
    /\ \A q \in Paths : IsStrictPrefix(q, p) => IsDir(fs, q)
    /\ node.kind \in Kinds /\ node.by \in {"mdpkg", "lock"}
    /\ fs' = Put(fs, p, node)

(* What is made is new, nothing is in it, and the rest is as it was. *)
LEMMA MadeDoes ==
    ASSUME Tree(fs), NEW p, NEW node, Made(p, node)
    PROVE  /\ Tree(fs') /\ DOMAIN fs' = DOMAIN fs \cup {p} /\ fs'[p] = node
           /\ \A q \in DOMAIN fs : q # p /\ fs'[q] = fs[q]
           /\ \A q \in DOMAIN fs' : ~IsStrictPrefix(p, q)
  <1>1. ~IsDir(fs, p)
    BY Zenon DEF Made, IsDir, Node, Missing
  <1>2. Tree(fs')
    BY <1>1, PutKeepsTree, Zenon DEF Made, Authors
  <1>3. /\ DOMAIN fs' = DOMAIN fs \cup {p} /\ fs'[p] = node
        /\ \A q \in DOMAIN fs : q # p /\ fs'[q] = fs[q]
    BY Zenon DEF Made, Put
  <1>4. ASSUME NEW q \in DOMAIN fs', IsStrictPrefix(p, q)
        PROVE  FALSE
    <2>1. p \in Paths /\ q # p
      BY <1>4, PrefixOrder, Zenon DEF Made
    <2>2. q \in DOMAIN fs
      BY <1>3, <2>1, Zenon
    <2> QED
      BY <1>1, <1>4, <2>1, <2>2, Zenon DEF Tree
  <1> QED
    BY <1>2, <1>3, <1>4, Zenon

(* path_parents makes a directory that is missing above what is written. *)
LEMMA MakeParentDoes ==
    ASSUME Types, MakeParent
    PROVE  /\ \E d \in Above(Target) :
                 /\ Made(d, Dir("mdpkg"))
                 /\ journal' = IF live THEN Append(journal, d) ELSE journal
           /\ UNCHANGED <<run, placed, phase, at, entry, changes, touched, astray, stuck>>
           /\ Writing /\ Target \in Paths /\ Above(Target) \subseteq Paths
  <1>1. Writing /\ ParentsAreDirs(fs, Target) /\ Target \in Paths
    BY TargetIs, Zenon DEF MakeParent
  <1>2. PICK d \in Above(Target) :
           /\ ~Exists(fs, d) /\ \A q \in Above(d) : Exists(fs, q)
           /\ fs' = Put(fs, d, Dir("mdpkg")) /\ Journal(d)
    BY Zenon DEF MakeParent
  <1>3. d \in Paths /\ d # <<>> /\ IsStrictPrefix(d, Target) /\ d \notin DOMAIN fs
    BY <1>1, <1>2, AboveIs, Zenon DEF Exists
  <1>4. ASSUME NEW q \in Paths, IsStrictPrefix(q, d)
        PROVE  IsDir(fs, q)
    <2>1. CASE q = <<>>
      BY <2>1, Zenon DEF Types, Tree
    <2>2. CASE q # <<>>
      <3>1. q \in Above(d) /\ IsStrictPrefix(q, Target)
        BY <1>1, <1>3, <1>4, <2>2, AboveIs, PrefixOrder, Zenon
      <3>2. q \in Above(Target)
        BY <1>1, <2>2, <3>1, AboveIs, Zenon
      <3> QED
        BY <1>1, <1>2, <3>1, <3>2, Zenon DEF ParentsAreDirs
    <2> QED
      BY <2>1, <2>2, Zenon
  <1>5. Made(d, Dir("mdpkg"))
    BY <1>2, <1>3, <1>4, Zenon DEF Made, Dir, Kinds
  <1>6. Above(Target) \subseteq Paths
    BY <1>1, AboveIs, Zenon
  <1> QED
    BY <1>1, <1>2, <1>5, <1>6, Zenon DEF MakeParent, Journal

(* mkdir, symlink or open makes what is written next. *)
LEMMA CreateDoes ==
    ASSUME Types, Create
    PROVE  /\ Made(Target, NewNode) /\ Writing
           /\ journal' = IF live THEN Append(journal, Target) ELSE journal
           /\ UNCHANGED <<run, placed, changes, touched, astray, stuck>>
           /\ NewNode.by = "mdpkg"
           /\ NewNode.kind = IF phase = "extract" /\ Entry.kind # "file" THEN Entry.kind ELSE "part"
           /\ NewNode.kind = "part" => UNCHANGED <<phase, at, entry>>
           /\ NewNode.kind # "part" => phase = "extract" /\ Advance
  <1>1. /\ Writing /\ HaveParents /\ ~Exists(fs, Target) /\ Target \in Paths
        /\ phase = "extract" => Entry.kind \in {"dir", "file", "link"}
    BY TargetIs, Zenon DEF Create
  <1>2. ASSUME NEW q \in Paths, IsStrictPrefix(q, Target)
        PROVE  IsDir(fs, q)
    <2>1. CASE q = <<>>
      BY <2>1, Zenon DEF Types, Tree
    <2>2. CASE q # <<>>
      <3>1. q \in Above(Target)
        BY <1>1, <1>2, <2>2, AboveIs, Zenon
      <3> QED
        BY <1>1, <3>1, Zenon DEF HaveParents, ParentsAreDirs
    <2> QED
      BY <2>1, <2>2, Zenon
  <1>3. Target # <<>>
    BY <1>1, Zenon DEF Types, Tree, Exists, IsDir, Node, Missing
  <1>4. /\ NewNode.by = "mdpkg"
        /\ NewNode.kind = IF phase = "extract" /\ Entry.kind # "file" THEN Entry.kind ELSE "part"
    <2>1. CASE phase # "extract"
      BY <2>1, Zenon DEF NewNode, Part
    <2>2. CASE phase = "extract" /\ Entry.kind = "dir"
      BY <2>2, Zenon DEF NewNode, Dir
    <2>3. CASE phase = "extract" /\ Entry.kind = "link"
      BY <2>3, Zenon DEF NewNode, Link
    <2>4. CASE phase = "extract" /\ Entry.kind = "file"
      BY <2>4, Zenon DEF NewNode, Part
    <2> QED
      BY <1>1, <2>1, <2>2, <2>3, <2>4, Zenon
  <1>5. NewNode.kind \in Kinds
    BY <1>1, <1>4, Zenon DEF Kinds
  <1>6. Made(Target, NewNode)
    BY <1>1, <1>2, <1>3, <1>4, <1>5, Zenon DEF Made, Create, Exists
  <1>8. /\ NewNode.kind = "part" => UNCHANGED <<phase, at, entry>>
        /\ NewNode.kind # "part" => Advance
    BY Zenon DEF Create
  <1>9. journal' = (IF live THEN Append(journal, Target) ELSE journal)
    BY Zenon DEF Create, Journal
  <1>10. UNCHANGED <<run, placed, changes, touched, astray, stuck>>
    BY Zenon DEF Create
  <1> QED
    BY <1>1, <1>4, <1>6, <1>8, <1>9, <1>10, Zenon

(* What was begun becomes whole. *)
LEMMA FinishDoes ==
    ASSUME Types, Finish
    PROVE  /\ Tree(fs') /\ DOMAIN fs' = DOMAIN fs /\ Target \in DOMAIN fs
           /\ fs[Target] = Part("mdpkg") /\ fs'[Target] = File("mdpkg")
           /\ \A q \in DOMAIN fs : q # Target => fs'[q] = fs[q]
           /\ Writing /\ Advance /\ UNCHANGED <<run, placed, journal, changes, touched, astray, stuck>>
           /\ phase = "extract" => Entry.kind = "file"
  <1>1. Writing /\ Node(fs, Target) = Part("mdpkg") /\ fs' = Put(fs, Target, File("mdpkg"))
    BY Zenon DEF Finish
  <1>2. Target \in DOMAIN fs /\ fs[Target] = Part("mdpkg") /\ ~IsDir(fs, Target)
    BY <1>1 DEF Node, Missing, Part, IsDir
  <1>3. Target \in Paths /\ Target # <<>>
    BY <1>2, TargetIs, Zenon DEF Finish, Types, Tree
  <1>4. \A q \in Paths : IsStrictPrefix(q, Target) => IsDir(fs, q)
    BY <1>2, Zenon DEF Types, Tree
  <1>5. File("mdpkg").kind \in Kinds /\ File("mdpkg").by \in Authors
    BY Zenon DEF File, Kinds, Authors
  <1>6. Tree(fs')
    BY <1>1, <1>2, <1>3, <1>4, <1>5, PutKeepsTree, Zenon DEF Types
  <1>7. /\ DOMAIN fs' = DOMAIN fs /\ fs'[Target] = File("mdpkg")
        /\ \A q \in DOMAIN fs : q # Target => fs'[q] = fs[q]
    BY <1>1, <1>2, Zenon DEF Put
  <1>8. phase = "extract" => Entry.kind = "file"
    BY <1>1, TargetIs, Zenon DEF Finish, NewNode, Dir, Link
  <1> QED
    BY <1>1, <1>2, <1>6, <1>7, <1>8, Zenon DEF Finish

(* Scripts and other programs: what they changed is touched, and what is    *)
(* new is theirs.                                                           *)
Touching ==
    /\ Tree(fs') /\ touched \cup Differ(fs, fs') \subseteq touched' /\ touched' \subseteq Paths
    /\ \A q \in DOMAIN fs' :
          fs'[q].by \in {"script", "other"} \/ (q \in DOMAIN fs /\ fs'[q] = fs[q])

(* Two commands of a script. *)
LEMMA ScriptTouches ==
    ASSUME Types, NEW first \in ScriptOps, NEW second \in ScriptOps,
           fs' = Apply(Apply(fs, first), second), touched' = touched \cup Differ(fs, fs')
    PROVE  Touching
  <1> DEFINE mid == Apply(fs, first)
             end == Apply(mid, second)
  <1>1. /\ Tree(mid)
        /\ \A q \in DOMAIN mid : mid[q].by = "script" \/ (q \in DOMAIN fs /\ mid[q] = fs[q])
    BY ApplyKeepsTree, Zenon DEF Types
  <1> HIDE DEF mid
  <1>2. /\ Tree(end)
        /\ \A q \in DOMAIN end : end[q].by = "script" \/ (q \in DOMAIN mid /\ end[q] = mid[q])
    BY <1>1, ApplyKeepsTree, Zenon
  <1>3. fs' = end
    BY Zenon DEF mid
  <1> HIDE DEF end
  <1>4. Differ(fs, fs') \subseteq Paths
    BY <1>2, <1>3, DifferIs, Zenon DEF Types
  <1> QED
    BY <1>1, <1>2, <1>3, <1>4, Zenon DEF Touching, Types

(* The hooks run or there is none, and the run goes on or dies. *)
LEMMA HooksDo ==
    ASSUME Types, RunHooks
    PROVE  /\ phase \in {"pre", "post"} /\ UNCHANGED <<run, placed, journal, astray, stuck>>
           /\ Touching \/ UNCHANGED <<fs, touched>>
           /\ \/ Advance
              \/ phase' = (IF live THEN "undo" ELSE "failed") /\ UNCHANGED <<at, entry, changes>>
           /\ ~live /\ Advance => changes' = changes \cup Differ(fs, fs')
           /\ live => changes' = changes
  <1>1. phase \in {"pre", "post"}
    BY Zenon DEF RunHooks
  <1>2. CASE phase \notin C.hooks
    <2>1. Advance /\ UNCHANGED <<run, placed, fs, journal, changes, touched, astray, stuck>>
      BY <1>2, Zenon DEF RunHooks
    <2>2. Differ(fs, fs') = {}
      BY <2>1, Zenon DEF Differ
    <2> QED
      BY <1>1, <2>1, <2>2, Zenon
  <1>3. CASE phase \in C.hooks
    <2>1. PICK first \in ScriptOps, second \in ScriptOps :
             /\ fs' = Apply(Apply(fs, first), second)
             /\ touched' = touched \cup Differ(fs, fs')
             /\ \/ /\ Advance
                   /\ changes' = IF live THEN changes ELSE changes \cup script_changes(fs, fs')
                   /\ UNCHANGED <<run, placed, journal, astray, stuck>>
                \/ Die
      BY <1>3, Zenon DEF RunHooks
    <2>2. Touching
      BY <2>1, ScriptTouches, Zenon
    <2>3. script_changes(fs, fs') = Differ(fs, fs')
      <3>1. Tree(fs) /\ Tree(fs')
        BY <2>2, Zenon DEF Touching, Types
      <3>2. \A q \in DOMAIN fs : fs[q] # Missing
        BY <3>1 DEF Tree, Missing, Kinds
      <3> QED
        BY <3>2, Zenon DEF script_changes, Differ, Node
    <2>4. Die => /\ phase' = (IF live THEN "undo" ELSE "failed")
                 /\ UNCHANGED <<run, placed, journal, at, entry, changes, astray, stuck>>
      BY <1>1, Zenon DEF Die
    <2>5. CASE Die
      <3>1. ~Advance
        BY <1>1, <2>4, <2>5, FollowingIs, Zenon DEF Advance
      <3> QED
        BY <1>1, <2>2, <2>4, <2>5, <3>1, Zenon
    <2> QED
      BY <1>1, <2>1, <2>2, <2>3, <2>5, Zenon
  <1> QED
    BY <1>2, <1>3, Zenon

(* Another program's file. *)
LEMMA OtherDoes ==
    ASSUME Types, Other
    PROVE  /\ Touching /\ live /\ phase \notin Over
           /\ DOMAIN fs \subseteq DOMAIN fs' /\ \A q \in DOMAIN fs : fs'[q] = fs[q]
           /\ UNCHANGED <<run, placed, journal, phase, at, entry, changes, astray, stuck>>
  <1>1. PICK p \in OtherPaths : /\ ~Exists(fs, p) /\ IsDir(fs, Front(p))
                                /\ fs' = Put(fs, p, File("other"))
                                /\ touched' = touched \cup {p}
    BY Zenon DEF Other
  <1>2. p \in Paths /\ p # <<>>
    BY InstallAssumption, Zenon
  <1>3. p \notin DOMAIN fs /\ ~IsDir(fs, p) /\ Front(p) \in DOMAIN fs
    BY <1>1, Zenon DEF Exists, IsDir, Node, Missing
  <1>4. \A q \in Paths : IsStrictPrefix(q, p) => IsDir(fs, q)
    BY <1>1, <1>2, <1>3, FrontIs, Zenon DEF Types, Tree
  <1>5. File("other").kind \in Kinds /\ File("other").by = "other" /\ "other" \in Authors
    BY Zenon DEF File, Kinds, Authors
  <1>6. Tree(fs')
    BY <1>1, <1>2, <1>3, <1>4, <1>5, PutKeepsTree, Zenon DEF Types
  <1>7. /\ DOMAIN fs' = DOMAIN fs \cup {p} /\ fs'[p] = File("other")
        /\ \A q \in DOMAIN fs : fs'[q] = fs[q]
    BY <1>1, <1>3, Zenon DEF Put
  <1>8. Differ(fs, fs') \subseteq {p}
    BY <1>7, Zenon DEF Differ, Node
  <1>9. Touching
    BY <1>1, <1>2, <1>5, <1>6, <1>7, <1>8, Zenon DEF Touching, Types
  <1> QED
    BY <1>7, <1>9, Zenon DEF Other

(* live_lock makes its directory or its file. *)
LEMMA LockDoes ==
    ASSUME Types, Lock
    PROVE  /\ phase = "lock" /\ phase' \in {"lock", "preflight"}
           /\ UNCHANGED <<run, placed, journal, at, entry, changes, touched, astray, stuck>>
           /\ fs' = fs \/ \E p : \E node : Made(p, node) /\ node.by = "lock"
  <1>1. /\ phase = "lock" /\ phase' \in {"lock", "preflight"}
        /\ UNCHANGED <<run, placed, journal, at, entry, changes, touched, astray, stuck>>
    BY Zenon DEF Lock
  <1>2. "mdpkg" \in Names /\ ".lock" \in Names
    BY InstallAssumption, Zenon
  <1>3. /\ InventoryDir \in Paths /\ InventoryDir # <<>> /\ Len(InventoryDir) = 1
        /\ LockFile \in Paths /\ LockFile # <<>> /\ Front(LockFile) = InventoryDir
    <2> DEFINE s == Append(<<"mdpkg">>, ".lock")
    <2>1. s \in Paths /\ Len(s) = 2 /\ s[1] = "mdpkg" /\ <<"mdpkg">> \in Paths
      BY <1>2, RecordIs, Zenon
    <2>2. s = LockFile /\ Len(<<"mdpkg">>) = 1 /\ <<"mdpkg">> # <<>>
      BY Zenon DEF LockFile, InventoryDir
    <2> HIDE DEF s
    <2>3. s # <<>>
      BY <2>1
    <2>4. Front(s) \in Seq(Names) /\ Len(Front(s)) = 1 /\ Front(s)[1] = "mdpkg"
      BY <2>1 DEF Front, Paths
    <2>5. Front(s) = <<"mdpkg">>
      BY <2>4
    <2> QED
      BY <2>1, <2>2, <2>3, <2>5, Zenon DEF InventoryDir
  <1>4. CASE ~Exists(fs, InventoryDir)
    <2>1. fs' = Put(fs, InventoryDir, Dir("lock")) /\ InventoryDir \notin DOMAIN fs
      BY <1>4, Zenon DEF Lock, Exists
    <2>2. \A q \in Paths : IsStrictPrefix(q, InventoryDir) => IsDir(fs, q)
      <3> SUFFICES ASSUME NEW q \in Paths, IsStrictPrefix(q, InventoryDir)
                   PROVE  IsDir(fs, q)
        BY Zenon
      <3>1. Len(q) < 1
        BY <1>3, PrefixOrder
      <3>2. q = <<>>
        BY <3>1 DEF Paths
      <3> QED
        BY <3>2, Zenon DEF Types, Tree
    <2>3. Dir("lock").kind \in Kinds /\ Dir("lock").by = "lock"
      BY Zenon DEF Dir, Kinds
    <2>4. Made(InventoryDir, Dir("lock"))
      BY <1>3, <2>1, <2>2, <2>3, Zenon DEF Made
    <2> QED
      BY <1>1, <2>3, <2>4, Zenon
  <1>5. CASE Exists(fs, InventoryDir) /\ ~Exists(fs, LockFile)
    <2>1. /\ fs' = Put(fs, LockFile, File("lock")) /\ LockFile \notin DOMAIN fs
          /\ IsDir(fs, InventoryDir) /\ InventoryDir \in DOMAIN fs
      BY <1>5, Zenon DEF Lock, Exists
    <2>2. \A q \in Paths : IsStrictPrefix(q, LockFile) => IsDir(fs, q)
      BY <1>3, <2>1, FrontIs, Zenon DEF Types, Tree
    <2>3. File("lock").kind \in Kinds /\ File("lock").by = "lock"
      BY Zenon DEF File, Kinds
    <2>4. Made(LockFile, File("lock"))
      BY <1>3, <2>1, <2>2, <2>3, Zenon DEF Made
    <2> QED
      BY <1>1, <2>3, <2>4, Zenon
  <1>6. CASE Exists(fs, InventoryDir) /\ Exists(fs, LockFile)
    BY <1>1, <1>6, Zenon DEF Lock
  <1> QED
    BY <1>4, <1>5, <1>6, Zenon

(* The newest entry of the journal is removed, if it is there and nothing   *)
(* is in it, or what it leads to where not all above it are directories.    *)
LEMMA UndoDoes ==
    ASSUME Types, Undo
    PROVE  /\ phase = "undo" /\ live
           /\ UNCHANGED <<run, placed, phase, at, entry, changes>>
           /\ Len(journal) \in Nat \ {0} /\ Len(journal) \in DOMAIN journal
           /\ journal' \in Seq(Paths \ {<<>>})
           /\ Len(journal') = Len(journal) - 1
           /\ \A i \in DOMAIN journal' : i \in DOMAIN journal /\ journal'[i] = journal[i]
           /\ \A i \in DOMAIN journal : i = Len(journal) \/ i \in DOMAIN journal'
           /\ Last(journal) = journal[Len(journal)] /\ Last(journal) \in Paths
           /\ Last(journal) # <<>>
           /\ Tree(fs') /\ \A q \in DOMAIN fs' : q \in DOMAIN fs /\ fs'[q] = fs[q]
           /\ touched \subseteq touched' /\ touched' \subseteq Paths
           /\ astray \subseteq astray' /\ astray' \subseteq Paths
           /\ \A q \in DOMAIN fs :
                 \/ q \in DOMAIN fs'
                 \/ q = Last(journal) /\ q = Reached(fs, Last(journal))
                 \/ /\ q = Reached(fs, Last(journal)) /\ q # Last(journal)
                    /\ Last(journal) \notin DOMAIN fs /\ q \in touched' \cap astray'
                    /\ \E d \in Above(Last(journal)) : ~IsDir(fs, d)
           /\ stuck' \in BOOLEAN /\ (stuck => stuck')
           /\ ~stuck' => /\ ~stuck
                         /\ Last(journal) \in DOMAIN fs' => Inside(fs, Last(journal)) # {}
  <1> DEFINE p == Last(journal)
             n == Len(journal)
  <1>1. /\ phase = "undo" /\ journal # <<>> /\ journal' = Front(journal)
        /\ UNCHANGED <<run, placed, phase, at, entry, changes>>
    BY Zenon DEF Undo
  <1>2. /\ n \in Nat \ {0} /\ n \in DOMAIN journal /\ p = journal[n] /\ p \in Paths \ {<<>>}
        /\ DOMAIN journal = 1..n /\ journal \in Seq(Paths \ {<<>>})
    BY <1>1 DEF Types, Last
  <1>3. /\ journal' \in Seq(Paths \ {<<>>}) /\ Len(journal') = n - 1
        /\ \A i \in 1..(n - 1) : journal'[i] = journal[i]
    <2>1. n - 1 \in Int /\ 1 \in Int /\ \A i \in 1..(n - 1) : journal[i] \in Paths \ {<<>>}
      BY <1>2
    <2> DEFINE S == Paths \ {<<>>}
               m == n - 1
    <2> HIDE DEF S, m
    <2>2. \A i \in 1..m : journal[i] \in S
      BY <2>1, Zenon DEF S, m
    <2>3. /\ SubSeq(journal, 1, m) \in Seq(S)
          /\ Len(SubSeq(journal, 1, m)) = (IF 1 <= m THEN m - 1 + 1 ELSE 0)
          /\ \A i \in 1..(m - 1 + 1) : SubSeq(journal, 1, m)[i] = journal[1 + i - 1]
      BY <2>1, <2>2 DEF m
    <2>4. journal' = SubSeq(journal, 1, m) /\ m = n - 1
      BY <1>1, Zenon DEF Front, m
    <2> QED
      BY <1>2, <2>3, <2>4 DEF S
  <1>4. live
    BY <1>1, Zenon DEF Types
  <1>5. DOMAIN journal' = 1..(n - 1)
    BY <1>3
  <1>j. /\ \A i \in DOMAIN journal' : i \in DOMAIN journal /\ journal'[i] = journal[i]
        /\ \A i \in DOMAIN journal : i = n \/ i \in DOMAIN journal'
    BY <1>2, <1>3, <1>5
  <1> DEFINE found == Reached(fs, p)
  <1>f. \/ found = p
        \/ found # p /\ p \notin DOMAIN fs /\ \E d \in Above(p) : ~IsDir(fs, d)
    <2>1. (\A d \in Above(p) : IsDir(fs, d)) => found = p
      BY Zenon DEF Reached
    <2>2. p \in DOMAIN fs => \A d \in Above(p) : IsDir(fs, d)
      BY <1>2, AboveIs, Zenon DEF Types, Tree
    <2> QED
      BY <2>1, <2>2, Zenon
  <1>t. Tree(fs) /\ touched \subseteq Paths /\ astray \subseteq Paths /\ stuck \in BOOLEAN
    BY Zenon DEF Types
  <1>r. found \in DOMAIN fs => found \in Paths
    BY <1>t, Zenon DEF Tree
  <1> HIDE DEF p, n, found
  <1>6. CASE UNCHANGED <<fs, touched, astray>> /\ stuck' = TRUE
    BY <1>1, <1>2, <1>3, <1>4, <1>j, <1>t, <1>6, Zenon DEF p, n
  <1>7. CASE Remove(p) /\ UNCHANGED stuck
    <2>1. stuck' \in BOOLEAN /\ (stuck => stuck') /\ (~stuck' => ~stuck)
      BY <1>7, <1>t, Zenon
    <2>2. /\ fs' = IF Removable(found) THEN Without(fs, found) ELSE fs
          /\ astray' = IF Removable(found) /\ found # p THEN astray \cup {found} ELSE astray
          /\ touched' = touched \cup astray'
      BY <1>7, Zenon DEF Remove, found
    <2>3. CASE Removable(found)
      <3>1. found # <<>> /\ found \in DOMAIN fs /\ Inside(fs, found) = {} /\ fs' = Without(fs, found)
        BY <2>2, <2>3, Zenon DEF Removable, Exists
      <3>2. Tree(fs')
        BY <1>r, <1>t, <3>1, WithoutKeepsTree, Zenon
      <3>3. DOMAIN fs' = DOMAIN fs \ {found} /\ \A q \in DOMAIN fs' : fs'[q] = fs[q]
        BY <3>1, Zenon DEF Without
      <3>4. /\ touched \subseteq touched' /\ astray \subseteq astray'
            /\ touched' \subseteq Paths /\ astray' \subseteq Paths
            /\ found # p => found \in touched' \cap astray'
        BY <1>r, <1>t, <2>2, <2>3, <3>1, Zenon
      <3>5. p \notin DOMAIN fs'
        BY <1>f, <3>3, Zenon
      <3> QED
        BY <1>1, <1>2, <1>3, <1>4, <1>f, <1>j, <2>1, <3>2, <3>3, <3>4, <3>5, Zenon DEF p, n, found
    <2>4. CASE ~Removable(found)
      <3>1. /\ UNCHANGED <<fs, astray>> /\ Tree(fs')
            /\ touched \subseteq touched' /\ touched' \subseteq Paths /\ astray' \subseteq Paths
        BY <1>t, <2>2, <2>4, Zenon
      <3>2. p \in DOMAIN fs => Inside(fs, p) # {}
        BY <1>2, <1>f, <2>4, Zenon DEF Removable, Exists
      <3> QED
        BY <1>1, <1>2, <1>3, <1>4, <1>j, <2>1, <3>1, <3>2, Zenon DEF p, n
    <2> QED
      BY <2>3, <2>4, Zenon
  <1> QED
    BY <1>6, <1>7, Zenon DEF Undo, p

(* The run goes on, to the next entry, phase or component. *)
LEMMA AdvanceDoes ==
    ASSUME Types, phase \in DOMAIN Following \cup {"inventory"}, Advance
    PROVE  /\ phase' \in Working /\ at' \in DOMAIN pkg /\ entry' \in Nat
           /\ entry' = 1 \/ entry' \in DOMAIN pkg[at'].payload
           /\ at' = at \/ at' = at + 1
  <1>1. at \in DOMAIN pkg /\ entry \in Nat /\ (entry = 1 \/ entry \in DOMAIN pkg[at].payload)
    BY Zenon DEF Types
  <1>2. /\ Len(pkg) \in Nat /\ DOMAIN pkg = 1..Len(pkg) /\ Len(pkg[at].payload) \in Nat
        /\ DOMAIN pkg[at].payload = 1..Len(pkg[at].payload)
    BY <1>1, PackageIs, Zenon
  <1>3. CASE /\ phase = "extract" /\ entry < Len(C.payload)
             /\ entry' = entry + 1 /\ UNCHANGED <<phase, at>>
    <2>1. entry + 1 \in DOMAIN pkg[at].payload /\ entry + 1 \in Nat
      BY <1>1, <1>2, <1>3 DEF C
    <2>2. phase' \in Working
      BY <1>3, FollowingIs, Zenon DEF Working
    <2> QED
      BY <1>1, <1>3, <2>1, <2>2, Zenon
  <1>4. CASE /\ phase \in DOMAIN Following
             /\ entry' = 1 /\ phase' = Following[phase] /\ UNCHANGED at
    <2>1. phase' \in Working
      BY <1>4, FollowingIs, Zenon DEF Working
    <2> QED
      BY <1>1, <1>4, <2>1, Zenon
  <1>5. CASE at < Len(pkg) /\ entry' = 1 /\ phase' = "pre" /\ at' = at + 1
    <2>1. at + 1 \in DOMAIN pkg
      BY <1>1, <1>2, <1>5
    <2>2. phase' \in Working
      BY <1>5, FollowingIs, Zenon DEF Working
    <2> QED
      BY <1>5, <2>1, <2>2, Zenon
  <1>6. CASE phase' = (IF live THEN "done" ELSE "restore") /\ UNCHANGED <<at, entry>>
    <2>1. phase' \in Working
      BY <1>6, Zenon DEF Working
    <2> QED
      BY <1>1, <1>6, <2>1, Zenon
  <1> QED
    BY <1>3, <1>4, <1>5, <1>6, Zenon DEF Advance

(* What place_payload leaves. *)
LEMMA PreflightDoes ==
    ASSUME Types, Preflight
    PROVE  /\ phase = "preflight" /\ phase' = "pre"
           /\ UNCHANGED <<run, fs, journal, at, entry, changes, touched, astray, stuck>>
           /\ DOMAIN placed' = DOMAIN pkg
           /\ \A i \in DOMAIN pkg :
                 /\ DOMAIN placed'[i] = DOMAIN pkg[i].payload
                 /\ \A j \in DOMAIN placed'[i] :
                       /\ placed'[i][j].kind = pkg[i].payload[j].kind
                       /\ placed'[i][j].path \in Paths /\ ~Reserved(placed'[i][j].path)
           /\ \A i \in DOMAIN pkg : \A p \in Records(pkg[i]) : p \notin DOMAIN fs
  <1>1. /\ phase = "preflight" /\ phase' = "pre"
        /\ UNCHANGED <<run, fs, journal, at, entry, changes, touched, astray, stuck>>
        /\ \A i \in DOMAIN pkg : ComponentFits(pkg[i], placed'[i])
    BY Zenon DEF Preflight
  <1>2. placed' = [i \in DOMAIN pkg |-> [j \in DOMAIN pkg[i].payload |->
                     [pkg[i].payload[j] EXCEPT !.path = Place(fs, live, pkg[i].payload[j])]]]
    BY Zenon DEF Preflight
  <1>3. DOMAIN placed' = DOMAIN pkg /\ \A i \in DOMAIN pkg : DOMAIN placed'[i] = DOMAIN pkg[i].payload
    BY <1>2, Zenon
  <1>4. ASSUME NEW i \in DOMAIN pkg, NEW j \in DOMAIN placed'[i]
        PROVE  placed'[i][j].kind = pkg[i].payload[j].kind
    <2>1. pkg[i].payload[j] \in PayloadEntry
      BY <1>3, <1>4, PackageIs
    <2>2. placed'[i][j] = [pkg[i].payload[j] EXCEPT !.path = Place(fs, live, pkg[i].payload[j])]
      BY <1>2, <1>3, <1>4, Zenon
    <2> QED
      BY <2>1, <2>2, Zenon DEF PayloadEntry
  <1>5. ASSUME NEW i \in DOMAIN pkg, NEW j \in DOMAIN placed'[i]
        PROVE  placed'[i][j].path \in Paths /\ ~Reserved(placed'[i][j].path)
    <2>1. placed'[i][j] \in Range(placed'[i])
      BY <1>5, Zenon DEF Range
    <2>2. FitsPathMax(placed'[i][j].path) /\ ~Reserved(placed'[i][j].path)
      BY <1>1, <1>5, <2>1, Zenon DEF ComponentFits
    <2>3. \A p : FitsPathMax(p) => p \in Paths
      BY Zenon DEF FitsPathMax
    <2> QED
      BY <2>2, <2>3, Zenon
  <1>6. \A i \in DOMAIN pkg : \A p \in Records(pkg[i]) : p \notin DOMAIN fs
    BY <1>1, Zenon DEF ComponentFits, Exists
  <1> QED
    BY <1>1, <1>3, <1>4, <1>5, <1>6, Zenon

-----------------------------------------------------------------------------
(* What every step leaves in place. *)

(* The types hold from the start. *)
LEMMA TypesInit == Init => Types
  <1> SUFFICES ASSUME Init
               PROVE  Types
    BY Zenon
  <1>1. /\ live \in BOOLEAN /\ base \in Trees /\ pkg \in Packages /\ fs = base
        /\ placed = [i \in DOMAIN pkg |-> pkg[i].payload]
        /\ journal = <<>> /\ touched = {} /\ astray = {} /\ stuck = FALSE /\ at = 1 /\ entry = 1
        /\ phase = (IF live THEN "lock" ELSE "preflight")
    BY Zenon DEF Init
  <1>2. /\ base = [p \in DOMAIN base |-> base[p]] /\ DOMAIN base \subseteq Paths /\ IsDir(base, <<>>)
        /\ \A p \in DOMAIN base : base[p].kind \in Kinds /\ base[p].by = "base"
        /\ \A p \in DOMAIN base : \A d \in Above(p) : IsDir(base, d)
    BY <1>1, InstallAssumption, Zenon
  <1>3. \A p \in DOMAIN base : \A q \in Paths : IsStrictPrefix(q, p) => IsDir(base, q)
    BY <1>2, AboveIs, Zenon
  <1>4. Tree(fs)
    BY <1>1, <1>2, <1>3, Zenon DEF Tree, Authors
  <1>5. pkg \in Seq(Component) /\ pkg # <<>>
    BY <1>1, InstallAssumption, Zenon
  <1>6. at \in DOMAIN pkg
    BY <1>1, <1>5
  <1>7. journal \in Seq(Paths \ {<<>>}) /\ touched \subseteq Paths /\ astray \subseteq Paths
    BY <1>1
  <1>8. phase \in Phases /\ phase \notin Working \cup {"undo"} /\ (live \/ phase # "lock")
    BY <1>1, FollowingIs, Zenon DEF Phases, Working
  <1> QED
    BY <1>1, <1>4, <1>6, <1>7, <1>8, Zenon DEF Types

(* The types hold after every step. *)
LEMMA TypesStep == Types /\ [Next]_vars => Types'
  <1> SUFFICES ASSUME Types, [Next]_vars
               PROVE  Types'
    BY Zenon
  <1> USE DEF run
  <1>t. /\ live \in BOOLEAN /\ stuck \in BOOLEAN /\ phase \in Phases /\ Tree(fs)
        /\ at \in DOMAIN pkg /\ entry \in Nat /\ (entry = 1 \/ entry \in DOMAIN pkg[at].payload)
        /\ journal \in Seq(Paths \ {<<>>}) /\ touched \subseteq Paths /\ astray \subseteq Paths
        /\ live \/ (journal = <<>> /\ phase \notin {"lock", "undo"})
    BY Zenon DEF Types
  <1>p. /\ Working \cup {"undo", "failed", "killed"} \subseteq Phases
        /\ Working \cap {"lock", "preflight", "undo", "failed", "killed"} = {}
        /\ {"pre", "extract", "links", "post", "plist", "bom", "inventory", "done", "restore"}
              \subseteq Working
    BY FollowingIs, Zenon DEF Working, Phases, Over
  <1>g. ASSUME UNCHANGED <<run, placed>>, Tree(fs'), journal' \in Seq(Paths \ {<<>>}),
               touched' \subseteq Paths, astray' \subseteq Paths, stuck' \in BOOLEAN, phase' \in Phases,
               at' \in DOMAIN pkg, entry' \in Nat, entry' = 1 \/ entry' \in DOMAIN pkg[at'].payload,
               phase' \in Working \cup {"undo"} => phase \in Working \cup {"undo"},
               live \/ (journal' = <<>> /\ phase' \notin {"lock", "undo"})
        PROVE  Types'
    BY <1>g, Zenon DEF Types
  <1>s. ASSUME UNCHANGED <<run, placed, journal, at, entry>>, Tree(fs'), touched' \subseteq Paths,
               astray' \subseteq Paths, stuck' \in BOOLEAN, phase' \in Phases,
               phase' \in Working \cup {"undo"} => phase \in Working \cup {"undo"},
               live \/ phase' \notin {"lock", "undo"}
        PROVE  Types'
    BY <1>g, <1>s, <1>t, Zenon
  <1>j. ASSUME NEW p \in Paths, p # <<>>,
               journal' = IF live THEN Append(journal, p) ELSE journal
        PROVE  journal' \in Seq(Paths \ {<<>>}) /\ (live \/ journal' = <<>>)
    BY <1>j, <1>t
  <1>1. CASE Fail
    <2>1. /\ UNCHANGED <<run, placed, fs, journal, at, entry, touched, astray, stuck>>
          /\ phase' \in {"undo", "failed"} /\ (phase' = "undo" => live /\ phase \in Working)
      BY <1>1, <1>t, <1>p, Zenon DEF Fail, Die, Phases, Working, Over
    <2>2. phase' \in Phases /\ (phase' \in Working \cup {"undo"} => phase \in Working)
      BY <1>p, <2>1, Zenon
    <2> QED
      BY <1>s, <1>t, <2>1, <2>2, Zenon
  <1>2. CASE Lock
    <2>1. /\ phase = "lock" /\ phase' \in {"lock", "preflight"}
          /\ UNCHANGED <<run, placed, journal, at, entry, touched, astray, stuck>>
      BY <1>2, LockDoes, Zenon
    <2>2. Tree(fs')
      BY <1>2, <1>t, LockDoes, MadeDoes, Zenon
    <2>3. {"lock", "preflight"} \subseteq Phases
      BY Zenon DEF Phases
    <2> QED
      BY <1>s, <1>t, <1>p, <2>1, <2>2, <2>3, Zenon
  <1>3. CASE Preflight
    <2>1. /\ phase' = "pre" /\ DOMAIN placed' = DOMAIN pkg
          /\ UNCHANGED <<run, fs, journal, at, entry, touched, astray, stuck>>
          /\ \A i \in DOMAIN pkg :
                /\ DOMAIN placed'[i] = DOMAIN pkg[i].payload
                /\ \A j \in DOMAIN placed'[i] :
                      /\ placed'[i][j].kind = pkg[i].payload[j].kind
                      /\ placed'[i][j].path \in Paths /\ ~Reserved(placed'[i][j].path)
      BY <1>3, PreflightDoes, Zenon
    <2>2. phase' \in Phases /\ phase' \notin {"lock", "undo"}
      BY <1>p, <2>1, Zenon
    <2> QED
      BY <1>t, <2>1, <2>2, Zenon DEF Types
  <1>4. CASE MakeParent
    <2>1. PICK d \in Paths : Made(d, Dir("mdpkg")) /\ journal' = IF live THEN Append(journal, d) ELSE journal
      BY <1>4, MakeParentDoes, Zenon
    <2>2. UNCHANGED <<run, placed, phase, at, entry, changes, touched, astray, stuck>>
      BY <1>4, MakeParentDoes, Zenon
    <2>3. Tree(fs') /\ d # <<>>
      BY <1>t, <2>1, MadeDoes, Zenon DEF Made
    <2>4. journal' \in Seq(Paths \ {<<>>}) /\ (live \/ journal' = <<>>)
      BY <1>j, <2>1, <2>3, Zenon
    <2> QED
      BY <1>g, <1>t, <2>2, <2>3, <2>4, Zenon
  <1>w. ASSUME Writing
        PROVE  phase \in DOMAIN Following \cup {"inventory"} /\ phase \in Working
    BY <1>w, <1>p, TargetIs, FollowingIs, Zenon
  <1>5. ASSUME NoPayload \/ Keep \/ CheckLinks
        PROVE  Types'
    <2>1. phase \in {"extract", "links"} /\ Advance /\ UNCHANGED <<run, placed, fs, journal, touched, astray, stuck>>
      BY <1>5, Zenon DEF NoPayload, Keep, CheckLinks, Extracting
    <2>2. /\ phase' \in Working /\ at' \in DOMAIN pkg /\ entry' \in Nat
          /\ entry' = 1 \/ entry' \in DOMAIN pkg[at'].payload
      BY <2>1, AdvanceDoes, FollowingIs, Zenon
    <2> QED
      BY <1>g, <1>t, <1>p, <2>1, <2>2, Zenon
  <1>6. CASE Create
    <2>1. /\ Made(Target, NewNode) /\ Writing
          /\ journal' = IF live THEN Append(journal, Target) ELSE journal
          /\ UNCHANGED <<run, placed, changes, touched, astray, stuck>>
          /\ (Advance /\ phase = "extract") \/ UNCHANGED <<phase, at, entry>>
      BY <1>6, CreateDoes, Zenon
    <2>2. Tree(fs') /\ Target \in Paths /\ Target # <<>>
      BY <1>t, <2>1, MadeDoes, Zenon DEF Made
    <2>3. journal' \in Seq(Paths \ {<<>>}) /\ (live \/ journal' = <<>>)
      BY <1>j, <2>1, <2>2, Zenon
    <2>4. /\ phase' \in Working /\ at' \in DOMAIN pkg /\ entry' \in Nat
          /\ entry' = 1 \/ entry' \in DOMAIN pkg[at'].payload
      BY <1>t, <1>w, <2>1, AdvanceDoes, Zenon
    <2> QED
      BY <1>g, <1>t, <1>p, <1>w, <2>1, <2>2, <2>3, <2>4, Zenon
  <1>7. CASE Finish
    <2>1. Tree(fs') /\ Writing /\ Advance /\ UNCHANGED <<run, placed, journal, touched, astray, stuck>>
      BY <1>7, FinishDoes, Zenon
    <2>2. /\ phase' \in Working /\ at' \in DOMAIN pkg /\ entry' \in Nat
          /\ entry' = 1 \/ entry' \in DOMAIN pkg[at'].payload
      BY <1>w, <2>1, AdvanceDoes, Zenon
    <2> QED
      BY <1>g, <1>t, <1>p, <1>w, <2>1, <2>2, Zenon
  <1>8. CASE Restore
    <2>1. /\ phase = "restore" /\ phase' = "done"
          /\ UNCHANGED <<run, placed, fs, journal, at, entry, touched, astray, stuck>>
      BY <1>8, Zenon DEF Restore
    <2> QED
      BY <1>s, <1>t, <1>p, <2>1, Zenon
  <1>9. CASE Undo
    <2>1. /\ phase = "undo" /\ live /\ UNCHANGED <<run, placed, phase, at, entry>>
          /\ journal' \in Seq(Paths \ {<<>>}) /\ Tree(fs') /\ stuck' \in BOOLEAN
          /\ touched' \subseteq Paths /\ astray' \subseteq Paths
      BY <1>9, UndoDoes, Zenon
    <2> QED
      BY <1>g, <1>t, <2>1, Zenon
  <1>10. CASE Undone \/ Kill
    <2>1. /\ phase' \in {"failed", "killed"}
          /\ UNCHANGED <<run, placed, fs, journal, at, entry, touched, astray, stuck>>
      BY <1>10, Zenon DEF Undone, Kill
    <2>2. phase' \in Phases /\ phase' \notin Working \cup {"undo"}
      BY <1>p, <2>1, FollowingIs, Zenon DEF Working
    <2> QED
      BY <1>s, <1>t, <2>1, <2>2, Zenon
  <1>11. CASE RunHooks
    <2>1. /\ phase \in {"pre", "post"} /\ UNCHANGED <<run, placed, journal, astray, stuck>>
          /\ Touching \/ UNCHANGED <<fs, touched>>
          /\ \/ Advance
             \/ phase' = (IF live THEN "undo" ELSE "failed") /\ UNCHANGED <<at, entry, changes>>
      BY <1>11, HooksDo, Zenon
    <2>2. Tree(fs') /\ touched' \subseteq Paths
      BY <1>t, <2>1, Zenon DEF Touching
    <2>3. /\ phase' \in Working \cup {"undo", "failed"} /\ (phase' = "undo" => live)
          /\ at' \in DOMAIN pkg /\ entry' \in Nat
          /\ entry' = 1 \/ entry' \in DOMAIN pkg[at'].payload
      BY <1>t, <1>p, <2>1, AdvanceDoes, FollowingIs, Zenon
    <2> QED
      BY <1>g, <1>t, <1>p, <2>1, <2>2, <2>3, Zenon
  <1>12. CASE Other
    <2>1. Touching /\ UNCHANGED <<run, placed, journal, phase, at, entry, astray, stuck>>
      BY <1>12, OtherDoes, Zenon
    <2>2. Tree(fs') /\ touched' \subseteq Paths
      BY <2>1, Zenon DEF Touching
    <2> QED
      BY <1>s, <1>t, <2>1, <2>2, Zenon
  <1>13. CASE UNCHANGED vars
    BY <1>13, <1>s, <1>t, Zenon DEF vars
  <1> QED
    BY <1>1, <1>2, <1>3, <1>4, <1>5, <1>6, <1>7, <1>8, <1>9, <1>10, <1>11, <1>12, <1>13, Zenon
    DEF Next, Mdpkg

(* journal_add *)
LEMMA JournalGrows ==
    ASSUME Types, NEW p \in Paths, p # <<>>,
           journal' = IF live THEN Append(journal, p) ELSE journal
    PROVE  /\ Range(journal') \subseteq Range(journal) \cup {p}
           /\ Range(journal) \subseteq Range(journal')
           /\ live => p \in Range(journal')
           /\ \A i \in DOMAIN journal : i \in DOMAIN journal' /\ journal'[i] = journal[i]
           /\ \A i \in DOMAIN journal' :
                 \/ i \in DOMAIN journal /\ journal'[i] = journal[i]
                 \/ journal'[i] = p /\ \A k \in DOMAIN journal' : k # i => k < i /\ k \in DOMAIN journal
  <1>1. journal \in Seq(Paths \ {<<>>}) /\ Len(journal) \in Nat /\ DOMAIN journal = 1..Len(journal)
    BY DEF Types
  <1>2. CASE ~live
    BY <1>2, Zenon
  <1>3. CASE live
    <2> DEFINE n == Len(journal) + 1
    <2>1. /\ DOMAIN journal' = 1..n /\ journal'[n] = p /\ n \in Nat
          /\ \A i \in 1..Len(journal) : journal'[i] = journal[i]
      BY <1>1, <1>3
    <2>2. n \in DOMAIN journal' /\ \A i \in DOMAIN journal' : i = n \/ i \in DOMAIN journal
      BY <1>1, <2>1
    <2>3. \A k \in DOMAIN journal' : k # n => k < n
      BY <1>1, <2>1
    <2>4. \A i \in DOMAIN journal : i \in DOMAIN journal' /\ journal'[i] = journal[i]
      BY <1>1, <2>1
    <2> HIDE DEF n
    <2> QED
      BY <2>1, <2>2, <2>3, <2>4, Zenon DEF Range
  <1> QED
    BY <1>2, <1>3, Zenon

(* What is whose, after every step. *)
LEMMA OwnStep == Types /\ OwnInvariant /\ [Next]_vars => OwnInvariant'
  <1> SUFFICES ASSUME Types, OwnInvariant, [Next]_vars
               PROVE  OwnInvariant'
    BY Zenon
  <1> USE DEF run
  <1>t. Tree(fs) /\ phase \in Phases /\ DOMAIN fs \subseteq Paths
    BY Zenon DEF Types, Tree
  <1>p. Working \cap {"lock", "preflight", "undo", "failed", "killed"} = {}
    BY FollowingIs, Zenon DEF Working
  <1>q. ASSUME UNCHANGED <<fs, journal, touched>>,
               phase' \in {"lock", "preflight"} => phase \in {"lock", "preflight"}
        PROVE  OwnInvariant'
    BY <1>q, Zenon DEF OwnInvariant
  <1>m. ASSUME NEW p, NEW node, Made(p, node), node.by = "mdpkg", UNCHANGED touched,
               journal' = (IF live THEN Append(journal, p) ELSE journal),
               phase' \notin {"lock", "preflight"}
        PROVE  OwnInvariant'
    <2>1. p \in Paths /\ p # <<>>
      BY <1>m, Zenon DEF Made
    <2>2. Range(journal') \subseteq Range(journal) \cup {p}
      BY <1>m, <2>1, JournalGrows, Zenon
    <2>3. /\ DOMAIN fs' = DOMAIN fs \cup {p} /\ fs'[p].by = "mdpkg"
          /\ \A q \in DOMAIN fs : q # p /\ fs'[q] = fs[q]
          /\ \A q \in DOMAIN fs' : ~IsStrictPrefix(p, q)
      BY <1>m, <1>t, MadeDoes, Zenon
    <2> QED
      BY <1>m, <2>2, <2>3, Zenon DEF OwnInvariant
  <1>x. ASSUME Touching, UNCHANGED journal,
               phase' \in {"lock", "preflight"} => phase \in {"lock", "preflight"}
        PROVE  OwnInvariant'
    <2>1. /\ Tree(fs') /\ touched \subseteq touched' /\ Differ(fs, fs') \subseteq touched'
          /\ \A q \in DOMAIN fs' :
                fs'[q].by \in {"script", "other"} \/ (q \in DOMAIN fs /\ fs'[q] = fs[q])
      BY <1>x, Zenon DEF Touching
    <2>2. \A q \in DOMAIN fs' \ touched' : q \in DOMAIN fs /\ fs'[q] = fs[q]
      BY <1>t, <2>1, DifferIs, Zenon
    <2> QED
      BY <1>x, <2>1, <2>2, Zenon DEF OwnInvariant
  <1>1. CASE Fail
    <2>1. UNCHANGED <<fs, journal, touched>> /\ phase' \in {"undo", "failed"}
      BY <1>1, Zenon DEF Fail, Die
    <2> QED
      BY <1>q, <2>1, Zenon
  <1>2. CASE Lock
    <2>1. /\ phase = "lock" /\ phase' \in {"lock", "preflight"} /\ UNCHANGED <<journal, touched>>
          /\ fs' = fs \/ \E p : \E node : Made(p, node) /\ node.by = "lock"
      BY <1>2, LockDoes, Zenon
    <2>2. ASSUME NEW p, NEW node, Made(p, node), node.by = "lock"
          PROVE  OwnInvariant'
      <3>1. /\ DOMAIN fs' = DOMAIN fs \cup {p} /\ fs'[p].by = "lock"
            /\ \A q \in DOMAIN fs : q # p /\ fs'[q] = fs[q]
        BY <1>t, <2>2, MadeDoes, Zenon
      <3>2. journal = <<>> /\ \A q \in DOMAIN fs : fs[q].by # "mdpkg"
        BY <2>1, Zenon DEF OwnInvariant
      <3>3. Range(journal') = {}
        BY <2>1, <3>2 DEF Range
      <3> QED
        BY <2>1, <3>1, <3>2, <3>3, Zenon DEF OwnInvariant
    <2> QED
      BY <1>q, <2>1, <2>2, Zenon
  <1>3. CASE Preflight
    <2>1. UNCHANGED <<fs, journal, touched>> /\ phase' = "pre"
      BY <1>3, PreflightDoes, Zenon
    <2> QED
      BY <1>q, <2>1, Zenon
  <1>w. ASSUME Writing
        PROVE  phase \in DOMAIN Following \cup {"inventory"} /\ phase \in Working
    BY <1>w, TargetIs, FollowingIs, Zenon DEF Working
  <1>4. CASE MakeParent
    <2>1. PICK d : /\ Made(d, Dir("mdpkg"))
                   /\ journal' = IF live THEN Append(journal, d) ELSE journal
      BY <1>4, MakeParentDoes, Zenon
    <2>2. Writing /\ UNCHANGED <<phase, touched>> /\ Dir("mdpkg").by = "mdpkg"
      BY <1>4, MakeParentDoes, Zenon DEF Dir
    <2> QED
      BY <1>m, <1>p, <1>w, <2>1, <2>2, Zenon
  <1>5. ASSUME NoPayload \/ Keep \/ CheckLinks
        PROVE  OwnInvariant'
    <2>1. phase \in {"extract", "links"} /\ Advance /\ UNCHANGED <<fs, journal, touched>>
      BY <1>5, Zenon DEF NoPayload, Keep, CheckLinks, Extracting
    <2>2. phase' \in Working
      BY <2>1, AdvanceDoes, FollowingIs, Zenon
    <2> QED
      BY <1>p, <1>q, <2>1, <2>2, Zenon
  <1>6. CASE Create
    <2>1. /\ Made(Target, NewNode) /\ Writing /\ NewNode.by = "mdpkg" /\ UNCHANGED touched
          /\ journal' = (IF live THEN Append(journal, Target) ELSE journal)
          /\ Advance \/ UNCHANGED phase
      BY <1>6, CreateDoes, Zenon
    <2>2. phase' \in Working
      BY <1>w, <2>1, AdvanceDoes, Zenon
    <2> QED
      BY <1>m, <1>p, <2>1, <2>2, Zenon
  <1>7. CASE Finish
    <2>1. /\ DOMAIN fs' = DOMAIN fs /\ Target \in DOMAIN fs
          /\ fs[Target] = Part("mdpkg") /\ fs'[Target] = File("mdpkg")
          /\ \A q \in DOMAIN fs : q # Target => fs'[q] = fs[q]
          /\ Writing /\ Advance /\ UNCHANGED <<journal, touched>>
      BY <1>7, FinishDoes, Zenon
    <2>2. phase' \in Working
      BY <1>w, <2>1, AdvanceDoes, Zenon
    <2>3. \A q \in DOMAIN fs : fs'[q].by = fs[q].by
      BY <2>1 DEF Part, File
    <2> QED
      BY <1>p, <2>1, <2>2, <2>3, Zenon DEF OwnInvariant
  <1>8. CASE Restore \/ Undone \/ Kill
    <2>1. UNCHANGED <<fs, journal, touched>> /\ phase' \in {"done", "failed", "killed"}
      BY <1>8, Zenon DEF Restore, Undone, Kill
    <2> QED
      BY <1>q, <2>1, Zenon
  <1>9. CASE Undo
    <2>1. /\ phase = "undo" /\ UNCHANGED phase /\ touched \subseteq touched'
          /\ \A i \in DOMAIN journal' : i \in DOMAIN journal /\ journal'[i] = journal[i]
          /\ \A q \in DOMAIN fs' : q \in DOMAIN fs /\ fs'[q] = fs[q]
      BY <1>9, UndoDoes, Zenon
    <2>2. Range(journal') \subseteq Range(journal)
      BY <2>1, Zenon DEF Range
    <2> QED
      BY <2>1, <2>2, Zenon DEF OwnInvariant
  <1>11. CASE RunHooks
    <2>1. /\ phase \in {"pre", "post"} /\ UNCHANGED journal
          /\ Touching \/ UNCHANGED <<fs, touched>>
          /\ Advance \/ phase' \in {"undo", "failed"}
      BY <1>11, HooksDo, Zenon
    <2>2. phase' \in Working \cup {"undo", "failed"}
      BY <2>1, AdvanceDoes, FollowingIs, Zenon
    <2> QED
      BY <1>p, <1>q, <1>x, <2>1, <2>2, Zenon
  <1>12. CASE Other
    <2>1. Touching /\ UNCHANGED <<journal, phase>>
      BY <1>12, OtherDoes, Zenon
    <2> QED
      BY <1>x, <2>1, Zenon
  <1>13. CASE UNCHANGED vars
    BY <1>13, <1>q, Zenon DEF vars
  <1> QED
    BY <1>1, <1>2, <1>3, <1>4, <1>5, <1>6, <1>7, <1>8, <1>9, <1>11, <1>12, <1>13, Zenon
    DEF Next, Mdpkg

(* What is whose, at the start. *)
LEMMA OwnInit == Init => OwnInvariant
  <1> SUFFICES ASSUME Init
               PROVE  OwnInvariant
    BY Zenon
  <1>1. journal = <<>> /\ fs = base /\ base \in Trees
    BY Zenon DEF Init
  <1>2. \A p \in DOMAIN fs : fs[p].by = "base"
    BY <1>1, InstallAssumption, Zenon
  <1>3. Range(journal) = {}
    BY <1>1 DEF Range
  <1> QED
    BY <1>1, <1>2, <1>3, Zenon DEF OwnInvariant

-----------------------------------------------------------------------------
(* What the journal has. *)

(* What is left when the newest entry is undone. *)
LEMMA UndoLeaves ==
    ASSUME Types, OwnInvariant, JournalInvariant, Undo
    PROVE  JournalInvariant'
  <1> DEFINE p == Last(journal)
             n == Len(journal)
  <1>1. /\ phase = "undo" /\ live /\ UNCHANGED <<live, phase>>
        /\ touched \subseteq touched' /\ astray \subseteq astray'
        /\ \A i \in DOMAIN journal' : i \in DOMAIN journal /\ journal'[i] = journal[i]
        /\ \A i \in DOMAIN journal : i = n \/ i \in DOMAIN journal'
        /\ p = journal[n] /\ p \in Paths
        /\ \A q \in DOMAIN fs' : q \in DOMAIN fs /\ fs'[q] = fs[q]
        /\ \A q \in DOMAIN fs :
              q \in DOMAIN fs' \/ q = p \/ (q \in touched' \cap astray' /\ p \notin DOMAIN fs)
        /\ ~stuck' => ~stuck /\ (p \in DOMAIN fs' => Inside(fs, p) # {})
    BY UndoDoes, Zenon DEF run
  <1>2. Range(journal') \subseteq Range(journal) /\ \A x \in Range(journal) : x = p \/ x \in Range(journal')
    BY <1>1, Zenon DEF Range
  <1>3. \A i \in DOMAIN journal : i = n \/ i < n
    BY DEF Types
  <1>n. n \in DOMAIN journal
    BY UndoDoes, Zenon
  <1>4. Tree(fs) /\ DOMAIN fs \subseteq Paths /\ touched \subseteq Paths
    BY Zenon DEF Types, Tree
  <1> HIDE DEF p, n
  <1>5. ASSUME ~stuck', NEW x \in DOMAIN fs', x \notin Range(journal'), fs'[x].by = "mdpkg"
        PROVE  /\ fs'[x].kind = "dir"
               /\ \E q \in touched' \cap (DOMAIN fs' \cup astray') :
                     q = x \/ (IsStrictPrefix(x, q) /\ q \notin Range(journal'))
    <2>1. x \in DOMAIN fs /\ fs'[x] = fs[x] /\ fs[x].by = "mdpkg" /\ ~stuck
      BY <1>1, <1>5, Zenon
    <2>h. \A r \in DOMAIN fs \ Range(journal) :
              fs[r].by = "mdpkg" =>
                  /\ fs[r].kind = "dir"
                  /\ \E q \in touched \cap (DOMAIN fs \cup astray) :
                        q = r \/ (IsStrictPrefix(r, q) /\ q \notin Range(journal))
      BY <1>1, <2>1, Zenon DEF JournalInvariant
    <2>p. p \in Range(journal)
      BY <1>1, <1>n, Zenon DEF Range
    <2>2. CASE x \notin Range(journal)
      BY <1>1, <1>2, <1>5, <2>1, <2>2, <2>h, <2>p, Zenon
    <2>3. CASE x \in Range(journal)
      <3>1. x = p /\ Inside(fs, p) # {}
        BY <1>1, <1>2, <1>5, <2>3, Zenon
      <3>2. PICK r \in DOMAIN fs : IsStrictPrefix(p, r)
        BY <3>1, Zenon DEF Inside
      <3>3. fs[p].kind = "dir" /\ r \in Paths
        BY <1>1, <1>4, <3>2, <2>1, <3>1, Zenon DEF Tree, IsDir, Node
      <3>4. CASE p \in touched
        BY <1>1, <1>5, <2>1, <3>1, <3>3, <3>4, Zenon
      <3>5. CASE p \notin touched
        <4>1. ASSUME r \in Range(journal)
              PROVE  FALSE
          <5>1. PICK k \in DOMAIN journal : journal[k] = r
            BY <4>1, Zenon DEF Range
          <5>2. k # n
            BY <1>1, <3>2, <5>1, PrefixOrder, Zenon
          <5>3. k < n /\ IsStrictPrefix(journal[n], journal[k])
            BY <1>1, <1>3, <3>2, <5>1, <5>2, Zenon
          <5> QED
            BY <1>1, <1>n, <3>5, <5>3, Zenon DEF JournalInvariant
        <4>2. r # p /\ r \in DOMAIN fs' /\ r \notin Range(journal')
          BY <1>1, <1>2, <2>1, <2>p, <3>1, <4>1, Zenon
        <4>3. fs[r].by \in {"mdpkg", "script", "other"}
          BY <1>4, <2>1, <3>1, <3>2, Zenon DEF OwnInvariant, Tree, Authors
        <4>4. CASE r \in touched
          BY <1>1, <2>1, <3>1, <3>2, <3>3, <4>2, <4>4, Zenon
        <4>5. CASE r \notin touched
          <5>1. fs[r].by = "mdpkg"
            BY <4>3, <4>5, Zenon DEF OwnInvariant
          <5>2. PICK q \in touched \cap (DOMAIN fs \cup astray) :
                   IsStrictPrefix(r, q) /\ q \notin Range(journal)
            BY <2>h, <4>1, <4>5, <5>1, Zenon
          <5>3. q \in Paths
            BY <1>4, Zenon
          <5>4. IsStrictPrefix(p, q)
            BY <1>1, <3>2, <3>3, <5>2, <5>3, PrefixOrder, Zenon
          <5>5. q \in touched' \cap (DOMAIN fs' \cup astray') /\ q \notin Range(journal')
            BY <1>1, <1>2, <2>p, <5>2, Zenon
          <5> QED
            BY <2>1, <3>1, <3>3, <5>2, <5>4, <5>5, Zenon
        <4> QED
          BY <4>4, <4>5, Zenon
      <3> QED
        BY <3>4, <3>5, Zenon
    <2> QED
      BY <2>2, <2>3, Zenon
  <1>6. phase' \notin Working /\ phase' # "failed"
    BY <1>1, FollowingIs, Zenon DEF Working
  <1>7. \A i, j \in DOMAIN journal' :
            i < j /\ IsStrictPrefix(journal'[j], journal'[i]) => journal'[j] \in touched'
    BY <1>1, Zenon DEF JournalInvariant
  <1>8. ASSUME NEW i \in DOMAIN journal', NEW d \in Paths, IsStrictPrefix(d, journal'[i])
        PROVE  IsDir(fs', d) \/ d \in touched'
    <2>1. i \in DOMAIN journal /\ IsStrictPrefix(d, journal[i]) /\ (IsDir(fs, d) \/ d \in touched)
      BY <1>1, <1>8, Zenon DEF JournalInvariant
    <2>2. CASE d = p
      <3>1. i # n
        BY <1>1, <2>1, <2>2, PrefixOrder, Zenon
      <3> QED
        BY <1>1, <1>3, <1>n, <2>1, <2>2, <3>1, Zenon DEF JournalInvariant
    <2>3. CASE d # p
      BY <1>1, <2>1, <2>3, Zenon DEF IsDir, Node, Missing
    <2> QED
      BY <2>2, <2>3, Zenon
  <1> QED
    BY <1>1, <1>5, <1>6, <1>7, <1>8, Zenon DEF JournalInvariant

(* What the journal has, after something was made. *)
LEMMA JournalMade ==
    ASSUME Types, JournalInvariant, phase \in Working, phase' \in Working,
           NEW p, NEW node, Made(p, node), UNCHANGED <<live, touched>>,
           journal' = IF live THEN Append(journal, p) ELSE journal
    PROVE  JournalInvariant'
  <1>1. p \in Paths /\ p # <<>>
    BY Zenon DEF Made
  <1>2. Tree(fs)
    BY Zenon DEF Types
  <1>3. /\ DOMAIN fs' = DOMAIN fs \cup {p} /\ p \notin DOMAIN fs
        /\ \A q \in DOMAIN fs : fs'[q] = fs[q]
    BY <1>2, MadeDoes, Zenon DEF Made
  <1>4. CASE ~live
    <2>1. journal = <<>> /\ DOMAIN journal = {}
      BY <1>4 DEF Types
    <2>2. phase' \notin {"undo", "failed"} /\ journal' = journal
      BY <1>4, FollowingIs, Zenon DEF Working
    <2> QED
      BY <1>4, <2>1, <2>2, Zenon DEF JournalInvariant
  <1>5. CASE live
    <2>g. /\ Range(journal) \subseteq Range(journal') /\ p \in Range(journal')
          /\ \A i \in DOMAIN journal' :
                 \/ i \in DOMAIN journal /\ journal'[i] = journal[i]
                 \/ journal'[i] = p /\ \A k \in DOMAIN journal' : k # i => k < i /\ k \in DOMAIN journal
          /\ \A i \in DOMAIN journal : i \in DOMAIN journal' /\ journal'[i] = journal[i]
      BY <1>1, <1>5, JournalGrows, Zenon
    <2>j. /\ \A i \in DOMAIN journal : \A d \in Paths :
                IsStrictPrefix(d, journal[i]) => IsDir(fs, d) \/ d \in touched
          /\ \A q \in DOMAIN fs : fs[q].by = "mdpkg" => q \in Range(journal)
          /\ \A i, j \in DOMAIN journal :
                i < j /\ IsStrictPrefix(journal[j], journal[i]) => journal[j] \in touched
      BY <1>5, Zenon DEF JournalInvariant
    <2>d. DOMAIN journal' \subseteq Int
      <3>1. journal' \in Seq(Paths \ {<<>>})
        BY <1>1, <1>5 DEF Types
      <3> QED
        BY <3>1
    <2>1. ASSUME NEW i \in DOMAIN journal', NEW j \in DOMAIN journal', i < j,
                 IsStrictPrefix(journal'[j], journal'[i])
          PROVE  journal'[j] \in touched'
      <3>0. i \in Int /\ j \in Int
        BY <2>d, Zenon
      <3>1. i \in DOMAIN journal
        BY <2>1, <2>g, <3>0
      <3>2. journal'[i] = journal[i]
        BY <2>g, <3>1, Zenon
      <3>3. CASE j \in DOMAIN journal /\ journal'[j] = journal[j]
        BY <2>1, <2>j, <3>1, <3>2, <3>3, Zenon
      <3>4. CASE journal'[j] = p
        BY <1>1, <1>3, <2>1, <2>j, <3>1, <3>2, <3>4, Zenon DEF IsDir, Node, Missing
      <3> QED
        BY <2>g, <3>3, <3>4, Zenon
    <2>2. ASSUME NEW i \in DOMAIN journal', NEW d \in Paths, IsStrictPrefix(d, journal'[i])
          PROVE  IsDir(fs', d) \/ d \in touched'
      <3>1. IsStrictPrefix(d, p) => IsDir(fs, d)
        BY Zenon DEF Made
      <3>2. IsDir(fs, d) => IsDir(fs', d)
        BY <1>3, Zenon DEF IsDir, Node, Missing
      <3> QED
        BY <2>2, <2>g, <2>j, <3>1, <3>2, Zenon
    <2>3. \A q \in DOMAIN fs' : fs'[q].by = "mdpkg" => q \in Range(journal')
      BY <1>3, <2>g, <2>j, Zenon
    <2>4. phase' \notin {"undo", "failed"}
      BY FollowingIs, Zenon DEF Working
    <2> QED
      BY <2>1, <2>2, <2>3, <2>4, Zenon DEF JournalInvariant
  <1> QED
    BY <1>4, <1>5, Zenon DEF Types

(* What the journal has, after every step. *)
LEMMA JournalStep ==
    Types /\ OwnInvariant /\ JournalInvariant /\ [Next]_vars => JournalInvariant'
  <1> SUFFICES ASSUME Types, OwnInvariant, JournalInvariant, [Next]_vars
               PROVE  JournalInvariant'
    BY Zenon
  <1> USE DEF run
  <1>t. /\ Tree(fs) /\ phase \in Phases /\ DOMAIN fs \subseteq Paths /\ live \in BOOLEAN
        /\ journal \in Seq(Paths \ {<<>>})
    BY Zenon DEF Types, Tree
  <1>p. Working \cap {"lock", "preflight", "undo", "failed", "killed"} = {}
    BY FollowingIs, Zenon DEF Working
  <1>e. ~live => journal = <<>>
    BY Zenon DEF Types
  <1>o. \A i, j \in DOMAIN journal :
            i < j /\ IsStrictPrefix(journal[j], journal[i]) => journal[j] \in touched
    BY Zenon DEF JournalInvariant
  <1>q. ASSUME UNCHANGED <<live, fs, journal, touched>>, phase' \in Working, phase \in Working
        PROVE  JournalInvariant'
    BY <1>p, <1>q, Zenon DEF JournalInvariant
  <1>v. \A i \in DOMAIN journal : \A d \in Paths :
            IsStrictPrefix(d, journal[i]) => IsDir(fs, d) \/ d \in touched
    BY Zenon DEF JournalInvariant
  <1>s. ASSUME UNCHANGED <<live, fs, journal, touched>>, phase' = "killed"
        PROVE  JournalInvariant'
    BY <1>o, <1>p, <1>s, <1>v, Zenon DEF JournalInvariant
  <1>y. ASSUME Touching, UNCHANGED journal
        PROVE  \A i \in DOMAIN journal' : \A d \in Paths :
                  IsStrictPrefix(d, journal'[i]) => IsDir(fs', d) \/ d \in touched'
    <2>1. touched \subseteq touched' /\ Differ(fs, fs') \subseteq touched' /\ Tree(fs')
      BY <1>y, Zenon DEF Touching
    <2>2. \A d : Node(fs', d) = Node(fs, d) \/ d \in touched'
      BY <1>t, <2>1, DifferIs, Zenon
    <2> QED
      BY <1>v, <1>y, <2>1, <2>2, Zenon DEF IsDir
  <1>w. ASSUME Writing
        PROVE  phase \in DOMAIN Following \cup {"inventory"} /\ phase \in Working
    BY <1>w, TargetIs, FollowingIs, Zenon DEF Working
  <1>x. ASSUME Touching, UNCHANGED <<live, journal>>, phase \in Working, phase' \in Working
        PROVE  JournalInvariant'
    <2>1. /\ touched \subseteq touched' /\ Differ(fs, fs') \subseteq touched' /\ Tree(fs')
          /\ \A q \in DOMAIN fs' :
                fs'[q].by \in {"script", "other"} \/ (q \in DOMAIN fs /\ fs'[q] = fs[q])
      BY <1>x, Zenon DEF Touching
    <2> QED
      BY <1>p, <1>x, <1>y, <2>1, Zenon DEF JournalInvariant
  <1>d. ASSUME Touching \/ UNCHANGED <<fs, touched>>, phase \in Working,
               UNCHANGED <<live, journal>>, phase' = IF live THEN "undo" ELSE "failed"
        PROVE  JournalInvariant'
    <2>1. /\ touched \subseteq touched'
          /\ \A q \in DOMAIN fs' : fs'[q].by = "mdpkg" => q \in DOMAIN fs /\ fs'[q] = fs[q]
      BY <1>d, Zenon DEF Touching
    <2>2. live => \A q \in DOMAIN fs' : fs'[q].by = "mdpkg" => q \in Range(journal)
      BY <1>d, <2>1, Zenon DEF JournalInvariant
    <2>3. phase' = "failed" => journal = <<>>
      BY <1>d, <1>e, Zenon
    <2>4. \A i \in DOMAIN journal' : \A d \in Paths :
             IsStrictPrefix(d, journal'[i]) => IsDir(fs', d) \/ d \in touched'
      BY <1>d, <1>v, <1>y, Zenon
    <2> QED
      BY <1>d, <1>o, <1>p, <2>1, <2>2, <2>3, <2>4, Zenon DEF JournalInvariant
  <1>1. CASE Fail
    <2>1. /\ UNCHANGED <<live, fs, journal, touched>> /\ phase \notin Over \cup {"undo"}
          /\ phase' = IF live /\ phase \notin {"lock", "preflight"} THEN "undo" ELSE "failed"
      BY <1>1, Zenon DEF Fail, Die
    <2>2. CASE phase \in Working
      BY <1>d, <1>p, <2>1, <2>2, Zenon
    <2>3. CASE phase \in {"lock", "preflight"}
      <3>1. journal = <<>> /\ \A q \in DOMAIN fs : fs[q].by # "mdpkg"
        BY <2>3, Zenon DEF OwnInvariant
      <3>2. phase' = "failed"
        BY <2>1, <2>3, Zenon
      <3> QED
        BY <1>o, <1>p, <1>v, <2>1, <3>1, <3>2, Zenon DEF JournalInvariant
    <2> QED
      BY <1>t, <2>1, <2>2, <2>3, Zenon DEF Phases, Over, Working
  <1>2. CASE Lock
    <2>1. phase = "lock" /\ phase' \in {"lock", "preflight"} /\ UNCHANGED journal
      BY <1>2, LockDoes, Zenon
    <2>2. journal' = <<>> /\ DOMAIN journal' = {}
      BY <2>1 DEF OwnInvariant
    <2> QED
      BY <1>p, <2>1, <2>2, Zenon DEF JournalInvariant
  <1>3. CASE Preflight
    <2>1. UNCHANGED <<live, fs, journal, touched>> /\ phase' = "pre" /\ phase = "preflight"
      BY <1>3, PreflightDoes, Zenon
    <2>2. DOMAIN journal = {} /\ journal = <<>> /\ \A q \in DOMAIN fs : fs[q].by # "mdpkg"
      BY <2>1 DEF OwnInvariant
    <2> QED
      BY <2>1, <2>2, Zenon DEF JournalInvariant
  <1>4. CASE MakeParent
    <2>1. PICK d : /\ Made(d, Dir("mdpkg"))
                   /\ journal' = IF live THEN Append(journal, d) ELSE journal
      BY <1>4, MakeParentDoes, Zenon
    <2>2. Writing /\ UNCHANGED <<live, phase, touched>>
      BY <1>4, MakeParentDoes, Zenon
    <2> QED
      BY <1>w, <2>1, <2>2, JournalMade, Zenon
  <1>5. ASSUME NoPayload \/ Keep \/ CheckLinks
        PROVE  JournalInvariant'
    <2>1. phase \in {"extract", "links"} /\ Advance /\ UNCHANGED <<live, fs, journal, touched>>
      BY <1>5, Zenon DEF NoPayload, Keep, CheckLinks, Extracting
    <2>2. phase' \in Working /\ phase \in Working
      BY <2>1, AdvanceDoes, FollowingIs, Zenon DEF Working
    <2> QED
      BY <1>q, <2>1, <2>2, Zenon
  <1>6. CASE Create
    <2>1. /\ Made(Target, NewNode) /\ Writing /\ UNCHANGED <<live, touched>>
          /\ journal' = (IF live THEN Append(journal, Target) ELSE journal)
          /\ Advance \/ UNCHANGED phase
      BY <1>6, CreateDoes, Zenon
    <2>2. phase' \in Working /\ phase \in Working
      BY <1>w, <2>1, AdvanceDoes, Zenon
    <2> QED
      BY <2>1, <2>2, JournalMade, Zenon
  <1>7. CASE Finish
    <2>1. /\ DOMAIN fs' = DOMAIN fs /\ fs[Target] = Part("mdpkg") /\ fs'[Target] = File("mdpkg")
          /\ \A q \in DOMAIN fs : q # Target => fs'[q] = fs[q]
          /\ Writing /\ Advance /\ UNCHANGED <<live, journal, touched>>
      BY <1>7, FinishDoes, Zenon
    <2>2. phase' \in Working /\ phase \in Working
      BY <1>w, <2>1, AdvanceDoes, Zenon
    <2>3. \A q \in DOMAIN fs : fs'[q].by = fs[q].by
      BY <2>1 DEF Part, File
    <2>4. \A d : IsDir(fs, d) => IsDir(fs', d)
      BY <2>1 DEF IsDir, Node, Missing, Part
    <2> QED
      BY <1>p, <2>1, <2>2, <2>3, <2>4, Zenon DEF JournalInvariant
  <1>8. CASE Restore
    <2>1. UNCHANGED <<live, fs, journal, touched>> /\ phase' = "done" /\ phase = "restore"
      BY <1>8, Zenon DEF Restore
    <2> QED
      BY <1>q, <2>1, Zenon DEF Working
  <1>9. CASE Undone
    <2>1. /\ UNCHANGED <<live, fs, journal, touched, astray, stuck>> /\ phase' = "failed"
          /\ phase = "undo" /\ journal = <<>>
      BY <1>9, Zenon DEF Undone
    <2> QED
      BY <1>p, <2>1, Zenon DEF JournalInvariant
  <1>10. CASE Kill
    BY <1>10, <1>s, Zenon DEF Kill
  <1>11. CASE Undo
    BY <1>11, UndoLeaves, Zenon
  <1>12. CASE RunHooks
    <2>1. /\ phase \in {"pre", "post"} /\ UNCHANGED <<live, journal>>
          /\ Touching \/ UNCHANGED <<fs, touched>>
          /\ Advance \/ phase' = (IF live THEN "undo" ELSE "failed")
      BY <1>12, HooksDo, Zenon
    <2>2. phase \in Working /\ (Advance => phase' \in Working)
      BY <2>1, AdvanceDoes, FollowingIs, Zenon DEF Working
    <2> QED
      BY <1>d, <1>q, <1>x, <2>1, <2>2, Zenon
  <1>13. CASE Other
    <2>1. /\ Touching /\ UNCHANGED <<live, journal, phase, astray, stuck>> /\ phase \notin Over
          /\ DOMAIN fs \subseteq DOMAIN fs' /\ \A q \in DOMAIN fs : fs'[q] = fs[q]
      BY <1>13, OtherDoes, Zenon
    <2>2. CASE phase \in Working
      BY <1>x, <2>1, <2>2, Zenon
    <2>3. CASE phase \notin Working
      <3>1. /\ touched \subseteq touched'
            /\ \A q \in DOMAIN fs' : fs'[q].by = "mdpkg" => q \in DOMAIN fs /\ fs'[q] = fs[q]
        BY <2>1, Zenon DEF Touching
      <3>2. \A i \in DOMAIN journal' : \A d \in Paths :
               IsStrictPrefix(d, journal'[i]) => IsDir(fs', d) \/ d \in touched'
        BY <1>y, <2>1, Zenon
      <3> QED
        BY <2>1, <2>3, <3>1, <3>2 DEF JournalInvariant
    <2> QED
      BY <2>2, <2>3, Zenon
  <1>14. CASE UNCHANGED vars
    BY <1>14, Zenon DEF vars, JournalInvariant
  <1> QED
    BY <1>1, <1>2, <1>3, <1>4, <1>5, <1>6, <1>7, <1>8, <1>9, <1>10, <1>11, <1>12, <1>13, <1>14, Zenon
    DEF Next, Mdpkg

(* What the journal has, at the start. *)
LEMMA JournalInit == Init => JournalInvariant
  <1> SUFFICES ASSUME Init
               PROVE  JournalInvariant
    BY Zenon
  <1>1. journal = <<>> /\ DOMAIN journal = {} /\ phase \in {"lock", "preflight"}
    BY DEF Init
  <1>2. phase \notin Working
    BY <1>1, FollowingIs, Zenon DEF Working
  <1> QED
    BY <1>1, <1>2, Zenon DEF JournalInvariant

(* No step of mdpkg changes or removes what it did not make, but for what a *)
(* script or another program put where something of mdpkg's had been, and   *)
(* for what a path of the journal leads to once a directory above it was    *)
(* replaced.                                                                *)
THEOREM ExistingIsKept == Spec => NothingIsReplaced
  <1> DEFINE Excused(p) ==
                 /\ phase = "undo" /\ p = Reached(fs, Last(journal))
                 /\ IF p = Last(journal) THEN p \in touched
                    ELSE \E d \in Above(Last(journal)) \cap touched : ~IsDir(fs, d)
             Kept == Mdpkg => \A p \in DOMAIN fs :
                        \/ Node(fs', p) = fs[p]
                        \/ fs[p].by = "mdpkg"
                        \/ Excused(p)
  <1>1. Types /\ OwnInvariant /\ JournalInvariant /\ [Next]_vars => [Kept]_vars
    <2> SUFFICES ASSUME Types, OwnInvariant, JournalInvariant, Mdpkg,
                        NEW p \in DOMAIN fs, fs[p].by # "mdpkg"
                 PROVE  Node(fs', p) = fs[p] \/ Excused(p)
      BY Zenon
    <2>t. Tree(fs)
      BY Zenon DEF Types
    <2>1. ASSUME fs' = fs
          PROVE  Node(fs', p) = fs[p]
      BY <2>1, Zenon DEF Node
    <2>2. ASSUME NEW q, NEW node, Made(q, node)
          PROVE  Node(fs', p) = fs[p]
      BY <2>2, <2>t, MadeDoes, Zenon DEF Node
    <2>3. CASE Fail \/ Preflight \/ NoPayload \/ Keep \/ CheckLinks \/ Restore \/ Undone
      BY <2>1, <2>3, Zenon DEF Fail, Preflight, NoPayload, Keep, CheckLinks, Restore, Undone
    <2>4. CASE Lock
      BY <2>1, <2>2, <2>4, LockDoes, Zenon
    <2>5. CASE MakeParent
      BY <2>2, <2>5, MakeParentDoes, Zenon
    <2>6. CASE Create
      BY <2>2, <2>6, CreateDoes, Zenon
    <2>7. CASE Finish
      <3>1. /\ DOMAIN fs' = DOMAIN fs /\ fs[Target].by = "mdpkg"
            /\ \A q \in DOMAIN fs : q # Target => fs'[q] = fs[q]
        BY <2>7, FinishDoes DEF Part
      <3> QED
        BY <3>1, Zenon DEF Node
    <2>8. CASE Undo
      <3> DEFINE last == Last(journal)
      <3>1. /\ phase = "undo" /\ last = journal[Len(journal)] /\ Len(journal) \in DOMAIN journal
            /\ last \in Paths /\ \A q \in DOMAIN fs' : fs'[q] = fs[q]
        BY <2>8, UndoDoes, Zenon
      <3>2. \/ p \in DOMAIN fs'
            \/ p = last /\ p = Reached(fs, last)
            \/ /\ p = Reached(fs, last) /\ p # last
               /\ \E d \in Above(last) : ~IsDir(fs, d)
        BY <2>8, UndoDoes, Zenon
      <3>3. last \in Range(journal)
        BY <3>1, Zenon DEF Range
      <3>4. \A d \in Above(last) : IsDir(fs, d) \/ d \in touched
        BY <3>1, AboveIs, Zenon DEF JournalInvariant
      <3>5. CASE p \in DOMAIN fs'
        BY <3>1, <3>5, Zenon DEF Node
      <3>6. CASE p = last /\ p = Reached(fs, last)
        BY <3>1, <3>3, <3>6, Zenon DEF OwnInvariant
      <3>7. CASE p = Reached(fs, last) /\ p # last /\ \E d \in Above(last) : ~IsDir(fs, d)
        BY <3>1, <3>4, <3>7, Zenon
      <3> QED
        BY <3>2, <3>5, <3>6, <3>7, Zenon
    <2> QED
      BY <2>3, <2>4, <2>5, <2>6, <2>7, <2>8, Zenon DEF Mdpkg
  <1>2. Spec => [](Types /\ OwnInvariant /\ JournalInvariant)
    BY TypesInit, TypesStep, OwnInit, OwnStep, JournalInit, JournalStep, PTL DEF Spec
  <1> QED
    BY <1>1, <1>2, PTL DEF Spec, NothingIsReplaced

(* A live install that failed, and removed what it could, leaves of its own *)
(* only directories that hold something a script or another program touched. *)
THEOREM FailureLeavesNothing == Spec => []NothingIsLeft
  <1>1. Types /\ JournalInvariant => NothingIsLeft
    <2> SUFFICES ASSUME Types, JournalInvariant, phase = "failed", live, ~stuck,
                        NEW p \in DOMAIN fs, fs[p].by = "mdpkg"
                 PROVE  /\ fs[p].kind = "dir"
                        /\ \E q \in touched :
                              IsPrefix(p, q) /\ (Exists(fs, q) \/ q \in astray)
      BY Zenon DEF NothingIsLeft
    <2>1. Range(journal) = {}
      BY DEF JournalInvariant, Range
    <2>2. /\ fs[p].kind = "dir"
          /\ \E q \in touched \cap (DOMAIN fs \cup astray) : q = p \/ IsStrictPrefix(p, q)
      BY <2>1, Zenon DEF JournalInvariant
    <2>3. DOMAIN fs \subseteq Paths /\ touched \subseteq Paths
      BY Zenon DEF Types, Tree
    <2> QED
      BY <2>2, <2>3, PrefixOrder, Zenon DEF Exists
  <1>2. Spec => [](Types /\ OwnInvariant /\ JournalInvariant)
    BY TypesInit, TypesStep, OwnInit, OwnStep, JournalInit, JournalStep, PTL DEF Spec
  <1> QED
    BY <1>1, <1>2, PTL

-----------------------------------------------------------------------------
(* Inventories *)

(* What component i puts in the root. *)
Parts(i) == Records(pkg[i]) \cup {placed[i][j].path : j \in DOMAIN placed[i]}

Good(p, kind) == p \in touched \/ Node(fs, p).kind = kind

Past(i) == i < at \/ phase \in {"restore", "done"}

(* What is done of component i. *)
Extracted(i, j) ==
    \/ Past(i)
    \/ i = at /\ phase = "extract" /\ j < entry
    \/ i = at /\ phase \in {"links", "post", "plist", "bom", "inventory"}
HasPlist(i) == Past(i) \/ (i = at /\ phase \in {"bom", "inventory"})
HasBom(i) == Past(i) \/ (i = at /\ phase = "inventory")

(* What is done of each component is there. *)
Written(i) ==
    /\ \A j \in DOMAIN placed[i] :
          Extracted(i, j) => Good(placed[i][j].path, placed[i][j].kind)
    /\ HasPlist(i) => Good(Append(ReceiptsDir, pkg[i].plist), "file")
    /\ HasBom(i) => Good(Append(ReceiptsDir, pkg[i].bom), "file")
    /\ Past(i) => Good(Inventory(i), "file")

Progress ==
    \A i \in DOMAIN pkg :
        /\ Written(i)
        /\ Node(fs, Inventory(i)) = File("mdpkg") => Past(i)
        /\ Inventory(i) \in Range(journal) => Parts(i) \subseteq DOMAIN fs \cup touched

InventoryInvariant ==
    /\ phase \in {"lock", "preflight"} => at = 1
    /\ phase \in Working => Progress
    /\ phase \in {"undo", "failed", "killed"} => InventoryIsLast
    /\ \A i \in DOMAIN pkg : \A k, m \in DOMAIN journal :
          k < m /\ journal[k] = Inventory(i) /\ journal[m] \in Parts(i) =>
              journal[m] \in touched

Told ==
    LET payload == {e.path : e \in UNION {Range(placed[i]) : i \in DOMAIN placed}}
        told == payload \cup changes \cup UNION {Records(c) : c \in Range(pkg)}
    IN  told \cup UNION {Above(p) : p \in told}

ExplainInvariant ==
    /\ ~live /\ phase = "preflight" => fs = base
    /\ ~live /\ phase \in Working => Differ(base, fs) \subseteq Told

-----------------------------------------------------------------------------
(* An inventory is made in its own place of its own component, and nowhere  *)
(* else.                                                                   *)
LEMMA InventoryIs ==
    ASSUME Types, NEW i \in DOMAIN pkg
    PROVE  /\ Inventory(i) \in Paths /\ Reserved(Inventory(i)) /\ Len(Inventory(i)) = 2
           /\ Inventory(i) \in Records(pkg[i])
           /\ Writing => /\ Target = Inventory(i) => phase = "inventory" /\ at = i
                         /\ Inventory(i) \notin Above(Target)
  <1>1. pkg[i] \in Component /\ pkg[at] \in Component /\ at \in DOMAIN pkg /\ pkg \in Packages
    BY PackageIs, Zenon DEF Types
  <1>2. Inventory(i) \in Records(pkg[i])
    BY Zenon DEF Inventory, Records
  <1>3. Inventory(i) \in Paths /\ Reserved(Inventory(i)) /\ Len(Inventory(i)) = 2
    BY <1>1, <1>2, RecordPaths, Zenon
  <1>4. ASSUME Writing, Target = Inventory(i)
        PROVE  phase = "inventory" /\ at = i
    <2>1. phase = "inventory"
      BY <1>1, <1>3, <1>4, TargetIs, RecordPaths, Zenon DEF Inventory
    <2>2. pkg[at].inventory = pkg[i].inventory
      BY <1>1, <1>4, <2>1, TargetIs, RecordPaths, Zenon DEF Inventory
    <2> QED
      BY <1>1, <2>1, <2>2, InstallAssumption
  <1>5. ASSUME Writing, Inventory(i) \in Above(Target)
        PROVE  FALSE
    <2>1. Target \in Paths /\ IsStrictPrefix(Inventory(i), Target)
      BY <1>5, TargetIs, AboveIs, Zenon
    <2>2. IsPrefix(Inventory(i), Target) /\ Len(Inventory(i)) < Len(Target)
      BY <1>3, <2>1, PrefixOrder, Zenon
    <2>3. Reserved(Target)
      BY <1>3, <2>1, <2>2, ReservedBeneath, Zenon
    <2>4. Target \in Records(pkg[at])
      BY <1>5, <2>3, TargetIs, Zenon
    <2>5. Len(Target) = 2
      BY <1>1, <2>4, RecordPaths, Zenon
    <2> QED
      BY <1>3, <2>2, <2>5
  <1> QED
    BY <1>2, <1>3, <1>4, <1>5, Zenon

(* What is there stays, up to what is touched and to what is being written. *)
Keeps ==
    /\ touched \subseteq touched'
    /\ \A q \in DOMAIN fs \ touched' :
          q \in DOMAIN fs' /\ (fs'[q].kind = fs[q].kind \/ fs[q].kind = "part")

(* What is good stays good. *)
LEMMA GoodStays ==
    ASSUME Keeps, NEW p, NEW kind \in {"dir", "file", "link"}, Good(p, kind)
    PROVE  p \in touched' \/ Node(fs', p).kind = kind
  BY Zenon DEF Keeps, Good, Node, Missing

(* The kinds of the payload. *)
LEMMA PlacedKinds ==
    ASSUME Types, NEW i \in DOMAIN pkg, NEW j \in DOMAIN placed[i]
    PROVE  placed[i][j].kind \in {"dir", "file", "link"}
  BY PackageIs, Zenon DEF Types

(* What is done after the run went on. *)
LEMMA AdvanceProgress ==
    ASSUME Types, phase \in DOMAIN Following \cup {"inventory"}, Advance, NEW i \in DOMAIN pkg
    PROVE  /\ Past(i) => Past(i)'
           /\ i = at /\ phase = "inventory" => Past(i)'
           /\ Past(i)' => Past(i) \/ (i = at /\ phase = "inventory")
           /\ HasPlist(i)' => HasPlist(i) \/ (i = at /\ phase = "plist")
           /\ HasBom(i)' => HasBom(i) \/ (i = at /\ phase = "bom")
  <1>1. at \in 1..Len(pkg) /\ i \in 1..Len(pkg) /\ Len(pkg) \in Nat
    BY PackageIs, Zenon DEF Types
  <1>2. phase \notin {"restore", "done"}
    BY FollowingIs, Zenon
  <1>3. CASE phase = "extract" /\ UNCHANGED <<phase, at>>
    BY <1>3, Zenon DEF Past, HasPlist, HasBom
  <1>4. CASE phase \in DOMAIN Following /\ phase' = Following[phase] /\ UNCHANGED at
    BY <1>4, FollowingIs, Zenon DEF Past, HasPlist, HasBom
  <1>5. CASE phase = "inventory" /\ phase' = "pre" /\ at' = at + 1
    BY <1>1, <1>5 DEF Past, HasPlist, HasBom
  <1>6. CASE /\ phase = "inventory" /\ at = Len(pkg) /\ UNCHANGED at
             /\ phase' \in {"restore", "done"}
    BY <1>1, <1>6 DEF Past, HasPlist, HasBom
  <1> QED
    BY <1>3, <1>4, <1>5, <1>6, Zenon DEF Advance

(* The same of the payload. *)
LEMMA AdvanceExtracts ==
    ASSUME Types, phase \in DOMAIN Following \cup {"inventory"}, Advance,
           NEW i \in DOMAIN pkg, NEW j \in DOMAIN placed[i], Extracted(i, j)'
    PROVE  Extracted(i, j) \/ (i = at /\ phase = "extract" /\ j = entry)
  <1>1. /\ at \in 1..Len(pkg) /\ i \in 1..Len(pkg) /\ Len(pkg) \in Nat
        /\ entry \in Nat /\ j \in 1..Len(pkg[i].payload) /\ Len(pkg[i].payload) \in Nat
    BY PackageIs, Zenon DEF Types
  <1>2. phase \notin {"restore", "done"}
    BY FollowingIs, Zenon
  <1>3. CASE phase = "extract" /\ entry' = entry + 1 /\ UNCHANGED <<phase, at>>
    BY <1>1, <1>3 DEF Past, Extracted
  <1>4. CASE phase = "extract" /\ entry >= Len(pkg[at].payload) /\ phase' = "links" /\ UNCHANGED at
    BY <1>1, <1>4 DEF Past, Extracted
  <1>5. CASE phase = "pre" /\ phase' = "extract" /\ entry' = 1 /\ UNCHANGED at
    BY <1>1, <1>5 DEF Past, Extracted
  <1>6. CASE phase \in {"links", "post", "plist", "bom"} /\ UNCHANGED at
             /\ phase' \in {"post", "plist", "bom", "inventory"}
    BY <1>1, <1>6, Zenon DEF Past, Extracted
  <1>7. CASE phase = "inventory" /\ phase' = "pre" /\ at' = at + 1
    BY <1>1, <1>7 DEF Past, Extracted
  <1>8. CASE phase = "inventory" /\ at = Len(pkg) /\ UNCHANGED at
    BY <1>1, <1>8 DEF Past, Extracted
  <1>9. \/ phase = "extract" /\ entry' = entry + 1 /\ UNCHANGED <<phase, at>>
        \/ /\ phase \in DOMAIN Following /\ phase' = Following[phase] /\ UNCHANGED at /\ entry' = 1
           /\ phase = "extract" => entry >= Len(pkg[at].payload)
        \/ phase = "inventory" /\ phase' = "pre" /\ at' = at + 1
        \/ phase = "inventory" /\ at = Len(pkg) /\ UNCHANGED at
    BY Zenon DEF Advance, C
  <1>10. CASE /\ phase \in DOMAIN Following /\ phase' = Following[phase] /\ UNCHANGED at /\ entry' = 1
              /\ phase = "extract" => entry >= Len(pkg[at].payload)
    BY <1>4, <1>5, <1>6, <1>10, FollowingIs, Zenon
  <1> QED
    BY <1>3, <1>7, <1>8, <1>9, <1>10, Zenon

(* What is done stays done. *)
LEMMA WrittenStays ==
    ASSUME Types, NEW i \in DOMAIN pkg, Written(i), Keeps, UNCHANGED <<pkg, placed>>,
           UNCHANGED <<phase, at, entry>>
    PROVE  Written(i)'
  <1>1. /\ \A j : Extracted(i, j)' <=> Extracted(i, j)
        /\ HasPlist(i)' <=> HasPlist(i)
        /\ HasBom(i)' <=> HasBom(i)
        /\ Past(i)' <=> Past(i)
    BY Zenon DEF Extracted, HasPlist, HasBom, Past
  <1>2. \A p : Good(p, "file") => p \in touched' \/ Node(fs', p).kind = "file"
    BY GoodStays, Zenon
  <1>3. ASSUME NEW j \in DOMAIN placed[i], Extracted(i, j)
        PROVE  placed[i][j].path \in touched' \/ Node(fs', placed[i][j].path).kind = placed[i][j].kind
    <2>1. Good(placed[i][j].path, placed[i][j].kind)
      BY <1>3, Zenon DEF Written
    <2> QED
      BY <2>1, PlacedKinds, GoodStays, Zenon
  <1> QED
    BY <1>1, <1>2, <1>3, Zenon DEF Written, Good, Inventory

(* What is done when the run goes on is what was done and what was written. *)
LEMMA WrittenGrows ==
    ASSUME Types, NEW i \in DOMAIN pkg, Written(i), Keeps, UNCHANGED <<pkg, placed>>,
           phase \in DOMAIN Following \cup {"inventory"}, Advance,
           phase = "extract" /\ entry \in DOMAIN placed[at] =>
               \/ placed[at][entry].path \in touched'
               \/ Node(fs', placed[at][entry].path).kind = placed[at][entry].kind,
           phase = "plist" =>
               Node(fs', Append(ReceiptsDir, pkg[at].plist)).kind = "file",
           phase = "bom" => Node(fs', Append(ReceiptsDir, pkg[at].bom)).kind = "file",
           phase = "inventory" => Node(fs', Inventory(at)).kind = "file"
    PROVE  Written(i)'
  <1>2. \A p : Good(p, "file") => p \in touched' \/ Node(fs', p).kind = "file"
    BY GoodStays, Zenon
  <1>3. ASSUME NEW j \in DOMAIN placed[i], Extracted(i, j)'
        PROVE  placed[i][j].path \in touched' \/ Node(fs', placed[i][j].path).kind = placed[i][j].kind
    <2>1. CASE Extracted(i, j)
      <3>1. Good(placed[i][j].path, placed[i][j].kind)
        BY <2>1, Zenon DEF Written
      <3> QED
        BY <3>1, PlacedKinds, GoodStays, Zenon
    <2>2. CASE i = at /\ phase = "extract" /\ j = entry
      BY <2>2, Zenon
    <2> QED
      BY <1>3, <2>1, <2>2, AdvanceExtracts, Zenon
  <1>4. ASSUME HasPlist(i)'
        PROVE  \/ Append(ReceiptsDir, pkg[i].plist) \in touched'
               \/ Node(fs', Append(ReceiptsDir, pkg[i].plist)).kind = "file"
    BY <1>2, <1>4, AdvanceProgress, Zenon DEF Written
  <1>5. ASSUME HasBom(i)'
        PROVE  \/ Append(ReceiptsDir, pkg[i].bom) \in touched'
               \/ Node(fs', Append(ReceiptsDir, pkg[i].bom)).kind = "file"
    BY <1>2, <1>5, AdvanceProgress, Zenon DEF Written
  <1>6. ASSUME Past(i)'
        PROVE  Inventory(i) \in touched' \/ Node(fs', Inventory(i)).kind = "file"
    BY <1>2, <1>6, AdvanceProgress, Zenon DEF Written
  <1> QED
    BY <1>3, <1>4, <1>5, <1>6, Zenon DEF Written, Good, Inventory

(* A component that is done is whole. *)
LEMMA WholeWhenPast ==
    ASSUME NEW i \in DOMAIN pkg, Written(i), Past(i)
    PROVE  /\ \A p \in Records(pkg[i]) : Good(p, "file")
           /\ \A j \in DOMAIN placed[i] : Good(placed[i][j].path, placed[i][j].kind)
  BY Zenon DEF Written, Extracted, HasPlist, HasBom, Records, Inventory

(* Where nothing is taken away and no inventory is finished, an inventory   *)
(* goes on describing what is there.                                       *)
LEMMA InventoryStaysLast ==
    ASSUME Types, Keeps, UNCHANGED <<pkg, placed>>, stuck' \in BOOLEAN, stuck => stuck',
           \A i \in DOMAIN pkg :
               Node(fs', Inventory(i)) = File("mdpkg") => Node(fs, Inventory(i)) = File("mdpkg"),
           Progress \/ InventoryIsLast
    PROVE  InventoryIsLast'
  <1> SUFFICES ASSUME ~stuck', NEW i \in DOMAIN pkg, Node(fs', Inventory(i)) = File("mdpkg")
               PROVE  /\ \A p \in Records(pkg[i]) \ touched' : Node(fs', p).kind = "file"
                      /\ \A e \in Range(placed[i]) :
                            e.path \in touched' \/ Node(fs', e.path).kind = e.kind
    BY Zenon DEF InventoryIsLast, Inventory
  <1>1. Node(fs, Inventory(i)) = File("mdpkg") /\ ~stuck
    BY Zenon
  <1>2. /\ \A p \in Records(pkg[i]) : Good(p, "file")
        /\ \A j \in DOMAIN placed[i] : Good(placed[i][j].path, placed[i][j].kind)
    <2>1. CASE Progress
      BY <1>1, <2>1, WholeWhenPast, Zenon DEF Progress
    <2>2. CASE InventoryIsLast
      BY <1>1, <2>2, Zenon DEF InventoryIsLast, Inventory, Good, Range
    <2> QED
      BY <2>1, <2>2, Zenon
  <1>3. \A p \in Records(pkg[i]) \ touched' : Node(fs', p).kind = "file"
    BY <1>2, GoodStays, Zenon
  <1>4. ASSUME NEW j \in DOMAIN placed[i]
        PROVE  placed[i][j].path \in touched' \/ Node(fs', placed[i][j].path).kind = placed[i][j].kind
    BY <1>2, PlacedKinds, GoodStays, Zenon
  <1> QED
    BY <1>3, <1>4, Zenon DEF Range

(* What the inventories say, when the newest entry is undone. *)
LEMMA InventoryIsUndoneFirst ==
    ASSUME Types, OwnInvariant, JournalInvariant, InventoryInvariant, Undo
    PROVE  InventoryIsLast'
  <1> DEFINE p == Last(journal)
             n == Len(journal)
  <1>1. /\ phase = "undo" /\ live /\ UNCHANGED <<pkg, placed>> /\ touched \subseteq touched'
        /\ p = journal[n]
        /\ \A q \in DOMAIN fs' : q \in DOMAIN fs /\ fs'[q] = fs[q]
        /\ \A q \in DOMAIN fs : q \in DOMAIN fs' \/ q = p \/ q \in touched'
        /\ ~stuck' => ~stuck
    BY UndoDoes, Zenon DEF run
  <1>2. n \in DOMAIN journal /\ \A k \in DOMAIN journal : k = n \/ k < n
    BY UndoDoes DEF Types
  <1> HIDE DEF p, n
  <1> SUFFICES ASSUME ~stuck', NEW i \in DOMAIN pkg, Node(fs', Inventory(i)) = File("mdpkg")
               PROVE  /\ \A q \in Records(pkg[i]) \ touched' : Node(fs', q).kind = "file"
                      /\ \A e \in Range(placed[i]) :
                            e.path \in touched' \/ Node(fs', e.path).kind = e.kind
    BY <1>1, Zenon DEF InventoryIsLast, Inventory
  <1>3. /\ Inventory(i) \in DOMAIN fs' /\ Inventory(i) \in DOMAIN fs
        /\ fs[Inventory(i)] = File("mdpkg") /\ ~stuck
    BY <1>1, Zenon DEF Node, File, Missing
  <1>4. Inventory(i) \in Range(journal)
    <2>1. fs[Inventory(i)].by = "mdpkg" /\ fs[Inventory(i)].kind # "dir"
      BY <1>3 DEF File
    <2> QED
      BY <1>1, <1>3, <2>1, Zenon DEF JournalInvariant
  <1>5. ASSUME NEW q \in Parts(i), q \notin touched'
        PROVE  Node(fs', q) = Node(fs, q)
    <2>1. PICK k \in DOMAIN journal : journal[k] = Inventory(i)
      BY <1>4, Zenon DEF Range
    <2>2. CASE q # p \/ q \in DOMAIN fs'
      BY <1>1, <1>5, <2>2, Zenon DEF Node
    <2>3. CASE q = p /\ q \notin DOMAIN fs'
      <3>1. k # n
        BY <1>1, <1>3, <2>1, <2>3, Zenon
      <3>2. k < n /\ journal[n] \in Parts(i)
        BY <1>1, <1>2, <1>5, <2>3, <3>1, Zenon
      <3>3. q \in touched
        BY <1>1, <1>2, <2>1, <2>3, <3>2, Zenon DEF InventoryInvariant
      <3> QED
        BY <1>1, <1>5, <3>3, Zenon
    <2> QED
      BY <2>2, <2>3, Zenon
  <1>6. /\ \A q \in Records(pkg[i]) \ touched : Node(fs, q).kind = "file"
        /\ \A e \in Range(placed[i]) : e.path \in touched \/ Node(fs, e.path).kind = e.kind
    BY <1>1, <1>3, Zenon DEF InventoryInvariant, InventoryIsLast, Inventory, Node
  <1>7. Records(pkg[i]) \subseteq Parts(i) /\ \A e \in Range(placed[i]) : e.path \in Parts(i)
    BY Zenon DEF Parts, Range
  <1> QED
    BY <1>1, <1>5, <1>6, <1>7, Zenon

(* Where something is made, nothing is taken away, and what the journal has *)
(* of a component after its inventory was touched.                          *)
LEMMA InventoryMade ==
    ASSUME Types, InventoryInvariant, phase \in Working,
           NEW p, NEW node, Made(p, node), node.kind # "file",
           UNCHANGED <<live, pkg, placed, touched>>,
           journal' = IF live THEN Append(journal, p) ELSE journal,
           \A i \in DOMAIN pkg : p = Inventory(i) => Parts(i) \subseteq DOMAIN fs' \cup touched
    PROVE  /\ Keeps
           /\ \A i \in DOMAIN pkg :
                 Node(fs', Inventory(i)) = File("mdpkg") => Node(fs, Inventory(i)) = File("mdpkg")
           /\ \A i \in DOMAIN pkg :
                 Inventory(i) \in Range(journal') => Parts(i) \subseteq DOMAIN fs' \cup touched
           /\ \A i \in DOMAIN pkg : \A k, m \in DOMAIN journal' :
                 k < m /\ journal'[k] = Inventory(i) /\ journal'[m] \in Parts(i) =>
                     journal'[m] \in touched
  <1>1. p \in Paths /\ p # <<>> /\ p \notin DOMAIN fs
    BY Zenon DEF Made
  <1>2. Tree(fs)
    BY Zenon DEF Types
  <1>3. /\ DOMAIN fs' = DOMAIN fs \cup {p} /\ fs'[p] = node
        /\ \A q \in DOMAIN fs : fs'[q] = fs[q]
    BY <1>2, MadeDoes, Zenon
  <1>4. /\ Range(journal') \subseteq Range(journal) \cup {p}
        /\ \A i \in DOMAIN journal' :
               \/ i \in DOMAIN journal /\ journal'[i] = journal[i]
               \/ journal'[i] = p /\ \A k \in DOMAIN journal' : k # i => k < i /\ k \in DOMAIN journal
        /\ \A i \in DOMAIN journal : i \in DOMAIN journal' /\ journal'[i] = journal[i]
    BY <1>1, JournalGrows, Zenon
  <1>5. Keeps
    BY <1>3, Zenon DEF Keeps
  <1>6. ASSUME NEW x, Node(fs', x) = File("mdpkg")
        PROVE  Node(fs, x) = File("mdpkg")
    BY <1>3, <1>6 DEF Node, File, Missing
  <1>7. Progress
    BY Zenon DEF InventoryInvariant
  <1>8. ASSUME NEW i \in DOMAIN pkg, Inventory(i) \in Range(journal')
        PROVE  Parts(i) \subseteq DOMAIN fs' \cup touched
    BY <1>3, <1>4, <1>7, <1>8, Zenon DEF Progress
  <1>9. ASSUME NEW i \in DOMAIN pkg, NEW k \in DOMAIN journal', NEW m \in DOMAIN journal',
               k < m, journal'[k] = Inventory(i), journal'[m] \in Parts(i)
        PROVE  journal'[m] \in touched
    <2>0. journal' \in Seq(Paths \ {<<>>})
      BY <1>1 DEF Types
    <2>1. k \in Int /\ m \in Int
      BY <2>0
    <2>2. k \in DOMAIN journal /\ journal'[k] = journal[k]
      BY <1>4, <1>9, <2>1
    <2>3. CASE m \in DOMAIN journal /\ journal'[m] = journal[m]
      BY <1>9, <2>2, <2>3, Zenon DEF InventoryInvariant
    <2>4. CASE journal'[m] = p
      <3>1. Inventory(i) \in Range(journal)
        BY <1>9, <2>2, Zenon DEF Range
      <3> QED
        BY <1>1, <1>7, <1>9, <2>4, <3>1, Zenon DEF Progress
    <2> QED
      BY <1>4, <2>3, <2>4, Zenon
  <1> QED
    BY <1>5, <1>6, <1>8, <1>9, Zenon

(* What the inventories say, after every step. *)
LEMMA InventoryStep ==
    Types /\ OwnInvariant /\ JournalInvariant /\ InventoryInvariant /\ [Next]_vars
        => InventoryInvariant'
  <1> SUFFICES ASSUME Types, OwnInvariant, JournalInvariant, InventoryInvariant, [Next]_vars
               PROVE  InventoryInvariant'
    BY Zenon
  <1> USE DEF run
  <1>t. Tree(fs) /\ phase \in Phases /\ stuck \in BOOLEAN /\ at \in DOMAIN pkg
    BY Zenon DEF Types
  <1>p. Working \cap {"lock", "preflight", "undo", "failed", "killed"} = {}
    BY FollowingIs, Zenon DEF Working
  <1>j. ASSUME UNCHANGED <<pkg, placed>>, touched \subseteq touched',
               \A k \in DOMAIN journal' : k \in DOMAIN journal /\ journal'[k] = journal[k]
        PROVE  \A i \in DOMAIN pkg : \A k, m \in DOMAIN journal' :
                   k < m /\ journal'[k] = Inventory(i)' /\ journal'[m] \in Parts(i)' =>
                       journal'[m] \in touched'
    BY <1>j DEF InventoryInvariant, Inventory, Parts
  <1>u. ASSUME UNCHANGED <<fs, touched>>
        PROVE  Keeps
    BY <1>u, Zenon DEF Keeps
  <1>k. ASSUME Touching
        PROVE  /\ Keeps /\ touched \subseteq touched'
               /\ \A x : Node(fs', x) = File("mdpkg") => Node(fs, x) = File("mdpkg")
    <2>1. /\ Tree(fs') /\ touched \subseteq touched' /\ Differ(fs, fs') \subseteq touched'
          /\ \A q \in DOMAIN fs' :
                fs'[q].by \in {"script", "other"} \/ (q \in DOMAIN fs /\ fs'[q] = fs[q])
      BY <1>k, Zenon DEF Touching
    <2>2. Keeps
      BY <1>t, <2>1, DifferIs, Zenon DEF Keeps
    <2>3. ASSUME NEW x, Node(fs', x) = File("mdpkg")
          PROVE  Node(fs, x) = File("mdpkg")
      BY <2>1, <2>3 DEF Node, File, Missing
    <2> QED
      BY <2>1, <2>2, <2>3, Zenon
  <1>g. ASSUME UNCHANGED <<pkg, placed, journal>>, Keeps, phase \in Working, phase' \in Working,
               \A i \in DOMAIN pkg : Written(i)' /\ (Past(i) => Past(i)'),
               \A i \in DOMAIN pkg :
                   Node(fs', Inventory(i)) = File("mdpkg") =>
                       Node(fs, Inventory(i)) = File("mdpkg") \/ Past(i)'
        PROVE  InventoryInvariant'
    <2>1. Progress
      BY <1>g, Zenon DEF InventoryInvariant
    <2>2. touched \subseteq touched' /\ DOMAIN fs \subseteq DOMAIN fs' \cup touched'
      BY <1>g, Zenon DEF Keeps
    <2>3. ASSUME NEW i \in DOMAIN pkg
          PROVE  /\ Node(fs', Inventory(i)) = File("mdpkg") => Past(i)'
                 /\ Inventory(i) \in Range(journal) => Parts(i) \subseteq DOMAIN fs' \cup touched'
      BY <1>g, <2>1, <2>2, Zenon DEF Progress
    <2>4. Progress'
      BY <1>g, <2>3 DEF Progress, Inventory, Parts
    <2> QED
      BY <1>g, <1>j, <1>p, <2>2, <2>4, Zenon DEF InventoryInvariant
  <1>a. ASSUME Keeps, UNCHANGED <<pkg, placed>>, phase \in Working, UNCHANGED <<phase, at, entry>>
        PROVE  \A i \in DOMAIN pkg : Written(i)' /\ (Past(i) <=> Past(i)')
    BY <1>a, WrittenStays, Zenon DEF InventoryInvariant, Progress, Past
  <1>e. ASSUME UNCHANGED <<pkg, placed, journal, astray, stuck>>, phase' \in {"undo", "failed", "killed"},
               (phase \in Working \cup {"undo", "killed", "failed"}
                   /\ (Touching \/ UNCHANGED <<fs, touched>>))
               \/ (phase \in {"lock", "preflight"} /\ UNCHANGED <<fs, touched>>)
        PROVE  InventoryInvariant'
    <2>1. Keeps /\ touched \subseteq touched'
      BY <1>e, <1>k, <1>u, Zenon
    <2>2. \A x : Node(fs', x) = File("mdpkg") => Node(fs, x) = File("mdpkg")
      BY <1>e, <1>k, Zenon
    <2>3. InventoryIsLast'
      <3>1. CASE phase \in Working
        <4>1. Progress
          BY <3>1, Zenon DEF InventoryInvariant
        <4> QED
          BY <1>e, <1>t, <2>1, <2>2, <4>1, InventoryStaysLast, Zenon
      <3>2. CASE phase \in {"undo", "killed", "failed"}
        <4>1. InventoryIsLast
          BY <3>2, Zenon DEF InventoryInvariant
        <4> QED
          BY <1>e, <1>t, <2>1, <2>2, <4>1, InventoryStaysLast, Zenon
      <3>3. CASE phase \in {"lock", "preflight"}
        <4>1. \A q \in DOMAIN fs : fs[q].by # "mdpkg"
          BY <3>3, Zenon DEF OwnInvariant
        <4>2. \A x : Node(fs', x) # File("mdpkg")
          BY <2>2, <4>1 DEF Node, File, Missing
        <4> QED
          BY <4>2, Zenon DEF InventoryIsLast
      <3> QED
        BY <1>e, <3>1, <3>2, <3>3, Zenon
    <2> QED
      BY <1>e, <1>j, <1>p, <2>1, <2>3, Zenon DEF InventoryInvariant
  <1>1. CASE Fail
    <2>1. /\ UNCHANGED <<pkg, placed, fs, journal, touched, astray, stuck>> /\ phase \notin Over \cup {"undo"}
          /\ phase' \in {"undo", "failed"}
      BY <1>1, Zenon DEF Fail, Die
    <2>2. phase \in Working \cup {"lock", "preflight"}
      BY <1>t, <2>1, Zenon DEF Phases, Over, Working
    <2> QED
      BY <1>e, <2>1, <2>2, Zenon
  <1>2. CASE Lock
    <2>1. /\ phase = "lock" /\ phase' \in {"lock", "preflight"}
          /\ UNCHANGED <<pkg, placed, journal, at, touched>>
      BY <1>2, LockDoes, Zenon
    <2> QED
      BY <1>j, <1>p, <2>1, Zenon DEF InventoryInvariant
  <1>3. CASE Preflight
    <2>1. /\ UNCHANGED <<pkg, fs, journal, at, entry, touched>> /\ phase' = "pre" /\ phase = "preflight"
          /\ DOMAIN placed' = DOMAIN pkg
          /\ \A i \in DOMAIN pkg : \A p \in Records(pkg[i]) : p \notin DOMAIN fs
      BY <1>3, PreflightDoes, Zenon
    <2>2. DOMAIN journal = {} /\ Range(journal) = {} /\ at = 1
      BY <2>1 DEF OwnInvariant, InventoryInvariant, Range
    <2>3. ASSUME NEW i \in DOMAIN pkg
          PROVE  ~Past(i)' /\ i \in Nat \ {0}
      BY <2>1, <2>2, PackageIs DEF Past
    <2>4. ASSUME NEW i \in DOMAIN pkg
          PROVE  Written(i)'
      BY <2>1, <2>3, Zenon DEF Written, Extracted, HasPlist, HasBom
    <2>5. ASSUME NEW i \in DOMAIN pkg
          PROVE  Node(fs, Inventory(i)) # File("mdpkg")
      BY <2>1, InventoryIs, Zenon DEF Node, File, Missing
    <2>6. Progress'
      BY <2>1, <2>2, <2>4, <2>5, Zenon DEF Progress, Inventory
    <2> QED
      BY <2>1, <2>2, <2>6, Zenon DEF InventoryInvariant
  <1>w. ASSUME Writing
        PROVE  phase \in DOMAIN Following \cup {"inventory"} /\ phase \in Working
    BY <1>w, TargetIs, FollowingIs, Zenon DEF Working
  <1>m. ASSUME NEW p, NEW node, Made(p, node), node.kind # "file", phase \in Working,
               phase' \in Working, UNCHANGED <<live, pkg, placed, touched>>,
               journal' = (IF live THEN Append(journal, p) ELSE journal),
               \A i \in DOMAIN pkg : p = Inventory(i) => Parts(i) \subseteq DOMAIN fs' \cup touched,
               Keeps => \A i \in DOMAIN pkg : Written(i)' /\ (Past(i) => Past(i)')
        PROVE  InventoryInvariant'
    <2>1. /\ Keeps
          /\ \A i \in DOMAIN pkg :
                Node(fs', Inventory(i)) = File("mdpkg") => Node(fs, Inventory(i)) = File("mdpkg")
          /\ \A i \in DOMAIN pkg :
                Inventory(i) \in Range(journal') => Parts(i) \subseteq DOMAIN fs' \cup touched
          /\ \A i \in DOMAIN pkg : \A k, m \in DOMAIN journal' :
                k < m /\ journal'[k] = Inventory(i) /\ journal'[m] \in Parts(i) =>
                    journal'[m] \in touched
      BY <1>m, InventoryMade, Zenon
    <2>2. Progress
      BY <1>m, Zenon DEF InventoryInvariant
    <2>3. \A i \in DOMAIN pkg : Node(fs', Inventory(i)) = File("mdpkg") => Past(i)'
      BY <1>m, <2>1, <2>2, Zenon DEF Progress
    <2>4. Progress'
      BY <1>m, <2>1, <2>3 DEF Progress, Inventory, Parts
    <2> QED
      BY <1>m, <1>p, <2>1, <2>4 DEF InventoryInvariant, Inventory, Parts
  <1>4. CASE MakeParent
    <2>1. PICK d \in Above(Target) :
             Made(d, Dir("mdpkg")) /\ journal' = IF live THEN Append(journal, d) ELSE journal
      BY <1>4, MakeParentDoes, Zenon
    <2>2. Writing /\ UNCHANGED <<live, pkg, placed, phase, at, entry, touched>> /\ Dir("mdpkg").kind # "file"
      BY <1>4, MakeParentDoes, Zenon DEF Dir
    <2>3. \A i \in DOMAIN pkg : d # Inventory(i)
      BY <2>1, <2>2, InventoryIs, Zenon
    <2>4. Keeps => \A i \in DOMAIN pkg : Written(i)' /\ (Past(i) => Past(i)')
      BY <1>a, <1>w, <2>2, Zenon
    <2> QED
      BY <1>m, <1>w, <2>1, <2>2, <2>3, <2>4, Zenon
  <1>b. ASSUME phase \in DOMAIN Following \cup {"inventory"}, Advance
        PROVE  phase' \in Working /\ phase \in Working /\ \A i \in DOMAIN pkg : Past(i) => Past(i)'
    BY <1>b, AdvanceDoes, AdvanceProgress, Zenon DEF Working
  <1>i. phase \in Working => \A i \in DOMAIN pkg : Written(i)
    BY Zenon DEF InventoryInvariant, Progress
  <1>5. ASSUME NoPayload \/ Keep \/ CheckLinks
        PROVE  InventoryInvariant'
    <2>1. /\ phase \in {"extract", "links"} /\ Advance
          /\ UNCHANGED <<pkg, placed, fs, journal, touched>>
          /\ phase = "extract" =>
                \/ pkg[at].payload = <<>>
                \/ Entry.kind = "dir" /\ IsDir(fs, Target)
      BY <1>5, Zenon DEF NoPayload, Keep, CheckLinks, Extracting, C
    <2>2. phase \in DOMAIN Following \cup {"inventory"} /\ Keeps
      BY <1>u, <2>1, FollowingIs, Zenon
    <2>3. phase = "extract" /\ entry \in DOMAIN placed[at] =>
              Node(fs', placed[at][entry].path).kind = placed[at][entry].kind
      <3> SUFFICES ASSUME phase = "extract", entry \in DOMAIN placed[at]
                   PROVE  Node(fs, placed[at][entry].path).kind = placed[at][entry].kind
        BY <2>1, Zenon
      <3>1. pkg[at].payload # <<>>
        BY <1>t DEF Types
      <3> QED
        BY <2>1, <3>1, Zenon DEF IsDir, Entry, Target
    <2>4. \A i \in DOMAIN pkg : Written(i)'
      BY <1>b, <1>i, <2>1, <2>2, <2>3, WrittenGrows, Zenon
    <2> QED
      BY <1>b, <1>g, <2>1, <2>2, <2>4, Zenon
  <1>6. CASE Create
    <2>1. /\ Made(Target, NewNode) /\ Writing /\ UNCHANGED <<live, pkg, placed, touched>>
          /\ journal' = (IF live THEN Append(journal, Target) ELSE journal)
          /\ NewNode.kind = IF phase = "extract" /\ Entry.kind # "file" THEN Entry.kind ELSE "part"
          /\ NewNode.kind = "part" => UNCHANGED <<phase, at, entry>>
          /\ NewNode.kind # "part" => phase = "extract" /\ Advance
      BY <1>6, CreateDoes, Zenon
    <2>2. NewNode.kind # "file"
      BY <2>1, Zenon
    <2>3. DOMAIN fs' = DOMAIN fs \cup {Target} /\ fs'[Target] = NewNode
      BY <1>t, <2>1, MadeDoes, Zenon
    <2>4. ASSUME NEW i \in DOMAIN pkg, Target = Inventory(i)
          PROVE  Parts(i) \subseteq DOMAIN fs' \cup touched
      <3>1. phase = "inventory" /\ at = i
        BY <2>1, <2>4, InventoryIs, Zenon
      <3>2. Written(i)
        BY <1>i, <1>w, <2>1, Zenon
      <3>3. Good(Append(ReceiptsDir, pkg[i].plist), "file") /\ Good(Append(ReceiptsDir, pkg[i].bom), "file")
        BY <3>1, <3>2, Zenon DEF Written, HasPlist, HasBom
      <3>4. {Append(ReceiptsDir, pkg[i].plist), Append(ReceiptsDir, pkg[i].bom)} \subseteq DOMAIN fs \cup touched
        BY <3>3, Zenon DEF Good, Node, Missing
      <3>5. ASSUME NEW j \in DOMAIN placed[i]
            PROVE  placed[i][j].path \in DOMAIN fs \cup touched
        <4>1. Good(placed[i][j].path, placed[i][j].kind)
          BY <3>1, <3>2, Zenon DEF Written, Extracted
        <4> QED
          BY <4>1, PlacedKinds, Zenon DEF Good, Node, Missing
      <3> QED
        BY <2>3, <2>4, <3>4, <3>5, Zenon DEF Parts, Records, Inventory
    <2>5. CASE NewNode.kind = "part"
      <3>1. Keeps => \A i \in DOMAIN pkg : Written(i)' /\ (Past(i) => Past(i)')
        BY <1>a, <1>w, <2>1, <2>5, Zenon
      <3>2. phase' \in Working /\ phase \in Working
        BY <1>w, <2>1, <2>5, Zenon
      <3> QED
        BY <1>m, <2>1, <2>2, <2>4, <3>1, <3>2, Zenon
    <2>6. CASE NewNode.kind # "part"
      <3>1. /\ phase = "extract" /\ Advance /\ Entry.kind # "file" /\ NewNode.kind = Entry.kind
            /\ Target = placed[at][entry].path
        BY <2>1, <2>6, TargetIs, Zenon
      <3>2. Node(fs', placed[at][entry].path).kind = placed[at][entry].kind
        BY <2>3, <3>1, Zenon DEF Node, Entry
      <3>3. phase \in DOMAIN Following \cup {"inventory"}
        BY <3>1, FollowingIs, Zenon
      <3>4. Keeps => \A i \in DOMAIN pkg : Written(i)' /\ (Past(i) => Past(i)')
        BY <1>b, <1>i, <2>1, <3>1, <3>2, <3>3, WrittenGrows, Zenon
      <3>5. phase' \in Working /\ phase \in Working
        BY <1>b, <3>1, <3>3, Zenon
      <3> QED
        BY <1>m, <2>1, <2>2, <2>4, <3>4, <3>5, Zenon
    <2> QED
      BY <2>5, <2>6, Zenon
  <1>7. CASE Finish
    <2>1. /\ DOMAIN fs' = DOMAIN fs /\ Target \in DOMAIN fs
          /\ fs[Target] = Part("mdpkg") /\ fs'[Target] = File("mdpkg")
          /\ \A q \in DOMAIN fs : q # Target => fs'[q] = fs[q]
          /\ Writing /\ Advance /\ UNCHANGED <<pkg, placed, journal, touched>>
          /\ phase = "extract" => Entry.kind = "file"
      BY <1>7, FinishDoes, Zenon
    <2>2. Keeps /\ phase \in DOMAIN Following \cup {"inventory"}
      BY <1>w, <2>1 DEF Keeps, Part
    <2>3. Node(fs', Target).kind = "file"
      BY <2>1 DEF Node, File
    <2>4. ASSUME NEW i \in DOMAIN pkg, Node(fs', Inventory(i)) = File("mdpkg")
          PROVE  Node(fs, Inventory(i)) = File("mdpkg") \/ Past(i)'
      <3>1. CASE Inventory(i) = Target
        BY <2>1, <2>2, <3>1, InventoryIs, AdvanceProgress, Zenon
      <3>2. CASE Inventory(i) # Target
        BY <2>1, <2>4, <3>2, Zenon DEF Node
      <3> QED
        BY <3>1, <3>2, Zenon
    <2>5. phase = "extract" /\ entry \in DOMAIN placed[at] =>
              \/ placed[at][entry].path \in touched'
              \/ Node(fs', placed[at][entry].path).kind = placed[at][entry].kind
      BY <2>1, <2>3, TargetIs, Zenon DEF Entry
    <2>6. \A i \in DOMAIN pkg : Written(i)'
      BY <1>b, <1>i, <2>1, <2>2, <2>3, <2>5, TargetIs, WrittenGrows, Zenon
    <2> QED
      BY <1>b, <1>g, <2>1, <2>2, <2>4, <2>6, Zenon
  <1>8. CASE Restore
    <2>1. /\ UNCHANGED <<pkg, placed, fs, journal, touched, at, entry>>
          /\ phase' = "done" /\ phase = "restore"
      BY <1>8, Zenon DEF Restore
    <2>2. \A i \in DOMAIN pkg : Written(i)' /\ Past(i)'
      BY <1>i, <2>1, Zenon DEF Working, Written, Extracted, HasPlist, HasBom, Past, Good, Inventory
    <2>3. Keeps /\ phase \in Working /\ phase' \in Working
      BY <1>u, <2>1, Zenon DEF Working
    <2> QED
      BY <1>g, <2>1, <2>2, <2>3, Zenon
  <1>9. CASE Undone
    BY <1>9, <1>e, Zenon DEF Undone
  <1>10. CASE Kill
    <2>1. /\ UNCHANGED <<pkg, placed, fs, journal, touched, astray, stuck>> /\ phase \notin Over
          /\ phase' = "killed"
      BY <1>10, Zenon DEF Kill
    <2>2. phase \in Working \cup {"lock", "preflight", "undo"}
      BY <1>t, <2>1, Zenon DEF Phases, Over, Working
    <2> QED
      BY <1>e, <2>1, <2>2, Zenon
  <1>11. CASE Undo
    <2>1. /\ phase = "undo" /\ UNCHANGED <<pkg, placed, phase>> /\ touched \subseteq touched'
          /\ \A i \in DOMAIN journal' : i \in DOMAIN journal /\ journal'[i] = journal[i]
      BY <1>11, UndoDoes, Zenon
    <2> QED
      BY <1>11, <1>j, <1>p, <2>1, InventoryIsUndoneFirst, Zenon DEF InventoryInvariant
  <1>12. CASE RunHooks
    <2>1. /\ phase \in {"pre", "post"} /\ UNCHANGED <<pkg, placed, journal, astray, stuck>>
          /\ Touching \/ UNCHANGED <<fs, touched>>
          /\ Advance \/ phase' \in {"undo", "failed"}
      BY <1>12, HooksDo, Zenon
    <2>2. phase \in DOMAIN Following \cup {"inventory"} /\ phase \in Working
      BY <2>1, FollowingIs, Zenon DEF Working
    <2>3. CASE phase' \in {"undo", "failed"}
      BY <1>e, <2>1, <2>2, <2>3, Zenon
    <2>4. CASE Advance
      <3>1. Keeps /\ \A x : Node(fs', x) = File("mdpkg") => Node(fs, x) = File("mdpkg")
        BY <1>k, <1>u, <2>1, Zenon
      <3>2. \A i \in DOMAIN pkg : Written(i)'
        BY <1>i, <2>1, <2>2, <2>4, <3>1, WrittenGrows, Zenon
      <3> QED
        BY <1>b, <1>g, <2>1, <2>2, <2>4, <3>1, <3>2, Zenon
    <2> QED
      BY <2>1, <2>3, <2>4, Zenon
  <1>13. CASE Other
    <2>1. /\ Touching /\ UNCHANGED <<pkg, placed, journal, phase, at, entry, astray, stuck>>
          /\ phase \notin Over
      BY <1>13, OtherDoes, Zenon
    <2>2. Keeps /\ touched \subseteq touched'
          /\ \A x : Node(fs', x) = File("mdpkg") => Node(fs, x) = File("mdpkg")
      BY <1>k, <2>1, Zenon
    <2>3. CASE phase \in Working
      BY <1>a, <1>g, <2>1, <2>2, <2>3, Zenon
    <2>4. CASE phase = "undo"
      BY <1>e, <2>1, <2>4, Zenon
    <2>5. CASE phase \in {"lock", "preflight"}
      BY <1>j, <1>p, <2>1, <2>2, <2>5, Zenon DEF InventoryInvariant
    <2> QED
      BY <1>t, <2>1, <2>3, <2>4, <2>5, Zenon DEF Phases, Over, Working
  <1>14. CASE UNCHANGED vars
    <2>1. UNCHANGED <<pkg, placed, fs, journal, touched, phase, at, entry, astray, stuck>>
      BY <1>14, Zenon DEF vars
    <2>2. CASE phase \in Working
      BY <1>a, <1>g, <1>u, <2>1, <2>2, Zenon
    <2>3. CASE phase \in {"undo", "failed", "killed"}
      BY <1>e, <2>1, <2>3, Zenon
    <2>4. CASE phase \in {"lock", "preflight"}
      BY <1>j, <1>p, <2>1, <2>4, Zenon DEF InventoryInvariant
    <2> QED
      BY <1>t, <2>2, <2>3, <2>4, Zenon DEF Phases, Over, Working
  <1> QED
    BY <1>1, <1>2, <1>3, <1>4, <1>5, <1>6, <1>7, <1>8, <1>9, <1>10, <1>11, <1>12, <1>13, <1>14, Zenon
    DEF Next, Mdpkg

(* What the inventories say, at the start. *)
LEMMA InventoryInit == Init => InventoryInvariant
  <1> SUFFICES ASSUME Init
               PROVE  InventoryInvariant
    BY Zenon
  <1>1. journal = <<>> /\ DOMAIN journal = {} /\ phase \in {"lock", "preflight"} /\ at = 1
    BY DEF Init
  <1>2. phase \notin Working
    BY <1>1, FollowingIs, Zenon DEF Working
  <1> QED
    BY <1>1, <1>2, Zenon DEF InventoryInvariant

-----------------------------------------------------------------------------
(* What the inventories account for. *)

(* What is to be written is told. *)
LEMMA TargetIsTold ==
    ASSUME Types, Writing
    PROVE  Target \in Told /\ Above(Target) \subseteq Told
  <1> DEFINE payload == {e.path : e \in UNION {Range(placed[i]) : i \in DOMAIN placed}}
             told == payload \cup changes \cup UNION {Records(c) : c \in Range(pkg)}
  <1>1. at \in DOMAIN pkg /\ at \in DOMAIN placed
    BY Zenon DEF Types
  <1>2. Target \in told
    <2>1. CASE phase = "extract"
      <3>1. Target = placed[at][entry].path /\ placed[at][entry] \in Range(placed[at])
        BY <2>1, TargetIs, Zenon DEF Range
      <3>2. placed[at][entry] \in UNION {Range(placed[i]) : i \in DOMAIN placed}
        BY <1>1, <3>1, Zenon
      <3> QED
        BY <3>1, <3>2, Zenon
    <2>2. CASE phase # "extract"
      <3>1. Target \in Records(pkg[at]) /\ pkg[at] \in Range(pkg)
        BY <1>1, <2>2, TargetIs, Zenon DEF Range
      <3> QED
        BY <3>1, Zenon
    <2> QED
      BY <2>1, <2>2, Zenon
  <1>3. Told = told \cup UNION {Above(p) : p \in told}
    BY Zenon DEF Told
  <1> HIDE DEF told
  <1> QED
    BY <1>2, <1>3, Zenon

(* What is told stays told. *)
LEMMA ToldGrows ==
    ASSUME UNCHANGED <<pkg, placed>>, changes \subseteq changes'
    PROVE  Told \subseteq Told' /\ changes' \subseteq Told'
  <1> DEFINE payload == {e.path : e \in UNION {Range(placed[i]) : i \in DOMAIN placed}}
             records == UNION {Records(c) : c \in Range(pkg)}
             told == payload \cup changes \cup records
             next == payload \cup changes' \cup records
  <1>1. Told = told \cup UNION {Above(p) : p \in told}
    BY Zenon DEF Told
  <1>2. Told' = next \cup UNION {Above(p) : p \in next}
    BY DEF Told
  <1>3. told \subseteq next /\ changes' \subseteq next
    BY Zenon
  <1> HIDE DEF told, next
  <1> QED
    BY <1>1, <1>2, <1>3, Zenon

(* What the inventories account for, after every step. *)
LEMMA ExplainStep == Types /\ ExplainInvariant /\ [Next]_vars => ExplainInvariant'
  <1> SUFFICES ASSUME Types, ExplainInvariant, [Next]_vars
               PROVE  ExplainInvariant'
    BY Zenon
  <1> USE DEF run
  <1>t. Tree(fs) /\ phase \in Phases /\ live \in BOOLEAN
    BY Zenon DEF Types
  <1>p. Working \cap {"lock", "preflight", "undo", "failed", "killed"} = {}
    BY FollowingIs, Zenon DEF Working
  <1>l. live' \/ phase' \notin {"preflight"} \cup Working => ExplainInvariant'
    BY Zenon DEF ExplainInvariant
  <1>g. ASSUME UNCHANGED <<live, base, pkg, placed>>, changes \subseteq changes',
               phase \in Working, phase' \in Working,
               ~live => \A q : Node(fs, q) # Node(fs', q) => q \in Told'
        PROVE  ExplainInvariant'
    <2>1. CASE live
      BY <1>g, <1>l, <2>1, Zenon
    <2>2. CASE ~live
      <3>1. ASSUME NEW q \in Differ(base, fs')
            PROVE  q \in Told'
        <4>1. Node(base, q) # Node(fs', q)
          BY <3>1, Zenon DEF Differ
        <4>2. CASE Node(base, q) = Node(fs, q)
          BY <1>g, <2>2, <4>1, <4>2, Zenon
        <4>3. CASE Node(base, q) # Node(fs, q)
          <5>1. q \in Differ(base, fs)
            BY <4>3, Zenon DEF Differ, Node
          <5> QED
            BY <1>g, <2>2, <5>1, ToldGrows, Zenon DEF ExplainInvariant
        <4> QED
          BY <4>2, <4>3, Zenon
      <3> QED
        BY <1>g, <1>p, <3>1, Zenon DEF ExplainInvariant
    <2> QED
      BY <1>t, <2>1, <2>2, Zenon
  <1>q. ASSUME UNCHANGED <<live, base, pkg, placed, fs, changes>>, phase \in Working, phase' \in Working
        PROVE  ExplainInvariant'
    BY <1>g, <1>q, Zenon
  <1>m. ASSUME NEW p \in Told, NEW node, Made(p, node), phase \in Working, phase' \in Working,
               UNCHANGED <<live, base, pkg, placed, changes>>
        PROVE  ExplainInvariant'
    <2>1. /\ DOMAIN fs' = DOMAIN fs \cup {p}
          /\ \A q \in DOMAIN fs : fs'[q] = fs[q]
      BY <1>m, <1>t, MadeDoes, Zenon
    <2>2. \A q : Node(fs, q) # Node(fs', q) => q = p
      BY <2>1, Zenon DEF Node
    <2> QED
      BY <1>g, <1>m, <2>2, ToldGrows, Zenon
  <1>1. CASE Fail \/ Undone \/ Kill
    <2>1. phase' \in {"undo", "failed", "killed"}
      BY <1>1, Zenon DEF Fail, Die, Undone, Kill
    <2> QED
      BY <1>l, <1>p, <2>1, Zenon
  <1>2. CASE Lock \/ Undo \/ Other
    <2>1. live /\ live' = live
      BY <1>2, LockDoes, UndoDoes, OtherDoes, Zenon DEF Types
    <2> QED
      BY <1>l, <2>1, Zenon
  <1>3. CASE Preflight
    <2>1. UNCHANGED <<live, base, fs>> /\ phase = "preflight" /\ phase' = "pre"
      BY <1>3, PreflightDoes, Zenon
    <2>2. ~live => Differ(base, fs) = {}
      BY <2>1, Zenon DEF ExplainInvariant, Differ
    <2> QED
      BY <2>1, <2>2, Zenon DEF ExplainInvariant
  <1>w. ASSUME Writing
        PROVE  phase \in DOMAIN Following \cup {"inventory"} /\ phase \in Working
    BY <1>w, TargetIs, FollowingIs, Zenon DEF Working
  <1>4. CASE MakeParent
    <2>1. PICK d \in Above(Target) : Made(d, Dir("mdpkg"))
      BY <1>4, MakeParentDoes, Zenon
    <2>2. Writing /\ UNCHANGED <<live, base, pkg, placed, phase, changes>>
      BY <1>4, MakeParentDoes, Zenon
    <2> QED
      BY <1>m, <1>w, <2>1, <2>2, TargetIsTold, Zenon
  <1>5. ASSUME NoPayload \/ Keep \/ CheckLinks
        PROVE  ExplainInvariant'
    <2>1. /\ phase \in {"extract", "links"} /\ Advance
          /\ UNCHANGED <<live, base, pkg, placed, fs, changes>>
      BY <1>5, Zenon DEF NoPayload, Keep, CheckLinks, Extracting
    <2>2. phase' \in Working /\ phase \in Working
      BY <2>1, AdvanceDoes, FollowingIs, Zenon DEF Working
    <2> QED
      BY <1>q, <2>1, <2>2, Zenon
  <1>6. CASE Create
    <2>1. /\ Made(Target, NewNode) /\ Writing /\ UNCHANGED <<live, base, pkg, placed, changes>>
          /\ Advance \/ UNCHANGED phase
      BY <1>6, CreateDoes, Zenon
    <2>2. phase' \in Working /\ phase \in Working
      BY <1>w, <2>1, AdvanceDoes, Zenon
    <2> QED
      BY <1>m, <2>1, <2>2, TargetIsTold, Zenon
  <1>7. CASE Finish
    <2>1. /\ DOMAIN fs' = DOMAIN fs
          /\ \A q \in DOMAIN fs : q # Target => fs'[q] = fs[q]
          /\ Writing /\ Advance /\ UNCHANGED <<live, base, pkg, placed, changes>>
      BY <1>7, FinishDoes, Zenon
    <2>2. phase' \in Working /\ phase \in Working
      BY <1>w, <2>1, AdvanceDoes, Zenon
    <2>3. \A q : Node(fs, q) # Node(fs', q) => q = Target
      BY <2>1, Zenon DEF Node
    <2>4. Target \in Told'
      BY <2>1, TargetIsTold, ToldGrows, Zenon
    <2> QED
      BY <1>g, <2>1, <2>2, <2>3, <2>4, Zenon
  <1>8. CASE Restore
    <2>1. UNCHANGED <<live, base, pkg, placed, fs, changes>> /\ phase' = "done" /\ phase = "restore"
      BY <1>8, Zenon DEF Restore
    <2>2. phase' \in Working /\ phase \in Working
      BY <2>1, Zenon DEF Working
    <2> QED
      BY <1>q, <2>1, <2>2, Zenon
  <1>9. CASE RunHooks
    <2>1. /\ phase \in {"pre", "post"} /\ UNCHANGED <<live, base, pkg, placed>>
          /\ Advance \/ phase' \in {"undo", "failed"}
          /\ ~live /\ Advance => changes' = changes \cup Differ(fs, fs')
          /\ live => changes' = changes
      BY <1>9, HooksDo, Zenon
    <2>2. CASE phase' \in {"undo", "failed"}
      BY <1>l, <1>p, <2>2, Zenon
    <2>3. CASE Advance
      <3>1. phase' \in Working /\ phase \in Working
        BY <2>1, <2>3, AdvanceDoes, FollowingIs, Zenon DEF Working
      <3>2. changes \subseteq changes'
        BY <1>t, <2>1, <2>3, Zenon
      <3>3. ASSUME ~live, NEW q, Node(fs, q) # Node(fs', q)
            PROVE  q \in Told'
        <4>1. q \in Differ(fs, fs')
          BY <3>3, Zenon DEF Differ, Node
        <4> QED
          BY <2>1, <2>3, <3>2, <3>3, <4>1, ToldGrows, Zenon
      <3> QED
        BY <1>g, <2>1, <3>1, <3>2, <3>3, Zenon
    <2> QED
      BY <2>1, <2>2, <2>3, Zenon
  <1>10. CASE UNCHANGED vars
    BY <1>10 DEF vars, ExplainInvariant, Told, Differ, Range
  <1> QED
    BY <1>1, <1>2, <1>3, <1>4, <1>5, <1>6, <1>7, <1>8, <1>9, <1>10, Zenon DEF Next, Mdpkg

(* What the inventories account for, at the start. *)
LEMMA ExplainInit == Init => ExplainInvariant
  <1> SUFFICES ASSUME Init
               PROVE  ExplainInvariant
    BY Zenon
  <1>1. fs = base /\ phase \in {"lock", "preflight"}
    BY Zenon DEF Init
  <1>2. phase \notin Working
    BY <1>1, FollowingIs, Zenon DEF Working
  <1> QED
    BY <1>1, <1>2, Zenon DEF ExplainInvariant

-----------------------------------------------------------------------------
(* The five invariants together hold of every run. *)
THEOREM InvariantHolds ==
    Spec => [](Types /\ OwnInvariant /\ JournalInvariant /\ InventoryInvariant /\ ExplainInvariant)
  BY TypesInit, TypesStep, OwnInit, OwnStep, JournalInit, JournalStep, InventoryInit,
     InventoryStep, ExplainInit, ExplainStep, PTL DEF Spec

(* At every moment an inventory that is whole describes a component that is *)
(* whole, up to what scripts and other programs touched and to what the     *)
(* undo removed through a link of theirs.                                   *)
THEOREM InventoriesAreLast == Spec => []InventoryIsLast
  <1>1. Types /\ OwnInvariant /\ InventoryInvariant => InventoryIsLast
    <2> SUFFICES ASSUME Types, OwnInvariant, InventoryInvariant
                 PROVE  InventoryIsLast
      BY Zenon
    <2>1. CASE phase \in {"undo", "failed", "killed"}
      BY <2>1, Zenon DEF InventoryInvariant
    <2>2. CASE phase \in {"lock", "preflight"}
      <3>1. \A q \in DOMAIN fs : fs[q].by # "mdpkg"
        BY <2>2, Zenon DEF OwnInvariant
      <3>2. \A x : Node(fs, x) # File("mdpkg")
        BY <3>1 DEF Node, File, Missing
      <3> QED
        BY <3>2, Zenon DEF InventoryIsLast
    <2>3. CASE phase \in Working
      <3> SUFFICES ASSUME NEW i \in DOMAIN pkg, Node(fs, Inventory(i)) = File("mdpkg")
                   PROVE  /\ \A p \in Records(pkg[i]) \ touched : Node(fs, p).kind = "file"
                          /\ \A e \in Range(placed[i]) :
                                e.path \in touched \/ Node(fs, e.path).kind = e.kind
        BY Zenon DEF InventoryIsLast, Inventory
      <3>1. Written(i) /\ Past(i)
        BY <2>3, Zenon DEF InventoryInvariant, Progress
      <3> QED
        BY <3>1, WholeWhenPast, Zenon DEF Good, Range
    <2> QED
      BY <2>1, <2>2, <2>3, Zenon DEF Types, Phases, Over, Working
  <1> QED
    BY <1>1, InvariantHolds, PTL

(* Where an offline install that is done differs from the root it began     *)
(* with, the inventories say why.                                          *)
THEOREM InventoriesExplain == Spec => []InventoryExplains
  <1>1. ExplainInvariant => InventoryExplains
    BY Zenon DEF ExplainInvariant, InventoryExplains, Told, Working
  <1> QED
    BY <1>1, InvariantHolds, PTL

=============================================================================
