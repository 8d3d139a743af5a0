---------------------------- MODULE OpendProofs ----------------------------
(***************************************************************************)
(* opend, for any callers, any limits, any files and any request: its loop *)
(* (Opend) knows its workers, and its idle exit cuts off nobody; a worker  *)
(* (OpenResolve) passes every item to one launch, and to the first match.  *)
(*                                                                         *)
(* The resolver's argument has two invariants.  ResolveInvariant groups    *)
(* what was added so far: the launches are for exactly the items that are  *)
(* to be passed, each in one, and two launches of the same handler are     *)
(* `single'.  MatchInvariant says that, as long as owned_ has not moved,   *)
(* pointers and launches lead to what Resolver::item found; FindIsBest     *)
(* says that this is the documented choice.  What recursive functions and  *)
(* Min give is proved by the least counterexample (Smallest, UpTo).        *)
(***************************************************************************)
EXTENDS Opend, OpenResolve, FiniteSetTheorems, WellFoundedInduction, TLAPS

-----------------------------------------------------------------------------
(* The loop.                                                               *)

Loops == {"top", "kevent", "reap", "accept", "pause"}
Conns == {"away", "queued", "served", "answered", "dropped", "gone"}

\* The part of the state that the argument is about has its types.
Typed ==
    /\ daemon \in Loops \union {"absent"}
    /\ workers \subseteq Clients
    /\ IsFiniteSet(workers)
    /\ backlog \in Seq(Clients)
    /\ conn \in [Clients -> Conns]
    /\ worker \in [Clients -> {"none", "running", "zombie"}]

Known ==
    IF daemon = "absent" THEN \A c \in Clients : worker[c] = "none"
    ELSE /\ \A c \in Clients : worker[c] # "none" <=> c \in workers
         /\ Cardinality(workers) <= MaxWorkers

InBacklog(c, queue) == \E i \in DOMAIN queue : queue[i] = c

Queued == \A c \in Clients : conn[c] = "queued" => InBacklog(c, backlog)

\* Launch needs to know that no worker outlived the last opend, the exit that
\* the set of workers is exact, and that whoever waits is in the queue.
OpendInvariant == Typed /\ Known /\ Queued

\* The inductive invariant holds initially, before anybody has connected.
LEMMA InitInvariant == OpendInit => OpendInvariant
  <1> SUFFICES ASSUME OpendInit PROVE OpendInvariant  OBVIOUS
  <1>1. Typed  BY FS_EmptySet DEF OpendInit, Typed, Loops, Conns
  <1>2. Known  BY DEF OpendInit, Known
  <1>3. Queued  BY DEF OpendInit, Queued
  <1> QED  BY <1>1, <1>2, <1>3 DEF OpendInvariant

\* Taking the head of the queue leaves everybody else in it.
LEMMA TailKeeps ==
    ASSUME NEW q \in Seq(Clients), q # <<>>, NEW c, InBacklog(c, q), c # Head(q)
    PROVE  InBacklog(c, Tail(q))
  <1>1. PICK i \in DOMAIN q : q[i] = c  BY DEF InBacklog
  <1>2. i # 1 /\ i \in 1 .. Len(q)  BY <1>1
  <1>3. i - 1 \in DOMAIN Tail(q) /\ Tail(q)[i - 1] = c  BY <1>1, <1>2
  <1> QED  BY <1>3 DEF InBacklog

\* Joining the queue keeps everybody who is in it.
LEMMA AppendKeeps ==
    ASSUME NEW q \in Seq(Clients), NEW d \in Clients, NEW c,
           InBacklog(c, q) \/ c = d
    PROVE  InBacklog(c, Append(q, d))
  <1>1. CASE c = d
    <2>1. Len(q) + 1 \in DOMAIN Append(q, d) /\ Append(q, d)[Len(q) + 1] = d  OBVIOUS
    <2> QED  BY <1>1, <2>1 DEF InBacklog
  <1>2. CASE InBacklog(c, q)
    <2>1. PICK i \in DOMAIN q : q[i] = c  BY <1>2 DEF InBacklog
    <2>2. i \in DOMAIN Append(q, d) /\ Append(q, d)[i] = c  BY <2>1
    <2> QED  BY <2>2 DEF InBacklog
  <1> QED  BY <1>1, <1>2

\* opend's exit leaves no worker, and the queue to launchd.
LEMMA LeaveKeepsInvariant == OpendInvariant /\ Leave => OpendInvariant'
  <1> SUFFICES ASSUME OpendInvariant, Leave PROVE OpendInvariant'  OBVIOUS
  <1> USE DEF OpendInvariant
  <1>1. PICK late \in SUBSET {c \in Clients : worker[c] = "running" /\ conn[c] = "served"} :
          conn' = [c \in Clients |-> IF worker[c] # "running" \/ conn[c] # "served"
                                     THEN conn[c]
                                     ELSE IF c \in late THEN "answered" ELSE "dropped"]
        BY DEF Leave
  <1>2. Typed'  BY <1>1 DEF Leave, Typed, Loops, Conns
  <1>3. Known'  BY DEF Leave, Known
  <1>4. Queued'  BY <1>1 DEF Leave, Queued, Typed, Conns
  <1> QED  BY <1>2, <1>3, <1>4

\* A new worker is entered into the set while there is room for it.
LEMMA AcceptKeepsInvariant == OpendInvariant /\ Accept => OpendInvariant'
  <1> SUFFICES ASSUME OpendInvariant, Accept PROVE OpendInvariant'  OBVIOUS
  <1> USE DEF OpendInvariant
  <1> DEFINE c == Head(backlog)
  <1>1. c \in Clients /\ Tail(backlog) \in Seq(Clients) /\ backlog # <<>>
        BY DEF Accept, MayAccept, Typed
  <1>2. /\ backlog' = Tail(backlog)
        /\ worker' = [worker EXCEPT ![c] = "running"]
        /\ conn' = [conn EXCEPT ![c] = IF @ = "queued" THEN "served" ELSE @]
        /\ workers' = workers \union {c}
        /\ daemon' = daemon /\ daemon = "accept"
        /\ ~full
        BY DEF Accept, MayAccept
  <1> HIDE DEF c
  <1>3. /\ IsFiniteSet(workers \union {c})
        /\ Cardinality(workers) \in Nat
        /\ Cardinality(workers \union {c}) \in Nat
        /\ Cardinality(workers \union {c}) <= Cardinality(workers) + 1
    <2>1. IsFiniteSet(workers)  BY DEF Typed
    <2>2. Cardinality(workers) \in Nat  BY <2>1, FS_CardinalityType
    <2>3. /\ IsFiniteSet(workers \union {c})
          /\ Cardinality(workers \union {c}) =
                IF c \in workers THEN Cardinality(workers) ELSE Cardinality(workers) + 1
          BY <2>1, FS_AddElement
    <2> QED  BY <2>2, <2>3
  <1>4. Typed'
    <2>1. conn' \in [Clients -> Conns]  BY <1>1, <1>2 DEF Typed, Conns
    <2> QED  BY <1>1, <1>2, <1>3, <2>1 DEF Typed
  <1>5. Known'
    <2>1. Cardinality(workers') <= MaxWorkers
      <3>1. ~(Cardinality(workers) >= MaxWorkers)  BY <1>2 DEF full
      <3>2. workers' = workers \union {c}  BY <1>2
      <3> QED  BY <1>3, <3>1, <3>2, OpendAssumption
    <2>2. \A d \in Clients : worker'[d] # "none" <=> d \in workers'
          BY <1>1, <1>2 DEF Known, Typed
    <2> QED  BY <1>2, <2>1, <2>2 DEF Known
  <1>6. Queued'
    <2> SUFFICES ASSUME NEW d \in Clients, conn'[d] = "queued"
                 PROVE  InBacklog(d, backlog')
        BY DEF Queued
    <2>1. d # c /\ conn[d] = "queued"  BY <1>1, <1>2 DEF Typed
    <2>2. InBacklog(d, backlog)  BY <2>1 DEF Queued
    <2> QED  BY <1>1, <1>2, <2>1, <2>2, TailKeeps DEF c, Typed
  <1> QED  BY <1>4, <1>5, <1>6

\* A connection that is closed for want of a worker leaves the queue.
LEMMA AcceptFailsKeepsInvariant == OpendInvariant /\ AcceptFails => OpendInvariant'
  <1> SUFFICES ASSUME OpendInvariant, AcceptFails PROVE OpendInvariant'  OBVIOUS
  <1> USE DEF OpendInvariant
  <1> DEFINE c == Head(backlog)
  <1>1. c \in Clients /\ Tail(backlog) \in Seq(Clients) /\ backlog # <<>>
        BY DEF AcceptFails, MayAccept, Typed
  <1>2. /\ backlog' = Tail(backlog)
        /\ conn' = [conn EXCEPT ![c] = IF @ = "queued" THEN "dropped" ELSE @]
        /\ worker' = worker /\ workers' = workers /\ daemon' = daemon
        BY DEF AcceptFails
  <1> HIDE DEF c
  <1>3. Typed'  BY <1>1, <1>2 DEF Typed, Conns
  <1>4. Known'  BY <1>2 DEF Known
  <1>5. Queued'
    <2> SUFFICES ASSUME NEW d \in Clients, conn'[d] = "queued"
                 PROVE  InBacklog(d, backlog')
        BY DEF Queued
    <2>1. d # c /\ conn[d] = "queued"  BY <1>1, <1>2 DEF Typed
    <2>2. InBacklog(d, backlog)  BY <2>1 DEF Queued
    <2> QED  BY <1>1, <1>2, <2>1, <2>2, TailKeeps DEF c, Typed
  <1> QED  BY <1>3, <1>4, <1>5

\* A step of the loop that only moves on keeps the invariant.
LEMMA MovingOnKeepsInvariant ==
    ASSUME OpendInvariant, daemon \in Loops, daemon' \in Loops,
           UNCHANGED <<workers, backlog, conn, worker>>
    PROVE  OpendInvariant'
  BY DEF OpendInvariant, Typed, Known, Queued, InBacklog, Loops

\* The invariant is inductive.
LEMMA InvariantStep == OpendInvariant /\ [OpendNext]_opendVars => OpendInvariant'
  <1> SUFFICES ASSUME OpendInvariant, [OpendNext]_opendVars PROVE OpendInvariant'  OBVIOUS
  <1> USE DEF OpendInvariant
  <1>1. CASE UNCHANGED opendVars
        BY <1>1 DEF opendVars, loopVars, Typed, Known, Queued, InBacklog
  <1>2. CASE Launch
    <2>1. Typed'  BY <1>2, FS_EmptySet DEF Launch, Typed, Loops
    <2>2. Known'  BY <1>2, FS_EmptySet, OpendAssumption DEF Launch, Known
    <2>3. Queued'  BY <1>2 DEF Launch, Queued, InBacklog
    <2> QED  BY <2>1, <2>2, <2>3
  <1>3. CASE IdleExit \/ KeventFails
        BY <1>3, LeaveKeepsInvariant DEF IdleExit, KeventFails
  <1>4. CASE Wait  BY <1>4, MovingOnKeepsInvariant DEF Wait, Loops
  <1>5. ASSUME NEW e, NEW seconds, Kevent(e, seconds) PROVE OpendInvariant'
        BY <1>5, MovingOnKeepsInvariant DEF Kevent, Loops
  <1>6. CASE ReapDone  BY <1>6, MovingOnKeepsInvariant DEF ReapDone, Loops
  <1>7. CASE AcceptDone  BY <1>7, MovingOnKeepsInvariant DEF AcceptDone, Loops
  <1>8. CASE Pause  BY <1>8, MovingOnKeepsInvariant DEF Pause, Loops
  <1>9. CASE Accept  BY <1>9, AcceptKeepsInvariant
  <1>10. CASE AcceptFails  BY <1>10, AcceptFailsKeepsInvariant
  <1>11. ASSUME NEW c \in Clients, Reap(c) PROVE OpendInvariant'
    <2>1. IsFiniteSet(workers \ {c}) /\ Cardinality(workers \ {c}) <= Cardinality(workers)
          /\ Cardinality(workers \ {c}) \in Nat /\ Cardinality(workers) \in Nat
      <3>1. IsFiniteSet(workers)  BY DEF Typed
      <3>2. Cardinality(workers) \in Nat  BY <3>1, FS_CardinalityType
      <3>3. /\ IsFiniteSet(workers \ {c})
            /\ Cardinality(workers \ {c}) =
                  IF c \in workers THEN Cardinality(workers) - 1 ELSE Cardinality(workers)
            BY <3>1, FS_RemoveElement
      <3>4. Cardinality(workers \ {c}) \in Nat  BY <3>3, FS_CardinalityType
      <3> QED  BY <3>2, <3>3, <3>4
    <2>2. Typed'  BY <1>11, <2>1 DEF Reap, Typed
    <2>3. Known'
      <3>1. Cardinality(workers') <= MaxWorkers
            BY <1>11, <2>1, OpendAssumption DEF Reap, Known
      <3>2. \A d \in Clients : worker'[d] # "none" <=> d \in workers'
            BY <1>11 DEF Reap, Known, Typed
      <3> QED  BY <1>11, <3>1, <3>2 DEF Reap, Known
    <2>4. Queued'  BY <1>11 DEF Reap, Queued, InBacklog
    <2> QED  BY <2>2, <2>3, <2>4
  <1>12. ASSUME NEW c \in Clients, Connect(c) PROVE OpendInvariant'
    <2>1. Typed'  BY <1>12 DEF Connect, loopVars, Typed, Conns
    <2>2. Known'  BY <1>12 DEF Connect, loopVars, Known
    <2>3. Queued'
      <3> SUFFICES ASSUME NEW d \in Clients, conn'[d] = "queued"
                   PROVE  InBacklog(d, backlog')
          BY DEF Queued
      <3>1. d = c \/ InBacklog(d, backlog)  BY <1>12 DEF Connect, Queued, Typed
      <3> QED  BY <1>12, <3>1, AppendKeeps DEF Connect, Typed
    <2> QED  BY <2>1, <2>2, <2>3
  <1>13. ASSUME NEW c \in Clients, GiveUp(c) PROVE OpendInvariant'
    <2>1. Typed'  BY <1>13 DEF GiveUp, loopVars, Typed, Conns
    <2>2. Known'  BY <1>13 DEF GiveUp, loopVars, Known
    <2>3. Queued'  BY <1>13 DEF GiveUp, Queued, InBacklog, Typed
    <2> QED  BY <2>1, <2>2, <2>3
  <1>14. ASSUME NEW c \in Clients, WorkerEnds(c) PROVE OpendInvariant'
    <2>1. Typed'  BY <1>14 DEF WorkerEnds, loopVars, Typed, Conns
    <2>2. Known'  BY <1>14 DEF WorkerEnds, loopVars, Known, Typed
    <2>3. Queued'  BY <1>14 DEF WorkerEnds, Queued, InBacklog, Typed
    <2> QED  BY <2>1, <2>2, <2>3
  <1> QED
      BY <1>1, <1>2, <1>3, <1>4, <1>5, <1>6, <1>7, <1>8, <1>9, <1>10, <1>11, <1>12,
         <1>13, <1>14
      DEF OpendNext, Loop

\* The invariant holds of every reachable state of opend.
THEOREM InvariantHolds == OpendSpec => []OpendInvariant
  BY InitInvariant, InvariantStep, PTL DEF OpendSpec

\* opend's set `workers' is exact and bounded by maxWorkers, for any number of
\* callers and any maxWorkers.
THEOREM WorkersAreKnown == OpendSpec => []WorkersKnown
  <1>1. OpendInvariant => WorkersKnown
        BY DEF OpendInvariant, Known, Typed, WorkersKnown
  <1> QED  BY <1>1, InvariantHolds, PTL

\* An idle exit changes no caller's connection, and leaves whoever waits in the
\* listener's queue.
THEOREM IdleExitCutsOffNobody == OpendSpec => IdleExitIsQuiet
  <1> DEFINE Quiet == daemon = "top" /\ daemon' = "absent" =>
                        /\ conn' = conn
                        /\ \A c \in Clients :
                              conn[c] = "queued" => InBacklog(c, backlog')
  <1>1. OpendInvariant /\ [OpendNext]_opendVars => Quiet
    <2> SUFFICES ASSUME OpendInvariant, [OpendNext]_opendVars, daemon = "top", daemon' = "absent"
                 PROVE  /\ conn' = conn
                        /\ \A c \in Clients :
                              conn[c] = "queued" => InBacklog(c, backlog')
        OBVIOUS
    <2>1. IdleExit
          BY DEF OpendNext, Loop, opendVars, loopVars, Launch, Wait, Kevent, KeventFails, Reap,
                 ReapDone, Accept, AcceptFails, MayAccept, AcceptDone, Pause, Connect,
                 GiveUp, WorkerEnds
    <2>2. \A c \in Clients : worker[c] = "none"
          BY <2>1 DEF IdleExit, Idle, OpendInvariant, Known
    <2>3. conn' = conn
          BY <2>1, <2>2 DEF IdleExit, Leave, OpendInvariant, Typed
    <2>4. backlog' = backlog  BY <2>1 DEF IdleExit, Leave
    <2> QED  BY <2>3, <2>4 DEF OpendInvariant, Queued, InBacklog
  <1>2. [Quiet]_opendVars => [daemon = "top" /\ daemon' = "absent" =>
             /\ conn' = conn
             /\ \A c \in Clients :
                   conn[c] = "queued" => \E i \in DOMAIN backlog' : backlog'[i] = c]_opendVars
        BY DEF InBacklog
  <1> QED  BY <1>1, <1>2, InvariantHolds, PTL DEF OpendSpec, IdleExitIsQuiet

-----------------------------------------------------------------------------
(* Induction.                                                              *)

(* Every set of natural numbers that is not empty has a smallest one. *)
LEMMA Smallest ==
    ASSUME NEW T, T \subseteq Nat, T # {}
    PROVE  Min(T) \in T /\ \A y \in T : Min(T) <= y
  <1> DEFINE R == {r \in Nat \X Nat : r[1] < r[2]}
  <1>1. IsWellFoundedOn(R, Nat)
    BY NatLessThanWellFounded DEF OpToRel
  <1>2. PICK x \in T : \A y \in T : ~(<<y, x>> \in R)
    <2> HIDE DEF R
    <2> QED
      BY <1>1, WFMin
  <1>3. ASSUME NEW y \in T
        PROVE  x <= y
    <2>1. x \in Nat /\ y \in Nat /\ ~(y < x)
      BY <1>2
    <2> QED
      BY <2>1
  <1> QED
    BY <1>3, Zenon DEF Min

(* Induction up to n, over a set. *)
LEMMA UpTo ==
    ASSUME NEW n \in Nat, NEW S, 0 \in S,
           \A i \in 0..(n - 1) : i \in S => i + 1 \in S
    PROVE  \A i \in 0..n : i \in S
  <1> DEFINE T == (0..n) \ S
  <1>1. SUFFICES ASSUME T # {}
                 PROVE  FALSE
    OBVIOUS
  <1>2. T \subseteq Nat
    OBVIOUS
  <1> DEFINE x == Min(T)
  <1>3. x \in T /\ \A y \in T : x <= y
    <2> HIDE DEF T
    <2> QED
      BY <1>1, <1>2, Smallest
  <1> HIDE DEF x
  <1>4. x \in 1..n /\ x - 1 \in 0..(n - 1) /\ x - 1 \in 0..n /\ x - 1 + 1 = x /\ ~(x <= x - 1)
    BY <1>3
  <1>5. x - 1 \in S
    BY <1>3, <1>4
  <1> QED
    BY <1>3, <1>4, <1>5

-----------------------------------------------------------------------------
\* G gives from a number and a value of V another value of V.
Closed(G, n, V) == \A i \in 0..(n - 1), w \in V : G[<<i, w>>] \in V

\* f begins with v and goes on as G says.
Grows(f, n, v, G) == f[0] = v /\ \A i \in 0..(n - 1) : f[i + 1] = G[<<i, f[i]>>]

(* A function that is given at 0 and from one number to the next exists. *)
LEMMA Recursion ==
    ASSUME NEW n \in Nat, NEW V, NEW v \in V, NEW G, Closed(G, n, V)
    PROVE  \E f \in [0..n -> V] : Grows(f, n, v, G)
  <1> DEFINE S == {m \in 0..n : \E f \in [0..m -> V] : Grows(f, m, v, G)}
  <1>1. 0 \in S
    <2> DEFINE f == [i \in 0..0 |-> v]
    <2>1. f \in [0..0 -> V] /\ f[0] = v
      OBVIOUS
    <2>2. 0 \in 0..n /\ ~\E i \in 0..(0 - 1) : TRUE
      OBVIOUS
    <2> HIDE DEF f
    <2>3. Grows(f, 0, v, G)
      BY <2>1, <2>2, Zenon DEF Grows
    <2> QED
      BY <2>1, <2>2, <2>3, Zenon
  <1>2. ASSUME NEW m \in 0..(n - 1), m \in S
        PROVE  m + 1 \in S
    <2>1. PICK f \in [0..m -> V] : Grows(f, m, v, G)
      BY <1>2, Zenon
    <2> DEFINE w == G[<<m, f[m]>>]
               g == [i \in 0..(m + 1) |-> IF i = m + 1 THEN w ELSE f[i]]
    <2>2. m + 1 \in 0..n /\ m \in 0..m /\ m \in 0..(n - 1) /\ m + 1 \in 0..(m + 1) /\ m \in Nat
      OBVIOUS
    <2>3. w \in V
      BY <2>2, Zenon DEF Closed
    <2> HIDE DEF w
    <2>4. \A i \in 0..(m + 1) : i # m + 1 => i \in 0..m
      OBVIOUS
    <2>5. g \in [0..(m + 1) -> V]
      BY <2>3, <2>4, Zenon
    <2>6. ASSUME NEW i \in 0..((m + 1) - 1)
          PROVE  g[i + 1] = G[<<i, g[i]>>]
      <3>1. i \in 0..m /\ i \in 0..(m + 1) /\ i + 1 \in 0..(m + 1) /\ i # m + 1
        BY <2>2
      <3>2. g[i] = f[i]
        BY <3>1, Zenon
      <3>3. CASE i = m
        <4>1. g[i + 1] = w
          BY <2>2, <3>3, Zenon
        <4> QED
          BY <3>2, <3>3, <4>1, Zenon DEF w
      <3>4. CASE i # m
        <4>1. i \in 0..(m - 1) /\ i + 1 # m + 1
          BY <2>2, <3>1, <3>4
        <4>2. f[i + 1] = G[<<i, f[i]>>]
          BY <2>1, <4>1, Zenon DEF Grows
        <4>3. g[i + 1] = f[i + 1]
          BY <3>1, <4>1, Zenon
        <4> QED
          BY <3>2, <4>2, <4>3, Zenon
      <3> QED
        BY <3>3, <3>4, Zenon
    <2>7. g[0] = v
      <3>1. 0 \in 0..(m + 1) /\ 0 # m + 1
        BY <2>2
      <3>2. g[0] = f[0]
        BY <3>1, Zenon
      <3> QED
        BY <2>1, <3>2, Zenon DEF Grows
    <2> HIDE DEF g
    <2>8. Grows(g, m + 1, v, G)
      BY <2>6, <2>7, Zenon DEF Grows
    <2> QED
      BY <2>2, <2>5, <2>8, Zenon
  <1>3. n \in 0..n
    OBVIOUS
  <1> HIDE DEF S
  <1>4. n \in S
    BY <1>1, <1>2, <1>3, UpTo, Zenon
  <1> QED
    BY <1>4, Zenon DEF S

(* The folders of items are a list of folders of items. *)
LEMMA FoldersAre ==
    ASSUME NEW s, s \in Seq(Range(s))
    PROVE  Folders(s) \in Seq({item.folder : item \in Range(s)})
  <1> DEFINE n == Len(s)
             F == {item.folder : item \in Range(s)}
             Body(f) == [i \in 0..n |-> IF i = 0 THEN <<>>
                                        ELSE IF s[i].folder \in Range(f[i - 1]) THEN f[i - 1]
                                        ELSE Append(f[i - 1], s[i].folder)]
             More(i, w) == IF s[i + 1].folder \in Range(w) THEN w ELSE Append(w, s[i + 1].folder)
             G == [p \in (0..(n - 1)) \X Seq(F) |-> More(p[1], p[2])]
  <1>1. n \in Nat /\ DOMAIN s = 1..n
    OBVIOUS
  <1> HIDE DEF n
  <1>2. \A i \in 0..(n - 1) : i + 1 \in 1..n /\ i \in 0..n /\ i + 1 \in 0..n /\ i + 1 # 0 /\ (i + 1) - 1 = i
    BY <1>1
  <1>3. \A i \in 0..(n - 1) : s[i + 1].folder \in F
    BY <1>1, <1>2, Zenon DEF Range
  <1> HIDE DEF F
  <1>4. ASSUME NEW w \in Seq(F), NEW e \in F
        PROVE  Append(w, e) \in Seq(F)
    OBVIOUS
  <1>5. ASSUME NEW i \in 0..(n - 1), NEW w \in Seq(F)
        PROVE  G[<<i, w>>] = More(i, w) /\ G[<<i, w>>] \in Seq(F)
    <2>1. <<i, w>> \in (0..(n - 1)) \X Seq(F) /\ <<i, w>>[1] = i /\ <<i, w>>[2] = w
      OBVIOUS
    <2>2. G[<<i, w>>] = More(i, w)
      BY <2>1, Zenon
    <2> QED
      BY <1>3, <1>4, <2>2, Zenon
  <1>6. <<>> \in Seq(F)
    OBVIOUS
  <1> HIDE DEF G
  <1>7. PICK f \in [0..n -> Seq(F)] : Grows(f, n, <<>>, G)
    <2>1. Closed(G, n, Seq(F))
      BY <1>5, Zenon DEF Closed
    <2> QED
      BY <1>1, <1>6, <2>1, Recursion, Zenon
  <1>8. ASSUME NEW i \in 0..n
        PROVE  f[i] = Body(f)[i]
    <2>1. CASE i = 0
      BY <1>7, <2>1, Zenon DEF Grows
    <2>2. CASE i # 0
      <3>1. i - 1 \in 0..(n - 1) /\ i - 1 + 1 = i /\ i - 1 \in 0..n
        BY <1>1, <2>2
      <3>2. f[i - 1] \in Seq(F)
        BY <3>1, Zenon
      <3>3. f[i] = More(i - 1, f[i - 1])
        BY <1>5, <1>7, <3>1, <3>2, Zenon DEF Grows
      <3> QED
        BY <2>2, <3>1, <3>3, Zenon
    <2> QED
      BY <2>1, <2>2, Zenon
  <1>9. f = Body(f)
    <2> DEFINE b == Body(f)
    <2>1. DOMAIN b = 0..n /\ b = [i \in 0..n |-> b[i]]
      BY Zenon
    <2>2. f = [i \in 0..n |-> f[i]]
      BY Zenon
    <2> QED
      BY <1>8, <2>1, <2>2, Zenon
  <1> DEFINE seen == CHOOSE g : g = Body(g)
  <1>10. seen = Body(seen)
    BY <1>9, Zenon
  <1>11. Folders(s) = seen[n]
    BY Zenon DEF Folders, n
  <1> DEFINE S == {i \in 0..n : seen[i] \in Seq(F)}
  <1> HIDE DEF seen
  <1>12. 0 \in S
    <2>1. 0 \in 0..n
      BY <1>1
    <2>2. seen[0] = <<>>
      BY <1>10, <2>1, Zenon
    <2> QED
      BY <1>6, <2>1, <2>2, Zenon
  <1>13. ASSUME NEW i \in 0..(n - 1), i \in S
         PROVE  i + 1 \in S
    <2>1. seen[i + 1] = Body(seen)[i + 1]
      BY <1>10, Zenon
    <2> DEFINE j == i + 1
    <2>j. j \in 0..n /\ j # 0 /\ j - 1 = i
      BY <1>2, Zenon
    <2> HIDE DEF j
    <2>b. Body(seen)[j] = IF s[j].folder \in Range(seen[j - 1]) THEN seen[j - 1]
                          ELSE Append(seen[j - 1], s[j].folder)
      BY <2>j, Zenon
    <2>2. seen[i + 1] = More(i, seen[i])
      BY <2>1, <2>b, <2>j, Zenon DEF j
    <2>3. seen[i] \in Seq(F)
      BY <1>13, Zenon
    <2>4. seen[i + 1] \in Seq(F)
      BY <1>3, <1>4, <2>2, <2>3, Zenon
    <2> QED
      BY <1>2, <2>4, Zenon
  <1>14. n \in 0..n
    BY <1>1
  <1> HIDE DEF S
  <1>15. n \in S
    BY <1>1, <1>12, <1>13, <1>14, UpTo, Zenon
  <1>16. seen[n] \in Seq(F)
    BY <1>15, Zenon DEF S
  <1> QED
    BY <1>11, <1>16, Zenon DEF F

-----------------------------------------------------------------------------
(* Handlers.                                                               *)

FilesThere ==
    user \in UserFiles /\ system \in SystemFiles /\ bundles \in BundleLists /\ request \in Requests

AllLines == LineHandlers(user) \union LineHandlers(system)

\* A handler that a lookup may find: that of one of the lines, or one that is not
\* `single' and whose origin no line has.
KnownHandler(h, lines) == h \in lines \/ (~h.single /\ \A g \in lines : g.origin # h.origin)

(* Handlers that add() takes for the same are both `single', or none is. *)
LEMMA SameSingle ==
    ASSUME Given, FilesThere, NEW h, NEW g, KnownHandler(h, AllLines), KnownHandler(g, AllLines), Same(h, g)
    PROVE  h.single <=> g.single
  <1>1. CASE h \in AllLines /\ g \in AllLines
    BY <1>1, Zenon DEF Given, OriginsTell, FilesThere, AllLines
  <1>2. h.origin = g.origin
    BY Zenon DEF Same
  <1> QED
    BY <1>1, <1>2, Zenon DEF KnownHandler

(* A line that a table gives is the first that has the selector. *)
LEMMA LineFound ==
    ASSUME Given, NEW file \in UserFiles \union SystemFiles, NEW s, Hits(file, s) # {}
    PROVE  /\ Hits(file, s) \subseteq Nat
           /\ Min(Hits(file, s)) \in Hits(file, s)
           /\ \A i \in Hits(file, s) : Min(Hits(file, s)) <= i
           /\ FirstLine(file, s).in = "table"
           /\ FirstLine(file, s).handler = file.lines[Min(Hits(file, s))].handler
           /\ FirstLine(file, s).handler \in LineHandlers(file)
  <1>1. file.lines \in Seq(Range(file.lines))
    BY Zenon DEF Given, FilesAreRead
  <1>2. DOMAIN file.lines \subseteq Nat
    BY <1>1
  <1>3. Hits(file, s) \subseteq DOMAIN file.lines
    BY Zenon DEF Hits, Table
  <1>4. Hits(file, s) \subseteq Nat
    BY <1>2, <1>3, Zenon
  <1>5. Min(Hits(file, s)) \in Hits(file, s) /\ \A i \in Hits(file, s) : Min(Hits(file, s)) <= i
    BY <1>4, Smallest, Zenon
  <1>6. file.lines[Min(Hits(file, s))] \in Range(file.lines)
    BY <1>3, <1>5, Zenon DEF Range
  <1>7. FirstLine(file, s).in = "table"
        /\ FirstLine(file, s).handler = file.lines[Min(Hits(file, s))].handler
    BY DEF FirstLine, Entry
  <1> QED
    BY <1>4, <1>5, <1>6, <1>7, Zenon DEF LineHandlers

(* A bundle that a lookup gives is the first of those that fit. *)
LEMMA BundleFound ==
    ASSUME Given, FilesThere, NEW hits \in SUBSET readable, hits # {}
    PROVE  /\ hits \subseteq Nat
           /\ Min(hits) \in hits
           /\ \A i \in hits : Min(hits) <= i
           /\ bundles[Min(hits)] \in Range(bundles)
           /\ FirstBundle(hits).in = "owned"
           /\ FirstBundle(hits).handler = bundleHandler(bundles[Min(hits)])
  <1>1. bundles \in Seq(Range(bundles))
    BY Zenon DEF Given, FilesAreRead, FilesThere
  <1>2. DOMAIN bundles \subseteq Nat
    BY <1>1
  <1>3. hits \subseteq DOMAIN bundles
    BY Zenon DEF readable
  <1>4. hits \subseteq Nat
    BY <1>2, <1>3, Zenon
  <1>5. Min(hits) \in hits /\ \A i \in hits : Min(hits) <= i
    BY <1>4, Smallest, Zenon
  <1>6. bundles[Min(hits)] \in Range(bundles)
    BY <1>3, <1>5, Zenon DEF Range
  <1>7. FirstBundle(hits).in = "owned" /\ FirstBundle(hits).handler = bundleHandler(bundles[Min(hits)])
    BY DEF FirstBundle, Keep
  <1> QED
    BY <1>4, <1>5, <1>6, <1>7, Zenon

(* The handler of a bundle is known. *)
LEMMA BundleKnown ==
    ASSUME Given, FilesThere,
           NEW b, b \in Range(bundles) \/ (request.app.by = "path" /\ b = request.app.bundle)
    PROVE  KnownHandler(bundleHandler(b), AllLines)
  <1>1. ~bundleHandler(b).single /\ bundleHandler(b).origin = b.path
    BY DEF bundleHandler
  <1>2. \A g \in AllLines : g.origin # b.path
    BY Zenon DEF Given, OriginsTell, FilesThere, AllLines
  <1> QED
    BY <1>1, <1>2, Zenon DEF KnownHandler

(* What the tables and bundles give is known. *)
LEMMA FirstKnown ==
    ASSUME Given, FilesThere
    PROVE  /\ \A s : Hits(user, s) # {} => KnownHandler(FirstLine(user, s).handler, AllLines)
           /\ \A s : Hits(system, s) # {} => KnownHandler(FirstLine(system, s).handler, AllLines)
           /\ \A hits \in SUBSET readable :
                 FirstBundle(hits) # NotFound => KnownHandler(FirstBundle(hits).handler, AllLines)
  <1>1. user \in UserFiles \union SystemFiles /\ system \in UserFiles \union SystemFiles
    BY Zenon DEF FilesThere
  <1>2. ASSUME NEW s, Hits(user, s) # {}
        PROVE  KnownHandler(FirstLine(user, s).handler, AllLines)
    BY <1>1, <1>2, LineFound, Zenon DEF KnownHandler, AllLines
  <1>3. ASSUME NEW s, Hits(system, s) # {}
        PROVE  KnownHandler(FirstLine(system, s).handler, AllLines)
    BY <1>1, <1>3, LineFound, Zenon DEF KnownHandler, AllLines
  <1>4. ASSUME NEW hits \in SUBSET readable, FirstBundle(hits) # NotFound
        PROVE  KnownHandler(FirstBundle(hits).handler, AllLines)
    <2>1. hits # {}
      BY <1>4, Zenon DEF FirstBundle
    <2>2. bundles[Min(hits)] \in Range(bundles)
          /\ FirstBundle(hits).handler = bundleHandler(bundles[Min(hits)])
      BY <2>1, BundleFound, Zenon
    <2> QED
      BY <2>2, BundleKnown, Zenon
  <1> QED
    BY <1>2, <1>3, <1>4, Zenon

LEMMA LookupKnown ==
    ASSUME Given, FilesThere, NEW s, lookup(s) # NotFound
    PROVE  KnownHandler(lookup(s).handler, AllLines)
  <1>1. Claiming(s) \in SUBSET readable
    BY Zenon DEF Claiming
  <1> QED
    BY <1>1, FirstKnown, Zenon DEF lookup

LEMMA ApplicationKnown ==
    ASSUME Given, FilesThere, application(request.app) # NotFound
    PROVE  KnownHandler(application(request.app).handler, AllLines)
  <1> DEFINE named == {i \in readable : request.app.selector \in bundles[i].names}
  <1>1. named \in SUBSET readable
    BY Zenon
  <1>2. CASE request.app.by = "path"
    <2>1. application(request.app) = Keep(bundleHandler(request.app.bundle))
      BY <1>2, Zenon DEF application
    <2>2. Keep(bundleHandler(request.app.bundle)).handler = bundleHandler(request.app.bundle)
      BY DEF Keep
    <2> QED
      BY <1>2, <2>1, <2>2, BundleKnown, Zenon
  <1>3. CASE request.app.by # "path"
    <2>1. \/ /\ lookup(request.app.selector) # NotFound
             /\ application(request.app) = lookup(request.app.selector)
          \/ application(request.app) = FirstBundle(named)
      BY <1>3, Zenon DEF application
    <2> HIDE DEF named
    <2> QED
      BY <1>1, <2>1, LookupKnown, FirstKnown, Zenon
  <1> QED
    BY <1>2, <1>3, Zenon

LEMMA FindKnown ==
    ASSUME Given, FilesThere, NEW item, Find(item) # NotFound
    PROVE  /\ KnownHandler(Find(item).handler, AllLines)
           /\ item.type = "bundle" => Find(item).handler.origin = "self"
  <1>1. CASE item.type = "bundle"
    <2> DEFINE h == [bundleHandler(item.bundle) EXCEPT !.origin = "self"]
    <2>1. h.origin = "self" /\ ~h.single
      BY DEF bundleHandler
    <2> HIDE DEF h
    <2>2. Find(item) = Keep(h)
      BY <1>1, Zenon DEF Find, h
    <2>3. Keep(h).handler = h
      BY DEF Keep
    <2>4. \A g \in AllLines : g.origin # "self"
      BY Zenon DEF Given, OriginsTell, FilesThere, AllLines
    <2> QED
      BY <2>1, <2>2, <2>3, <2>4, Zenon DEF KnownHandler
  <1>2. CASE item.type # "bundle"
    <2>1. \E s : Find(item) = lookup(s)
      BY <1>2, Zenon DEF Find
    <2> QED
      BY <1>2, <2>1, LookupKnown, Zenon
  <1> QED
    BY <1>1, <1>2, Zenon

(* Whatever a dangling pointer reads is a handler that is known. *)
LEMMA AnyKnown ==
    ASSUME Given, FilesThere, NEW h \in AnyHandler
    PROVE  KnownHandler(h, AllLines)
  <1>1. CASE h \in AllLines
    BY <1>1, Zenon DEF KnownHandler
  <1>2. CASE h \notin AllLines
    <2>1. PICK b \in Range(bundles) : h = bundleHandler(b)
      BY <1>2, Zenon DEF AnyHandler, AllLines
    <2> QED
      BY <2>1, BundleKnown, Zenon
  <1> QED
    BY <1>1, <1>2, Zenon

-----------------------------------------------------------------------------
(* Launches.                                                               *)

Rising(q) == \A a, b \in DOMAIN q : a < b => q[a] < q[b]

\* A launch has a known handler and a list of items in order, at most one when
\* the handler is `single'.
IsLaunch(l, lines) ==
    /\ l = [handler |-> l.handler, items |-> l.items]
    /\ l.items \in Seq(Nat)
    /\ Rising(l.items)
    /\ KnownHandler(l.handler, lines)
    /\ l.handler.single => Len(l.items) <= 1

\* Two launches share no item, and no handler unless it is `single'.
Apart(l, m) ==
    /\ Range(l.items) \intersect Range(m.items) = {}
    /\ Same(l.handler, m.handler) => l.handler.single

\* The launches L are for the items P.
Grouped(L, P, lines) ==
    /\ L \in Seq(Range(L))
    /\ \A j \in DOMAIN L : IsLaunch(L[j], lines)
    /\ P = UNION {Range(L[j].items) : j \in DOMAIN L}
    /\ \A j, k \in DOMAIN L : j # k => Apart(L[j], L[k])

(* What is appended to a list comes after what the list had. *)
LEMMA AppendIs ==
    ASSUME NEW s, s \in Seq(Range(s)), NEW e
    PROVE  /\ Append(s, e) \in Seq(Range(Append(s, e)))
           /\ Len(s) \in Nat /\ DOMAIN s = 1..Len(s)
           /\ Len(Append(s, e)) = Len(s) + 1
           /\ DOMAIN Append(s, e) = 1..(Len(s) + 1)
           /\ DOMAIN Append(s, e) = DOMAIN s \union {Len(s) + 1}
           /\ Len(s) + 1 \notin DOMAIN s
           /\ \A i \in DOMAIN s : Append(s, e)[i] = s[i]
           /\ Append(s, e)[Len(s) + 1] = e
  <1>1. /\ Len(s) \in Nat /\ DOMAIN s = 1..Len(s)
        /\ Len(Append(s, e)) = Len(s) + 1
        /\ DOMAIN Append(s, e) = 1..(Len(s) + 1)
        /\ \A i \in 1..Len(s) : Append(s, e)[i] = s[i]
        /\ Append(s, e)[Len(s) + 1] = e
    OBVIOUS
  <1>2. ASSUME NEW n \in Nat
        PROVE  1..(n + 1) = 1..n \union {n + 1} /\ n + 1 \notin 1..n /\ n + 1 \in 1..(n + 1)
    OBVIOUS
  <1>3. \A i \in 1..(Len(s) + 1) : Append(s, e)[i] \in Range(Append(s, e))
    BY <1>1, Zenon DEF Range
  <1>4. Append(s, e) \in Seq(Range(s) \union {e})
    <2>1. Range(s) \subseteq Range(s) \union {e}
      OBVIOUS
    <2>2. \A i \in 1..Len(s) : s[i] \in Range(s) \union {e}
      BY <1>1, Zenon DEF Range
    <2> DEFINE T == Range(s) \union {e}
    <2>3. s \in Seq(T) /\ e \in T
      <3>1. e \in T /\ \A i \in 1..Len(s) : s[i] \in T
        BY <2>2, Zenon
      <3> HIDE DEF T
      <3> QED
        BY <1>1, <3>1
    <2> HIDE DEF T
    <2>4. Append(s, e) \in Seq(T)
      BY <2>3
    <2> QED
      BY <2>4, Zenon DEF T
  <1>5. Append(s, e) \in Seq(Range(Append(s, e)))
    <2> DEFINE t == Append(s, e)
               T == Range(s) \union {e}
               U == Range(t)
    <2>1. t \in Seq(T) /\ Len(t) \in Nat /\ \A i \in 1..Len(t) : t[i] \in U
      BY <1>1, <1>3, <1>4
    <2> HIDE DEF t, T, U
    <2>2. t \in Seq(U)
      BY <2>1
    <2> QED
      BY <2>2, Zenon DEF t, U
  <1> QED
    BY <1>1, <1>2, <1>5, Zenon

(* Appending an item after all others keeps a list of items in order. *)
LEMMA JoinRises ==
    ASSUME NEW n \in Nat, NEW q \in Seq(Nat), Rising(q), Range(q) \subseteq 1..n,
           NEW v \in {<<>>, <<n + 1>>}
    PROVE  /\ q \o v \in Seq(Nat)
           /\ Rising(q \o v)
           /\ Range(q \o v) = Range(q) \union Range(v)
  <1>1. Len(q) \in Nat /\ DOMAIN q = 1..Len(q)
    OBVIOUS
  <1>2. CASE v = <<>>
    <2>1. q \o v = q
      BY <1>2
    <2>2. Range(v) = {}
      BY <1>2 DEF Range
    <2> QED
      BY <2>1, <2>2, Zenon
  <1>3. CASE v = <<n + 1>>
    <2> DEFINE w == q \o v
               k == Len(q) + 1
    <2>1. /\ w \in Seq(Nat) /\ Len(w) = k /\ DOMAIN w = 1..k
          /\ w[k] = n + 1
          /\ \A i \in 1..Len(q) : w[i] = q[i]
      BY <1>1, <1>3
    <2>2. DOMAIN v = {1} /\ v[1] = n + 1
      BY <1>3
    <2>3. /\ k \in Nat /\ k \in 1..k
          /\ \A i \in 1..k : i = k \/ i \in 1..Len(q)
          /\ \A i \in 1..Len(q) : i \in 1..k /\ ~(k < i)
      BY <1>1
    <2> HIDE DEF w, k
    <2>4. Range(v) = {n + 1}
      BY <2>2 DEF Range
    <2>5. Range(w) = Range(q) \union {n + 1}
      <3>1. ASSUME NEW x \in Range(w)
            PROVE  x \in Range(q) \union {n + 1}
        <4>1. PICK i \in 1..k : x = w[i]
          BY <2>1, Zenon DEF Range
        <4>2. i = k \/ i \in 1..Len(q)
          BY <2>3, Zenon
        <4> QED
          BY <1>1, <2>1, <4>1, <4>2, Zenon DEF Range
      <3>2. n + 1 \in Range(w)
        BY <2>1, <2>3, Zenon DEF Range
      <3>3. ASSUME NEW x \in Range(q)
            PROVE  x \in Range(w)
        <4>1. PICK i \in 1..Len(q) : x = q[i]
          BY <1>1, Zenon DEF Range
        <4> QED
          BY <2>1, <2>3, <4>1, Zenon DEF Range
      <3> QED
        BY <3>1, <3>2, <3>3, Zenon
    <2>6. \A i \in 1..Len(q) : q[i] \in Nat /\ q[i] < n + 1
      <3>1. \A i \in 1..Len(q) : q[i] \in 1..n
        BY <1>1, Zenon DEF Range
      <3>2. \A x \in 1..n : x \in Nat /\ x < n + 1
        OBVIOUS
      <3> QED
        BY <3>1, <3>2, Zenon
    <2>7. ~(k < k)
      BY <2>3
    <2>8. ASSUME NEW a \in 1..k, NEW b \in 1..k, a < b
          PROVE  w[a] < w[b]
      <3>1. a \in 1..Len(q)
        <4>1. a # k
          BY <2>3, <2>7, <2>8, Zenon
        <4> QED
          BY <2>3, <4>1, Zenon
      <3>2. CASE b = k
        BY <2>1, <2>6, <3>1, <3>2, Zenon
      <3>3. CASE b # k
        <4>1. b \in 1..Len(q)
          BY <2>3, <3>3, Zenon
        <4> QED
          BY <1>1, <2>1, <2>8, <3>1, <4>1, Zenon DEF Rising
      <3> QED
        BY <3>2, <3>3, Zenon
    <2>9. Rising(w)
      BY <2>1, <2>8, Zenon DEF Rising
    <2> QED
      BY <2>1, <2>4, <2>5, <2>9, Zenon DEF w
  <1> QED
    BY <1>2, <1>3, Zenon

\* In the launches M an item is where it was in L, or it is one of the items v
\* that a launch with the command of h was given.
Gives(L, M, h, v) ==
    \A j \in DOMAIN M : \A i \in Range(M[j].items) :
        \/ j \in DOMAIN L /\ i \in Range(L[j].items) /\ M[j].handler = L[j].handler
        \/ i \in Range(v) /\ M[j].handler.command = h.command

(* add() keeps the launches in groups: it gives the next item to a launch of
   the same handler that is not `single', or to a new launch. *)
LEMMA AddKeeps ==
    ASSUME Given, FilesThere, NEW n \in Nat, NEW P \in SUBSET (1..n), Grouped(launches, P, AllLines),
           NEW h, KnownHandler(h, AllLines), NEW v \in {<<>>, <<n + 1>>}
    PROVE  Grouped(Add(h, v), P \union Range(v), AllLines) /\ Gives(launches, Add(h, v), h, v)
  <1> DEFINE L == launches
             hits == {j \in DOMAIN L : Same(L[j].handler, h)}
             new == [handler |-> h, items |-> v]
  <1>1. /\ L \in Seq(Range(L)) /\ Len(L) \in Nat /\ DOMAIN L = 1..Len(L)
        /\ \A j \in DOMAIN L : IsLaunch(L[j], AllLines) /\ Range(L[j].items) \subseteq P
    <2>1. L \in Seq(Range(L))
      BY Zenon DEF Grouped
    <2>2. Len(L) \in Nat /\ DOMAIN L = 1..Len(L)
      BY <2>1
    <2>3. \A j \in DOMAIN L : IsLaunch(L[j], AllLines) /\ Range(L[j].items) \subseteq P
      BY Zenon DEF Grouped
    <2> QED
      BY <2>1, <2>2, <2>3, Zenon
  <1>2. P = UNION {Range(L[j].items) : j \in DOMAIN L}
    BY Zenon DEF Grouped
  <1>3. \A j, k \in DOMAIN L : j # k => Apart(L[j], L[k])
    BY Zenon DEF Grouped
  <1>4. P \intersect Range(v) = {}
    <2>1. CASE v = <<>>
      BY <2>1 DEF Range
    <2>2. CASE v = <<n + 1>>
      <3>1. Range(v) = {n + 1}
        BY <2>2 DEF Range
      <3>2. n + 1 \notin 1..n
        OBVIOUS
      <3> QED
        BY <3>1, <3>2, Zenon
    <2> QED
      BY <2>1, <2>2, Zenon
  <1>5. v \in Seq(Nat) /\ Rising(v) /\ Len(v) <= 1
    <2>1. CASE v = <<>>
      BY <2>1 DEF Rising
    <2>2. CASE v = <<n + 1>>
      BY <2>2 DEF Rising
    <2> QED
      BY <2>1, <2>2, Zenon
  <1>6. CASE h.single \/ hits = {}
    <2> DEFINE M == Append(L, new)
               e == Len(L) + 1
    <2>1. Add(h, v) = M
      BY <1>6, Zenon DEF Add
    <2>2. new.handler = h /\ new.items = v /\ new = [handler |-> new.handler, items |-> new.items]
      OBVIOUS
    <2>3. IsLaunch(new, AllLines)
      BY <1>5, <2>2, Zenon DEF IsLaunch
    <2> HIDE DEF L, new
    <2>4. /\ M \in Seq(Range(M))
          /\ DOMAIN M = DOMAIN L \union {e} /\ e \notin DOMAIN L
          /\ \A i \in DOMAIN L : M[i] = L[i]
          /\ M[e] = new
      BY <1>1, AppendIs, Zenon
    <2> HIDE DEF M, e
    <2>5. \A j \in DOMAIN M : IsLaunch(M[j], AllLines)
      BY <1>1, <2>3, <2>4, Zenon
    <2>6. P \union Range(v) = UNION {Range(M[j].items) : j \in DOMAIN M}
      <3>1. ASSUME NEW x \in P \union Range(v)
            PROVE  \E j \in DOMAIN M : x \in Range(M[j].items)
        BY <1>2, <2>2, <2>4, Zenon
      <3>2. ASSUME NEW j \in DOMAIN M, NEW x \in Range(M[j].items)
            PROVE  x \in P \union Range(v)
        BY <1>1, <2>2, <2>4, Zenon
      <3> QED
        BY <3>1, <3>2, Zenon
    <2>7. ASSUME NEW j \in DOMAIN L
          PROVE  Apart(L[j], new) /\ Apart(new, L[j])
      <3>1. Range(L[j].items) \intersect Range(new.items) = {}
        BY <1>1, <1>4, <2>2, Zenon
      <3>2. ASSUME Same(L[j].handler, h) \/ Same(h, L[j].handler)
            PROVE  h.single /\ L[j].handler.single
        <4>1. Same(L[j].handler, h)
          BY <3>2, Zenon DEF Same
        <4>2. h.single
          BY <1>6, <4>1, Zenon DEF L
        <4>3. KnownHandler(L[j].handler, AllLines)
          BY <1>1, Zenon DEF IsLaunch
        <4> QED
          BY <4>1, <4>2, <4>3, SameSingle, Zenon
      <3> QED
        BY <2>2, <3>1, <3>2, Zenon DEF Apart
    <2>8. \A j, k \in DOMAIN M : j # k => Apart(M[j], M[k])
      BY <1>3, <2>4, <2>7, Zenon
    <2>9. Grouped(M, P \union Range(v), AllLines)
      BY <2>4, <2>5, <2>6, <2>8, Zenon DEF Grouped
    <2>10. Gives(L, M, h, v)
      <3> SUFFICES ASSUME NEW j \in DOMAIN M, NEW i \in Range(M[j].items)
                   PROVE  \/ j \in DOMAIN L /\ i \in Range(L[j].items) /\ M[j].handler = L[j].handler
                          \/ i \in Range(v) /\ M[j].handler.command = h.command
        BY Zenon DEF Gives
      <3> QED
        BY <2>2, <2>4, Zenon
    <2> QED
      BY <2>1, <2>9, <2>10, Zenon DEF L
  <1>7. CASE ~h.single /\ hits # {}
    <2> DEFINE m == Min(hits)
               old == L[m]
               with == [old EXCEPT !.items = @ \o v]
               M == [L EXCEPT ![m].items = @ \o v]
    <2>1. Add(h, v) = M
      BY <1>7, Zenon DEF Add
    <2>2. m \in DOMAIN L /\ Same(L[m].handler, h)
      <3>1. hits \subseteq Nat
        BY <1>1
      <3>2. m \in hits
        <4> HIDE DEF hits
        <4> QED
          BY <1>7, <3>1, Smallest, Zenon
      <3> HIDE DEF m
      <3> QED
        BY <3>2, Zenon
    <2> HIDE DEF L, hits, m
    <2>3. M = [L EXCEPT ![m] = with]
      BY <1>1, <2>2
    <2>4. DOMAIN M = DOMAIN L /\ M[m] = with /\ \A j \in DOMAIN L : j # m => M[j] = L[j]
      BY <1>1, <2>2, <2>3, Zenon
    <2>5. M \in Seq(Range(M))
      <3>1. Range(M) = {M[i] : i \in DOMAIN M}
        BY Zenon DEF Range
      <3>2. M = [i \in 1..Len(L) |-> M[i]]
        BY <1>1, <2>3, Zenon
      <3> HIDE DEF M
      <3> QED
        BY <1>1, <2>4, <3>1, <3>2
    <2> HIDE DEF M
    <2>6. IsLaunch(old, AllLines) /\ KnownHandler(old.handler, AllLines) /\ Range(old.items) \subseteq P
      BY <1>1, <2>2, Zenon DEF IsLaunch
    <2>7. ~old.handler.single
      BY <1>7, <2>2, <2>6, SameSingle, Zenon
    <2>8. /\ with.handler = old.handler /\ with.items = old.items \o v
          /\ with = [handler |-> with.handler, items |-> with.items]
      <3>1. old = [handler |-> old.handler, items |-> old.items]
        BY <2>6, Zenon DEF IsLaunch
      <3> HIDE DEF old
      <3>2. ASSUME NEW o, NEW a, NEW b, NEW q, o = [handler |-> a, items |-> b]
            PROVE  [o EXCEPT !.items = q] = [handler |-> a, items |-> q]
        BY <3>2
      <3>3. with = [handler |-> old.handler, items |-> old.items \o v]
        BY <3>1, <3>2, Zenon
      <3> HIDE DEF with
      <3> QED
        BY <3>3
    <2> HIDE DEF with, old
    <2>9. /\ with.items \in Seq(Nat)
          /\ Rising(with.items)
          /\ Range(with.items) = Range(old.items) \union Range(v)
      <3>1. old.items \in Seq(Nat) /\ Rising(old.items) /\ Range(old.items) \subseteq 1..n
        BY <2>6, Zenon DEF IsLaunch
      <3> QED
        BY <2>8, <3>1, JoinRises, Zenon
    <2>10. IsLaunch(with, AllLines)
      BY <2>6, <2>7, <2>8, <2>9, Zenon DEF IsLaunch
    <2>11. \A j \in DOMAIN M : IsLaunch(M[j], AllLines)
      BY <1>1, <2>4, <2>10, Zenon
    <2>12. P \union Range(v) = UNION {Range(M[j].items) : j \in DOMAIN M}
      <3>1. ASSUME NEW x \in P \union Range(v)
            PROVE  \E j \in DOMAIN M : x \in Range(M[j].items)
        <4>1. CASE x \in Range(v)
          BY <2>2, <2>4, <2>9, <4>1, Zenon
        <4>2. CASE x \notin Range(v)
          <5>1. PICK j \in DOMAIN L : x \in Range(L[j].items)
            BY <1>2, <4>2, Zenon
          <5> QED
            BY <2>2, <2>4, <2>9, <5>1, Zenon DEF old
        <4> QED
          BY <4>1, <4>2, Zenon
      <3>2. ASSUME NEW j \in DOMAIN M, NEW x \in Range(M[j].items)
            PROVE  x \in P \union Range(v)
        BY <1>1, <2>4, <2>6, <2>9, Zenon
      <3> QED
        BY <3>1, <3>2, Zenon
    <2>13. ASSUME NEW j \in DOMAIN L, j # m
           PROVE  Apart(L[j], with) /\ Apart(with, L[j])
      <3>1. Apart(L[j], old) /\ Apart(old, L[j])
        BY <1>3, <2>2, <2>13, Zenon DEF old
      <3>2. Range(L[j].items) \intersect Range(with.items) = {}
        BY <1>1, <1>4, <2>9, <3>1, Zenon DEF Apart
      <3> QED
        BY <2>8, <3>1, <3>2, Zenon DEF Apart
    <2>14. \A j, k \in DOMAIN M : j # k => Apart(M[j], M[k])
      <3> TAKE j, k \in DOMAIN M
      <3>1. j \in DOMAIN L /\ k \in DOMAIN L
        BY <2>4, Zenon
      <3>2. CASE j = m
        BY <2>4, <2>13, <3>1, <3>2, Zenon
      <3>3. CASE k = m
        BY <2>4, <2>13, <3>1, <3>3, Zenon
      <3>4. CASE j # m /\ k # m
        BY <1>3, <2>4, <3>1, <3>4, Zenon
      <3> QED
        BY <3>2, <3>3, <3>4, Zenon
    <2>15. Grouped(M, P \union Range(v), AllLines)
      BY <2>5, <2>11, <2>12, <2>14, Zenon DEF Grouped
    <2>16. Gives(L, M, h, v)
      <3> SUFFICES ASSUME NEW j \in DOMAIN M, NEW i \in Range(M[j].items)
                   PROVE  \/ j \in DOMAIN L /\ i \in Range(L[j].items) /\ M[j].handler = L[j].handler
                          \/ i \in Range(v) /\ M[j].handler.command = h.command
        BY Zenon DEF Gives
      <3>1. old.handler.command = h.command /\ old = L[m]
        BY <2>2, Zenon DEF Same, old
      <3> QED
        BY <2>4, <2>8, <2>9, <3>1, Zenon
    <2> QED
      BY <2>1, <2>15, <2>16, Zenon DEF L
  <1> QED
    BY <1>6, <1>7, Zenon

-----------------------------------------------------------------------------
(* The state of a request.                                                 *)

IsList(s) == s \in Seq(Range(s))

\* The items among the first n that are to be passed to a handler.
PassedOf(list, n) == {i \in 1..n : list[i].passed}

ResolveTypes ==
    /\ FilesThere
    /\ IsList(items) /\ IsList(resolved)
    /\ added \in 0..Len(resolved)
    /\ \A i \in DOMAIN resolved : KnownHandler(resolved[i].pointer.handler, AllLines)

\* How far serve() is: the launches are made from what is resolved, when all is.
Stages ==
    /\ place \in {"start", "resolve", "group", "launch", "refused", "crashed"}
    /\ place = "start" => resolved = <<>> /\ added = 0 /\ launches = <<>>
    /\ place = "resolve" =>
          /\ added = 0 /\ launches = <<>>
          /\ Len(resolved) <= Len(items)
          /\ request.app.by # "none" => resolved = <<>>
    /\ place \in {"group", "launch"} => Len(resolved) = Len(items)
    /\ place = "launch" => added = Len(resolved)

GroupsKept == Grouped(launches, PassedOf(resolved, added), AllLines)

ResolveInvariant == ResolveTypes /\ Stages /\ GroupsKept

(* Without items there is nothing to pass. *)
LEMMA NothingGrouped ==
    ASSUME NEW lines
    PROVE  /\ Grouped(<<>>, {}, lines)
           /\ \A h : KnownHandler(h, lines) =>
                Grouped(<<[handler |-> h, items |-> <<>>]>>, {}, lines)
           /\ \A list : PassedOf(list, 0) = {}
  <1>1. <<>> \in Seq(Range(<<>>)) /\ DOMAIN <<>> = {}
    OBVIOUS
  <1>2. Grouped(<<>>, {}, lines)
    <2> DEFINE L == <<>>
    <2>1. L \in Seq(Range(L)) /\ DOMAIN L = {}
      BY <1>1
    <2> HIDE DEF L
    <2>2. Grouped(L, {}, lines)
      BY <2>1, Zenon DEF Grouped
    <2> QED
      BY <2>2 DEF L
  <1>3. ASSUME NEW h, KnownHandler(h, lines)
        PROVE  Grouped(<<[handler |-> h, items |-> <<>>]>>, {}, lines)
    <2> DEFINE l == [handler |-> h, items |-> <<>>]
               L == <<l>>
    <2>1. l.handler = h /\ l.items = <<>> /\ l = [handler |-> l.handler, items |-> l.items]
      OBVIOUS
    <2>2. <<>> \in Seq(Nat) /\ Rising(<<>>) /\ Len(<<>>) <= 1 /\ Range(<<>>) = {}
      BY DEF Rising, Range
    <2> HIDE DEF l
    <2>3. IsLaunch(l, lines)
      BY <1>3, <2>1, <2>2, Zenon DEF IsLaunch
    <2>4. DOMAIN L = {1} /\ L[1] = l /\ L \in Seq({l})
      OBVIOUS
    <2> HIDE DEF L
    <2>5. Range(L) = {l}
      BY <2>4 DEF Range
    <2>6. Grouped(L, {}, lines)
      BY <2>1, <2>2, <2>3, <2>4, <2>5, Zenon DEF Grouped
    <2> QED
      BY <2>6, Zenon DEF L, l
  <1>4. \A list : PassedOf(list, 0) = {}
    BY DEF PassedOf
  <1> QED
    BY <1>2, <1>3, <1>4, Zenon

LEMMA ResolveInit == Given /\ Init => ResolveInvariant
  <1> SUFFICES ASSUME Given, Init
               PROVE  ResolveInvariant
    OBVIOUS
  <1>1. IsList(<<>>) /\ Len(<<>>) = 0 /\ DOMAIN <<>> = {} /\ 0 \in 0..0
    BY DEF IsList
  <1>2. ResolveTypes
    BY <1>1, Zenon DEF Init, ResolveTypes, FilesThere
  <1>3. Stages
    BY Zenon DEF Init, Stages
  <1>4. GroupsKept
    BY NothingGrouped, Zenon DEF Init, GroupsKept
  <1> QED
    BY <1>2, <1>3, <1>4, Zenon DEF ResolveInvariant

(* The files and the request stay as they are. *)
LEMMA FilesStay ==
    ASSUME UNCHANGED files
    PROVE  /\ UNCHANGED <<user, system, bundles, request>>
           /\ AllLines' = AllLines
           /\ FilesThere => FilesThere'
  <1>1. UNCHANGED <<user, system, bundles, request>>
    BY Zenon DEF files
  <1> QED
    BY <1>1, Zenon DEF AllLines, FilesThere

(* A step that only moves on keeps what is resolved and launched. *)
LEMMA MovesOn ==
    ASSUME ResolveInvariant, UNCHANGED <<files, items, resolved, added, launches>>
    PROVE  ResolveTypes' /\ GroupsKept'
  <1>1. AllLines' = AllLines /\ FilesThere'
    BY FilesStay, Zenon DEF ResolveInvariant, ResolveTypes
  <1>2. UNCHANGED <<items, resolved, added, launches>>
    BY Zenon
  <1> QED
    BY <1>1, <1>2, Zenon DEF ResolveInvariant, ResolveTypes, GroupsKept

LEMMA PrepareKeeps ==
    ASSUME Given, ResolveInvariant, Prepare
    PROVE  ResolveInvariant'
  <1>1. /\ place = "start"
        /\ UNCHANGED <<files, resolved, added, launches>>
        /\ \/ place' = "refused" /\ UNCHANGED items
           \/ /\ place' = "resolve"
              /\ items' = request.items \/ items' = Folders(request.items)
    BY Zenon DEF Prepare
  <1>2. UNCHANGED <<user, system, bundles, request>> /\ AllLines' = AllLines /\ FilesThere'
    BY <1>1, FilesStay, Zenon DEF ResolveInvariant, ResolveTypes
  <1>3. resolved = <<>> /\ added = 0 /\ launches = <<>>
    BY <1>1, Zenon DEF ResolveInvariant, Stages
  <1>4. IsList(request.items)
    BY Zenon DEF Given, RequestsAreRead, IsList, ResolveInvariant, ResolveTypes, FilesThere
  <1>5. IsList(Folders(request.items))
    <2>1. Folders(request.items) \in Seq({item.folder : item \in Range(request.items)})
      BY <1>4, FoldersAre, Zenon DEF IsList
    <2>2. ASSUME NEW S, NEW s \in Seq(S)
          PROVE  s \in Seq(Range(s))
      <3>1. Len(s) \in Nat /\ DOMAIN s = 1..Len(s)
        OBVIOUS
      <3>2. \A i \in 1..Len(s) : s[i] \in Range(s)
        BY <3>1, Zenon DEF Range
      <3> QED
        BY <3>1, <3>2
    <2> QED
      BY <2>1, <2>2, Zenon DEF IsList
  <1>6. IsList(items')
    BY <1>1, <1>4, <1>5, Zenon DEF ResolveInvariant, ResolveTypes
  <1>7. ResolveTypes'
    BY <1>1, <1>2, <1>6, Zenon DEF ResolveInvariant, ResolveTypes
  <1>8. Stages'
    <2>1. Len(items') \in Nat /\ Len(<<>>) = 0
      BY <1>6 DEF IsList
    <2>2. Len(<<>>) <= Len(items')
      BY <2>1
    <2>3. CASE place' = "refused"
      BY <2>3, Zenon DEF Stages
    <2>4. CASE place' = "resolve"
      BY <1>1, <1>3, <2>2, <2>4, Zenon DEF Stages
    <2> QED
      BY <1>1, <2>3, <2>4, Zenon
  <1>9. GroupsKept'
    BY <1>1, <1>2, Zenon DEF ResolveInvariant, GroupsKept
  <1> QED
    BY <1>7, <1>8, <1>9, Zenon DEF ResolveInvariant

(* A pointer leads to what was found. *)
LEMMA PointerIs ==
    ASSUME NEW found
    PROVE  Pointer(found).handler = found.handler
  BY DEF Pointer

LEMMA ResolveApplicationKeeps ==
    ASSUME Given, ResolveInvariant, ResolveApplication
    PROVE  ResolveInvariant'
  <1> DEFINE found == application(request.app)
             r == [pointer |-> Pointer(found), passed |-> TRUE]
  <1>1. place = "resolve" /\ UNCHANGED <<files, items, added>>
    BY Zenon DEF ResolveApplication
  <1>2. UNCHANGED <<user, system, bundles, request>> /\ AllLines' = AllLines /\ FilesThere'
    BY <1>1, FilesStay, Zenon DEF ResolveInvariant, ResolveTypes
  <1>3. added = 0 /\ launches = <<>>
    BY <1>1, Zenon DEF ResolveInvariant, Stages
  <1>4. CASE found = NotFound
    <2>1. place' = "refused" /\ UNCHANGED <<resolved, launches>>
      BY <1>4, Zenon DEF ResolveApplication
    <2>2. ResolveTypes' /\ GroupsKept'
      BY <1>1, <2>1, MovesOn, Zenon
    <2>3. Stages'
      BY <2>1, Zenon DEF Stages
    <2> QED
      BY <2>2, <2>3, Zenon DEF ResolveInvariant
  <1>5. CASE found # NotFound
    <2>1. /\ place' = "group"
          /\ resolved' = [i \in DOMAIN items |-> r]
          /\ launches' = IF items = <<>> THEN <<[handler |-> found.handler, items |-> <<>>]>>
                         ELSE <<>>
      BY <1>5, Zenon DEF ResolveApplication
    <2>2. KnownHandler(found.handler, AllLines)
      BY <1>5, ApplicationKnown, Zenon DEF ResolveInvariant, ResolveTypes
    <2>3. r.pointer.handler = found.handler
      <3>1. r.pointer = Pointer(found)
        OBVIOUS
      <3> QED
        BY <3>1, PointerIs, Zenon
    <2> HIDE DEF r, found
    <2>4. Len(items) \in Nat /\ DOMAIN items = 1..Len(items)
      BY DEF ResolveInvariant, ResolveTypes, IsList
    <2>5. /\ IsList(resolved') /\ Len(resolved') = Len(items) /\ DOMAIN resolved' = DOMAIN items
          /\ \A i \in DOMAIN items : resolved'[i] = r
      <3> DEFINE n == Len(items)
                 s == [i \in 1..n |-> r]
      <3>1. resolved' = s /\ n \in Nat
        BY <2>1, <2>4, Zenon
      <3> HIDE DEF n
      <3>2. s \in Seq({r}) /\ Len(s) = n /\ DOMAIN s = 1..n /\ \A i \in 1..n : s[i] = r
        BY <3>1
      <3> HIDE DEF s
      <3>3. s \in Seq(Range(s))
        <4>1. \A i \in 1..n : s[i] \in Range(s)
          BY <3>2, Zenon DEF Range
        <4> QED
          BY <3>1, <3>2, <4>1
      <3> QED
        BY <2>4, <3>1, <3>2, <3>3, Zenon DEF IsList, n
    <2>6. ResolveTypes'
      <3>1. added' \in 0..Len(resolved')
        <4>1. 0 \in 0..Len(items)
          BY <2>4
        <4> QED
          BY <1>1, <1>3, <2>5, <4>1, Zenon
      <3>2. IsList(items')
        BY <1>1, Zenon DEF ResolveInvariant, ResolveTypes
      <3>3. \A i \in DOMAIN resolved' : KnownHandler(resolved'[i].pointer.handler, AllLines')
        BY <1>2, <2>2, <2>3, <2>5, Zenon
      <3> QED
        BY <1>2, <2>5, <3>1, <3>2, <3>3, Zenon DEF ResolveTypes
    <2>7. Stages'
      BY <1>1, <2>1, <2>5, Zenon DEF Stages
    <2>8. GroupsKept'
      <3>1. PassedOf(resolved', added') = {}
        BY <1>1, <1>3, NothingGrouped, Zenon
      <3>2. Grouped(launches', {}, AllLines)
        BY <2>1, <2>2, NothingGrouped, Zenon
      <3> QED
        BY <1>2, <3>1, <3>2, Zenon DEF GroupsKept
    <2> QED
      BY <2>6, <2>7, <2>8, Zenon DEF ResolveInvariant
  <1> QED
    BY <1>4, <1>5, Zenon

LEMMA ResolveItemKeeps ==
    ASSUME Given, ResolveInvariant, ResolveItem
    PROVE  ResolveInvariant'
  <1> DEFINE found == Find(items[Len(resolved) + 1])
             r == [pointer |-> Pointer(found), passed |-> found.handler.origin # "self"]
  <1>1. /\ place = "resolve" /\ request.app.by = "none"
        /\ Len(resolved) < Len(items)
        /\ UNCHANGED <<files, items, added, launches>>
    BY Zenon DEF ResolveItem
  <1>2. UNCHANGED <<user, system, bundles, request>> /\ AllLines' = AllLines /\ FilesThere'
    BY <1>1, FilesStay, Zenon DEF ResolveInvariant, ResolveTypes
  <1>3. added = 0 /\ launches = <<>>
    BY <1>1, Zenon DEF ResolveInvariant, Stages
  <1>4. CASE found = NotFound
    <2>1. place' = "refused" /\ UNCHANGED resolved
      BY <1>4, Zenon DEF ResolveItem
    <2>2. ResolveTypes' /\ GroupsKept'
      BY <1>1, <2>1, MovesOn, Zenon
    <2>3. Stages'
      BY <2>1, Zenon DEF Stages
    <2> QED
      BY <2>2, <2>3, Zenon DEF ResolveInvariant
  <1>5. CASE found # NotFound
    <2>1. place' = place /\ resolved' = Append(resolved, r)
      BY <1>5, Zenon DEF ResolveItem
    <2>2. KnownHandler(found.handler, AllLines)
      BY <1>5, FindKnown, Zenon DEF ResolveInvariant, ResolveTypes
    <2>3. r.pointer.handler = found.handler
      <3>1. r.pointer = Pointer(found)
        OBVIOUS
      <3> QED
        BY <3>1, PointerIs, Zenon
    <2> HIDE DEF r, found
    <2>4. Len(items) \in Nat
      BY DEF ResolveInvariant, ResolveTypes, IsList
    <2> DEFINE e == Len(resolved) + 1
    <2>5. /\ IsList(resolved') /\ Len(resolved') = Len(resolved) + 1 /\ Len(resolved) \in Nat
          /\ DOMAIN resolved' = DOMAIN resolved \union {e}
          /\ \A i \in DOMAIN resolved : resolved'[i] = resolved[i]
          /\ resolved'[e] = r
      <3>1. resolved \in Seq(Range(resolved))
        BY Zenon DEF IsList, ResolveInvariant, ResolveTypes
      <3>2. /\ Append(resolved, r) \in Seq(Range(Append(resolved, r)))
            /\ Len(Append(resolved, r)) = Len(resolved) + 1 /\ Len(resolved) \in Nat
            /\ DOMAIN Append(resolved, r) = DOMAIN resolved \union {e}
            /\ \A i \in DOMAIN resolved : Append(resolved, r)[i] = resolved[i]
            /\ Append(resolved, r)[e] = r
        BY <3>1, AppendIs, Zenon
      <3> QED
        BY <2>1, <3>2, Zenon DEF IsList
    <2> HIDE DEF e
    <2>6. ResolveTypes'
      <3>1. added' \in 0..Len(resolved')
        <4>1. 0 \in 0..(Len(resolved) + 1)
          BY <2>5
        <4> QED
          BY <1>1, <1>3, <2>5, <4>1, Zenon
      <3>2. IsList(items')
        BY <1>1, Zenon DEF ResolveInvariant, ResolveTypes
      <3>3. \A i \in DOMAIN resolved' : KnownHandler(resolved'[i].pointer.handler, AllLines')
        BY <1>2, <2>2, <2>3, <2>5, Zenon DEF ResolveInvariant, ResolveTypes
      <3> QED
        BY <1>2, <2>5, <3>1, <3>2, <3>3, Zenon DEF ResolveTypes
    <2>7. Stages'
      <3>1. Len(resolved') <= Len(items')
        <4>1. Len(resolved) + 1 <= Len(items)
          BY <1>1, <2>4, <2>5
        <4> QED
          BY <1>1, <2>5, <4>1, Zenon
      <3> QED
        BY <1>1, <1>2, <1>3, <2>1, <3>1, Zenon DEF Stages
    <2>8. GroupsKept'
      <3>1. PassedOf(resolved', added') = {} /\ PassedOf(resolved, added) = {}
        BY <1>1, <1>3, NothingGrouped, Zenon
      <3> QED
        BY <1>1, <1>2, <3>1, Zenon DEF GroupsKept, ResolveInvariant
    <2> QED
      BY <2>6, <2>7, <2>8, Zenon DEF ResolveInvariant
  <1> QED
    BY <1>4, <1>5, Zenon

LEMMA AddItemKeeps ==
    ASSUME Given, ResolveInvariant, AddItem
    PROVE  ResolveInvariant'
  <1> DEFINE r == resolved[added + 1]
             v == IF r.passed THEN <<added + 1>> ELSE <<>>
  <1>1. place = "group" /\ added < Len(resolved) /\ UNCHANGED <<files, items, resolved>>
    BY Zenon DEF AddItem
  <1>2. UNCHANGED <<user, system, bundles, request>> /\ AllLines' = AllLines /\ FilesThere'
    BY <1>1, FilesStay, Zenon DEF ResolveInvariant, ResolveTypes
  <1>3. /\ Len(resolved) \in Nat /\ added \in Nat /\ DOMAIN resolved = 1..Len(resolved)
        /\ added + 1 \in DOMAIN resolved /\ added + 1 \in 0..Len(resolved)
    BY <1>1 DEF ResolveInvariant, ResolveTypes, IsList
  <1>4. CASE place' = "crashed" /\ UNCHANGED <<added, launches>>
    <2>1. ResolveTypes' /\ GroupsKept'
      BY <1>1, <1>4, MovesOn, Zenon
    <2>2. Stages'
      BY <1>4, Zenon DEF Stages
    <2> QED
      BY <2>1, <2>2, Zenon DEF ResolveInvariant
  <1>5. ASSUME NEW h, launches' = Add(h, v), added' = added + 1, place' = place,
               h \in AnyHandler \/ h = r.pointer.handler
        PROVE  ResolveInvariant'
    <2>1. KnownHandler(h, AllLines)
      BY <1>3, <1>5, AnyKnown, Zenon DEF ResolveInvariant, ResolveTypes
    <2>2. v \in {<<>>, <<added + 1>>}
      BY Zenon
    <2>3. PassedOf(resolved, added) \in SUBSET (1..added)
      BY Zenon DEF PassedOf
    <2>4. PassedOf(resolved, added + 1) = PassedOf(resolved, added) \union Range(v)
      <3>1. 1..(added + 1) = 1..added \union {added + 1}
        BY <1>3
      <3>2. Range(v) = IF r.passed THEN {added + 1} ELSE {}
        BY DEF Range
      <3> HIDE DEF v
      <3> QED
        BY <3>1, <3>2, Zenon DEF PassedOf
    <2> HIDE DEF v
    <2>5. Grouped(launches', PassedOf(resolved, added + 1), AllLines)
      BY <1>3, <1>5, <2>1, <2>2, <2>3, <2>4, AddKeeps, Zenon
           DEF ResolveInvariant, ResolveTypes, GroupsKept
    <2>6. GroupsKept'
      BY <1>1, <1>2, <1>5, <2>5, Zenon DEF GroupsKept
    <2>7. ResolveTypes'
      BY <1>1, <1>2, <1>3, <1>5, Zenon DEF ResolveInvariant, ResolveTypes
    <2>8. Stages'
      BY <1>1, <1>5, Zenon DEF ResolveInvariant, Stages
    <2> QED
      BY <2>6, <2>7, <2>8, Zenon DEF ResolveInvariant
  <1> QED
    <2>1. \/ \E h : /\ launches' = Add(h, v) /\ added' = added + 1 /\ place' = place
                    /\ h \in AnyHandler \/ h = r.pointer.handler
          \/ place' = "crashed" /\ UNCHANGED <<added, launches>>
      BY Zenon DEF AddItem
    <2> HIDE DEF v, r
    <2> QED
      BY <1>4, <1>5, <2>1, Zenon

(* The invariant is inductive. *)
LEMMA ResolveStep ==
    ASSUME Given, ResolveInvariant, [Next]_vars
    PROVE  ResolveInvariant'
  <1>1. ASSUME UNCHANGED vars
        PROVE  ResolveInvariant'
    <2>1. UNCHANGED <<files, items, resolved, added, launches>> /\ UNCHANGED <<place, request>>
      BY <1>1, Zenon DEF vars, files
    <2>2. ResolveTypes' /\ GroupsKept'
      BY <2>1, MovesOn, Zenon
    <2>3. Stages'
      BY <2>1, Zenon DEF ResolveInvariant, Stages
    <2> QED
      BY <2>2, <2>3, Zenon DEF ResolveInvariant
  <1>2. ASSUME NothingToOpen
        PROVE  ResolveInvariant'
    <2>1. place' = "refused" /\ UNCHANGED <<files, items, resolved, added, launches>>
      BY <1>2, Zenon DEF NothingToOpen
    <2>2. ResolveTypes' /\ GroupsKept'
      BY <2>1, MovesOn, Zenon
    <2>3. Stages'
      BY <2>1, Zenon DEF Stages
    <2> QED
      BY <2>2, <2>3, Zenon DEF ResolveInvariant
  <1>3. ASSUME Resolved \/ Done
        PROVE  ResolveInvariant'
    <2>1. UNCHANGED <<files, items, resolved, added, launches>>
      BY <1>3, Zenon DEF Resolved, Done
    <2>2. ResolveTypes' /\ GroupsKept'
      BY <2>1, MovesOn, Zenon
    <2>3. CASE Resolved
      <3>1. place' = "group" /\ Len(resolved) = Len(items)
        BY <2>3, Zenon DEF Resolved
      <3>2. Stages'
        BY <2>1, <3>1, Zenon DEF Stages
      <3> QED
        BY <2>2, <3>2, Zenon DEF ResolveInvariant
    <2>4. CASE Done
      <3>1. place' = "launch" /\ place = "group" /\ added = Len(resolved)
        BY <2>4, Zenon DEF Done
      <3>2. Len(resolved) = Len(items)
        BY <3>1, Zenon DEF ResolveInvariant, Stages
      <3>3. Stages'
        BY <2>1, <3>1, <3>2, Zenon DEF Stages
      <3> QED
        BY <2>2, <3>3, Zenon DEF ResolveInvariant
    <2> QED
      BY <1>3, <2>3, <2>4, Zenon
  <1> QED
    BY <1>1, <1>2, <1>3, PrepareKeeps, ResolveApplicationKeeps, ResolveItemKeeps, AddItemKeeps, Zenon
       DEF Next

(* Every item that is passed on goes to exactly one launch, in order, and the
   launches of a handler are one, or one for each item (EachItemOnce). *)
LEMMA GroupsAreOnce ==
    ASSUME ResolveInvariant
    PROVE  EachItemOnce
  <1> SUFFICES ASSUME place = "launch"
               PROVE  EachItemOnce
    BY Zenon DEF EachItemOnce
  <1> DEFINE passed == {i \in DOMAIN items : resolved[i].passed}
  <1>1. Len(resolved) = Len(items) /\ added = Len(resolved)
    BY Zenon DEF ResolveInvariant, Stages
  <1>2. DOMAIN items = 1..added
    <2>1. DOMAIN items = 1..Len(items)
      BY DEF ResolveInvariant, ResolveTypes, IsList
    <2> QED
      BY <1>1, <2>1, Zenon
  <1>3. passed = PassedOf(resolved, added)
    BY <1>2, Zenon DEF PassedOf
  <1>4. Grouped(launches, passed, AllLines)
    BY <1>3, Zenon DEF ResolveInvariant, GroupsKept
  <1> HIDE DEF passed
  <1>5. passed = UNION {Range(launches[j].items) : j \in DOMAIN launches}
    BY <1>4, Zenon DEF Grouped
  <1>6. \A j \in DOMAIN launches : \A a, b \in DOMAIN launches[j].items :
           a < b => launches[j].items[a] < launches[j].items[b]
    BY <1>4, Zenon DEF Grouped, IsLaunch, Rising
  <1>7. \A j, k \in DOMAIN launches : j # k =>
           /\ Range(launches[j].items) \intersect Range(launches[k].items) = {}
           /\ Same(launches[j].handler, launches[k].handler) => launches[j].handler.single
    BY <1>4, Zenon DEF Grouped, Apart
  <1>8. \A j \in DOMAIN launches : launches[j].handler.single => Len(launches[j].items) <= 1
    BY <1>4, Zenon DEF Grouped, IsLaunch
  <1> QED
    BY <1>5, <1>6, <1>7, <1>8, Zenon DEF EachItemOnce, passed

-----------------------------------------------------------------------------
(* The first match.                                                        *)

\* The selectors that fit an item as well as n or better, best first, and no
\* others.
InOrder(item, list, n) ==
    /\ list \in Seq(Range(list))
    /\ \A i \in DOMAIN list : Fit(item, list[i]) \in 1..n
    /\ \A i, j \in DOMAIN list : i < j => Fit(item, list[i]) < Fit(item, list[j])
    /\ \A s : Fit(item, s) \in 1..n => \E i \in DOMAIN list : list[i] = s

(* The next best selector comes after those that fit better. *)
LEMMA NextFit ==
    ASSUME NEW item, NEW p, NEW n \in Nat, InOrder(item, p, n), NEW q,
           \/ q = <<>> /\ \A s : Fit(item, s) # n + 1
           \/ \E x : q = <<x>> /\ \A s : Fit(item, s) = n + 1 <=> s = x
    PROVE  InOrder(item, p \o q, n + 1)
  <1>1. p \in Seq(Range(p))
    BY Zenon DEF InOrder
  <1>2. \A k \in 1..(n + 1) : k = n + 1 \/ k \in 1..n
    OBVIOUS
  <1>3. \A k \in 1..n : k \in 1..(n + 1) /\ k < n + 1
    OBVIOUS
  <1>4. CASE q = <<>> /\ \A s : Fit(item, s) # n + 1
    <2>1. p \o q = p
      BY <1>1, <1>4
    <2>2. InOrder(item, p, n + 1)
      BY <1>2, <1>3, <1>4, Zenon DEF InOrder
    <2> QED
      BY <2>1, <2>2, Zenon
  <1>5. ASSUME NEW x, q = <<x>>, \A s : Fit(item, s) = n + 1 <=> s = x
        PROVE  InOrder(item, p \o q, n + 1)
    <2> DEFINE w == Append(p, x)
               e == Len(p) + 1
    <2>1. p \o q = w
      <3> DEFINE S == Range(p) \union {x}
      <3>1. p \in Seq(S) /\ x \in S
        <4>1. x \in S /\ \A i \in 1..Len(p) : p[i] \in S
          BY <1>1, AppendIs, Zenon DEF Range
        <4> HIDE DEF S
        <4> QED
          BY <1>1, <4>1
      <3> HIDE DEF S
      <3> QED
        BY <1>5, <3>1
    <2>2. /\ w \in Seq(Range(w)) /\ Len(p) \in Nat /\ DOMAIN p = 1..Len(p)
          /\ DOMAIN w = DOMAIN p \union {e} /\ e \notin DOMAIN p
          /\ \A i \in DOMAIN p : w[i] = p[i]
          /\ w[e] = x
      BY <1>1, AppendIs, Zenon
    <2>3. ~(e < e) /\ \A i \in DOMAIN p : ~(e < i)
      BY <2>2
    <2> HIDE DEF w, e
    <2>4. Fit(item, x) = n + 1 /\ n + 1 \in 1..(n + 1)
      BY <1>5
    <2>5. \A i \in DOMAIN w : Fit(item, w[i]) \in 1..(n + 1)
      BY <1>3, <2>2, <2>4, Zenon DEF InOrder
    <2>6. ASSUME NEW i \in DOMAIN w, NEW j \in DOMAIN w, i < j
          PROVE  Fit(item, w[i]) < Fit(item, w[j])
      <3>1. i \in DOMAIN p
        BY <2>2, <2>3, <2>6, Zenon
      <3>2. CASE j = e
        BY <1>3, <2>2, <2>4, <3>1, <3>2, Zenon DEF InOrder
      <3>3. CASE j # e
        <4>1. j \in DOMAIN p
          BY <2>2, <3>3, Zenon
        <4> QED
          BY <2>2, <2>6, <3>1, <4>1, Zenon DEF InOrder
      <3> QED
        BY <3>2, <3>3, Zenon
    <2>7. ASSUME NEW s, Fit(item, s) \in 1..(n + 1)
          PROVE  \E i \in DOMAIN w : w[i] = s
      <3>1. CASE Fit(item, s) = n + 1
        BY <1>5, <2>2, <3>1, Zenon
      <3>2. CASE Fit(item, s) \in 1..n
        BY <2>2, <3>2, Zenon DEF InOrder
      <3> QED
        BY <1>2, <2>7, <3>1, <3>2, Zenon
    <2>8. InOrder(item, w, n + 1)
      BY <2>2, <2>5, <2>6, <2>7, Zenon DEF InOrder
    <2> QED
      BY <2>1, <2>8, Zenon
  <1> QED
    BY <1>4, <1>5, Zenon

(* Resolver::item looks the selectors up in the documented order. *)
LEMMA FitOrder ==
    ASSUME NEW item, IsItem(item), item.type # "bundle"
    PROVE  InOrder(item, Selectors(item), 4)
  <1>5. ASSUME NEW x, Fit(item, x) = 1, \A s : Fit(item, s) # 0 => s = x
        PROVE  InOrder(item, <<x>>, 4)
    <2> DEFINE l == <<x>>
    <2>1. l \in Seq({x}) /\ DOMAIN l = {1} /\ l[1] = x
      OBVIOUS
    <2> HIDE DEF l
    <2>2. Range(l) = {x}
      BY <2>1 DEF Range
    <2>3. 1 \in 1..4 /\ ~(1 < 1) /\ 0 \notin 1..4
      OBVIOUS
    <2>4. InOrder(item, l, 4)
      BY <1>5, <2>1, <2>2, <2>3, Zenon DEF InOrder
    <2> QED
      BY <2>4, Zenon DEF l
  <1>1. CASE item.type = "url"
    <2>1. Selectors(item) = <<item.scheme>>
      BY <1>1 DEF Selectors
    <2>2. Fit(item, item.scheme) = 1 /\ \A s : Fit(item, s) # 0 => s = item.scheme
      BY <1>1 DEF Fit
    <2> QED
      BY <1>5, <2>1, <2>2, Zenon
  <1>2. CASE item.type = "directory"
    <2>1. Selectors(item) = <<"type:directory">>
      BY <1>2 DEF Selectors
    <2>2. Fit(item, "type:directory") = 1 /\ \A s : Fit(item, s) # 0 => s = "type:directory"
      BY <1>2 DEF Fit
    <2> QED
      BY <1>5, <2>1, <2>2, Zenon
  <1>3. CASE item.type = "missing"
    <2>1. Selectors(item) = <<>>
      BY <1>3 DEF Selectors
    <2>2. \A s : Fit(item, s) = 0
      BY <1>3 DEF Fit
    <2> QED
      BY <2>1, <2>2 DEF InOrder
  <1>4. CASE item.type = "file"
    <2> DEFINE exe == IF item.executable THEN <<"type:executable">> ELSE <<>>
               txt == IF item.text THEN <<"type:text">> ELSE <<>>
               all == item.ext \o exe \o txt \o <<"type:file">>
    <2>1. Selectors(item) = all
      BY <1>4 DEF Selectors
    <2>2. Range(item.ext) \intersect {"type:executable", "type:text", "type:file"} = {}
      BY <1>4, Zenon DEF IsItem
    <2>3. \A s : Fit(item, s) = IF s \in Range(item.ext) THEN 1
                                ELSE IF s = "type:executable" /\ item.executable THEN 2
                                ELSE IF s = "type:text" /\ item.text THEN 3
                                ELSE IF s = "type:file" THEN 4 ELSE 0
      BY <1>4, <2>2 DEF Fit
    <2>4. InOrder(item, <<>>, 0)
      BY <2>3 DEF InOrder
    <2>5. InOrder(item, <<>> \o item.ext, 0 + 1)
      <3>1. CASE item.ext = <<>>
        <4>1. \A s : Fit(item, s) # 0 + 1
          BY <2>3, <3>1 DEF Range
        <4> QED
          BY <2>4, <3>1, <4>1, NextFit
      <3>2. ASSUME NEW x, item.ext = <<x>>
            PROVE  InOrder(item, <<>> \o item.ext, 0 + 1)
        <4>1. Range(item.ext) = {x}
          BY <3>2 DEF Range
        <4>2. \A s : Fit(item, s) = 0 + 1 <=> s = x
          BY <2>3, <4>1
        <4>3. \E z : item.ext = <<z>> /\ \A s : Fit(item, s) = 0 + 1 <=> s = z
          <5> WITNESS x
          <5> QED
            BY <3>2, <4>2
        <4>4. 0 \in Nat
          OBVIOUS
        <4> QED
          BY <2>4, <4>3, <4>4, NextFit, Zenon
      <3> QED
        BY <1>4, <3>1, <3>2, Zenon DEF IsItem
    <2>6. InOrder(item, item.ext, 1)
      <3>1. <<>> \o item.ext = item.ext /\ 0 + 1 = 1
        BY <1>4 DEF IsItem
      <3> QED
        BY <2>5, <3>1
    <2>7. InOrder(item, item.ext \o exe, 1 + 1)
      <3>1. CASE item.executable
        <4>1. exe = <<"type:executable">>
          BY <3>1
        <4>2. \A s : Fit(item, s) = 1 + 1 <=> s = "type:executable"
          BY <2>2, <2>3, <3>1
        <4> QED
          BY <2>6, <4>1, <4>2, NextFit
      <3>2. CASE ~item.executable
        <4>1. exe = <<>>
          BY <3>2
        <4>2. \A s : Fit(item, s) # 1 + 1
          BY <2>3, <3>2
        <4> QED
          BY <2>6, <4>1, <4>2, NextFit
      <3> QED
        BY <3>1, <3>2, Zenon
    <2>8. InOrder(item, item.ext \o exe \o txt, 2 + 1)
      <3>0. InOrder(item, item.ext \o exe, 2)
        BY <2>7
      <3>1. CASE item.text
        <4>1. txt = <<"type:text">>
          BY <3>1
        <4>2. \A s : Fit(item, s) = 2 + 1 <=> s = "type:text"
          BY <2>2, <2>3, <3>1
        <4> QED
          BY <3>0, <4>1, <4>2, NextFit
      <3>2. CASE ~item.text
        <4>1. txt = <<>>
          BY <3>2
        <4>2. \A s : Fit(item, s) # 2 + 1
          BY <2>3, <3>2
        <4> QED
          BY <3>0, <4>1, <4>2, NextFit
      <3> QED
        BY <3>1, <3>2, Zenon
    <2>9. InOrder(item, all, 3 + 1)
      <3>1. InOrder(item, item.ext \o exe \o txt, 3)
        BY <2>8
      <3>2. \A s : Fit(item, s) = 3 + 1 <=> s = "type:file"
        BY <2>2, <2>3
      <3> HIDE DEF exe, txt
      <3> QED
        BY <3>1, <3>2, NextFit
    <2>10. InOrder(item, all, 4)
      BY <2>9
    <2> QED
      BY <2>1, <2>10, Zenon
  <1> QED
    BY <1>1, <1>2, <1>3, <1>4, Zenon DEF IsItem

\* What has a selector, in the user's table, the system's and among the bundles.
At(n, s) == IF n = 1 THEN Hits(user, s) ELSE IF n = 2 THEN Hits(system, s) ELSE Claiming(s)
CommandAt(n, i) ==
    IF n = 1 THEN user.lines[i].handler.command
    ELSE IF n = 2 THEN system.lines[i].handler.command ELSE bundles[i].path

Offer(item, s, n, i) == [rank |-> <<Fit(item, s), n, i>>, command |-> CommandAt(n, i)]

(* The offers are what the three places have for the selectors that fit. *)
LEMMA OffersAre ==
    ASSUME NEW item, NEW o
    PROVE  o \in Offers(item) <=>
             \E s : Fit(item, s) # 0 /\ \E n \in 1..3 : \E i \in At(n, s) : o = Offer(item, s, n, i)
  <1> DEFINE Fitting(selectors) == {s \in selectors : Fit(item, s) # 0}
             R(file, n, s, i) == [rank |-> <<Fit(item, s), n, i>>,
                                  command |-> file.lines[i].handler.command]
             Q(s, i) == [rank |-> <<Fit(item, s), 3, i>>, command |-> bundles[i].path]
             Lines(file, n) ==
                UNION {{R(file, n, s, i) : s \in Fitting(file.lines[i].selectors)} :
                       i \in {j \in DOMAIN file.lines : file.trusted /\ file.lines[j].valid}}
             Claims ==
                UNION {{Q(s, i) : s \in Fitting(bundles[i].claims)} :
                       i \in {j \in DOMAIN bundles : bundles[j].readable}}
  <1>1. Offers(item) = Lines(user, 1) \union Lines(system, 2) \union Claims
    BY Zenon DEF Offers
  <1>2. 1 # 2 /\ 1 # 3 /\ 2 # 3 /\ 1..3 = {1, 2, 3}
    OBVIOUS
  <1>3. \A s : At(1, s) = Hits(user, s) /\ At(2, s) = Hits(system, s) /\ At(3, s) = Claiming(s)
    BY <1>2, Zenon DEF At
  <1>4. \A s, i : /\ Offer(item, s, 1, i) = R(user, 1, s, i)
                  /\ Offer(item, s, 2, i) = R(system, 2, s, i)
                  /\ Offer(item, s, 3, i) = Q(s, i)
    BY <1>2, Zenon DEF Offer, CommandAt
  <1> HIDE DEF R, Q
  <1>5. ASSUME NEW file, NEW n, o \in Lines(file, n)
        PROVE  \E s : Fit(item, s) # 0 /\ \E i \in Hits(file, s) : o = R(file, n, s, i)
    <2>1. PICK i \in {j \in DOMAIN file.lines : file.trusted /\ file.lines[j].valid} :
                 o \in {R(file, n, s, i) : s \in Fitting(file.lines[i].selectors)}
      BY <1>5, Zenon
    <2>2. PICK s \in Fitting(file.lines[i].selectors) : o = R(file, n, s, i)
      BY <2>1, Zenon
    <2> QED
      BY <2>1, <2>2, Zenon DEF Hits, Table
  <1>6. ASSUME NEW file, NEW n, NEW s, Fit(item, s) # 0, NEW i \in Hits(file, s), o = R(file, n, s, i)
        PROVE  o \in Lines(file, n)
    <2>1. i \in {j \in DOMAIN file.lines : file.trusted /\ file.lines[j].valid}
          /\ s \in Fitting(file.lines[i].selectors)
      BY <1>6, Zenon DEF Hits, Table
    <2> HIDE DEF Fitting
    <2>2. o \in {R(file, n, t, i) : t \in Fitting(file.lines[i].selectors)}
      BY <1>6, <2>1, Zenon
    <2> QED
      BY <2>1, <2>2
  <1>7. ASSUME o \in Claims
        PROVE  \E s : Fit(item, s) # 0 /\ \E i \in Claiming(s) : o = Q(s, i)
    <2>1. PICK i \in {j \in DOMAIN bundles : bundles[j].readable} :
                 o \in {Q(s, i) : s \in Fitting(bundles[i].claims)}
      BY <1>7, Zenon
    <2>2. PICK s \in Fitting(bundles[i].claims) : o = Q(s, i)
      BY <2>1, Zenon
    <2> QED
      BY <2>1, <2>2, Zenon DEF Claiming, readable
  <1>8. ASSUME NEW s, Fit(item, s) # 0, NEW i \in Claiming(s), o = Q(s, i)
        PROVE  o \in Claims
    <2>1. i \in {j \in DOMAIN bundles : bundles[j].readable} /\ s \in Fitting(bundles[i].claims)
      BY <1>8, Zenon DEF Claiming, readable
    <2> HIDE DEF Fitting
    <2>2. o \in {Q(t, i) : t \in Fitting(bundles[i].claims)}
      BY <1>8, <2>1, Zenon
    <2> QED
      BY <2>1, <2>2
  <1> HIDE DEF Lines, Claims
  <1>9. ASSUME o \in Offers(item)
        PROVE  \E s : Fit(item, s) # 0 /\ \E n \in 1..3 : \E i \in At(n, s) : o = Offer(item, s, n, i)
    <2>1. CASE o \in Lines(user, 1)
      <3>1. PICK s : Fit(item, s) # 0 /\ \E i \in Hits(user, s) : o = R(user, 1, s, i)
        BY <1>5, <2>1, Zenon
      <3> QED
        BY <1>2, <1>3, <1>4, <3>1, Zenon
    <2>2. CASE o \in Lines(system, 2)
      <3>1. PICK s : Fit(item, s) # 0 /\ \E i \in Hits(system, s) : o = R(system, 2, s, i)
        BY <1>5, <2>2, Zenon
      <3> QED
        BY <1>2, <1>3, <1>4, <3>1, Zenon
    <2>3. CASE o \in Claims
      <3>1. PICK s : Fit(item, s) # 0 /\ \E i \in Claiming(s) : o = Q(s, i)
        BY <1>7, <2>3, Zenon
      <3> QED
        BY <1>2, <1>3, <1>4, <3>1, Zenon
    <2> QED
      BY <1>1, <1>9, <2>1, <2>2, <2>3, Zenon
  <1>10. ASSUME NEW s, Fit(item, s) # 0, NEW n \in 1..3, NEW i \in At(n, s), o = Offer(item, s, n, i)
         PROVE  o \in Offers(item)
    <2>1. CASE n = 1
      BY <1>1, <1>3, <1>4, <1>6, <1>10, <2>1, Zenon
    <2>2. CASE n = 2
      BY <1>1, <1>3, <1>4, <1>6, <1>10, <2>2, ZenonT(40)
    <2>3. CASE n = 3
      BY <1>1, <1>3, <1>4, <1>8, <1>10, <2>3, Zenon
    <2> QED
      BY <1>2, <2>1, <2>2, <2>3, Zenon
  <1> QED
    BY <1>9, <1>10, Zenon

(* The first of those that have a selector. *)
LEMMA FirstAt ==
    ASSUME Given, FilesThere, NEW n \in 1..3, NEW s, At(n, s) # {}
    PROVE  /\ At(n, s) \subseteq Nat
           /\ Min(At(n, s)) \in At(n, s)
           /\ \A i \in At(n, s) : Min(At(n, s)) <= i
  <1>1. user \in UserFiles \union SystemFiles /\ system \in UserFiles \union SystemFiles
    BY Zenon DEF FilesThere
  <1>2. Claiming(s) \in SUBSET readable
    BY Zenon DEF Claiming
  <1>3. CASE n = 1
    BY <1>1, <1>3, LineFound, Zenon DEF At
  <1>4. CASE n # 1 /\ n = 2
    <2>1. At(n, s) = Hits(system, s)
      BY <1>4, Zenon DEF At
    <2> QED
      BY <1>1, <2>1, LineFound, Zenon
  <1>5. CASE n # 1 /\ n # 2
    <2>1. At(n, s) = Claiming(s)
      BY <1>5, Zenon DEF At
    <2> QED
      BY <1>2, <2>1, BundleFound, Zenon
  <1> QED
    BY <1>3, <1>4, <1>5, Zenon

(* A lookup gives the first of the first place that has the selector. *)
LEMMA LookupIs ==
    ASSUME Given, FilesThere, NEW s
    PROVE  \/ lookup(s) = NotFound /\ \A n \in 1..3 : At(n, s) = {}
           \/ /\ lookup(s) # NotFound
              /\ \E n \in 1..3 :
                    /\ At(n, s) # {}
                    /\ \A k \in 1..3 : At(k, s) # {} => n <= k
                    /\ lookup(s).handler.command = CommandAt(n, Min(At(n, s)))
  <1>1. user \in UserFiles \union SystemFiles /\ system \in UserFiles \union SystemFiles
    BY Zenon DEF FilesThere
  <1>2. Claiming(s) \in SUBSET readable
    BY Zenon DEF Claiming
  <1>3. /\ 1 # 2 /\ 1 # 3 /\ 2 # 3 /\ 1..3 = {1, 2, 3}
        /\ \A k \in 1..3 : 1 <= k
        /\ \A k \in 1..3 : k # 1 => 2 <= k
        /\ \A k \in 1..3 : k # 1 /\ k # 2 => 3 <= k
    OBVIOUS
  <1>4. At(1, s) = Hits(user, s) /\ At(2, s) = Hits(system, s) /\ At(3, s) = Claiming(s)
    BY <1>3, Zenon DEF At
  <1>5. /\ \A i : CommandAt(1, i) = user.lines[i].handler.command
        /\ \A i : CommandAt(2, i) = system.lines[i].handler.command
        /\ \A i : CommandAt(3, i) = bundles[i].path
    BY <1>3, Zenon DEF CommandAt
  <1>n. \A f : f.in # "none" => f # NotFound
    BY DEF NotFound
  <1>6. CASE Hits(user, s) # {}
    <2>1. lookup(s) = FirstLine(user, s)
      BY <1>6, Zenon DEF lookup
    <2>2. lookup(s).in = "table" /\ lookup(s).handler = user.lines[Min(Hits(user, s))].handler
      BY <1>1, <1>6, <2>1, LineFound, Zenon
    <2>3. lookup(s) # NotFound
      BY <1>n, <2>2
    <2> QED
      <3>1. lookup(s).handler.command = CommandAt(1, Min(At(1, s)))
        BY <1>4, <1>5, <2>2, Zenon
      <3> QED
        BY <1>3, <1>4, <1>6, <2>3, <3>1, Zenon
  <1>7. CASE Hits(user, s) = {} /\ Hits(system, s) # {}
    <2>1. lookup(s) = FirstLine(system, s)
      BY <1>7, Zenon DEF lookup
    <2>2. lookup(s).in = "table" /\ lookup(s).handler = system.lines[Min(Hits(system, s))].handler
      BY <1>1, <1>7, <2>1, LineFound, Zenon
    <2>3. lookup(s) # NotFound
      BY <1>n, <2>2
    <2> QED
      <3>1. lookup(s).handler.command = CommandAt(2, Min(At(2, s)))
        BY <1>4, <1>5, <2>2, Zenon
      <3> QED
        BY <1>3, <1>4, <1>7, <2>3, <3>1, Zenon
  <1>8. CASE Hits(user, s) = {} /\ Hits(system, s) = {} /\ Claiming(s) # {}
    <2>1. lookup(s) = FirstBundle(Claiming(s))
      BY <1>8, Zenon DEF lookup
    <2>2. lookup(s).in = "owned" /\ lookup(s).handler = bundleHandler(bundles[Min(Claiming(s))])
      BY <1>2, <1>8, <2>1, BundleFound, Zenon
    <2>3. lookup(s) # NotFound
      BY <1>n, <2>2
    <2>4. \A b : bundleHandler(b).command = b.path
      BY DEF bundleHandler
    <2> QED
      <3>1. lookup(s).handler.command = CommandAt(3, Min(At(3, s)))
        BY <1>4, <1>5, <2>2, <2>4, ZenonT(40)
      <3> QED
        BY <1>3, <1>4, <1>8, <2>3, <3>1, Zenon
  <1>9. CASE Hits(user, s) = {} /\ Hits(system, s) = {} /\ Claiming(s) = {}
    <2>1. lookup(s) = NotFound
      BY <1>9, Zenon DEF lookup, FirstBundle
    <2> QED
      BY <1>3, <1>4, <1>9, <2>1, Zenon
  <1> QED
    BY <1>6, <1>7, <1>8, <1>9, Zenon

(* Ranks are compared by fit, then by place, then by position. *)
LEMMA RankOrder ==
    ASSUME NEW a, NEW b, NEW c, NEW d, NEW e, NEW f,
           a < d \/ (a = d /\ b < e) \/ (a = d /\ b = e /\ c < f)
    PROVE  Precedes(<<a, b, c>>, <<d, e, f>>)
  <1> DEFINE x == <<a, b, c>>
             y == <<d, e, f>>
  <1>1. x[1] = a /\ x[2] = b /\ x[3] = c /\ y[1] = d /\ y[2] = e /\ y[3] = f
    OBVIOUS
  <1>2. 1 \in 1..3 /\ 2 \in 1..3 /\ 3 \in 1..3
        /\ 1..(1 - 1) = {} /\ 1..(2 - 1) = {1} /\ 1..(3 - 1) = {1, 2}
    OBVIOUS
  <1> HIDE DEF x, y
  <1>3. CASE a < d
    BY <1>1, <1>2, <1>3, Zenon DEF Precedes, x, y
  <1>4. CASE a = d /\ b < e
    <2>1. \A k \in 1..(2 - 1) : x[k] = y[k]
      BY <1>1, <1>2, <1>4, Zenon
    <2>2. Precedes(x, y)
      BY <1>1, <1>2, <1>4, <2>1, Zenon DEF Precedes
    <2> QED
      BY <2>2, Zenon DEF x, y
  <1>5. CASE a = d /\ b = e /\ c < f
    <2>1. \A k \in 1..(3 - 1) : x[k] = y[k]
      BY <1>1, <1>2, <1>5, Zenon
    <2>2. Precedes(x, y)
      BY <1>1, <1>2, <1>5, <2>1, Zenon DEF Precedes
    <2> QED
      BY <2>2, Zenon DEF x, y
  <1> QED
    BY <1>3, <1>4, <1>5, Zenon

(* What Resolver::item finds is the best of the offers. *)
LEMMA FindIsBest ==
    ASSUME Given, FilesThere, NEW item, IsItem(item), item.type # "bundle", Find(item) # NotFound
    PROVE  \E best \in Offers(item) :
              /\ Find(item).handler.command = best.command
              /\ \A o \in Offers(item) \ {best} : Precedes(best.rank, o.rank)
  <1> DEFINE list == Selectors(item)
             hits == {i \in DOMAIN list : lookup(list[i]) # NotFound}
             m == Min(hits)
             s == list[m]
  <1>1. InOrder(item, list, 4)
    BY FitOrder, Zenon
  <1>2. DOMAIN list \subseteq Nat
    <2>1. list \in Seq(Range(list))
      BY <1>1, Zenon DEF InOrder
    <2> HIDE DEF list
    <2> QED
      BY <2>1
  <1>3. hits # {} /\ Find(item) = lookup(s)
    BY Zenon DEF Find
  <1>4. m \in hits /\ \A j \in hits : m <= j
    <2>1. hits \subseteq Nat
      BY <1>2, Zenon
    <2> HIDE DEF hits
    <2> QED
      BY <1>3, <2>1, Smallest, Zenon
  <1> HIDE DEF list, m
  <1>5. m \in DOMAIN list /\ lookup(s) # NotFound /\ \A j \in DOMAIN list : lookup(list[j]) # NotFound => m <= j
    BY <1>4, Zenon
  <1>6. Fit(item, s) \in 1..4
    BY <1>1, <1>5, Zenon DEF InOrder
  <1>7. \A t : Fit(item, t) # 0 => Fit(item, t) \in 1..4
    BY DEF Fit
  <1> HIDE DEF hits, s
  <1>8. PICK n \in 1..3 :
           /\ At(n, s) # {}
           /\ \A k \in 1..3 : At(k, s) # {} => n <= k
           /\ lookup(s).handler.command = CommandAt(n, Min(At(n, s)))
    BY <1>5, LookupIs, Zenon
  <1> DEFINE p == Min(At(n, s))
             best == Offer(item, s, n, p)
  <1>9. At(n, s) \subseteq Nat /\ p \in At(n, s) /\ \A i \in At(n, s) : p <= i
    BY <1>8, FirstAt, Zenon
  <1>10. best.rank = <<Fit(item, s), n, p>> /\ best.command = CommandAt(n, p)
    BY DEF Offer
  <1> HIDE DEF p
  <1>11. best \in Offers(item)
    <2>1. Fit(item, s) # 0
      BY <1>6
    <2> QED
      BY <1>9, <2>1, OffersAre, Zenon
  <1>12. Find(item).handler.command = best.command
    BY <1>3, <1>8, <1>10, Zenon DEF p
  <1>13. ASSUME NEW o \in Offers(item), o # best
         PROVE  Precedes(best.rank, o.rank)
    <2>1. PICK t : Fit(item, t) # 0 /\ \E k \in 1..3 : \E i \in At(k, t) : o = Offer(item, t, k, i)
      BY OffersAre, Zenon
    <2>2. PICK k \in 1..3 : \E i \in At(k, t) : o = Offer(item, t, k, i)
      BY <2>1, Zenon
    <2>3. PICK i \in At(k, t) : o = Offer(item, t, k, i)
      BY <2>2, Zenon
    <2>4. o.rank = <<Fit(item, t), k, i>>
      BY <2>3 DEF Offer
    <2>5. lookup(t) # NotFound
      BY <2>3, LookupIs, Zenon
    <2>6. PICK j \in DOMAIN list : list[j] = t
      BY <1>1, <1>7, <2>1, Zenon DEF InOrder
    <2>7. m <= j
      BY <1>5, <2>5, <2>6, Zenon
    <2>8. CASE m < j
      <3>1. Fit(item, s) < Fit(item, t)
        BY <1>1, <1>5, <2>6, <2>8, Zenon DEF InOrder, s
      <3> QED
        BY <1>10, <2>4, <3>1, RankOrder, Zenon
    <2>9. CASE m = j
      <3>1. t = s /\ At(k, s) # {}
        BY <2>3, <2>6, <2>9, Zenon DEF s
      <3>2. n <= k
        BY <1>8, <3>1, Zenon
      <3>3. CASE n < k
        BY <1>10, <2>4, <3>1, <3>3, RankOrder, Zenon
      <3>4. CASE n = k
        <4>1. p <= i /\ p # i
          BY <1>9, <1>13, <2>3, <3>1, <3>4, Zenon
        <4>2. p \in Nat /\ i \in Nat
          BY <1>9, <2>3, <3>1, <3>4, Zenon
        <4>3. p < i
          BY <4>1, <4>2
        <4> QED
          BY <1>10, <2>4, <3>1, <3>4, <4>3, RankOrder, Zenon
      <3>5. n < k \/ n = k
        BY <3>2
      <3> QED
        BY <3>3, <3>4, <3>5, Zenon
    <2>10. m < j \/ m = j
      <3>1. m \in Nat /\ j \in Nat
        BY <1>2, <1>5, <2>6, Zenon
      <3> QED
        BY <2>7, <3>1
    <2> QED
      BY <2>8, <2>9, <2>10, Zenon
  <1> HIDE DEF best
  <1> QED
    BY <1>11, <1>12, <1>13, Zenon

\* What Resolver::item finds for each item of the request.
Found == [i \in DOMAIN items |-> Find(items[i])]

\* While owned_ has not moved, every pointer leads to what was found, and every
\* launch has the command that was found for its items.
MatchInvariant ==
    /\ moved \in Nat
    /\ \A i \in DOMAIN items : IsItem(items[i])
    /\ DOMAIN resolved \subseteq DOMAIN items
    /\ request.app.by = "none" =>
          /\ \A i \in DOMAIN resolved :
                /\ Found[i] # NotFound
                /\ resolved[i].pointer.handler = Found[i].handler
                /\ resolved[i].passed => Found[i].handler.origin # "self"
                /\ moved = 0 => resolved[i].pointer.moved = 0
          /\ moved = 0 => \A j \in DOMAIN launches : \A i \in Range(launches[j].items) :
                launches[j].handler.command = Found[i].handler.command

LEMMA MatchInit == Init => MatchInvariant
  <1> SUFFICES ASSUME Init
               PROVE  MatchInvariant
    OBVIOUS
  <1>1. DOMAIN <<>> = {} /\ 0 \in Nat
    OBVIOUS
  <1>2. DOMAIN items = {} /\ DOMAIN resolved = {} /\ DOMAIN launches = {} /\ moved \in Nat
    BY <1>1, Zenon DEF Init
  <1> QED
    BY <1>2, Zenon DEF MatchInvariant

(* The same item finds the same handler, as the files stay as they are. *)
LEMMA FoundStays ==
    ASSUME UNCHANGED files, UNCHANGED items
    PROVE  Found' = Found
  <1>1. UNCHANGED <<user, system, bundles>>
    BY Zenon DEF files
  <1> QED
    BY <1>1 DEF Found, Find, lookup, FirstLine, FirstBundle, Claiming, readable, Hits, Table

(* A step that leaves the items and what is resolved keeps the invariant. *)
LEMMA MatchMovesOn ==
    ASSUME MatchInvariant, UNCHANGED <<files, items, resolved, launches, moved>>
    PROVE  MatchInvariant'
  <1>1. UNCHANGED <<items, resolved, launches, moved>> /\ UNCHANGED request
    BY Zenon DEF files
  <1>2. Found' = Found
    BY FoundStays, Zenon
  <1> QED
    BY <1>1, <1>2, ZenonT(40) DEF MatchInvariant

LEMMA MatchPrepare ==
    ASSUME Given, ResolveInvariant, MatchInvariant, Prepare
    PROVE  MatchInvariant'
  <1> DEFINE urls == {i \in DOMAIN request.items : request.items[i].type = "url"}
  <1>1. /\ place = "start"
        /\ UNCHANGED <<files, pool, resolved, added, launches>>
        /\ \/ place' = "refused" /\ UNCHANGED items
           \/ items' = request.items
           \/ urls = {} /\ items' = Folders(request.items)
    BY Zenon DEF Prepare
  <1>2. resolved = <<>> /\ launches = <<>>
    BY <1>1, Zenon DEF ResolveInvariant, Stages
  <1>3. /\ request.items \in Seq(Range(request.items))
        /\ \A item \in Range(request.items) :
              IsItem(item) /\ (item.type # "url" => IsItem(item.folder))
    BY Zenon DEF Given, RequestsAreRead, ResolveInvariant, ResolveTypes, FilesThere
  <1>4. ASSUME items' = request.items
        PROVE  \A i \in DOMAIN items' : IsItem(items'[i])
    BY <1>3, <1>4, Zenon DEF Range
  <1>5. ASSUME urls = {}, items' = Folders(request.items)
        PROVE  \A i \in DOMAIN items' : IsItem(items'[i])
    <2> DEFINE F == {item.folder : item \in Range(request.items)}
    <2>1. \A f \in F : IsItem(f)
      <3> SUFFICES ASSUME NEW item \in Range(request.items)
                   PROVE  IsItem(item.folder)
        BY Zenon
      <3>1. item.type # "url"
        BY <1>5, Zenon DEF Range
      <3> QED
        BY <1>3, <3>1, Zenon
    <2>2. Folders(request.items) \in Seq(F)
      BY <1>3, FoldersAre, Zenon
    <2>3. \A S : \A q \in Seq(S) : \A i \in DOMAIN q : q[i] \in S
      OBVIOUS
    <2> HIDE DEF F
    <2> QED
      BY <1>5, <2>1, <2>2, <2>3, Zenon
  <1>6. \A i \in DOMAIN items' : IsItem(items'[i])
    BY <1>1, <1>4, <1>5, Zenon DEF MatchInvariant
  <1>7. DOMAIN resolved' = {} /\ DOMAIN launches' = {} /\ moved' = moved
    <2>1. DOMAIN <<>> = {}
      OBVIOUS
    <2> QED
      BY <1>1, <1>2, <2>1, Zenon DEF pool
  <1> QED
    BY <1>6, <1>7, Zenon DEF MatchInvariant

LEMMA MatchApplication ==
    ASSUME ResolveInvariant, MatchInvariant, ResolveApplication
    PROVE  MatchInvariant'
  <1> DEFINE found == application(request.app)
  <1>1. request.app.by # "none" /\ UNCHANGED <<files, items, added>>
    BY Zenon DEF ResolveApplication
  <1>2. request' = request /\ items' = items
    BY <1>1, Zenon DEF files
  <1>3. moved' \in Nat /\ DOMAIN resolved' \subseteq DOMAIN items'
    <2>1. CASE found = NotFound
      BY <1>2, <2>1, Zenon DEF ResolveApplication, pool, MatchInvariant
    <2>2. CASE found # NotFound
      <3>1. DOMAIN resolved' = DOMAIN items
        BY <2>2, Zenon DEF ResolveApplication
      <3>2. moved' = moved \/ moved' = moved + 1
        BY <2>2, Zenon DEF ResolveApplication, Point, pool
      <3>3. moved' \in Nat
        BY <3>2 DEF MatchInvariant
      <3> QED
        BY <1>2, <3>1, <3>3, Zenon
    <2> QED
      BY <2>1, <2>2, Zenon
  <1>4. \A i \in DOMAIN items' : IsItem(items'[i])
    BY <1>2, Zenon DEF MatchInvariant
  <1>5. ~(request'.app.by = "none")
    BY <1>1, <1>2, Zenon
  <1> QED
    BY <1>3, <1>4, <1>5, Zenon DEF MatchInvariant

LEMMA MatchItem ==
    ASSUME ResolveInvariant, MatchInvariant, ResolveItem
    PROVE  MatchInvariant'
  <1> DEFINE e == Len(resolved) + 1
             found == Find(items[e])
             r == [pointer |-> Pointer(found), passed |-> found.handler.origin # "self"]
  <1>1. /\ place = "resolve" /\ request.app.by = "none"
        /\ Len(resolved) < Len(items)
        /\ UNCHANGED <<files, items, added, launches>>
    BY Zenon DEF ResolveItem
  <1>2. request' = request /\ items' = items /\ launches' = launches /\ Found' = Found
    <2>1. request' = request /\ items' = items /\ launches' = launches
      BY <1>1, Zenon DEF files
    <2> QED
      BY <1>1, <2>1, FoundStays, Zenon
  <1>3. CASE found = NotFound
    <2>1. UNCHANGED <<pool, resolved>>
      BY <1>3, Zenon DEF ResolveItem
    <2>2. UNCHANGED <<files, items, resolved, launches, moved>>
      BY <1>1, <2>1, Zenon DEF pool
    <2> QED
      BY <2>2, MatchMovesOn, Zenon
  <1>4. CASE found # NotFound
    <2>1. resolved' = Append(resolved, r) /\ Point(found)
      BY <1>4, Zenon DEF ResolveItem
    <2>2. moved' = moved \/ moved' = moved + 1
      BY <2>1, Zenon DEF Point, pool
    <2>3. moved' \in Nat /\ (moved' = 0 => moved = 0)
      BY <2>2 DEF MatchInvariant
    <2>4. r.pointer = Pointer(found) /\ (r.passed <=> found.handler.origin # "self")
      OBVIOUS
    <2>5. Pointer(found).moved = 0 \/ Pointer(found).moved = moved'
      BY DEF Pointer
    <2>6. /\ r.pointer.handler = found.handler
          /\ r.passed => found.handler.origin # "self"
          /\ moved' = 0 => r.pointer.moved = 0
      BY <2>4, <2>5, PointerIs, Zenon
    <2>7. e \in DOMAIN items
      <3>1. items \in Seq(Range(items)) /\ resolved \in Seq(Range(resolved))
        BY Zenon DEF ResolveInvariant, ResolveTypes, IsList
      <3> QED
        BY <1>1, <3>1
    <2>8. Found[e] = found
      BY <2>7, Zenon DEF Found
    <2> HIDE DEF r, found
    <2>9. /\ DOMAIN resolved' = DOMAIN resolved \union {e}
          /\ \A i \in DOMAIN resolved : resolved'[i] = resolved[i]
          /\ resolved'[e] = r
      <3>1. resolved \in Seq(Range(resolved))
        BY Zenon DEF IsList, ResolveInvariant, ResolveTypes
      <3>2. /\ DOMAIN Append(resolved, r) = DOMAIN resolved \union {e}
            /\ \A i \in DOMAIN resolved : Append(resolved, r)[i] = resolved[i]
            /\ Append(resolved, r)[e] = r
        BY <3>1, AppendIs, Zenon
      <3> QED
        BY <2>1, <3>2, Zenon
    <2> HIDE DEF e
    <2>10. DOMAIN resolved' \subseteq DOMAIN items'
      BY <1>2, <2>7, <2>9, Zenon DEF MatchInvariant
    <2>11. ASSUME NEW i \in DOMAIN resolved'
           PROVE  /\ Found'[i] # NotFound
                  /\ resolved'[i].pointer.handler = Found'[i].handler
                  /\ resolved'[i].passed => Found'[i].handler.origin # "self"
                  /\ moved' = 0 => resolved'[i].pointer.moved = 0
      <3>1. CASE i = e
        BY <1>2, <1>4, <2>6, <2>8, <2>9, <3>1, Zenon
      <3>2. CASE i # e
        <4>1. i \in DOMAIN resolved /\ resolved'[i] = resolved[i]
          BY <2>9, <3>2, Zenon
        <4> QED
          BY <1>1, <1>2, <2>3, <4>1, Zenon DEF MatchInvariant
      <3> QED
        BY <3>1, <3>2, Zenon
    <2>12. moved' = 0 => \A j \in DOMAIN launches' : \A i \in Range(launches'[j].items) :
                launches'[j].handler.command = Found'[i].handler.command
      BY <1>1, <1>2, <2>3, ZenonT(40) DEF MatchInvariant
    <2>13. \A i \in DOMAIN items' : IsItem(items'[i])
      BY <1>2, Zenon DEF MatchInvariant
    <2> QED
      BY <2>3, <2>10, <2>11, <2>12, <2>13, Zenon DEF MatchInvariant, NotFound
  <1> QED
    BY <1>3, <1>4, Zenon

LEMMA MatchAdd ==
    ASSUME Given, ResolveInvariant, MatchInvariant, AddItem
    PROVE  MatchInvariant'
  <1> DEFINE r == resolved[added + 1]
             v == IF r.passed THEN <<added + 1>> ELSE <<>>
  <1>1. place = "group" /\ added < Len(resolved) /\ UNCHANGED <<files, items, pool, resolved>>
    BY Zenon DEF AddItem
  <1>2. /\ request' = request /\ items' = items /\ resolved' = resolved /\ moved' = moved
        /\ Found' = Found
    <2>1. request' = request /\ items' = items /\ resolved' = resolved /\ moved' = moved
      BY <1>1, Zenon DEF files, pool
    <2> QED
      BY <1>1, <2>1, FoundStays, Zenon
  <1>3. added \in Nat /\ added + 1 \in DOMAIN resolved
    BY <1>1 DEF ResolveInvariant, ResolveTypes, IsList
  <1>4. ASSUME request.app.by = "none", moved = 0
        PROVE  \A j \in DOMAIN launches' : \A i \in Range(launches'[j].items) :
                 launches'[j].handler.command = Found[i].handler.command
    <2>1. r.pointer.moved = 0 /\ r.pointer.handler = Found[added + 1].handler
      BY <1>3, <1>4, Zenon DEF MatchInvariant
    <2>2. ~Dangling(r.pointer)
      BY <1>4, <2>1, Zenon DEF Dangling
    <2> DEFINE h == r.pointer.handler
    <2>3. launches' = Add(h, v)
      BY <2>2, Zenon DEF AddItem
    <2>4. v \in {<<>>, <<added + 1>>} /\ Range(v) \subseteq {added + 1}
      BY DEF Range
    <2>5. PassedOf(resolved, added) \in SUBSET (1..added)
      BY Zenon DEF PassedOf
    <2>6. KnownHandler(h, AllLines)
      BY <1>3, Zenon DEF ResolveInvariant, ResolveTypes
    <2>7. FilesThere /\ Grouped(launches, PassedOf(resolved, added), AllLines)
      BY Zenon DEF ResolveInvariant, ResolveTypes, GroupsKept
    <2> HIDE DEF v, h
    <2>8. Gives(launches, launches', h, v)
      BY <1>3, <2>3, <2>4, <2>5, <2>6, <2>7, AddKeeps, Zenon
    <2> SUFFICES ASSUME NEW j \in DOMAIN launches', NEW i \in Range(launches'[j].items)
                 PROVE  launches'[j].handler.command = Found[i].handler.command
      BY Zenon
    <2>9. CASE j \in DOMAIN launches /\ i \in Range(launches[j].items)
               /\ launches'[j].handler = launches[j].handler
      BY <1>4, <2>9, Zenon DEF MatchInvariant
    <2>10. CASE i \in Range(v) /\ launches'[j].handler.command = h.command
      <3>1. i = added + 1
        BY <2>4, <2>10, Zenon
      <3> QED
        BY <2>1, <2>10, <3>1, Zenon DEF h
    <2> QED
      BY <2>8, <2>9, <2>10, Zenon DEF Gives
  <1> QED
    BY <1>2, <1>4, Zenon DEF MatchInvariant

LEMMA MatchStep ==
    ASSUME Given, ResolveInvariant, MatchInvariant, [Next]_vars
    PROVE  MatchInvariant'
  <1>1. ASSUME NothingToOpen \/ Resolved \/ Done \/ UNCHANGED vars
        PROVE  MatchInvariant'
    <2>1. UNCHANGED <<files, items, resolved, launches, moved>>
      BY <1>1, Zenon DEF NothingToOpen, Resolved, Done, vars, pool
    <2> QED
      BY <2>1, MatchMovesOn, Zenon
  <1> QED
    BY <1>1, MatchPrepare, MatchApplication, MatchItem, MatchAdd, Zenon DEF Next

(* The command that was found for an item is that of the best offer. *)
LEMMA MatchesAreFirst ==
    ASSUME Given, ResolveInvariant, MatchInvariant
    PROVE  FirstMatchWinsInRoom
  <1> SUFFICES ASSUME moved = 0, NEW j \in DOMAIN launches, NEW i \in Range(launches[j].items),
                      request.app.by = "none"
               PROVE  \E best \in Offers(items[i]) :
                         /\ launches[j].handler.command = best.command
                         /\ \A o \in Offers(items[i]) \ {best} : Precedes(best.rank, o.rank)
    BY Zenon DEF FirstMatchWinsInRoom, FirstMatch
  <1>1. i \in PassedOf(resolved, added)
    BY Zenon DEF ResolveInvariant, GroupsKept, Grouped
  <1>2. i \in DOMAIN resolved /\ resolved[i].passed
    <2>1. i \in 1..added /\ resolved[i].passed
      BY <1>1, Zenon DEF PassedOf
    <2>2. resolved \in Seq(Range(resolved)) /\ added \in 0..Len(resolved)
      BY Zenon DEF ResolveInvariant, ResolveTypes, IsList
    <2> QED
      BY <2>1, <2>2
  <1>3. /\ i \in DOMAIN items /\ IsItem(items[i])
        /\ Found[i] # NotFound /\ Found[i].handler.origin # "self"
        /\ launches[j].handler.command = Found[i].handler.command
    BY <1>2, Zenon DEF MatchInvariant
  <1>4. Found[i] = Find(items[i])
    BY <1>3, Zenon DEF Found
  <1>5. FilesThere
    BY Zenon DEF ResolveInvariant, ResolveTypes
  <1>6. items[i].type # "bundle"
    BY <1>3, <1>4, <1>5, FindKnown, Zenon
  <1> QED
    BY <1>3, <1>4, <1>5, <1>6, FindIsBest, Zenon

(* Both invariants hold of every reachable state of a request. *)
THEOREM ResolveInvariantHolds == Spec => [](ResolveInvariant /\ MatchInvariant)
  <1>1. Init => ResolveInvariant /\ MatchInvariant
    BY ResolveInit, MatchInit, OpenResolveAssumption, Zenon
  <1>2. ResolveInvariant /\ MatchInvariant /\ [Next]_vars => (ResolveInvariant /\ MatchInvariant)'
    <2> SUFFICES ASSUME ResolveInvariant, MatchInvariant, [Next]_vars
                 PROVE  ResolveInvariant' /\ MatchInvariant'
      OBVIOUS
    <2>1. Given
      BY OpenResolveAssumption, Zenon
    <2> QED
      BY <2>1, ResolveStep, MatchStep, Zenon
  <1> QED
    BY <1>1, <1>2, PTL DEF Spec

(* For any request, every item but a bundle is passed to exactly one launch, in
   the order of the request; a `single' handler gets one item, and any other
   is run once (serve, add). *)
THEOREM EveryItemGoesOnce == Spec => []EachItemOnce
  <1>1. ResolveInvariant => EachItemOnce
    BY GroupsAreOnce
  <1> QED
    BY <1>1, ResolveInvariantHolds, PTL

(* For any tables, bundles and items, the first match in the documented order
   wins, as long as the handlers fit in the room reserved for them (lookup,
   item, keep). *)
THEOREM TheFirstMatchWins == Spec => []FirstMatchWinsInRoom
  <1>1. ResolveInvariant /\ MatchInvariant => FirstMatchWinsInRoom
    BY MatchesAreFirst, OpenResolveAssumption, Zenon
  <1> QED
    BY <1>1, ResolveInvariantHolds, PTL
=============================================================================
