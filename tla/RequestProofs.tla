--------------------------- MODULE RequestProofs ---------------------------
(***************************************************************************)
(* Proofs about one request of open to opend, for any number of handlers   *)
(* and of process IDs.                                                     *)
(***************************************************************************)
EXTENDS OpenRequest, TLAPS

Frames ==
    [kind : {"reply"}, ok : BOOLEAN, waiting : BOOLEAN, pids : SUBSET Pids]
        \union [kind : {"completion"}]

\* The worker's stages up to its reply, those in which the launches are its to
\* wait for, and the groups that are then.
BeforeReply == {"receive", "resolve", "spawn", "status", "refuse", "reply"}
InHand == {"receive", "resolve", "spawn", "status", "reply", "wait"}
Mine == (launchedPids \ results) \union IF worker = "status" THEN {current} ELSE {}

Starting(p) == group[p].handler = "starting"
Quiet == \A p \in Pids : ~HandlerRuns(group[p])

\* The reply said, or will say when it is read, that every handler is executed.
Accepted ==
    \/ caller \in {"wait", "exit0"}
    \/ \E i \in DOMAIN inbox : inbox[i].kind = "reply" /\ inbox[i].ok

\* A process group has handlers only for this request, and what the pipe
\* returns tells how far its handler got.
GroupsAgree ==
    \A p \in Pids :
        /\ HandlerRuns(group[p]) => group[p].whose = "request"
        /\ Starting(p) => group[p].status = "open"
        /\ group[p].status = "errno" => group[p].handler = "ended"

\* While a worker has its launches in hand, they are what its lists say, each
\* on the terminal or not as recorded, and only the launch under way may still
\* fail, which its pipe then tells.
LaunchesAgree ==
    worker \in InHand =>
        /\ \A p \in Pids : group[p].whose = "request" <=> p \in Mine
        /\ \A i \in DOMAIN launched :
              launched[i].pid \notin results =>
                  group[launched[i].pid].terminal = launched[i].terminal
        /\ \A p \in Pids : Starting(p) => worker = "status" /\ p = current
        /\ failed => worker = "status" /\ group[current].status = "errno"
        /\ worker = "status" => current \in Pids \ launchedPids
        /\ worker # "wait" => results = {}
        /\ worker \in {"receive", "resolve"} => launched = <<>>

\* What is on its way to the caller: a reply first, then a completion, neither
\* before the worker is that far.
FramesAgree ==
    /\ inbox \in Seq(Frames)
    /\ worker \in BeforeReply => inbox = <<>> /\ caller \notin {"wait", "exit0"}
    /\ worker = "wait" /\ caller \in {"send", "reply"} => inbox # <<>>
    /\ caller \in {"send", "reply"} =>
          \A i \in DOMAIN inbox : inbox[i].kind = "reply" <=> i = 1
    /\ caller = "wait" => \A i \in DOMAIN inbox : inbox[i].kind = "completion"

\* What the frames say is true, and stays true.
FramesAreTrue ==
    /\ Accepted => ~failed /\ \A p \in Pids : ~Starting(p)
    /\ \A i \in DOMAIN inbox :
          /\ inbox[i].kind = "reply" /\ inbox[i].ok => (inbox[i].waiting <=> Waiting)
          /\ inbox[i].kind = "completion" => worker \in WorkerGone /\ Quiet
    /\ caller = "exit0" => ~Waiting \/ (worker \in WorkerGone /\ Quiet)

RequestInvariant ==
    TypeOK /\ GroupsAgree /\ LaunchesAgree /\ FramesAgree /\ FramesAreTrue
-----------------------------------------------------------------------------
(* Process groups.                                                         *)

\* New groups, of this request and of other programs, and IDs that are free.
LEMMA NewGroups ==
    ASSUME NEW t \in BOOLEAN
    PROVE  /\ Launch(t) \in Group
           /\ Launch(t).whose = "request"
           /\ Launch(t).handler = "starting"
           /\ Launch(t).status = "open"
           /\ Launch(t).terminal = t
           /\ Free \in Group
           /\ Free.whose = "nobody"
           /\ Free.handler = "none"
           /\ Free.status = "open"
           /\ Other \in Group
           /\ Other.whose = "other"
           /\ Other.handler = "none"
           /\ Other.status = "open"
  BY Zenon DEF Launch, Free, Other, Group

\* What a step does to a group: a launch makes it, its processes move on, its
\* zombie is waited for, it is hung up, or it is another program's.
Evolves(g, h) ==
    \/ h = g
    \/ /\ h.whose = g.whose /\ h.terminal = g.terminal
       /\ \/ h.handler = "running" /\ h.status = "eof" /\ g.handler = "starting"
          \/ h.handler = "ended" /\ h.status = "eof" /\ HandlerRuns(g)
          \/ h.handler = g.handler /\ h.status = g.status

\* No step does anything else to a group.
LEMMA GroupStep ==
    ASSUME TypeOK, Next, NEW p \in Pids
    PROVE  /\ group'[p] \in Group
           /\ \/ Evolves(group[p], group'[p])
              \/ FailChild(p) /\ group'[p].handler = "ended" /\ group'[p].status = "errno"
                    /\ group'[p].whose = group[p].whose
                    /\ group'[p].terminal = group[p].terminal
              \/ /\ Spawn /\ current' = p /\ group[p] = Free
                 /\ group'[p] = Launch(request.terminal[Len(launched) + 1])
              \/ Collect /\ p = current /\ group'[p] = Free
              \/ WaitReap(p) /\ group'[p] = Free
              \/ Adopted(p) /\ group'[p] = Free
              \/ OtherGroup(p) /\ group[p] = Free /\ group'[p] = Other
              \/ OtherGroup(p) /\ group[p].whose = "other" /\ group'[p] = Free
<1> USE DEF callerVars, workerVars, processVars, callerRest
<1> DEFINE Goal == 
           /\ group'[p] \in Group
           /\ \/ Evolves(group[p], group'[p])
              \/ FailChild(p) /\ group'[p].handler = "ended" /\ group'[p].status = "errno"
                    /\ group'[p].whose = group[p].whose
                    /\ group'[p].terminal = group[p].terminal
              \/ /\ Spawn /\ current' = p /\ group[p] = Free
                 /\ group'[p] = Launch(request.terminal[Len(launched) + 1])
              \/ Collect /\ p = current /\ group'[p] = Free
              \/ WaitReap(p) /\ group'[p] = Free
              \/ Adopted(p) /\ group'[p] = Free
              \/ OtherGroup(p) /\ group[p] = Free /\ group'[p] = Other
              \/ OtherGroup(p) /\ group[p].whose = "other" /\ group'[p] = Free
<1> SUFFICES Goal
  OBVIOUS
<1>t. /\ group \in [Pids -> Group]
      /\ group[p] \in Group
  BY DEF TypeOK
<1>s. ASSUME group'[p] = group[p] PROVE Goal
  BY <1>t, <1>s DEF Evolves
<1>1. CASE UNCHANGED group
  BY <1>1, <1>s
<1>2. CASE Spawn
  <2>1. PICK q \in Pids :
           /\ group[q] = Free
           /\ current' = q
           /\ group' = [group EXCEPT ![q] = Launch(request.terminal[Len(launched) + 1])]
    BY <1>2, Zenon DEF Spawn
  <2>2. request.terminal[Len(launched) + 1] \in BOOLEAN
    <3>1. request.terminal \in Seq(BOOLEAN) /\ launched \in Seq([pid : Pids, terminal : BOOLEAN])
      BY OpenRequestAssumption DEF TypeOK
    <3>2. Len(launched) < Len(request.terminal)
      BY <1>2 DEF Spawn
    <3>3. Len(launched) + 1 \in 1..Len(request.terminal)
      BY <3>1, <3>2
    <3> QED
      BY <3>1, <3>3
  <2>3. CASE q = p
    <3>1. group'[p] = Launch(request.terminal[Len(launched) + 1])
      BY <1>t, <2>1, <2>3
    <3> QED
      BY <1>2, <2>1, <2>2, <2>3, <3>1, NewGroups
  <2>4. CASE q # p
    BY <1>s, <1>t, <2>1, <2>4
  <2> QED
    BY <2>3, <2>4
<1>3. CASE Collect
  BY <1>3, <1>s, <1>t, NewGroups, Zenon DEF Collect
<1>4. ASSUME NEW q \in Pids, WaitReap(q) \/ Adopted(q) PROVE Goal
  BY <1>4, <1>s, <1>t, NewGroups, Zenon DEF WaitReap, Adopted
<1>5. CASE CallerLeft
  <2>1. group'[p] = group[p] \/ group'[p] = [group[p] EXCEPT !.hup = TRUE]
    BY <1>5 DEF CallerLeft
  <2>2. /\ group'[p] \in Group
        /\ group'[p].whose = group[p].whose
        /\ group'[p].terminal = group[p].terminal
        /\ group'[p].handler = group[p].handler
        /\ group'[p].status = group[p].status
    BY <1>t, <2>1, Zenon DEF Group
  <2> QED
    BY <2>2 DEF Evolves
<1>6. ASSUME NEW q \in Pids, Exec(q) \/ HandlerEnds(q) \/ HolderEnds(q) PROVE Goal
  <2>1. CASE q # p
    BY <1>6, <1>s, <1>t, <2>1 DEF Exec, HandlerEnds, HolderEnds
  <2>2. CASE q = p /\ Exec(q)
    <3>1. /\ group'[p] = [group[p] EXCEPT !.handler = "running", !.status = "eof"]
          /\ group[p].handler = "starting"
      BY <1>t, <2>2 DEF Exec
    <3>2. /\ group'[p] \in Group
          /\ group'[p].whose = group[p].whose
          /\ group'[p].terminal = group[p].terminal
          /\ group'[p].handler = "running"
          /\ group'[p].status = "eof"
      BY <1>t, <3>1, Zenon DEF Group
    <3> QED
      BY <3>1, <3>2 DEF Evolves
  <2>3. CASE q = p /\ HandlerEnds(q)
    <3>1. /\ group'[p] = [group[p] EXCEPT !.handler = "ended", !.status = "eof"]
          /\ HandlerRuns(group[p])
      BY <1>t, <2>3 DEF HandlerEnds
    <3>2. /\ group'[p] \in Group
          /\ group'[p].whose = group[p].whose
          /\ group'[p].terminal = group[p].terminal
          /\ group'[p].handler = "ended"
          /\ group'[p].status = "eof"
      BY <1>t, <3>1, Zenon DEF Group
    <3> QED
      BY <3>1, <3>2 DEF Evolves
  <2>4. CASE q = p /\ HolderEnds(q)
    <3>1. group'[p] = [group[p] EXCEPT !.holder = "zombie"]
      BY <1>t, <2>4 DEF HolderEnds
    <3>2. /\ group'[p] \in Group
          /\ group'[p].whose = group[p].whose
          /\ group'[p].terminal = group[p].terminal
          /\ group'[p].handler = group[p].handler
          /\ group'[p].status = group[p].status
      BY <1>t, <3>1 DEF Group
    <3> QED
      BY <3>1, <3>2 DEF Evolves
  <2> QED
    BY <1>6, <2>1, <2>2, <2>3, <2>4
<1>7. ASSUME NEW q \in Pids, FailChild(q) PROVE Goal
  <2>1. CASE q # p
    BY <1>7, <1>s, <1>t, <2>1 DEF FailChild
  <2>2. CASE q = p
    <3>1. group'[p] = [group[p] EXCEPT !.handler = "ended", !.status = "errno"]
      BY <1>t, <1>7, <2>2 DEF FailChild
    <3>2. /\ group'[p] \in Group
          /\ group'[p].whose = group[p].whose
          /\ group'[p].terminal = group[p].terminal
          /\ group'[p].handler = "ended"
          /\ group'[p].status = "errno"
      BY <1>t, <3>1, Zenon DEF Group
    <3> QED
      BY <1>7, <2>2, <3>2
  <2> QED
    BY <2>1, <2>2
<1>8. ASSUME NEW q \in Pids, OtherGroup(q) PROVE Goal
  BY <1>8, <1>s, <1>t, NewGroups, Zenon DEF OtherGroup
<1>9. CASE \/ Receive \/ ReceiveFails \/ Resolve \/ SpawnFails \/ SpawnDone \/ Status
           \/ Refuse \/ Reply \/ SendFails \/ Complete \/ WorkerKilled \/ Caller
           \/ Remember \/ Forward \/ Killed
  BY <1>1, <1>9 DEF Receive, ReceiveFails, Resolve, SpawnFails, SpawnDone, Status, Refuse, Reply,
                    SendFails, Complete, WorkerKilled, Caller, Ask, ReceiveReply,
                    ReceiveCompletion, ReplyTimesOut, Closed, Remember, Forward, Killed
<1> HIDE DEF Goal
<1> QED
  BY <1>2, <1>3, <1>4, <1>5, <1>6, <1>7, <1>8, <1>9 DEF Next, Worker, Processes
-----------------------------------------------------------------------------
(* The invariant is kept.                                                  *)

\* The worker's list names process IDs.
LEMMA LaunchedPids ==
    ASSUME TypeOK
    PROVE  launchedPids \subseteq Pids /\ \A i \in DOMAIN launched : launched[i].pid \in launchedPids
<1> DEFINE R == [pid : Pids, terminal : BOOLEAN]
<1>1. launched \in Seq(R)
  BY DEF TypeOK
<1>2. \A i \in DOMAIN launched : launched[i] \in R
  <2> HIDE DEF R
  <2> QED
    BY <1>1
<1>3. \A i \in DOMAIN launched : launched[i].pid \in Pids
  BY <1>2
<1> QED
  BY <1>3 DEF launchedPids

\* A launch that is recorded adds its process ID.
LEMMA OneMoreLaunch ==
    ASSUME TypeOK, Status, current \in Pids
    PROVE  /\ launchedPids' = launchedPids \union {current}
           /\ Len(launched') = Len(launched) + 1
           /\ \A i \in 1..Len(launched) : launched'[i] = launched[i]
           /\ launched'[Len(launched) + 1] =
                 [pid |-> current, terminal |-> group[current].terminal]
           /\ DOMAIN launched' = 1..(Len(launched) + 1)
           /\ DOMAIN launched = 1..Len(launched)
<1> DEFINE new == [pid |-> current, terminal |-> group[current].terminal]
           R == [pid : Pids, terminal : BOOLEAN]
<1>1. new \in R /\ new.pid = current
  BY DEF TypeOK, Group
<1>2. launched \in Seq(R) /\ launched' = Append(launched, new)
  BY DEF TypeOK, Status
<1> HIDE DEF new, R
<1>3. /\ Len(launched) \in Nat
      /\ Len(launched') = Len(launched) + 1
      /\ \A i \in 1..Len(launched) : launched'[i] = launched[i]
      /\ launched'[Len(launched) + 1] = new
      /\ DOMAIN launched' = 1..(Len(launched) + 1)
      /\ DOMAIN launched = 1..Len(launched)
  BY <1>1, <1>2
<1>4. launchedPids' = launchedPids \union {current}
  <2>1. \A i \in DOMAIN launched' : i \in DOMAIN launched \/ i = Len(launched) + 1
    BY <1>3
  <2>2. launchedPids' \subseteq launchedPids \union {current}
    BY <1>1, <1>3, <2>1 DEF launchedPids
  <2>3. current \in launchedPids'
    BY <1>1, <1>3 DEF launchedPids
  <2>4. launchedPids \subseteq launchedPids'
    BY <1>3 DEF launchedPids
  <2> QED
    BY <2>2, <2>3, <2>4
<1> QED
  BY <1>3, <1>4 DEF new

\* Every variable keeps its type.
LEMMA TypeStep ==
    ASSUME TypeOK, inbox \in Seq(Frames), FramesAgree, LaunchesAgree, Next
    PROVE  TypeOK' /\ inbox' \in Seq(Frames)
<1> USE DEF callerVars, workerVars, processVars, callerRest
<1> DEFINE Rest == /\ request' \in Requests
                   /\ caller' \in {"send", "reply", "wait"} \union Ended
                   /\ pendingSignal' \in BOOLEAN
                   /\ targets' \subseteq Pids
                   /\ worker' \in {"receive", "resolve", "spawn", "status", "refuse", "reply",
                                   "wait"} \union WorkerGone
                   /\ current' \in Pids \union {NoPid}
                   /\ launched' \in Seq([pid : Pids, terminal : BOOLEAN])
                   /\ results' \subseteq launchedPids'
                   /\ sent' \in BOOLEAN
                   /\ failed' \in BOOLEAN
                   /\ inbox' \in Seq(Frames)
<1>g. group' \in [Pids -> Group]
  <2>1. \A p \in Pids : group'[p] \in Group
    BY GroupStep
  <2>2. group' = [p \in Pids |-> group'[p]]
    <3>1. group \in [Pids -> Group]
      BY DEF TypeOK
    <3> QED
      BY <3>1, Zenon DEF Next, Worker, Caller, Processes, Receive, ReceiveFails, Resolve, Spawn, SpawnFails,
                  SpawnDone, Status, Collect, Refuse, Reply, SendFails, WaitReap, Complete,
                  CallerLeft, WorkerKilled, Ask, ReceiveReply, ReceiveCompletion, ReplyTimesOut,
                  Closed, Remember, Forward, Killed, Exec, FailChild, HandlerEnds, HolderEnds,
                  Adopted, OtherGroup
  <2> QED
    BY <2>1, <2>2
<1> SUFFICES Rest
  BY <1>g DEF TypeOK
<1> USE DEF TypeOK, Ended, WorkerGone
<1>k. launched' = launched => launchedPids' = launchedPids
  BY DEF launchedPids
<1>1. CASE Receive \/ ReceiveFails \/ Resolve \/ SpawnFails \/ SpawnDone \/ Collect \/ SendFails
           \/ CallerLeft \/ WorkerKilled
  BY <1>1, <1>k DEF Receive, ReceiveFails, Resolve, SpawnFails, SpawnDone, Collect, SendFails,
                    CallerLeft, WorkerKilled, Goto
<1>2. CASE Spawn
  BY <1>2, <1>k DEF Spawn, Goto
<1>3. CASE Status
  <2> DEFINE new == [pid |-> current, terminal |-> group[current].terminal]
  <2>1. current \in Pids /\ results = {}
    BY <1>3 DEF Status, Goto, LaunchesAgree, InHand
  <2>2. new \in [pid : Pids, terminal : BOOLEAN]
    BY <2>1 DEF Group
  <2>3. launched' = Append(launched, new) /\ results' = results
    BY <1>3 DEF Status
  <2> HIDE DEF new
  <2>4. launched' \in Seq([pid : Pids, terminal : BOOLEAN])
    BY <2>2, <2>3
  <2> QED
    BY <1>3, <2>1, <2>4 DEF Status, Goto
<1>4. ASSUME Refuse \/ Reply \/ Complete PROVE Rest
  <2> DEFINE bad == [kind |-> "reply", ok |-> FALSE, waiting |-> FALSE, pids |-> {}]
             pids == IF \E i \in DOMAIN launched : launched[i].terminal THEN launchedPids ELSE {}
             good == [kind |-> "reply", ok |-> TRUE, waiting |-> Waiting, pids |-> pids]
             over == [kind |-> "completion"]
  <2>1. launchedPids \subseteq Pids
    BY LaunchedPids
  <2>2. Waiting \in BOOLEAN
    <3>1. request.wait \in BOOLEAN
      BY OpenRequestAssumption
    <3> QED
      BY <3>1 DEF Waiting
  <2>3. bad \in Frames /\ good \in Frames /\ over \in Frames
    BY <2>1, <2>2 DEF Frames
  <2>4. \E f \in {bad, good, over} : Send(f)
    BY <1>4 DEF Refuse, Reply, Complete
  <2> HIDE DEF bad, good, over
  <2>5. inbox' \in Seq(Frames)
    BY <2>3, <2>4 DEF Send
  <2> QED
    BY <1>4, <1>k, <2>5 DEF Refuse, Reply, Complete, Goto
<1>5. ASSUME NEW p \in Pids, WaitReap(p) PROVE Rest
  BY <1>5, <1>k DEF WaitReap
<1>6. CASE ReceiveReply
  <2>1. Head(inbox) \in Frames /\ Tail(inbox) \in Seq(Frames) /\ Head(inbox) = inbox[1]
        /\ 1 \in DOMAIN inbox
    BY <1>6 DEF ReceiveReply
  <2>2. Head(inbox).kind = "reply"
    BY <1>6, <2>1 DEF ReceiveReply, FramesAgree
  <2>3. Head(inbox).pids \in SUBSET Pids
    BY <2>1, <2>2 DEF Frames
  <2> QED
    BY <1>6, <1>k, <2>1, <2>3 DEF ReceiveReply
<1>7. CASE ReceiveCompletion
  BY <1>7, <1>k DEF ReceiveCompletion
<1>8. CASE Ask \/ ReplyTimesOut \/ Closed \/ Remember \/ Forward \/ Killed
  BY <1>8, <1>k, Zenon DEF Ask, ReplyTimesOut, Closed, Remember, Forward, Killed
<1>9. ASSUME NEW p \in Pids, Exec(p) \/ FailChild(p) PROVE Rest
  BY <1>9, <1>k, Zenon DEF Exec, FailChild
<1>10. ASSUME NEW p \in Pids, HandlerEnds(p) \/ HolderEnds(p) PROVE Rest
  BY <1>10, <1>k, Zenon DEF HandlerEnds, HolderEnds
<1>11. ASSUME NEW p \in Pids, Adopted(p) \/ OtherGroup(p) PROVE Rest
  BY <1>11, <1>k, Zenon DEF Adopted, OtherGroup
<1> HIDE DEF Rest
<1> QED
  BY <1>1, <1>2, <1>3, <1>4, <1>5, <1>6, <1>7, <1>8, <1>9, <1>10, <1>11
     DEF Next, Worker, Caller, Processes

\* What the pipe returns keeps telling how far the handler got.
LEMMA GroupsStep ==
    ASSUME TypeOK, GroupsAgree, Next
    PROVE  GroupsAgree'
<1> SUFFICES ASSUME NEW p \in Pids
             PROVE  /\ HandlerRuns(group'[p]) => group'[p].whose = "request"
                    /\ group'[p].handler = "starting" => group'[p].status = "open"
                    /\ group'[p].status = "errno" => group'[p].handler = "ended"
  BY DEF GroupsAgree, Starting
<1>1. /\ HandlerRuns(group[p]) => group[p].whose = "request"
      /\ group[p].handler = "starting" => group[p].status = "open"
      /\ group[p].status = "errno" => group[p].handler = "ended"
  BY DEF GroupsAgree, Starting
<1>2. CASE Evolves(group[p], group'[p])
  BY <1>1, <1>2 DEF Evolves, HandlerRuns
<1>3. CASE FailChild(p) /\ group'[p].handler = "ended"
  BY <1>3 DEF HandlerRuns
<1>4. CASE Spawn /\ group'[p] = Launch(request.terminal[Len(launched) + 1])
  BY <1>4 DEF Launch, Free
<1>5. CASE group'[p] \in {Free, Other}
  BY <1>5 DEF Free, Other, HandlerRuns
<1> QED
  BY <1>2, <1>3, <1>4, <1>5, GroupStep
\* The worker's lists keep telling which launches are in its hands.
LEMMA LaunchesStep ==
    ASSUME TypeOK, GroupsAgree, LaunchesAgree, Next
    PROVE  LaunchesAgree'
<1> USE DEF callerVars, workerVars, processVars, callerRest
<1> SUFFICES ASSUME worker' \in InHand
             PROVE  /\ \A p \in Pids : group'[p].whose = "request" <=> p \in Mine'
                    /\ \A i \in DOMAIN launched' :
                          launched'[i].pid \notin results' =>
                              group'[launched'[i].pid].terminal = launched'[i].terminal
                    /\ \A p \in Pids : group'[p].handler = "starting" =>
                          worker' = "status" /\ p = current'
                    /\ failed' => worker' = "status" /\ group'[current'].status = "errno"
                    /\ worker' = "status" => current' \in Pids \ launchedPids'
                    /\ worker' # "wait" => results' = {}
                    /\ worker' \in {"receive", "resolve"} => launched' = <<>>
  BY DEF LaunchesAgree, Starting
<1> DEFINE Goal == /\ \A p \in Pids : group'[p].whose = "request" <=> p \in Mine'
                   /\ \A i \in DOMAIN launched' :
                         launched'[i].pid \notin results' =>
                             group'[launched'[i].pid].terminal = launched'[i].terminal
                   /\ \A p \in Pids : group'[p].handler = "starting" =>
                         worker' = "status" /\ p = current'
                   /\ failed' => worker' = "status" /\ group'[current'].status = "errno"
                   /\ worker' = "status" => current' \in Pids \ launchedPids'
                   /\ worker' # "wait" => results' = {}
                   /\ worker' \in {"receive", "resolve"} => launched' = <<>>
<1> SUFFICES Goal
  OBVIOUS
<1>t. /\ group \in [Pids -> Group]
      /\ launchedPids \subseteq Pids
      /\ \A i \in DOMAIN launched : launched[i].pid \in launchedPids
      /\ results \subseteq launchedPids
  BY LaunchedPids DEF TypeOK
<1>h. ASSUME worker \in InHand
      PROVE  /\ \A p \in Pids : group[p].whose = "request" <=> p \in Mine
             /\ \A i \in DOMAIN launched :
                   launched[i].pid \notin results =>
                       group[launched[i].pid].terminal = launched[i].terminal
             /\ \A p \in Pids : group[p].handler = "starting" => worker = "status" /\ p = current
             /\ failed => worker = "status" /\ group[current].status = "errno"
             /\ worker = "status" => current \in Pids \ launchedPids
             /\ worker # "wait" => results = {}
             /\ worker \in {"receive", "resolve"} => launched = <<>>
  BY <1>h DEF LaunchesAgree, Starting
<1>1. ASSUME UNCHANGED <<launched, results, current, group, failed>>, worker \in InHand,
             \/ worker' = worker
             \/ worker # "status" /\ worker' \in {"resolve", "spawn", "reply", "wait"} /\ results = {}
                /\ (worker' = "resolve" => worker = "receive")
      PROVE  Goal
  <2>1. Mine' = Mine
    BY <1>1 DEF Mine, launchedPids
  <2>2. launchedPids' = launchedPids
    BY <1>1 DEF launchedPids
  <2> QED
    BY <1>1, <1>h, <2>1, <2>2
<1>2. CASE Receive \/ Resolve \/ SpawnDone \/ Reply
  BY <1>1, <1>2, <1>h DEF Receive, Resolve, SpawnDone, Reply, Goto, InHand
<1>3. CASE \/ ReceiveFails \/ Refuse \/ Complete \/ CallerLeft \/ SendFails \/ SpawnFails
           \/ Collect \/ WorkerKilled
  BY <1>3 DEF ReceiveFails, Refuse, Complete, CallerLeft, SendFails, SpawnFails, Collect,
              WorkerKilled, Goto, InHand
<1>4. CASE Ask \/ ReceiveReply \/ ReceiveCompletion \/ ReplyTimesOut \/ Closed \/ Remember
           \/ Forward \/ Killed
  BY <1>1, <1>4 DEF Ask, ReceiveReply, ReceiveCompletion, ReplyTimesOut, Closed, Remember,
                    Forward, Killed
<1>5. CASE Spawn
  <2>1. PICK q \in Pids :
           /\ group[q] = Free
           /\ current' = q
           /\ group' = [group EXCEPT ![q] = Launch(request.terminal[Len(launched) + 1])]
    BY <1>5, Zenon DEF Spawn
  <2>2. /\ worker = "spawn" /\ worker' = "status"
        /\ UNCHANGED <<launched, results, failed>>
    BY <1>5 DEF Spawn, Goto
  <2>3. launchedPids' = launchedPids
    BY <2>2 DEF launchedPids
  <2>4. /\ results = {} /\ ~failed
        /\ \A p \in Pids : group[p].whose = "request" <=> p \in launchedPids
    BY <1>h, <2>2 DEF InHand, Mine
  <2>5. Mine' = launchedPids \union {q}
    BY <2>1, <2>2, <2>3, <2>4 DEF Mine
  <2>6. q \notin launchedPids
    BY <2>1, <2>4 DEF Free
  <2>7. group'[q].whose = "request" /\ \A p \in Pids : p # q => group'[p] = group[p]
    BY <1>t, <2>1 DEF Launch, Free
  <2>8. \A i \in DOMAIN launched : launched[i].pid # q
    BY <1>t, <2>6
  <2> QED
    BY <1>h, <1>t, <2>1, <2>2, <2>3, <2>4, <2>5, <2>6, <2>7, <2>8 DEF InHand
<1>6. CASE Status
  <2>1. /\ worker = "status" /\ worker' = "spawn"
        /\ group[current].status = "eof"
        /\ UNCHANGED <<current, results, group, failed>>
    BY <1>6 DEF Status, Goto
  <2>2. /\ current \in Pids \ launchedPids
        /\ results = {} /\ ~failed
        /\ \A p \in Pids : group[p].whose = "request" <=> p \in launchedPids \union {current}
        /\ \A p \in Pids : group[p].handler # "starting"
    <3>1. group[current].handler # "starting" \/ current \notin Pids
      BY <2>1 DEF GroupsAgree, Starting
    <3> QED
      BY <1>h, <2>1, <3>1 DEF InHand, Mine
  <2>3. /\ launchedPids' = launchedPids \union {current}
        /\ \A i \in 1..Len(launched) : launched'[i] = launched[i]
        /\ launched'[Len(launched) + 1] = [pid |-> current, terminal |-> group[current].terminal]
        /\ DOMAIN launched' = 1..(Len(launched) + 1)
        /\ DOMAIN launched = 1..Len(launched)
    BY <1>6, <2>2, OneMoreLaunch
  <2>4. Mine' = launchedPids \union {current}
    BY <2>1, <2>2, <2>3 DEF Mine
  <2>5. ASSUME NEW i \in DOMAIN launched'
        PROVE  group'[launched'[i].pid].terminal = launched'[i].terminal
    <3>1. Len(launched) \in Nat
      BY DEF TypeOK
    <3>2. CASE i \in DOMAIN launched
      BY <1>h, <2>1, <2>2, <2>3, <3>2 DEF InHand
    <3>3. CASE i = Len(launched) + 1
      BY <2>1, <2>3, <3>3
    <3> QED
      BY <2>3, <3>1, <3>2, <3>3
  <2> QED
    BY <2>1, <2>2, <2>4, <2>5
<1>7. ASSUME NEW q \in Pids, WaitReap(q) PROVE Goal
  <2>1. /\ worker = "wait" /\ worker' = worker
        /\ q \in launchedPids \ results
        /\ results' = results \union {q}
        /\ UNCHANGED <<current, launched, failed>>
        /\ group'[q] = Free
        /\ \A p \in Pids : p # q => group'[p] = group[p]
    BY <1>7, <1>t DEF WaitReap
  <2>2. launchedPids' = launchedPids
    BY <2>1 DEF launchedPids
  <2>3. Mine = launchedPids \ results /\ Mine' = (launchedPids \ results) \ {q}
    BY <2>1, <2>2 DEF Mine
  <2>4. Free.whose # "request" /\ Free.handler # "starting"
    BY DEF Free
  <2> QED
    BY <1>h, <1>t, <2>1, <2>2, <2>3, <2>4 DEF InHand
<1>8. ASSUME NEW q \in Pids,
             \/ Exec(q) \/ FailChild(q) \/ HandlerEnds(q) \/ HolderEnds(q) \/ Adopted(q)
             \/ OtherGroup(q)
      PROVE  Goal
  <2>1. UNCHANGED <<worker, current, launched, results>>
    BY <1>8 DEF Exec, FailChild, HandlerEnds, HolderEnds, Adopted, OtherGroup
  <2>2. Mine' = Mine /\ launchedPids' = launchedPids
    BY <2>1 DEF Mine, launchedPids
  <2>3. ASSUME NEW p \in Pids
        PROVE  /\ group'[p].whose = "request" <=> group[p].whose = "request"
               /\ group[p].whose = "request" => group'[p].terminal = group[p].terminal
               /\ group'[p].handler = "starting" => group[p].handler = "starting"
               /\ group[p].status = "errno" => \/ group'[p].status = "errno"
                                               \/ group[p].whose # "request"
    <3>1. /\ group[p].status = "errno" => group[p].handler = "ended"
      BY DEF GroupsAgree
    <3>2. \/ Evolves(group[p], group'[p])
          \/ /\ group'[p].handler = "ended" /\ group'[p].status = "errno"
             /\ group'[p].whose = group[p].whose /\ group'[p].terminal = group[p].terminal
          \/ group[p] = Free /\ group'[p] = Other
          \/ group[p].whose = "other" /\ group'[p] = Free
      <4>1. ~Spawn /\ ~Collect
        BY <2>1 DEF Spawn, Collect, Goto
      <4>2. ~WaitReap(p)
        BY <2>1 DEF WaitReap
      <4>3. ~Adopted(p)
        BY <2>1 DEF Adopted, InHand, WorkerGone
      <4> QED
        BY <4>1, <4>2, <4>3, GroupStep
    <3> QED
      BY <3>1, <3>2 DEF Evolves, HandlerRuns, Free, Other
  <2>4. \A i \in DOMAIN launched : launched[i].pid \notin results => launched[i].pid \in Mine
    BY <1>t DEF Mine
  <2>5. failed' => failed \/ FailChild(q)
    BY <1>8, Zenon DEF Exec, FailChild, HandlerEnds, HolderEnds, Adopted, OtherGroup
  <2>6. failed' => worker' = "status" /\ group'[current'].status = "errno"
    <3>1. CASE failed
      <4>1. worker = "status" /\ group[current].status = "errno" /\ current \in Pids
            /\ current \in Mine
        BY <1>h, <2>1, <3>1 DEF Mine
      <4> QED
        BY <1>h, <2>1, <2>3, <4>1
    <3>2. CASE FailChild(q)
      <4>1. worker = "status" /\ q = current
        BY <1>h, <2>1, <3>2 DEF FailChild
      <4>2. group'[q] = [group[q] EXCEPT !.handler = "ended", !.status = "errno"]
        BY <1>t, <3>2 DEF FailChild
      <4>3. group'[q].status = "errno"
        BY <1>t, <4>2 DEF Group
      <4> QED
        BY <2>1, <4>1, <4>3
    <3> QED
      BY <2>5, <3>1, <3>2
  <2> QED
    BY <1>h, <1>t, <2>1, <2>2, <2>3, <2>4, <2>6
<1> HIDE DEF Goal
<1> QED
  BY <1>2, <1>3, <1>4, <1>5, <1>6, <1>7, <1>8 DEF Next, Worker, Caller, Processes
\* Only spawn() starts a handler, and only a handler that is starting can fail.
LEMMA NoNewHandler ==
    ASSUME TypeOK, Next, ~Spawn
    PROVE  /\ Quiet => Quiet'
           /\ \A p \in Pids : Starting(p)' => Starting(p)
           /\ failed' => failed \/ \E p \in Pids : Starting(p)
<1>1. ASSUME NEW p \in Pids
      PROVE  /\ HandlerRuns(group'[p]) => HandlerRuns(group[p])
             /\ group'[p].handler = "starting" => group[p].handler = "starting"
  BY GroupStep DEF Evolves, HandlerRuns, Free, Other
<1>2. failed' => failed \/ \E p \in Pids : group[p].handler = "starting"
  BY Zenon DEF Next, Worker, Caller, Processes, Receive, ReceiveFails, Resolve, SpawnFails,
         SpawnDone, Status, Collect, Refuse, Reply, SendFails, WaitReap, Complete,
         CallerLeft, WorkerKilled, Ask, ReceiveReply, ReceiveCompletion, ReplyTimesOut,
         Closed, Remember, Forward, Killed, Exec, FailChild, HandlerEnds, HolderEnds,
         Adopted, OtherGroup, callerRest, processVars
<1> QED
  BY <1>1, <1>2 DEF Quiet, Starting

\* A frame that is sent is the last one on its way.
LEMMA OneMoreFrame ==
    ASSUME inbox \in Seq(Frames), NEW f \in Frames, CallerOpen, Send(f)
    PROVE  /\ DOMAIN inbox = 1..Len(inbox)
           /\ Len(inbox) \in Nat
           /\ DOMAIN inbox' = 1..(Len(inbox) + 1)
           /\ \A i \in 1..Len(inbox) : inbox'[i] = inbox[i]
           /\ inbox'[Len(inbox) + 1] = f
  BY DEF Send

\* A frame that is received was the first one.
LEMMA OneFrameLess ==
    ASSUME inbox \in Seq(Frames), inbox # <<>>, inbox' = Tail(inbox)
    PROVE  /\ Head(inbox) = inbox[1]
           /\ 1 \in DOMAIN inbox
           /\ \A i \in DOMAIN inbox' : i \in Nat \ {0} /\ i + 1 \in DOMAIN inbox
                                       /\ inbox'[i] = inbox[i + 1]
  OBVIOUS

\* The worker sends one reply, then at most a completion, and the caller reads
\* them in that order.
LEMMA FramesStep ==
    ASSUME TypeOK, LaunchesAgree, FramesAgree, Next
    PROVE  FramesAgree'
<1> USE DEF callerVars, workerVars, processVars, callerRest
<1> DEFINE Goal == /\ worker' \in BeforeReply => inbox' = <<>> /\ caller' \notin {"wait", "exit0"}
                   /\ worker' = "wait" /\ caller' \in {"send", "reply"} => inbox' # <<>>
                   /\ caller' \in {"send", "reply"} =>
                         \A i \in DOMAIN inbox' : inbox'[i].kind = "reply" <=> i = 1
                   /\ caller' = "wait" => \A i \in DOMAIN inbox' : inbox'[i].kind = "completion"
<1>t. inbox \in Seq(Frames) /\ inbox' \in Seq(Frames)
  BY TypeStep DEF FramesAgree
<1> SUFFICES Goal
  BY <1>t DEF FramesAgree
<1>h. /\ worker \in BeforeReply => inbox = <<>> /\ caller \notin {"wait", "exit0"}
      /\ worker = "wait" /\ caller \in {"send", "reply"} => inbox # <<>>
      /\ caller \in {"send", "reply"} =>
            \A i \in DOMAIN inbox : inbox[i].kind = "reply" <=> i = 1
      /\ caller = "wait" => \A i \in DOMAIN inbox : inbox[i].kind = "completion"
  BY DEF FramesAgree
<1>1. ASSUME UNCHANGED <<inbox, caller>>,
             worker' \in BeforeReply => worker \in BeforeReply,
             worker' = "wait" => worker = "wait"
      PROVE  Goal
  BY <1>1, <1>h
<1>2. CASE \/ Receive \/ ReceiveFails \/ Resolve \/ Spawn \/ SpawnFails \/ SpawnDone \/ Status
           \/ Collect \/ SendFails \/ CallerLeft \/ WorkerKilled \/ Remember \/ Forward
  BY <1>1, <1>2 DEF Receive, ReceiveFails, Resolve, Spawn, SpawnFails, SpawnDone, Status, Collect,
                    SendFails, CallerLeft, WorkerKilled, Remember, Forward, Goto, BeforeReply
<1>3. ASSUME NEW p \in Pids,
             \/ WaitReap(p) \/ Exec(p) \/ FailChild(p) \/ HandlerEnds(p) \/ HolderEnds(p)
             \/ Adopted(p) \/ OtherGroup(p)
      PROVE  Goal
  BY <1>1, <1>3 DEF WaitReap, Exec, FailChild, HandlerEnds, HolderEnds, Adopted, OtherGroup
<1>4. CASE ~CallerOpen /\ (Refuse \/ Complete)
  BY <1>1, <1>4 DEF Refuse, Complete, Send, Goto, BeforeReply
<1>5. ASSUME Refuse \/ Reply, CallerOpen PROVE Goal
  <2>1. /\ worker \in {"refuse", "reply"} /\ worker' \in {"wait", "exit"}
        /\ inbox = <<>> /\ caller \in {"send", "reply"} /\ caller' = caller
    BY <1>5, <1>h DEF Refuse, Reply, Goto, BeforeReply, CallerOpen, Ended, TypeOK
  <2>2. PICK f : inbox' = <<f>> /\ f.kind = "reply"
    <3>1. PICK f : inbox' = Append(inbox, f) /\ f.kind = "reply"
      BY <1>5 DEF Refuse, Reply, Send
    <3> QED
      BY <2>1, <3>1
  <2>3. DOMAIN inbox' = {1} /\ inbox'[1].kind = "reply" /\ inbox' # <<>>
    BY <2>2
  <2> QED
    BY <2>1, <2>3 DEF BeforeReply
<1>6. ASSUME Complete, CallerOpen PROVE Goal
  <2> DEFINE f == [kind |-> "completion"]
  <2>1. /\ worker = "wait" /\ worker' = "exit" /\ caller' = caller
        /\ Send(f)
    BY <1>6 DEF Complete, Goto
  <2>2. f \in Frames /\ f.kind = "completion"
    BY DEF Frames
  <2> HIDE DEF f
  <2>3. /\ DOMAIN inbox = 1..Len(inbox) /\ Len(inbox) \in Nat
        /\ DOMAIN inbox' = 1..(Len(inbox) + 1)
        /\ \A i \in 1..Len(inbox) : inbox'[i] = inbox[i]
        /\ inbox'[Len(inbox) + 1] = f
    BY <1>6, <1>t, <2>1, <2>2, OneMoreFrame
  <2>4. \A i \in DOMAIN inbox' :
           \/ i \in DOMAIN inbox /\ inbox'[i] = inbox[i]
           \/ i = Len(inbox) + 1 /\ inbox'[i].kind = "completion"
    BY <2>2, <2>3
  <2>5. caller \in {"send", "reply"} => Len(inbox) + 1 # 1
    BY <1>h, <1>t, <2>1
  <2> QED
    BY <1>h, <2>1, <2>4, <2>5 DEF BeforeReply
<1>7. CASE Ask
  BY <1>7, <1>h DEF Ask
<1>8. CASE ReceiveReply \/ ReceiveCompletion
  <2>1. /\ inbox # <<>> /\ inbox' = Tail(inbox) /\ worker' = worker
        /\ caller' \in {"exit0", "exit1", "wait"}
        /\ caller' = "wait" => caller = "reply"
    BY <1>8 DEF ReceiveReply, ReceiveCompletion
  <2>2. worker \notin BeforeReply
    BY <1>h, <2>1
  <2>3. ASSUME caller' = "wait", NEW i \in DOMAIN inbox' PROVE inbox'[i].kind = "completion"
    <3>1. i \in Nat \ {0} /\ i + 1 \in DOMAIN inbox /\ inbox'[i] = inbox[i + 1]
      BY <1>t, <2>1, OneFrameLess
    <3>2. inbox[i + 1].kind # "reply"
      BY <1>h, <2>1, <2>3, <3>1
    <3>3. inbox[i + 1] \in Frames
      BY <1>t, <3>1
    <3> QED
      BY <3>1, <3>2, <3>3 DEF Frames
  <2> QED
    BY <2>1, <2>2, <2>3
<1>9. CASE ReplyTimesOut \/ Closed \/ Killed
  BY <1>9, <1>h DEF ReplyTimesOut, Closed, Killed
<1>10. CASE Reply
  BY <1>5, <1>10 DEF Reply
<1> HIDE DEF Goal
<1> QED
  BY <1>2, <1>3, <1>4, <1>5, <1>6, <1>7, <1>8, <1>9, <1>10 DEF Next, Worker, Caller, Processes
\* Each frame on its way was there before, or is the one this step sends.
LEMMA FrameOrigin ==
    ASSUME TypeOK, FramesAgree, Next, NEW i \in DOMAIN inbox'
    PROVE  \/ \E k \in DOMAIN inbox : inbox'[i] = inbox[k]
           \/ Refuse /\ inbox'[i] = [kind |-> "reply", ok |-> FALSE, waiting |-> FALSE, pids |-> {}]
           \/ Reply /\ inbox'[i].kind = "reply" /\ inbox'[i].waiting = Waiting
           \/ Complete /\ inbox'[i] = [kind |-> "completion"]
<1> USE DEF callerVars, workerVars, processVars, callerRest
<1> DEFINE Old == \E k \in DOMAIN inbox : inbox'[i] = inbox[k]
<1>t. inbox \in Seq(Frames)
  BY DEF FramesAgree
<1>1. CASE UNCHANGED inbox
  BY <1>1
<1>2. ASSUME NEW f, Send(f) PROVE Old \/ inbox'[i] = f
  <2>1. CASE inbox' = inbox
    BY <2>1
  <2>2. CASE inbox' = Append(inbox, f)
    BY <1>t, <2>2
  <2> QED
    BY <1>2, <2>1, <2>2 DEF Send
<1>3. ASSUME Refuse PROVE Old \/ inbox'[i] = [kind |-> "reply", ok |-> FALSE, waiting |-> FALSE, pids |-> {}]
  BY <1>2, <1>3 DEF Refuse
<1>4. ASSUME Reply PROVE Old \/ (inbox'[i].kind = "reply" /\ inbox'[i].waiting = Waiting)
  <2> DEFINE pids == IF \E k \in DOMAIN launched : launched[k].terminal THEN launchedPids ELSE {}
             f == [kind |-> "reply", ok |-> TRUE, waiting |-> Waiting, pids |-> pids]
  <2>1. Send(f)
    BY <1>4 DEF Reply
  <2>2. f.kind = "reply" /\ f.waiting = Waiting
    OBVIOUS
  <2> HIDE DEF f
  <2> QED
    BY <1>2, <2>1, <2>2
<1>5. ASSUME Complete PROVE Old \/ inbox'[i] = [kind |-> "completion"]
  BY <1>2, <1>5 DEF Complete
<1>6. CASE ReceiveReply \/ ReceiveCompletion
  <2>1. inbox # <<>> /\ inbox' = Tail(inbox)
    BY <1>6 DEF ReceiveReply, ReceiveCompletion
  <2> QED
    BY <1>t, <2>1, OneFrameLess
<1>7. CASE \/ Receive \/ ReceiveFails \/ Resolve \/ Spawn \/ SpawnFails \/ SpawnDone \/ Status
           \/ Collect \/ SendFails \/ CallerLeft \/ WorkerKilled \/ Remember \/ Forward
           \/ Ask \/ ReplyTimesOut \/ Closed \/ Killed
  BY <1>1, <1>7 DEF Receive, ReceiveFails, Resolve, Spawn, SpawnFails, SpawnDone, Status, Collect,
                    SendFails, CallerLeft, WorkerKilled, Remember, Forward, Ask, ReplyTimesOut,
                    Closed, Killed
<1>8. ASSUME NEW p \in Pids,
             \/ WaitReap(p) \/ Exec(p) \/ FailChild(p) \/ HandlerEnds(p) \/ HolderEnds(p)
             \/ Adopted(p) \/ OtherGroup(p)
      PROVE  UNCHANGED inbox
  BY <1>8 DEF WaitReap, Exec, FailChild, HandlerEnds, HolderEnds, Adopted, OtherGroup
<1> HIDE DEF Old
<1>9. Old \/ (Refuse \/ Reply \/ Complete)
  BY <1>1, <1>6, <1>7, <1>8 DEF Next, Worker, Caller, Processes, Old
<1> QED
  BY <1>3, <1>4, <1>5, <1>9 DEF Old

\* When the worker has nothing left in hand, nothing it launched runs.
LEMMA NothingInHand ==
    ASSUME TypeOK, GroupsAgree, LaunchesAgree, worker = "wait", results = launchedPids
    PROVE  Quiet
<1>1. \A p \in Pids : group[p].whose # "request"
  BY DEF LaunchesAgree, InHand, Mine
<1> QED
  BY <1>1 DEF GroupsAgree, Quiet

\* What was said to the caller stays true.
LEMMA TrueStep ==
    ASSUME TypeOK, GroupsAgree, LaunchesAgree, FramesAgree, FramesAreTrue, Next
    PROVE  FramesAreTrue'
<1> USE DEF callerVars, workerVars, processVars, callerRest
<1>s. ASSUME worker \notin BeforeReply
      PROVE  /\ Waiting' <=> Waiting
             /\ Quiet => Quiet'
             /\ \A p \in Pids : Starting(p)' => Starting(p)
             /\ failed' => failed \/ \E p \in Pids : Starting(p)
             /\ worker \in WorkerGone => worker' \in WorkerGone
  <2>1. ~Spawn /\ ~Status
    BY <1>s DEF Spawn, Status, Goto, BeforeReply
  <2>2. UNCHANGED <<launched, request>> /\ (worker \in WorkerGone => worker' \in WorkerGone)
    BY <2>1, Zenon DEF Next, Worker, Caller, Processes, Receive, ReceiveFails, Resolve, SpawnFails,
                SpawnDone, Collect, Refuse, Reply, SendFails, WaitReap, Complete,
                CallerLeft, WorkerKilled, Ask, ReceiveReply, ReceiveCompletion, ReplyTimesOut,
                Closed, Remember, Forward, Killed, Exec, FailChild, HandlerEnds, HolderEnds,
                Adopted, OtherGroup, Goto, WorkerGone
  <2> QED
    BY <2>1, <2>2, NoNewHandler DEF Waiting
<1>a. Accepted => worker \notin BeforeReply
  BY DEF Accepted, FramesAgree
<1>c. \/ caller' = caller
      \/ caller' \notin {"wait", "exit0"}
      \/ ReceiveReply \/ ReceiveCompletion
  BY Zenon DEF Next, Worker, Caller, Processes, Receive, ReceiveFails, Resolve, Spawn, SpawnFails,
         SpawnDone, Status, Collect, Refuse, Reply, SendFails, WaitReap, Complete,
         CallerLeft, WorkerKilled, Ask, ReplyTimesOut, Closed, Remember, Forward, Killed, Exec,
         FailChild, HandlerEnds, HolderEnds, Adopted, OtherGroup
<1>r. ASSUME ReceiveReply \/ ReceiveCompletion
      PROVE  /\ 1 \in DOMAIN inbox /\ Head(inbox) = inbox[1]
             /\ worker \notin BeforeReply
  <2>1. inbox # <<>> /\ inbox' = Tail(inbox)
    BY <1>r DEF ReceiveReply, ReceiveCompletion
  <2> QED
    BY <2>1, OneFrameLess DEF FramesAgree
<1>1. ASSUME Accepted' PROVE ~failed' /\ \A p \in Pids : ~Starting(p)'
  <2>1. CASE Accepted
    BY <1>a, <1>s, <2>1 DEF FramesAreTrue
  <2>2. CASE Reply
    <3>1. worker = "reply" /\ UNCHANGED <<group, failed>>
      BY <2>2 DEF Reply, Goto
    <3> QED
      BY <3>1 DEF LaunchesAgree, InHand, Starting
  <2>3. CASE ~Reply /\ \E i \in DOMAIN inbox' : inbox'[i].kind = "reply" /\ inbox'[i].ok
    <3>1. PICK i \in DOMAIN inbox' : inbox'[i].kind = "reply" /\ inbox'[i].ok
      BY <2>3
    <3>2. \E k \in DOMAIN inbox : inbox'[i] = inbox[k]
      BY <2>3, <3>1, FrameOrigin
    <3> QED
      BY <2>1, <3>1, <3>2 DEF Accepted
  <2>4. CASE caller' \in {"wait", "exit0"}
    <3>1. CASE ReceiveReply
      <4>1. caller = "reply" /\ Head(inbox).ok
        BY <2>4, <3>1 DEF ReceiveReply
      <4>2. Head(inbox).kind = "reply"
        BY <1>r, <3>1, <4>1 DEF FramesAgree
      <4> QED
        BY <1>r, <2>1, <3>1, <4>1, <4>2 DEF Accepted
    <3>2. CASE ReceiveCompletion
      BY <2>1, <3>2 DEF Accepted, ReceiveCompletion
    <3>3. CASE caller' = caller
      BY <2>1, <2>4, <3>3 DEF Accepted
    <3> QED
      BY <1>c, <2>4, <3>1, <3>2, <3>3
  <2> QED
    BY <1>1, <2>1, <2>2, <2>3, <2>4 DEF Accepted
<1>2. ASSUME NEW i \in DOMAIN inbox', inbox'[i].kind = "reply", inbox'[i].ok
      PROVE  inbox'[i].waiting <=> Waiting'
  <2>1. CASE \E k \in DOMAIN inbox : inbox'[i] = inbox[k]
    <3>1. PICK k \in DOMAIN inbox : inbox'[i] = inbox[k]
      BY <2>1
    <3>2. (inbox[k].waiting <=> Waiting) /\ Accepted
      BY <1>2, <3>1 DEF FramesAreTrue, Accepted
    <3> QED
      BY <1>a, <1>s, <3>1, <3>2
  <2>2. CASE Reply /\ inbox'[i].waiting = Waiting
    <3>1. UNCHANGED <<request, launched>>
      BY <2>2 DEF Reply
    <3> QED
      BY <2>2, <3>1, Zenon DEF Waiting
  <2> QED
    BY <1>2, <2>1, <2>2, FrameOrigin
<1>3. ASSUME NEW i \in DOMAIN inbox', inbox'[i].kind = "completion"
      PROVE  worker' \in WorkerGone /\ Quiet'
  <2>1. CASE \E k \in DOMAIN inbox : inbox'[i] = inbox[k]
    <3>1. worker \in WorkerGone /\ Quiet
      BY <1>3, <2>1 DEF FramesAreTrue
    <3> QED
      BY <1>s, <3>1 DEF WorkerGone, BeforeReply
  <2>2. CASE Complete
    <3>1. worker = "wait" /\ worker' = "exit" /\ results = launchedPids /\ group' = group
      BY <2>2 DEF Complete, Goto
    <3>2. Quiet
      BY <3>1, NothingInHand
    <3> QED
      BY <3>1, <3>2 DEF Quiet, WorkerGone
  <2> QED
    BY <1>3, <2>1, <2>2, FrameOrigin
<1>4. ASSUME caller' = "exit0" PROVE ~Waiting' \/ (worker' \in WorkerGone /\ Quiet')
  <2>1. CASE caller = "exit0"
    <3>1. (~Waiting \/ (worker \in WorkerGone /\ Quiet)) /\ Accepted
      BY <2>1 DEF FramesAreTrue, Accepted
    <3> QED
      BY <1>a, <1>s, <3>1
  <2>2. CASE ReceiveReply
    <3>1. caller = "reply" /\ Head(inbox).ok /\ ~Head(inbox).waiting
      BY <1>4, <2>2 DEF ReceiveReply
    <3>2. Head(inbox).kind = "reply"
      BY <1>r, <2>2, <3>1 DEF FramesAgree
    <3>3. ~Waiting
      BY <1>r, <2>2, <3>1, <3>2 DEF FramesAreTrue
    <3> QED
      BY <1>r, <1>s, <2>2, <3>3
  <2>3. CASE ReceiveCompletion
    <3>1. Head(inbox).kind = "completion"
      BY <1>r, <2>3 DEF FramesAgree, ReceiveCompletion
    <3>2. worker \in WorkerGone /\ Quiet
      BY <1>r, <2>3, <3>1 DEF FramesAreTrue
    <3> QED
      BY <1>r, <1>s, <2>3, <3>2
  <2> QED
    BY <1>4, <1>c, <2>1, <2>2, <2>3
<1> QED
  BY <1>1, <1>2, <1>3, <1>4 DEF FramesAreTrue

-----------------------------------------------------------------------------
(* The theorems.                                                           *)

\* The two sides of a request, its frames and its process groups agree,
\* whatever is resolved and however callers, workers and handlers end.
THEOREM InvariantHolds == Spec => []RequestInvariant
<1>1. Init => RequestInvariant
  <2> SUFFICES ASSUME Init PROVE RequestInvariant
    OBVIOUS
  <2>1. Free \in Group /\ Free.whose # "request" /\ Free.handler = "none" /\ Free.status = "open"
    BY DEF Free, Group
  <2>2. \A p \in Pids : group[p] = Free
    BY DEF Init
  <2>3. launchedPids = {} /\ Mine = {}
    BY DEF Init, launchedPids, Mine
  <2>4. TypeOK
    <3>1. launched \in Seq([pid : Pids, terminal : BOOLEAN]) /\ results \subseteq launchedPids
      BY DEF Init
    <3>2. pendingSignal \in BOOLEAN /\ sent \in BOOLEAN /\ failed \in BOOLEAN
      BY Zenon DEF Init
    <3>3. group \in [Pids -> Group]
      BY <2>1 DEF Init
    <3> QED
      BY <3>1, <3>2, <3>3 DEF Init, TypeOK, Ended, WorkerGone
  <2>5. GroupsAgree
    BY <2>1, <2>2 DEF GroupsAgree, HandlerRuns, Starting
  <2>6. LaunchesAgree
    BY <2>1, <2>2, <2>3 DEF Init, LaunchesAgree, Starting
  <2>7. FramesAgree
    BY DEF Init, FramesAgree, BeforeReply
  <2>8. FramesAreTrue
    BY DEF Init, FramesAreTrue, Accepted
  <2> QED
    BY <2>4, <2>5, <2>6, <2>7, <2>8 DEF RequestInvariant
<1>2. RequestInvariant /\ [Next]_vars => RequestInvariant'
  <2> SUFFICES ASSUME RequestInvariant, [Next]_vars PROVE RequestInvariant'
    OBVIOUS
  <2>1. CASE Next
    BY <2>1, TypeStep, GroupsStep, LaunchesStep, FramesStep, TrueStep
    DEF RequestInvariant, FramesAgree
  <2>2. CASE UNCHANGED vars
    <3>1. /\ UNCHANGED <<request, caller, pendingSignal, targets, worker, current, launched>>
          /\ UNCHANGED <<results, inbox, sent, group, failed>>
      BY <2>2 DEF vars, callerVars, workerVars
    <3>2. TypeOK' /\ GroupsAgree'
      BY <3>1 DEF RequestInvariant, TypeOK, GroupsAgree, Starting, launchedPids
    <3>3. LaunchesAgree'
      BY <3>1 DEF RequestInvariant, LaunchesAgree, Mine, launchedPids, Starting
    <3>4. FramesAgree' /\ FramesAreTrue'
      BY <3>1 DEF RequestInvariant, FramesAgree, FramesAreTrue, Accepted, Starting, Waiting, Quiet
    <3> QED
      BY <3>2, <3>3, <3>4 DEF RequestInvariant
  <2> QED
    BY <2>1, <2>2
<1> QED
  BY <1>1, <1>2, PTL DEF Spec

\* open -W returns 0 only after the end of every handler it launched.
THEOREM WaitsForHandlers == Spec => []WaitIsOver
<1>1. RequestInvariant => WaitIsOver
  BY DEF RequestInvariant, FramesAreTrue, WaitIsOver, Quiet
<1> QED
  BY <1>1, InvariantHolds, PTL

\* open returns 0 only if every handler was executed.
THEOREM FailuresAreReported == Spec => []FailureIsReported
<1>1. RequestInvariant => FailureIsReported
  BY DEF RequestInvariant, FramesAreTrue, Accepted, FailureIsReported
<1> QED
  BY <1>1, InvariantHolds, PTL

\* The SIGHUP for a caller that left is sent to the groups of this request only,
\* though IDs are given to other programs as soon as they are free.
THEOREM HangupIsForHandlers == Spec => HangupReachesHandlers
<1> DEFINE Step == CallerLeft => \A p \in Hangup : group[p].whose = "request"
<1>1. RequestInvariant => Step
  <2> SUFFICES ASSUME RequestInvariant, CallerLeft, NEW p \in Hangup
               PROVE  group[p].whose = "request"
    OBVIOUS
  <2>1. worker = "wait"
    BY DEF CallerLeft, Goto
  <2>2. p \in launchedPids \ results /\ p \in Pids
    BY LaunchedPids DEF RequestInvariant, Hangup
  <2> QED
    BY <2>1, <2>2 DEF RequestInvariant, LaunchesAgree, InHand, Mine
<1>2. RequestInvariant /\ [Next]_vars => [Step]_vars
  BY <1>1
<1> QED
  BY <1>2, InvariantHolds, PTL DEF Spec, HangupReachesHandlers

\* A worker that stops waiting leaves no handler on a terminal that was not hung up.
THEOREM TerminalsAreHungUp == Spec => HungUp
<1> DEFINE Step == worker = "wait" /\ worker' = "exit" =>
                     \A p \in Pids :
                        HandlerRuns(group[p]) /\ group[p].terminal => group'[p].hup
<1>1. RequestInvariant /\ [Next]_vars => [Step]_vars
  <2> SUFFICES ASSUME RequestInvariant, Next, worker = "wait", worker' = "exit",
                      NEW p \in Pids, HandlerRuns(group[p]), group[p].terminal
               PROVE  group'[p].hup
    OBVIOUS
  <2>1. Complete \/ CallerLeft
    BY DEF Next, Worker, Caller, Processes, Receive, ReceiveFails, Resolve, Spawn, SpawnFails,
           SpawnDone, Status, Collect, Refuse, Reply, SendFails, WaitReap, WorkerKilled, Ask,
           ReceiveReply, ReceiveCompletion, ReplyTimesOut, Closed, Remember, Forward, Killed,
           Exec, FailChild, HandlerEnds, HolderEnds, Adopted, OtherGroup, Goto, callerRest,
           processVars, workerVars
  <2>2. ~Complete
    BY NothingInHand DEF RequestInvariant, Complete, Quiet
  <2>3. p \in launchedPids \ results
    BY DEF RequestInvariant, GroupsAgree, LaunchesAgree, InHand, Mine
  <2>4. PICK i \in DOMAIN launched : launched[i].pid = p
    BY <2>3 DEF launchedPids
  <2>5. launched[i].terminal
    BY <2>3, <2>4 DEF RequestInvariant, LaunchesAgree, InHand
  <2>6. p \in Hangup
    BY <2>3, <2>4, <2>5 DEF Hangup
  <2>7. group'[p] = [group[p] EXCEPT !.hup = TRUE] /\ group[p] \in Group
    BY <2>1, <2>2, <2>6, Zenon DEF CallerLeft, RequestInvariant, TypeOK
  <2> QED
    BY <2>7 DEF Group
<1> QED
  BY <1>1, InvariantHolds, PTL DEF Spec, HungUp
=============================================================================
