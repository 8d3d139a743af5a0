--------------------------- MODULE ControlProofs ---------------------------
(***************************************************************************)
(* Proofs about launchd's control socket, for every number of launchds,    *)
(* connections and descriptors: who owns the endpoint, that no event       *)
(* reaches a later owner of its descriptor, that the override database     *)
(* keeps its promises when it is driven by requests, and that these are    *)
(* answered truly.                                                         *)
(***************************************************************************)
EXTENDS ControlChannel, FiniteSetTheorems, TLAPS

-----------------------------------------------------------------------------
(* The override database, for every set of labels and every database of the *)
(* image.                                                                   *)

(* What setOverride knows at each of its system calls: memory is the        *)
(* database, or empty after a read that failed; the database and whatever  *)
(* may come back after a loss of power are maps that were once intended;   *)
(* and the sibling is whole before it is synced and synced before it is    *)
(* renamed.                                                                *)
DatabaseInvariant ==
    /\ OverrideTypeOK
    /\ db \in versions /\ surviving \subseteq versions
    /\ MemoryMatchesDisk
    /\ step # "idle" => loaded /\ updated \in versions
    /\ step \in {"sync", "rename"} => tmp.written = "whole"
    /\ step = "rename" => tmp.synced

(* The database of the image is where the induction begins. *)
LEMMA DatabaseInit == OverrideInit => DatabaseInvariant
  <1> SUFFICES ASSUME OverrideInit PROVE DatabaseInvariant
    BY Zenon
  <1> USE DEF OverrideInit
  <1>1. NoOverrides \in [Labels -> Values]
    BY Zenon DEF NoOverrides, Values
  <1>2. Shipped \in [Labels -> Values] /\ Shipped \in Contents
    BY OverrideAssumption, Zenon DEF Contents
  <1>3. tmp \in [written : {"none", "empty", "part", "whole"}, synced : BOOLEAN]
    BY Zenon DEF NoFile
  <1>4. OverrideTypeOK
    BY <1>1, <1>2, <1>3, Zenon DEF OverrideTypeOK
  <1> QED
    BY <1>4, Zenon DEF DatabaseInvariant, MemoryMatchesDisk

(* A map that was once intended is one that parsePlist accepts, so that     *)
(* readOverrides takes it as it is.                                        *)
LEMMA WholeIsRead ==
    ASSUME NEW m \in [Labels -> Values], m \in {Absent, Torn}
    PROVE  m = NoOverrides
  <1>1. Labels = {}
    BY Zenon DEF Absent, Torn, Values, Unset
  <1> QED
    BY <1>1, Zenon DEF NoOverrides

(* A map begins to be written: it is an intended one, whatever the label. *)
LEMMA BeginKeeps ==
    ASSUME NEW label, NEW value \in {"disabled", "enabled"},
           DatabaseInvariant, BeginOverride(label, value)
    PROVE  DatabaseInvariant'
  <1> USE DEF DatabaseInvariant, OverrideTypeOK, MemoryMatchesDisk
  <1>1. updated' \in [Labels -> Values]
    BY Zenon DEF BeginOverride, Values
  <1> QED
    BY <1>1, Zenon DEF BeginOverride

(* Every system call, failure, kill and loss of power keeps the invariant. *)
LEMMA DatabaseStep == DatabaseInvariant /\ [OverrideNext]_ovars => DatabaseInvariant'
  <1> SUFFICES ASSUME DatabaseInvariant, [OverrideNext]_ovars
               PROVE  DatabaseInvariant'
    BY Zenon
  <1> USE DEF DatabaseInvariant, OverrideTypeOK, MemoryMatchesDisk
  <1>1. CASE readOverrides
    <2>1. PICK readable \in BOOLEAN :
            /\ overrides' = IF readable /\ db \notin {Absent, Torn} THEN db ELSE NoOverrides
            /\ unread' = (~readable /\ db # Absent)
      BY <1>1, Zenon DEF readOverrides
    <2>2. db \in [Labels -> Values] /\ NoOverrides \in [Labels -> Values]
      BY Zenon DEF NoOverrides, Values
    <2>3. db \in {Absent, Torn} => db = NoOverrides
      BY <2>2, WholeIsRead, Zenon
    <2>4. overrides' \in [Labels -> Values] /\ unread' \in BOOLEAN
      BY <2>1, <2>2, Zenon
    <2>5. IF unread' THEN overrides' = NoOverrides ELSE overrides' = db
      BY <2>1, <2>3, Zenon
    <2> QED
      BY <1>1, <2>4, <2>5, Zenon DEF readOverrides
  <1>2. ASSUME NEW label \in Labels, NEW value \in {"disabled", "enabled"},
               BeginOverride(label, value)
        PROVE  DatabaseInvariant'
    BY <1>2, BeginKeeps, Zenon
  <1>3. CASE UnlinkTemporary
    BY <1>3, Zenon DEF UnlinkTemporary, NoFile
  <1>4. CASE CreateTemporary
    BY <1>4, Zenon DEF CreateTemporary
  <1>5. CASE WriteTemporary
    BY <1>5, Zenon DEF WriteTemporary
  <1>6. CASE SyncTemporary
    BY <1>6, Zenon DEF SyncTemporary
  <1>7. CASE RenameTemporary
    BY <1>7, Zenon DEF RenameTemporary, NoFile, Contents
  <1>8. CASE OverrideFails
    BY <1>8, Zenon DEF OverrideFails
  <1>9. CASE OverrideKilled
    BY <1>9, Zenon DEF OverrideKilled, NoOverrides, Values, Unset
  <1>10. CASE OverridePowerLoss
    <2>1. overrides' \in [Labels -> Values] /\ updated' \in [Labels -> Values]
      BY <1>10, Zenon DEF OverridePowerLoss, NoOverrides, Values
    <2>2. tmp' \in [written : {"none", "empty", "part", "whole"}, synced : BOOLEAN]
      <3>1. NoFile \in [written : {"none", "empty", "part", "whole"}, synced : BOOLEAN]
        BY Zenon DEF NoFile
      <3> QED
        BY <1>10, <3>1, Zenon DEF OverridePowerLoss
    <2>3. db' \in versions /\ db' \in Contents /\ surviving' = {db'}
      BY <1>10, Zenon DEF OverridePowerLoss
    <2> QED
      BY <1>10, <2>1, <2>2, <2>3, Zenon DEF OverridePowerLoss
  <1>11. CASE UNCHANGED ovars
    BY <1>11, Zenon DEF ovars
  <1> QED
    BY <1>1, <1>2, <1>3, <1>4, <1>5, <1>6, <1>7, <1>8, <1>9, <1>10, <1>11, Zenon
    DEF OverrideNext, WriteStep

(* After any kill, failed write or loss of power launchd applies a map that *)
(* enable and disable once meant to record, whatever the labels are, or    *)
(* the empty one when it could not read a database that is whole.          *)
THEOREM DatabaseIsWhole == OverrideSpec => []OverridesAreWhole
  <1>1. DatabaseInvariant => OverridesAreWhole
    BY Zenon DEF DatabaseInvariant, OverridesAreWhole, MemoryMatchesDisk
  <1> QED
    BY <1>1, DatabaseInit, DatabaseStep, PTL DEF OverrideSpec

(* What launchd applies is what the disk holds, after every command that    *)
(* succeeded and every one that failed; only a failed read leaves memory   *)
(* empty, until a command succeeds.                                        *)
THEOREM DatabaseIsMemory == OverrideSpec => []MemoryMatchesDisk
  <1>1. DatabaseInvariant => MemoryMatchesDisk
    BY Zenon DEF DatabaseInvariant
  <1> QED
    BY <1>1, DatabaseInit, DatabaseStep, PTL DEF OverrideSpec

-----------------------------------------------------------------------------
(* The endpoint. *)

(* Whoever is between flock and the end of its destructors has the lock.   *)
EndpointInvariant ==
    /\ Request \in Requests
    /\ inst \in [Instances -> {"new", "locked", "up", "closing", "gone"}]
    /\ \A i \in Instances : inst[i] \in {"locked", "up", "closing"} => lock = i
    /\ EndpointIsMine

(* What each action does to the endpoint. *)
LEMMA EndpointFrame ==
    ASSUME Next
    PROVE  \/ \E i \in Instances :
                 \/ Lock(i) \/ RemoveStale(i) \/ Bind(i) \/ BindFails(i)
                 \/ Finish(i) \/ CloseSocket(i) \/ Unlock(i) \/ Killed(i)
           \/ PowerLoss
           \/ UNCHANGED <<evars, Request>>
  <1> USE DEF cvars
  <1>1. CASE Loop
    <2>1. CASE Arm \/ Kevent \/ AcceptBegin \/ Accept \/ AcceptEnd
      BY <2>1, Zenon DEF Arm, Kevent, Returned, AcceptBegin, Accept, AcceptEnd
    <2>2. CASE \E e \in batch : Activate(e) \/ Drop(e) \/ Read(e) \/ SendMore(e)
      BY <2>2, Zenon DEF Activate, Drop, Read, SendMore
    <2>3. CASE Reboot \/ List \/ ListTooLong \/ Load \/ Refuse
      BY <2>3, Zenon DEF Reboot, List, ListTooLong, Load, Refuse, Reply
    <2>4. CASE SetOverride \/ OverrideStep \/ OverrideDone \/ OverrideRefused \/ Send
      BY <2>4, Zenon DEF SetOverride, OverrideStep, OverrideDone, OverrideRefused, Send, Reply
    <2> QED
      BY <1>1, <2>1, <2>2, <2>3, <2>4, Zenon DEF Loop
  <1>2. CASE Sigterm \/ CloseListeners \/ Tick
    BY <1>2, Zenon DEF Sigterm, Returned, CloseListeners, Tick
  <1>3. CASE \E c \in Connections : Connect(c) \/ Write(c) \/ Receive(c) \/ GiveUp(c)
    BY <1>3, Zenon DEF Connect, Write, Receive, GiveUp
  <1> QED
    BY <1>1, <1>2, <1>3, Zenon DEF Next

(* Every step keeps the lock and the path with one launchd. *)
LEMMA EndpointStep == EndpointInvariant /\ [Next]_vars => EndpointInvariant'
  <1> SUFFICES ASSUME EndpointInvariant, [Next]_vars
               PROVE  EndpointInvariant'
    BY Zenon
  <1> USE ControlAssumption DEF EndpointInvariant, EndpointIsMine, Nobody, cvars
  <1>1. ASSUME NEW i \in Instances, Lock(i) PROVE EndpointInvariant'
    BY <1>1 DEF Lock
  <1>2. ASSUME NEW i \in Instances, RemoveStale(i) PROVE EndpointInvariant'
    BY <1>2, Zenon DEF RemoveStale
  <1>3. ASSUME NEW i \in Instances, Bind(i) PROVE EndpointInvariant'
    BY <1>3, Zenon DEF Bind
  <1>4. ASSUME NEW i \in Instances, BindFails(i) PROVE EndpointInvariant'
    BY <1>4, Zenon DEF BindFails
  <1>5. ASSUME NEW i \in Instances, Finish(i) PROVE EndpointInvariant'
    BY <1>5, Zenon DEF Finish
  <1>6. ASSUME NEW i \in Instances, CloseSocket(i) PROVE EndpointInvariant'
    BY <1>6, Zenon DEF CloseSocket
  <1>7. ASSUME NEW i \in Instances, Unlock(i) PROVE EndpointInvariant'
    BY <1>7, Zenon DEF Unlock
  <1>8. ASSUME NEW i \in Instances, Killed(i) PROVE EndpointInvariant'
    BY <1>8, Zenon DEF Killed
  <1>9. CASE PowerLoss
    BY <1>9, Zenon DEF PowerLoss
  <1>10. CASE UNCHANGED <<evars, Request>>
    BY <1>10, Zenon DEF evars
  <1> QED
    BY <1>1, <1>2, <1>3, <1>4, <1>5, <1>6, <1>7, <1>8, <1>9, <1>10, EndpointFrame, Zenon
    DEF vars

(* However many launchds are started, killed and destroyed, the one that    *)
(* runs holds the lock and the path leads to its socket.                   *)
THEOREM EndpointHasOneOwner == Spec => []EndpointIsMine
  <1>1. Init => EndpointInvariant
    BY DEF Init, EndpointInvariant, EndpointIsMine
  <1>2. EndpointInvariant => EndpointIsMine
    BY Zenon DEF EndpointInvariant
  <1> QED
    BY <1>1, <1>2, EndpointStep, PTL DEF Spec

-----------------------------------------------------------------------------
(* The override database under requests. *)

(* Every step is one of the database, or leaves it alone. *)
LEMMA ChannelKeepsDatabase == DatabaseInvariant /\ [Next]_vars => DatabaseInvariant'
  <1> SUFFICES ASSUME DatabaseInvariant, [Next]_vars
               PROVE  DatabaseInvariant'
    BY Zenon
  <1>1. CASE UNCHANGED ovars
    BY <1>1, DatabaseStep, Zenon
  <1>2. ASSUME NEW i \in Instances,
               \/ Lock(i) \/ RemoveStale(i) \/ Bind(i) \/ BindFails(i)
               \/ Finish(i) \/ CloseSocket(i) \/ Unlock(i) \/ Killed(i)
        PROVE  DatabaseInvariant'
    <2>1. UNCHANGED ovars \/ readOverrides \/ OverrideKilled
      BY <1>2, Zenon DEF Lock, RemoveStale, Bind, BindFails, Finish, CloseSocket, Unlock, Killed
    <2> QED
      BY <2>1, <1>1, DatabaseStep, Zenon DEF OverrideNext
  <1>3. CASE PowerLoss
    BY <1>3, DatabaseStep, Zenon DEF PowerLoss, OverrideNext
  <1>4. CASE SetOverride
    BY <1>4, BeginKeeps, Zenon DEF SetOverride
  <1>5. CASE OverrideStep \/ OverrideDone \/ OverrideRefused
    <2>1. WriteStep \/ OverrideFails
      BY <1>5, Zenon DEF OverrideStep, OverrideDone, OverrideRefused, WriteStep
    <2> QED
      BY <2>1, DatabaseStep, Zenon DEF OverrideNext
  <1>6. CASE Arm \/ Kevent \/ AcceptBegin \/ Accept \/ AcceptEnd \/ Send
    BY <1>6, <1>1, Zenon DEF Arm, Kevent, Returned, AcceptBegin, Accept, AcceptEnd, Send
  <1>7. CASE \E e \in batch : Activate(e) \/ Drop(e) \/ Read(e) \/ SendMore(e)
    BY <1>7, <1>1, Zenon DEF Activate, Drop, Read, SendMore
  <1>8. CASE Reboot \/ List \/ ListTooLong \/ Load \/ Refuse
    BY <1>8, <1>1, Zenon DEF Reboot, List, ListTooLong, Load, Refuse, ovars
  <1>9. CASE Sigterm \/ CloseListeners \/ Tick
    BY <1>9, <1>1, Zenon DEF Sigterm, Returned, CloseListeners, Tick
  <1>10. CASE \E c \in Connections : Connect(c) \/ Write(c) \/ Receive(c) \/ GiveUp(c)
    BY <1>10, <1>1, Zenon DEF Connect, Write, Receive, GiveUp
  <1>11. CASE UNCHANGED vars
    BY <1>11, <1>1, Zenon DEF vars
  <1> QED
    BY <1>2, <1>3, <1>4, <1>5, <1>6, <1>7, <1>8, <1>9, <1>10, <1>11, Zenon DEF Next, Loop

(* Commands of any number of clients, cut short anywhere by kills and       *)
(* losses of power: a launchd that starts applies a map that was intended, *)
(* or none when its read of the database fails.                            *)
THEOREM ChannelIsWhole == Spec => []OverridesAreWhole
  <1>1. Init => DatabaseInvariant
    BY DatabaseInit, Zenon DEF Init
  <1>2. DatabaseInvariant => OverridesAreWhole
    BY Zenon DEF DatabaseInvariant, OverridesAreWhole, MemoryMatchesDisk
  <1> QED
    BY <1>1, <1>2, ChannelKeepsDatabase, PTL DEF Spec

(* Between commands, and in the middle of one, memory is what the disk      *)
(* holds, or empty after a read that failed.                               *)
THEOREM ChannelIsMemory == Spec => []MemoryMatchesDisk
  <1>1. Init => DatabaseInvariant
    BY DatabaseInit, Zenon DEF Init
  <1>2. DatabaseInvariant => MemoryMatchesDisk
    BY Zenon DEF DatabaseInvariant
  <1> QED
    BY <1>1, <1>2, ChannelKeepsDatabase, PTL DEF Spec

-----------------------------------------------------------------------------
(* Events and descriptors. *)

(* A non-empty set of numbers has a least one, which the kernel takes. *)
LEMMA MinIsMember ==
    ASSUME NEW S \in SUBSET Nat, S # {}
    PROVE  Min(S) \in S
  <1> DEFINE R == OpToRel(<, Nat)
  <1>1. IsWellFoundedOn(R, Nat)
    BY NatLessThanWellFounded, Zenon
  <1> HIDE DEF R
  <1>2. PICK x \in S : \A y \in S : ~(<<y, x>> \in R)
    BY <1>1, WFMin, Zenon
  <1>3. \A y \in S : x =< y
    <2> SUFFICES ASSUME NEW y \in S, y < x PROVE FALSE
      OBVIOUS
    <2>1. <<y, x>> \in R
      BY Zenon DEF R, OpToRel
    <2> QED
      BY <2>1, <1>2, Zenon
  <1> QED
    BY <1>3, Zenon DEF Min

(* The descriptor that the kernel takes is neither a client's nor a         *)
(* listener's.                                                             *)
LEMMA FreeDescriptor ==
    ASSUME Free # {}
    PROVE  Min(Free) \in Fds /\ clients[Min(Free)] = NoClient /\ Min(Free) \notin listeners
  <1>1. Free \in SUBSET Nat
    BY ControlAssumption, Zenon DEF Free
  <1>2. Min(Free) \in Free
    BY <1>1, MinIsMember, Zenon
  <1> QED
    BY <1>2, Zenon DEF Free, Used

(* The table of clients; a client in it has a generation of its own. *)
IsClient(r) ==
    r = [conn |-> r.conn, gen |-> r.gen, input |-> r.input, reply |-> r.reply,
         sent |-> r.sent, deadline |-> r.deadline]

ClientTable ==
    /\ clients = [f \in Fds |-> clients[f]]
    /\ \A f \in Fds : IsClient(clients[f])
    /\ \A f \in Fds : clients[f] = NoClient \/ clients[f].gen # 0
    /\ nextClient \in Nat \ {0}
    /\ \A f \in listeners : f \in Fds /\ clients[f] = NoClient

IsListenerEvent(e) == e.fd \in Fds \union {0} /\ e = listenerEvent(e.fd)
IsClientEvent(e) == e.fd \in Fds /\ clients[e.fd] # NoClient /\ e = clientEvent(e.fd)

(* Each event, waited for or returned, is one that Watch makes: without a   *)
(* generation, or for the client that has the descriptor now.  What is     *)
(* waited for is open, and a descriptor is in the queue or in the batch    *)
(* and not in both, once.                                                  *)
EventTable ==
    /\ \A e \in watched : \/ IsListenerEvent(e) /\ e.fd \in listeners \union {0}
                          \/ IsClientEvent(e)
    /\ \A e \in batch : IsListenerEvent(e) \/ IsClientEvent(e)
    /\ \A d, e \in batch : d.fd = e.fd => d = e
    /\ \A e \in watched, d \in batch : e.fd = d.fd => e.fd = 0

(* The client whose request is worked on is in neither. *)
LoopPlace ==
    /\ pc # "off" => \E i \in Instances : inst[i] = "up"
    /\ pc = "off" => watched = {} /\ \A f \in Fds : clients[f] = NoClient
    /\ pc \in {"off", "top", "wait"} => batch = {}
    /\ pc \in {"request", "override", "send"} =>
          /\ cur \in Fds /\ clients[cur] # NoClient
          /\ \A e \in watched \union batch : e.fd # cur

EventInvariant == EndpointInvariant /\ ClientTable /\ EventTable /\ LoopPlace

(* What an update of one field leaves alone. *)
LEMMA InputUpdate ==
    ASSUME NEW r, IsClient(r), NEW v
    PROVE  LET n == [r EXCEPT !.input = v]
           IN  IsClient(n) /\ n.gen = r.gen /\ n.conn = r.conn /\ n.reply = r.reply
  <1> DEFINE n == [r EXCEPT !.input = v]
  <1>1. IsClient(n)
    BY DEF IsClient
  <1>2. n.gen = r.gen /\ n.conn = r.conn /\ n.reply = r.reply
    BY Zenon DEF IsClient
  <1> QED
    BY <1>1, <1>2, Zenon

LEMMA SentUpdate ==
    ASSUME NEW r, IsClient(r), NEW v
    PROVE  LET n == [r EXCEPT !.sent = v]
           IN  IsClient(n) /\ n.gen = r.gen /\ n.conn = r.conn /\ n.reply = r.reply
  <1> DEFINE n == [r EXCEPT !.sent = v]
  <1>1. IsClient(n)
    BY DEF IsClient
  <1>2. n.gen = r.gen /\ n.conn = r.conn /\ n.reply = r.reply
    BY Zenon DEF IsClient
  <1> QED
    BY <1>1, <1>2, Zenon

LEMMA DeadlineUpdate ==
    ASSUME NEW r, IsClient(r), NEW v
    PROVE  LET n == [r EXCEPT !.deadline = v]
           IN  IsClient(n) /\ n.gen = r.gen /\ n.conn = r.conn /\ n.reply = r.reply
  <1> DEFINE n == [r EXCEPT !.deadline = v]
  <1>1. IsClient(n)
    BY DEF IsClient
  <1>2. n.gen = r.gen /\ n.conn = r.conn /\ n.reply = r.reply
    BY Zenon DEF IsClient
  <1> QED
    BY <1>1, <1>2, Zenon

LEMMA ReplyUpdate ==
    ASSUME NEW r, IsClient(r), NEW v, NEW w
    PROVE  LET n == [[r EXCEPT !.reply = w] EXCEPT !.deadline = v]
           IN  IsClient(n) /\ n.gen = r.gen /\ n.conn = r.conn
  <1> DEFINE m == [r EXCEPT !.reply = w]
  <1>1. IsClient(m)
    BY DEF IsClient
  <1>2. m.gen = r.gen /\ m.conn = r.conn
    BY Zenon DEF IsClient
  <1> HIDE DEF m
  <1> QED
    BY <1>1, <1>2, DeadlineUpdate, Zenon DEF m

(* Events that stay are as good as before when their clients and listeners  *)
(* stay.                                                                   *)
LEMMA EventsStay ==
    ASSUME EventTable, watched' \subseteq watched, batch' \subseteq batch,
           \A e \in watched' \union batch' : IsClientEvent(e) => IsClientEvent(e)',
           \A e \in watched' : e.fd \in listeners => e.fd \in listeners'
    PROVE  EventTable'
  BY Zenon DEF EventTable, IsListenerEvent, listenerEvent

(* The steps that leave the loop of launchd, its clients and its events alone. *)
LEMMA NothingOfTheLoop ==
    ASSUME EventInvariant, EndpointInvariant',
           UNCHANGED <<clients, listeners, nextClient, watched, batch, cur, pc>>,
           \A i \in Instances : inst[i] = "up" => inst'[i] = "up"
    PROVE  EventInvariant'
  <1>1. EventTable'
    BY EventsStay, Zenon DEF EventInvariant, IsClientEvent, clientEvent
  <1> QED
    BY <1>1, Zenon DEF EventInvariant, ClientTable, LoopPlace

(* The process ends, and everything that it held with it. *)
LEMMA NothingIsHeld ==
    ASSUME EventInvariant, EndpointInvariant', ProcessEnds
    PROVE  EventInvariant'
  <1>1. IsClient(NoClient)
    BY Zenon DEF IsClient, NoClient
  <1> QED
    BY <1>1, Zenon DEF EventInvariant, ClientTable, EventTable, LoopPlace, ProcessEnds

(* One client is replaced by one of the same connection.  Its events may    *)
(* stay as long as it waits in the same direction.  A listener may be      *)
(* opened at a number that is free, or closed with its events.             *)
LEMMA ClientIsUpdated ==
    ASSUME EventInvariant, NEW f \in Fds, NEW n, clients[f] # NoClient,
           IsClient(n), n.gen = clients[f].gen, n.conn = clients[f].conn,
           clients' = [clients EXCEPT ![f] = n], nextClient' = nextClient,
           watched' \subseteq watched, batch' \subseteq batch,
           \A g \in listeners' : g \in Fds /\ clients[g] = NoClient,
           \A e \in watched' : e.fd \in listeners => e.fd \in listeners',
           \/ n.reply = clients[f].reply
           \/ \A e \in watched' \union batch' : e.fd # f
    PROVE  /\ ClientTable' /\ EventTable'
           /\ \A g \in Fds : clients[g] # NoClient => clients'[g] # NoClient
  <1> USE DEF EventInvariant, ClientTable
  <1>1. n # NoClient
    BY DEF NoClient
  <1>2. /\ clients'[f] = n
        /\ \A g \in Fds \ {f} : clients'[g] = clients[g]
        /\ clients' = [g \in Fds |-> clients'[g]]
    BY Zenon
  <1>3. ClientTable'
    BY <1>2, Zenon
  <1>4. \A g \in Fds : clients[g] # NoClient => clients'[g] # NoClient
    BY <1>1, <1>2, Zenon
  <1>5. EventTable'
    <2>1. ASSUME NEW e \in watched' \union batch', IsClientEvent(e)
          PROVE  IsClientEvent(e)'
      <3>1. e.fd \in Fds /\ clients[e.fd] # NoClient /\ e = clientEvent(e.fd)
        BY <2>1, Zenon DEF IsClientEvent
      <3>2. /\ clients'[e.fd].gen = clients[e.fd].gen
            /\ clients'[e.fd].conn = clients[e.fd].conn
            /\ clients'[e.fd].reply = clients[e.fd].reply
        BY <3>1, <1>2, Zenon
      <3> QED
        BY <3>1, <3>2, <1>4, Zenon DEF clientEvent, IsClientEvent
    <2> QED
      BY <2>1, EventsStay, Zenon
  <1> QED
    BY <1>3, <1>4, <1>5, Zenon

(* One client is erased, and its events with it. *)
LEMMA ClientIsErased ==
    ASSUME EventInvariant, NEW f \in Fds,
           clients' = [clients EXCEPT ![f] = NoClient],
           UNCHANGED <<nextClient, listeners>>,
           watched' \subseteq watched, batch' \subseteq batch,
           \A e \in watched' \union batch' : e.fd # f
    PROVE  ClientTable' /\ EventTable'
  <1> USE DEF EventInvariant, ClientTable
  <1>1. IsClient(NoClient)
    BY Zenon DEF IsClient, NoClient
  <1>2. /\ clients'[f] = NoClient
        /\ \A g \in Fds \ {f} : clients'[g] = clients[g]
        /\ clients' = [g \in Fds |-> clients'[g]]
    BY Zenon
  <1>3. ClientTable'
    BY <1>1, <1>2, Zenon
  <1>4. EventTable'
    <2>1. ASSUME NEW e \in watched' \union batch', IsClientEvent(e)
          PROVE  IsClientEvent(e)'
      BY <2>1, <1>2, Zenon DEF IsClientEvent, clientEvent
    <2> QED
      BY <2>1, EventsStay, Zenon
  <1> QED
    BY <1>3, <1>4, Zenon

(* Clients are as they were; listeners may be closed, with what is waited   *)
(* for from them.                                                          *)
LEMMA ListenersAreClosed ==
    ASSUME EventInvariant, UNCHANGED <<clients, nextClient>>,
           listeners' \subseteq listeners, watched' \subseteq watched, batch' \subseteq batch,
           \A e \in watched' : e.fd \in listeners => e.fd \in listeners'
    PROVE  ClientTable' /\ EventTable'
  <1>1. ClientTable'
    BY Zenon DEF EventInvariant, ClientTable
  <1>2. EventTable'
    BY EventsStay, Zenon DEF EventInvariant, IsClientEvent, clientEvent
  <1> QED
    BY <1>1, <1>2, Zenon

(* kevent moves what is ready from the queue to the batch. *)
LEMMA EventsAreReturned ==
    ASSUME EventInvariant, NEW closed, Returned(closed), listeners' = listeners \ closed
    PROVE  ClientTable' /\ EventTable' /\ LoopPlace'
  <1>1. /\ batch' \subseteq watched /\ pc = "wait" /\ batch = {}
        /\ watched' = {e \in watched \ batch' : e.fd \notin closed}
        /\ pc' = IF batch' = {} THEN "top" ELSE "batch"
        /\ UNCHANGED <<clients, nextClient, inst>>
    BY Zenon DEF Returned, evars, EventInvariant, LoopPlace
  <1>2. ClientTable'
    BY <1>1, Zenon DEF EventInvariant, ClientTable
  <1>3. ASSUME NEW d \in watched, NEW e \in watched, d.fd = e.fd
        PROVE  d = e
    <2>1. (IsListenerEvent(d) /\ d.fd \in listeners \union {0}) \/ IsClientEvent(d)
      BY Zenon DEF EventInvariant, EventTable
    <2>2. (IsListenerEvent(e) /\ e.fd \in listeners \union {0}) \/ IsClientEvent(e)
      BY Zenon DEF EventInvariant, EventTable
    <2>3. ASSUME NEW c, IsClientEvent(c)
          PROVE  c.fd \notin listeners \union {0}
      BY <2>3, ControlAssumption, Zenon DEF EventInvariant, ClientTable, IsClientEvent
    <2> QED
      BY <1>3, <2>1, <2>2, <2>3, Zenon DEF IsListenerEvent, IsClientEvent
  <1>4. EventTable'
    <2>1. \A e \in watched : IsClientEvent(e) => IsClientEvent(e)'
      BY <1>1, Zenon DEF IsClientEvent, clientEvent
    <2>2. \A e \in watched' \union batch' : e \in watched
      BY <1>1, Zenon
    <2>3. \A e \in batch' : IsListenerEvent(e)' \/ IsClientEvent(e)'
      BY <2>1, <2>2, Zenon DEF EventInvariant, EventTable, IsListenerEvent, listenerEvent
    <2>4. \A e \in watched' : \/ IsListenerEvent(e)' /\ e.fd \in listeners' \union {0}
                              \/ IsClientEvent(e)'
      BY <1>1, <2>1, <2>2, Zenon DEF EventInvariant, EventTable, IsListenerEvent, listenerEvent
    <2>5. \A e \in watched', d \in batch' : e.fd # d.fd
      BY <1>1, <1>3, Zenon
    <2> QED
      BY <1>1, <1>3, <2>3, <2>4, <2>5, Zenon DEF EventTable
  <1>5. LoopPlace'
    BY <1>1, Zenon DEF EventInvariant, LoopPlace
  <1> QED
    BY <1>2, <1>4, <1>5, Zenon

(* The steps of the loop that only look for work. *)
LEMMA LoopLooks ==
    ASSUME EventInvariant, EndpointInvariant',
           \/ Arm \/ Kevent \/ AcceptBegin \/ Accept \/ AcceptEnd
           \/ \E e \in batch : Activate(e)
    PROVE  EventInvariant'
  <1> USE DEF EventInvariant
  <1>1. CASE Arm
    <2> DEFINE kept == Used \ {f \in Used : clients[f].deadline = 0}
    <2>1. /\ pc = "top" /\ pc' = "wait" /\ batch = {} /\ batch' = {}
          /\ UNCHANGED <<inst, listeners, nextClient>>
      BY <1>1, Zenon DEF Arm, LoopPlace, evars
    <2>2. /\ clients' = [f \in Fds |-> clients'[f]]
          /\ \A f \in Fds : clients'[f] = IF f \in kept THEN clients[f] ELSE NoClient
          /\ \A f \in kept : f \in Fds /\ clients[f] # NoClient
      BY <1>1, Zenon DEF Arm, Used
    <2>3. IsClient(NoClient)
      BY Zenon DEF IsClient, NoClient
    <2>4. ClientTable'
      BY <2>1, <2>2, <2>3, Zenon DEF ClientTable
    <2>5. ASSUME NEW e \in watched'
          PROVE  \/ IsListenerEvent(e) /\ e.fd \in listeners \union {0}
                 \/ e.fd \in kept /\ e = clientEvent(e.fd)
      <3>1. CASE e \in watched /\ e.fd \notin Used \ kept
        BY <3>1, Zenon DEF EventTable, IsClientEvent, Used
      <3>2. CASE \E f \in listeners \union {0} : e = listenerEvent(f)
        BY <3>2 DEF listenerEvent, IsListenerEvent, ClientTable
      <3>3. CASE \E f \in kept : e = clientEvent(f)
        BY <3>3 DEF clientEvent
      <3>4. PICK waiting \in SUBSET listeners :
               watched' = {d \in watched : d.fd \notin Used \ kept}
                            \union {listenerEvent(f) : f \in waiting \union {0}}
                            \union {clientEvent(f) : f \in kept}
        BY <1>1, Zenon DEF Arm, Watch
      <3> QED
        BY <3>1, <3>2, <3>3, <3>4, Zenon
    <2>6. EventTable'
      <3>1. ASSUME NEW e \in watched'
            PROVE  \/ IsListenerEvent(e)' /\ e.fd \in listeners' \union {0}
                   \/ IsClientEvent(e)'
        BY <2>1, <2>2, <2>5, Zenon DEF IsListenerEvent, listenerEvent, IsClientEvent, clientEvent
      <3> QED
        BY <2>1, <3>1, Zenon DEF EventTable
    <2> QED
      BY <2>1, <2>4, <2>6, Zenon DEF LoopPlace
  <1>2. CASE Kevent
    <2>1. Returned({}) /\ listeners' = listeners \ {}
      BY <1>2, Zenon DEF Kevent
    <2> QED
      BY <2>1, EventsAreReturned, Zenon
  <1>3. CASE \/ AcceptBegin \/ AcceptEnd
             \/ Accept /\ Cardinality(Used) >= MaxClients
             \/ \E e \in batch : Activate(e)
    <2>1. /\ UNCHANGED <<clients, nextClient, listeners, watched, inst>>
          /\ batch' \subseteq batch /\ pc # "off"
          /\ pc' \in {"accept", "batch"} \/ (pc' = "top" /\ batch' = {})
      BY <1>3, Zenon DEF AcceptBegin, AcceptEnd, Accept, Activate, After, evars
    <2>2. ClientTable' /\ EventTable'
      BY <2>1, ListenersAreClosed, Zenon
    <2> QED
      BY <2>1, <2>2, Zenon DEF LoopPlace
  <1>4. CASE Accept /\ ~(Cardinality(Used) >= MaxClients)
    <2> DEFINE f == Min(Free)
               n == [NoClient EXCEPT !.conn = Head(backlog), !.gen = nextClient,
                                     !.deadline = Timeout]
    <2>1. f \in Fds /\ clients[f] = NoClient /\ f \notin listeners
      BY <1>4, FreeDescriptor, Zenon DEF Accept
    <2>2. /\ clients' = [clients EXCEPT ![f] = n] /\ nextClient' = nextClient + 1
          /\ UNCHANGED <<pc, listeners, watched, batch, inst>> /\ pc = "accept"
      BY <1>4, Zenon DEF Accept, evars
    <2>3. IsClient(n) /\ n.gen = nextClient
      <3> DEFINE a == [NoClient EXCEPT !.conn = Head(backlog)]
                 b == [a EXCEPT !.gen = nextClient]
      <3>1. IsClient(a)
        BY DEF IsClient, NoClient
      <3> HIDE DEF a
      <3>2. IsClient(b) /\ b.gen = nextClient
        BY <3>1 DEF IsClient
      <3>3. n = [b EXCEPT !.deadline = Timeout]
        BY Zenon DEF a
      <3> HIDE DEF b
      <3> QED
        BY <3>2, <3>3, DeadlineUpdate, Zenon
    <2> HIDE DEF f, n
    <2>4. n # NoClient
      BY <2>3 DEF ClientTable, NoClient
    <2>5. /\ clients'[f] = n
          /\ \A g \in Fds \ {f} : clients'[g] = clients[g]
          /\ clients' = [g \in Fds |-> clients'[g]]
      BY <2>1, <2>2, Zenon DEF ClientTable
    <2>6. ClientTable'
      <3>1. nextClient' \in Nat \ {0} /\ n.gen # 0
        BY <2>2, <2>3 DEF ClientTable
      <3> QED
        BY <2>1, <2>2, <2>3, <2>5, <3>1, Zenon DEF ClientTable
    <2>7. EventTable'
      <3>1. ASSUME NEW e, IsClientEvent(e)
            PROVE  IsClientEvent(e)'
        <4>1. e.fd \in Fds \ {f} /\ clients[e.fd] # NoClient /\ e = clientEvent(e.fd)
          BY <2>1, <3>1, Zenon DEF IsClientEvent
        <4>2. clients'[e.fd] = clients[e.fd]
          BY <2>5, <4>1, Zenon
        <4> QED
          BY <4>1, <4>2, Zenon DEF IsClientEvent, clientEvent
      <3> QED
        BY <2>2, <3>1, EventsStay, Zenon
    <2> QED
      BY <2>2, <2>6, <2>7, Zenon DEF LoopPlace
  <1> QED
    BY <1>1, <1>2, <1>3, <1>4, Zenon

(* An event that run() serves a client with is that client's. *)
LEMMA FreshIsClients ==
    ASSUME EventInvariant, NEW e \in batch, Fresh(e)
    PROVE  IsClientEvent(e) /\ e.fd # 0
  <1>1. e.fd # 0 /\ clients[e.fd] # NoClient /\ clients[e.fd].gen = e.gen
    BY Zenon DEF Fresh
  <1>2. IsListenerEvent(e) \/ IsClientEvent(e)
    BY Zenon DEF EventInvariant, EventTable
  <1>3. CASE IsListenerEvent(e)
    <2>1. e.gen = 0
      BY <1>3 DEF IsListenerEvent, listenerEvent
    <2>2. clients[e.fd].gen # 0
      BY <1>1, <1>3, Zenon DEF EventInvariant, ClientTable, IsListenerEvent
    <2> QED
      BY <1>1, <2>1, <2>2, Zenon
  <1> QED
    BY <1>1, <1>2, <1>3, Zenon

(* The steps that answer an event or go on with a request. *)
LEMMA LoopServes ==
    ASSUME EventInvariant, EndpointInvariant',
           \/ \E e \in batch : Drop(e) \/ Read(e) \/ SendMore(e)
           \/ Reboot \/ List \/ ListTooLong \/ Load \/ Refuse
           \/ SetOverride \/ OverrideDone \/ OverrideRefused \/ Send
    PROVE  EventInvariant'
  <1> USE DEF EventInvariant
  <1>1. ASSUME NEW e \in batch, Fresh(e)
        PROVE  /\ e.fd \in Fds /\ clients[e.fd] # NoClient /\ IsClient(clients[e.fd])
               /\ \A d \in watched \union (batch \ {e}) : d.fd # e.fd
    <2>1. IsClientEvent(e) /\ e.fd # 0
      BY <1>1, FreshIsClients, Zenon
    <2> QED
      BY <2>1, Zenon DEF EventTable, ClientTable, IsClientEvent
  <1>2. ASSUME NEW e \in batch, Drop(e)
        PROVE  EventInvariant'
    <2>1. /\ pc = "batch" /\ batch' = batch \ {e}
          /\ pc' = IF batch' = {} THEN "top" ELSE "batch"
          /\ UNCHANGED <<listeners, nextClient, inst>>
      BY <1>2, Zenon DEF Drop, After, evars
    <2>2. ClientTable' /\ EventTable'
      <3>1. CASE Fresh(e)
        <4>1. Erase(e.fd)
          BY <1>2, <3>1, Zenon DEF Drop
        <4> QED
          BY <1>1, <2>1, <3>1, <4>1, ClientIsErased, Zenon DEF Erase
      <3>2. CASE ~Fresh(e)
        <4>1. UNCHANGED <<clients, watched>>
          BY <1>2, <3>2, Zenon DEF Drop
        <4> QED
          BY <2>1, <4>1, ListenersAreClosed, Zenon
      <3> QED
        BY <3>1, <3>2, Zenon
    <2> QED
      BY <2>1, <2>2, Zenon DEF LoopPlace
  <1>3. ASSUME NEW e \in batch, Read(e)
        PROVE  EventInvariant'
    <2> DEFINE f == e.fd
    <2>1. /\ Fresh(e) /\ pc = "batch" /\ batch' = batch \ {e}
          /\ UNCHANGED <<listeners, nextClient, inst>>
      BY <1>3, Zenon DEF Read, After, evars
    <2>2. PICK got :
            \/ /\ Erase(f)
               /\ pc' = IF batch' = {} THEN "top" ELSE "batch"
            \/ /\ clients' = [clients EXCEPT ![f].input = got] /\ watched' = watched
               /\ \/ pc' = "request" /\ cur' = f
                  \/ pc' = IF batch' = {} THEN "top" ELSE "batch"
      BY <1>3, Zenon DEF Read, After
    <2>3. CASE /\ Erase(f)
               /\ pc' = IF batch' = {} THEN "top" ELSE "batch"
      <3>1. ClientTable' /\ EventTable'
        BY <1>1, <2>1, <2>3, ClientIsErased, Zenon DEF Erase
      <3> QED
        BY <2>1, <2>3, <3>1, Zenon DEF LoopPlace
    <2>4. CASE /\ clients' = [clients EXCEPT ![f].input = got] /\ watched' = watched
               /\ \/ pc' = "request" /\ cur' = f
                  \/ pc' = IF batch' = {} THEN "top" ELSE "batch"
      <3> DEFINE n == [clients[f] EXCEPT !.input = got]
      <3>1. /\ IsClient(n) /\ n.gen = clients[f].gen /\ n.conn = clients[f].conn
            /\ n.reply = clients[f].reply
        BY <1>1, <2>1, InputUpdate, Zenon
      <3>2. clients' = [clients EXCEPT ![f] = n]
        BY <2>4, Zenon
      <3> HIDE DEF n
      <3>3. /\ ClientTable' /\ EventTable'
            /\ \A g \in Fds : clients[g] # NoClient => clients'[g] # NoClient
        BY <1>1, <2>1, <2>4, <3>1, <3>2, ClientIsUpdated, Zenon DEF ClientTable
      <3> QED
        BY <1>1, <2>1, <2>4, <3>3, Zenon DEF LoopPlace
    <2> QED
      BY <2>2, <2>3, <2>4, Zenon
  <1>4. ASSUME NEW f \in Fds, clients[f] # NoClient, SendSome(f),
               \A e \in watched \union batch' : e.fd # f,
               batch' \subseteq batch, pc # "off",
               pc' = IF batch' = {} THEN "top" ELSE "batch",
               UNCHANGED <<listeners, nextClient, inst>>
        PROVE  EventInvariant'
    <2>1. PICK v : \/ Erase(f)
                   \/ clients' = [clients EXCEPT ![f].sent = v] /\ watched' = watched
      BY <1>4, Zenon DEF SendSome
    <2>2. CASE Erase(f)
      <3>1. ClientTable' /\ EventTable'
        BY <1>4, <2>2, ClientIsErased, Zenon DEF Erase
      <3> QED
        BY <1>4, <3>1, Zenon DEF LoopPlace
    <2>3. CASE clients' = [clients EXCEPT ![f].sent = v] /\ watched' = watched
      <3> DEFINE n == [clients[f] EXCEPT !.sent = v]
      <3>1. /\ IsClient(n) /\ n.gen = clients[f].gen /\ n.conn = clients[f].conn
            /\ n.reply = clients[f].reply
        BY SentUpdate, Zenon DEF ClientTable
      <3>2. clients' = [clients EXCEPT ![f] = n]
        BY <2>3, Zenon
      <3> HIDE DEF n
      <3>3. ClientTable' /\ EventTable'
        BY <1>4, <2>3, <3>1, <3>2, ClientIsUpdated, Zenon DEF ClientTable
      <3> QED
        BY <1>4, <3>3, Zenon DEF LoopPlace
    <2> QED
      BY <2>1, <2>2, <2>3, Zenon
  <1>5. ASSUME NEW e \in batch, SendMore(e)
        PROVE  EventInvariant'
    <2>1. /\ Fresh(e) /\ pc = "batch" /\ batch' = batch \ {e} /\ SendSome(e.fd)
          /\ pc' = IF batch' = {} THEN "top" ELSE "batch"
          /\ UNCHANGED <<listeners, nextClient, inst>>
      BY <1>5, Zenon DEF SendMore, After, evars
    <2> QED
      BY <1>1, <1>4, <2>1, Zenon
  <1>6. CASE Send
    <2>1. /\ pc = "send" /\ batch' = batch /\ SendSome(cur)
          /\ pc' = IF batch' = {} THEN "top" ELSE "batch"
          /\ UNCHANGED <<listeners, nextClient, inst>>
      BY <1>6, Zenon DEF Send, After, evars
    <2>2. cur \in Fds /\ clients[cur] # NoClient /\ \A e \in watched \union batch : e.fd # cur
      BY <2>1, Zenon DEF LoopPlace
    <2> QED
      BY <1>4, <2>1, <2>2, Zenon
  <1>7. CASE ListTooLong
    <2>1. /\ pc = "request" /\ batch' = batch /\ Erase(cur)
          /\ pc' = IF batch' = {} THEN "top" ELSE "batch"
          /\ UNCHANGED <<listeners, nextClient, inst>>
      BY <1>7, Zenon DEF ListTooLong, After, evars
    <2>2. cur \in Fds /\ \A e \in watched \union batch : e.fd # cur
      BY <2>1, Zenon DEF LoopPlace
    <2>3. ClientTable' /\ EventTable'
      BY <2>1, <2>2, ClientIsErased, Zenon DEF Erase
    <2> QED
      BY <2>1, <2>3, Zenon DEF LoopPlace
  <1>8. ASSUME NEW ok, Reply(ok), pc \in {"request", "override"}, watched' \subseteq watched,
               \A g \in listeners' : g \in Fds /\ clients[g] = NoClient,
               \A e \in watched' : e.fd \in listeners => e.fd \in listeners'
        PROVE  EventInvariant'
    <2> DEFINE n == [[clients[cur] EXCEPT !.reply = ok] EXCEPT !.deadline = Timeout]
    <2>1. cur \in Fds /\ clients[cur] # NoClient /\ \A e \in watched \union batch : e.fd # cur
      BY <1>8, Zenon DEF LoopPlace
    <2>2. /\ clients' = [clients EXCEPT ![cur] = n] /\ pc' = "send"
          /\ UNCHANGED <<nextClient, batch, cur, inst>>
      BY <1>8, <2>1, Zenon DEF Reply, evars, ClientTable
    <2>3. IsClient(n) /\ n.gen = clients[cur].gen /\ n.conn = clients[cur].conn
      <3>1. IsClient(clients[cur])
        BY <2>1, Zenon DEF ClientTable
      <3> QED
        BY <3>1, ReplyUpdate, Zenon
    <2> HIDE DEF n
    <2>4. /\ ClientTable' /\ EventTable'
          /\ \A g \in Fds : clients[g] # NoClient => clients'[g] # NoClient
      BY <1>8, <2>1, <2>2, <2>3, ClientIsUpdated, Zenon
    <2> QED
      BY <1>8, <2>1, <2>2, <2>4, Zenon DEF LoopPlace
  <1>9. CASE Reboot \/ List \/ Load \/ Refuse \/ OverrideDone \/ OverrideRefused
    <2>1. CASE Reboot
      <3>1. PICK closed : /\ listeners' = listeners \ closed
                          /\ watched' = {e \in watched : e.fd \notin closed}
        BY <2>1, Zenon DEF Reboot
      <3> QED
        BY <1>8, <2>1, <3>1, Zenon DEF Reboot, ClientTable
    <2>2. CASE Load
      <3>1. /\ listeners \subseteq listeners'
            /\ \A g \in listeners' : g \in Fds /\ clients[g] = NoClient
        BY <2>2, FreeDescriptor, Zenon DEF Load, ClientTable
      <3> QED
        BY <1>8, <2>2, <3>1, Zenon DEF Load
    <2>3. CASE List \/ Refuse \/ OverrideDone \/ OverrideRefused
      <3>1. UNCHANGED <<listeners, watched>>
        BY <2>3, Zenon DEF List, Refuse, OverrideDone, OverrideRefused
      <3> QED
        BY <1>8, <2>3, <3>1, Zenon DEF List, Refuse, OverrideDone, OverrideRefused, ClientTable
    <2> QED
      BY <1>9, <2>1, <2>2, <2>3, Zenon
  <1>10. CASE SetOverride
    <2>1. /\ UNCHANGED <<clients, listeners, nextClient, watched, batch, cur, inst>>
          /\ pc = "request" /\ pc' = "override"
      BY <1>10, Zenon DEF SetOverride, evars
    <2>2. ClientTable' /\ EventTable'
      BY <2>1, ListenersAreClosed, Zenon
    <2> QED
      BY <2>1, <2>2, Zenon DEF LoopPlace
  <1> QED
    BY <1>2, <1>3, <1>5, <1>6, <1>7, <1>9, <1>10, Zenon

(* Every step of launchd and of the programs around it keeps the events     *)
(* and the clients in agreement.                                           *)
LEMMA EventStep == EventInvariant /\ [Next]_vars => EventInvariant'
  <1> SUFFICES ASSUME EventInvariant, [Next]_vars
               PROVE  EventInvariant'
    BY Zenon
  <1>1. EndpointInvariant'
    BY EndpointStep, Zenon DEF EventInvariant
  <1>2. ASSUME NEW i \in Instances,
               Lock(i) \/ RemoveStale(i) \/ BindFails(i) \/ CloseSocket(i) \/ Unlock(i)
        PROVE  EventInvariant'
    <2>1. UNCHANGED <<clients, listeners, nextClient, watched, batch, cur, pc>>
      BY <1>2, Zenon DEF Lock, RemoveStale, BindFails, CloseSocket, Unlock, dvars
    <2>2. \A j \in Instances : inst[j] = "up" => inst'[j] = "up"
      BY <1>2, Zenon DEF Lock, RemoveStale, BindFails, CloseSocket, Unlock, EventInvariant,
                  EndpointInvariant
    <2> QED
      BY <1>1, <2>1, <2>2, NothingOfTheLoop, Zenon
  <1>3. ASSUME NEW i \in Instances, Bind(i)
        PROVE  EventInvariant'
    <2>1. pc = "off" /\ batch = {} /\ watched = {} /\ \A f \in Fds : clients[f] = NoClient
      BY <1>3, Zenon DEF Bind, EventInvariant, LoopPlace, EndpointInvariant
    <2>2. /\ UNCHANGED <<clients, watched, batch>> /\ pc' = "top" /\ nextClient' = 1
          /\ inst'[i] = "up" /\ listeners' \subseteq Fds
      <3>1. Listeners[Request] \subseteq Fds
        BY ControlAssumption, Zenon DEF EventInvariant, EndpointInvariant
      <3> QED
        BY <1>3, <3>1, Zenon DEF Bind, EventInvariant, EndpointInvariant
    <2>3. ClientTable'
      BY <2>1, <2>2 DEF EventInvariant, ClientTable
    <2> QED
      BY <1>1, <2>1, <2>2, <2>3, Zenon DEF EventInvariant, EventTable, LoopPlace
  <1>4. ASSUME NEW i \in Instances, Finish(i)
        PROVE  EventInvariant'
    BY <1>1, <1>4, NothingIsHeld, Zenon DEF Finish
  <1>5. ASSUME NEW i \in Instances, Killed(i)
        PROVE  EventInvariant'
    <2>1. CASE inst[i] = "up"
      BY <1>1, <1>5, <2>1, NothingIsHeld, Zenon DEF Killed
    <2>2. CASE inst[i] # "up"
      <3>1. UNCHANGED <<clients, listeners, nextClient, watched, batch, cur, pc>>
        BY <1>5, <2>2, Zenon DEF Killed, dvars
      <3>2. \A j \in Instances : inst[j] = "up" => inst'[j] = "up"
        BY <1>5, <2>2, Zenon DEF Killed, EventInvariant, EndpointInvariant
      <3> QED
        BY <1>1, <3>1, <3>2, NothingOfTheLoop, Zenon
    <2> QED
      BY <2>1, <2>2, Zenon
  <1>6. CASE PowerLoss
    BY <1>1, <1>6, NothingIsHeld, Zenon DEF PowerLoss
  <1>7. CASE Loop /\ ~OverrideStep
    BY <1>1, <1>7, LoopLooks, LoopServes, Zenon DEF Loop
  <1>8. CASE \/ OverrideStep
             \/ \E c \in Connections : Connect(c) \/ Write(c) \/ Receive(c) \/ GiveUp(c)
             \/ UNCHANGED vars
    <2>1. UNCHANGED <<clients, listeners, nextClient, watched, batch, cur, pc, inst>>
      BY <1>8, Zenon DEF OverrideStep, Connect, Write, Receive, GiveUp, vars, dvars, evars
    <2> QED
      BY <1>1, <2>1, NothingOfTheLoop, Zenon
  <1>9. CASE Tick
    <2>1. /\ UNCHANGED <<listeners, nextClient, watched, batch, cur, pc, inst>>
          /\ clients' = [f \in Fds |-> clients'[f]]
      BY <1>9, Zenon DEF Tick, evars
    <2>2. \A f \in Fds : \E v : clients'[f] = [clients[f] EXCEPT !.deadline = v]
      BY <1>9, Zenon DEF Tick
    <2>3. \A f \in Fds : /\ IsClient(clients'[f]) /\ clients'[f].gen = clients[f].gen
                         /\ clients'[f].conn = clients[f].conn
                         /\ clients'[f].reply = clients[f].reply
      <3> SUFFICES ASSUME NEW f \in Fds
                   PROVE  /\ IsClient(clients'[f]) /\ clients'[f].gen = clients[f].gen
                          /\ clients'[f].conn = clients[f].conn
                          /\ clients'[f].reply = clients[f].reply
        BY Zenon
      <3>1. PICK v : clients'[f] = [clients[f] EXCEPT !.deadline = v]
        BY <2>2, Zenon
      <3>2. IsClient(clients[f])
        BY Zenon DEF EventInvariant, ClientTable
      <3> DEFINE n == [clients[f] EXCEPT !.deadline = v]
      <3>3. /\ IsClient(n) /\ n.gen = clients[f].gen /\ n.conn = clients[f].conn
            /\ n.reply = clients[f].reply
        BY <3>2, DeadlineUpdate, Zenon
      <3> QED
        BY <3>1, <3>3, Zenon
    <2>4. \A f \in Fds : clients[f] = NoClient => clients'[f] = NoClient
      BY <1>9 DEF Tick, NoClient
    <2>5. \A f \in Fds : clients[f] # NoClient => clients'[f] # NoClient
      BY <2>3 DEF EventInvariant, ClientTable, NoClient
    <2>6. ClientTable'
      BY <2>1, <2>3, <2>4, Zenon DEF EventInvariant, ClientTable
    <2>7. EventTable'
      <3>1. ASSUME NEW e, IsClientEvent(e)
            PROVE  IsClientEvent(e)'
        BY <2>3, <2>5, <3>1, Zenon DEF IsClientEvent, clientEvent
      <3> QED
        BY <2>1, <3>1, EventsStay, Zenon DEF EventInvariant
    <2>8. LoopPlace'
      BY <2>1, <2>4, <2>5, Zenon DEF EventInvariant, LoopPlace
    <2> QED
      BY <1>1, <2>6, <2>7, <2>8, Zenon DEF EventInvariant
  <1>10. CASE Sigterm
    <2>1. PICK closed : listeners' = listeners \ closed /\ Returned(closed)
      BY <1>10, Zenon DEF Sigterm
    <2> QED
      BY <1>1, <2>1, EventsAreReturned, Zenon DEF EventInvariant
  <1>11. CASE CloseListeners
    <2>1. PICK closed : /\ listeners' = listeners \ closed
                        /\ watched' = {e \in watched : e.fd \notin closed}
      BY <1>11, Zenon DEF CloseListeners
    <2>2. UNCHANGED <<clients, nextClient, batch, cur, pc, inst>>
      BY <1>11, Zenon DEF CloseListeners, evars
    <2>3. ClientTable' /\ EventTable'
      BY <2>1, <2>2, ListenersAreClosed, Zenon
    <2> QED
      BY <1>1, <2>1, <2>2, <2>3, Zenon DEF EventInvariant, LoopPlace
  <1> QED
    BY <1>2, <1>3, <1>4, <1>5, <1>6, <1>7, <1>8, <1>9, <1>10, <1>11, Zenon DEF Next, Loop

(* However many clients and listeners come and go while a batch is worked   *)
(* on, each event left in it that serves a client was registered for that  *)
(* connection, and each that was registered for a connection serves it.    *)
THEOREM EventsAreServed == Spec => []EventsReachTheirOwner
  <1>1. Init => EventInvariant
    <2>1. IsClient(NoClient)
      BY Zenon DEF IsClient, NoClient
    <2> QED
      BY <2>1 DEF Init, EventInvariant, EndpointInvariant, EndpointIsMine, ClientTable,
                  EventTable, LoopPlace
  <1>2. EventInvariant => EventsReachTheirOwner
    <2> SUFFICES ASSUME EventInvariant, NEW e \in batch
                 PROVE  /\ e.owner # Nobody => Fresh(e)
                        /\ Fresh(e) => clients[e.fd].conn = e.owner
      BY Zenon DEF EventsReachTheirOwner
    <2>1. CASE IsClientEvent(e)
      <3>1. /\ e.fd \in Fds /\ clients[e.fd] # NoClient
            /\ e.gen = clients[e.fd].gen /\ e.owner = clients[e.fd].conn
        BY <2>1 DEF IsClientEvent, clientEvent
      <3>2. e.fd \notin listeners \union {0}
        BY <3>1, ControlAssumption, Zenon DEF EventInvariant, ClientTable
      <3> QED
        BY <3>1, <3>2, Zenon DEF Fresh
    <2>2. CASE ~IsClientEvent(e)
      <3>1. IsListenerEvent(e) /\ ~Fresh(e)
        BY <2>2, FreshIsClients, Zenon DEF EventInvariant, EventTable
      <3>2. e.owner = Nobody
        BY <3>1 DEF IsListenerEvent, listenerEvent
      <3> QED
        BY <3>1, <3>2, Zenon
    <2> QED
      BY <2>1, <2>2, Zenon
  <1> QED
    BY <1>1, <1>2, EventStep, PTL DEF Spec

-----------------------------------------------------------------------------
(* Requests and answers. *)

(* A connection that still waits for launchd to do something: it was not    *)
(* made yet, was not accepted, or its request was not answered.             *)
Waits(c) ==
    \/ ctl[c] = "new"
    \/ \E i \in DOMAIN backlog : backlog[i] = c
    \/ \E f \in Used : clients[f].conn = c /\ clients[f].reply = "none"

(* The reply v is true of connection c. *)
TrueOf(v, c) == (v = "ok" => applied[c] = 1) /\ (v = "refused" => applied[c] = 0)

AnswerTypes ==
    /\ Request \in Requests
    /\ backlog \in Seq(Connections)
    /\ ctl = [c \in Connections |-> ctl[c]]
    /\ verdict \in [Connections -> {"none", "ok", "refused"}]
    /\ applied \in [Connections -> Nat]
    /\ \A f \in Used : /\ clients[f].conn \in Connections
                       /\ clients[f].reply \in {"none", "ok", "refused"}

(* A connection is in one place of the backlog and of the table of clients, *)
(* and in neither before it was made.                                       *)
OnePlace ==
    /\ \A i, j \in DOMAIN backlog : backlog[i] = backlog[j] => i = j
    /\ \A f, g \in Used : clients[f].conn = clients[g].conn => f = g
    /\ \A i \in DOMAIN backlog, f \in Used : backlog[i] # clients[f].conn
    /\ \A i \in DOMAIN backlog : ctl[backlog[i]] # "new"
    /\ \A f \in Used : ctl[clients[f].conn] # "new"

(* Nothing was done or said for a connection that waits; every reply that is *)
(* framed, on its way or taken is true.                                     *)
TrueReplies ==
    /\ \A c \in Connections : Waits(c) => applied[c] = 0 /\ verdict[c] = "none"
    /\ \A f \in Used : TrueOf(clients[f].reply, clients[f].conn)
    /\ \A c \in Connections : TrueOf(verdict[c], c)
    /\ \A c \in Connections : ctl[c] \in {"ok", "refused"} => verdict[c] = ctl[c]

(* The request that is worked on is whole, and is answered before anything  *)
(* is sent.                                                                 *)
WholeRequest ==
    /\ pc \in {"request", "override"} =>
          /\ clients[cur].reply = "none"
          /\ clients[cur].input = HeaderLen + Request[clients[cur].conn].size
    /\ pc = "send" => clients[cur].reply # "none"

AnswerInvariant == AnswerTypes /\ OnePlace /\ TrueReplies /\ WholeRequest

(* Clients may leave, and launchctls end without an answer. *)
LEMMA NothingIsAnswered ==
    ASSUME AnswerTypes, OnePlace, TrueReplies,
           UNCHANGED <<Request, applied, verdict>>,
           backlog' = backlog \/ backlog' = <<>>,
           ctl' = [c \in Connections |-> ctl'[c]],
           \A c \in Connections :
              ctl'[c] = ctl[c] \/ ctl'[c] \notin {"new", "ok", "refused"},
           \A f \in Fds : \/ clients'[f] = NoClient
                          \/ /\ clients[f] # NoClient
                             /\ clients'[f].conn = clients[f].conn
                             /\ clients'[f].reply = clients[f].reply
    PROVE  AnswerTypes' /\ OnePlace' /\ TrueReplies'
  <1>1. \A f \in Used' : /\ f \in Used /\ clients'[f].conn = clients[f].conn
                         /\ clients'[f].reply = clients[f].reply
    BY Zenon DEF Used
  <1>2. \A i \in DOMAIN backlog' :
           i \in DOMAIN backlog /\ backlog'[i] = backlog[i] /\ backlog'[i] \in Connections
    BY DEF AnswerTypes
  <1>3. AnswerTypes'
    <2>1. backlog' \in Seq(Connections)
      <3>1. backlog \in Seq(Connections)
        BY Zenon DEF AnswerTypes
      <3>2. <<>> \in Seq(Connections)
        OBVIOUS
      <3> QED
        BY <3>1, <3>2, Zenon
    <2>2. \A f \in Used' : /\ clients'[f].conn \in Connections
                           /\ clients'[f].reply \in {"none", "ok", "refused"}
      BY <1>1, Zenon DEF AnswerTypes
    <2> QED
      BY <2>1, <2>2, Zenon DEF AnswerTypes
  <1>4. OnePlace'
    <2>1. \A i, j \in DOMAIN backlog' : backlog'[i] = backlog'[j] => i = j
      BY <1>2 DEF OnePlace
    <2>2. \A f, g \in Used' : clients'[f].conn = clients'[g].conn => f = g
      BY <1>1 DEF OnePlace
    <2>3. \A i \in DOMAIN backlog', f \in Used' : backlog'[i] # clients'[f].conn
      BY <1>1, <1>2 DEF OnePlace
    <2>4. \A i \in DOMAIN backlog' : ctl'[backlog'[i]] # "new"
      BY <1>2, Zenon DEF OnePlace
    <2>5. \A f \in Used' : ctl'[clients'[f].conn] # "new"
      BY <1>1, Zenon DEF OnePlace, AnswerTypes
    <2> QED
      BY <2>1, <2>2, <2>3, <2>4, <2>5, Zenon DEF OnePlace
  <1>5. \A c \in Connections : Waits(c)' => Waits(c)
    BY <1>1, <1>2, Zenon DEF Waits
  <1>6. TrueReplies'
    BY <1>1, <1>5 DEF TrueReplies, TrueOf
  <1> QED
    BY <1>3, <1>4, <1>6, Zenon

(* A launchctl that connects waits at the end of the backlog. *)
LEMMA ConnectionIsMade ==
    ASSUME AnswerTypes, OnePlace, TrueReplies, NEW c \in Connections, ctl[c] = "new",
           UNCHANGED <<Request, applied, verdict, clients>>,
           backlog' = Append(backlog, c),
           ctl' = [ctl EXCEPT ![c] = "sending"]
    PROVE  AnswerTypes' /\ OnePlace' /\ TrueReplies'
  <1>1. /\ ctl' = [d \in Connections |-> ctl'[d]] /\ ctl'[c] = "sending"
        /\ \A d \in Connections \ {c} : ctl'[d] = ctl[d]
    BY Zenon DEF AnswerTypes
  <1>2. /\ backlog' \in Seq(Connections) /\ DOMAIN backlog = 1..Len(backlog)
        /\ DOMAIN backlog' = 1..(Len(backlog) + 1) /\ Len(backlog) \in Nat
        /\ backlog'[Len(backlog) + 1] = c
        /\ \A i \in DOMAIN backlog : backlog'[i] = backlog[i] /\ backlog[i] \in Connections
    <2>1. backlog \in Seq(Connections)
      BY Zenon DEF AnswerTypes
    <2> QED
      BY <2>1
  <1>3. Used' = Used /\ \A f \in Used : clients[f].conn \in Connections
    BY Zenon DEF Used, AnswerTypes
  <1>4. \A i \in DOMAIN backlog' : i \in DOMAIN backlog \/ i = Len(backlog) + 1
    BY <1>2
  <1>5. AnswerTypes'
    BY <1>1, <1>2, <1>3, Zenon DEF AnswerTypes
  <1>6. \A i \in DOMAIN backlog : backlog[i] # c
    BY Zenon DEF OnePlace
  <1>7. \A f \in Used : clients[f].conn # c
    BY Zenon DEF OnePlace
  <1>8. OnePlace'
    <2>1. \A i, j \in DOMAIN backlog' : backlog'[i] = backlog'[j] => i = j
      BY <1>2, <1>4, <1>6 DEF OnePlace
    <2>2. \A i \in DOMAIN backlog', f \in Used' : backlog'[i] # clients'[f].conn
      BY <1>2, <1>3, <1>4, <1>7 DEF OnePlace
    <2>3. \A i \in DOMAIN backlog' : ctl'[backlog'[i]] # "new"
      BY <1>1, <1>2, <1>4 DEF OnePlace
    <2>4. \A f \in Used' : ctl'[clients'[f].conn] # "new"
      BY <1>1, <1>3, Zenon DEF OnePlace
    <2> QED
      BY <1>3, <2>1, <2>2, <2>3, <2>4, Zenon DEF OnePlace
  <1>9. \A d \in Connections : Waits(d)' => Waits(d)
    BY <1>1, <1>2, <1>3, <1>4 DEF Waits
  <1>10. TrueReplies'
    BY <1>1, <1>3, <1>9, Zenon DEF TrueReplies, TrueOf
  <1> QED
    BY <1>5, <1>8, <1>10, Zenon

(* The first connection of the backlog leaves it, and may become a client. *)
LEMMA ConnectionIsAccepted ==
    ASSUME AnswerTypes, OnePlace, TrueReplies, backlog # <<>>,
           UNCHANGED <<Request, applied, verdict, ctl>>,
           backlog' = Tail(backlog),
           NEW f, \A g \in Fds \ {f} : clients'[g] = clients[g],
           \/ clients' = clients
           \/ /\ f \in Fds /\ clients[f] = NoClient
              /\ clients'[f].conn = Head(backlog) /\ clients'[f].reply = "none"
    PROVE  AnswerTypes' /\ OnePlace' /\ TrueReplies'
  <1>1. backlog \in Seq(Connections)
    BY Zenon DEF AnswerTypes
  <1>2. /\ backlog' \in Seq(Connections) /\ DOMAIN backlog = 1..Len(backlog)
        /\ Len(backlog) \in Nat /\ 1 \in DOMAIN backlog /\ Head(backlog) = backlog[1]
        /\ DOMAIN backlog' = 1..(Len(backlog) - 1)
        /\ \A i \in DOMAIN backlog' : backlog'[i] = backlog[i + 1]
        /\ \A i \in DOMAIN backlog : backlog[i] \in Connections
    BY <1>1
  <1>3. \A i \in DOMAIN backlog' : i + 1 \in DOMAIN backlog /\ i + 1 # 1
    BY <1>2
  <1>4. \A g \in Used' : \/ g = f /\ clients'[g].conn = backlog[1] /\ clients'[g].reply = "none"
                            /\ g \notin Used
                         \/ g \in Used /\ clients'[g] = clients[g]
    BY <1>2, Zenon DEF Used
  <1>5. AnswerTypes'
    <2>1. \A g \in Used' : /\ clients'[g].conn \in Connections
                           /\ clients'[g].reply \in {"none", "ok", "refused"}
      BY <1>2, <1>4, Zenon DEF AnswerTypes
    <2> QED
      BY <1>2, <2>1, Zenon DEF AnswerTypes
  <1>6. OnePlace'
    <2>1. \A i, j \in DOMAIN backlog' : backlog'[i] = backlog'[j] => i = j
      <3>1. ASSUME NEW i \in DOMAIN backlog', NEW j \in DOMAIN backlog',
                   backlog'[i] = backlog'[j]
            PROVE  i = j
        <4>1. i + 1 = j + 1
          BY <1>2, <1>3, <3>1 DEF OnePlace
        <4> QED
          BY <1>2, <4>1
      <3> QED
        BY <3>1, Zenon
    <2>2. \A g, h \in Used' : clients'[g].conn = clients'[h].conn => g = h
      BY <1>2, <1>4 DEF OnePlace
    <2>3. \A i \in DOMAIN backlog', g \in Used' : backlog'[i] # clients'[g].conn
      BY <1>2, <1>3, <1>4 DEF OnePlace
    <2>4. \A i \in DOMAIN backlog' : ctl'[backlog'[i]] # "new"
      BY <1>2, <1>3 DEF OnePlace
    <2>5. \A g \in Used' : ctl'[clients'[g].conn] # "new"
      BY <1>2, <1>4 DEF OnePlace
    <2> QED
      BY <2>1, <2>2, <2>3, <2>4, <2>5, Zenon DEF OnePlace
  <1>7. \A d \in Connections : Waits(d)' => Waits(d)
    BY <1>2, <1>3, <1>4 DEF Waits
  <1>8. TrueReplies'
    BY <1>4, <1>7 DEF TrueReplies, TrueOf
  <1> QED
    BY <1>5, <1>6, <1>8, Zenon

(* A request is answered, with "ok" when it took effect. *)
LEMMA RequestIsAnswered ==
    ASSUME AnswerTypes, OnePlace, TrueReplies,
           UNCHANGED <<Request, verdict, ctl, backlog>>,
           NEW f \in Used, clients[f].reply = "none",
           clients'[f].conn = clients[f].conn,
           \A g \in Fds \ {f} : clients'[g] = clients[g],
           \/ clients'[f].reply = "refused" /\ applied' = applied
           \/ /\ clients'[f].reply = "ok"
              /\ applied' = [applied EXCEPT ![clients[f].conn] = @ + 1]
    PROVE  AnswerTypes' /\ OnePlace' /\ TrueReplies'
  <1> DEFINE c == clients[f].conn
  <1>1. c \in Connections /\ applied[c] = 0 /\ verdict[c] = "none" /\ ctl[c] # "new"
    BY Zenon DEF AnswerTypes, OnePlace, TrueReplies, Waits
  <1>2. \A g \in Used' : /\ g \in Used /\ clients'[g].conn = clients[g].conn
                         /\ g # f => clients'[g].reply = clients[g].reply
    BY Zenon DEF Used
  <1>3. /\ applied' \in [Connections -> Nat]
        /\ \A d \in Connections \ {c} : applied'[d] = applied[d]
        /\ clients'[f].reply = "ok" => applied'[c] = 1
        /\ clients'[f].reply = "refused" => applied'[c] = 0
    <2>1. applied \in [Connections -> Nat]
      BY Zenon DEF AnswerTypes
    <2> QED
      BY <1>1, <2>1
  <1>4. AnswerTypes'
    BY <1>2, <1>3, Zenon DEF AnswerTypes
  <1>5. OnePlace'
    BY <1>2 DEF OnePlace
  <1>6. \A g \in Used : g # f => clients[g].conn # c
    BY Zenon DEF OnePlace
  <1>7. \A d \in Connections : Waits(d)' => Waits(d) /\ d # c
    BY <1>1, <1>2, <1>6 DEF Waits, OnePlace
  <1>8. TrueReplies'
    <2>1. \A d \in Connections : Waits(d)' => applied'[d] = 0 /\ verdict'[d] = "none"
      BY <1>3, <1>7, Zenon DEF TrueReplies
    <2>2. \A g \in Used' : TrueOf(clients[g].reply, clients[g].conn)'
      <3> SUFFICES ASSUME NEW g \in Used'
                   PROVE  TrueOf(clients[g].reply, clients[g].conn)'
        BY Zenon
      <3>1. CASE g = f
        BY <1>3, <3>1, Zenon DEF TrueOf
      <3>2. CASE g # f
        <4>1. clients[g].conn \in Connections \ {c}
          BY <1>2, <1>6, <3>2, Zenon DEF AnswerTypes
        <4> QED
          BY <1>2, <1>3, <3>2, <4>1 DEF TrueReplies, TrueOf
      <3> QED
        BY <3>1, <3>2, Zenon
    <2>3. \A d \in Connections : TrueOf(verdict[d], d)'
      BY <1>1, <1>3 DEF TrueReplies, TrueOf
    <2> QED
      BY <2>1, <2>2, <2>3, Zenon DEF TrueReplies
  <1> QED
    BY <1>4, <1>5, <1>8, Zenon

(* Some of a reply is on its way; all of it was sent when the client leaves. *)
LEMMA ReplyIsSent ==
    ASSUME AnswerTypes, OnePlace, TrueReplies,
           UNCHANGED <<Request, applied, ctl, backlog>>,
           NEW f \in Used, clients[f].reply # "none", ~ctlGone(clients[f].conn),
           verdict' = [verdict EXCEPT ![clients[f].conn] = clients[f].reply],
           \/ clients'[f] = NoClient
           \/ /\ clients'[f].conn = clients[f].conn
              /\ clients'[f].reply = clients[f].reply,
           \A g \in Fds \ {f} : clients'[g] = clients[g]
    PROVE  AnswerTypes' /\ OnePlace' /\ TrueReplies'
  <1> DEFINE c == clients[f].conn
  <1>1. c \in Connections /\ ctl[c] # "new" /\ ctl[c] \notin {"ok", "refused"}
    BY Zenon DEF AnswerTypes, OnePlace, ctlGone
  <1>2. \A g \in Used' : /\ g \in Used /\ clients'[g].conn = clients[g].conn
                         /\ clients'[g].reply = clients[g].reply
    BY Zenon DEF Used
  <1>3. /\ verdict' \in [Connections -> {"none", "ok", "refused"}]
        /\ \A d \in Connections \ {c} : verdict'[d] = verdict[d]
        /\ verdict'[c] = clients[f].reply
    BY <1>1, Zenon DEF AnswerTypes
  <1>4. AnswerTypes'
    BY <1>2, <1>3, Zenon DEF AnswerTypes
  <1>5. OnePlace'
    BY <1>2 DEF OnePlace
  <1>6. \A d \in Connections : Waits(d)' => Waits(d) /\ d # c
    BY <1>1, <1>2 DEF Waits, OnePlace
  <1>7. TrueReplies'
    <2>1. \A d \in Connections : Waits(d)' => applied'[d] = 0 /\ verdict'[d] = "none"
      BY <1>3, <1>6, Zenon DEF TrueReplies
    <2> applied' = applied
      BY Zenon
    <2>2. \A g \in Used' : TrueOf(clients[g].reply, clients[g].conn)'
      <3> SUFFICES ASSUME NEW g \in Used'
                   PROVE  TrueOf(clients[g].reply, clients[g].conn)'
        OBVIOUS
      <3>1. /\ TrueOf(clients[g].reply, clients[g].conn)
            /\ clients'[g].conn = clients[g].conn /\ clients'[g].reply = clients[g].reply
        BY <1>2, Zenon DEF TrueReplies
      <3> QED
        BY <3>1 DEF TrueOf
    <2>3. \A d \in Connections : TrueOf(verdict[d], d)'
      <3>1. \A d \in Connections : TrueOf(verdict[d], d) /\ TrueOf(clients[f].reply, c)
        BY Zenon DEF TrueReplies
      <3> HIDE DEF c
      <3> SUFFICES ASSUME NEW d \in Connections
                   PROVE  TrueOf(verdict[d], d)'
        BY Zenon
      <3>2. CASE d = c
        BY <1>3, <3>1, <3>2, Zenon DEF TrueOf
      <3>3. CASE d # c
        BY <1>3, <3>1, <3>3, Zenon DEF TrueOf
      <3> QED
        BY <3>2, <3>3, Zenon
    <2>4. \A d \in Connections : ctl'[d] \in {"ok", "refused"} => verdict'[d] = ctl'[d]
      BY <1>1, <1>3, Zenon DEF TrueReplies
    <2> QED
      BY <2>1, <2>2, <2>3, <2>4, Zenon DEF TrueReplies
  <1> QED
    BY <1>4, <1>5, <1>7, Zenon

(* launchctl takes the reply, or ends and loses what was on its way. *)
LEMMA LaunchctlEnds ==
    ASSUME AnswerTypes, OnePlace, TrueReplies, NEW c \in Connections,
           ctl[c] \in {"sending", "reading"},
           UNCHANGED <<Request, applied, clients, backlog>>, NEW v,
           ctl' = [ctl EXCEPT ![c] = v],
           \/ v = verdict[c] /\ verdict' = verdict
           \/ v = "reading" /\ verdict' = verdict
           \/ v = "error" /\ verdict' = [verdict EXCEPT ![c] = "none"]
    PROVE  AnswerTypes' /\ OnePlace' /\ TrueReplies'
  <1>1. /\ ctl' = [d \in Connections |-> ctl'[d]] /\ ctl'[c] = v /\ v # "new"
        /\ \A d \in Connections \ {c} : ctl'[d] = ctl[d]
    BY Zenon DEF AnswerTypes
  <1>2. /\ verdict' \in [Connections -> {"none", "ok", "refused"}]
        /\ \A d \in Connections \ {c} : verdict'[d] = verdict[d]
        /\ verdict'[c] = verdict[c] \/ (verdict'[c] = "none" /\ v = "error")
    BY Zenon DEF AnswerTypes
  <1>3. Used' = Used /\ \A f \in Used : clients[f].conn \in Connections
    BY Zenon DEF Used, AnswerTypes
  <1>4. \A i \in DOMAIN backlog : backlog[i] \in Connections
    BY DEF AnswerTypes
  <1>5. AnswerTypes'
    BY <1>1, <1>2, <1>3, Zenon DEF AnswerTypes
  <1>6. OnePlace'
    BY <1>1, <1>3, <1>4 DEF OnePlace
  <1>7. \A d \in Connections : Waits(d)' => Waits(d)
    BY <1>1, <1>3, Zenon DEF Waits
  <1>8. TrueReplies'
    <2>1. \A d \in Connections : Waits(d)' => applied'[d] = 0 /\ verdict'[d] = "none"
      BY <1>2, <1>7, Zenon DEF TrueReplies
    <2>2. \A g \in Used' : TrueOf(clients[g].reply, clients[g].conn)'
      BY <1>3, Zenon DEF TrueReplies, TrueOf
    <2>3. \A d \in Connections : TrueOf(verdict[d], d)'
      BY <1>2, Zenon DEF TrueReplies, TrueOf
    <2>4. \A d \in Connections : ctl'[d] \in {"ok", "refused"} => verdict'[d] = ctl'[d]
      BY <1>1, <1>2 DEF TrueReplies
    <2> QED
      BY <2>1, <2>2, <2>3, <2>4, Zenon DEF TrueReplies
  <1> QED
    BY <1>5, <1>6, <1>8, Zenon

(* What an update leaves alone of the request and of its answer. *)
LEMMA RequestFields ==
    ASSUME NEW r, IsClient(r), NEW v
    PROVE  /\ LET n == [r EXCEPT !.input = v]
              IN  n.conn = r.conn /\ n.reply = r.reply /\ n.input = v
           /\ LET n == [r EXCEPT !.sent = v]
              IN  n.conn = r.conn /\ n.reply = r.reply
           /\ LET n == [r EXCEPT !.deadline = v]
              IN  n.conn = r.conn /\ n.reply = r.reply /\ n.input = r.input
  BY Zenon DEF IsClient

(* A read that makes the message whole makes it as long as it says. *)
LEMMA WholeIsWhole ==
    ASSUME NEW c, NEW got, Judge(c, got) = "whole"
    PROVE  got = Request[c].size + HeaderLen
  BY Zenon DEF Judge

(* The steps that neither make, take nor answer a request. *)
LEMMA ChannelLeavesAnswers ==
    ASSUME EventInvariant, AnswerInvariant,
           \/ \E i \in Instances :
                 \/ Lock(i) \/ RemoveStale(i) \/ Bind(i) \/ BindFails(i)
                 \/ Finish(i) \/ CloseSocket(i) \/ Unlock(i) \/ Killed(i)
           \/ PowerLoss
           \/ Arm \/ Kevent \/ AcceptBegin \/ AcceptEnd \/ ListTooLong
           \/ \E e \in batch : Activate(e)
           \/ SetOverride \/ OverrideStep \/ Sigterm \/ CloseListeners
           \/ UNCHANGED vars
    PROVE  AnswerInvariant'
  <1> USE DEF dvars, cvars, svars
  <1>t. /\ ctl = [c \in Connections |-> ctl[c]]
        /\ \A f \in Fds : IsClient(clients[f])
        /\ clients = [f \in Fds |-> clients[f]]
    BY Zenon DEF AnswerInvariant, AnswerTypes, EventInvariant, ClientTable
  <1>1. CASE UNCHANGED <<Request, applied, verdict, backlog, ctl, clients, cur>>
             /\ (pc' \in {"request", "override"} => pc \in {"request", "override"})
             /\ (pc' = "send" => pc = "send")
    <2>1. AnswerTypes' /\ OnePlace' /\ TrueReplies'
      BY <1>1, <1>t, NothingIsAnswered, Zenon DEF AnswerInvariant
    <2> QED
      BY <1>1, <2>1, Zenon DEF AnswerInvariant, WholeRequest
  <1>2. CASE ProcessEnds /\ UNCHANGED Request
             /\ ctl' = [c \in Connections |-> ctl'[c]]
             /\ \A c \in Connections :
                   ctl'[c] = ctl[c] \/ ctl'[c] \notin {"new", "ok", "refused"}
    <2>1. /\ UNCHANGED <<applied, verdict>> /\ backlog' = <<>> /\ pc' = "off"
          /\ \A f \in Fds : clients'[f] = NoClient
      BY <1>2, Zenon DEF ProcessEnds
    <2>2. AnswerTypes' /\ OnePlace' /\ TrueReplies'
      BY <1>2, <2>1, NothingIsAnswered, Zenon DEF AnswerInvariant
    <2> QED
      BY <2>1, <2>2, Zenon DEF AnswerInvariant, WholeRequest
  <1>3. ASSUME NEW i \in Instances,
               \/ Lock(i) \/ RemoveStale(i) \/ Bind(i) \/ BindFails(i)
               \/ CloseSocket(i) \/ Unlock(i)
        PROVE  AnswerInvariant'
    BY <1>1, <1>3, Zenon DEF Lock, RemoveStale, Bind, BindFails, CloseSocket, Unlock
  <1>4. ASSUME NEW i \in Instances, Finish(i) \/ Killed(i)
        PROVE  AnswerInvariant'
    <2>1. UNCHANGED <<Request, ctl>>
      BY <1>4, Zenon DEF Finish, Killed
    <2>2. ProcessEnds \/ UNCHANGED <<dvars, svars>>
      BY <1>4, Zenon DEF Finish, Killed
    <2> QED
      BY <1>1, <1>2, <1>t, <2>1, <2>2, Zenon
  <1>5. CASE PowerLoss
    <2>1. /\ ProcessEnds /\ UNCHANGED Request
          /\ ctl' = [c \in Connections |->
                       IF ctl[c] \in {"sending", "reading"} THEN "error" ELSE ctl[c]]
      BY <1>5, Zenon DEF PowerLoss
    <2>2. /\ ctl' = [c \in Connections |-> ctl'[c]]
          /\ \A c \in Connections :
                ctl'[c] = ctl[c] \/ ctl'[c] \notin {"new", "ok", "refused"}
      BY <2>1, Zenon
    <2> QED
      BY <1>2, <2>1, <2>2, Zenon
  <1>6. CASE Arm
    <2>1. /\ UNCHANGED <<Request, applied, verdict, backlog, ctl>> /\ pc' = "wait"
          /\ \A f \in Fds : clients'[f] = NoClient
                            \/ (clients[f] # NoClient /\ clients'[f] = clients[f])
      BY <1>6, Zenon DEF Arm, Used
    <2>2. AnswerTypes' /\ OnePlace' /\ TrueReplies'
      BY <1>t, <2>1, NothingIsAnswered, Zenon DEF AnswerInvariant
    <2> QED
      BY <2>1, <2>2, Zenon DEF AnswerInvariant, WholeRequest
  <1>7. CASE ListTooLong
    <2>1. /\ UNCHANGED <<Request, applied, verdict, backlog, ctl>> /\ pc' \in {"top", "batch"}
          /\ clients' = [clients EXCEPT ![cur] = NoClient]
      BY <1>7, Zenon DEF ListTooLong, Erase, After
    <2>2. \A f \in Fds : clients'[f] = NoClient \/ clients'[f] = clients[f]
      BY <1>t, <2>1, Zenon
    <2>3. AnswerTypes' /\ OnePlace' /\ TrueReplies'
      BY <1>t, <2>1, <2>2, NothingIsAnswered, Zenon DEF AnswerInvariant
    <2> QED
      BY <2>1, <2>3, Zenon DEF AnswerInvariant, WholeRequest
  <1>8. CASE \/ Kevent \/ SetOverride \/ OverrideStep \/ Sigterm \/ CloseListeners
             \/ UNCHANGED vars
    BY <1>1, <1>8, Zenon DEF Kevent, Returned, SetOverride, OverrideStep, Sigterm, CloseListeners,
                             vars
  <1>9. CASE AcceptBegin \/ AcceptEnd \/ \E e \in batch : Activate(e)
    <2>1. /\ UNCHANGED <<Request, applied, verdict, backlog, ctl, clients>>
          /\ pc' \in {"accept", "top", "batch"}
      BY <1>9, Zenon DEF AcceptBegin, AcceptEnd, Activate, After
    <2>2. AnswerTypes' /\ OnePlace' /\ TrueReplies'
      BY <1>t, <2>1, NothingIsAnswered, Zenon DEF AnswerInvariant
    <2> QED
      BY <2>1, <2>2, Zenon DEF AnswerInvariant, WholeRequest
  <1> QED
    BY <1>3, <1>4, <1>5, <1>6, <1>7, <1>8, <1>9, Zenon

(* The steps of the loop that take, work on and answer requests. *)
LEMMA ChannelAnswers ==
    ASSUME EventInvariant, AnswerInvariant,
           \/ Accept
           \/ \E e \in batch : Drop(e) \/ Read(e) \/ SendMore(e)
           \/ Reboot \/ List \/ Load \/ Refuse \/ OverrideDone \/ OverrideRefused \/ Send
    PROVE  AnswerInvariant'
  <1> USE DEF cvars
  <1>t. /\ ctl = [c \in Connections |-> ctl[c]]
        /\ \A f \in Fds : IsClient(clients[f])
        /\ clients = [f \in Fds |-> clients[f]]
    BY Zenon DEF AnswerInvariant, AnswerTypes, EventInvariant, ClientTable
  <1>u. ASSUME NEW e \in batch, Fresh(e)
        PROVE  e.fd \in Fds /\ e.fd \in Used
    BY <1>u, FreshIsClients, Zenon DEF IsClientEvent, Used
  <1>e. ASSUME NEW f \in Fds, clients' = [clients EXCEPT ![f] = NoClient],
               UNCHANGED <<Request, applied, verdict, backlog, ctl>>
        PROVE  AnswerTypes' /\ OnePlace' /\ TrueReplies'
    <2>1. \A g \in Fds : clients'[g] = NoClient \/ clients'[g] = clients[g]
      BY <1>t, <1>e, Zenon
    <2> QED
      BY <1>t, <1>e, <2>1, NothingIsAnswered, Zenon DEF AnswerInvariant
  <1>1. CASE Accept
    <2>1. /\ backlog # <<>> /\ backlog' = Tail(backlog) /\ pc' = "accept"
          /\ UNCHANGED <<Request, applied, verdict, ctl>>
      BY <1>1, Zenon DEF Accept
    <2>2. AnswerTypes' /\ OnePlace' /\ TrueReplies'
      <3>1. CASE Cardinality(Used) >= MaxClients
        <4>1. clients' = clients
          BY <1>1, <3>1, Zenon DEF Accept
        <4> QED
          BY <2>1, <4>1, ConnectionIsAccepted, Zenon DEF AnswerInvariant
      <3>2. CASE ~(Cardinality(Used) >= MaxClients)
        <4> DEFINE f == Min(Free)
                   n == [NoClient EXCEPT !.conn = Head(backlog), !.gen = nextClient,
                                         !.deadline = Timeout]
        <4>1. f \in Fds /\ clients[f] = NoClient
          BY <1>1, FreeDescriptor, Zenon DEF Accept
        <4>2. clients' = [clients EXCEPT ![f] = n]
          BY <1>1, <3>2, Zenon DEF Accept
        <4>3. n.conn = Head(backlog) /\ n.reply = "none"
          BY Zenon DEF NoClient
        <4> HIDE DEF f, n
        <4>4. clients'[f] = n /\ \A g \in Fds \ {f} : clients'[g] = clients[g]
          BY <1>t, <4>1, <4>2, Zenon
        <4> QED
          BY <2>1, <4>1, <4>3, <4>4, ConnectionIsAccepted, Zenon DEF AnswerInvariant
      <3> QED
        BY <3>1, <3>2, Zenon
    <2> QED
      BY <2>1, <2>2, Zenon DEF AnswerInvariant, WholeRequest
  <1>2. ASSUME NEW e \in batch, Drop(e)
        PROVE  AnswerInvariant'
    <2>1. /\ UNCHANGED <<Request, applied, verdict, backlog, ctl>>
          /\ pc' \in {"top", "batch"}
      BY <1>2, Zenon DEF Drop, After
    <2>2. CASE Fresh(e)
      <3>1. clients' = [clients EXCEPT ![e.fd] = NoClient]
        BY <1>2, <2>2, Zenon DEF Drop, Erase
      <3> QED
        BY <1>e, <1>u, <2>1, <2>2, <3>1, Zenon DEF AnswerInvariant, WholeRequest
    <2>3. CASE ~Fresh(e)
      <3>1. clients' = clients
        BY <1>2, <2>3, Zenon DEF Drop
      <3>2. AnswerTypes' /\ OnePlace' /\ TrueReplies'
        BY <1>t, <2>1, <3>1, NothingIsAnswered, Zenon DEF AnswerInvariant
      <3> QED
        BY <2>1, <3>2, Zenon DEF AnswerInvariant, WholeRequest
    <2> QED
      BY <2>2, <2>3, Zenon
  <1>3. ASSUME NEW e \in batch, Read(e)
        PROVE  AnswerInvariant'
    <2> DEFINE f == e.fd
    <2>1. /\ Fresh(e) /\ UNCHANGED <<Request, applied, verdict, backlog, ctl>>
          /\ clients[f].reply = "none"
      BY <1>3, Zenon DEF Read
    <2>2. f \in Fds /\ f \in Used
      BY <1>u, <2>1, Zenon
    <2>3. PICK got :
            \/ /\ clients' = [clients EXCEPT ![f] = NoClient]
               /\ pc' \in {"top", "batch"}
            \/ /\ clients' = [clients EXCEPT ![f].input = got]
               /\ \/ pc' = "request" /\ cur' = f /\ Judge(clients[f].conn, got) = "whole"
                  \/ pc' \in {"top", "batch"}
      BY <1>3, Zenon DEF Read, After, Erase
    <2>4. CASE /\ clients' = [clients EXCEPT ![f] = NoClient]
               /\ pc' \in {"top", "batch"}
      BY <1>e, <2>1, <2>2, <2>4, Zenon DEF AnswerInvariant, WholeRequest
    <2>5. CASE /\ clients' = [clients EXCEPT ![f].input = got]
               /\ \/ pc' = "request" /\ cur' = f /\ Judge(clients[f].conn, got) = "whole"
                  \/ pc' \in {"top", "batch"}
      <3> DEFINE n == [clients[f] EXCEPT !.input = got]
      <3>1. n.conn = clients[f].conn /\ n.reply = clients[f].reply /\ n.input = got
        BY <1>t, <2>2, RequestFields
      <3>2. clients'[f] = n /\ \A g \in Fds \ {f} : clients'[g] = clients[g]
        BY <1>t, <2>2, <2>5, Zenon
      <3> HIDE DEF n
      <3>3. \A g \in Fds : \/ clients'[g] = NoClient
                           \/ /\ clients[g] # NoClient
                              /\ clients'[g].conn = clients[g].conn
                              /\ clients'[g].reply = clients[g].reply
        BY <2>2, <3>1, <3>2, Zenon DEF Used
      <3>4. AnswerTypes' /\ OnePlace' /\ TrueReplies'
        BY <1>t, <2>1, <3>3, NothingIsAnswered, Zenon DEF AnswerInvariant
      <3>5. CASE pc' = "request" /\ cur' = f /\ Judge(clients[f].conn, got) = "whole"
        <4>1. got = Request[clients[f].conn].size + HeaderLen
          BY <3>5, WholeIsWhole, Zenon
        <4>2. Request[clients[f].conn].size \in Nat
          BY <2>2, ControlAssumption, Zenon DEF AnswerInvariant, AnswerTypes
        <4>3. got = HeaderLen + Request[clients[f].conn].size
          BY <4>1, <4>2, ControlAssumption
        <4> QED
          BY <2>1, <3>1, <3>2, <3>4, <3>5, <4>3, Zenon DEF AnswerInvariant, WholeRequest
      <3> QED
        BY <2>5, <3>4, <3>5, Zenon DEF AnswerInvariant, WholeRequest
    <2> QED
      BY <2>3, <2>4, <2>5, Zenon
  <1>4. ASSUME NEW f \in Used, SendSome(f), clients[f].reply # "none",
               pc' \in {"top", "batch"},
               UNCHANGED <<Request, applied, backlog, ctl>>
        PROVE  AnswerInvariant'
    <2> DEFINE c == clients[f].conn
    <2>0. f \in Fds /\ clients[f] # NoClient
      BY Zenon DEF Used
    <2>1. CASE ctlGone(c)
      <3>1. clients' = [clients EXCEPT ![f] = NoClient] /\ verdict' = verdict
        BY <1>4, <2>1, Zenon DEF SendSome, Erase
      <3> QED
        BY <1>4, <1>e, <2>0, <3>1, Zenon DEF AnswerInvariant, WholeRequest
    <2>2. CASE ~ctlGone(c)
      <3>1. verdict' = [verdict EXCEPT ![c] = clients[f].reply]
        BY <1>4, <2>2, Zenon DEF SendSome
      <3>2. PICK v : \/ clients' = [clients EXCEPT ![f] = NoClient]
                     \/ clients' = [clients EXCEPT ![f].sent = v]
        BY <1>4, <2>2, Zenon DEF SendSome, Erase
      <3>3. /\ \/ clients'[f] = NoClient
               \/ clients'[f].conn = c /\ clients'[f].reply = clients[f].reply
            /\ \A g \in Fds \ {f} : clients'[g] = clients[g]
        <4>1. CASE clients' = [clients EXCEPT ![f] = NoClient]
          BY <1>t, <2>0, <4>1, Zenon
        <4>2. CASE clients' = [clients EXCEPT ![f].sent = v]
          <5> DEFINE n == [clients[f] EXCEPT !.sent = v]
          <5>1. n.conn = c /\ n.reply = clients[f].reply
            BY <1>t, <2>0, RequestFields, Zenon
          <5>2. clients'[f] = n /\ \A g \in Fds \ {f} : clients'[g] = clients[g]
            BY <1>t, <2>0, <4>2, Zenon
          <5> QED
            BY <5>1, <5>2, Zenon
        <4> QED
          BY <3>2, <4>1, <4>2, Zenon
      <3>4. AnswerTypes' /\ OnePlace' /\ TrueReplies'
        BY <1>4, <2>2, <3>1, <3>3, ReplyIsSent, Zenon DEF AnswerInvariant
      <3> QED
        BY <1>4, <3>4, Zenon DEF AnswerInvariant, WholeRequest
    <2> QED
      BY <2>1, <2>2, Zenon
  <1>5. ASSUME NEW e \in batch, SendMore(e)
        PROVE  AnswerInvariant'
    <2>1. /\ Fresh(e) /\ SendSome(e.fd) /\ clients[e.fd].reply # "none"
          /\ pc' \in {"top", "batch"} /\ UNCHANGED <<Request, applied, backlog, ctl>>
      BY <1>5, Zenon DEF SendMore, After
    <2> QED
      BY <1>4, <1>u, <2>1, Zenon
  <1>6. CASE Send
    <2>1. /\ pc = "send" /\ SendSome(cur) /\ pc' \in {"top", "batch"}
          /\ UNCHANGED <<Request, applied, backlog, ctl>>
      BY <1>6, Zenon DEF Send, After
    <2>2. cur \in Used
      BY <2>1, Zenon DEF EventInvariant, LoopPlace, Used
    <2>3. clients[cur].reply # "none"
      BY <2>1, Zenon DEF AnswerInvariant, WholeRequest
    <2> QED
      BY <1>4, <2>1, <2>2, <2>3, Zenon
  <1>7. ASSUME NEW ok, Reply(ok), pc \in {"request", "override"},
               \/ ok = "refused" /\ applied' = applied
               \/ ok = "ok" /\ TakeEffect
        PROVE  AnswerInvariant'
    <2> DEFINE n == [[clients[cur] EXCEPT !.reply = ok] EXCEPT !.deadline = Timeout]
    <2>1. cur \in Fds /\ clients[cur] # NoClient /\ cur \in Used
      BY <1>7, Zenon DEF EventInvariant, LoopPlace, Used
    <2>2. /\ clients' = [clients EXCEPT ![cur] = n] /\ pc' = "send"
          /\ UNCHANGED <<Request, verdict, backlog, ctl, cur>>
      BY <1>7, <1>t, <2>1, Zenon DEF Reply
    <2>3. n.conn = clients[cur].conn /\ n.reply = ok
      BY <1>t, <2>1 DEF IsClient
    <2> HIDE DEF n
    <2>4. clients'[cur] = n /\ \A g \in Fds \ {cur} : clients'[g] = clients[g]
      BY <1>t, <2>1, <2>2, Zenon
    <2>5. clients[cur].reply = "none"
      BY <1>7, Zenon DEF AnswerInvariant, WholeRequest
    <2>6. AnswerTypes' /\ OnePlace' /\ TrueReplies'
      BY <1>7, <2>1, <2>2, <2>3, <2>4, <2>5, RequestIsAnswered, Zenon DEF AnswerInvariant, TakeEffect
    <2>7. WholeRequest'
      BY <2>2, <2>3, <2>4, <1>7, Zenon DEF WholeRequest
    <2> QED
      BY <2>6, <2>7, Zenon DEF AnswerInvariant
  <1>8. CASE Reboot \/ List \/ Load \/ Refuse \/ OverrideDone \/ OverrideRefused
    BY <1>7, <1>8, Zenon DEF Reboot, List, Load, Refuse, OverrideDone, OverrideRefused
  <1> QED
    BY <1>1, <1>2, <1>3, <1>5, <1>6, <1>8, Zenon

(* Every step of launchd and of the programs around it keeps the answers    *)
(* true and a request in one place.                                        *)
LEMMA AnswerStep == EventInvariant /\ AnswerInvariant /\ [Next]_vars => AnswerInvariant'
  <1> SUFFICES ASSUME EventInvariant, AnswerInvariant, [Next]_vars
               PROVE  AnswerInvariant'
    BY Zenon
  <1> USE DEF dvars, cvars, svars
  <1>t. ctl = [c \in Connections |-> ctl[c]]
    BY Zenon DEF AnswerInvariant, AnswerTypes
  <1>1. CASE Tick
    <2>1. /\ UNCHANGED <<Request, applied, verdict, backlog, ctl, cur, pc>>
          /\ \A f \in Fds : \E v : clients'[f] = [clients[f] EXCEPT !.deadline = v]
      BY <1>1, Zenon DEF Tick
    <2>2. \A f \in Fds : clients[f] = NoClient => clients'[f] = NoClient
      BY <1>1 DEF Tick, NoClient
    <2>3. ASSUME NEW f \in Fds
          PROVE  /\ clients'[f].conn = clients[f].conn /\ clients'[f].reply = clients[f].reply
                 /\ clients'[f].input = clients[f].input
      <3>1. PICK v : clients'[f] = [clients[f] EXCEPT !.deadline = v]
        BY <2>1, Zenon
      <3>2. IsClient(clients[f])
        BY Zenon DEF EventInvariant, ClientTable
      <3> QED
        BY <3>1, <3>2, RequestFields
    <2>4. AnswerTypes' /\ OnePlace' /\ TrueReplies'
      BY <1>t, <2>1, <2>2, <2>3, NothingIsAnswered, Zenon DEF AnswerInvariant
    <2>5. WholeRequest'
      BY <2>1, <2>3, Zenon DEF AnswerInvariant, WholeRequest, EventInvariant, LoopPlace
    <2> QED
      BY <2>4, <2>5, Zenon DEF AnswerInvariant
  <1>2. ASSUME NEW c \in Connections, Connect(c)
        PROVE  AnswerInvariant'
    <2>1. /\ UNCHANGED <<Request, applied, verdict, clients, cur, pc>> /\ ctl[c] = "new"
          /\ \/ /\ backlog' = Append(backlog, c)
                /\ ctl' = [ctl EXCEPT ![c] = "sending"]
             \/ /\ ctl' = [ctl EXCEPT ![c] = "error"]
                /\ backlog' = backlog
      BY <1>2, Zenon DEF Connect
    <2>2. CASE /\ backlog' = Append(backlog, c)
               /\ ctl' = [ctl EXCEPT ![c] = "sending"]
      <3>1. AnswerTypes' /\ OnePlace' /\ TrueReplies'
        BY <2>1, <2>2, ConnectionIsMade, Zenon DEF AnswerInvariant
      <3> QED
        BY <2>1, <3>1, Zenon DEF AnswerInvariant, WholeRequest
    <2>3. CASE /\ ctl' = [ctl EXCEPT ![c] = "error"]
               /\ backlog' = backlog
      <3>1. /\ ctl' = [d \in Connections |-> ctl'[d]]
            /\ \A d \in Connections :
                  ctl'[d] = ctl[d] \/ ctl'[d] \notin {"new", "ok", "refused"}
        BY <1>t, <2>3, Zenon
      <3>2. AnswerTypes' /\ OnePlace' /\ TrueReplies'
        BY <2>1, <2>3, <3>1, NothingIsAnswered, Zenon DEF AnswerInvariant
      <3> QED
        BY <2>1, <3>2 DEF AnswerInvariant, WholeRequest
    <2> QED
      BY <2>1, <2>2, <2>3, Zenon
  <1>3. ASSUME NEW c \in Connections, Write(c)
        PROVE  AnswerInvariant'
    <2>1. /\ UNCHANGED <<Request, applied, verdict, clients, backlog, cur, pc>>
          /\ ctl[c] = "sending"
          /\ ctl' = [ctl EXCEPT ![c] = "reading"] \/ ctl' = [ctl EXCEPT ![c] = @]
      BY <1>3, Zenon DEF Write
    <2>2. /\ ctl' = [d \in Connections |-> ctl'[d]]
          /\ \A d \in Connections :
                ctl'[d] = ctl[d] \/ ctl'[d] \notin {"new", "ok", "refused"}
      BY <1>t, <2>1, Zenon
    <2>3. AnswerTypes' /\ OnePlace' /\ TrueReplies'
      BY <2>1, <2>2, NothingIsAnswered, Zenon DEF AnswerInvariant
    <2> QED
      BY <2>1, <2>3, Zenon DEF AnswerInvariant, WholeRequest
  <1>4. ASSUME NEW c \in Connections, Receive(c) \/ GiveUp(c)
        PROVE  AnswerInvariant'
    <2>1. UNCHANGED <<Request, applied, clients, backlog, cur, pc>>
      BY <1>4, Zenon DEF Receive, GiveUp
    <2>2. PICK v : /\ ctl[c] \in {"sending", "reading"} /\ ctl' = [ctl EXCEPT ![c] = v]
                   /\ \/ v = verdict[c] /\ verdict' = verdict
                      \/ v = "reading" /\ verdict' = verdict
                      \/ v = "error" /\ verdict' = [verdict EXCEPT ![c] = "none"]
      <3>1. CASE Receive(c)
        <4>1. /\ ctl[c] = "reading" /\ verdict' = verdict
              /\ ctl' = [ctl EXCEPT ![c] = verdict[c]] \/ ctl' = [ctl EXCEPT ![c] = @]
          BY <3>1, Zenon DEF Receive
        <4>2. ctl' = [ctl EXCEPT ![c] = verdict[c]] \/ ctl' = [ctl EXCEPT ![c] = "reading"]
          BY <4>1, Zenon
        <4> QED
          BY <4>1, <4>2, Zenon
      <3>2. CASE GiveUp(c)
        BY <3>2, Zenon DEF GiveUp
      <3> QED
        BY <1>4, <3>1, <3>2, Zenon
    <2>3. AnswerTypes' /\ OnePlace' /\ TrueReplies'
      BY <2>1, <2>2, LaunchctlEnds, Zenon DEF AnswerInvariant
    <2> QED
      BY <2>1, <2>3, Zenon DEF AnswerInvariant, WholeRequest
  <1> QED
    BY <1>1, <1>2, <1>3, <1>4, ChannelLeavesAnswers, ChannelAnswers, Zenon DEF Next, Loop

(* Events, clients, requests and answers agree in every state. *)
THEOREM AnswerInvariantHolds == Spec => [](EventInvariant /\ AnswerInvariant)
  <1>1. Init => EventInvariant
    <2>1. IsClient(NoClient)
      BY Zenon DEF IsClient, NoClient
    <2> QED
      BY <2>1 DEF Init, EventInvariant, EndpointInvariant, EndpointIsMine, ClientTable,
                  EventTable, LoopPlace
  <1>2. Init => AnswerInvariant
    <2> SUFFICES ASSUME Init PROVE AnswerInvariant
      BY Zenon
    <2>1. Used = {} /\ backlog = <<>> /\ DOMAIN backlog = {} /\ pc = "off"
      BY DEF Init, Used
    <2>2. \A c \in Connections : ctl[c] = "new" /\ applied[c] = 0 /\ verdict[c] = "none"
      BY Zenon DEF Init
    <2>3. AnswerTypes
      BY <2>1 DEF Init, AnswerTypes
    <2> QED
      BY <2>1, <2>2, <2>3, Zenon DEF AnswerInvariant, OnePlace, TrueReplies, TrueOf, WholeRequest
  <1> QED
    BY <1>1, <1>2, EventStep, AnswerStep, PTL DEF Spec

(* However the bytes of requests and answers are cut up, and whoever is     *)
(* killed on the way: launchctl says that it succeeded only of a request   *)
(* that took effect, and that it failed only of one that did not.          *)
THEOREM LaunchctlIsTold == Spec => []AnswersAreTrue
  <1>1. AnswerInvariant => AnswersAreTrue
    BY Zenon DEF AnswerInvariant, AnswersAreTrue, TrueReplies, TrueOf
  <1> QED
    BY <1>1, AnswerInvariantHolds, PTL

(* A request takes effect once at most, and only when all of it has         *)
(* arrived and nothing else with it.                                       *)
THEOREM RequestsTakeEffectOnce == Spec => AppliedOnceWhole
  <1> DEFINE Step == \A c \in Connections : applied'[c] # applied[c] =>
                        /\ applied[c] = 0
                        /\ clients[cur].conn = c
                        /\ clients[cur].input = HeaderLen + Request[c].size
  <1>1. EventInvariant /\ AnswerInvariant /\ [Next]_vars => [Step]_vars
    <2> SUFFICES ASSUME EventInvariant, AnswerInvariant, Next
                 PROVE  Step
      BY Zenon
    <2> USE DEF svars
    <2>1. CASE applied' = applied
      BY <2>1, Zenon
    <2>2. CASE TakeEffect /\ pc \in {"request", "override"}
      <3>1. cur \in Used /\ applied \in [Connections -> Nat]
        BY <2>2, Zenon DEF EventInvariant, LoopPlace, Used, AnswerInvariant, AnswerTypes
      <3>2. /\ clients[cur].reply = "none" /\ clients[cur].conn \in Connections
            /\ clients[cur].input = HeaderLen + Request[clients[cur].conn].size
        BY <2>2, <3>1, Zenon DEF AnswerInvariant, WholeRequest, AnswerTypes
      <3>3. applied[clients[cur].conn] = 0
        BY <3>1, <3>2, Zenon DEF AnswerInvariant, TrueReplies, Waits
      <3>4. \A c \in Connections \ {clients[cur].conn} : applied'[c] = applied[c]
        BY <2>2, <3>1, Zenon DEF TakeEffect
      <3> QED
        BY <3>2, <3>3, <3>4, Zenon
    <2>3. CASE Reboot \/ List \/ Load \/ OverrideDone
      BY <2>2, <2>3, Zenon DEF Reboot, List, Load, OverrideDone
    <2> HIDE DEF Step
    <2>4. ASSUME NEW i \in Instances,
                 \/ Lock(i) \/ RemoveStale(i) \/ Bind(i) \/ BindFails(i)
                 \/ Finish(i) \/ CloseSocket(i) \/ Unlock(i) \/ Killed(i)
          PROVE  Step
      BY <2>1, <2>4, Zenon DEF Lock, RemoveStale, Bind, BindFails, Finish, CloseSocket, Unlock,
                        Killed, ProcessEnds
    <2>5. CASE PowerLoss \/ Sigterm \/ CloseListeners \/ Tick
      BY <2>1, <2>5, Zenon DEF PowerLoss, ProcessEnds, Sigterm, Returned, CloseListeners, Tick
    <2>6. CASE Arm \/ Kevent \/ AcceptBegin \/ Accept \/ AcceptEnd \/ Send
      BY <2>1, <2>6, Zenon DEF Arm, Kevent, Returned, AcceptBegin, Accept, AcceptEnd, Send
    <2>7. CASE \E e \in batch : Activate(e) \/ Drop(e) \/ Read(e) \/ SendMore(e)
      BY <2>1, <2>7, Zenon DEF Activate, Drop, Read, SendMore
    <2>8. CASE ListTooLong \/ Refuse \/ SetOverride \/ OverrideStep \/ OverrideRefused
      BY <2>1, <2>8, Zenon DEF ListTooLong, Refuse, SetOverride, OverrideStep, OverrideRefused
    <2>9. CASE \E c \in Connections : Connect(c) \/ Write(c) \/ Receive(c) \/ GiveUp(c)
      BY <2>1, <2>9, Zenon DEF Connect, Write, Receive, GiveUp
    <2> QED
      BY <2>3, <2>4, <2>5, <2>6, <2>7, <2>8, <2>9, Zenon DEF Next, Loop
  <1> QED
    BY <1>1, AnswerInvariantHolds, PTL DEF Spec, AppliedOnceWhole
=============================================================================
