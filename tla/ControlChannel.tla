-------------------------- MODULE ControlChannel --------------------------
(***************************************************************************)
(* launchd's control socket and launchctl (pkgs/launchd, daemon.cpp and    *)
(* client.cpp): the lock and socket that make one launchd the owner of an  *)
(* endpoint, connections with partial reads and writes, deadlines on both  *)
(* sides, one-shot events taken from a batch while descriptors are closed  *)
(* and reused, and the commands that end in the override database, in a    *)
(* job's listener or in shutdown.                                          *)
(*                                                                         *)
(* A message is a number of units, the header first.  Its text is the      *)
(* request of the connection.  Jobs are in module Launchd; here are only   *)
(* the descriptors of their listeners, which share the queue.              *)
(***************************************************************************)
EXTENDS OverrideDatabase, FiniteSets, Sequences, FiniteSetsExt

CONSTANTS
    Instances,   \* processes that run launchd, each once
    Connections, \* processes that run launchctl, or another program, each once
    Requests,    \* what they may send: for each [size, sends, command, label]
    Fds,         \* descriptors of launchd's clients and of its jobs' listeners
    Listeners,   \* those of the listeners that loadDirectories opens, for each of Requests
    MaxClients,  \* 32
    AcceptBatch, \* 32
    HeaderLen,   \* 4
    MaxMessage,  \* the largest size a header may announce
    ReplyLen,    \* the length of a framed reply
    BufferLen,   \* what the socket holds for a reader that is slow
    Timeout      \* ioTimeout

ASSUME ControlAssumption ==
    /\ Instances \subseteq Nat \ {0} /\ Connections \subseteq Nat \ {0}
    /\ HeaderLen \in Nat \ {0}
    /\ Fds \subseteq Nat \ {0} /\ Listeners \in [Requests -> SUBSET Fds]
    /\ \A r \in Requests, c \in Connections :
          r[c].size \in Nat /\ r[c].sends \in Nat /\ r[c].label \in Labels

Nobody == 0
NoClient == [conn |-> Nobody, gen |-> 0, input |-> 0, reply |-> "none",
             sent |-> 0, deadline |-> 0]

VARIABLES
    Request,    \* what each connection sends
    inst,       \* each launchd: "new", "locked", "up", "closing", "gone"
    lock,       \* who holds the flock, or Nobody
    path,       \* whose socket the path names, or Nobody
    pc,         \* where the loop is: "off", "top", "wait", "batch", "accept",
                \* "request", "override", "send"
    clients,    \* clients_, by descriptor
    listeners,  \* the descriptors of the jobs' listeners
    nextClient, \* nextClient_
    shuttingDown, \* shuttingDown_
    watched,    \* events registered with the queue
    batch,      \* events returned by kevent and not yet looked at
    cur,        \* the descriptor being serviced, or how many were accepted so far
    backlog,    \* connections waiting to be accepted
    ctl,        \* each launchctl: "new", "sending", "reading", "ok", "refused", "error"
    up,         \* whether launchd's end of the connection is open
    offset,     \* units that launchctl has sent, or then, has received
    toServer,   \* units on the way to launchd
    toClient,   \* units on the way to launchctl
    verdict,    \* the reply's OK, once it is on the way
    applied     \* history: how often the request of a connection took effect

dvars == <<pc, clients, listeners, nextClient, shuttingDown, watched, batch, cur, backlog>>
cvars == <<Request, ctl, offset>>
svars == <<up, toServer, toClient, verdict, applied>>
evars == <<inst, lock, path>>
vars == <<evars, dvars, cvars, svars, ovars>>

\* The owner of an event is history: the connection it was registered for, or
\* Nobody for the endpoint, which has the descriptor 0 here, and a listener.
Events == [fd : Fds \union {0}, filter : {"read", "write"}, gen : Nat,
           owner : Connections \union {Nobody}]

TypeOK ==
    /\ OverrideTypeOK
    /\ Request \in Requests
    /\ inst \in [Instances -> {"new", "locked", "up", "closing", "gone"}]
    /\ lock \in Instances \union {Nobody}
    /\ path \in Instances \union {Nobody}
    /\ pc \in {"off", "top", "wait", "batch", "accept", "request", "override", "send"}
    /\ clients \in [Fds -> [conn : Connections \union {Nobody}, gen : Nat, input : Nat,
                            reply : {"none", "ok", "refused"}, sent : 0..ReplyLen,
                            deadline : 0..Timeout]]
    /\ Cardinality({f \in Fds : clients[f] # NoClient}) <= MaxClients
    /\ listeners \subseteq {f \in Fds : clients[f] = NoClient}
    /\ watched \subseteq Events /\ batch \subseteq Events
    /\ ctl \in [Connections -> {"new", "sending", "reading", "ok", "refused", "error"}]
    /\ \A c \in Connections :
          /\ offset[c] \in 0..Max({Request[c].sends, ReplyLen})
          /\ toServer[c] \in 0..Request[c].sends
          /\ toClient[c] \in 0..BufferLen

Init ==
    /\ OverrideInit
    /\ Request \in Requests
    /\ inst = [i \in Instances |-> "new"] /\ lock = Nobody /\ path = Nobody
    /\ pc = "off" /\ clients = [f \in Fds |-> NoClient] /\ nextClient = 1
    /\ listeners = {}
    /\ shuttingDown = FALSE /\ watched = {} /\ batch = {} /\ cur = 0 /\ backlog = <<>>
    /\ ctl = [c \in Connections |-> "new"]
    /\ up = [c \in Connections |-> FALSE] /\ offset = [c \in Connections |-> 0]
    /\ toServer = [c \in Connections |-> 0] /\ toClient = [c \in Connections |-> 0]
    /\ verdict = [c \in Connections |-> "none"]
    /\ applied = [c \in Connections |-> 0]

-----------------------------------------------------------------------------
(* The endpoint: Endpoint::Endpoint, cleanup and ~Endpoint. *)

\* Mutant: a lock held by another launchd is no obstacle.
LockAnyway(i) ==
    /\ inst[i] = "new"
    /\ lock' = i
    /\ inst' = [inst EXCEPT ![i] = "locked"]
    /\ UNCHANGED <<path, dvars, cvars, svars, ovars>>

\* flock, or "another launchd owns this endpoint".  The processes are numbered
\* in the order in which they get here.
Lock(i) ==
    /\ inst[i] = "new" /\ \A j \in Instances : j < i => inst[j] # "new"
    /\ IF lock = Nobody
       THEN lock' = i /\ inst' = [inst EXCEPT ![i] = "locked"]
       ELSE lock' = lock /\ inst' = [inst EXCEPT ![i] = "gone"]
    /\ UNCHANGED <<path, dvars, cvars, svars, ovars>>

\* The socket of a launchd that was killed is removed.
RemoveStale(i) ==
    /\ inst[i] = "locked"
    /\ path # Nobody
    /\ path' = Nobody
    /\ UNCHANGED <<inst, lock, dvars, cvars, svars, ovars>>

\* bind and listen; then the constructor of Supervisor reads the overrides and
\* loads the jobs of the directories.
Bind(i) ==
    /\ inst[i] = "locked"
    /\ path = Nobody
    /\ path' = i
    /\ inst' = [inst EXCEPT ![i] = "up"]
    /\ pc' = "top"
    /\ shuttingDown' = FALSE
    /\ nextClient' = 1
    /\ readOverrides
    /\ listeners' = Listeners[Request]
    /\ UNCHANGED <<lock, clients, watched, batch, cur, backlog, cvars, svars>>

\* A later step of the constructor fails, and it cleans up.
BindFails(i) ==
    /\ inst[i] = "locked"
    /\ path = Nobody
    /\ path' = i
    /\ inst' = [inst EXCEPT ![i] = "closing"]
    /\ UNCHANGED <<lock, dvars, cvars, svars, ovars>>

\* launchd's ends are closed, and what was not read is lost.
Hangup(conns) ==
    /\ up' = [c \in Connections |-> up[c] /\ c \notin conns]
    /\ toServer' = [c \in Connections |-> IF c \in conns THEN 0 ELSE toServer[c]]

\* Everything that the process held is closed with it.
ProcessEnds ==
    /\ pc' = "off"
    /\ clients' = [f \in Fds |-> NoClient] /\ listeners' = {}
    /\ watched' = {} /\ batch' = {} /\ cur' = 0 /\ backlog' = <<>>
    /\ Hangup(Connections)
    /\ UNCHANGED <<nextClient, shuttingDown, toClient, verdict, applied>>

\* The destructors: clients first, then the socket if it is still this one's,
\* and the lock last.
CloseSocket(i) ==
    /\ inst[i] = "closing"
    /\ path = i
    /\ path' = Nobody
    /\ UNCHANGED <<inst, lock, dvars, cvars, svars, ovars>>

Unlock(i) ==
    /\ inst[i] = "closing"
    /\ path # i
    /\ lock' = Nobody
    /\ inst' = [inst EXCEPT ![i] = "gone"]
    /\ UNCHANGED <<path, dvars, cvars, svars, ovars>>

\* launchd is killed, wherever it is.
Killed(i) ==
    /\ inst[i] \in {"locked", "up", "closing"}
    /\ inst' = [inst EXCEPT ![i] = "gone"]
    /\ lock' = IF lock = i THEN Nobody ELSE lock
    /\ IF inst[i] = "up" THEN ProcessEnds /\ OverrideKilled
                         ELSE UNCHANGED <<dvars, svars, ovars>>
    /\ UNCHANGED <<path, cvars>>

\* The machine stops while a launchd runs; every program is gone.
PowerLoss ==
    /\ lock # Nobody
    /\ inst' = [i \in Instances |-> IF inst[i] = "new" THEN "new" ELSE "gone"]
    /\ lock' = Nobody
    /\ ProcessEnds
    /\ OverridePowerLoss
    /\ ctl' = [c \in Connections |->
                 IF ctl[c] \in {"sending", "reading"} THEN "error" ELSE ctl[c]]
    /\ UNCHANGED <<path, Request, offset>>

-----------------------------------------------------------------------------
(* The loop: Supervisor::run. *)

Used == {f \in Fds : clients[f] # NoClient}
Free == Fds \ (Used \union listeners)
ctlGone(c) == ctl[c] \in {"ok", "refused", "error"}

\* clients_.erase: closing a descriptor removes its events from the queue.
Erase(f) ==
    /\ clients' = [clients EXCEPT ![f] = NoClient]
    /\ watched' = {e \in watched : e.fd # f}
    /\ Hangup({clients[f].conn})

\* collectGarbage() erases jobs whose process is gone, and so closes their
\* listeners.  Module Launchd says when.
CloseListeners ==
    /\ pc = "top" /\ shuttingDown
    /\ \E closed \in SUBSET listeners :
          /\ listeners' = listeners \ closed
          /\ watched' = {e \in watched : e.fd \notin closed}
    /\ UNCHANGED <<pc, clients, nextClient, shuttingDown, batch, cur, backlog, svars,
                   evars, cvars, ovars>>

\* A development instance returns from run() once its jobs are gone, and
\* destroys what it owns.
Finish(i) ==
    /\ inst[i] = "up" /\ pc = "top" /\ shuttingDown /\ listeners = {}
    /\ inst' = [inst EXCEPT ![i] = "closing"]
    /\ ProcessEnds
    /\ OverrideKilled
    /\ UNCHANGED <<lock, path, cvars>>

\* One filter for each client, by whether it has a reply to send.
clientEvent(f) ==
    [fd |-> f, gen |-> clients[f].gen, owner |-> clients[f].conn,
     filter |-> IF clients[f].reply = "none" THEN "read" ELSE "write"]

\* The endpoint and the jobs' listeners are registered without a generation.
listenerEvent(f) == [fd |-> f, filter |-> "read", gen |-> 0, owner |-> Nobody]

\* The endpoint, the clients and, until shutdown, the listeners of the jobs that
\* wait for one.
Watch(kept) ==
    \E waiting \in IF shuttingDown THEN {{}} ELSE SUBSET listeners :
       watched' = {e \in watched : e.fd \notin Used \ kept}
                    \union {listenerEvent(f) : f \in waiting \union {0}}
                    \union {clientEvent(f) : f \in kept}

\* Mutant: deadlines are looked at only when something arrives.
ArmUntimed ==
    /\ pc = "top"
    /\ Watch(Used)
    /\ pc' = "wait"
    /\ UNCHANGED <<clients, listeners, nextClient, shuttingDown, batch, cur, backlog, svars,
                   evars, cvars, ovars>>

\* Clients past their deadline are dropped, the others are watched.
Arm ==
    LET expired == {f \in Used : clients[f].deadline = 0}
        kept == Used \ expired
    IN  /\ pc = "top"
        /\ clients' = [f \in Fds |-> IF f \in kept THEN clients[f] ELSE NoClient]
        /\ Hangup({clients[f].conn : f \in expired})
        /\ Watch(kept)
        /\ pc' = "wait"
        /\ UNCHANGED <<listeners, nextClient, shuttingDown, batch, cur, backlog, toClient,
                       verdict, applied, evars, cvars, ovars>>

\* What the kernel finds ready: a connection to the endpoint, data or the end of
\* it, room.
Ready(e) ==
    LET c == clients[e.fd].conn
    IN  CASE e.fd = 0 -> backlog # <<>>
          [] e.filter = "read" -> ctlGone(c) \/ toServer[c] > 0
          [] OTHER -> ctlGone(c) \/ toClient[c] < BufferLen

\* kevent returns the events that are ready, or none when 100 ms have passed;
\* EV_ONESHOT removes those it returns.  Anybody may connect to a listener.
Returned(closed) ==
    LET knocks == {e \in watched : e.fd \in listeners}
    IN  /\ pc = "wait"
        /\ \E ready \in SUBSET knocks :
              batch' = ready \union {e \in watched \ knocks : Ready(e)}
        /\ watched' = {e \in watched \ batch' : e.fd \notin closed}
        /\ pc' = IF batch' = {} THEN "top" ELSE "batch"
        /\ UNCHANGED <<clients, nextClient, cur, backlog, svars, evars, cvars, ovars>>

Kevent == Returned({}) /\ UNCHANGED <<listeners, shuttingDown>>

\* A shutdown signal that kevent returns is handled before the other events:
\* shutdown() closes the listeners of the jobs that have no process.
Sigterm ==
    /\ ~shuttingDown
    /\ shuttingDown' = TRUE
    /\ \E closed \in SUBSET listeners :
          listeners' = listeners \ closed /\ Returned(closed)

-----------------------------------------------------------------------------
(* Clients: acceptClients, service and request. *)

After(events) == /\ batch' = events
                 /\ pc' = IF events = {} THEN "top" ELSE "batch"

AcceptBegin ==
    /\ pc = "batch" /\ listenerEvent(0) \in batch
    /\ pc' = "accept" /\ cur' = 0
    /\ UNCHANGED <<clients, listeners, nextClient, shuttingDown, watched, batch, backlog, svars,
                   evars, cvars, ovars>>

\* The kernel takes the lowest free descriptor; without one, accept fails.  With
\* 32 clients the new one is closed at once.
Accept ==
    LET c == Head(backlog)
    IN  /\ pc = "accept" /\ cur < AcceptBatch /\ backlog # <<>> /\ Free # {}
        /\ cur' = cur + 1
        /\ backlog' = Tail(backlog)
        /\ IF Cardinality(Used) >= MaxClients
           THEN /\ Hangup({c})
                /\ UNCHANGED <<clients, nextClient>>
           ELSE /\ clients' = [clients EXCEPT ![Min(Free)] =
                      [NoClient EXCEPT !.conn = c, !.gen = nextClient, !.deadline = Timeout]]
                /\ nextClient' = nextClient + 1
                /\ UNCHANGED <<up, toServer>>
        /\ UNCHANGED <<pc, listeners, shuttingDown, watched, batch, toClient, verdict, applied,
                       evars, cvars, ovars>>

\* Nothing is left in the queue, the turn's share is used up, or accept failed.
AcceptEnd ==
    /\ pc = "accept"
    /\ After(batch \ {listenerEvent(0)})
    /\ cur' = 0
    /\ UNCHANGED <<clients, listeners, nextClient, shuttingDown, watched, backlog, svars,
                   evars, cvars, ovars>>

\* A connection to a job's listener: the job is started (module Launchd).
Activate(e) ==
    /\ pc = "batch" /\ e.fd \in listeners
    /\ After(batch \ {e})
    /\ UNCHANGED <<clients, listeners, nextClient, shuttingDown, watched, cur, backlog, svars,
                   evars, cvars, ovars>>

\* Mutant: whoever has the descriptor now is served.
FreshDescriptor(e) == e.fd \notin listeners \union {0} /\ clients[e.fd] # NoClient

\* The event's generation must be the connection's that has the descriptor now.
Fresh(e) ==
    /\ e.fd \notin listeners \union {0}
    /\ clients[e.fd] # NoClient /\ clients[e.fd].gen = e.gen

\* An event of another generation is ignored; service() returns false when the
\* deadline has passed or the peer has closed.
Drop(e) ==
    LET c == clients[e.fd].conn
    IN  /\ pc = "batch" /\ e.fd \notin listeners \union {0}
        /\ IF Fresh(e)
           THEN /\ \/ clients[e.fd].deadline = 0
                   \/ /\ clients[e.fd].reply = "none"
                      /\ ctlGone(c) /\ toServer[c] = 0
                /\ Erase(e.fd)
           ELSE UNCHANGED <<clients, watched, up, toServer>>
        /\ After(batch \ {e})
        /\ UNCHANGED <<listeners, nextClient, shuttingDown, cur, backlog, toClient, verdict,
                       applied, evars, cvars, ovars>>

\* What service() makes of `got' units: "more" to come, "bad", or the "whole".
Judge(c, got) ==
    CASE got < HeaderLen -> "more"
      [] Request[c].size = 0 \/ Request[c].size > MaxMessage -> "bad"
      [] got > Request[c].size + HeaderLen -> "bad"
      [] got = Request[c].size + HeaderLen -> "whole"
      [] OTHER -> "more"

\* Mutant: a client that was answered is read again.
ReadAgain(e) ==
    LET f == e.fd
        c == clients[f].conn
    IN  /\ pc = "batch" /\ Fresh(e)
        /\ clients[f].deadline > 0
        /\ \E count \in 0..toServer[c] :
              LET got == clients[f].input + count
                  judged == Judge(c, got)
              IN  /\ toServer' = [toServer EXCEPT ![c] = @ - count]
                  /\ clients' = [clients EXCEPT ![f].input = got]
                  /\ IF judged = "whole"
                     THEN pc' = "request" /\ batch' = batch \ {e} /\ cur' = f
                     ELSE After(batch \ {e}) /\ UNCHANGED cur
        /\ UNCHANGED <<listeners, nextClient, shuttingDown, watched, backlog, up, toClient, verdict,
                       applied, evars, cvars, ovars>>

\* One read of what has arrived.
Read(e) ==
    LET f == e.fd
        c == clients[f].conn
    IN  /\ pc = "batch" /\ Fresh(e)
        /\ clients[f].deadline > 0 /\ clients[f].reply = "none"
        /\ \E count \in 1..toServer[c] :
              LET got == clients[f].input + count
                  judged == Judge(c, got)
              IN  /\ IF judged = "bad"
                     THEN Erase(f)
                     ELSE /\ clients' = [clients EXCEPT ![f].input = got]
                          /\ toServer' = [toServer EXCEPT ![c] = @ - count]
                          /\ UNCHANGED <<watched, up>>
                  /\ IF judged = "whole"
                     THEN pc' = "request" /\ batch' = batch \ {e} /\ cur' = f
                     ELSE After(batch \ {e}) /\ UNCHANGED cur
        /\ UNCHANGED <<listeners, nextClient, shuttingDown, backlog, toClient, verdict, applied,
                       evars, cvars, ovars>>

\* The reply is framed, the deadline starts again, and service() goes on to send.
Reply(ok) ==
    /\ clients' = [clients EXCEPT ![cur].reply = ok, ![cur].deadline = Timeout]
    /\ pc' = "send"
    /\ UNCHANGED <<nextClient, batch, cur, backlog, up, toServer, toClient, verdict,
                   evars, cvars>>

\* The command does what it asks for.
TakeEffect == applied' = [applied EXCEPT ![clients[cur].conn] = @ + 1]

command == Request[clients[cur].conn].command

\* request(): reboot begins shutdown, unless it has begun; later requests but list
\* and reboot are refused, as is what cannot be parsed.
Reboot ==
    /\ pc = "request" /\ command = "reboot"
    /\ shuttingDown' = TRUE
    /\ \E closed \in IF shuttingDown THEN {{}} ELSE SUBSET listeners :
          /\ listeners' = listeners \ closed
          /\ watched' = {e \in watched : e.fd \notin closed}
    /\ TakeEffect
    /\ Reply("ok")
    /\ UNCHANGED ovars

List ==
    /\ pc = "request" /\ command = "list"
    /\ TakeEffect
    /\ Reply("ok")
    /\ UNCHANGED <<listeners, watched, shuttingDown, ovars>>

\* load opens the job's listener, if it has one.
Load ==
    /\ pc = "request" /\ command = "load" /\ ~shuttingDown
    /\ \/ UNCHANGED listeners
       \/ Free # {} /\ listeners' = listeners \union {Min(Free)}
    /\ TakeEffect
    /\ Reply("ok")
    /\ UNCHANGED <<watched, shuttingDown, ovars>>

\* A list that does not fit in a message: frame() throws past service().
ListTooLong ==
    /\ pc = "request" /\ command = "list"
    /\ Erase(cur)
    /\ cur' = 0
    /\ After(batch)
    /\ UNCHANGED <<listeners, nextClient, shuttingDown, backlog, toClient, verdict, applied,
                   evars, cvars, ovars>>

\* load may find something wrong with the job at any time.
Refuse ==
    /\ pc = "request"
    /\ \/ command \in {"disable", "enable"} /\ shuttingDown
       \/ command \in {"load", "unknown"}
    /\ Reply("refused")
    /\ UNCHANGED <<listeners, watched, shuttingDown, applied, ovars>>

\* enable and disable, a system call at a time.
SetOverride ==
    /\ pc = "request" /\ command \in {"disable", "enable"} /\ ~shuttingDown
    /\ BeginOverride(Request[clients[cur].conn].label,
                     IF command = "disable" THEN "disabled" ELSE "enabled")
    /\ pc' = "override"
    /\ UNCHANGED <<clients, listeners, nextClient, shuttingDown, watched, batch, cur, backlog, svars,
                   evars, cvars>>

OverrideStep ==
    /\ pc = "override"
    /\ UnlinkTemporary \/ CreateTemporary \/ WriteTemporary \/ SyncTemporary
    /\ UNCHANGED <<dvars, svars, evars, cvars>>

OverrideDone ==
    /\ pc = "override"
    /\ RenameTemporary
    /\ TakeEffect
    /\ Reply("ok")
    /\ UNCHANGED <<listeners, watched, shuttingDown>>

\* Mutant: a failed write is answered like one that succeeded.
OverrideRefusedSilently ==
    /\ pc = "override"
    /\ OverrideFails
    /\ Reply("ok")
    /\ UNCHANGED <<listeners, watched, shuttingDown, applied>>

OverrideRefused ==
    /\ pc = "override"
    /\ OverrideFails
    /\ Reply("refused")
    /\ UNCHANGED <<listeners, watched, shuttingDown, applied>>

\* send(): as much as the socket takes.  The client is erased when all was sent
\* or the peer is gone.
SendSome(f) ==
    LET c == clients[f].conn
        count == Min({BufferLen - toClient[c], ReplyLen - clients[f].sent})
    IN  IF ctlGone(c)
        THEN Erase(f) /\ UNCHANGED <<toClient, verdict>>
        ELSE /\ toClient' = [toClient EXCEPT ![c] = @ + count]
             /\ verdict' = [verdict EXCEPT ![c] = clients[f].reply]
             /\ IF clients[f].sent + count = ReplyLen
                THEN Erase(f)
                ELSE /\ clients' = [clients EXCEPT ![f].sent = @ + count]
                     /\ UNCHANGED <<watched, up, toServer>>

Send ==
    /\ pc = "send"
    /\ SendSome(cur)
    /\ cur' = 0
    /\ After(batch)
    /\ UNCHANGED <<listeners, nextClient, shuttingDown, backlog, applied, evars, cvars, ovars>>

SendMore(e) ==
    /\ pc = "batch" /\ Fresh(e)
    /\ clients[e.fd].deadline > 0 /\ clients[e.fd].reply # "none"
    /\ SendSome(e.fd)
    /\ After(batch \ {e})
    /\ UNCHANGED <<listeners, nextClient, shuttingDown, cur, backlog, applied,
                   evars, cvars, ovars>>

\* Time passes for the clients of launchd.
Tick ==
    /\ \E f \in Fds : clients[f].deadline > 0
    /\ clients' = [f \in Fds |-> [clients[f] EXCEPT !.deadline = IF @ > 0 THEN @ - 1 ELSE 0]]
    /\ UNCHANGED <<pc, listeners, nextClient, shuttingDown, watched, batch, cur, backlog,
                   svars, evars, cvars, ovars>>

-----------------------------------------------------------------------------
(* launchctl: main, ready and transfer. *)

Connect(c) ==
    /\ ctl[c] = "new"
    /\ IF path # Nobody /\ inst[path] = "up"
       THEN /\ backlog' = Append(backlog, c)
            /\ up' = [up EXCEPT ![c] = TRUE]
            /\ ctl' = [ctl EXCEPT ![c] = "sending"]
       ELSE /\ ctl' = [ctl EXCEPT ![c] = "error"]
            /\ UNCHANGED <<backlog, up>>
    /\ UNCHANGED <<Request, offset, pc, clients, listeners, nextClient, shuttingDown, watched,
                   batch, cur, toServer, toClient, verdict, applied, evars, ovars>>

Write(c) ==
    /\ ctl[c] = "sending" /\ up[c]
    /\ \E count \in 1..(Request[c].sends - offset[c]) :
          LET done == offset[c] + count = Request[c].sends
          IN  /\ toServer' = [toServer EXCEPT ![c] = @ + count]
              /\ offset' = [offset EXCEPT ![c] = IF done THEN 0 ELSE @ + count]
              /\ ctl' = [ctl EXCEPT ![c] = IF done THEN "reading" ELSE @]
    /\ UNCHANGED <<Request, up, toClient, verdict, applied, dvars, evars, ovars>>

\* The header, then as much as it announces.
Receive(c) ==
    /\ ctl[c] = "reading"
    /\ \E count \in 1..toClient[c] :
          LET done == offset[c] + count = ReplyLen
          IN  /\ toClient' = [toClient EXCEPT ![c] = @ - count]
              /\ offset' = [offset EXCEPT ![c] = IF done THEN 0 ELSE @ + count]
              /\ ctl' = [ctl EXCEPT ![c] = IF done THEN verdict[c] ELSE @]
    /\ UNCHANGED <<Request, up, toServer, verdict, applied, dvars, evars, ovars>>

\* launchctl ends without an answer: it is disconnected, its deadline passes,
\* or it is interrupted.
GiveUp(c) ==
    /\ ctl[c] \in {"sending", "reading"}
    /\ ctl' = [ctl EXCEPT ![c] = "error"]
    /\ offset' = [offset EXCEPT ![c] = 0]
    /\ toClient' = [toClient EXCEPT ![c] = 0]
    /\ verdict' = [verdict EXCEPT ![c] = "none"]
    /\ UNCHANGED <<Request, up, toServer, applied, dvars, evars, ovars>>

-----------------------------------------------------------------------------
Loop ==
    \/ Arm \/ Kevent \/ AcceptBegin \/ Accept \/ AcceptEnd
    \/ \E e \in batch : Activate(e) \/ Drop(e) \/ Read(e) \/ SendMore(e)
    \/ Reboot \/ List \/ ListTooLong \/ Load \/ Refuse
    \/ SetOverride \/ OverrideStep \/ OverrideDone \/ OverrideRefused
    \/ Send

Next ==
    \/ \E i \in Instances :
          \/ Lock(i) \/ RemoveStale(i) \/ Bind(i) \/ BindFails(i)
          \/ Finish(i) \/ CloseSocket(i) \/ Unlock(i) \/ Killed(i)
    \/ PowerLoss
    \/ Loop
    \/ Sigterm \/ CloseListeners
    \/ Tick
    \/ \E c \in Connections : Connect(c) \/ Write(c) \/ Receive(c) \/ GiveUp(c)

Spec == Init /\ [][Next]_vars

\* The loop is never blocked for longer than 100 ms, and time passes.  Nothing
\* is assumed of the programs that connect.
FairSpec == Spec /\ WF_vars(Loop) /\ WF_vars(Tick)

-----------------------------------------------------------------------------
\* A launchd that runs has the lock, and the path leads to its socket: neither a
\* second launchd nor the destructor of an earlier one takes it away
\* (Endpoint::Endpoint, cleanup).
EndpointIsMine ==
    \A i \in Instances : inst[i] = "up" => lock = i /\ path = i

\* Although descriptors are closed and reused while a batch is being worked on, an
\* event of a connection reaches that connection and no other, and one of a job's
\* listener never reaches a client: it may be stale, its number taken by a client
\* that was accepted after shutdown() closed the listener, and then the generation
\* that run() compares is what keeps it from being served.
EventsReachTheirOwner ==
    \A e \in batch :
       /\ e.owner # Nobody => Fresh(e)
       /\ Fresh(e) => clients[e.fd].conn = e.owner

\* A request takes effect at most once and only as one whole message, although
\* it arrives in pieces and its connection is looked at again and again (service).
AppliedOnceWhole ==
    [][\A c \in Connections : applied'[c] # applied[c] =>
          /\ applied[c] = 0
          /\ clients[cur].conn = c
          /\ clients[cur].input = HeaderLen + Request[c].size]_vars

\* launchctl reports success only for a request that took effect and failure only
\* for one that did not, whatever was cut short, killed or restarted meanwhile
\* (request, main of client.cpp).
AnswersAreTrue ==
    \A c \in Connections :
       /\ ctl[c] = "ok" => applied[c] = 1
       /\ ctl[c] = "refused" => applied[c] = 0

\* No client holds one of the places for ever, not even one that sends half a
\* message or never reads its answer: each connects once, and all places are free
\* again and again (run, service).
SlotsAreFreed == []<>(Used = {})
=============================================================================
