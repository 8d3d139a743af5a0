------------------------------- MODULE Opend -------------------------------
(***************************************************************************)
(* opend's main loop (pkgs/open/opend.cpp, main): connections are accepted *)
(* from the listener that launchd keeps, each is served by a forked        *)
(* worker, and opend exits when it has been idle.                          *)
(*                                                                         *)
(* Each client makes one connection.  What a worker does with it is the    *)
(* subject of OpenRequest; here it runs and ends.  launchd is seen as its  *)
(* job sees it: a connection to the listener starts the job, and when the  *)
(* job's leader ends, the rest of its process group is killed.             *)
(***************************************************************************)
EXTENDS Naturals, Sequences, FiniteSets

CONSTANTS
    Clients,       \* the callers of open
    MaxWorkers,    \* maxWorkers
    AcceptBatch,   \* connections accepted in one turn of the loop
    IdleSeconds,   \* settings.idleSeconds
    MaxFailures    \* how often accept, fork or kevent may fail

ASSUME OpendAssumption ==
    /\ MaxWorkers \in Nat \ {0}
    /\ AcceptBatch \in Nat \ {0}
    /\ IdleSeconds \in Nat
    /\ MaxFailures \in Nat

VARIABLES
    daemon,    \* the place in opend's loop, or "absent"
    workers,   \* the set `workers', as the clients they were forked for
    paused,    \* paused: the listener is disabled in the kqueue
    event,     \* the filter of the event that kevent returned, if any
    accepted,  \* connections accepted in this turn
    quiet,     \* time since idleSince, up to IdleSeconds
    backlog,   \* connections in the listener's queue
    conn,      \* what each caller knows of its connection
    worker,    \* the worker process of each connection
    child,     \* whether SIGCHLD is pending in the kqueue
    failures   \* how many system calls failed

loopVars == <<daemon, workers, paused, event, accepted, quiet>>
opendVars == <<loopVars, backlog, conn, worker, child, failures>>

full == Cardinality(workers) >= MaxWorkers

\* A system call fails.
Fail == failures < MaxFailures /\ failures' = failures + 1

-----------------------------------------------------------------------------
(* launchd, and the callers.                                               *)

\* launchd finds a connection in its listener and starts the job.
Launch ==
    /\ daemon = "absent"
    /\ backlog # <<>>
    /\ daemon' = "top"
    /\ workers' = {}
    /\ paused' = FALSE
    /\ event' = "none"
    /\ accepted' = 0
    /\ quiet' = 0
    /\ child' = FALSE
    /\ UNCHANGED <<backlog, conn, worker, failures>>

\* The job's leader ended: launchd kills the workers in its group, and their
\* callers find the connection closed, except those answered just before.
Leave ==
    /\ daemon' = "absent"
    /\ \E late \in SUBSET {c \in Clients : worker[c] = "running" /\ conn[c] = "served"} :
          conn' = [c \in Clients |-> IF worker[c] # "running" \/ conn[c] # "served"
                                     THEN conn[c]
                                     ELSE IF c \in late THEN "answered" ELSE "dropped"]
    /\ worker' = [c \in Clients |-> "none"]
    /\ UNCHANGED <<workers, paused, event, accepted, quiet, backlog, child>>

Connect(c) ==
    /\ conn[c] = "away"
    /\ conn' = [conn EXCEPT ![c] = "queued"]
    /\ backlog' = Append(backlog, c)
    /\ UNCHANGED <<loopVars, worker, child, failures>>

\* A caller is killed or its deadline passes; its connection stays queued.
GiveUp(c) ==
    /\ conn[c] \in {"queued", "served"}
    /\ conn' = [conn EXCEPT ![c] = "gone"]
    /\ UNCHANGED <<loopVars, backlog, worker, child, failures>>

\* The worker replies, if its caller is still there, and exits.
WorkerEnds(c) ==
    /\ worker[c] = "running"
    /\ worker' = [worker EXCEPT ![c] = "zombie"]
    /\ conn' = [conn EXCEPT ![c] = IF @ = "served" THEN "answered" ELSE @]
    /\ child' = TRUE
    /\ UNCHANGED <<loopVars, backlog, failures>>

-----------------------------------------------------------------------------
(* The loop.                                                               *)

\* Workers must finish first.
Idle == IdleSeconds # 0 /\ workers = {} /\ quiet >= IdleSeconds

IdleExit ==
    /\ daemon = "top"
    /\ Idle
    /\ Leave
    /\ UNCHANGED failures

Wait ==
    /\ daemon = "top"
    /\ ~Idle
    /\ daemon' = "kevent"
    /\ UNCHANGED <<workers, paused, event, accepted, quiet, backlog, conn, worker,
                   child, failures>>

Readable == ~paused /\ backlog # <<>>

\* kevent returns one event, or none when nothing happened for a second; an
\* event may end a wait that took a second, too.  The rest of a turn takes no
\* time that counts in seconds.
Kevent(e, seconds) ==
    /\ daemon = "kevent"
    /\ \/ e = "read" /\ Readable
       \/ e = "signal" /\ child
       \/ e = "none" /\ ~Readable /\ ~child /\ seconds = 1
    /\ daemon' = "reap"
    /\ event' = e
    /\ child' = (child /\ e # "signal")
    /\ quiet' = IF quiet < IdleSeconds THEN quiet + seconds ELSE quiet
    /\ UNCHANGED <<workers, paused, accepted, backlog, conn, worker, failures>>

\* systemError: opend logs it and returns 1.
KeventFails ==
    /\ Fail
    /\ daemon = "kevent" \/ (daemon = "pause" /\ full # paused)
    /\ Leave

\* One turn of the waitpid loop.
Reap(c) ==
    /\ daemon = "reap"
    /\ worker[c] = "zombie"
    /\ worker' = [worker EXCEPT ![c] = "none"]
    /\ workers' = workers \ {c}
    /\ UNCHANGED <<daemon, paused, event, accepted, quiet, backlog, conn, child, failures>>

\* Mutant: the waitpid loop may stop before every worker that ended is collected.
ReapDoneEarly ==
    /\ daemon = "reap"
    /\ daemon' = "accept"
    /\ accepted' = 0
    /\ quiet' = IF workers = {} /\ event = "signal" THEN 0 ELSE quiet
    /\ UNCHANGED <<workers, paused, event, backlog, conn, worker, child, failures>>

ReapDone ==
    /\ daemon = "reap"
    /\ \A c \in Clients : worker[c] # "zombie"
    /\ daemon' = "accept"
    /\ accepted' = 0
    /\ quiet' = IF workers = {} /\ event = "signal" THEN 0 ELSE quiet
    /\ UNCHANGED <<workers, paused, event, backlog, conn, worker, child, failures>>

MayAccept == daemon = "accept" /\ accepted < AcceptBatch /\ ~full /\ backlog # <<>>

\* Mutant: the new worker is not entered into the set.
AcceptForgets ==
    LET c == Head(backlog) IN
    /\ MayAccept
    /\ backlog' = Tail(backlog)
    /\ accepted' = accepted + 1
    /\ worker' = [worker EXCEPT ![c] = "running"]
    /\ conn' = [conn EXCEPT ![c] = IF @ = "queued" THEN "served" ELSE @]
    /\ quiet' = 0
    /\ UNCHANGED <<daemon, workers, paused, event, child, failures>>

Accept ==
    LET c == Head(backlog) IN
    /\ MayAccept
    /\ backlog' = Tail(backlog)
    /\ accepted' = accepted + 1
    /\ worker' = [worker EXCEPT ![c] = "running"]
    /\ conn' = [conn EXCEPT ![c] = IF @ = "queued" THEN "served" ELSE @]
    /\ workers' = workers \union {c}
    /\ quiet' = 0
    /\ UNCHANGED <<daemon, paused, event, child, failures>>

\* fork fails: the connection is closed.
AcceptFails ==
    LET c == Head(backlog) IN
    /\ Fail
    /\ MayAccept
    /\ backlog' = Tail(backlog)
    /\ accepted' = accepted + 1
    /\ conn' = [conn EXCEPT ![c] = IF @ = "queued" THEN "dropped" ELSE @]
    /\ UNCHANGED <<daemon, workers, paused, event, quiet, worker, child>>

\* Nothing to accept or no room for it; or accept fails, which ends the turn.
AcceptDone ==
    /\ daemon = "accept"
    /\ (~MayAccept /\ UNCHANGED failures) \/ Fail
    /\ daemon' = "pause"
    /\ UNCHANGED <<workers, paused, event, accepted, quiet, backlog, conn, worker,
                   child>>

\* The listener is watched exactly while there is room for a worker.
Pause ==
    /\ daemon = "pause"
    /\ daemon' = "top"
    /\ paused' = full
    /\ UNCHANGED <<workers, event, accepted, quiet, backlog, conn, worker, child, failures>>

-----------------------------------------------------------------------------
OpendInit ==
    /\ daemon = "absent"
    /\ workers = {}
    /\ paused = FALSE
    /\ event = "none"
    /\ accepted = 0
    /\ quiet = 0
    /\ backlog = <<>>
    /\ conn = [c \in Clients |-> "away"]
    /\ worker = [c \in Clients |-> "none"]
    /\ child = FALSE
    /\ failures = 0

Loop ==
    \/ IdleExit \/ Wait
    \/ \E e \in {"read", "signal", "none"}, seconds \in {0, 1} : Kevent(e, seconds)
    \/ \E c \in Clients : Reap(c)
    \/ ReapDone \/ Accept \/ AcceptDone \/ Pause

OpendNext ==
    \/ Launch
    \/ Loop
    \/ KeventFails \/ AcceptFails
    \/ \E c \in Clients : Connect(c) \/ GiveUp(c) \/ WorkerEnds(c)

OpendSpec == OpendInit /\ [][OpendNext]_opendVars

\* The loop has a timeout wherever it waits, launchd starts a job that has a
\* connection, and a worker ends: a handler that a caller waits for with -W is
\* assumed to end, or its caller to leave.
Fairness ==
    /\ WF_opendVars(Loop) /\ WF_opendVars(Launch)
    /\ \A c \in Clients : WF_opendVars(WorkerEnds(c))

FairSpec == OpendSpec /\ Fairness

-----------------------------------------------------------------------------
(* Properties.                                                             *)

\* The type invariant of opend, its workers and its callers.
TypeOK ==
    /\ daemon \in {"absent", "top", "kevent", "reap", "accept", "pause"}
    /\ workers \subseteq Clients
    /\ paused \in BOOLEAN
    /\ event \in {"none", "read", "signal"}
    /\ accepted \in 0 .. AcceptBatch
    /\ quiet \in 0 .. IdleSeconds
    /\ backlog \in Seq(Clients)
    /\ conn \in [Clients -> {"away", "queued", "served", "answered", "dropped", "gone"}]
    /\ worker \in [Clients -> {"none", "running", "zombie"}]
    /\ child \in BOOLEAN
    /\ failures \in 0 .. MaxFailures

\* While opend runs, the set `workers' names exactly the workers it has still
\* to wait for, and there are never more than maxWorkers of them; so an empty
\* set does mean that no worker would be killed by an exit.
WorkersKnown ==
    daemon # "absent" =>
        /\ {c \in Clients : worker[c] # "none"} = workers
        /\ Cardinality(workers) <= MaxWorkers

\* An idle exit cuts nobody off: a caller that came too late for this instance
\* stays in the listener's queue for the next.
IdleExitIsQuiet ==
    [][daemon = "top" /\ daemon' = "absent" =>
         /\ conn' = conn
         /\ \A c \in Clients :
               conn[c] = "queued" => \E i \in DOMAIN backlog' : backlog'[i] = c]_opendVars

\* A caller that connects is answered, or finds its connection closed because a
\* system call failed, or gives up: it does not wait for ever, whatever the pool
\* was busy with and however the connection fell against an idle exit.
CallersAreAnswered ==
    \A c \in Clients : conn[c] = "queued" ~> conn[c] \in {"answered", "dropped", "gone"}
=============================================================================
