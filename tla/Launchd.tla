------------------------------ MODULE Launchd ------------------------------
(***************************************************************************)
(* launchd: the supervisor of pkgs/launchd (daemon.cpp and job.cpp).       *)
(*                                                                         *)
(* One thread runs the loop                                                *)
(*     reap children; one pass over the jobs; collect or arm; wait; events *)
(* and the kernel moves processes and time between its steps.  A job's     *)
(* process group is a slot of Pids, and a slot is handed out again as soon *)
(* as its leader is reaped and its other processes are gone.               *)
(*                                                                         *)
(* Deadlines are kept as the time left until them: `wait' is lastAttempt + *)
(* throttle, `stopLeft' is stopDeadline and `killLeft' is killDeadline,    *)
(* each minus Clock::now() and never below zero.  What a job reports only  *)
(* (exit status, launch error, log lines) is left out, and so is how the   *)
(* control connection carries a request: a request here is a whole frame.  *)
(***************************************************************************)
EXTENDS Integers, Sequences, FiniteSets

CONSTANTS
    Labels,        \* job labels, numbered in their lexicographic order
    Files,         \* job files, as numbers
    Plist,         \* what parseConfig makes of each file
    Startup,       \* the files of the job directories, in loading order
    Recorded,      \* the override databases that launchd may start with
    Names,         \* socket files, as the file system tells them apart
    Resolve,       \* the socket file that each spelling of a path names
    Pids,          \* the process IDs fork can return
    KillTimer,     \* sigkillTimer
    Commands,      \* the control requests that clients send
    MaxRequests,   \* bound: requests answered in one pass over the events
    Unruly,        \* BOOLEAN: job processes fork others and hang in the kernel
    Foreground,    \* BOOLEAN: a development instance, not PID 1
    LoopMayFail    \* BOOLEAN: a system call of the loop may fail

NoPid == 0
Nobody == 0

\* The spellings of socket paths that job files use.
Paths == DOMAIN Resolve

\* struct Config, as far as the supervisor acts on it.  parseConfig has raised
\* a ThrottleInterval of zero to one; an ExitTimeOut of zero stays.
Config == [label : Labels, keepAlive : BOOLEAN, runAtLoad : BOOLEAN,
           disabled : BOOLEAN, throttle : Nat \ {0}, exitTimeout : Nat,
           sockets : SUBSET Paths]

\* A control request: the command and the label or file it is about.
Requests ==
    [op : {"start", "stop", "unload", "enable", "disable"}, arg : Labels]
        \union [op : {"load"}, arg : Files] \union [op : {"reboot"}, arg : {0}]

States == {"idle", "waiting", "launching", "running", "stopping"}

\* overrides_, per label: what enable or disable last recorded, if anything.
Overrides == [Labels -> {"none", "enabled", "disabled"}]

ASSUME LaunchdAssumption ==
    /\ Labels \subseteq Nat \ {Nobody}
    /\ Files \subseteq Nat
    /\ Commands \subseteq Requests
    /\ Recorded \subseteq Overrides
    /\ Pids \subseteq Nat \ {NoPid}
    /\ Plist \in [Files -> Config]
    /\ Startup \in Seq(Files)
    /\ Resolve \in [DOMAIN Resolve -> Names]
    /\ KillTimer \in Nat
    /\ MaxRequests \in Nat
    /\ {Unruly, Foreground, LoopMayFail} \subseteq BOOLEAN

VARIABLES
    phase,         \* where the loop is
    startup,       \* job files the constructor has still to load
    todo,          \* jobs the current pass over jobs_ has still to visit
    loaded,        \* the labels in jobs_
    jobs,          \* the Job of each label; Blank when not loaded
    overrides,     \* overrides_: "none", "enabled" or "disabled" per label
    shuttingDown,  \* shuttingDown_
    groups,        \* the process group behind each process ID
    bound,         \* the job whose listener each socket file is, or Nobody
    pending,       \* the jobs with a connection in a listener's backlog
    armed,         \* the jobs whose listeners are in the kqueue
    batch,         \* events returned by kevent and not handled yet
    age            \* history: time since the last attempt of each job

loopVars == <<phase, startup, todo>>
jobVars == <<loaded, jobs, overrides, shuttingDown>>
ioVars == <<bound, pending, armed, batch>>
vars == <<loopVars, jobVars, groups, ioVars, age>>

\* struct Job, with the file its configuration came from.
Blank == [file |-> 0, state |-> "idle", pid |-> NoPid, enabled |-> TRUE,
          remove |-> FALSE, wait |-> 0, stopLeft |-> 0, killed |-> FALSE,
          killLeft |-> 0, setup |-> FALSE]

config(l) == Plist[jobs[l].file]

\* A process group: the job it was forked for, its leader, whether it has
\* other live processes, what the leader's setup pipe would return, the part
\* of ExitTimeOut left since its first SIGTERM (-1: none was sent), whether it
\* was sent SIGKILL, and whether it hangs in the kernel, out of SIGKILL's reach.
Free == [owner |-> Nobody, leader |-> "none", helpers |-> FALSE,
         report |-> "open", grace |-> -1, killed |-> FALSE, wedged |-> FALSE]

Forked(l) == [Free EXCEPT !.owner = l, !.leader = "forked"]

LeaderLives(g) == g.leader \in {"forked", "running"}
Alive(g) == LeaderLives(g) \/ g.helpers

\* A process ID is free again when the leader is reaped and the group empty.
Settle(g) == IF g.leader = "reaped" /\ ~g.helpers THEN Free ELSE g

Sigterm(g, timeout) ==
    IF Alive(g) /\ g.grace = -1 THEN [g EXCEPT !.grace = timeout] ELSE g

\* Mutant: kill(pid) in place of kill(-pid).
SigkillLeaderOnly(g) == IF LeaderLives(g) THEN [g EXCEPT !.killed = TRUE] ELSE g

Sigkill(g) == IF Alive(g) THEN [g EXCEPT !.killed = TRUE] ELSE g

-----------------------------------------------------------------------------
(* Operations on one Job, as functions from its record to the new one.     *)

\* Mutant: each stop() sets the deadline again.
StoppedAgain(j) ==
    IF j.pid = NoPid THEN [j EXCEPT !.enabled = FALSE, !.state = "idle"]
    ELSE [j EXCEPT !.enabled = FALSE, !.state = "stopping",
                   !.stopLeft = Plist[j.file].exitTimeout]

Stopped(j) ==
    IF j.pid = NoPid THEN [j EXCEPT !.enabled = FALSE, !.state = "idle"]
    ELSE IF j.state = "stopping" THEN [j EXCEPT !.enabled = FALSE]
    ELSE [j EXCEPT !.enabled = FALSE, !.state = "stopping",
                   !.stopLeft = Plist[j.file].exitTimeout]

\* Mutant: the process ID is not reset.
ExitedKeepsPid(j) ==
    [j EXCEPT !.killed = FALSE, !.setup = FALSE,
              !.state = IF j.enabled /\ Plist[j.file].keepAlive /\ ~shuttingDown
                        THEN "waiting" ELSE "idle"]

Exited(j) ==
    [j EXCEPT !.pid = NoPid, !.killed = FALSE, !.setup = FALSE,
              !.state = IF j.enabled /\ Plist[j.file].keepAlive /\ ~shuttingDown
                        THEN "waiting" ELSE "idle"]

\* drainExecError: end of file before any byte means that exec succeeded.
Drained(j) ==
    LET report == groups[j.pid].report IN
    IF ~j.setup \/ report = "open" THEN j
    ELSE [j EXCEPT !.setup = FALSE,
                   !.state = IF report = "eof" /\ @ = "launching"
                             THEN "running" ELSE @]

activatable(l) ==
    /\ config(l).sockets # {}
    /\ jobs[l].pid = NoPid
    /\ jobs[l].state = "idle"
    /\ jobs[l].enabled
    /\ ~jobs[l].remove

\* What becomes of the groups when stop() is called on each job of S.
Terminated(S) ==
    [p \in Pids |->
        LET hit == {l \in S : jobs[l].pid = p /\ jobs[l].state # "stopping"}
        IN  IF hit = {} THEN groups[p]
            ELSE Sigterm(groups[p], config(CHOOSE l \in hit : TRUE).exitTimeout)]

\* Erasing jobs closes their listeners, and unlinks a socket file only if it
\* is still the one that listener bound.
Erased(S) ==
    /\ loaded' = loaded \ S
    /\ bound' = [n \in Names |-> IF bound[n] \in S THEN Nobody ELSE bound[n]]
    /\ pending' = pending \ S
    /\ armed' = armed \ S
    /\ age' = [l \in Labels |-> IF l \in S THEN 0 ELSE age[l]]

\* collectGarbage: a job without a process is erased, any other is stopped.
CollectGarbage ==
    LET gone == {l \in loaded : jobs[l].pid = NoPid}
    IN  /\ Erased(gone)
        /\ jobs' = [l \in Labels |-> IF l \in gone THEN Blank
                                     ELSE IF l \in loaded THEN Stopped(jobs[l])
                                     ELSE jobs[l]]
        /\ groups' = Terminated(loaded \ gone)

-----------------------------------------------------------------------------
(* Loading.                                                                *)

\* Mutant: socket paths are not compared with those of other jobs.
LoadableOverSockets(f) ==
    LET c == Plist[f] IN
    /\ IF overrides[c.label] = "none" THEN ~c.disabled
       ELSE overrides[c.label] = "enabled"
    /\ c.label \notin loaded

\* A recorded override beats the plist's Disabled; a label and a socket path,
\* as it is spelled, belong to one job.
Loadable(f) ==
    LET c == Plist[f] IN
    /\ IF overrides[c.label] = "none" THEN ~c.disabled
       ELSE overrides[c.label] = "enabled"
    /\ c.label \notin loaded
    /\ \A k \in loaded : config(k).sockets \intersect c.sockets = {}

NewJob(f) ==
    [Blank EXCEPT !.file = f,
                  !.state = IF Plist[f].runAtLoad \/ Plist[f].keepAlive
                            THEN "waiting" ELSE "idle"]

\* load(): each Listener first unlinks whatever socket its path names.
load(f) ==
    LET c == Plist[f] IN
    /\ Loadable(f)
    /\ loaded' = loaded \union {c.label}
    /\ jobs' = [jobs EXCEPT ![c.label] = NewJob(f)]
    /\ bound' = [n \in Names |-> IF n \in {Resolve[s] : s \in c.sockets}
                                 THEN c.label ELSE bound[n]]
    /\ age' = [age EXCEPT ![c.label] = c.throttle]

\* A Listener cannot be made: the ones before it are destroyed again.
loadFails(f) ==
    /\ Loadable(f)
    /\ \E made \in SUBSET Plist[f].sockets :
          bound' = [n \in Names |-> IF n \in {Resolve[s] : s \in made}
                                    THEN Nobody ELSE bound[n]]
    /\ UNCHANGED <<loaded, jobs, age>>

loadRefused(f) ==
    /\ ~Loadable(f)
    /\ UNCHANGED <<loaded, jobs, bound, age>>

\* loadDirectories(), one file of the constructor's list at a time.
LoadDirectories ==
    /\ phase = "boot"
    /\ startup # <<>>
    /\ startup' = Tail(startup)
    /\ \/ load(Head(startup))
       \/ loadFails(Head(startup))
       \/ loadRefused(Head(startup))
    /\ UNCHANGED <<phase, todo, overrides, shuttingDown, groups, pending, armed,
                   batch>>

Run ==
    /\ phase = "boot"
    /\ startup = <<>>
    /\ phase' = "reap"
    /\ UNCHANGED <<startup, todo, jobVars, groups, ioVars, age>>

-----------------------------------------------------------------------------
(* tick(): reap(), then one pass over jobs_ in the order of labels.        *)

\* One turn of reap(): the group of a managed leader is sent SIGKILL while
\* its zombie still holds the process ID; then the zombie is waited for.
Reap(p) ==
    LET managed == {l \in loaded : jobs[l].pid = p}
        g == IF managed = {} THEN groups[p] ELSE Sigkill(groups[p])
    IN  /\ phase = "reap"
        /\ groups[p].leader = "zombie"
        /\ groups' = [groups EXCEPT ![p] = Settle([g EXCEPT !.leader = "reaped"])]
        /\ jobs' = [l \in Labels |-> IF l \in managed THEN Exited(jobs[l])
                                     ELSE jobs[l]]
        /\ UNCHANGED <<loopVars, loaded, overrides, shuttingDown, ioVars, age>>

\* waitid finds no zombie; tick() reads the clock and starts its pass.
ReapDone ==
    /\ phase = "reap"
    /\ \A p \in Pids : groups[p].leader # "zombie"
    /\ phase' = "tick"
    /\ todo' = loaded
    /\ UNCHANGED <<startup, jobVars, groups, ioVars, age>>

Visit(l) ==
    /\ phase = "tick"
    /\ l \in todo
    /\ \A k \in todo : l <= k
    /\ todo' = todo \ {l}
    /\ UNCHANGED <<phase, startup, overrides, shuttingDown>>

TickErase(l) ==
    /\ Visit(l)
    /\ jobs[l].remove
    /\ jobs[l].pid = NoPid
    /\ Erased({l})
    /\ jobs' = [jobs EXCEPT ![l] = Blank]
    /\ UNCHANGED <<groups, batch>>

\* Mutant: an ExitTimeOut of zero is a deadline like any other.
stopDeadlinePassedAtZero(l) == jobs[l].stopLeft = 0

stopDeadlinePassed(l) == config(l).exitTimeout # 0 /\ jobs[l].stopLeft = 0

\* escalate(), first branch: the group outlived ExitTimeOut.
TickKill(l) ==
    /\ Visit(l)
    /\ jobs[l].pid # NoPid
    /\ jobs[l].state = "stopping"
    /\ ~jobs[l].killed
    /\ stopDeadlinePassed(l)
    /\ groups' = [groups EXCEPT ![jobs[l].pid] = Sigkill(@)]
    /\ jobs' = [jobs EXCEPT ![l] = [Drained(jobs[l]) EXCEPT
                                       !.killed = TRUE, !.killLeft = KillTimer]]
    /\ UNCHANGED <<loaded, ioVars, age>>

\* escalate(), second branch: the leader outlived SIGKILL, its exit is simulated.
TickSimulateExit(l) ==
    /\ Visit(l)
    /\ jobs[l].pid # NoPid
    /\ jobs[l].state = "stopping"
    /\ jobs[l].killed
    /\ jobs[l].killLeft = 0
    /\ jobs' = [jobs EXCEPT ![l] = Exited(jobs[l])]
    /\ UNCHANGED <<loaded, groups, ioVars, age>>

\* Nothing to escalate: only the setup pipe is read.
TickDrain(l) ==
    /\ Visit(l)
    /\ jobs[l].pid # NoPid
    /\ jobs[l].state = "stopping" => IF jobs[l].killed THEN jobs[l].killLeft # 0
                                     ELSE ~stopDeadlinePassed(l)
    /\ jobs' = [jobs EXCEPT ![l] = Drained(jobs[l])]
    /\ UNCHANGED <<loaded, groups, ioVars, age>>

\* Mutant: a due job is launched without regard to ThrottleInterval.
DueUnthrottled(l) ==
    /\ ~jobs[l].remove
    /\ jobs[l].pid = NoPid
    /\ jobs[l].state = "waiting"
    /\ ~shuttingDown

\* A job without a process that is due, and not throttled.
Due(l) ==
    /\ ~jobs[l].remove
    /\ jobs[l].pid = NoPid
    /\ jobs[l].state = "waiting"
    /\ ~shuttingDown
    /\ jobs[l].wait = 0

\* spawn() up to the return of fork in the parent.
TickSpawn(l) ==
    /\ Visit(l)
    /\ Due(l)
    /\ \E p \in Pids :
          /\ groups[p] = Free
          /\ groups' = [groups EXCEPT ![p] = Forked(l)]
          /\ jobs' = [jobs EXCEPT ![l] =
                         [@ EXCEPT !.pid = p, !.state = "launching",
                                   !.setup = TRUE, !.killed = FALSE,
                                   !.wait = config(l).throttle]]
    /\ age' = [age EXCEPT ![l] = 0]
    /\ UNCHANGED <<loaded, ioVars>>

\* spawn() throws: a standard stream, the pipe or fork failed.
TickSpawnFails(l) ==
    /\ Visit(l)
    /\ Due(l)
    /\ jobs' = [jobs EXCEPT ![l] =
                   [@ EXCEPT !.wait = config(l).throttle,
                             !.state = IF jobs[l].enabled /\ config(l).keepAlive
                                       THEN "waiting" ELSE "idle"]]
    /\ age' = [age EXCEPT ![l] = 0]
    /\ UNCHANGED <<loaded, groups, ioVars>>

TickSkip(l) ==
    /\ Visit(l)
    /\ jobs[l].pid = NoPid
    /\ ~jobs[l].remove
    /\ ~Due(l)
    /\ UNCHANGED <<loaded, jobs, groups, ioVars, age>>

-----------------------------------------------------------------------------
(* run(): what follows tick() in one turn of the loop.                     *)

\* Mutant: a listener with a connection already queued is not watched.
ArmOnEdge ==
    /\ phase = "tick"
    /\ todo = {}
    /\ ~shuttingDown
    /\ phase' = "wait"
    /\ armed' = armed \union {l \in loaded \ pending : activatable(l)}
    /\ UNCHANGED <<startup, todo, jobVars, groups, bound, pending, batch, age>>

\* Every idle on-demand job's listeners go into the kqueue, EV_ONESHOT.
Arm ==
    /\ phase = "tick"
    /\ todo = {}
    /\ ~shuttingDown
    /\ phase' = "wait"
    /\ armed' = armed \union {l \in loaded : activatable(l)}
    /\ UNCHANGED <<startup, todo, jobVars, groups, bound, pending, batch, age>>

Collect ==
    /\ phase = "tick"
    /\ todo = {}
    /\ shuttingDown
    /\ \E l \in loaded : jobs[l].pid # NoPid
    /\ phase' = "wait"
    /\ CollectGarbage
    /\ UNCHANGED <<startup, todo, overrides, shuttingDown, batch>>

\* terminateStrays() of PID 1: SIGTERM to what is left, zombies waited for.
Stray(g) ==
    IF g.leader = "zombie" THEN Settle([Sigterm(g, 0) EXCEPT !.leader = "reaped"])
    ELSE Sigterm(g, 0)

\* collectGarbage() leaves no job, and finishShutdown() follows.
FinishShutdown ==
    /\ phase = "tick"
    /\ todo = {}
    /\ shuttingDown
    /\ \A l \in loaded : jobs[l].pid = NoPid
    /\ phase' = "done"
    /\ Erased(loaded)
    /\ jobs' = [l \in Labels |-> Blank]
    /\ groups' = IF Foreground THEN groups
                 ELSE [p \in Pids |-> Stray(groups[p])]
    /\ UNCHANGED <<startup, todo, overrides, shuttingDown, batch>>

connection(l) == [op |-> "connection", arg |-> l]
sigterm == [op |-> "sigterm", arg |-> 0]

\* kevent returns: SIGTERM, requests that arrived, armed listeners with a
\* connection to accept; or nothing, after 100 ms.
Kevent ==
    /\ phase = "wait"
    /\ phase' = "events"
    /\ \E requests \in SUBSET Commands, signals \in SUBSET {sigterm} :
          /\ Cardinality(requests) <= MaxRequests
          /\ batch' = requests \union signals
                         \union {connection(l) : l \in armed \intersect pending}
    /\ armed' = armed \ pending
    /\ UNCHANGED <<startup, todo, jobVars, groups, bound, pending, age>>

\* Signals are handled before any other event of the batch.
Event(e) ==
    /\ phase = "events"
    /\ e \in batch
    /\ sigterm \in batch => e = sigterm
    /\ batch' = batch \ {e}
    /\ UNCHANGED <<loopVars>>

\* shutdown(), for SIGTERM and for a reboot request.
Shutdown(e) ==
    /\ Event(e)
    /\ e.op \in {"sigterm", "reboot"}
    /\ shuttingDown' = TRUE
    /\ IF shuttingDown
       THEN UNCHANGED <<loaded, jobs, groups, bound, pending, armed, age>>
       ELSE CollectGarbage
    /\ UNCHANGED overrides

\* A connection launches an on-demand job; a stale event is ignored.
Activate(e) ==
    /\ Event(e)
    /\ e.op = "connection"
    /\ jobs' = IF e.arg \in loaded /\ activatable(e.arg) /\ ~shuttingDown
               THEN [jobs EXCEPT ![e.arg].state = "waiting"] ELSE jobs
    /\ UNCHANGED <<loaded, overrides, shuttingDown, groups, bound, pending, armed,
                   age>>

\* Mutant: load is still served during shutdown.
LoadWhileDown(e) ==
    /\ Event(e)
    /\ e.op = "load"
    /\ load(e.arg) \/ loadFails(e.arg)
    /\ UNCHANGED <<overrides, shuttingDown, groups, pending, armed>>

Load(e) ==
    /\ Event(e)
    /\ e.op = "load"
    /\ ~shuttingDown
    /\ load(e.arg) \/ loadFails(e.arg)
    /\ UNCHANGED <<overrides, shuttingDown, groups, pending, armed>>

\* Mutant: a stopping job can be started.
StartWhileStopping(e) ==
    /\ Event(e)
    /\ e.op = "start"
    /\ ~shuttingDown
    /\ e.arg \in loaded
    /\ jobs' = [jobs EXCEPT ![e.arg].enabled = TRUE]
    /\ UNCHANGED <<loaded, overrides, shuttingDown, groups, bound, pending, armed,
                   age>>

Start(e) ==
    /\ Event(e)
    /\ e.op = "start"
    /\ ~shuttingDown
    /\ e.arg \in loaded
    /\ ~jobs[e.arg].remove
    /\ jobs[e.arg].state # "stopping"
    /\ jobs' = [jobs EXCEPT ![e.arg] =
                   [@ EXCEPT !.enabled = TRUE,
                             !.state = IF jobs[e.arg].pid = NoPid THEN "waiting"
                                       ELSE jobs[e.arg].state]]
    /\ UNCHANGED <<loaded, overrides, shuttingDown, groups, bound, pending, armed,
                   age>>

\* stop, and unload, which also marks the job for removal.
Stop(e) ==
    /\ Event(e)
    /\ e.op \in {"stop", "unload"}
    /\ ~shuttingDown
    /\ e.arg \in loaded
    /\ jobs' = [jobs EXCEPT ![e.arg] =
                   [Stopped(jobs[e.arg]) EXCEPT !.remove = @ \/ e.op = "unload"]]
    /\ groups' = Terminated({e.arg})
    /\ UNCHANGED <<loaded, overrides, shuttingDown, bound, pending, armed, age>>

\* setOverride(): the database is replaced on disk, then in memory.
SetOverride(e) ==
    /\ Event(e)
    /\ e.op \in {"enable", "disable"}
    /\ ~shuttingDown
    /\ overrides' = [overrides EXCEPT ![e.arg] = IF e.op = "enable" THEN "enabled"
                                                 ELSE "disabled"]
    /\ UNCHANGED <<loaded, jobs, shuttingDown, groups, bound, pending, armed, age>>

\* A request that is answered with an error and changes nothing.  Recording an
\* override fails for want of a database, or when a write to it fails.
Refuse(e) ==
    /\ Event(e)
    /\ \/ shuttingDown /\ e.op \notin {"sigterm", "reboot", "connection"}
       \/ e.op = "load" /\ ~Loadable(e.arg)
       \/ e.op \in {"start", "stop", "unload"} /\ e.arg \notin loaded
       \/ e.op = "start" /\ (jobs[e.arg].remove \/ jobs[e.arg].state = "stopping")
       \/ e.op \in {"enable", "disable"}
    /\ UNCHANGED <<jobVars, groups, bound, pending, armed, age>>

EventsDone ==
    /\ phase = "events"
    /\ batch = {}
    /\ phase' = "reap"
    /\ UNCHANGED <<startup, todo, jobVars, groups, ioVars, age>>

-----------------------------------------------------------------------------
(* An exception leaves run(): emergencyStop(), then main() gives up.       *)

LoopFails ==
    /\ LoopMayFail
    /\ phase \in {"reap", "wait"}
    /\ phase' = "emergency"
    /\ groups' = [p \in Pids |-> IF \E l \in loaded : jobs[l].pid = p
                                 THEN Sigkill(groups[p]) ELSE groups[p]]
    /\ UNCHANGED <<startup, todo, jobVars, ioVars, age>>

\* The blocking waitpid of each job in turn.
EmergencyReap(l) ==
    LET p == jobs[l].pid IN
    /\ phase = "emergency"
    /\ l \in loaded
    /\ p # NoPid
    /\ \A k \in loaded : jobs[k].pid # NoPid => l <= k
    /\ groups[p].leader = "zombie"
    /\ groups' = [groups EXCEPT ![p] = Settle([@ EXCEPT !.leader = "reaped"])]
    /\ jobs' = [jobs EXCEPT ![l].pid = NoPid]
    /\ UNCHANGED <<loopVars, loaded, overrides, shuttingDown, ioVars, age>>

\* The Supervisor is destroyed, its listeners with it.
EmergencyDone ==
    /\ phase = "emergency"
    /\ \A l \in loaded : jobs[l].pid = NoPid
    /\ phase' = "done"
    /\ Erased(loaded)
    /\ jobs' = [l \in Labels |-> Blank]
    /\ UNCHANGED <<startup, todo, overrides, shuttingDown, groups, batch>>

\* PID 1 must not exit: reapForever() after a failed loop or reboot(2).
ReapForever(p) ==
    /\ phase = "done"
    /\ ~Foreground
    /\ groups[p].leader = "zombie"
    /\ groups' = [groups EXCEPT ![p] = Settle([@ EXCEPT !.leader = "reaped"])]
    /\ UNCHANGED <<loopVars, jobVars, ioVars, age>>

-----------------------------------------------------------------------------
(* The kernel, the jobs' processes and their clients.                      *)

kernelVars == <<loopVars, jobVars, ioVars, age>>

Exec(p) ==
    /\ groups[p].leader = "forked"
    /\ ~groups[p].killed
    /\ groups' = [groups EXCEPT ![p] = [@ EXCEPT !.leader = "running",
                                                 !.report = "eof"]]
    /\ UNCHANGED kernelVars

\* childFailure(): the child reports an errno and exits.
ChildFailure(p) ==
    /\ groups[p].leader = "forked"
    /\ ~groups[p].killed
    /\ groups' = [groups EXCEPT ![p] = [@ EXCEPT !.leader = "zombie",
                                                 !.report = "errno"]]
    /\ UNCHANGED kernelVars

\* A leader exits, or a signal ends it.
LeaderExits(p) ==
    /\ LeaderLives(groups[p])
    /\ ~groups[p].wedged
    /\ groups' = [groups EXCEPT ![p] = [@ EXCEPT !.leader = "zombie",
                                                 !.report = "eof"]]
    /\ UNCHANGED kernelVars

ForkHelper(p) ==
    /\ Unruly
    /\ groups[p].leader = "running"
    /\ ~groups[p].killed
    /\ ~groups[p].helpers
    /\ groups' = [groups EXCEPT ![p].helpers = TRUE]
    /\ UNCHANGED kernelVars

HelpersExit(p) ==
    /\ groups[p].helpers
    /\ groups' = [groups EXCEPT ![p] = Settle([@ EXCEPT !.helpers = FALSE])]
    /\ UNCHANGED kernelVars

Wedge(p) ==
    /\ Unruly
    /\ groups[p].leader = "running"
    /\ ~groups[p].wedged
    /\ groups' = [groups EXCEPT ![p].wedged = TRUE]
    /\ UNCHANGED kernelVars

Unwedge(p) ==
    /\ groups[p].wedged
    /\ groups[p].leader = "running"
    /\ groups' = [groups EXCEPT ![p].wedged = FALSE]
    /\ UNCHANGED kernelVars

\* A client connects to a socket file; the connection waits in the backlog.
Connect(n) ==
    /\ bound[n] # Nobody
    /\ bound[n] \notin pending
    /\ pending' = pending \union {bound[n]}
    /\ UNCHANGED <<loopVars, jobVars, groups, bound, armed, batch, age>>

\* The job's program takes the connections it finds.
Accept(l) ==
    /\ l \in pending
    /\ jobs[l].pid # NoPid
    /\ groups[jobs[l].pid].leader = "running"
    /\ ~groups[jobs[l].pid].wedged
    /\ pending' = pending \ {l}
    /\ UNCHANGED <<loopVars, jobVars, groups, bound, armed, batch, age>>

Down(n) == IF n > 0 THEN n - 1 ELSE n

\* A unit of time passes.  tick() uses one reading of the clock for its pass.
ClockTick ==
    /\ phase \in {"reap", "wait", "events"}
    /\ jobs' = [l \in Labels |->
                  [jobs[l] EXCEPT !.wait = Down(@), !.stopLeft = Down(@),
                                  !.killLeft = Down(@)]]
    /\ groups' = [p \in Pids |-> [groups[p] EXCEPT !.grace = Down(@)]]
    /\ age' = [l \in Labels |->
                  IF l \in loaded /\ age[l] < config(l).throttle
                  THEN age[l] + 1 ELSE age[l]]
    /\ UNCHANGED <<loopVars, loaded, overrides, shuttingDown, ioVars>>

-----------------------------------------------------------------------------
Init ==
    /\ phase = "boot"
    /\ startup = Startup
    /\ todo = {}
    /\ loaded = {}
    /\ jobs = [l \in Labels |-> Blank]
    /\ overrides \in Recorded
    /\ shuttingDown = FALSE
    /\ groups = [p \in Pids |-> Free]
    /\ bound = [n \in Names |-> Nobody]
    /\ pending = {}
    /\ armed = {}
    /\ batch = {}
    /\ age = [l \in Labels |-> 0]

TickJob(l) ==
    \/ TickErase(l) \/ TickKill(l) \/ TickSimulateExit(l) \/ TickDrain(l)
    \/ TickSpawn(l) \/ TickSpawnFails(l) \/ TickSkip(l)

Handle(e) ==
    \/ Shutdown(e) \/ Activate(e) \/ Load(e) \/ Start(e) \/ Stop(e)
    \/ SetOverride(e) \/ Refuse(e)

Emergency == LoopFails \/ EmergencyDone \/ \E l \in Labels : EmergencyReap(l)

\* The steps of launchd itself.
Loop ==
    \/ LoadDirectories \/ Run
    \/ \E p \in Pids : Reap(p)
    \/ ReapDone
    \/ \E l \in Labels : TickJob(l)
    \/ Arm \/ Collect \/ FinishShutdown
    \/ Kevent
    \/ \E e \in batch : Handle(e)
    \/ EventsDone

Kernel ==
    \/ \E p \in Pids :
          \/ Exec(p) \/ ChildFailure(p) \/ LeaderExits(p) \/ ForkHelper(p)
          \/ HelpersExit(p) \/ Wedge(p) \/ Unwedge(p) \/ ReapForever(p)
    \/ \E n \in Names : Connect(n)
    \/ \E l \in Labels : Accept(l)
    \/ ClockTick

\* launchd has ended; what is left of its jobs' processes may be over too.
Ended == phase = "done" /\ UNCHANGED vars

Next == Loop \/ Emergency \/ Kernel \/ Ended

Spec == Init /\ [][Next]_vars

\* The loop runs: no step of it waits for a process or a client, and kevent has
\* a timeout.  Time passes, though not within a pass over the jobs.
Fairness == WF_vars(Loop) /\ SF_vars(ClockTick)

FairSpec == Spec /\ Fairness

-----------------------------------------------------------------------------
(* Properties.                                                             *)

Job == [file : Files \union {0}, state : States, pid : Pids \union {NoPid},
        enabled : BOOLEAN, remove : BOOLEAN, wait : Nat, stopLeft : Nat,
        killed : BOOLEAN, killLeft : Nat, setup : BOOLEAN]

Group == [owner : Labels \union {Nobody},
          leader : {"none", "forked", "running", "zombie", "reaped"},
          helpers : BOOLEAN, report : {"open", "eof", "errno"},
          grace : Nat \union {-1}, killed : BOOLEAN, wedged : BOOLEAN]

Phases == {"boot", "reap", "tick", "wait", "events", "emergency", "done"}

Events == Requests \union {sigterm} \union {connection(l) : l \in Labels}

\* The type invariant: every variable holds what the declarations of Supervisor
\* and Job allow, a loaded job has the configuration of some job file, and only
\* a pass over the jobs has jobs left to visit.
TypeOK ==
    /\ phase \in Phases
    /\ startup \in Seq(Files)
    /\ todo \subseteq loaded
    /\ phase # "tick" => todo = {}
    /\ loaded \subseteq Labels
    /\ jobs \in [Labels -> Job]
    /\ \A l \in loaded : jobs[l].file \in Files /\ config(l).label = l
    /\ overrides \in Overrides
    /\ shuttingDown \in BOOLEAN
    /\ groups \in [Pids -> Group]
    /\ bound \in [Names -> Labels \union {Nobody}]
    /\ pending \subseteq Labels
    /\ armed \subseteq Labels
    /\ batch \subseteq Events
    /\ age \in [Labels -> Nat]

\* A process ID that a Job holds names the group forked for that very job,
\* whose leader has not been waited for.  So no kill(-pid) of stop, escalate,
\* reap or emergencyStop reaches an unrelated process after the ID was reused,
\* and no two jobs hold the same ID.
OwnProcesses ==
    \A l \in Labels :
        jobs[l].pid # NoPid =>
            /\ l \in loaded
            /\ groups[jobs[l].pid].owner = l
            /\ groups[jobs[l].pid].leader \in {"forked", "running", "zombie"}

\* Every live process of a group that a job started belongs to a job that
\* still holds the group, or its group has been sent SIGKILL: restarting,
\* unloading, a simulated exit, shutdown and a failed loop leave nothing else
\* behind.
NoLostProcess ==
    \A p \in Pids :
        Alive(groups[p]) => \/ \E l \in loaded : jobs[l].pid = p
                            \/ groups[p].killed

\* A job that is due for a launch is one that is wanted: it was not stopped
\* since the last start, is not being unloaded, and launchd is not shutting
\* down.  Once shutdown began, every job left is on its way out.
OnlyWantedJobsAreDue ==
    phase \notin {"emergency", "done"} =>
        \A l \in loaded :
            /\ jobs[l].state = "waiting" =>
                   jobs[l].enabled /\ ~jobs[l].remove /\ ~shuttingDown
            /\ shuttingDown => ~jobs[l].enabled
            /\ jobs[l].remove => ~jobs[l].enabled

\* A job has a process exactly in the states that launchctl reports one for.
StateMatchesProcess ==
    phase # "emergency" =>
        \A l \in loaded :
            jobs[l].pid # NoPid <=>
                jobs[l].state \in {"launching", "running", "stopping"}

\* The inductive strengthening of the invariants above: a job whose group was
\* sent SIGKILL by escalate(), and every job once the loop failed, has nothing
\* alive that SIGKILL did not reach; no job outlives the Supervisor, and no
\* shutdown begins before the loop does.
LaunchdInvariant ==
    /\ TypeOK
    /\ OwnProcesses
    /\ NoLostProcess
    /\ OnlyWantedJobsAreDue
    /\ StateMatchesProcess
    /\ \A l \in loaded :
          /\ jobs[l].pid # NoPid
          /\ jobs[l].killed \/ phase = "emergency"
          /\ Alive(groups[jobs[l].pid])
          => groups[jobs[l].pid].killed
    /\ phase = "done" => loaded = {}
    /\ phase = "boot" => ~shuttingDown

Forks(l) == \E p \in Pids : groups[p].owner # l /\ groups'[p].owner = l

\* ThrottleInterval is the minimum time between two attempts to launch a
\* loaded job, whatever asked for the second one: KeepAlive, a start request
\* or a connection.
Throttled == [][\A l \in Labels : Forks(l) => age[l] >= config(l).throttle]_vars

\* While a job's leader is alive, its group is sent SIGKILL only after SIGTERM
\* and the whole ExitTimeOut, and never if that is zero; a failed loop alone
\* may kill at once.
Graceful ==
    [][\A l \in loaded :
         LET p == jobs[l].pid IN
         /\ p # NoPid
         /\ LeaderLives(groups[p])
         /\ ~groups[p].killed
         /\ groups'[p].killed
         => \/ phase' = "emergency"
            \/ groups[p].grace = 0 /\ config(l).exitTimeout # 0]_vars

\* Once shutdown began nothing is forked, loaded or made due any more.
QuietShutdown ==
    [][shuttingDown =>
         /\ loaded' \subseteq loaded
         /\ \A l \in Labels : ~Forks(l)
         /\ \A l \in loaded' : jobs'[l].state \notin {"waiting", "launching"}
                               \/ jobs'[l].state = jobs[l].state]_vars

\* The step is a load of file f, asked for or at startup.
Loading(f) ==
    \/ phase = "boot" /\ startup # <<>> /\ startup' = Tail(startup) /\ f = Head(startup)
    \/ \E e \in batch \ batch' : e.op = "load" /\ e.arg = f

\* Another spelling of path s in file f names the socket file of s.
SpelledOtherwise(f, s) == \E t \in Plist[f].sockets \ {s} : Resolve[t] = Resolve[s]

\* A job's socket paths name its own listeners from its load on, through every
\* load, failed load, unload and exit of other jobs.  One thing alone takes a
\* socket file from a loaded job: the load, whole or failed, of a file that
\* spells its path differently, which load(), comparing strings, does not see.
SocketsReachTheirJob ==
    [][\A l \in loaded' : \A s \in config(l)'.sockets :
         \/ bound'[Resolve[s]] = l
         \/ l \in loaded /\ bound[Resolve[s]] # l
         \/ \E f \in Files :
               /\ Loading(f) /\ Loadable(f) /\ SpelledOtherwise(f, s)
               /\ bound'[Resolve[s]] \in {Plist[f].label, Nobody}]_vars

\* The stage a client of launchctl sees job l in.
stage(l) ==
    CASE l \notin loaded -> "absent"
      [] jobs[l].pid # NoPid ->
            IF jobs[l].state = "stopping" \/ phase = "emergency" THEN "ending"
            ELSE "up"
      [] OTHER -> IF ~jobs[l].enabled \/ phase = "emergency" THEN "off"
                  ELSE IF jobs[l].state = "waiting" THEN "due" ELSE "idle"

Lifecycle ==
    INSTANCE Service WITH
        service <- [l \in Labels |-> stage(l)],
        down <- shuttingDown \/ phase \in {"emergency", "done"}

\* launchd implements the lifecycle that its users are promised: in particular
\* a stopped job ends before it can be started again, is launched only when
\* due, and leaves only when it has no process.
ImplementsService == Lifecycle!Spec

-----------------------------------------------------------------------------
(* Liveness, under FairSpec.                                               *)

\* Shutdown ends, even when job processes hang in the kernel, if no job has an
\* infinite ExitTimeOut.
ShutdownCompletes == shuttingDown ~> phase = "done"

\* A job that is being stopped loses its process, however often it is stopped
\* again, and a job that is being unloaded disappears.
StopCompletes ==
    \A l \in Labels :
        /\ jobs[l].state = "stopping" ~> jobs[l].state # "stopping"
        /\ jobs[l].remove ~> ~jobs[l].remove

\* A connection to an enabled job's socket leads to an attempt to launch it,
\* unless the job has a process or the request to stop it comes first.
ConnectionsAreServed ==
    \A l \in Labels :
        l \in pending /\ jobs[l].enabled ~>
            age[l] = 0 \/ jobs[l].pid # NoPid \/ ~jobs[l].enabled

=============================================================================
