---------------------------- MODULE LaunchdProofs ----------------------------
(***************************************************************************)
(* Proofs about Launchd, for any set of jobs, process IDs and requests.    *)
(***************************************************************************)
EXTENDS Launchd, TLAPS

-----------------------------------------------------------------------------
(* What the operations on one job and on one group return.                 *)

\* stop() keeps everything but whether the job is enabled, its state and the
\* deadline; a job without a process becomes idle, any other is stopping.
LEMMA StoppedJob ==
    ASSUME NEW j \in Job, j.file \in Files
    PROVE  /\ Stopped(j) \in Job
           /\ Stopped(j).file = j.file
           /\ Stopped(j).pid = j.pid
           /\ Stopped(j).remove = j.remove
           /\ Stopped(j).killed = j.killed
           /\ Stopped(j).enabled = FALSE
           /\ Stopped(j).state = IF j.pid = NoPid THEN "idle" ELSE "stopping"
  BY Zenon, LaunchdAssumption DEF Stopped, Job, States, Config, NoPid

\* exited() leaves no process, and makes due only what is enabled.
LEMMA ExitedJob ==
    ASSUME NEW j \in Job
    PROVE  /\ Exited(j) \in Job
           /\ Exited(j).file = j.file
           /\ Exited(j).pid = NoPid
           /\ Exited(j).remove = j.remove
           /\ Exited(j).enabled = j.enabled
           /\ Exited(j).state \in {"idle", "waiting"}
           /\ Exited(j).state = "waiting" => j.enabled /\ ~shuttingDown
  BY Zenon DEF Exited, Job, States, NoPid

\* drainExecError changes the state from launching to running at most.
LEMMA DrainedJob ==
    ASSUME NEW j \in Job
    PROVE  /\ Drained(j) \in Job
           /\ Drained(j).file = j.file
           /\ Drained(j).pid = j.pid
           /\ Drained(j).remove = j.remove
           /\ Drained(j).enabled = j.enabled
           /\ Drained(j).killed = j.killed
           /\ \/ Drained(j).state = j.state
              \/ j.state = "launching" /\ Drained(j).state = "running"
  BY Zenon DEF Drained, Job, States

\* SIGTERM changes no more of a group than the time left for it to end.
LEMMA SigtermGroup ==
    ASSUME NEW g \in Group, NEW n \in Nat
    PROVE  /\ Sigterm(g, n) \in Group
           /\ Sigterm(g, n).owner = g.owner
           /\ Sigterm(g, n).leader = g.leader
           /\ Sigterm(g, n).helpers = g.helpers
           /\ Sigterm(g, n).killed = g.killed
  BY Zenon DEF Sigterm, Group, Alive, LeaderLives

\* SIGKILL reaches every group in which something is alive.
LEMMA SigkillGroup ==
    ASSUME NEW g \in Group
    PROVE  /\ Sigkill(g) \in Group
           /\ Sigkill(g).owner = g.owner
           /\ Sigkill(g).leader = g.leader
           /\ Sigkill(g).helpers = g.helpers
           /\ Alive(g) => Sigkill(g).killed
           /\ g.killed => Sigkill(g).killed
  BY Zenon DEF Sigkill, Group, Alive, LeaderLives

\* Settling changes nothing but a group in which nothing is alive.
LEMMA SettleGroup ==
    ASSUME NEW g \in Group
    PROVE  /\ Settle(g) \in Group
           /\ g.leader # "reaped" \/ g.helpers => Settle(g) = g
           /\ Alive(Settle(g)) => Settle(g) = g
  BY Zenon DEF Settle, Group, Free, Nobody, Alive, LeaderLives

\* What the kernel's steps make of a group is a group.
LEMMA GroupUpdates ==
    ASSUME NEW g \in Group
    PROVE  /\ [g EXCEPT !.leader = "reaped"] \in Group
           /\ [g EXCEPT !.leader = "running", !.report = "eof"] \in Group
           /\ [g EXCEPT !.leader = "zombie", !.report = "eof"] \in Group
           /\ [g EXCEPT !.leader = "zombie", !.report = "errno"] \in Group
           /\ [g EXCEPT !.helpers = TRUE] \in Group
           /\ [g EXCEPT !.helpers = FALSE] \in Group
           /\ [g EXCEPT !.wedged = TRUE] \in Group
           /\ [g EXCEPT !.wedged = FALSE] \in Group
           /\ [g EXCEPT !.grace = Down(@)] \in Group
<1>1. /\ [g EXCEPT !.leader = "reaped"] \in Group
      /\ [g EXCEPT !.leader = "running", !.report = "eof"] \in Group
      /\ [g EXCEPT !.leader = "zombie", !.report = "eof"] \in Group
      /\ [g EXCEPT !.leader = "zombie", !.report = "errno"] \in Group
  BY Zenon DEF Group
<1>2. [g EXCEPT !.helpers = TRUE] \in Group
  BY Zenon DEF Group
<1>3. [g EXCEPT !.helpers = FALSE] \in Group
  BY Zenon DEF Group
<1>4. [g EXCEPT !.wedged = TRUE] \in Group
  BY Zenon DEF Group
<1>5. [g EXCEPT !.wedged = FALSE] \in Group
  BY Zenon DEF Group
<1>6. [g EXCEPT !.grace = Down(@)] \in Group
  <2>1. Down(g.grace) \in Nat \union {-1}
    BY DEF Group, Down
  <2> QED
    BY <2>1, Zenon DEF Group
<1> QED
  BY <1>1, <1>2, <1>3, <1>4, <1>5, <1>6, Zenon

\* What the supervisor's assignments and the clock make of a job is a job.
LEMMA JobUpdates ==
    ASSUME NEW j \in Job
    PROVE  /\ [j EXCEPT !.state = "waiting"] \in Job
           /\ [j EXCEPT !.pid = NoPid] \in Job
           /\ \A s \in States : [j EXCEPT !.enabled = TRUE, !.state = s] \in Job
           /\ [j EXCEPT !.wait = Down(@), !.stopLeft = Down(@), !.killLeft = Down(@)] \in Job
<1>1. [j EXCEPT !.state = "waiting"] \in Job /\ [j EXCEPT !.pid = NoPid] \in Job
  BY Zenon DEF Job, States
<1>2. \A s \in States : [j EXCEPT !.enabled = TRUE, !.state = s] \in Job
  BY Zenon DEF Job
<1>3. [j EXCEPT !.wait = Down(@), !.stopLeft = Down(@), !.killLeft = Down(@)] \in Job
  <2>1. Down(j.wait) \in Nat /\ Down(j.stopLeft) \in Nat /\ Down(j.killLeft) \in Nat
    BY DEF Job, Down
  <2> QED
    BY Zenon, <2>1 DEF Job
<1> QED
  BY Zenon, <1>1, <1>2, <1>3

\* The values of an unloaded job and of a process ID not in use.
LEMMA BlankAndFree == Blank \in Job /\ Free \in Group /\ ~Alive(Free)
  BY Zenon DEF Blank, Job, States, NoPid, Free, Group, Nobody, Alive, LeaderLives

\* CHOOSE picks a member of a set that has one.
LEMMA ChosenMember ==
    ASSUME NEW S, S # {}
    PROVE  (CHOOSE x \in S : TRUE) \in S
  BY Zenon

\* Stopping loaded jobs changes groups no more than SIGTERM does.
LEMMA TerminatedGroups ==
    ASSUME TypeOK, NEW S \in SUBSET loaded
    PROVE  /\ Terminated(S) \in [Pids -> Group]
           /\ \A p \in Pids :
                 /\ Terminated(S)[p].owner = groups[p].owner
                 /\ Terminated(S)[p].leader = groups[p].leader
                 /\ Terminated(S)[p].helpers = groups[p].helpers
                 /\ Terminated(S)[p].killed = groups[p].killed
<1> SUFFICES ASSUME NEW p \in Pids
             PROVE  /\ Terminated(S)[p] \in Group
                    /\ Terminated(S)[p].owner = groups[p].owner
                    /\ Terminated(S)[p].leader = groups[p].leader
                    /\ Terminated(S)[p].helpers = groups[p].helpers
                    /\ Terminated(S)[p].killed = groups[p].killed
  BY Zenon DEF Terminated
<1> DEFINE hit == {l \in S : jobs[l].pid = p /\ jobs[l].state # "stopping"}
           l == CHOOSE x \in hit : TRUE
<1>1. groups[p] \in Group
  BY Zenon DEF TypeOK
<1>2. CASE hit = {}
  BY <1>1, <1>2, Zenon DEF Terminated
<1>3. CASE hit # {}
  <2>1. l \in loaded
    BY <1>3, ChosenMember, Zenon
  <2>2. config(l).exitTimeout \in Nat
    BY <2>1, LaunchdAssumption, Zenon DEF TypeOK, config, Config
  <2>3. Terminated(S)[p] = Sigterm(groups[p], config(l).exitTimeout)
    BY <1>3, Zenon DEF Terminated
  <2> HIDE DEF l
  <2> QED
    BY <1>1, <2>2, <2>3, SigtermGroup
<1> QED
  BY <1>2, <1>3, Zenon

\* An event of the batch is about a label or a file, as its name says.
LEMMA EventArguments ==
    ASSUME TypeOK, NEW e \in batch
    PROVE  /\ e.op = "load" => e.arg \in Files
           /\ e.op \in {"start", "stop", "unload", "enable", "disable", "connection"}
                 => e.arg \in Labels
  BY DEF TypeOK, Events, Requests, sigterm, connection

\* A loaded job's configuration is that of its file.
LEMMA LoadedConfig ==
    ASSUME TypeOK, NEW l \in loaded
    PROVE  l \in Labels /\ jobs[l] \in Job /\ jobs[l].file \in Files /\ config(l) \in Config
  BY LaunchdAssumption, Zenon DEF TypeOK, config

\* load() gives the new job its file and the label of the file.
LEMMA LoadTypes ==
    ASSUME TypeOK, NEW f \in Files, load(f) \/ loadFails(f) \/ loadRefused(f)
    PROVE  /\ loaded' \in SUBSET Labels
           /\ loaded \subseteq loaded'
           /\ jobs' \in [Labels -> Job]
           /\ \A l \in loaded' : jobs'[l].file \in Files /\ Plist[jobs'[l].file].label = l
           /\ bound' \in [Names -> Labels \union {Nobody}]
           /\ age' \in [Labels -> Nat]
<1>1. Plist[f] \in Config
  BY LaunchdAssumption, Zenon
<1>2. NewJob(f) \in Job /\ NewJob(f).file = f
  BY Zenon DEF NewJob, Blank, Job, States, NoPid
<1>3. CASE load(f)
  BY <1>1, <1>2, <1>3 DEF load, TypeOK, config, Config
<1>4. CASE loadFails(f)
  BY <1>4, Zenon DEF loadFails, TypeOK, config
<1>5. CASE loadRefused(f)
  BY <1>5, Zenon DEF loadRefused, TypeOK, config
<1> QED
  BY <1>3, <1>4, <1>5, Zenon

\* Erasing jobs keeps the types of what it changes.
LEMMA ErasedTypes ==
    ASSUME TypeOK, NEW S \in SUBSET loaded, Erased(S)
    PROVE  /\ loaded' = loaded \ S
           /\ bound' \in [Names -> Labels \union {Nobody}]
           /\ pending' \subseteq Labels
           /\ armed' \subseteq Labels
           /\ age' \in [Labels -> Nat]
  BY Zenon DEF TypeOK, Erased

\* collectGarbage() erases the jobs without a process and stops the others.
LEMMA CollectTypes ==
    ASSUME TypeOK, CollectGarbage
    PROVE  /\ loaded' = {l \in loaded : jobs[l].pid # NoPid}
           /\ jobs' \in [Labels -> Job]
           /\ \A l \in loaded' : jobs'[l] = Stopped(jobs[l])
           /\ \A l \in Labels \ loaded' : jobs'[l] = Blank \/ (l \notin loaded /\ jobs'[l] = jobs[l])
           /\ \A l \in loaded' : jobs'[l].file = jobs[l].file
           /\ bound' \in [Names -> Labels \union {Nobody}]
           /\ pending' \subseteq Labels
           /\ armed' \subseteq Labels
           /\ age' \in [Labels -> Nat]
           /\ groups' = Terminated(loaded')
           /\ groups' \in [Pids -> Group]
<1> DEFINE gone == {l \in loaded : jobs[l].pid = NoPid}
<1>1. Erased(gone)
  BY Zenon DEF CollectGarbage
<1>2. loaded' = {l \in loaded : jobs[l].pid # NoPid} /\ loaded \ gone = loaded'
  BY <1>1, Zenon DEF Erased
<1>3. \A l \in loaded : Stopped(jobs[l]) \in Job /\ Stopped(jobs[l]).file = jobs[l].file
  BY Zenon, LoadedConfig, StoppedJob
<1>4. /\ jobs' = [l \in Labels |-> IF l \in gone THEN Blank
                                   ELSE IF l \in loaded THEN Stopped(jobs[l])
                                   ELSE jobs[l]]
      /\ groups' = Terminated(loaded \ gone)
  BY Zenon DEF CollectGarbage
<1>5. jobs' \in [Labels -> Job]
  BY <1>3, <1>4, BlankAndFree, Zenon DEF TypeOK
<1>6. groups' \in [Pids -> Group]
  BY <1>2, <1>4, TerminatedGroups, Zenon
<1>7. /\ \A l \in loaded' : jobs'[l] = Stopped(jobs[l]) /\ jobs'[l].file = jobs[l].file
      /\ \A l \in Labels \ loaded' : jobs'[l] = Blank \/ (l \notin loaded /\ jobs'[l] = jobs[l])
  <2>1. \A l \in loaded' : jobs'[l] = Stopped(jobs[l])
    BY <1>2, <1>4, Zenon DEF TypeOK
  <2>2. \A l \in loaded' : jobs'[l].file = jobs[l].file
    BY <1>2, <1>3, <2>1, Zenon
  <2>3. \A l \in Labels \ loaded' : jobs'[l] = Blank \/ (l \notin loaded /\ jobs'[l] = jobs[l])
    <3> SUFFICES ASSUME NEW l \in Labels, l \notin loaded'
                 PROVE  jobs'[l] = Blank \/ (l \notin loaded /\ jobs'[l] = jobs[l])
      BY Zenon
    <3>1. l \in gone \/ l \notin loaded
      BY <1>2, Zenon
    <3> QED
      BY <1>4, <3>1, Zenon
  <2> QED
    BY <2>1, <2>2, <2>3, Zenon
<1> QED
  BY Zenon, <1>1, <1>2, <1>4, <1>5, <1>6, <1>7, ErasedTypes

\* Every step keeps the type invariant.
LEMMA TypeStep ==
    ASSUME TypeOK, Next
    PROVE  TypeOK'
<1> USE LaunchdAssumption DEF loopVars, jobVars, ioVars, kernelVars
<1>1. CASE LoadDirectories
  <2>1. Head(startup) \in Files /\ Tail(startup) \in Seq(Files)
    BY <1>1 DEF LoadDirectories, TypeOK
  <2> QED
    BY SMTT(30), <1>1, <2>1, LoadTypes DEF LoadDirectories, TypeOK, config
<1>2. CASE Run \/ ReapDone \/ Arm \/ EventsDone
  BY <1>2, Zenon DEF Run, ReapDone, Arm, EventsDone, TypeOK, Phases, config
<1>3. CASE Kevent
  <2>1. batch' \subseteq Events
    BY <1>3, Zenon DEF Kevent, TypeOK, Events
  <2> QED
    BY <1>3, <2>1, Zenon DEF Kevent, TypeOK, Phases, config
<1>4. ASSUME NEW p \in Pids, Reap(p) PROVE TypeOK'
  <2> DEFINE managed == {l \in loaded : jobs[l].pid = p}
             g == IF managed = {} THEN groups[p] ELSE Sigkill(groups[p])
             h == [g EXCEPT !.leader = "reaped"]
  <2>1. g \in Group
    BY SigkillGroup, Zenon DEF TypeOK
  <2>2. h \in Group
    BY Zenon, <2>1 DEF Group
  <2>3. groups' = [groups EXCEPT ![p] = Settle(h)]
    BY <1>4, Zenon DEF Reap
  <2>4. groups' \in [Pids -> Group]
    <3> HIDE DEF h
    <3> QED
      BY <2>2, <2>3, SettleGroup, Zenon DEF TypeOK
  <2>5. /\ jobs' \in [Labels -> Job]
        /\ \A l \in Labels : jobs'[l].file = jobs[l].file
    BY <1>4, ExitedJob, Zenon DEF Reap, TypeOK
  <2> QED
    BY <1>4, <2>4, <2>5, Zenon DEF Reap, TypeOK, config
<1>5. ASSUME NEW l \in Labels, TickErase(l) PROVE TypeOK'
  BY <1>5, BlankAndFree, Zenon DEF TickErase, Visit, Erased, TypeOK, config
<1>6. ASSUME NEW l \in Labels, TickKill(l) PROVE TypeOK'
  <2>1. l \in loaded /\ jobs[l] \in Job /\ jobs[l].pid \in Pids
    BY <1>6, Zenon DEF TickKill, Visit, TypeOK, Job
  <2>2. groups' \in [Pids -> Group]
    BY <1>6, <2>1, SigkillGroup, Zenon DEF TickKill, TypeOK
  <2>3. /\ jobs' \in [Labels -> Job]
        /\ \A k \in Labels : jobs'[k].file = jobs[k].file
    <3> DEFINE d == Drained(jobs[l])
    <3>1. d \in Job /\ d.file = jobs[l].file
      BY <2>1, DrainedJob, Zenon
    <3>2. jobs' = [jobs EXCEPT ![l] = [d EXCEPT !.killed = TRUE, !.killLeft = KillTimer]]
      BY <1>6, Zenon DEF TickKill
    <3> HIDE DEF d
    <3>3. [d EXCEPT !.killed = TRUE, !.killLeft = KillTimer] \in Job
      BY Zenon, <3>1 DEF Job
    <3> QED
      BY Zenon, <3>1, <3>2, <3>3 DEF TypeOK, Job
  <2> QED
    BY <1>6, <2>2, <2>3, Zenon DEF TickKill, Visit, TypeOK, config
<1>7. ASSUME NEW l \in Labels, TickSimulateExit(l) PROVE TypeOK'
  BY <1>7, ExitedJob DEF TickSimulateExit, Visit, TypeOK, config
<1>8. ASSUME NEW l \in Labels, TickDrain(l) PROVE TypeOK'
  BY <1>8, DrainedJob DEF TickDrain, Visit, TypeOK, config
<1>9. ASSUME NEW l \in Labels, TickSpawn(l) PROVE TypeOK'
  <2>1. l \in loaded /\ jobs[l] \in Job /\ config(l).throttle \in Nat
    BY SMTT(30), <1>9, LoadedConfig DEF TickSpawn, Visit, TypeOK, Config
  <2>2. PICK p \in Pids :
           /\ groups' = [groups EXCEPT ![p] = Forked(l)]
           /\ jobs' = [jobs EXCEPT ![l] =
                          [jobs[l] EXCEPT !.pid = p, !.state = "launching",
                                          !.setup = TRUE, !.killed = FALSE,
                                          !.wait = config(l).throttle]]
    BY Zenon, <1>9 DEF TickSpawn
  <2>3. groups' \in [Pids -> Group]
    BY Zenon, <2>2 DEF TypeOK, Forked, Free, Group
  <2>4. /\ jobs' \in [Labels -> Job]
        /\ \A k \in Labels : jobs'[k].file = jobs[k].file
    BY Zenon, <2>1, <2>2 DEF TypeOK, Job, States
  <2> QED
    BY <1>9, <2>3, <2>4, Zenon DEF TickSpawn, Visit, TypeOK, config
<1>10. ASSUME NEW l \in Labels, TickSpawnFails(l) PROVE TypeOK'
  <2>1. l \in loaded /\ jobs[l] \in Job /\ config(l).throttle \in Nat
    BY <1>10, LoadedConfig, Zenon DEF TickSpawnFails, Visit, TypeOK, Config
  <2>2. /\ jobs' \in [Labels -> Job]
        /\ \A k \in Labels : jobs'[k].file = jobs[k].file
    BY Zenon, <1>10, <2>1 DEF TickSpawnFails, TypeOK, Job, States
  <2> QED
    BY <1>10, <2>2, Zenon DEF TickSpawnFails, Visit, TypeOK, config
<1>11. ASSUME NEW l \in Labels, TickSkip(l) PROVE TypeOK'
  BY <1>11, Zenon DEF TickSkip, Visit, TypeOK, config
<1>12. CASE Collect
  <2>1. CollectGarbage /\ todo = {}
    BY <1>12, Zenon DEF Collect
  <2> QED
    BY Zenon, <1>12, <2>1, CollectTypes DEF Collect, TypeOK, Phases, config
<1>13. CASE FinishShutdown
  <2>1. \A p \in Pids : Stray(groups[p]) \in Group
    <3> SUFFICES ASSUME NEW p \in Pids PROVE Stray(groups[p]) \in Group
      BY Zenon
    <3>1. Sigterm(groups[p], 0) \in Group
      BY Zenon, SigtermGroup DEF TypeOK
    <3>2. [Sigterm(groups[p], 0) EXCEPT !.leader = "reaped"] \in Group
      BY Zenon, <3>1 DEF Group
    <3> QED
      BY <3>1, <3>2, SettleGroup, Zenon DEF Stray
  <2>2. groups' \in [Pids -> Group]
    BY <1>13, <2>1, Zenon DEF FinishShutdown, TypeOK
  <2> QED
    BY <1>13, <2>2, BlankAndFree, Zenon DEF FinishShutdown, Erased, TypeOK, Phases, config
<1>14. ASSUME NEW e \in batch, Shutdown(e) PROVE TypeOK'
  <2>1. CASE shuttingDown
    BY <1>14, <2>1, Zenon DEF Shutdown, Event, TypeOK, config
  <2>2. CASE ~shuttingDown
    <3>1. todo = {} /\ CollectGarbage
      BY <1>14, <2>2, Zenon DEF Shutdown, Event, TypeOK
    <3> QED
      BY Zenon, <1>14, <3>1, CollectTypes DEF Shutdown, Event, TypeOK, config
  <2> QED
    BY <2>1, <2>2, Zenon
<1>15. ASSUME NEW e \in batch, Activate(e) PROVE TypeOK'
  <2>1. /\ jobs' \in [Labels -> Job]
        /\ \A k \in Labels : jobs'[k].file = jobs[k].file
    <3>1. CASE jobs' = jobs
      BY <3>1, Zenon DEF TypeOK
    <3>2. CASE jobs' = [jobs EXCEPT ![e.arg].state = "waiting"]
      <4>1. jobs' = [jobs EXCEPT ![e.arg] = [jobs[e.arg] EXCEPT !.state = "waiting"]]
        BY <3>2, Zenon
      <4>2. e.arg \in Labels /\ jobs[e.arg] \in Job
        BY <1>15, EventArguments, Zenon DEF Activate, TypeOK
      <4>3. [jobs[e.arg] EXCEPT !.state = "waiting"].file = jobs[e.arg].file
        BY <4>2, Zenon DEF Job
      <4> QED
        BY Zenon, <4>1, <4>2, <4>3, JobUpdates DEF TypeOK
    <3> QED
      BY <1>15, <3>1, <3>2, Zenon DEF Activate
  <2> QED
    BY <1>15, <2>1, Zenon DEF Activate, Event, TypeOK, config
<1>16. ASSUME NEW e \in batch, Load(e) PROVE TypeOK'
  BY <1>16, EventArguments, LoadTypes, Zenon DEF Load, Event, TypeOK, config
<1>17. ASSUME NEW e \in batch, Start(e) PROVE TypeOK'
  <2> DEFINE s == IF jobs[e.arg].pid = NoPid THEN "waiting" ELSE jobs[e.arg].state
             j == [jobs[e.arg] EXCEPT !.enabled = TRUE, !.state = s]
  <2>1. e.arg \in Labels /\ jobs[e.arg] \in Job
    BY <1>17, Zenon DEF Start, TypeOK
  <2>2. s \in States
    BY <2>1, Zenon DEF Job, States
  <2>3. jobs' = [jobs EXCEPT ![e.arg] = j]
    BY SMTT(30), <1>17 DEF Start
  <2>4. j \in Job /\ j.file = jobs[e.arg].file
    <3> HIDE DEF s
    <3> QED
      BY Zenon, <2>1, <2>2, JobUpdates DEF Job
  <2>5. /\ jobs' \in [Labels -> Job]
        /\ \A k \in Labels : jobs'[k].file = jobs[k].file
    <3> HIDE DEF j
    <3> QED
      BY <2>1, <2>3, <2>4, Zenon DEF TypeOK
  <2> QED
    BY <1>17, <2>5, Zenon DEF Start, Event, TypeOK, config
<1>18. ASSUME NEW e \in batch, Stop(e) PROVE TypeOK'
  <2> DEFINE d == Stopped(jobs[e.arg])
  <2>1. e.arg \in loaded /\ d \in Job /\ d.file = jobs[e.arg].file
    BY Zenon, <1>18, LoadedConfig, StoppedJob DEF Stop
  <2>2. groups' \in [Pids -> Group]
    BY Zenon, <1>18, <2>1, TerminatedGroups DEF Stop
  <2>3. jobs' = [jobs EXCEPT ![e.arg] = [d EXCEPT !.remove = @ \/ e.op = "unload"]]
    BY <1>18, Zenon DEF Stop
  <2>4. /\ jobs' \in [Labels -> Job]
        /\ \A k \in Labels : jobs'[k].file = jobs[k].file
    <3> HIDE DEF d
    <3> QED
      BY Zenon, <2>1, <2>3 DEF TypeOK, Job
  <2> QED
    BY Zenon, <1>18, <2>2, <2>4 DEF Stop, Event, TypeOK, config
<1>19. ASSUME NEW e \in batch, SetOverride(e) PROVE TypeOK'
  BY <1>19, EventArguments, Zenon DEF SetOverride, Event, TypeOK, Overrides, config
<1>20. ASSUME NEW e \in batch, Refuse(e) PROVE TypeOK'
  BY <1>20, Zenon DEF Refuse, Event, TypeOK, config
<1>21. CASE LoopFails
  <2>1. groups' \in [Pids -> Group]
    BY <1>21, SigkillGroup, Zenon DEF LoopFails, TypeOK
  <2> QED
    BY <1>21, <2>1, Zenon DEF LoopFails, TypeOK, Phases, config
<1>22. ASSUME NEW l \in Labels, EmergencyReap(l) PROVE TypeOK'
  <2> DEFINE p == jobs[l].pid
             h == [groups[p] EXCEPT !.leader = "reaped"]
  <2>1. p \in Pids
    BY <1>22, Zenon DEF EmergencyReap, TypeOK, Job
  <2>2. h \in Group
    BY Zenon, <2>1, GroupUpdates DEF TypeOK
  <2>3. groups' = [groups EXCEPT ![p] = Settle(h)]
    BY <1>22, <2>1, Zenon DEF EmergencyReap, TypeOK
  <2>4. groups' \in [Pids -> Group]
    <3> HIDE DEF h, p
    <3> QED
      BY <2>1, <2>2, <2>3, SettleGroup, Zenon DEF TypeOK
  <2>5. jobs' = [jobs EXCEPT ![l] = [jobs[l] EXCEPT !.pid = NoPid]] /\ jobs[l] \in Job
    BY <1>22, Zenon DEF EmergencyReap, TypeOK
  <2>6. [jobs[l] EXCEPT !.pid = NoPid].file = jobs[l].file
    BY SMTT(30), <2>5 DEF Job
  <2>7. /\ jobs' \in [Labels -> Job]
        /\ \A k \in Labels : jobs'[k].file = jobs[k].file
    BY Zenon, <2>5, <2>6, JobUpdates DEF TypeOK
  <2> QED
    BY SMTT(30), <1>22, <2>4, <2>7 DEF EmergencyReap, TypeOK, config
<1>23. CASE EmergencyDone
  BY <1>23, BlankAndFree, Zenon DEF EmergencyDone, Erased, TypeOK, Phases, config
<1>24. ASSUME NEW p \in Pids, Exec(p) \/ ChildFailure(p) \/ LeaderExits(p) \/ ForkHelper(p)
                        \/ Wedge(p) \/ Unwedge(p)
      PROVE  TypeOK'
  <2>1. groups' \in [Pids -> Group]
    <3>1. groups[p] \in Group
      BY Zenon DEF TypeOK
    <3>2. \/ groups' = [groups EXCEPT ![p] =
                          [groups[p] EXCEPT !.leader = "running", !.report = "eof"]]
          \/ groups' = [groups EXCEPT ![p] =
                          [groups[p] EXCEPT !.leader = "zombie", !.report = "errno"]]
          \/ groups' = [groups EXCEPT ![p] =
                          [groups[p] EXCEPT !.leader = "zombie", !.report = "eof"]]
          \/ groups' = [groups EXCEPT ![p] = [groups[p] EXCEPT !.helpers = TRUE]]
          \/ groups' = [groups EXCEPT ![p] = [groups[p] EXCEPT !.wedged = TRUE]]
          \/ groups' = [groups EXCEPT ![p] = [groups[p] EXCEPT !.wedged = FALSE]]
      BY <1>24, Zenon DEF Exec, ChildFailure, LeaderExits, ForkHelper, Wedge, Unwedge
    <3>3. PICK g \in Group : groups' = [groups EXCEPT ![p] = g]
      BY Zenon, <3>1, <3>2, GroupUpdates
    <3> QED
      BY <3>3, Zenon DEF TypeOK
  <2>2. UNCHANGED kernelVars
    BY SMTT(30), <1>24 DEF Exec, ChildFailure, LeaderExits, ForkHelper, Wedge, Unwedge
  <2> QED
    BY <2>1, <2>2, Zenon DEF TypeOK, config
<1>25. ASSUME NEW p \in Pids, HelpersExit(p) \/ ReapForever(p) PROVE TypeOK'
  <2>1. /\ [groups[p] EXCEPT !.helpers = FALSE] \in Group
        /\ [groups[p] EXCEPT !.leader = "reaped"] \in Group
    BY Zenon, GroupUpdates DEF TypeOK
  <2>2. groups' \in [Pids -> Group]
    <3>1. PICK g \in Group : groups' = [groups EXCEPT ![p] = Settle(g)]
      BY <1>25, <2>1, Zenon DEF HelpersExit, ReapForever
    <3> QED
      BY <3>1, SettleGroup, Zenon DEF TypeOK
  <2>3. UNCHANGED kernelVars
    BY <1>25, Zenon DEF HelpersExit, ReapForever
  <2> QED
    BY <2>2, <2>3, Zenon DEF TypeOK, config
<1>26. ASSUME NEW x \in Names, Connect(x) PROVE TypeOK'
  BY <1>26, Zenon DEF Connect, TypeOK, Nobody, config
<1>27. ASSUME NEW l \in Labels, Accept(l) PROVE TypeOK'
  BY SMTT(30), <1>27 DEF Accept, TypeOK, config
<1>28. CASE ClockTick
  <2>1. groups' \in [Pids -> Group]
    BY Zenon, <1>28, GroupUpdates DEF ClockTick, TypeOK
  <2>2. /\ jobs' \in [Labels -> Job]
        /\ \A l \in Labels : jobs'[l].file = jobs[l].file
    <3>1. \A l \in Labels : jobs'[l] \in Job
      BY Zenon, <1>28, JobUpdates DEF ClockTick, TypeOK
    <3>2. \A l \in Labels : jobs'[l].file = jobs[l].file
      <4> SUFFICES ASSUME NEW l \in Labels PROVE jobs'[l].file = jobs[l].file
        BY SMTT(30)
      <4>1. jobs'[l] = [jobs[l] EXCEPT !.wait = Down(@), !.stopLeft = Down(@), !.killLeft = Down(@)]
        BY Zenon, <1>28 DEF ClockTick
      <4> QED
        BY <4>1 DEF TypeOK, Job
    <3> QED
      BY Zenon, <1>28, <3>1, <3>2 DEF ClockTick
  <2>3. age' \in [Labels -> Nat]
    <3>1. \A l \in loaded : config(l).throttle \in Nat
      BY SMTT(30), LoadedConfig DEF Config
    <3>2. age' = [l \in Labels |-> IF l \in loaded /\ age[l] < config(l).throttle
                                   THEN age[l] + 1 ELSE age[l]]
      BY Zenon, <1>28 DEF ClockTick
    <3>3. age \in [Labels -> Nat]
      BY Zenon DEF TypeOK
    <3> QED
      BY <3>2, <3>3
  <2> QED
    BY Zenon, <1>28, <2>1, <2>2, <2>3 DEF ClockTick, TypeOK, config
<1>29. CASE Ended
  BY <1>29, Zenon DEF Ended, vars, TypeOK, config
<1> QED
  BY SMTT(30), <1>1, <1>2, <1>3, <1>4, <1>5, <1>6, <1>7, <1>8, <1>9, <1>10, <1>11,
     <1>12, <1>13, <1>14, <1>15, <1>16, <1>17, <1>18, <1>19, <1>20, <1>21,
     <1>22, <1>23, <1>24, <1>25, <1>26, <1>27, <1>28, <1>29
  DEF Next, Loop, TickJob, Handle, Emergency, Kernel
-----------------------------------------------------------------------------
(* The inductive invariant.                                                *)

\* Loading a job gives it no process, and takes none from another job.
LEMMA LoadKeepsInvariant ==
    ASSUME LaunchdInvariant, TypeOK', ~shuttingDown, phase \in {"boot", "events"},
           UNCHANGED <<phase, shuttingDown, groups>>,
           NEW f \in Files, load(f) \/ loadFails(f) \/ loadRefused(f)
    PROVE  LaunchdInvariant'
<1> USE DEF NoPid
<1>1. TypeOK /\ loaded \subseteq Labels
  BY Zenon DEF LaunchdInvariant, TypeOK
<1>2. CASE UNCHANGED <<loaded, jobs>>
  BY <1>2, Zenon DEF LaunchdInvariant, OwnProcesses, NoLostProcess, OnlyWantedJobsAreDue,
              StateMatchesProcess
<1>3. CASE load(f)
  <2> DEFINE c == Plist[f].label
  <2>1. /\ c \in Labels
        /\ c \notin loaded
        /\ loaded' = loaded \union {c}
        /\ \A k \in Labels : k # c => jobs'[k] = jobs[k]
        /\ jobs'[c] = NewJob(f)
    BY <1>1, <1>3, LaunchdAssumption DEF load, Loadable, TypeOK, Config
  <2>2. /\ NewJob(f).pid = NoPid
        /\ NewJob(f).enabled
        /\ NewJob(f).remove = FALSE
        /\ NewJob(f).state \in {"idle", "waiting"}
    BY Zenon DEF NewJob, Blank
  <2> HIDE DEF c
  <2>3. OwnProcesses'
    BY <2>1, <2>2, Zenon DEF LaunchdInvariant, OwnProcesses
  <2>4. NoLostProcess'
    BY <1>1, <2>1, <2>2, Zenon DEF LaunchdInvariant, NoLostProcess
  <2>5. OnlyWantedJobsAreDue'
    BY <1>1, <2>1, <2>2, Zenon DEF LaunchdInvariant, OnlyWantedJobsAreDue
  <2>6. StateMatchesProcess'
    BY <1>1, <2>1, <2>2, Zenon DEF LaunchdInvariant, StateMatchesProcess
  <2> QED
    BY <1>1, <2>1, <2>2, <2>3, <2>4, <2>5, <2>6, Zenon DEF LaunchdInvariant
<1> QED
  BY <1>2, <1>3, Zenon DEF loadFails, loadRefused

\* collectGarbage() erases no job that has a process.
LEMMA CollectKeepsInvariant ==
    ASSUME LaunchdInvariant, TypeOK', CollectGarbage, shuttingDown',
           phase \in {"tick", "events"}, phase' \in {"wait", "events"}
    PROVE  LaunchdInvariant'
<1>1. /\ TypeOK
      /\ loaded \subseteq Labels
      /\ loaded' = {l \in loaded : jobs[l].pid # NoPid}
      /\ \A l \in loaded' : jobs'[l] = Stopped(jobs[l])
      /\ \A l \in Labels \ loaded' : jobs'[l] = Blank \/ (l \notin loaded /\ jobs'[l] = jobs[l])
      /\ groups' = Terminated(loaded')
  BY CollectTypes, Zenon DEF LaunchdInvariant, TypeOK
<1>2. \A l \in loaded' :
         /\ jobs'[l].pid = jobs[l].pid
         /\ jobs'[l].killed = jobs[l].killed
         /\ jobs'[l].enabled = FALSE
         /\ jobs'[l].state = "stopping"
  <2> SUFFICES ASSUME NEW l \in loaded'
               PROVE  /\ jobs'[l].pid = jobs[l].pid
                      /\ jobs'[l].killed = jobs[l].killed
                      /\ jobs'[l].enabled = FALSE
                      /\ jobs'[l].state = "stopping"
    BY Zenon
  <2>1. l \in loaded /\ jobs[l].pid # NoPid /\ jobs'[l] = Stopped(jobs[l])
    BY <1>1, Zenon
  <2>2. jobs[l] \in Job /\ jobs[l].file \in Files
    BY <1>1, <2>1, LoadedConfig, Zenon
  <2>3. /\ Stopped(jobs[l]).pid = jobs[l].pid
        /\ Stopped(jobs[l]).killed = jobs[l].killed
        /\ Stopped(jobs[l]).enabled = FALSE
        /\ Stopped(jobs[l]).state = "stopping"
    BY <2>1, <2>2, StoppedJob, Zenon
  <2> QED
    BY <2>1, <2>3, Zenon
<1>3. \A l \in Labels \ loaded' : jobs'[l].pid = NoPid
  BY <1>1 DEF LaunchdInvariant, OwnProcesses, Blank
<1>4. \A p \in Pids : /\ groups'[p].owner = groups[p].owner
                      /\ groups'[p].leader = groups[p].leader
                      /\ groups'[p].killed = groups[p].killed
                      /\ groups'[p].helpers = groups[p].helpers
  BY <1>1, TerminatedGroups, Zenon
<1>5. \A l \in loaded' : jobs[l].pid \in Pids
  BY <1>1, Zenon DEF TypeOK, Job
<1>6. OwnProcesses'
  BY <1>1, <1>2, <1>3, <1>4, <1>5 DEF LaunchdInvariant, OwnProcesses
<1>7. NoLostProcess'
  BY <1>1, <1>2, <1>4, <1>5, LaunchdAssumption
  DEF LaunchdInvariant, NoLostProcess, Alive, LeaderLives
<1>8. OnlyWantedJobsAreDue' /\ StateMatchesProcess'
  BY SMTT(30), <1>1, <1>2 DEF OnlyWantedJobsAreDue, StateMatchesProcess
<1> QED
  BY <1>1, <1>2, <1>4, <1>5, <1>6, <1>7, <1>8 DEF LaunchdInvariant, Alive, LeaderLives

\* The kernel and the jobs' processes change one group at a time: its owner
\* stays, a leader that is not waited for stays so, and nothing comes to life.
LEMMA GroupKeepsInvariant ==
    ASSUME LaunchdInvariant, TypeOK', UNCHANGED kernelVars,
           NEW p \in Pids,
           \A q \in Pids : q # p => groups'[q] = groups[q],
           groups[p].leader \in {"forked", "running", "zombie"} =>
              /\ groups'[p].owner = groups[p].owner
              /\ groups'[p].leader \in {"forked", "running", "zombie"},
           Alive(groups'[p]) => Alive(groups[p]),
           Alive(groups'[p]) /\ groups[p].killed => groups'[p].killed
    PROVE  LaunchdInvariant'
<1> USE DEF kernelVars, loopVars, jobVars
<1>1. TypeOK /\ \A l \in Labels : jobs[l].pid # NoPid => jobs[l].pid \in Pids
  BY Zenon DEF LaunchdInvariant, TypeOK, Job
<1>2. OwnProcesses'
  BY <1>1 DEF LaunchdInvariant, OwnProcesses
<1>3. NoLostProcess'
  BY Zenon DEF LaunchdInvariant, NoLostProcess
<1> QED
  BY SMTT(30), <1>1, <1>2, <1>3
  DEF LaunchdInvariant, OnlyWantedJobsAreDue, StateMatchesProcess, TypeOK

\* A step that changes no process ID, owner, leader or helper, and takes back
\* no SIGKILL, keeps what the invariant says of processes.
LEMMA SameProcesses ==
    ASSUME LaunchdInvariant, UNCHANGED <<phase, loaded>>,
           \A p \in Pids : /\ groups'[p].owner = groups[p].owner
                           /\ groups'[p].leader = groups[p].leader
                           /\ groups'[p].helpers = groups[p].helpers
                           /\ groups'[p].killed = groups[p].killed,
           \A l \in Labels : jobs'[l].pid = jobs[l].pid /\ jobs'[l].killed = jobs[l].killed
    PROVE  /\ OwnProcesses'
           /\ NoLostProcess'
           /\ \A l \in loaded' :
                 /\ jobs'[l].pid # NoPid
                 /\ jobs'[l].killed \/ phase' = "emergency"
                 /\ Alive(groups'[jobs'[l].pid])
                 => groups'[jobs'[l].pid].killed
<1>1. /\ loaded \subseteq Labels
      /\ \A l \in Labels : jobs[l].pid # NoPid => jobs[l].pid \in Pids
  BY Zenon DEF LaunchdInvariant, TypeOK, Job
<1>2. \A p \in Pids : Alive(groups'[p]) <=> Alive(groups[p])
  BY Zenon DEF Alive, LeaderLives
<1>3. OwnProcesses'
  <2> SUFFICES ASSUME NEW l \in Labels, jobs'[l].pid # NoPid
               PROVE  /\ l \in loaded'
                      /\ groups'[jobs'[l].pid].owner = l
                      /\ groups'[jobs'[l].pid].leader \in {"forked", "running", "zombie"}
    BY Zenon DEF OwnProcesses
  <2>1. jobs[l].pid \in Pids /\ jobs'[l].pid = jobs[l].pid /\ jobs[l].pid # NoPid
    BY <1>1, Zenon
  <2>2. /\ l \in loaded
        /\ groups[jobs[l].pid].owner = l
        /\ groups[jobs[l].pid].leader \in {"forked", "running", "zombie"}
    BY <2>1, Zenon DEF LaunchdInvariant, OwnProcesses
  <2> QED
    BY <2>1, <2>2, Zenon
<1>4. NoLostProcess'
  <2> SUFFICES ASSUME NEW p \in Pids, Alive(groups'[p]), ~groups'[p].killed
               PROVE  \E l \in loaded' : jobs'[l].pid = p
    BY Zenon DEF NoLostProcess
  <2>1. \E l \in loaded : jobs[l].pid = p
    BY <1>2, Zenon DEF LaunchdInvariant, NoLostProcess
  <2> QED
    BY <1>1, <2>1, Zenon
<1>5. ASSUME NEW l \in loaded', jobs'[l].pid # NoPid, jobs'[l].killed \/ phase' = "emergency",
             Alive(groups'[jobs'[l].pid])
      PROVE  groups'[jobs'[l].pid].killed
  <2>1. l \in loaded /\ jobs'[l].pid = jobs[l].pid /\ jobs[l].pid \in Pids
    BY <1>1, <1>5, Zenon
  <2>2. jobs[l].killed \/ phase = "emergency"
    BY <1>1, <1>5, <2>1, Zenon
  <2>3. Alive(groups[jobs[l].pid])
    BY <1>2, <1>5, <2>1, Zenon
  <2>4. groups[jobs[l].pid].killed
    BY <1>5, <2>1, <2>2, <2>3, Zenon DEF LaunchdInvariant
  <2> QED
    BY <2>1, <2>4, Zenon
<1> QED
  BY <1>3, <1>4, <1>5, Zenon

\* Every step keeps the inductive invariant.
LEMMA InvariantStep ==
    ASSUME LaunchdInvariant, Next
    PROVE  LaunchdInvariant'
<1> USE DEF loopVars, jobVars, ioVars, kernelVars
<1>t. /\ TypeOK
      /\ TypeOK'
      /\ jobs \in [Labels -> Job]
      /\ groups \in [Pids -> Group]
      /\ loaded \subseteq Labels
  BY TypeStep, Zenon DEF LaunchdInvariant, TypeOK
<1>p. /\ \A l \in Labels : jobs[l].pid # NoPid => jobs[l].pid \in Pids
      /\ \A l, k \in Labels : jobs[l].pid # NoPid /\ jobs[l].pid = jobs[k].pid => l = k
  BY SMTT(30), <1>t DEF Job, LaunchdInvariant, OwnProcesses
<1>1. CASE Run \/ ReapDone \/ Arm \/ EventsDone \/ Kevent \/ Ended
  BY SMTT(30), <1>1, <1>t
     DEF Run, ReapDone, Arm, EventsDone, Kevent, Ended, vars, LaunchdInvariant,
                    OwnProcesses, NoLostProcess, OnlyWantedJobsAreDue, StateMatchesProcess
<1>2. CASE LoadDirectories
  <2>1. Head(startup) \in Files
    BY SMTT(30), <1>2, <1>t DEF LoadDirectories, TypeOK
  <2> QED
    BY SMTT(30), <1>2, <1>t, <2>1, LoadKeepsInvariant DEF LoadDirectories, LaunchdInvariant
<1>3. ASSUME NEW p \in Pids, Reap(p) PROVE LaunchdInvariant'
  <2> DEFINE managed == {l \in loaded : jobs[l].pid = p}
             g == IF managed = {} THEN groups[p] ELSE Sigkill(groups[p])
             h == [g EXCEPT !.leader = "reaped"]
  <2>1. /\ g \in Group
        /\ g.helpers = groups[p].helpers
        /\ managed # {} /\ g.helpers => g.killed
        /\ managed = {} => g.killed = groups[p].killed
    BY <1>t, SigkillGroup, Zenon DEF Alive
  <2>2. /\ h \in Group
        /\ h.leader = "reaped"
        /\ h.helpers = groups[p].helpers
        /\ h.killed = g.killed
    <3> HIDE DEF g
    <3> QED
      BY <2>1, Zenon DEF Group
  <2>3. groups' = [groups EXCEPT ![p] = Settle(h)]
    BY <1>3, Zenon DEF Reap
  <2>4. /\ \A q \in Pids : q # p => groups'[q] = groups[q]
        /\ Alive(groups'[p]) => groups'[p] = h /\ groups[p].helpers
    <3> HIDE DEF h
    <3> QED
      BY <1>t, <2>2, <2>3, SettleGroup, Zenon DEF Alive, LeaderLives
  <2>5. \A l \in Labels : /\ l \in managed => jobs'[l] = Exited(jobs[l])
                          /\ l \notin managed => jobs'[l] = jobs[l]
    BY <1>3, Zenon DEF Reap
  <2>6. \A l \in Labels : l \notin managed => jobs[l].pid # p
    BY <1>t, LaunchdAssumption, Zenon DEF LaunchdInvariant, OwnProcesses
  <2>7. \A l \in managed :
           /\ jobs'[l].pid = NoPid
           /\ jobs'[l].enabled = jobs[l].enabled
           /\ jobs'[l].remove = jobs[l].remove
           /\ jobs'[l].state \in {"idle", "waiting"}
           /\ jobs'[l].state = "waiting" => jobs[l].enabled /\ ~shuttingDown
    <3> SUFFICES ASSUME NEW l \in managed
                 PROVE  /\ jobs'[l].pid = NoPid
                        /\ jobs'[l].enabled = jobs[l].enabled
                        /\ jobs'[l].remove = jobs[l].remove
                        /\ jobs'[l].state \in {"idle", "waiting"}
                        /\ jobs'[l].state = "waiting" => jobs[l].enabled /\ ~shuttingDown
      BY Zenon
    <3>1. jobs[l] \in Job /\ jobs'[l] = Exited(jobs[l])
      BY <1>t, <2>5, Zenon
    <3> QED
      BY <3>1, ExitedJob
  <2>8. UNCHANGED <<phase, loaded, shuttingDown>> /\ phase = "reap"
    BY <1>3, Zenon DEF Reap
  <2> HIDE DEF g, h
  <2>9. OwnProcesses'
    BY <1>p, <2>4, <2>5, <2>6, <2>7, <2>8 DEF LaunchdInvariant, OwnProcesses
  <2>10. NoLostProcess'
    <3> SUFFICES ASSUME NEW q \in Pids, Alive(groups'[q])
                 PROVE  (\E l \in loaded : jobs'[l].pid = q) \/ groups'[q].killed
      BY <2>8, Zenon DEF NoLostProcess
    <3>1. CASE q # p
      <4>1. (\E l \in loaded : jobs[l].pid = q) \/ groups[q].killed
        BY <2>4, <3>1, Zenon DEF LaunchdInvariant, NoLostProcess
      <4> QED
        BY <1>t, <2>4, <2>5, <3>1, <4>1, Zenon
    <3>2. CASE q = p
      <4>1. CASE managed # {}
        BY <2>1, <2>2, <2>4, <3>2, <4>1, Zenon
      <4>2. CASE managed = {}
        BY SMTT(30), <2>1, <2>2, <2>4, <3>2, <4>2 DEF LaunchdInvariant, NoLostProcess, Alive
      <4> QED
        BY <4>1, <4>2, Zenon
    <3> QED
      BY <3>1, <3>2, Zenon
  <2>11. OnlyWantedJobsAreDue' /\ StateMatchesProcess'
    BY <1>t, <2>5, <2>7, <2>8 DEF LaunchdInvariant, OnlyWantedJobsAreDue, StateMatchesProcess
  <2> QED
    BY SMTT(30), <1>t, <1>p, <2>4, <2>5, <2>6, <2>7, <2>8, <2>9, <2>10, <2>11 DEF LaunchdInvariant
<1>4. ASSUME NEW l \in Labels, TickErase(l) PROVE LaunchdInvariant'
  <2>1. /\ loaded' = loaded \ {l}
        /\ l \in loaded
        /\ jobs[l].pid = NoPid
        /\ jobs'[l].pid = NoPid
        /\ \A k \in Labels : k # l => jobs'[k] = jobs[k]
        /\ UNCHANGED <<phase, shuttingDown, groups>>
    BY <1>4, <1>t, Zenon DEF TickErase, Visit, Erased, Blank, TypeOK
  <2>2. OwnProcesses'
    BY <2>1, Zenon DEF LaunchdInvariant, OwnProcesses
  <2>3. NoLostProcess'
    <3> SUFFICES ASSUME NEW p \in Pids, Alive(groups[p])', ~groups'[p].killed
                 PROVE  \E k \in loaded' : jobs'[k].pid = p
      BY Zenon DEF NoLostProcess
    <3>1. Alive(groups[p]) /\ ~groups[p].killed
      BY <2>1, Zenon DEF Alive, LeaderLives
    <3>2. PICK k \in loaded : jobs[k].pid = p
      BY <3>1, Zenon DEF LaunchdInvariant, NoLostProcess
    <3>3. k \in Labels /\ p # NoPid
      BY <1>t, LaunchdAssumption, Zenon DEF TypeOK
    <3>4. k # l
      BY <2>1, <3>2, <3>3, Zenon
    <3> QED
      BY <2>1, <3>2, <3>3, <3>4, Zenon
  <2>4. OnlyWantedJobsAreDue' /\ StateMatchesProcess'
    BY <1>t, <2>1, Zenon DEF LaunchdInvariant, OnlyWantedJobsAreDue, StateMatchesProcess
  <2> QED
    BY <1>t, <2>1, <2>2, <2>3, <2>4, Zenon DEF LaunchdInvariant
<1>5. ASSUME NEW l \in Labels, TickKill(l) PROVE LaunchdInvariant'
  <2> DEFINE d == Drained(jobs[l])
             p == jobs[l].pid
  <2>1. l \in loaded /\ p \in Pids /\ jobs[l].state = "stopping" /\ jobs[l] \in Job
    BY <1>5, <1>t, <1>p, Zenon DEF TickKill, Visit, TypeOK
  <2>2. /\ \A k \in Labels : k # l => jobs'[k] = jobs[k]
        /\ jobs'[l] = [d EXCEPT !.killed = TRUE, !.killLeft = KillTimer]
    BY <1>5, <1>t, Zenon DEF TickKill
  <2>3. /\ d \in Job
        /\ d.pid = p
        /\ d.state = "stopping"
        /\ d.enabled = jobs[l].enabled
        /\ d.remove = jobs[l].remove
    BY <2>1, DrainedJob, Zenon
  <2> HIDE DEF d
  <2>4. /\ jobs'[l].pid = p
        /\ jobs'[l].state = "stopping"
        /\ jobs'[l].enabled = jobs[l].enabled
        /\ jobs'[l].remove = jobs[l].remove
        /\ \A k \in Labels : k # l => jobs'[k] = jobs[k]
    BY <2>2, <2>3, Zenon DEF Job
  <2>5. /\ groups'[p] = Sigkill(groups[p])
        /\ \A q \in Pids : q # p => groups'[q] = groups[q]
    BY <1>5, <1>t, <2>1, Zenon DEF TickKill
  <2>6. /\ groups'[p].owner = groups[p].owner
        /\ groups'[p].leader = groups[p].leader
        /\ groups'[p].helpers = groups[p].helpers
        /\ Alive(groups'[p]) => groups'[p].killed
    BY <1>t, <2>1, <2>5, SigkillGroup DEF Alive, LeaderLives
  <2>7. UNCHANGED <<phase, loaded, shuttingDown>>
    BY <1>5, Zenon DEF TickKill, Visit
  <2>8. \A k \in Labels : k # l /\ jobs[k].pid # NoPid => jobs[k].pid \in Pids /\ jobs[k].pid # p
    BY <1>p, <2>1, Zenon
  <2>9. l \in loaded /\ p \in Pids /\ jobs[l].pid = p /\ p # NoPid /\ jobs[l].state = "stopping"
    BY SMTT(30), <2>1, LaunchdAssumption
  <2> HIDE DEF p
  <2>10. OwnProcesses'
    BY SMTT(30), <2>4, <2>5, <2>6, <2>7, <2>8, <2>9 DEF LaunchdInvariant, OwnProcesses
  <2>11. NoLostProcess'
    BY SMTT(30), <1>t, <2>4, <2>5, <2>6, <2>7, <2>9 DEF LaunchdInvariant, NoLostProcess
  <2>12. OnlyWantedJobsAreDue' /\ StateMatchesProcess'
    BY <1>t, <2>4, <2>7, <2>9, Zenon
    DEF LaunchdInvariant, OnlyWantedJobsAreDue, StateMatchesProcess
  <2> QED
    BY <1>t, <2>4, <2>5, <2>6, <2>7, <2>8, <2>9, <2>10, <2>11, <2>12 DEF LaunchdInvariant
<1>6. ASSUME NEW l \in Labels, TickSimulateExit(l) PROVE LaunchdInvariant'
  <2>1. /\ l \in loaded
        /\ jobs[l].pid \in Pids
        /\ jobs[l].killed
        /\ jobs[l] \in Job
        /\ jobs'[l] = Exited(jobs[l])
        /\ \A k \in Labels : k # l => jobs'[k] = jobs[k]
        /\ UNCHANGED <<phase, loaded, shuttingDown, groups>>
    BY <1>6, <1>t, <1>p, Zenon DEF TickSimulateExit, Visit, TypeOK
  <2>2. /\ jobs'[l].pid = NoPid
        /\ jobs'[l].enabled = jobs[l].enabled
        /\ jobs'[l].remove = jobs[l].remove
        /\ jobs'[l].state \in {"idle", "waiting"}
        /\ jobs'[l].state = "waiting" => jobs[l].enabled /\ ~shuttingDown
    BY <2>1, ExitedJob
  <2>3. OwnProcesses'
    BY <2>1, <2>2 DEF LaunchdInvariant, OwnProcesses
  <2>4. NoLostProcess'
    BY SMTT(30), <1>t, <1>p, <2>1, <2>2 DEF LaunchdInvariant, NoLostProcess
  <2>5. OnlyWantedJobsAreDue' /\ StateMatchesProcess'
    BY SMTT(30), <1>t, <2>1, <2>2 DEF LaunchdInvariant, OnlyWantedJobsAreDue, StateMatchesProcess
  <2> QED
    BY <1>t, <2>1, <2>2, <2>3, <2>4, <2>5, Zenon DEF LaunchdInvariant
<1>7. ASSUME NEW l \in Labels, TickDrain(l) PROVE LaunchdInvariant'
  <2>1. /\ l \in loaded
        /\ jobs[l].pid # NoPid
        /\ jobs[l] \in Job
        /\ jobs'[l] = Drained(jobs[l])
        /\ \A k \in Labels : k # l => jobs'[k] = jobs[k]
        /\ UNCHANGED <<phase, loaded, shuttingDown, groups>>
    BY <1>7, <1>t, Zenon DEF TickDrain, Visit, TypeOK
  <2>2. /\ jobs'[l].pid = jobs[l].pid
        /\ jobs'[l].enabled = jobs[l].enabled
        /\ jobs'[l].remove = jobs[l].remove
        /\ jobs'[l].killed = jobs[l].killed
        /\ \/ jobs'[l].state = jobs[l].state
           \/ jobs[l].state = "launching" /\ jobs'[l].state = "running"
    BY <2>1, DrainedJob
  <2>3. OwnProcesses'
    BY <2>1, <2>2 DEF LaunchdInvariant, OwnProcesses
  <2>4. NoLostProcess'
    BY SMTT(30), <1>t, <2>1, <2>2 DEF LaunchdInvariant, NoLostProcess
  <2>5. OnlyWantedJobsAreDue' /\ StateMatchesProcess'
    BY SMTT(30), <1>t, <2>1, <2>2 DEF LaunchdInvariant, OnlyWantedJobsAreDue, StateMatchesProcess
  <2> QED
    BY <1>t, <2>1, <2>2, <2>3, <2>4, <2>5, Zenon DEF LaunchdInvariant
<1>8. ASSUME NEW l \in Labels, TickSpawn(l) PROVE LaunchdInvariant'
  <2>1. /\ l \in loaded
        /\ jobs[l].pid = NoPid
        /\ jobs[l].enabled = jobs[l].enabled
        /\ jobs[l].remove = FALSE
        /\ shuttingDown = FALSE
        /\ UNCHANGED <<phase, loaded, shuttingDown>>
        /\ jobs[l] \in Job
    BY <1>8, <1>t DEF TickSpawn, Visit, Due, TypeOK, Job
  <2>2. PICK p \in Pids :
           /\ groups[p] = Free
           /\ groups' = [groups EXCEPT ![p] = Forked(l)]
           /\ jobs' = [jobs EXCEPT ![l] =
                          [jobs[l] EXCEPT !.pid = p, !.state = "launching",
                                          !.setup = TRUE, !.killed = FALSE,
                                          !.wait = config(l).throttle]]
    BY <1>8, Zenon DEF TickSpawn
  <2>3. /\ \A k \in Labels : k # l => jobs'[k] = jobs[k]
        /\ jobs'[l].pid = p
        /\ jobs'[l].state = "launching"
        /\ jobs'[l].enabled = jobs[l].enabled
        /\ jobs'[l].remove = jobs[l].remove
    BY <1>t, <2>1, <2>2, Zenon DEF Job
  <2>4. jobs'[l].killed = FALSE
    BY <1>t, <2>1, <2>2, Zenon DEF Job
  <2>5. /\ \A q \in Pids : q # p => groups'[q] = groups[q]
        /\ groups'[p].owner = l
        /\ groups'[p].leader = "forked"
    BY <1>t, <2>2, Zenon DEF Forked, Free
  <2>6. \A k \in Labels : jobs[k].pid # p
    BY SMTT(30), <1>t, <2>2, LaunchdAssumption DEF LaunchdInvariant, OwnProcesses, Free
  <2>7. OwnProcesses'
    BY <1>p, <2>1, <2>3, <2>5, <2>6 DEF LaunchdInvariant, OwnProcesses
  <2>8. NoLostProcess'
    BY SMTT(30), <1>t, <2>1, <2>3, <2>5, LaunchdAssumption DEF LaunchdInvariant, NoLostProcess
  <2>9. OnlyWantedJobsAreDue' /\ StateMatchesProcess'
    BY <1>t, <2>1, <2>2, <2>3, LaunchdAssumption, Zenon
    DEF LaunchdInvariant, OnlyWantedJobsAreDue, StateMatchesProcess
  <2>10. phase' = "tick"
    BY <1>8, Zenon DEF TickSpawn, Visit
  <2> QED
    BY <1>t, <1>p, <2>1, <2>3, <2>4, <2>5, <2>6, <2>7, <2>8, <2>9, <2>10 DEF LaunchdInvariant
<1>9. ASSUME NEW l \in Labels, TickSpawnFails(l) PROVE LaunchdInvariant'
  BY SMTT(30), <1>9, <1>t
     DEF TickSpawnFails, Visit, Due, LaunchdInvariant, OwnProcesses, NoLostProcess,
                    OnlyWantedJobsAreDue, StateMatchesProcess, Job, NoPid
<1>10. ASSUME NEW l \in Labels, TickSkip(l) PROVE LaunchdInvariant'
  BY <1>10, <1>t, Zenon DEF TickSkip, Visit, LaunchdInvariant, OwnProcesses, NoLostProcess,
                     OnlyWantedJobsAreDue, StateMatchesProcess
<1>11. CASE Collect
  BY <1>11, <1>t, CollectKeepsInvariant, Zenon DEF Collect
<1>12. CASE FinishShutdown
  <2>1. /\ loaded' = {}
        /\ phase' = "done"
        /\ \A l \in Labels : jobs'[l].pid = NoPid
        /\ \A l \in Labels : jobs[l].pid = NoPid
    BY <1>12, <1>t, Zenon DEF FinishShutdown, Erased, Blank, LaunchdInvariant, OwnProcesses
  <2>2. NoLostProcess'
    <3> SUFFICES ASSUME NEW p \in Pids, Alive(groups'[p])
                 PROVE  groups'[p].killed
      BY Zenon DEF NoLostProcess
    <3> DEFINE s == Sigterm(groups[p], 0)
               r == [s EXCEPT !.leader = "reaped"]
    <3>1. Alive(groups[p]) => groups[p].killed
      BY <1>t, <2>1, LaunchdAssumption, Zenon DEF LaunchdInvariant, NoLostProcess
    <3>2. /\ s \in Group
          /\ s.leader = groups[p].leader
          /\ s.helpers = groups[p].helpers
          /\ s.killed = groups[p].killed
      BY <1>t, SigtermGroup, Zenon
    <3>3. /\ groups'[p] = groups[p] \/ groups'[p] = s \/ groups'[p] = Settle(r)
      BY <1>12, Zenon DEF FinishShutdown, Stray
    <3> HIDE DEF s
    <3>4. /\ r \in Group
          /\ r.leader = "reaped"
          /\ r.helpers = groups[p].helpers
          /\ r.killed = groups[p].killed
      BY <3>2, Zenon DEF Group
    <3> HIDE DEF r
    <3>5. CASE groups'[p] = Settle(r)
      <4>1. groups'[p] = r /\ Alive(r)
        BY <3>4, <3>5, SettleGroup, Zenon
      <4> QED
        BY <3>1, <3>4, <4>1, Zenon DEF Alive, LeaderLives
    <3> QED
      BY <3>1, <3>2, <3>3, <3>5, Zenon DEF Alive, LeaderLives
  <2>3. OwnProcesses' /\ OnlyWantedJobsAreDue' /\ StateMatchesProcess'
    BY <2>1, Zenon DEF OwnProcesses, OnlyWantedJobsAreDue, StateMatchesProcess
  <2> QED
    BY SMTT(30), <1>t, <2>1, <2>2, <2>3 DEF LaunchdInvariant
<1>13. ASSUME NEW e \in batch, Shutdown(e) PROVE LaunchdInvariant'
  <2>1. CASE shuttingDown
    BY <1>13, <1>t, <2>1 DEF Shutdown, Event, LaunchdInvariant, OwnProcesses, NoLostProcess,
                             OnlyWantedJobsAreDue, StateMatchesProcess
  <2>2. CASE ~shuttingDown
    BY <1>13, <1>t, <2>2, CollectKeepsInvariant, Zenon DEF Shutdown, Event
  <2> QED
    BY SMTT(30), <2>1, <2>2
<1>14. ASSUME NEW e \in batch, Activate(e) PROVE LaunchdInvariant'
  <2>1. UNCHANGED <<phase, loaded, shuttingDown, groups>>
    BY SMTT(30), <1>14 DEF Activate, Event
  <2>2. CASE jobs' = jobs
    BY <1>t, <2>1, <2>2, Zenon DEF LaunchdInvariant, OwnProcesses, NoLostProcess,
                            OnlyWantedJobsAreDue, StateMatchesProcess
  <2>3. CASE jobs' # jobs
    <3> DEFINE l == e.arg
    <3>1. /\ l \in loaded
          /\ activatable(l)
          /\ ~shuttingDown
          /\ jobs' = [jobs EXCEPT ![l] = [jobs[l] EXCEPT !.state = "waiting"]]
      BY <1>14, <2>3, Zenon DEF Activate
    <3> HIDE DEF l
    <3>2. /\ \A k \in Labels : k # l => jobs'[k] = jobs[k]
          /\ jobs'[l].pid = NoPid
          /\ jobs[l].pid = NoPid
          /\ jobs[l].enabled
          /\ ~jobs[l].remove
          /\ jobs'[l].state = "waiting"
          /\ jobs'[l].enabled = jobs[l].enabled
          /\ jobs'[l].remove = jobs[l].remove
      <4>1. jobs[l] \in Job /\ l \in Labels
        BY <1>t, <3>1, Zenon
      <4>2. jobs[l].pid = NoPid /\ jobs[l].enabled /\ ~jobs[l].remove
        BY <3>1, Zenon DEF activatable
      <4>3. jobs'[l] = [jobs[l] EXCEPT !.state = "waiting"]
        BY <1>t, <3>1, <4>1, Zenon
      <4>4. /\ jobs'[l].pid = jobs[l].pid
            /\ jobs'[l].state = "waiting"
            /\ jobs'[l].enabled = jobs[l].enabled
            /\ jobs'[l].remove = jobs[l].remove
        BY <4>1, <4>3, Zenon DEF Job
      <4>5. \A k \in Labels : k # l => jobs'[k] = jobs[k]
        BY <1>t, <3>1, Zenon
      <4> QED
        BY <4>2, <4>4, <4>5, Zenon
    <3>3. OwnProcesses'
      BY <2>1, <3>1, <3>2 DEF LaunchdInvariant, OwnProcesses
    <3>4. NoLostProcess'
      BY <1>t, <2>1, <3>1, <3>2 DEF LaunchdInvariant, NoLostProcess
    <3>5. OnlyWantedJobsAreDue' /\ StateMatchesProcess'
      BY <1>t, <2>1, <3>1, <3>2, Zenon DEF LaunchdInvariant, OnlyWantedJobsAreDue, StateMatchesProcess
    <3> QED
      BY <1>t, <2>1, <3>1, <3>2, <3>3, <3>4, <3>5, Zenon DEF LaunchdInvariant
  <2> QED
    BY <2>2, <2>3, Zenon
<1>15. ASSUME NEW e \in batch, Load(e) PROVE LaunchdInvariant'
  BY SMTT(30), <1>15, <1>t, EventArguments, LoadKeepsInvariant DEF Load, Event
<1>16. ASSUME NEW e \in batch, Start(e) PROVE LaunchdInvariant'
  BY SMTT(30), <1>16, <1>t DEF Start, Event, LaunchdInvariant, OwnProcesses, NoLostProcess,
                     OnlyWantedJobsAreDue, StateMatchesProcess, Job, NoPid
<1>17. ASSUME NEW e \in batch, Stop(e) PROVE LaunchdInvariant'
  <2> DEFINE l == e.arg
             d == Stopped(jobs[l])
  <2>1. /\ l \in loaded
        /\ jobs[l] \in Job
        /\ jobs[l].file \in Files
        /\ jobs' = [jobs EXCEPT ![l] = [d EXCEPT !.remove = @ \/ e.op = "unload"]]
        /\ groups' = Terminated({l})
        /\ UNCHANGED <<phase, loaded, shuttingDown>>
    BY <1>17, <1>t, LoadedConfig, Zenon DEF Stop, Event
  <2>2. /\ d \in Job
        /\ d.pid = jobs[l].pid
        /\ d.killed = jobs[l].killed
        /\ d.state = IF jobs[l].pid = NoPid THEN "idle" ELSE "stopping"
    BY <2>1, StoppedJob, Zenon
  <2>3. d.enabled = FALSE
    BY <2>1, StoppedJob, Zenon
  <2> HIDE DEF d
  <2>4. /\ \A k \in Labels : k # l => jobs'[k] = jobs[k]
        /\ jobs'[l].pid = jobs[l].pid
        /\ jobs'[l].killed = jobs[l].killed
        /\ jobs'[l].state = IF jobs[l].pid = NoPid THEN "idle" ELSE "stopping"
        /\ ~jobs'[l].enabled
    BY <1>t, <2>1, <2>2, <2>3, Zenon DEF Job
  <2>5. \A p \in Pids : /\ groups'[p].owner = groups[p].owner
                        /\ groups'[p].leader = groups[p].leader
                        /\ groups'[p].helpers = groups[p].helpers
                        /\ groups'[p].killed = groups[p].killed
    BY <1>t, <2>1, TerminatedGroups, Zenon
  <2>6. l \in loaded /\ UNCHANGED <<phase, loaded, shuttingDown>>
    BY <2>1, Zenon
  <2> HIDE DEF l
  <2>7. \A k \in Labels : jobs'[k].pid = jobs[k].pid /\ jobs'[k].killed = jobs[k].killed
    BY SMTT(30), <2>4
  <2>8. OnlyWantedJobsAreDue' /\ StateMatchesProcess'
    BY SMTT(30), <1>t, <2>4, <2>6 DEF LaunchdInvariant, OnlyWantedJobsAreDue, StateMatchesProcess
  <2> QED
    BY Zenon, <1>t, <2>5, <2>6, <2>7, <2>8, SameProcesses DEF LaunchdInvariant
<1>18. ASSUME NEW e \in batch, SetOverride(e) \/ Refuse(e) PROVE LaunchdInvariant'
  BY SMTT(30), <1>18, <1>t
     DEF SetOverride, Refuse, Event, LaunchdInvariant, OwnProcesses, NoLostProcess,
                     OnlyWantedJobsAreDue, StateMatchesProcess
<1>19. CASE LoopFails
  <2> DEFINE held(p) == \E l \in loaded : jobs[l].pid = p
  <2>1. /\ phase' = "emergency"
        /\ UNCHANGED <<loaded, jobs, shuttingDown>>
        /\ \A p \in Pids : groups'[p] = IF held(p) THEN Sigkill(groups[p]) ELSE groups[p]
    BY SMTT(30), <1>19 DEF LoopFails
  <2>2. \A p \in Pids : /\ groups'[p].owner = groups[p].owner
                        /\ groups'[p].leader = groups[p].leader
                        /\ groups'[p].helpers = groups[p].helpers
                        /\ groups[p].killed => groups'[p].killed
                        /\ held(p) /\ Alive(groups[p]) => groups'[p].killed
    BY <1>t, <2>1, SigkillGroup
  <2>3. OwnProcesses'
    BY SMTT(30), <1>p, <2>1, <2>2 DEF LaunchdInvariant, OwnProcesses
  <2>4. NoLostProcess'
    BY <2>1, <2>2, Zenon DEF LaunchdInvariant, NoLostProcess, Alive, LeaderLives
  <2>5. OnlyWantedJobsAreDue' /\ StateMatchesProcess'
    BY SMTT(30), <2>1 DEF OnlyWantedJobsAreDue, StateMatchesProcess
  <2>6. \A l \in loaded' :
           jobs'[l].pid # NoPid /\ Alive(groups'[jobs'[l].pid]) => groups'[jobs'[l].pid].killed
    BY SMTT(30), <1>t, <1>p, <2>1, <2>2 DEF Alive, LeaderLives
  <2> QED
    BY <1>t, <2>1, <2>3, <2>4, <2>5, <2>6, Zenon DEF LaunchdInvariant
<1>20. ASSUME NEW l \in Labels, EmergencyReap(l) PROVE LaunchdInvariant'
  <2> DEFINE p == jobs[l].pid
             h == [groups[p] EXCEPT !.leader = "reaped"]
  <2>1. /\ phase = "emergency"
        /\ l \in loaded
        /\ p \in Pids
        /\ UNCHANGED <<phase, loaded, shuttingDown>>
        /\ groups' = [groups EXCEPT ![p] = Settle(h)]
        /\ jobs' = [jobs EXCEPT ![l] = [jobs[l] EXCEPT !.pid = NoPid]]
    BY <1>20, <1>p, Zenon DEF EmergencyReap
  <2>2. /\ h \in Group
        /\ h.leader = "reaped"
        /\ h.helpers = groups[p].helpers
        /\ h.killed = groups[p].killed
    BY <1>t, <2>1 DEF Group
  <2>3. Alive(groups[p]) => groups[p].killed
    BY <2>1, LaunchdAssumption, Zenon DEF LaunchdInvariant
  <2>4. jobs'[l].pid = NoPid /\ \A k \in Labels : k # l => jobs'[k] = jobs[k]
    BY <1>t, <2>1, Zenon DEF Job
  <2>5. \A q \in Pids : q # p => groups'[q] = groups[q]
    BY SMTT(30), <1>t, <2>1
  <2>6. Alive(groups'[p]) => groups'[p].killed
    <3>1. groups'[p] = Settle(h)
      BY <1>t, <2>1, Zenon
    <3> HIDE DEF h
    <3>2. Alive(groups'[p]) => groups'[p] = h /\ Alive(groups[p])
      BY <2>2, <3>1, SettleGroup, Zenon DEF Alive, LeaderLives
    <3> QED
      BY <2>2, <2>3, <3>2, Zenon
  <2>7. \A k \in Labels : k # l => jobs[k].pid # p
    BY <1>p, <2>1, LaunchdAssumption, Zenon
  <2>8. phase' = "emergency" /\ l \in loaded /\ p \in Pids /\ UNCHANGED <<loaded, shuttingDown>>
    BY <2>1, Zenon
  <2>9. jobs[l].pid = p /\ phase = "emergency"
    BY SMTT(30), <2>1
  <2> HIDE DEF p, h
  <2>10. OwnProcesses'
    BY SMTT(30), <1>p, <2>4, <2>5, <2>7, <2>8 DEF LaunchdInvariant, OwnProcesses
  <2>11. NoLostProcess'
    BY <1>t, <2>4, <2>5, <2>6, <2>8, <2>9 DEF LaunchdInvariant, NoLostProcess
  <2>12. OnlyWantedJobsAreDue' /\ StateMatchesProcess'
    BY SMTT(30), <2>8 DEF OnlyWantedJobsAreDue, StateMatchesProcess
  <2> QED
    BY <1>t, <1>p, <2>4, <2>5, <2>6, <2>7, <2>8, <2>9, <2>10, <2>11, <2>12 DEF LaunchdInvariant
<1>21. CASE EmergencyDone
  <2>1. /\ loaded' = {}
        /\ phase' = "done"
        /\ UNCHANGED groups
        /\ \A l \in Labels : jobs'[l].pid = NoPid
        /\ \A l \in loaded : jobs[l].pid = NoPid
    BY <1>21, Zenon DEF EmergencyDone, Erased, Blank
  <2>2. OwnProcesses' /\ OnlyWantedJobsAreDue' /\ StateMatchesProcess'
    BY <2>1, Zenon DEF OwnProcesses, OnlyWantedJobsAreDue, StateMatchesProcess
  <2>3. NoLostProcess'
    BY SMTT(30), <2>1, LaunchdAssumption DEF LaunchdInvariant, NoLostProcess
  <2> QED
    BY SMTT(30), <1>t, <2>1, <2>2, <2>3 DEF LaunchdInvariant
<1>22. ASSUME NEW p \in Pids, Exec(p) \/ ChildFailure(p) \/ LeaderExits(p) \/ ForkHelper(p)
                             \/ Wedge(p) \/ Unwedge(p)
       PROVE  LaunchdInvariant'
  <2>1. UNCHANGED kernelVars /\ groups[p] \in Group
    BY <1>22, <1>t, Zenon DEF Exec, ChildFailure, LeaderExits, ForkHelper, Wedge, Unwedge
  <2>2. CASE Exec(p)
    <3> DEFINE h == [groups[p] EXCEPT !.leader = "running", !.report = "eof"]
    <3>1. groups' = [groups EXCEPT ![p] = h] /\ groups[p].leader = "forked"
      BY <2>2, Zenon DEF Exec
    <3>2. /\ h.owner = groups[p].owner
          /\ h.leader = "running"
          /\ h.helpers = groups[p].helpers
          /\ h.killed = groups[p].killed
      BY <2>1, Zenon DEF Group
    <3> HIDE DEF h
    <3>3. groups'[p] = h /\ \A q \in Pids : q # p => groups'[q] = groups[q]
      BY <1>t, <3>1, Zenon
    <3> QED
      BY <1>t, <2>1, <3>1, <3>2, <3>3, GroupKeepsInvariant, Zenon DEF Alive, LeaderLives
  <2>3. CASE ChildFailure(p)
    <3> DEFINE h == [groups[p] EXCEPT !.leader = "zombie", !.report = "errno"]
    <3>1. groups' = [groups EXCEPT ![p] = h] /\ groups[p].leader = "forked"
      BY <2>3, Zenon DEF ChildFailure
    <3>2. /\ h.owner = groups[p].owner
          /\ h.leader = "zombie"
          /\ h.helpers = groups[p].helpers
          /\ h.killed = groups[p].killed
      BY <2>1, Zenon DEF Group
    <3> HIDE DEF h
    <3>3. groups'[p] = h /\ \A q \in Pids : q # p => groups'[q] = groups[q]
      BY <1>t, <3>1, Zenon
    <3> QED
      BY <1>t, <2>1, <3>1, <3>2, <3>3, GroupKeepsInvariant, Zenon DEF Alive, LeaderLives
  <2>4. CASE LeaderExits(p)
    <3> DEFINE h == [groups[p] EXCEPT !.leader = "zombie", !.report = "eof"]
    <3>1. groups' = [groups EXCEPT ![p] = h] /\ LeaderLives(groups[p])
      BY <2>4, Zenon DEF LeaderExits
    <3>2. /\ h.owner = groups[p].owner
          /\ h.leader = "zombie"
          /\ h.helpers = groups[p].helpers
          /\ h.killed = groups[p].killed
      BY <2>1, Zenon DEF Group
    <3> HIDE DEF h
    <3>3. groups'[p] = h /\ \A q \in Pids : q # p => groups'[q] = groups[q]
      BY <1>t, <3>1, Zenon
    <3> QED
      BY <1>t, <2>1, <3>1, <3>2, <3>3, GroupKeepsInvariant, Zenon DEF Alive, LeaderLives
  <2>5. CASE ForkHelper(p)
    <3> DEFINE h == [groups[p] EXCEPT !.helpers = TRUE]
    <3>1. groups' = [groups EXCEPT ![p] = h] /\ groups[p].leader = "running"
      BY <2>5, Zenon DEF ForkHelper
    <3>2. /\ h.owner = groups[p].owner
          /\ h.leader = groups[p].leader
          /\ h.killed = groups[p].killed
      BY <2>1, Zenon DEF Group
    <3> HIDE DEF h
    <3>3. groups'[p] = h /\ \A q \in Pids : q # p => groups'[q] = groups[q]
      BY <1>t, <3>1, Zenon
    <3> QED
      BY <1>t, <2>1, <3>1, <3>2, <3>3, GroupKeepsInvariant, Zenon DEF Alive, LeaderLives
  <2>6. CASE Wedge(p)
    <3> DEFINE h == [groups[p] EXCEPT !.wedged = TRUE]
    <3>1. groups' = [groups EXCEPT ![p] = h] /\ groups[p].leader = "running"
      BY <2>6, Zenon DEF Wedge
    <3>2. /\ h.owner = groups[p].owner
          /\ h.leader = groups[p].leader
          /\ h.helpers = groups[p].helpers
          /\ h.killed = groups[p].killed
      BY <2>1, Zenon DEF Group
    <3> HIDE DEF h
    <3>3. groups'[p] = h /\ \A q \in Pids : q # p => groups'[q] = groups[q]
      BY <1>t, <3>1, Zenon
    <3> QED
      BY <1>t, <2>1, <3>1, <3>2, <3>3, GroupKeepsInvariant, Zenon DEF Alive, LeaderLives
  <2>7. CASE Unwedge(p)
    <3> DEFINE h == [groups[p] EXCEPT !.wedged = FALSE]
    <3>1. groups' = [groups EXCEPT ![p] = h] /\ groups[p].leader = "running"
      BY <2>7, Zenon DEF Unwedge
    <3>2. /\ h.owner = groups[p].owner
          /\ h.leader = groups[p].leader
          /\ h.helpers = groups[p].helpers
          /\ h.killed = groups[p].killed
      BY <2>1, Zenon DEF Group
    <3> HIDE DEF h
    <3>3. groups'[p] = h /\ \A q \in Pids : q # p => groups'[q] = groups[q]
      BY <1>t, <3>1, Zenon
    <3> QED
      BY <1>t, <2>1, <3>1, <3>2, <3>3, GroupKeepsInvariant, Zenon DEF Alive, LeaderLives
  <2> QED
    BY <1>22, <2>2, <2>3, <2>4, <2>5, <2>6, <2>7, Zenon
<1>23. ASSUME NEW p \in Pids, HelpersExit(p) PROVE LaunchdInvariant'
  <2> DEFINE h == [groups[p] EXCEPT !.helpers = FALSE]
  <2>1. groups' = [groups EXCEPT ![p] = Settle(h)] /\ UNCHANGED kernelVars
    BY <1>23, Zenon DEF HelpersExit
  <2>2. /\ h \in Group
        /\ h.owner = groups[p].owner
        /\ h.leader = groups[p].leader
        /\ h.killed = groups[p].killed
    <3>1. groups[p] \in Group
      BY <1>t, Zenon
    <3>2. h \in Group
      BY <3>1, GroupUpdates, Zenon
    <3>3. h.owner = groups[p].owner /\ h.leader = groups[p].leader /\ h.killed = groups[p].killed
      BY <3>1, Zenon DEF Group
    <3> HIDE DEF h
    <3> QED
      BY <3>2, <3>3, Zenon
  <2>3. ~h.helpers
    <3>1. groups[p] \in Group
      BY <1>t, Zenon
    <3> QED
      BY <3>1, Zenon DEF Group
  <2> HIDE DEF h
  <2>4. /\ Alive(h) => Alive(groups[p])
        /\ h.leader # "reaped" => Settle(h) = h
        /\ Alive(Settle(h)) => Settle(h) = h
    BY <2>2, <2>3, SettleGroup, Zenon DEF Alive, LeaderLives
  <2>5. groups'[p] = Settle(h) /\ \A q \in Pids : q # p => groups'[q] = groups[q]
    BY <1>t, <2>1, Zenon
  <2> QED
    BY <1>t, <2>1, <2>2, <2>4, <2>5, GroupKeepsInvariant, Zenon
<1>24. ASSUME NEW p \in Pids, ReapForever(p) PROVE LaunchdInvariant'
  <2> DEFINE h == [groups[p] EXCEPT !.leader = "reaped"]
  <2>1. /\ groups' = [groups EXCEPT ![p] = Settle(h)]
        /\ UNCHANGED kernelVars
        /\ loaded = {}
        /\ \A l \in Labels : jobs[l].pid = NoPid
    BY <1>24, Zenon DEF ReapForever, LaunchdInvariant, OwnProcesses
  <2>2. /\ h \in Group
        /\ h.leader = "reaped"
        /\ h.helpers = groups[p].helpers
        /\ h.killed = groups[p].killed
    <3>1. groups[p] \in Group
      BY <1>t, Zenon
    <3>2. h \in Group
      BY <3>1, GroupUpdates, Zenon
    <3>3. h.leader = "reaped" /\ h.helpers = groups[p].helpers /\ h.killed = groups[p].killed
      BY <3>1, Zenon DEF Group
    <3> HIDE DEF h
    <3> QED
      BY <3>2, <3>3, Zenon
  <2> HIDE DEF h
  <2>3. /\ \A q \in Pids : q # p => groups'[q] = groups[q]
        /\ Alive(groups'[p]) => groups'[p] = h /\ Alive(groups[p])
    BY SMTT(30), <1>t, <2>1, <2>2, SettleGroup DEF Alive, LeaderLives
  <2>4. NoLostProcess'
    BY SMTT(30), <2>1, <2>2, <2>3 DEF LaunchdInvariant, NoLostProcess
  <2>5. OwnProcesses' /\ OnlyWantedJobsAreDue' /\ StateMatchesProcess'
    BY SMTT(30), <2>1 DEF OwnProcesses, OnlyWantedJobsAreDue, StateMatchesProcess
  <2> QED
    BY <1>t, <2>1, <2>4, <2>5, Zenon DEF LaunchdInvariant
<1>25. ASSUME NEW x \in Names, Connect(x) PROVE LaunchdInvariant'
  BY SMTT(30), <1>25, <1>t DEF Connect, LaunchdInvariant, OwnProcesses, NoLostProcess,
                     OnlyWantedJobsAreDue, StateMatchesProcess
<1>26. ASSUME NEW l \in Labels, Accept(l) PROVE LaunchdInvariant'
  BY SMTT(30), <1>26, <1>t DEF Accept, LaunchdInvariant, OwnProcesses, NoLostProcess,
                     OnlyWantedJobsAreDue, StateMatchesProcess
<1>27. CASE ClockTick
  <2>1. UNCHANGED <<phase, loaded, shuttingDown>>
    BY <1>27, Zenon DEF ClockTick
  <2>2. \A l \in Labels : /\ jobs'[l].pid = jobs[l].pid
                          /\ jobs'[l].state = jobs[l].state
                          /\ jobs'[l].enabled = jobs[l].enabled
                          /\ jobs'[l].remove = jobs[l].remove
                          /\ jobs'[l].killed = jobs[l].killed
    <3> SUFFICES ASSUME NEW l \in Labels
                 PROVE  /\ jobs'[l].pid = jobs[l].pid
                        /\ jobs'[l].state = jobs[l].state
                        /\ jobs'[l].enabled = jobs[l].enabled
                        /\ jobs'[l].remove = jobs[l].remove
                        /\ jobs'[l].killed = jobs[l].killed
      BY Zenon
    <3>1. jobs'[l] = [jobs[l] EXCEPT !.wait = Down(@), !.stopLeft = Down(@), !.killLeft = Down(@)]
      BY <1>27, Zenon DEF ClockTick
    <3> QED
      BY <1>t, <3>1 DEF Job
  <2>3. \A p \in Pids : /\ groups'[p].owner = groups[p].owner
                        /\ groups'[p].leader = groups[p].leader
                        /\ groups'[p].helpers = groups[p].helpers
                        /\ groups'[p].killed = groups[p].killed
    <3> SUFFICES ASSUME NEW p \in Pids
                 PROVE  /\ groups'[p].owner = groups[p].owner
                        /\ groups'[p].leader = groups[p].leader
                        /\ groups'[p].helpers = groups[p].helpers
                        /\ groups'[p].killed = groups[p].killed
      BY Zenon
    <3>1. groups'[p] = [groups[p] EXCEPT !.grace = Down(@)]
      BY <1>27, Zenon DEF ClockTick
    <3> QED
      BY <1>t, <3>1, Zenon DEF Group
  <2>4. OnlyWantedJobsAreDue' /\ StateMatchesProcess'
    BY <1>t, <2>1, <2>2 DEF LaunchdInvariant, OnlyWantedJobsAreDue, StateMatchesProcess
  <2> QED
    BY Zenon, <1>t, <2>1, <2>2, <2>3, <2>4, SameProcesses DEF LaunchdInvariant
<1> QED
  BY SMTT(30), <1>1, <1>2, <1>3, <1>4, <1>5, <1>6, <1>7, <1>8, <1>9, <1>10, <1>11, <1>12, <1>13,
     <1>14, <1>15, <1>16, <1>17, <1>18, <1>19, <1>20, <1>21, <1>22, <1>23, <1>24, <1>25,
     <1>26, <1>27
  DEF Next, Loop, TickJob, Handle, Emergency, Kernel

-----------------------------------------------------------------------------
(* Time: how long a job has waited, and how long its processes were given. *)

\* The operations on a job leave the time of the last attempt alone, and only
\* the first stop() of a process sets a deadline.
LEMMA JobTimes ==
    ASSUME NEW j \in Job
    PROVE  /\ Stopped(j).wait = j.wait
           /\ Exited(j).wait = j.wait
           /\ Drained(j).wait = j.wait
           /\ Drained(j).stopLeft = j.stopLeft
           /\ Stopped(j).stopLeft = IF j.pid = NoPid \/ j.state = "stopping" THEN j.stopLeft
                                    ELSE Plist[j.file].exitTimeout
  BY Zenon DEF Stopped, Exited, Drained, Job

\* lastAttempt + throttle is not before the time at which ThrottleInterval has
\* passed since the last attempt.
ThrottleInvariant ==
    \A l \in loaded : age[l] + jobs[l].wait >= config(l).throttle

\* Every step keeps the time left until the next attempt long enough.
LEMMA ThrottleStep ==
    ASSUME LaunchdInvariant, ThrottleInvariant, Next
    PROVE  ThrottleInvariant'
<1> USE DEF loopVars, jobVars, ioVars, kernelVars
<1>t. /\ TypeOK
      /\ jobs \in [Labels -> Job]
      /\ loaded \subseteq Labels
      /\ age \in [Labels -> Nat]
      /\ \A l \in loaded : jobs[l].file \in Files /\ config(l).throttle \in Nat
  BY LoadedConfig, Zenon DEF LaunchdInvariant, TypeOK, Config
<1> SUFFICES ASSUME NEW l \in loaded'
             PROVE  age'[l] + jobs'[l].wait >= Plist[jobs'[l].file].throttle
  BY Zenon DEF ThrottleInvariant, config
<1>k. ASSUME l \in loaded, age'[l] = age[l], jobs'[l].wait = jobs[l].wait,
             jobs'[l].file = jobs[l].file
      PROVE  age'[l] + jobs'[l].wait >= Plist[jobs'[l].file].throttle
  BY <1>k, Zenon DEF ThrottleInvariant, config
<1>1. CASE UNCHANGED <<loaded, jobs, age>>
  BY <1>1, <1>k, Zenon
<1>2. ASSUME NEW f \in Files, load(f) \/ loadFails(f) \/ loadRefused(f)
      PROVE  age'[l] + jobs'[l].wait >= Plist[jobs'[l].file].throttle
  <2>1. CASE load(f) /\ l = Plist[f].label
    <3>1. jobs'[l] = NewJob(f) /\ age'[l] = Plist[f].throttle /\ Plist[f].throttle \in Nat
      BY <1>t, <2>1, LaunchdAssumption, Zenon DEF load, Config
    <3> QED
      BY <3>1 DEF NewJob, Blank
  <2>2. CASE ~(load(f) /\ l = Plist[f].label)
    BY <1>t, <1>2, <1>k, <2>2, Zenon DEF load, loadFails, loadRefused
  <2> QED
    BY <2>1, <2>2, Zenon
<1>3. CASE LoadDirectories
  <2>1. Head(startup) \in Files
    BY <1>3, <1>t DEF LoadDirectories, TypeOK
  <2> QED
    BY <1>2, <1>3, <2>1, Zenon DEF LoadDirectories
<1>4. ASSUME NEW p \in Pids, Reap(p)
      PROVE  age'[l] + jobs'[l].wait >= Plist[jobs'[l].file].throttle
  <2>1. l \in loaded /\ age' = age /\ (jobs'[l] = jobs[l] \/ jobs'[l] = Exited(jobs[l]))
    BY <1>t, <1>4, Zenon DEF Reap
  <2>2. jobs[l] \in Job
    BY <1>t, <2>1, Zenon
  <2>3. jobs'[l].wait = jobs[l].wait /\ jobs'[l].file = jobs[l].file
    BY <2>1, <2>2, JobTimes, ExitedJob, Zenon
  <2> QED
    BY <1>k, <2>1, <2>3, Zenon
<1>5. ASSUME NEW k \in Labels, TickErase(k)
      PROVE  age'[l] + jobs'[l].wait >= Plist[jobs'[l].file].throttle
  BY <1>t, <1>5, <1>k, Zenon DEF TickErase, Visit, Erased
<1>6. ASSUME NEW k \in Labels, TickKill(k) \/ TickSimulateExit(k) \/ TickDrain(k)
      PROVE  age'[l] + jobs'[l].wait >= Plist[jobs'[l].file].throttle
  <2>1. CASE l # k
    BY <1>t, <1>6, <1>k, <2>1, Zenon DEF TickKill, TickSimulateExit, TickDrain
  <2>2. CASE l = k
    <3> DEFINE d == Drained(jobs[l])
    <3>1. l \in loaded /\ age' = age /\ jobs[l] \in Job
      BY <1>t, <1>6, <2>2, Zenon DEF TickKill, TickSimulateExit, TickDrain
    <3>2. d \in Job /\ d.wait = jobs[l].wait /\ d.file = jobs[l].file
      BY <3>1, DrainedJob, JobTimes, Zenon
    <3>3. Exited(jobs[l]).wait = jobs[l].wait /\ Exited(jobs[l]).file = jobs[l].file
      BY <3>1, ExitedJob, JobTimes, Zenon
    <3>4. \/ jobs'[l] = [d EXCEPT !.killed = TRUE, !.killLeft = KillTimer]
          \/ jobs'[l] = Exited(jobs[l])
          \/ jobs'[l] = d
      BY <1>t, <1>6, <2>2, <3>1, Zenon DEF TickKill, TickSimulateExit, TickDrain
    <3> HIDE DEF d
    <3>5. jobs'[l].wait = jobs[l].wait /\ jobs'[l].file = jobs[l].file
      BY <3>2, <3>3, <3>4, Zenon DEF Job
    <3> QED
      BY <1>k, <3>1, <3>5, Zenon
  <2> QED
    BY <2>1, <2>2, Zenon
<1>7. ASSUME NEW k \in Labels, TickSpawn(k) \/ TickSpawnFails(k)
      PROVE  age'[l] + jobs'[l].wait >= Plist[jobs'[l].file].throttle
  <2>1. CASE l # k
    BY <1>t, <1>7, <1>k, <2>1, Zenon DEF TickSpawn, TickSpawnFails
  <2>2. CASE l = k
    <3>1. l \in loaded /\ age'[l] = 0 /\ jobs[l] \in Job
      BY <1>t, <1>7, <2>2, Zenon DEF TickSpawn, TickSpawnFails
    <3>2. \/ \E p \in Pids :
                jobs'[l] = [jobs[l] EXCEPT !.pid = p, !.state = "launching", !.setup = TRUE,
                                           !.killed = FALSE, !.wait = config(l).throttle]
          \/ \E s \in States :
                jobs'[l] = [jobs[l] EXCEPT !.wait = config(l).throttle, !.state = s]
      BY <1>t, <1>7, <2>2, Zenon DEF TickSpawn, TickSpawnFails, States
    <3>3. jobs'[l].wait = config(l).throttle /\ jobs'[l].file = jobs[l].file
      BY <3>1, <3>2, Zenon DEF Job
    <3> QED
      BY <1>t, <3>1, <3>3 DEF config
  <2> QED
    BY <2>1, <2>2, Zenon
<1>8. ASSUME CollectGarbage
      PROVE  age'[l] + jobs'[l].wait >= Plist[jobs'[l].file].throttle
  <2>1. /\ l \in loaded
        /\ jobs[l].pid # NoPid
        /\ jobs'[l] = Stopped(jobs[l])
        /\ jobs'[l].file = jobs[l].file
    BY <1>t, <1>8, CollectTypes, Zenon
  <2>2. age'[l] = age[l]
    BY <1>t, <1>8, <2>1, Zenon DEF CollectGarbage, Erased
  <2>3. jobs'[l].wait = jobs[l].wait
    BY <1>t, <2>1, JobTimes, Zenon
  <2> QED
    BY <1>k, <2>1, <2>2, <2>3, Zenon
<1>9. CASE FinishShutdown \/ EmergencyDone
  BY <1>9, Zenon DEF FinishShutdown, EmergencyDone, Erased
<1>10. ASSUME NEW e \in batch, Handle(e)
       PROVE  age'[l] + jobs'[l].wait >= Plist[jobs'[l].file].throttle
  <2>1. CASE Shutdown(e)
    BY <1>1, <1>8, <2>1, Zenon DEF Shutdown
  <2>2. CASE Load(e)
    BY <1>2, <1>t, <2>2, EventArguments, Zenon DEF Load
  <2>3. CASE Activate(e) \/ Start(e)
    <3>1. l \in loaded /\ age' = age
      BY <2>3, Zenon DEF Activate, Start
    <3>2. CASE Activate(e)
      <4>1. jobs'[l] = jobs[l] \/ jobs'[l] = [jobs[l] EXCEPT !.state = "waiting"]
        BY <1>t, <3>1, <3>2, Zenon DEF Activate
      <4> QED
        BY <1>t, <1>k, <3>1, <4>1, Zenon DEF Job
    <3>3. CASE Start(e)
      <4> DEFINE s == IF jobs[l].pid = NoPid THEN "waiting" ELSE jobs[l].state
      <4>1. jobs'[l] = jobs[l] \/ jobs'[l] = [jobs[l] EXCEPT !.enabled = TRUE, !.state = s]
        BY <1>t, <3>1, <3>3, Zenon DEF Start
      <4> HIDE DEF s
      <4> QED
        BY <1>t, <1>k, <3>1, <4>1, Zenon DEF Job
    <3> QED
      BY <2>3, <3>2, <3>3, Zenon
  <2>4. CASE Stop(e)
    <3> DEFINE d == Stopped(jobs[l])
    <3>1. /\ l \in loaded
          /\ age' = age
          /\ jobs'[l] = IF l = e.arg THEN [d EXCEPT !.remove = @ \/ e.op = "unload"]
                        ELSE jobs[l]
      BY <1>t, <2>4, Zenon DEF Stop
    <3>2. d \in Job /\ d.wait = jobs[l].wait /\ d.file = jobs[l].file
      BY <1>t, <3>1, StoppedJob, JobTimes, Zenon
    <3> HIDE DEF d
    <3>3. jobs'[l].wait = jobs[l].wait /\ jobs'[l].file = jobs[l].file
      BY <3>1, <3>2, Zenon DEF Job
    <3> QED
      BY <1>k, <3>1, <3>3, Zenon
  <2>5. CASE SetOverride(e) \/ Refuse(e)
    BY <1>1, <2>5, Zenon DEF SetOverride, Refuse
  <2> QED
    BY <1>10, <2>1, <2>2, <2>3, <2>4, <2>5, Zenon DEF Handle
<1>11. ASSUME NEW k \in Labels, EmergencyReap(k)
       PROVE  age'[l] + jobs'[l].wait >= Plist[jobs'[l].file].throttle
  BY <1>t, <1>k, <1>11, Zenon DEF EmergencyReap, Job
<1>12. CASE ClockTick
  <2>1. /\ l \in loaded
        /\ jobs[l] \in Job
        /\ jobs'[l] = [jobs[l] EXCEPT !.wait = Down(@), !.stopLeft = Down(@), !.killLeft = Down(@)]
        /\ age'[l] = IF age[l] < config(l).throttle THEN age[l] + 1 ELSE age[l]
    BY <1>t, <1>12, Zenon DEF ClockTick
  <2>2. jobs'[l].wait = Down(jobs[l].wait) /\ jobs'[l].file = jobs[l].file /\ jobs[l].wait \in Nat
    BY <2>1, Zenon DEF Job
  <2>3. age[l] + jobs[l].wait >= config(l).throttle /\ config(l).throttle \in Nat /\ age[l] \in Nat
    BY <1>t, <2>1, Zenon DEF ThrottleInvariant
  <2> QED
    BY <2>1, <2>2, <2>3 DEF Down, config
<1>13. CASE Run \/ ReapDone \/ Arm \/ Kevent \/ EventsDone \/ LoopFails \/ Ended
  BY <1>1, <1>13, Zenon DEF Run, ReapDone, Arm, Kevent, EventsDone, LoopFails, Ended, vars
<1>14. ASSUME NEW k \in Labels, TickSkip(k) \/ Accept(k)
       PROVE  age'[l] + jobs'[l].wait >= Plist[jobs'[l].file].throttle
  BY <1>1, <1>14, Zenon DEF TickSkip, Accept
<1>15. ASSUME NEW p \in Pids,
              \/ Exec(p) \/ ChildFailure(p) \/ LeaderExits(p) \/ ForkHelper(p)
              \/ HelpersExit(p) \/ Wedge(p) \/ Unwedge(p) \/ ReapForever(p)
       PROVE  age'[l] + jobs'[l].wait >= Plist[jobs'[l].file].throttle
  BY <1>1, <1>15, Zenon DEF Exec, ChildFailure, LeaderExits, ForkHelper, HelpersExit, Wedge,
                     Unwedge, ReapForever
<1>16. ASSUME NEW x \in Names, Connect(x)
       PROVE  age'[l] + jobs'[l].wait >= Plist[jobs'[l].file].throttle
  BY <1>1, <1>16, Zenon DEF Connect
<1>17. CASE Collect
  BY <1>8, <1>17, Zenon DEF Collect
<1> QED
  BY <1>3, <1>4, <1>5, <1>6, <1>7, <1>9, <1>10, <1>11, <1>12, <1>13, <1>14, <1>15, <1>16,
     <1>17, Zenon
  DEF Next, Loop, TickJob, Emergency, Kernel

\* Signals change no more of a group's time than SIGTERM's first arrival does.
LEMMA GroupTimes ==
    ASSUME NEW g \in Group, NEW n \in Nat
    PROVE  /\ Sigkill(g).grace = g.grace
           /\ Sigterm(g, n).grace = IF Alive(g) /\ g.grace = -1 THEN n ELSE g.grace
  BY Zenon DEF Sigkill, Sigterm, Group

\* A job that was not told to stop has a group that was sent no SIGTERM; the
\* group of a stopping job was sent one, and will have had its ExitTimeOut by
\* the job's deadline.
GivenTime(j, g) ==
    /\ j.state # "stopping" => g.grace = -1
    /\ j.state = "stopping" /\ LeaderLives(g) => g.grace \in 0..j.stopLeft

GraceInvariant ==
    \A l \in loaded : jobs[l].pid # NoPid => GivenTime(jobs[l], groups[jobs[l].pid])

\* What a job and its group were given does not depend on anything else.
LEMMA GivenTimeKept ==
    ASSUME NEW j, NEW g, NEW k, NEW h, GivenTime(j, g),
           k.state = "stopping" <=> j.state = "stopping",
           k.stopLeft = j.stopLeft, h.grace = g.grace,
           LeaderLives(h) => LeaderLives(g)
    PROVE  GivenTime(k, h)
  BY Zenon DEF GivenTime

\* No two jobs hold the same process ID.
LEMMA OneHolder ==
    ASSUME LaunchdInvariant
    PROVE  /\ \A l \in Labels : jobs[l].pid # NoPid => l \in loaded /\ jobs[l].pid \in Pids
           /\ \A l, k \in Labels : jobs[l].pid # NoPid /\ jobs[l].pid = jobs[k].pid => l = k
  BY SMTT(30) DEF Job, LaunchdInvariant, OwnProcesses, TypeOK

\* stop() gives a group its ExitTimeOut once, and touches no other job's group.
LEMMA StopGivesTime ==
    ASSUME LaunchdInvariant, GraceInvariant, NEW S \in SUBSET loaded, NEW l \in loaded,
           jobs[l].pid # NoPid
    PROVE  /\ l \in S => GivenTime(Stopped(jobs[l]), Terminated(S)[jobs[l].pid])
           /\ l \notin S => Terminated(S)[jobs[l].pid] = groups[jobs[l].pid]
<1> DEFINE p == jobs[l].pid
           hit == {k \in S : jobs[k].pid = p /\ jobs[k].state # "stopping"}
<1>1. /\ TypeOK
      /\ l \in Labels
      /\ loaded \subseteq Labels
      /\ p \in Pids
      /\ groups[p] \in Group
      /\ jobs[l] \in Job
      /\ jobs[l].file \in Files
      /\ config(l).exitTimeout \in Nat
  BY OneHolder, LoadedConfig, Zenon DEF LaunchdInvariant, TypeOK, Config
<1>2. Terminated(S)[p] = IF hit = {} THEN groups[p]
                         ELSE Sigterm(groups[p], config(CHOOSE k \in hit : TRUE).exitTimeout)
  BY <1>1, Zenon DEF Terminated
<1>3. hit \subseteq {l}
  BY <1>1, OneHolder, Zenon
<1>4. GivenTime(jobs[l], groups[p])
  BY Zenon DEF GraceInvariant
<1>5. CASE l \notin S
  BY <1>2, <1>3, <1>5, Zenon
<1>6. CASE l \in S /\ jobs[l].state = "stopping"
  <2>1. hit = {}
    BY <1>3, <1>6, Zenon
  <2>2. Stopped(jobs[l]).state = "stopping" /\ Stopped(jobs[l]).stopLeft = jobs[l].stopLeft
    BY <1>1, <1>6, StoppedJob, JobTimes, Zenon
  <2> QED
    BY <1>2, <1>4, <1>6, <2>1, <2>2, Zenon DEF GivenTime
<1>7. CASE l \in S /\ jobs[l].state # "stopping"
  <2>1. hit = {l}
    BY <1>3, <1>7, Zenon
  <2>2. Terminated(S)[p] = Sigterm(groups[p], config(l).exitTimeout)
    <3>1. (CHOOSE k \in hit : TRUE) = l
      BY <2>1, Zenon
    <3> QED
      BY <1>2, <2>1, <3>1, Zenon
  <2>3. groups[p].grace = -1
    BY <1>4, <1>7, Zenon DEF GivenTime
  <2>4. /\ Stopped(jobs[l]).state = "stopping"
        /\ Stopped(jobs[l]).stopLeft = config(l).exitTimeout
    BY <1>1, <1>7, StoppedJob, JobTimes, Zenon DEF config
  <2>5. /\ Sigterm(groups[p], config(l).exitTimeout).grace =
              IF Alive(groups[p]) THEN config(l).exitTimeout ELSE -1
        /\ Sigterm(groups[p], config(l).exitTimeout).leader = groups[p].leader
    BY <1>1, <2>3, SigtermGroup, GroupTimes, Zenon
  <2>6. /\ Terminated(S)[p].grace = IF Alive(groups[p]) THEN config(l).exitTimeout ELSE -1
        /\ LeaderLives(Terminated(S)[p]) => Alive(groups[p])
    BY <2>2, <2>5, Zenon DEF Alive, LeaderLives
  <2>7. GivenTime(Stopped(jobs[l]), Terminated(S)[p])
    BY <1>1, <2>4, <2>6 DEF GivenTime
  <2> QED
    BY <1>7, <2>7, Zenon
<1> QED
  BY <1>5, <1>6, <1>7, Zenon

\* Every step leaves each stopping group the time it was given.
LEMMA GraceStep ==
    ASSUME LaunchdInvariant, GraceInvariant, Next
    PROVE  GraceInvariant'
<1> USE DEF loopVars, jobVars, ioVars, kernelVars
<1>t. /\ TypeOK
      /\ jobs \in [Labels -> Job]
      /\ groups \in [Pids -> Group]
      /\ loaded \subseteq Labels
      /\ \A l \in loaded : jobs[l].file \in Files
  BY Zenon DEF LaunchdInvariant, TypeOK
<1> SUFFICES ASSUME NEW l \in loaded', jobs'[l].pid # NoPid
             PROVE  GivenTime(jobs'[l], groups'[jobs'[l].pid])
  BY Zenon DEF GraceInvariant
<1> DEFINE p == jobs[l].pid
           Goal == GivenTime(jobs'[l], groups'[jobs'[l].pid])
<1>p. l \in loaded /\ p # NoPid => /\ p \in Pids
                                   /\ GivenTime(jobs[l], groups[p])
                                   /\ groups[p].owner = l
                                   /\ groups[p].leader # "reaped"
                                   /\ \A k \in Labels : k # l => jobs[k].pid # p
  BY <1>t, OneHolder, Zenon DEF GraceInvariant, LaunchdInvariant, OwnProcesses
<1>k. ASSUME l \in loaded, jobs'[l].pid = p,
             jobs'[l].state = "stopping" <=> jobs[l].state = "stopping",
             jobs'[l].stopLeft = jobs[l].stopLeft, groups'[p].grace = groups[p].grace,
             LeaderLives(groups'[p]) => LeaderLives(groups[p])
      PROVE  Goal
  BY <1>k, <1>p, GivenTimeKept
<1>s. ASSUME l \in loaded, jobs'[l] = jobs[l], groups'[p] = groups[p]
      PROVE  Goal
  BY <1>k, <1>s, Zenon
<1> SUFFICES Goal
  BY Zenon
<1> HIDE DEF Goal
<1>1. CASE UNCHANGED <<loaded, jobs, groups>>
  BY <1>1, <1>s, Zenon
<1>2. ASSUME NEW f \in Files, load(f) \/ loadFails(f) \/ loadRefused(f), UNCHANGED groups
      PROVE  Goal
  <2>1. CASE load(f) /\ l = Plist[f].label
    <3>1. jobs'[l] = NewJob(f)
      BY <1>t, <2>1, LaunchdAssumption, Zenon DEF load, Config
    <3> QED
      BY <3>1, Zenon DEF NewJob, Blank
  <2>2. CASE ~(load(f) /\ l = Plist[f].label)
    BY <1>t, <1>2, <1>s, <2>2, Zenon DEF load, loadFails, loadRefused
  <2> QED
    BY <2>1, <2>2, Zenon
<1>3. CASE LoadDirectories
  <2>1. Head(startup) \in Files
    BY <1>3, <1>t DEF LoadDirectories, TypeOK
  <2> QED
    BY <1>2, <1>3, <2>1, Zenon DEF LoadDirectories
<1>4. ASSUME NEW q \in Pids, Reap(q) PROVE Goal
  <2>1. l \in loaded
    BY <1>4, Zenon DEF Reap
  <2>2. CASE p = q
    <3>1. jobs'[l] = Exited(jobs[l])
      BY <1>t, <1>4, <2>1, <2>2, Zenon DEF Reap
    <3> QED
      BY <1>t, <2>1, <3>1, ExitedJob
  <2>3. CASE p # q
    <3>1. jobs'[l] = jobs[l]
      BY <1>t, <1>4, <2>1, <2>3, Zenon DEF Reap
    <3>2. groups'[p] = groups[p]
      BY <1>t, <1>p, <1>4, <2>1, <2>3, <3>1, Zenon DEF Reap
    <3> QED
      BY <1>s, <2>1, <3>1, <3>2, Zenon
  <2> QED
    BY <2>2, <2>3, Zenon
<1>5. ASSUME NEW k \in Labels, TickErase(k) PROVE Goal
  BY <1>t, <1>5, <1>s, Zenon DEF TickErase, Visit, Erased
<1>6. ASSUME NEW k \in Labels, TickKill(k) PROVE Goal
  <2>1. l \in loaded /\ k \in loaded /\ jobs[k].pid # NoPid
    BY <1>6, <1>t, Zenon DEF TickKill, Visit, TypeOK
  <2>2. CASE l # k
    <3>1. jobs'[l] = jobs[l]
      BY <1>t, <1>6, <2>1, <2>2, Zenon DEF TickKill
    <3>2. groups'[p] = groups[p]
      BY <1>t, <1>p, <1>6, <2>1, <2>2, <3>1, Zenon DEF TickKill
    <3> QED
      BY <1>s, <2>1, <3>1, <3>2, Zenon
  <2>3. CASE l = k
    <3> DEFINE d == Drained(jobs[l])
    <3>1. d \in Job /\ d.pid = p /\ d.stopLeft = jobs[l].stopLeft /\ d.state = "stopping"
      BY <1>t, <1>6, <2>1, <2>3, DrainedJob, JobTimes, Zenon DEF TickKill
    <3>2. jobs'[l] = [d EXCEPT !.killed = TRUE, !.killLeft = KillTimer]
      BY <1>t, <1>6, <2>1, <2>3, Zenon DEF TickKill
    <3>3. jobs[l].state = "stopping" /\ groups'[p] = Sigkill(groups[p]) /\ groups[p] \in Group
      BY <1>t, <1>p, <1>6, <2>1, <2>3, Zenon DEF TickKill
    <3> HIDE DEF d
    <3>4. /\ jobs'[l].pid = p
          /\ jobs'[l].state = "stopping"
          /\ jobs'[l].stopLeft = jobs[l].stopLeft
      BY <3>1, <3>2, Zenon DEF Job
    <3>5. groups'[p].grace = groups[p].grace /\ groups'[p].leader = groups[p].leader
      BY <3>3, SigkillGroup, GroupTimes, Zenon
    <3> QED
      BY <1>k, <2>1, <3>3, <3>4, <3>5, Zenon DEF LeaderLives
  <2> QED
    BY <2>2, <2>3, Zenon
<1>7. ASSUME NEW k \in Labels, TickSimulateExit(k) \/ TickDrain(k) PROVE Goal
  <2>1. l \in loaded /\ groups' = groups
    BY <1>7, Zenon DEF TickSimulateExit, TickDrain
  <2>2. CASE l # k
    BY <1>t, <1>s, <1>7, <2>1, <2>2, Zenon DEF TickSimulateExit, TickDrain
  <2>3. CASE l = k
    <3>1. jobs'[l] = Exited(jobs[l]) \/ jobs'[l] = Drained(jobs[l])
      BY <1>t, <1>7, <2>1, <2>3, Zenon DEF TickSimulateExit, TickDrain
    <3>2. jobs'[l] = Drained(jobs[l])
      BY <1>t, <2>1, <3>1, ExitedJob
    <3>3. /\ jobs'[l].pid = p
          /\ jobs'[l].stopLeft = jobs[l].stopLeft
          /\ jobs'[l].state = "stopping" <=> jobs[l].state = "stopping"
      BY <1>t, <2>1, <3>2, DrainedJob, JobTimes
    <3> QED
      BY <1>k, <2>1, <3>3, Zenon
  <2> QED
    BY <2>2, <2>3, Zenon
<1>8. ASSUME NEW k \in Labels, TickSpawn(k) PROVE Goal
  <2>1. PICK q \in Pids :
           /\ groups[q] = Free
           /\ groups' = [groups EXCEPT ![q] = Forked(k)]
           /\ jobs' = [jobs EXCEPT ![k] =
                          [jobs[k] EXCEPT !.pid = q, !.state = "launching",
                                          !.setup = TRUE, !.killed = FALSE,
                                          !.wait = config(k).throttle]]
    BY <1>8, Zenon DEF TickSpawn
  <2>2. l \in loaded
    BY <1>8, Zenon DEF TickSpawn
  <2>3. CASE l # k
    <3>1. jobs'[l] = jobs[l]
      BY <1>t, <2>1, <2>3
    <3>2. p # q
      BY <1>t, <1>p, <2>1, <2>2, <3>1, LaunchdAssumption DEF Free
    <3>3. groups'[p] = groups[p]
      BY <1>t, <1>p, <2>1, <2>2, <3>1, <3>2, Zenon
    <3> QED
      BY <1>s, <2>2, <3>1, <3>3, Zenon
  <2>4. CASE l = k
    <3>1. jobs'[l].pid = q /\ jobs'[l].state = "launching"
      BY <1>t, <2>1, <2>2, <2>4, Zenon DEF Job
    <3>2. groups'[q].grace = -1
      BY <1>t, <2>1, Zenon DEF Forked, Free
    <3> QED
      BY <3>1, <3>2, Zenon DEF Goal, GivenTime
  <2> QED
    BY <2>3, <2>4, Zenon
<1>9. ASSUME NEW k \in Labels, TickSpawnFails(k) PROVE Goal
  <2>1. l \in loaded /\ groups' = groups /\ jobs[k].pid = NoPid
    BY <1>9, Zenon DEF TickSpawnFails, Due
  <2>2. CASE l # k
    BY <1>t, <1>s, <1>9, <2>1, <2>2, Zenon DEF TickSpawnFails
  <2>3. CASE l = k
    <3>1. jobs'[l].pid = NoPid
      BY <1>t, <1>9, <2>1, <2>3, Zenon DEF TickSpawnFails, Job
    <3> QED
      BY <3>1, Zenon
  <2> QED
    BY <2>2, <2>3, Zenon
<1>10. ASSUME CollectGarbage PROVE Goal
  <2>1. /\ l \in loaded
        /\ p # NoPid
        /\ jobs'[l] = Stopped(jobs[l])
        /\ groups' = Terminated(loaded')
        /\ loaded' \subseteq loaded
    BY <1>t, <1>10, CollectTypes, Zenon
  <2>2. jobs'[l].pid = p
    BY <1>t, <2>1, StoppedJob, Zenon
  <2> QED
    BY <2>1, <2>2, StopGivesTime, Zenon DEF Goal
<1>11. CASE FinishShutdown \/ EmergencyDone
  BY <1>11, Zenon DEF FinishShutdown, EmergencyDone, Erased
<1>12. ASSUME NEW e \in batch, Handle(e) PROVE Goal
  <2>1. CASE Shutdown(e)
    BY <1>1, <1>10, <2>1, Zenon DEF Shutdown
  <2>2. CASE Load(e)
    BY <1>2, <1>t, <2>2, EventArguments, Zenon DEF Load
  <2>3. CASE Activate(e)
    <3>1. l \in loaded /\ groups' = groups
      BY <2>3, Zenon DEF Activate
    <3>2. jobs'[l] = jobs[l] \/ (p = NoPid /\ jobs'[l] = [jobs[l] EXCEPT !.state = "waiting"])
      BY <1>t, <2>3, <3>1, Zenon DEF Activate, activatable
    <3>3. jobs'[l] = jobs[l]
      BY <1>t, <3>1, <3>2, Zenon DEF Job
    <3> QED
      BY <1>s, <3>1, <3>3, Zenon
  <2>4. CASE Start(e)
    <3> DEFINE s == IF jobs[l].pid = NoPid THEN "waiting" ELSE jobs[l].state
    <3>1. l \in loaded /\ groups' = groups
      BY <2>4, Zenon DEF Start
    <3>2. CASE l # e.arg
      BY <1>t, <1>s, <2>4, <3>1, <3>2, Zenon DEF Start
    <3>3. CASE l = e.arg
      <4>1. jobs'[l] = [jobs[l] EXCEPT !.enabled = TRUE, !.state = s]
        BY <1>t, <2>4, <3>1, <3>3, Zenon DEF Start
      <4>2. jobs'[l].pid = p /\ jobs'[l].state = s /\ jobs'[l].stopLeft = jobs[l].stopLeft
        <5> HIDE DEF s
        <5> QED
          BY <1>t, <3>1, <4>1 DEF Job
      <4> QED
        BY <1>k, <3>1, <4>2, Zenon
    <3> QED
      BY <3>2, <3>3, Zenon
  <2>5. CASE Stop(e)
    <3> DEFINE d == Stopped(jobs[l])
    <3>1. l \in loaded /\ e.arg \in loaded /\ groups' = Terminated({e.arg})
      BY <1>t, <2>5, Zenon DEF Stop
    <3>2. CASE l # e.arg
      <4>1. jobs'[l] = jobs[l]
        BY <1>t, <2>5, <3>1, <3>2, Zenon DEF Stop
      <4>2. groups'[p] = groups[p]
        BY <3>1, <3>2, <4>1, StopGivesTime, Zenon
      <4> QED
        BY <1>s, <3>1, <4>1, <4>2, Zenon
    <3>3. CASE l = e.arg
      <4>1. jobs'[l] = [d EXCEPT !.remove = @ \/ e.op = "unload"]
        BY <1>t, <2>5, <3>1, <3>3, Zenon DEF Stop
      <4>2. d \in Job /\ d.pid = p
        BY <1>t, <3>1, StoppedJob, Zenon
      <4>3. /\ jobs'[l].pid = p
            /\ jobs'[l].state = d.state
            /\ jobs'[l].stopLeft = d.stopLeft
        <5> HIDE DEF d
        <5> QED
          BY <4>1, <4>2, Zenon DEF Job
      <4>4. GivenTime(d, groups'[p])
        BY <3>1, <3>3, <4>3, StopGivesTime, Zenon
      <4> HIDE DEF d
      <4> QED
        BY <4>3, <4>4, GivenTimeKept, Zenon DEF Goal
    <3> QED
      BY <3>2, <3>3, Zenon
  <2>6. CASE SetOverride(e) \/ Refuse(e)
    BY <1>1, <2>6, Zenon DEF SetOverride, Refuse
  <2> QED
    BY <1>12, <2>1, <2>2, <2>3, <2>4, <2>5, <2>6, Zenon DEF Handle
<1>13. CASE LoopFails
  <2>1. /\ l \in loaded
        /\ jobs' = jobs
        /\ p \in Pids
        /\ groups[p] \in Group
        /\ groups'[p] = groups[p] \/ groups'[p] = Sigkill(groups[p])
    BY <1>t, <1>p, <1>13, Zenon DEF LoopFails
  <2>2. groups'[p].grace = groups[p].grace /\ groups'[p].leader = groups[p].leader
    BY <2>1, SigkillGroup, GroupTimes, Zenon
  <2> QED
    BY <1>k, <2>1, <2>2, Zenon DEF LeaderLives
<1>14. ASSUME NEW k \in Labels, EmergencyReap(k) PROVE Goal
  <2>1. l \in loaded /\ jobs[k].pid # NoPid /\ k \in loaded
    BY <1>14, Zenon DEF EmergencyReap
  <2>2. l # k
    BY <1>t, <1>14, <2>1, Zenon DEF EmergencyReap, Job
  <2>3. jobs'[l] = jobs[l]
    BY <1>t, <1>14, <2>1, <2>2, Zenon DEF EmergencyReap
  <2>4. groups'[p] = groups[p]
    BY <1>t, <1>p, <1>14, <2>1, <2>2, <2>3, Zenon DEF EmergencyReap
  <2> QED
    BY <1>s, <2>1, <2>3, <2>4, Zenon
<1>15. ASSUME NEW q \in Pids, Exec(q) \/ ChildFailure(q) \/ LeaderExits(q) \/ ForkHelper(q)
                             \/ HelpersExit(q) \/ Wedge(q) \/ Unwedge(q)
       PROVE  Goal
  <2>1. l \in loaded /\ jobs' = jobs /\ p \in Pids
    BY <1>p, <1>15, Zenon DEF Exec, ChildFailure, LeaderExits, ForkHelper, HelpersExit, Wedge, Unwedge
  <2>2. CASE p # q
    <3>1. groups'[p] = groups[p]
      BY <1>t, <1>15, <2>1, <2>2, Zenon
      DEF Exec, ChildFailure, LeaderExits, ForkHelper, HelpersExit, Wedge, Unwedge
    <3> QED
      BY <1>s, <2>1, <3>1, Zenon
  <2>3. CASE p = q
    <3>1. groups[p] \in Group /\ groups[p].leader # "reaped" /\ p # NoPid
      BY <1>t, <1>p, <2>1, Zenon
    <3>2. CASE HelpersExit(q)
      <4> DEFINE h == [groups[p] EXCEPT !.helpers = FALSE]
      <4>1. groups'[p] = Settle(h)
        BY <1>t, <2>1, <2>3, <3>2, Zenon DEF HelpersExit
      <4>2. h.leader = groups[p].leader /\ h.grace = groups[p].grace
        BY <3>1, Zenon DEF Group
      <4> HIDE DEF h
      <4> QED
        BY <1>k, <2>1, <3>1, <4>1, <4>2, Zenon DEF Settle, LeaderLives
    <3>3. CASE ~HelpersExit(q)
      <4>1. \/ /\ LeaderLives(groups[p])
               /\ \/ groups'[p] = [groups[p] EXCEPT !.leader = "running", !.report = "eof"]
                  \/ groups'[p] = [groups[p] EXCEPT !.leader = "zombie", !.report = "errno"]
                  \/ groups'[p] = [groups[p] EXCEPT !.leader = "zombie", !.report = "eof"]
            \/ groups'[p] = [groups[p] EXCEPT !.helpers = TRUE]
            \/ groups'[p] = [groups[p] EXCEPT !.wedged = TRUE]
            \/ groups'[p] = [groups[p] EXCEPT !.wedged = FALSE]
        BY <1>t, <1>15, <2>1, <2>3, <3>3, Zenon
        DEF Exec, ChildFailure, LeaderExits, ForkHelper, Wedge, Unwedge, LeaderLives
      <4>2. /\ groups'[p].grace = groups[p].grace
            /\ groups'[p].leader = groups[p].leader \/ LeaderLives(groups[p])
        BY <3>1, <4>1, Zenon DEF Group
      <4> QED
        BY <1>k, <2>1, <4>2, Zenon DEF LeaderLives
    <3> QED
      BY <3>2, <3>3, Zenon
  <2> QED
    BY <2>2, <2>3, Zenon
<1>16. ASSUME NEW q \in Pids, ReapForever(q) PROVE Goal
  BY <1>16, Zenon DEF ReapForever, LaunchdInvariant
<1>17. CASE ClockTick
  <2>1. /\ l \in loaded
        /\ jobs[l] \in Job
        /\ jobs'[l] = [jobs[l] EXCEPT !.wait = Down(@), !.stopLeft = Down(@), !.killLeft = Down(@)]
    BY <1>t, <1>17, Zenon DEF ClockTick
  <2>2. /\ jobs'[l].pid = p
        /\ jobs'[l].state = jobs[l].state
        /\ jobs'[l].stopLeft = Down(jobs[l].stopLeft)
        /\ jobs[l].stopLeft \in Nat
    BY <2>1, Zenon DEF Job
  <2>3. p \in Pids /\ GivenTime(jobs[l], groups[p]) /\ groups[p] \in Group
    BY <1>t, <1>p, <2>1, <2>2, Zenon
  <2>4. groups'[p] = [groups[p] EXCEPT !.grace = Down(@)]
    BY <1>t, <1>17, <2>3, Zenon DEF ClockTick
  <2>5. /\ groups'[p].grace = Down(groups[p].grace)
        /\ groups'[p].leader = groups[p].leader
        /\ groups[p].grace \in Nat \union {-1}
    BY <2>3, <2>4, Zenon DEF Group
  <2> QED
    BY <2>2, <2>3, <2>5 DEF Goal, GivenTime, Down, LeaderLives
<1>18. CASE Run \/ ReapDone \/ Arm \/ Kevent \/ EventsDone \/ Ended
  BY <1>1, <1>18, Zenon DEF Run, ReapDone, Arm, Kevent, EventsDone, Ended, vars
<1>19. ASSUME NEW k \in Labels, TickSkip(k) \/ Accept(k) PROVE Goal
  BY <1>1, <1>19, Zenon DEF TickSkip, Accept
<1>20. ASSUME NEW x \in Names, Connect(x) PROVE Goal
  BY <1>1, <1>20, Zenon DEF Connect
<1>21. CASE Collect
  BY <1>10, <1>21, Zenon DEF Collect
<1> QED
  BY <1>3, <1>4, <1>5, <1>6, <1>7, <1>8, <1>9, <1>11, <1>12, <1>13, <1>14, <1>15, <1>16,
     <1>17, <1>18, <1>19, <1>20, <1>21, Zenon
  DEF Next, Loop, TickJob, Emergency, Kernel

-----------------------------------------------------------------------------
(* Stages: what the users of launchctl see.                                *)

\* A job that has a process is enabled exactly if it was not told to stop.
EnabledInvariant ==
    \A l \in loaded :
        jobs[l].pid # NoPid => (jobs[l].state = "stopping" <=> ~jobs[l].enabled)

\* Every step keeps that.
LEMMA EnabledStep ==
    ASSUME LaunchdInvariant, EnabledInvariant, Next
    PROVE  EnabledInvariant'
<1> USE DEF loopVars, jobVars, ioVars, kernelVars
<1>t. /\ TypeOK
      /\ jobs \in [Labels -> Job]
      /\ loaded \subseteq Labels
      /\ \A l \in loaded : jobs[l].file \in Files
  BY Zenon DEF LaunchdInvariant, TypeOK
<1> SUFFICES ASSUME NEW l \in loaded', jobs'[l].pid # NoPid
             PROVE  jobs'[l].state = "stopping" <=> ~jobs'[l].enabled
  BY Zenon DEF EnabledInvariant
<1> DEFINE Goal == jobs'[l].state = "stopping" <=> ~jobs'[l].enabled
<1> SUFFICES Goal
  BY Zenon
<1>k. ASSUME l \in loaded, jobs'[l].pid = jobs[l].pid,
             jobs'[l].state = "stopping" <=> jobs[l].state = "stopping",
             jobs'[l].enabled <=> jobs[l].enabled
      PROVE  Goal
  BY <1>k, Zenon DEF EnabledInvariant
<1>s. ASSUME l \in loaded, jobs'[l] = jobs[l]
      PROVE  Goal
  BY <1>k, <1>s, Zenon
<1> HIDE DEF Goal
<1>1. CASE UNCHANGED <<loaded, jobs>>
  BY <1>1, <1>s, Zenon
<1>2. ASSUME NEW f \in Files, load(f) \/ loadFails(f) \/ loadRefused(f)
      PROVE  Goal
  <2>1. CASE load(f) /\ l = Plist[f].label
    <3>1. jobs'[l] = NewJob(f)
      BY <1>t, <2>1, LaunchdAssumption, Zenon DEF load, Config
    <3> QED
      BY <3>1, Zenon DEF NewJob, Blank
  <2>2. CASE ~(load(f) /\ l = Plist[f].label)
    BY <1>t, <1>2, <1>s, <2>2, Zenon DEF load, loadFails, loadRefused
  <2> QED
    BY <2>1, <2>2, Zenon
<1>3. CASE LoadDirectories
  <2>1. Head(startup) \in Files
    BY <1>3, <1>t DEF LoadDirectories, TypeOK
  <2> QED
    BY <1>2, <1>3, <2>1, Zenon DEF LoadDirectories
<1>4. ASSUME NEW q \in Pids, Reap(q) PROVE Goal
  <2>1. l \in loaded /\ (jobs'[l] = jobs[l] \/ jobs'[l] = Exited(jobs[l]))
    BY <1>t, <1>4, Zenon DEF Reap
  <2> QED
    BY <1>t, <1>s, <2>1, ExitedJob
<1>5. ASSUME NEW k \in Labels, TickErase(k) PROVE Goal
  BY <1>t, <1>5, <1>s, Zenon DEF TickErase, Visit, Erased
<1>6. ASSUME NEW k \in Labels, TickKill(k) \/ TickSimulateExit(k) \/ TickDrain(k) PROVE Goal
  <2> DEFINE d == Drained(jobs[l])
  <2>1. l \in loaded
    BY <1>6, Zenon DEF TickKill, TickSimulateExit, TickDrain
  <2>2. \/ jobs'[l] = jobs[l]
        \/ jobs'[l] = [d EXCEPT !.killed = TRUE, !.killLeft = KillTimer]
        \/ jobs'[l] = Exited(jobs[l])
        \/ jobs'[l] = d
    BY <1>t, <1>6, <2>1, Zenon DEF TickKill, TickSimulateExit, TickDrain
  <2>3. /\ d \in Job
        /\ d.pid = jobs[l].pid
        /\ d.enabled = jobs[l].enabled
        /\ d.state = "stopping" <=> jobs[l].state = "stopping"
    BY <1>t, <2>1, DrainedJob, Zenon
  <2>4. Exited(jobs[l]).pid = NoPid
    BY <1>t, <2>1, ExitedJob, Zenon
  <2> HIDE DEF d
  <2>5. /\ jobs'[l].pid = jobs[l].pid
        /\ jobs'[l].enabled = jobs[l].enabled
        /\ jobs'[l].state = "stopping" <=> jobs[l].state = "stopping"
    BY <2>2, <2>3, <2>4, Zenon DEF Job
  <2> QED
    BY <1>k, <2>1, <2>5, Zenon
<1>7. ASSUME NEW k \in Labels, TickSpawn(k) PROVE Goal
  <2>1. /\ l \in loaded
        /\ jobs[k].enabled
        /\ \E p \in Pids :
              jobs' = [jobs EXCEPT ![k] =
                         [jobs[k] EXCEPT !.pid = p, !.state = "launching",
                                         !.setup = TRUE, !.killed = FALSE,
                                         !.wait = config(k).throttle]]
    BY <1>t, <1>7, Zenon DEF TickSpawn, Visit, Due, LaunchdInvariant, OnlyWantedJobsAreDue, TypeOK
  <2>2. CASE l # k
    BY <1>t, <1>s, <2>1, <2>2, Zenon
  <2>3. CASE l = k
    <3>1. jobs'[l].state = "launching" /\ jobs'[l].enabled = jobs[l].enabled
      BY <1>t, <2>1, <2>3, Zenon DEF Job
    <3> QED
      BY <2>1, <2>3, <3>1, Zenon DEF Goal
  <2> QED
    BY <2>2, <2>3, Zenon
<1>8. ASSUME NEW k \in Labels, TickSpawnFails(k) PROVE Goal
  <2>1. l \in loaded /\ jobs[k].pid = NoPid
    BY <1>8, Zenon DEF TickSpawnFails, Due
  <2>2. CASE l # k
    BY <1>t, <1>s, <1>8, <2>1, <2>2, Zenon DEF TickSpawnFails
  <2>3. CASE l = k
    <3>1. jobs'[l].pid = NoPid
      BY <1>t, <1>8, <2>1, <2>3, Zenon DEF TickSpawnFails, Job
    <3> QED
      BY <3>1, Zenon
  <2> QED
    BY <2>2, <2>3, Zenon
<1>9. ASSUME CollectGarbage PROVE Goal
  <2>1. l \in loaded /\ jobs[l].pid # NoPid /\ jobs'[l] = Stopped(jobs[l])
    BY <1>t, <1>9, CollectTypes, Zenon
  <2>2. jobs[l] \in Job /\ jobs[l].file \in Files
    BY <1>t, <2>1, Zenon
  <2>3. Stopped(jobs[l]).state = "stopping" /\ Stopped(jobs[l]).enabled = FALSE
    BY Zenon, <2>1, <2>2, StoppedJob
  <2> QED
    BY <2>1, <2>3, Zenon DEF Goal
<1>10. CASE FinishShutdown \/ EmergencyDone
  BY <1>10, Zenon DEF FinishShutdown, EmergencyDone, Erased
<1>11. ASSUME NEW e \in batch, Handle(e) PROVE Goal
  <2>1. CASE Shutdown(e)
    BY <1>1, <1>9, <2>1, Zenon DEF Shutdown
  <2>2. CASE Load(e)
    BY <1>2, <1>t, <2>2, EventArguments, Zenon DEF Load
  <2>3. CASE Activate(e)
    <3>1. l \in loaded
      BY <2>3, Zenon DEF Activate
    <3>2. \/ jobs'[l] = jobs[l]
          \/ jobs[l].pid = NoPid /\ jobs'[l] = [jobs[l] EXCEPT !.state = "waiting"]
      BY <1>t, <2>3, <3>1, Zenon DEF Activate, activatable
    <3>3. jobs'[l] = jobs[l]
      BY <1>t, <3>1, <3>2, Zenon DEF Job
    <3> QED
      BY <1>s, <3>1, <3>3, Zenon
  <2>4. CASE Start(e)
    <3> DEFINE s == IF jobs[l].pid = NoPid THEN "waiting" ELSE jobs[l].state
    <3>1. l \in loaded /\ jobs[e.arg].state # "stopping"
      BY <2>4, Zenon DEF Start
    <3>2. CASE l # e.arg
      BY <1>t, <1>s, <2>4, <3>1, <3>2, Zenon DEF Start
    <3>3. CASE l = e.arg
      <4>1. jobs'[l] = [jobs[l] EXCEPT !.enabled = TRUE, !.state = s]
        BY <1>t, <2>4, <3>1, <3>3, Zenon DEF Start
      <4>2. jobs'[l].state = s /\ jobs'[l].enabled = TRUE
        <5> HIDE DEF s
        <5> QED
          BY <1>t, <3>1, <4>1, Zenon DEF Job
      <4> QED
        BY <3>1, <3>3, <4>2, Zenon DEF Goal
    <3> QED
      BY <3>2, <3>3, Zenon
  <2>5. CASE Stop(e)
    <3> DEFINE d == Stopped(jobs[l])
    <3>1. l \in loaded
      BY <2>5, Zenon DEF Stop
    <3>2. CASE l # e.arg
      BY <1>t, <1>s, <2>5, <3>1, <3>2, Zenon DEF Stop
    <3>3. CASE l = e.arg
      <4>1. jobs'[l] = [d EXCEPT !.remove = @ \/ e.op = "unload"]
        BY <1>t, <2>5, <3>1, <3>3, Zenon DEF Stop
      <4>2. /\ d \in Job
            /\ d.pid = jobs[l].pid
            /\ d.enabled = FALSE
            /\ d.state = IF jobs[l].pid = NoPid THEN "idle" ELSE "stopping"
        BY <1>t, <3>1, StoppedJob, Zenon
      <4> HIDE DEF d
      <4>3. jobs'[l].pid = d.pid /\ jobs'[l].enabled = d.enabled /\ jobs'[l].state = d.state
        BY <4>1, <4>2, Zenon DEF Job
      <4> QED
        BY <4>2, <4>3, Zenon DEF Goal
    <3> QED
      BY <3>2, <3>3, Zenon
  <2>6. CASE SetOverride(e) \/ Refuse(e)
    BY <1>1, <2>6, Zenon DEF SetOverride, Refuse
  <2> QED
    BY <1>11, <2>1, <2>2, <2>3, <2>4, <2>5, <2>6, Zenon DEF Handle
<1>12. ASSUME NEW k \in Labels, EmergencyReap(k) PROVE Goal
  <2>1. l \in loaded
    BY <1>12, Zenon DEF EmergencyReap
  <2>2. l # k
    BY <1>t, <1>12, <2>1, Zenon DEF EmergencyReap, Job
  <2> QED
    BY <1>t, <1>s, <1>12, <2>1, <2>2, Zenon DEF EmergencyReap
<1>13. CASE ClockTick
  <2>1. /\ l \in loaded
        /\ jobs'[l] = [jobs[l] EXCEPT !.wait = Down(@), !.stopLeft = Down(@), !.killLeft = Down(@)]
    BY <1>t, <1>13, Zenon DEF ClockTick
  <2>2. /\ jobs'[l].pid = jobs[l].pid
        /\ jobs'[l].state = jobs[l].state
        /\ jobs'[l].enabled = jobs[l].enabled
    BY <1>t, <2>1 DEF Job
  <2> QED
    BY <1>k, <2>1, <2>2, Zenon
<1>14. CASE Run \/ ReapDone \/ Arm \/ Kevent \/ EventsDone \/ LoopFails \/ Ended
  BY <1>1, <1>14, Zenon DEF Run, ReapDone, Arm, Kevent, EventsDone, LoopFails, Ended, vars
<1>15. ASSUME NEW k \in Labels, TickSkip(k) \/ Accept(k) PROVE Goal
  BY <1>1, <1>15, Zenon DEF TickSkip, Accept
<1>16. ASSUME NEW p \in Pids,
              \/ Exec(p) \/ ChildFailure(p) \/ LeaderExits(p) \/ ForkHelper(p)
              \/ HelpersExit(p) \/ Wedge(p) \/ Unwedge(p) \/ ReapForever(p)
       PROVE  Goal
  BY <1>1, <1>16, Zenon DEF Exec, ChildFailure, LeaderExits, ForkHelper, HelpersExit, Wedge,
                     Unwedge, ReapForever
<1>17. ASSUME NEW x \in Names, Connect(x) PROVE Goal
  BY <1>1, <1>17, Zenon DEF Connect
<1>18. CASE Collect
  BY <1>9, <1>18, Zenon DEF Collect
<1> QED
  BY <1>3, <1>4, <1>5, <1>6, <1>7, <1>8, <1>10, <1>11, <1>12, <1>13, <1>14, <1>15, <1>16,
     <1>17, <1>18, Zenon
  DEF Next, Loop, TickJob, Emergency, Kernel

-----------------------------------------------------------------------------
(* What one step may do to a process group.                                *)

\* A group changes hands only when it is forked, and a group with a live
\* leader is sent SIGKILL only by escalate() or when the loop failed.
LEMMA GroupStep ==
    ASSUME LaunchdInvariant, Next, NEW p \in Pids
    PROVE  \/ \E l \in Labels : TickSpawn(l) /\ groups'[p] = Forked(l)
           \/ /\ groups'[p].owner \in {groups[p].owner, Nobody}
              /\ groups'[p].killed =>
                    \/ groups[p].killed
                    \/ ~LeaderLives(groups[p])
                    \/ phase' = "emergency"
                    \/ \E l \in Labels : TickKill(l) /\ jobs[l].pid = p
<1> USE DEF loopVars, jobVars, ioVars, kernelVars
<1> DEFINE g == groups[p]
           h == groups'[p]
           Goal == \/ \E l \in Labels : TickSpawn(l) /\ h = Forked(l)
                   \/ /\ h.owner \in {g.owner, Nobody}
                      /\ h.killed => \/ g.killed
                                     \/ ~LeaderLives(g)
                                     \/ phase' = "emergency"
                                     \/ \E l \in Labels : TickKill(l) /\ jobs[l].pid = p
<1>t. /\ TypeOK
      /\ g \in Group
      /\ groups \in [Pids -> Group]
      /\ loaded \subseteq Labels
  BY Zenon DEF LaunchdInvariant, TypeOK
<1>k. ASSUME h.owner \in {g.owner, Nobody}, h.killed => g.killed \/ ~LeaderLives(g)
      PROVE  Goal
  BY <1>k, Zenon
<1>z. ASSUME NEW x \in Group
      PROVE  Settle(x).owner \in {x.owner, Nobody} /\ (Settle(x).killed => x.killed)
  BY Zenon DEF Settle, Free, Group
<1> SUFFICES Goal
  BY Zenon
<1> HIDE DEF Goal
<1>1. CASE UNCHANGED groups
  BY <1>1, <1>k, Zenon
<1>2. ASSUME NEW S \in SUBSET loaded, groups' = Terminated(S)
      PROVE  Goal
  <2>1. h.owner = g.owner /\ h.killed = g.killed
    BY <1>t, <1>2, TerminatedGroups, Zenon
  <2> QED
    BY <1>k, <2>1, Zenon
<1>3. CASE LoadDirectories \/ Run \/ ReapDone \/ Arm \/ Kevent \/ EventsDone \/ EmergencyDone
           \/ ClockTick \/ Ended
  <2>1. CASE ClockTick
    <3>1. h = [g EXCEPT !.grace = Down(@)]
      BY <2>1, Zenon DEF ClockTick
    <3>2. h.owner = g.owner /\ h.killed = g.killed
      BY <1>t, <3>1, Zenon DEF Group
    <3> QED
      BY <1>k, <3>2, Zenon
  <2>2. CASE ~ClockTick
    BY <1>1, <1>3, <2>2, Zenon DEF LoadDirectories, Run, ReapDone, Arm, Kevent, EventsDone,
                           EmergencyDone, Ended, vars
  <2> QED
    BY <2>1, <2>2, Zenon
<1>4. ASSUME NEW q \in Pids, Reap(q) PROVE Goal
  <2>1. CASE p # q
    <3>1. h = g
      BY <1>t, <1>4, <2>1, Zenon DEF Reap
    <3> QED
      BY <1>k, <3>1, Zenon
  <2>2. CASE p = q
    <3> DEFINE m == IF {l \in loaded : jobs[l].pid = p} = {} THEN g ELSE Sigkill(g)
               x == [m EXCEPT !.leader = "reaped"]
    <3>1. h = Settle(x) /\ ~LeaderLives(g)
      BY <1>t, <1>4, <2>2, Zenon DEF Reap, LeaderLives
    <3>2. m \in Group /\ m.owner = g.owner
      BY <1>t, SigkillGroup, Zenon
    <3>3. x \in Group /\ x.owner = g.owner
      <4> HIDE DEF m
      <4>1. x \in Group
        BY <3>2, GroupUpdates, Zenon
      <4>2. x.owner = g.owner
        BY <3>2, Zenon DEF Group
      <4> QED
        BY <4>1, <4>2, Zenon
    <3> HIDE DEF x
    <3> QED
      BY <1>k, <1>z, <3>1, <3>3, Zenon
  <2> QED
    BY <2>1, <2>2, Zenon
<1>5. ASSUME NEW l \in Labels, TickErase(l) \/ TickSimulateExit(l) \/ TickDrain(l)
                              \/ TickSpawnFails(l) \/ TickSkip(l) \/ Accept(l)
      PROVE  Goal
  BY <1>1, <1>5, Zenon DEF TickErase, TickSimulateExit, TickDrain, TickSpawnFails, TickSkip, Accept
<1>6. ASSUME NEW l \in Labels, TickKill(l) PROVE Goal
  <2>1. CASE jobs[l].pid # p
    <3>1. h = g
      BY <1>t, <1>6, <2>1, Zenon DEF TickKill
    <3> QED
      BY <1>k, <3>1, Zenon
  <2>2. CASE jobs[l].pid = p
    <3>1. h = Sigkill(g)
      BY <1>t, <1>6, <2>2, Zenon DEF TickKill
    <3>2. h.owner = g.owner
      BY <1>t, <3>1, SigkillGroup, Zenon
    <3> QED
      BY <1>6, <2>2, <3>2, Zenon DEF Goal
  <2> QED
    BY <2>1, <2>2, Zenon
<1>7. ASSUME NEW l \in Labels, TickSpawn(l) PROVE Goal
  <2>1. PICK q \in Pids : groups' = [groups EXCEPT ![q] = Forked(l)]
    BY <1>7, Zenon DEF TickSpawn
  <2>2. CASE p = q
    BY <1>t, <1>7, <2>1, <2>2, Zenon DEF Goal
  <2>3. CASE p # q
    <3>1. h = g
      BY <1>t, <2>1, <2>3, Zenon
    <3> QED
      BY <1>k, <3>1, Zenon
  <2> QED
    BY <2>2, <2>3, Zenon
<1>8. ASSUME CollectGarbage PROVE Goal
  BY <1>2, <1>8, Zenon DEF CollectGarbage
<1>9. CASE FinishShutdown
  <2> DEFINE s == Sigterm(g, 0)
             x == [s EXCEPT !.leader = "reaped"]
  <2>1. s \in Group /\ s.owner = g.owner /\ s.killed = g.killed
    BY <1>t, SigtermGroup, Zenon
  <2>2. h = g \/ h = s \/ h = Settle(x)
    BY <1>9, Zenon DEF FinishShutdown, Stray
  <2> HIDE DEF s
  <2>3. x \in Group
    BY <2>1, GroupUpdates, Zenon
  <2>4. x.owner = g.owner /\ x.killed = g.killed
    BY <2>1, Zenon DEF Group
  <2> HIDE DEF x
  <2> QED
    BY <1>k, <1>z, <2>1, <2>2, <2>3, <2>4, Zenon
<1>10. ASSUME NEW e \in batch, Handle(e) PROVE Goal
  <2>1. CASE Shutdown(e)
    BY <1>1, <1>8, <2>1, Zenon DEF Shutdown
  <2>2. CASE Stop(e)
    BY <1>2, <2>2, Zenon DEF Stop
  <2>3. CASE ~Shutdown(e) /\ ~Stop(e)
    BY <1>1, <1>10, <2>3, Zenon DEF Handle, Activate, Load, Start, SetOverride, Refuse
  <2> QED
    BY <2>1, <2>2, <2>3, Zenon
<1>11. CASE LoopFails
  <2>1. phase' = "emergency" /\ (h = g \/ h = Sigkill(g))
    BY <1>11, Zenon DEF LoopFails
  <2>2. h.owner = g.owner
    BY <1>t, <2>1, SigkillGroup, Zenon
  <2> QED
    BY <2>1, <2>2, Zenon DEF Goal
<1>12. ASSUME NEW q \in Pids, groups' = [groups EXCEPT ![q] = Settle([@ EXCEPT !.leader = "reaped"])]
       PROVE  Goal
  <2>1. CASE p # q
    <3>1. h = g
      BY <1>t, <1>12, <2>1, Zenon
    <3> QED
      BY <1>k, <3>1, Zenon
  <2>2. CASE p = q
    <3> DEFINE x == [g EXCEPT !.leader = "reaped"]
    <3>1. h = Settle(x)
      BY <1>t, <1>12, <2>2, Zenon
    <3>2. x \in Group
      BY <1>t, GroupUpdates, Zenon
    <3>3. x.owner = g.owner /\ x.killed = g.killed
      BY <1>t, Zenon DEF Group
    <3> HIDE DEF x
    <3> QED
      BY <1>k, <1>z, <3>1, <3>2, <3>3, Zenon
  <2> QED
    BY <2>1, <2>2, Zenon
<1>13. ASSUME NEW l \in Labels, EmergencyReap(l) PROVE Goal
  <2>1. jobs[l].pid \in Pids
    BY <1>13, OneHolder, Zenon DEF EmergencyReap
  <2> QED
    BY <1>12, <1>13, <2>1, Zenon DEF EmergencyReap
<1>14. ASSUME NEW q \in Pids, ReapForever(q) PROVE Goal
  BY <1>12, <1>14, Zenon DEF ReapForever
<1>15. ASSUME NEW q \in Pids, Exec(q) \/ ChildFailure(q) \/ LeaderExits(q) \/ ForkHelper(q)
                             \/ HelpersExit(q) \/ Wedge(q) \/ Unwedge(q)
       PROVE  Goal
  <2>1. CASE p # q
    <3>1. h = g
      BY <1>t, <1>15, <2>1, Zenon
      DEF Exec, ChildFailure, LeaderExits, ForkHelper, HelpersExit, Wedge, Unwedge
    <3> QED
      BY <1>k, <3>1, Zenon
  <2>2. CASE p = q /\ HelpersExit(q)
    <3> DEFINE x == [g EXCEPT !.helpers = FALSE]
    <3>1. h = Settle(x)
      BY <1>t, <2>2, Zenon DEF HelpersExit
    <3>2. x \in Group
      BY <1>t, GroupUpdates, Zenon
    <3>3. x.owner = g.owner /\ x.killed = g.killed
      BY <1>t, Zenon DEF Group
    <3> HIDE DEF x
    <3> QED
      BY <1>k, <1>z, <3>1, <3>2, <3>3, Zenon
  <2>3. CASE p = q /\ ~HelpersExit(q)
    <3>1. \/ h = [g EXCEPT !.leader = "running", !.report = "eof"]
          \/ h = [g EXCEPT !.leader = "zombie", !.report = "errno"]
          \/ h = [g EXCEPT !.leader = "zombie", !.report = "eof"]
          \/ h = [g EXCEPT !.helpers = TRUE]
          \/ h = [g EXCEPT !.wedged = TRUE]
          \/ h = [g EXCEPT !.wedged = FALSE]
      BY <1>t, <1>15, <2>3, Zenon
      DEF Exec, ChildFailure, LeaderExits, ForkHelper, Wedge, Unwedge
    <3>2. h.owner = g.owner /\ h.killed = g.killed
      BY <1>t, <3>1, Zenon DEF Group
    <3> QED
      BY <1>k, <3>2, Zenon
  <2> QED
    BY <2>1, <2>2, <2>3, Zenon
<1>16. ASSUME NEW x \in Names, Connect(x) PROVE Goal
  BY <1>1, <1>16, Zenon DEF Connect
<1>17. CASE Collect
  BY <1>8, <1>17, Zenon DEF Collect
<1> QED
  BY <1>3, <1>4, <1>5, <1>6, <1>7, <1>9, <1>10, <1>11, <1>13, <1>14, <1>15, <1>16, <1>17, Zenon
  DEF Next, Loop, TickJob, Emergency, Kernel

\* A fork for a job is the launch of that job, while it is due and not throttled.
LEMMA ForkIsLaunch ==
    ASSUME LaunchdInvariant, Next, NEW l \in Labels, Forks(l)
    PROVE  TickSpawn(l) /\ l \in loaded /\ Due(l)
<1>1. PICK p \in Pids : groups[p].owner # l /\ groups'[p].owner = l
  BY Zenon DEF Forks
<1>2. l # Nobody
  BY LaunchdAssumption, Zenon
<1>3. PICK k \in Labels : TickSpawn(k) /\ groups'[p] = Forked(k)
  BY <1>1, <1>2, GroupStep, Zenon
<1>4. k = l
  BY <1>1, <1>3, Zenon DEF Forked, Free
<1> QED
  BY <1>3, <1>4, Zenon DEF TickSpawn, Visit, LaunchdInvariant, TypeOK

\* During shutdown no job is loaded, and none becomes due or is launched.
LEMMA QuietStep ==
    ASSUME LaunchdInvariant, Next, shuttingDown
    PROVE  /\ loaded' \subseteq loaded
           /\ \A l \in loaded' : jobs'[l].state \notin {"waiting", "launching"}
                                 \/ jobs'[l].state = jobs[l].state
<1> USE DEF loopVars, jobVars, ioVars, kernelVars
<1> DEFINE Quiet == /\ loaded' \subseteq loaded
                    /\ \A l \in loaded' : jobs'[l].state \notin {"waiting", "launching"}
                                          \/ jobs'[l].state = jobs[l].state
<1>t. /\ TypeOK
      /\ jobs \in [Labels -> Job]
      /\ loaded \subseteq Labels
      /\ \A l \in loaded : jobs[l].file \in Files
      /\ phase # "boot"
  BY Zenon DEF LaunchdInvariant, TypeOK
<1> SUFFICES Quiet
  BY Zenon
<1>1. CASE UNCHANGED <<loaded, jobs>>
  BY <1>1, Zenon
<1>2. ASSUME CollectGarbage PROVE Quiet
  <2>1. \A l \in loaded' : l \in loaded /\ jobs[l].pid # NoPid /\ jobs'[l] = Stopped(jobs[l])
    BY <1>t, <1>2, CollectTypes, Zenon
  <2>2. \A l \in loaded' : jobs'[l].state = "stopping"
    <3> SUFFICES ASSUME NEW l \in loaded' PROVE jobs'[l].state = "stopping"
      BY Zenon
    <3>1. jobs[l] \in Job /\ jobs[l].file \in Files /\ jobs[l].pid # NoPid
      BY <1>t, <2>1, Zenon
    <3>2. Stopped(jobs[l]).state = "stopping"
      BY <3>1, StoppedJob, Zenon
    <3> QED
      BY <2>1, <3>2, Zenon
  <2> QED
    BY <2>1, <2>2, Zenon
<1>3. ASSUME NEW q \in Pids, Reap(q) PROVE Quiet
  <2> SUFFICES ASSUME NEW l \in loaded, loaded' = loaded
               PROVE  \/ jobs'[l].state # "waiting" /\ jobs'[l].state # "launching"
                      \/ jobs'[l].state = jobs[l].state
    BY <1>3, Zenon DEF Reap
  <2>1. jobs[l] \in Job /\ (jobs'[l] = jobs[l] \/ jobs'[l] = Exited(jobs[l]))
    BY <1>t, <1>3, Zenon DEF Reap
  <2> QED
    BY <2>1, ExitedJob, Zenon
<1>4. ASSUME NEW k \in Labels, TickErase(k) PROVE Quiet
  BY <1>t, <1>4, Zenon DEF TickErase, Erased
<1>5. ASSUME NEW k \in Labels, TickKill(k) \/ TickSimulateExit(k) \/ TickDrain(k) PROVE Quiet
  <2> SUFFICES ASSUME NEW l \in loaded, loaded' = loaded
               PROVE  \/ jobs'[l].state # "waiting" /\ jobs'[l].state # "launching"
                      \/ jobs'[l].state = jobs[l].state
    BY <1>5, Zenon DEF TickKill, TickSimulateExit, TickDrain
  <2> DEFINE d == Drained(jobs[l])
  <2>1. \/ jobs'[l] = jobs[l]
        \/ jobs'[l] = [d EXCEPT !.killed = TRUE, !.killLeft = KillTimer]
        \/ jobs'[l] = Exited(jobs[l])
        \/ jobs'[l] = d
    BY <1>t, <1>5, Zenon DEF TickKill, TickSimulateExit, TickDrain
  <2>2. d \in Job /\ (d.state = jobs[l].state \/ d.state = "running")
    BY <1>t, DrainedJob, Zenon
  <2>3. Exited(jobs[l]).state = "idle"
    BY <1>t, ExitedJob, Zenon
  <2> HIDE DEF d
  <2> QED
    BY <2>1, <2>2, <2>3, Zenon DEF Job
<1>6. ASSUME NEW k \in Labels, TickSpawn(k) \/ TickSpawnFails(k) \/ TickSkip(k) PROVE Quiet
  BY <1>1, <1>6, Zenon DEF TickSpawn, TickSpawnFails, TickSkip, Due
<1>7. CASE FinishShutdown \/ EmergencyDone
  BY <1>7, Zenon DEF FinishShutdown, EmergencyDone, Erased
<1>8. ASSUME NEW e \in batch, Handle(e) PROVE Quiet
  BY <1>1, <1>8, Zenon DEF Handle, Shutdown, Activate, Load, Start, Stop, SetOverride, Refuse
<1>9. ASSUME NEW k \in Labels, EmergencyReap(k) PROVE Quiet
  BY <1>t, <1>9, Zenon DEF EmergencyReap, Job
<1>10. CASE ClockTick
  <2>1. \A l \in loaded : jobs'[l].state = jobs[l].state
    <3> SUFFICES ASSUME NEW l \in loaded PROVE jobs'[l].state = jobs[l].state
      BY Zenon
    <3>1. jobs'[l] = [jobs[l] EXCEPT !.wait = Down(@), !.stopLeft = Down(@), !.killLeft = Down(@)]
      BY <1>t, <1>10, Zenon DEF ClockTick
    <3> QED
      BY <1>t, <3>1 DEF Job
  <2> QED
    BY <1>10, <2>1, Zenon DEF ClockTick
<1>11. CASE LoadDirectories \/ Run \/ ReapDone \/ Arm \/ Kevent \/ EventsDone \/ LoopFails \/ Ended
  BY <1>t, <1>1, <1>11, Zenon
  DEF LoadDirectories, Run, ReapDone, Arm, Kevent, EventsDone, LoopFails, Ended, vars
<1>12. ASSUME NEW p \in Pids,
              \/ Exec(p) \/ ChildFailure(p) \/ LeaderExits(p) \/ ForkHelper(p)
              \/ HelpersExit(p) \/ Wedge(p) \/ Unwedge(p) \/ ReapForever(p)
       PROVE  Quiet
  BY <1>1, <1>12, Zenon DEF Exec, ChildFailure, LeaderExits, ForkHelper, HelpersExit, Wedge,
                     Unwedge, ReapForever
<1>13. ASSUME NEW x \in Names, Connect(x) PROVE Quiet
  BY <1>1, <1>13, Zenon DEF Connect
<1>14. ASSUME NEW k \in Labels, Accept(k) PROVE Quiet
  BY <1>1, <1>14, Zenon DEF Accept
<1>15. CASE Collect
  BY <1>2, <1>15, Zenon DEF Collect
<1> HIDE DEF Quiet
<1> QED
  BY <1>3, <1>4, <1>5, <1>6, <1>7, <1>8, <1>9, <1>10, <1>11, <1>12, <1>13, <1>14, <1>15, Zenon
  DEF Next, Loop, TickJob, Emergency, Kernel

-----------------------------------------------------------------------------
(* Sockets.                                                                *)

\* A job keeps its configuration for as long as it is loaded.
LEMMA ConfigStep ==
    ASSUME LaunchdInvariant, Next, NEW l \in loaded, l \in loaded'
    PROVE  jobs'[l].file = jobs[l].file
<1> USE DEF loopVars, jobVars, ioVars, kernelVars
<1>t. /\ TypeOK
      /\ l \in Labels
      /\ jobs \in [Labels -> Job]
      /\ jobs[l] \in Job
      /\ jobs[l].file \in Files
  BY Zenon DEF LaunchdInvariant, TypeOK
<1> DEFINE d == Drained(jobs[l])
           x == Stopped(jobs[l])
<1>d. d \in Job /\ d.file = jobs[l].file
  BY <1>t, DrainedJob, Zenon
<1>x. x \in Job /\ x.file = jobs[l].file
  BY <1>t, StoppedJob, Zenon
<1>e. Exited(jobs[l]).file = jobs[l].file
  BY <1>t, ExitedJob, Zenon
<1> DEFINE Same == jobs'[l].file = jobs[l].file
<1> SUFFICES Same
  BY Zenon
<1>1. CASE jobs'[l] = jobs[l]
  BY <1>1, Zenon
<1>2. CASE LoadDirectories \/ (\E e \in batch : Load(e))
  BY <1>t, <1>1, <1>2, Zenon DEF LoadDirectories, Load, load, Loadable, loadFails, loadRefused
<1>3. ASSUME NEW q \in Pids, Reap(q) PROVE Same
  BY <1>t, <1>e, <1>3, Zenon DEF Reap
<1>4. ASSUME NEW k \in Labels, TickErase(k) \/ TickSkip(k) \/ Accept(k) PROVE Same
  BY <1>t, <1>1, <1>4, Zenon DEF TickErase, Erased, TickSkip, Accept
<1>5. ASSUME NEW k \in Labels, TickKill(k) \/ TickSimulateExit(k) \/ TickDrain(k) PROVE Same
  <2>1. \/ jobs'[l] = jobs[l]
        \/ jobs'[l] = [d EXCEPT !.killed = TRUE, !.killLeft = KillTimer]
        \/ jobs'[l] = Exited(jobs[l])
        \/ jobs'[l] = d
    BY <1>t, <1>5, Zenon DEF TickKill, TickSimulateExit, TickDrain
  <2> HIDE DEF d
  <2> QED
    BY <1>d, <1>e, <2>1, Zenon DEF Job
<1>6. ASSUME NEW k \in Labels, TickSpawn(k) PROVE Same
  <2>1. \/ jobs'[l] = jobs[l]
        \/ \E q \in Pids : jobs'[l] = [jobs[l] EXCEPT !.pid = q, !.state = "launching",
                                          !.setup = TRUE, !.killed = FALSE,
                                          !.wait = config(l).throttle]
    BY <1>t, <1>6, Zenon DEF TickSpawn
  <2> QED
    BY <1>t, <2>1, Zenon DEF Job
<1>7. ASSUME NEW k \in Labels, TickSpawnFails(k) PROVE Same
  <2>1. \/ jobs'[l] = jobs[l]
        \/ \E s \in States :
              jobs'[l] = [jobs[l] EXCEPT !.wait = config(l).throttle, !.state = s]
    BY <1>t, <1>7, Zenon DEF TickSpawnFails, States
  <2> QED
    BY <1>t, <2>1, Zenon DEF Job
<1>8. ASSUME CollectGarbage PROVE Same
  BY <1>t, <1>8, CollectTypes, Zenon
<1>9. CASE FinishShutdown \/ EmergencyDone
  BY <1>9, Zenon DEF FinishShutdown, EmergencyDone, Erased
<1>10. ASSUME NEW e \in batch, Handle(e), ~Load(e) PROVE Same
  <2>1. CASE Shutdown(e)
    BY <1>1, <1>8, <2>1, Zenon DEF Shutdown
  <2>2. CASE Activate(e)
    <3>1. jobs'[l] = jobs[l] \/ jobs'[l] = [jobs[l] EXCEPT !.state = "waiting"]
      BY <1>t, <2>2, Zenon DEF Activate
    <3> QED
      BY <1>t, <3>1, Zenon DEF Job
  <2>3. CASE Start(e)
    <3> DEFINE s == IF jobs[l].pid = NoPid THEN "waiting" ELSE jobs[l].state
    <3>1. jobs'[l] = jobs[l] \/ jobs'[l] = [jobs[l] EXCEPT !.enabled = TRUE, !.state = s]
      BY <1>t, <2>3, Zenon DEF Start
    <3> HIDE DEF s
    <3> QED
      BY <1>t, <3>1, Zenon DEF Job
  <2>4. CASE Stop(e)
    <3>1. jobs'[l] = jobs[l] \/ jobs'[l] = [x EXCEPT !.remove = @ \/ e.op = "unload"]
      BY <1>t, <2>4, Zenon DEF Stop
    <3> HIDE DEF x
    <3> QED
      BY <1>x, <3>1, Zenon DEF Job
  <2>5. CASE SetOverride(e) \/ Refuse(e)
    BY <1>1, <2>5, Zenon DEF SetOverride, Refuse
  <2> QED
    BY <1>10, <2>1, <2>2, <2>3, <2>4, <2>5, Zenon DEF Handle
<1>11. ASSUME NEW k \in Labels, EmergencyReap(k) PROVE Same
  BY <1>t, <1>11, Zenon DEF EmergencyReap, Job
<1>12. CASE ClockTick
  <2>1. jobs'[l] = [jobs[l] EXCEPT !.wait = Down(@), !.stopLeft = Down(@), !.killLeft = Down(@)]
    BY <1>t, <1>12, Zenon DEF ClockTick
  <2> QED
    BY <1>t, <2>1, Zenon DEF Job
<1>13. CASE Run \/ ReapDone \/ Arm \/ Kevent \/ EventsDone \/ LoopFails \/ Ended
  BY <1>1, <1>13, Zenon DEF Run, ReapDone, Arm, Kevent, EventsDone, LoopFails, Ended, vars
<1>14. ASSUME NEW p \in Pids,
              \/ Exec(p) \/ ChildFailure(p) \/ LeaderExits(p) \/ ForkHelper(p)
              \/ HelpersExit(p) \/ Wedge(p) \/ Unwedge(p) \/ ReapForever(p)
       PROVE  Same
  BY <1>1, <1>14, Zenon DEF Exec, ChildFailure, LeaderExits, ForkHelper, HelpersExit, Wedge,
                     Unwedge, ReapForever
<1>15. ASSUME NEW n \in Names, Connect(n) PROVE Same
  BY <1>1, <1>15, Zenon DEF Connect
<1>16. CASE Collect
  BY <1>8, <1>16, Zenon DEF Collect
<1> HIDE DEF Same
<1> QED
  BY <1>2, <1>3, <1>4, <1>5, <1>6, <1>7, <1>9, <1>10, <1>11, <1>12, <1>13, <1>14, <1>15,
     <1>16, Zenon
  DEF Next, Loop, TickJob, Emergency, Kernel

\* The step loads a file, or tries to, that spells path s differently.
TakesOver(s) ==
    \E f \in Files : /\ Loading(f) /\ Loadable(f) /\ SpelledOtherwise(f, s)
                     /\ bound'[Resolve[s]] \in {Plist[f].label, Nobody}

\* Every step leaves the socket paths of the loaded jobs to their listeners,
\* unless it takes one over.
LEMMA SocketsStep ==
    ASSUME LaunchdInvariant, Next,
           NEW l \in loaded', NEW s \in Plist[jobs'[l].file].sockets,
           l \in loaded => bound[Resolve[s]] = l
    PROVE  bound'[Resolve[s]] = l \/ TakesOver(s)
<1> USE DEF loopVars, jobVars, ioVars, kernelVars
<1>t. /\ TypeOK
      /\ jobs \in [Labels -> Job]
      /\ loaded \subseteq Labels
      /\ bound \in [Names -> Labels \union {Nobody}]
      /\ Resolve \in [Paths -> Names]
      /\ \A k \in loaded : jobs[k].file \in Files
      /\ \A f \in Files : Plist[f].sockets \subseteq Paths /\ Plist[f].label \in Labels
  BY LaunchdAssumption, Zenon DEF LaunchdInvariant, TypeOK, Paths, Config
<1> DEFINE Reached == bound'[Resolve[s]] = l \/ TakesOver(s)
<1> SUFFICES Reached
  BY Zenon
<1>k. ASSUME l \in loaded
      PROVE  s \in config(l).sockets /\ bound[Resolve[s]] = l /\ s \in Paths
  <2>1. jobs'[l].file = jobs[l].file
    BY <1>k, ConfigStep, Zenon
  <2> QED
    BY <1>t, <1>k, <2>1, Zenon DEF config
<1>1. CASE UNCHANGED <<loaded, bound>>
  BY <1>1, <1>k, Zenon
<1>2. ASSUME NEW f \in Files, Loading(f), load(f) \/ loadFails(f) \/ loadRefused(f)
      PROVE  Reached
  <2> DEFINE c == Plist[f]
  <2>1. CASE load(f) /\ l = c.label
    <3>1. jobs'[l] = NewJob(f) /\ NewJob(f).file = f
      BY <1>t, <2>1, Zenon DEF load, NewJob, Blank
    <3>2. s \in c.sockets /\ Resolve[s] \in Names
      BY <1>t, <3>1, Zenon
    <3> QED
      BY <1>t, <2>1, <3>2, Zenon DEF load
  <2>2. ASSUME Loadable(f), l \in loaded, NEW M \in SUBSET c.sockets, NEW v \in {c.label, Nobody},
               bound' = [n \in Names |-> IF n \in {Resolve[u] : u \in M} THEN v ELSE bound[n]]
        PROVE  Reached
    <3>1. s \in config(l).sockets /\ bound[Resolve[s]] = l /\ Resolve[s] \in Names
      BY <1>t, <1>k, <2>2, Zenon
    <3>2. CASE Resolve[s] \notin {Resolve[u] : u \in M}
      BY <2>2, <3>1, <3>2, Zenon
    <3>3. CASE Resolve[s] \in {Resolve[u] : u \in M}
      <4>1. PICK u \in M : Resolve[u] = Resolve[s]
        BY <3>3, Zenon
      <4>2. s \notin c.sockets
        BY <2>2, <3>1, Zenon DEF Loadable
      <4>3. SpelledOtherwise(f, s)
        BY <4>1, <4>2, Zenon DEF SpelledOtherwise
      <4>4. bound'[Resolve[s]] = v
        BY <2>2, <3>1, <3>3, Zenon
      <4> QED
        BY <1>2, <2>2, <4>3, <4>4, Zenon DEF TakesOver
    <3> QED
      BY <3>2, <3>3, Zenon
  <2>3. CASE load(f) /\ l # c.label
    <3>1. l \in loaded /\ Loadable(f)
      BY <2>3, Zenon DEF load
    <3> QED
      BY <2>2, <2>3, <3>1, Zenon DEF load
  <2>4. CASE loadFails(f)
    BY <2>2, <2>4, Zenon DEF loadFails
  <2>5. CASE loadRefused(f)
    BY <1>1, <2>5, Zenon DEF loadRefused
  <2> QED
    BY <1>2, <2>1, <2>3, <2>4, <2>5, Zenon
<1>3. ASSUME NEW S \in SUBSET loaded, Erased(S) PROVE Reached
  <2>1. l \in loaded /\ l \notin S
    BY <1>3, Zenon DEF Erased
  <2>2. bound[Resolve[s]] = l /\ Resolve[s] \in Names
    BY <1>t, <1>k, <2>1, Zenon
  <2> QED
    BY <1>3, <2>1, <2>2, Zenon DEF Erased
<1>4. CASE LoadDirectories
  <2>1. Head(startup) \in Files
    BY <1>4, <1>t DEF LoadDirectories, TypeOK
  <2>2. Loading(Head(startup))
    BY <1>4, Zenon DEF LoadDirectories, Loading
  <2> QED
    BY <1>2, <1>4, <2>1, <2>2, Zenon DEF LoadDirectories
<1>5. ASSUME NEW k \in Labels, TickErase(k) PROVE Reached
  BY <1>3, <1>5, <1>t, Zenon DEF TickErase, Visit, TypeOK
<1>6. ASSUME CollectGarbage PROVE Reached
  BY <1>3, <1>6, Zenon DEF CollectGarbage
<1>7. CASE FinishShutdown \/ EmergencyDone \/ Collect
  BY <1>3, <1>6, <1>7, Zenon DEF FinishShutdown, EmergencyDone, Collect
<1>8. ASSUME NEW e \in batch, Handle(e) PROVE Reached
  <2>1. CASE Shutdown(e)
    BY <1>1, <1>6, <2>1, Zenon DEF Shutdown
  <2>2. CASE Load(e)
    <3>1. Loading(e.arg)
      BY <1>8, <2>2, Zenon DEF Load, Event, Loading
    <3> QED
      BY <1>2, <1>t, <2>2, <3>1, EventArguments, Zenon DEF Load
  <2>3. CASE ~Shutdown(e) /\ ~Load(e)
    BY <1>1, <1>8, <2>3, Zenon DEF Handle, Activate, Start, Stop, SetOverride, Refuse
  <2> QED
    BY <2>1, <2>2, <2>3, Zenon
<1>9. CASE Run \/ ReapDone \/ Arm \/ Kevent \/ EventsDone \/ LoopFails \/ Ended \/ ClockTick
  BY <1>1, <1>9, Zenon DEF Run, ReapDone, Arm, Kevent, EventsDone, LoopFails, Ended, vars, ClockTick
<1>10. ASSUME NEW k \in Labels,
              \/ TickKill(k) \/ TickSimulateExit(k) \/ TickDrain(k) \/ TickSpawn(k)
              \/ TickSpawnFails(k) \/ TickSkip(k) \/ Accept(k) \/ EmergencyReap(k)
       PROVE  Reached
  BY <1>1, <1>10, Zenon DEF TickKill, TickSimulateExit, TickDrain, TickSpawn, TickSpawnFails, TickSkip,
                     Accept, EmergencyReap
<1>11. ASSUME NEW p \in Pids,
              \/ Reap(p) \/ Exec(p) \/ ChildFailure(p) \/ LeaderExits(p) \/ ForkHelper(p)
              \/ HelpersExit(p) \/ Wedge(p) \/ Unwedge(p) \/ ReapForever(p)
       PROVE  Reached
  BY <1>1, <1>11, Zenon DEF Reap, Exec, ChildFailure, LeaderExits, ForkHelper, HelpersExit, Wedge,
                     Unwedge, ReapForever
<1>12. ASSUME NEW n \in Names, Connect(n) PROVE Reached
  BY <1>1, <1>12, Zenon DEF Connect
<1> HIDE DEF Reached
<1> QED
  BY <1>4, <1>5, <1>7, <1>8, <1>9, <1>10, <1>11, <1>12, Zenon
  DEF Next, Loop, TickJob, Emergency, Kernel

-----------------------------------------------------------------------------
(* launchd implements Service.                                             *)

goingDown == shuttingDown \/ phase \in {"emergency", "done"}

Stays(k) == stage(k)' = stage(k)

\* The stage of a job, by cases that exclude one another.
StageIs(member, j, failed) ==
    IF ~member THEN "absent"
    ELSE IF j.pid # NoPid THEN IF j.state = "stopping" \/ failed THEN "ending" ELSE "up"
    ELSE IF ~j.enabled \/ failed THEN "off"
    ELSE IF j.state = "waiting" THEN "due" ELSE "idle"

\* A job that is not loaded has no process, so the cases of stage() agree with it.
LEMMA StageBefore ==
    ASSUME OwnProcesses, NEW k \in Labels
    PROVE  stage(k) = StageIs(k \in loaded, jobs[k], phase = "emergency")
<1>1. k \notin loaded => jobs[k].pid = NoPid
  BY Zenon DEF OwnProcesses
<1> QED
  BY <1>1, Zenon DEF stage, StageIs

\* The same, after a step.
LEMMA StageAfter ==
    ASSUME OwnProcesses', NEW k \in Labels
    PROVE  stage(k)' = StageIs(k \in loaded', jobs'[k], phase' = "emergency")
<1>1. k \notin loaded' => jobs'[k].pid = NoPid
  BY Zenon DEF OwnProcesses
<1> QED
  BY <1>1, Zenon DEF stage, StageIs

\* The stage of a job depends on no more than this.
LEMMA SameStage ==
    ASSUME OwnProcesses, OwnProcesses', NEW k \in Labels,
           k \in loaded' <=> k \in loaded,
           phase' = "emergency" <=> phase = "emergency",
           k \in loaded =>
              /\ jobs'[k].pid = jobs[k].pid
              /\ jobs'[k].enabled <=> jobs[k].enabled
              /\ jobs'[k].state = "stopping" <=> jobs[k].state = "stopping"
              /\ jobs'[k].state = "waiting" <=> jobs[k].state = "waiting"
    PROVE  Stays(k)
  BY StageBefore, StageAfter, Zenon DEF Stays, StageIs

\* A step that changes no job's stage is a stuttering step of Service.
LEMMA ServiceStutters ==
    ASSUME \A k \in Labels : Stays(k), goingDown' <=> goingDown
    PROVE  UNCHANGED Lifecycle!vars
<1>1. [k \in Labels |-> stage(k)]' = [k \in Labels |-> stage(k)]
  BY Zenon DEF Stays
<1>2. goingDown' = goingDown
  BY Zenon DEF goingDown
<1> QED
  BY <1>1, <1>2, Zenon DEF Lifecycle!vars, goingDown

\* A step that changes one job's stage moves that job.
LEMMA ServiceMoves ==
    ASSUME NEW l \in Labels, NEW from, stage(l) \in from,
           \A k \in Labels : k # l => Stays(k), goingDown' <=> goingDown
    PROVE  Lifecycle!Move(l, from, stage(l)')
<1> DEFINE service == [k \in Labels |-> stage(k)]
<1>1. service' = [service EXCEPT ![l] = stage(l)']
  BY Zenon DEF Stays
<1>2. goingDown' = goingDown
  BY Zenon DEF goingDown
<1> QED
  BY <1>1, <1>2, Zenon DEF Lifecycle!Move, goingDown

\* Jobs that are off leave together.
LEMMA ServiceRemoves ==
    ASSUME NEW S \in SUBSET Labels, \A l \in S : stage(l) = "off" /\ stage(l)' = "absent",
           \A k \in Labels \ S : Stays(k), goingDown' <=> goingDown
    PROVE  Lifecycle!Next
<1> DEFINE service == [k \in Labels |-> stage(k)]
<1>1. service' = [k \in Labels |-> IF k \in S THEN "absent" ELSE service[k]]
  BY Zenon DEF Stays
<1>2. S \in SUBSET {k \in Labels : service[k] = "off"}
  BY Zenon
<1>3. goingDown' = goingDown
  BY Zenon DEF goingDown
<1>4. Lifecycle!Remove
  BY <1>1, <1>2, <1>3, Zenon DEF Lifecycle!Remove, goingDown
<1> QED
  BY <1>4, Zenon DEF Lifecycle!Next

\* Every process is told to end, and every other job is off or gone.
LEMMA ServiceGoesDown ==
    ASSUME goingDown',
           \A k \in Labels :
              /\ stage(k)' \in {"absent", "off", "ending"}
              /\ stage(k) = "absent" => stage(k)' = "absent"
              /\ stage(k) \in {"up", "ending"} <=> stage(k)' = "ending"
    PROVE  Lifecycle!Next
<1> DEFINE service == [k \in Labels |-> stage(k)]
<1>1. service' \in [Labels -> Lifecycle!Stages]
  BY Zenon DEF Lifecycle!Stages
<1>2. \A k \in Labels :
         service'[k] \in CASE service[k] = "absent" -> {"absent"}
                           [] service[k] \in {"up", "ending"} -> {"ending"}
                           [] OTHER -> {"off", "absent"}
  BY Zenon
<1>3. goingDown' = TRUE
  BY Zenon DEF goingDown
<1>4. Lifecycle!GoDown
  BY <1>1, <1>2, <1>3, Zenon DEF Lifecycle!GoDown, goingDown
<1> QED
  BY <1>4, Zenon DEF Lifecycle!Next

\* A job whose record is left alone keeps its stage, unless the loop fails.
LEMMA OthersStay ==
    ASSUME OwnProcesses, OwnProcesses', NEW S \in SUBSET Labels,
           phase' = "emergency" <=> phase = "emergency",
           \A k \in Labels \ S : (k \in loaded' <=> k \in loaded) /\ jobs'[k] = jobs[k]
    PROVE  \A k \in Labels \ S : Stays(k)
<1> SUFFICES ASSUME NEW k \in Labels \ S PROVE Stays(k)
  BY Zenon
<1> QED
  BY SameStage, Zenon

\* One job changes, in one of the ways that Service allows.
LEMMA OneJobMoves ==
    ASSUME OwnProcesses, OwnProcesses', NEW l \in Labels,
           phase' = phase, shuttingDown' = shuttingDown,
           \A k \in Labels \ {l} : (k \in loaded' <=> k \in loaded) /\ jobs'[k] = jobs[k],
           \/ stage(l)' = stage(l)
           \/ stage(l) = "ending" /\ stage(l)' = "off"
           \/ stage(l) = "off" /\ stage(l)' = "absent"
           \/ /\ ~goingDown
              /\ <<stage(l), stage(l)'>> \in
                    {<<"absent", "idle">>, <<"absent", "due">>, <<"off", "due">>,
                     <<"idle", "due">>, <<"due", "up">>, <<"due", "idle">>,
                     <<"up", "idle">>, <<"up", "due">>, <<"idle", "off">>,
                     <<"due", "off">>, <<"up", "ending">>}
    PROVE  Lifecycle!Next \/ UNCHANGED Lifecycle!vars
<1>1. \A k \in Labels \ {l} : Stays(k)
  BY OthersStay, Zenon
<1>2. goingDown' <=> goingDown
  BY Zenon DEF goingDown
<1>3. CASE stage(l)' = stage(l)
  <2>1. \A k \in Labels : Stays(k)
    BY <1>1, <1>3, Zenon DEF Stays
  <2> QED
    BY <1>2, <2>1, ServiceStutters, Zenon
<1>4. CASE stage(l) = "off" /\ stage(l)' = "absent"
  <2> DEFINE S == {l}
  <2>1. S \in SUBSET Labels /\ \A k \in S : stage(k) = "off" /\ stage(k)' = "absent"
    BY <1>4, Zenon
  <2>2. \A k \in Labels \ S : Stays(k)
    BY <1>1, Zenon
  <2> HIDE DEF S
  <2> QED
    BY <1>2, <2>1, <2>2, ServiceRemoves, Zenon
<1>5. ASSUME NEW from, stage(l) \in from PROVE Lifecycle!Move(l, from, stage(l)')
  BY <1>1, <1>2, <1>5, ServiceMoves, Zenon
<1>6. CASE stage(l) = "ending" /\ stage(l)' = "off"
  <2>1. Lifecycle!End(l)
    BY <1>5, <1>6, Zenon DEF Lifecycle!End
  <2> QED
    BY <2>1, Zenon DEF Lifecycle!Next
<1>7. ASSUME ~goingDown, stage(l) # stage(l)',
             <<stage(l), stage(l)'>> \in
                    {<<"absent", "idle">>, <<"absent", "due">>, <<"off", "due">>,
                     <<"idle", "due">>, <<"due", "up">>, <<"due", "idle">>,
                     <<"up", "idle">>, <<"up", "due">>, <<"idle", "off">>,
                     <<"due", "off">>, <<"up", "ending">>}
      PROVE  Lifecycle!Next
  <2>1. ~(shuttingDown \/ phase \in {"emergency", "done"})
    BY <1>7, Zenon DEF goingDown
  <2>2. \/ stage(l) = "absent" /\ stage(l)' \in {"idle", "due"}
        \/ stage(l) = "off" /\ stage(l)' = "due"
        \/ stage(l) = "idle" /\ stage(l)' \in {"due", "off"}
        \/ stage(l) = "due" /\ stage(l)' \in {"up", "idle", "off"}
        \/ stage(l) = "up" /\ stage(l)' \in {"idle", "due", "ending"}
    BY <1>7, Zenon
  <2>3. CASE stage(l) = "absent" /\ stage(l)' \in {"idle", "due"}
    <3>1. Lifecycle!Load(l)
      BY <1>5, <2>1, <2>3, Zenon DEF Lifecycle!Load
    <3> QED
      BY <3>1, Zenon DEF Lifecycle!Next
  <2>4. CASE stage(l) \in {"off", "idle"} /\ stage(l)' = "due"
    <3>1. Lifecycle!Start(l)
      BY <1>5, <2>1, <2>4, Zenon DEF Lifecycle!Start
    <3> QED
      BY <3>1, Zenon DEF Lifecycle!Next
  <2>5. CASE stage(l) = "due" /\ stage(l)' \in {"up", "idle"}
    <3>1. Lifecycle!Launch(l)
      BY <1>5, <2>1, <2>5, Zenon DEF Lifecycle!Launch
    <3> QED
      BY <3>1, Zenon DEF Lifecycle!Next
  <2>6. CASE stage(l) = "up" /\ stage(l)' \in {"idle", "due"}
    <3>1. Lifecycle!Exit(l)
      BY <1>5, <2>1, <2>6, Zenon DEF Lifecycle!Exit
    <3> QED
      BY <3>1, Zenon DEF Lifecycle!Next
  <2>7. CASE \/ stage(l) \in {"idle", "due"} /\ stage(l)' = "off"
             \/ stage(l) = "up" /\ stage(l)' = "ending"
    <3>1. Lifecycle!Stop(l)
      BY <1>5, <2>1, <2>7, Zenon DEF Lifecycle!Stop
    <3> QED
      BY <3>1, Zenon DEF Lifecycle!Next
  <2> QED
    BY <2>2, <2>3, <2>4, <2>5, <2>6, <2>7, Zenon
<1> QED
  BY <1>3, <1>4, <1>6, <1>7, Zenon

\* Every step of launchd is a step of Service, or changes nothing it speaks of.
LEMMA ServiceStep ==
    ASSUME LaunchdInvariant, LaunchdInvariant', EnabledInvariant, Next
    PROVE  Lifecycle!Next \/ UNCHANGED Lifecycle!vars
<1> USE DEF loopVars, jobVars, ioVars, kernelVars
<1> DEFINE Goal == Lifecycle!Next \/ UNCHANGED Lifecycle!vars
<1> SUFFICES Goal
  BY Zenon
<1>t. /\ TypeOK
      /\ jobs \in [Labels -> Job]
      /\ loaded \subseteq Labels
      /\ \A l \in loaded : jobs[l].file \in Files
      /\ OwnProcesses
      /\ OwnProcesses'
      /\ phase = "boot" => ~shuttingDown
  BY Zenon DEF LaunchdInvariant, TypeOK
<1>w. ASSUME phase \notin {"emergency", "done"}, NEW l \in loaded
      PROVE  /\ jobs[l].state = "waiting" => jobs[l].enabled /\ ~jobs[l].remove /\ ~shuttingDown
             /\ shuttingDown => ~jobs[l].enabled
             /\ jobs[l].remove => ~jobs[l].enabled
  BY <1>w, Zenon DEF LaunchdInvariant, OnlyWantedJobsAreDue
<1>e. \A l \in loaded : jobs[l].pid # NoPid => (jobs[l].state = "stopping" <=> ~jobs[l].enabled)
  BY Zenon DEF EnabledInvariant
<1>b. \A l \in Labels : stage(l) = StageIs(l \in loaded, jobs[l], phase = "emergency")
  BY <1>t, StageBefore, Zenon
<1>a. \A l \in Labels : stage(l)' = StageIs(l \in loaded', jobs'[l], phase' = "emergency")
  BY <1>t, StageAfter, Zenon
<1>g. ASSUME goingDown' <=> goingDown,
             phase' = "emergency" <=> phase = "emergency", UNCHANGED <<loaded, jobs>>
      PROVE  Goal
  <2>1. \A k \in Labels \ {} : Stays(k)
    BY <1>t, <1>g, OthersStay, Zenon
  <2> QED
    BY <1>g, <2>1, ServiceStutters, Zenon
<1>m. ASSUME NEW l \in Labels,
             phase' = phase, shuttingDown' = shuttingDown,
             \A k \in Labels \ {l} : (k \in loaded' <=> k \in loaded) /\ jobs'[k] = jobs[k],
             \/ stage(l)' = stage(l)
             \/ stage(l) = "ending" /\ stage(l)' = "off"
             \/ stage(l) = "off" /\ stage(l)' = "absent"
             \/ /\ ~goingDown
                /\ <<stage(l), stage(l)'>> \in
                      {<<"absent", "idle">>, <<"absent", "due">>, <<"off", "due">>,
                       <<"idle", "due">>, <<"due", "up">>, <<"due", "idle">>,
                       <<"up", "idle">>, <<"up", "due">>, <<"idle", "off">>,
                       <<"due", "off">>, <<"up", "ending">>}
      PROVE  Goal
  BY <1>t, <1>m, OneJobMoves, Zenon
<1> HIDE DEF Goal
<1>1. ASSUME NEW f \in Files, ~goingDown, phase' = phase, shuttingDown' = shuttingDown,
             load(f) \/ loadFails(f) \/ loadRefused(f)
      PROVE  Goal
  <2>1. CASE loadFails(f) \/ loadRefused(f)
    BY <1>1, <1>g, <2>1, Zenon DEF loadFails, loadRefused, goingDown
  <2>2. CASE load(f)
    <3> DEFINE l == Plist[f].label
    <3>1. /\ l \in Labels \ loaded
          /\ l \in loaded'
          /\ jobs'[l] = NewJob(f)
          /\ \A k \in Labels \ {l} : (k \in loaded' <=> k \in loaded) /\ jobs'[k] = jobs[k]
      BY <1>t, <2>2, LaunchdAssumption, Zenon DEF load, Loadable, Config
    <3>2. NewJob(f).pid = NoPid /\ NewJob(f).enabled = TRUE
      BY Zenon DEF NewJob, Blank
    <3>3. stage(l) = "absent"
      BY <1>b, <3>1, Zenon DEF StageIs
    <3>4. stage(l)' \in {"idle", "due"}
      BY <1>1, <1>a, <3>1, <3>2, Zenon DEF StageIs, goingDown
    <3> HIDE DEF l
    <3> QED
      BY <1>1, <1>m, <3>1, <3>3, <3>4, Zenon
  <2> QED
    BY <1>1, <2>1, <2>2, Zenon
<1>2. CASE LoadDirectories
  <2>1. Head(startup) \in Files
    BY <1>2, <1>t DEF LoadDirectories, TypeOK
  <2> QED
    BY <1>1, <1>2, <1>t, <2>1, Zenon DEF LoadDirectories, goingDown
<1>3. ASSUME NEW q \in Pids, Reap(q) PROVE Goal
  <2> DEFINE managed == {l \in loaded : jobs[l].pid = q}
  <2>1. /\ phase = "reap" /\ phase' = phase
        /\ shuttingDown' = shuttingDown
        /\ loaded' = loaded
        /\ q # NoPid
        /\ jobs' = [l \in Labels |-> IF l \in managed THEN Exited(jobs[l]) ELSE jobs[l]]
    BY <1>3, LaunchdAssumption, Zenon DEF Reap
  <2>2. CASE managed = {}
    <3>1. jobs' = jobs
      BY <1>t, <2>1, <2>2, Zenon
    <3> QED
      BY <1>g, <2>1, <3>1, Zenon DEF goingDown
  <2>3. CASE managed # {}
    <3>1. PICK l \in loaded : jobs[l].pid = q
      BY <2>3, Zenon
    <3>2. \A k \in Labels : jobs[k].pid = q => k = l
      BY <1>t, <2>1, <3>1 DEF OwnProcesses
    <3>3. /\ \A k \in Labels \ {l} : (k \in loaded' <=> k \in loaded) /\ jobs'[k] = jobs[k]
          /\ jobs'[l] = Exited(jobs[l])
      BY <1>t, <2>1, <3>1, <3>2, Zenon
    <3>4. /\ jobs'[l].pid = NoPid
          /\ jobs'[l].enabled = jobs[l].enabled
      BY <1>t, <3>1, <3>3, ExitedJob
    <3>5. l \in Labels /\ (shuttingDown => ~jobs[l].enabled)
      BY <1>t, <1>w, <2>1, <3>1, Zenon
    <3>6. CASE jobs[l].enabled
      <4>1. stage(l) = "up"
        BY <1>b, <1>e, <2>1, <3>1, <3>5, <3>6, Zenon DEF StageIs
      <4>2. stage(l)' \in {"idle", "due"}
        BY <1>a, <2>1, <3>1, <3>4, <3>5, <3>6, Zenon DEF StageIs
      <4> QED
        BY <1>m, <2>1, <3>3, <3>5, <3>6, <4>1, <4>2, Zenon DEF goingDown
    <3>7. CASE ~jobs[l].enabled
      <4>1. stage(l) = "ending"
        BY <1>b, <1>e, <2>1, <3>1, <3>5, <3>7, Zenon DEF StageIs
      <4>2. stage(l)' = "off"
        BY <1>a, <2>1, <3>1, <3>4, <3>5, <3>7, Zenon DEF StageIs
      <4> QED
        BY <1>m, <2>1, <3>3, <3>5, <4>1, <4>2, Zenon
    <3> QED
      BY <3>6, <3>7, Zenon
  <2> QED
    BY <2>2, <2>3, Zenon
<1>4. ASSUME NEW l \in Labels, TickErase(l) PROVE Goal
  <2>1. /\ phase = "tick" /\ phase' = phase
        /\ shuttingDown' = shuttingDown
        /\ l \in loaded /\ l \notin loaded'
        /\ jobs[l].pid = NoPid /\ jobs[l].remove
        /\ \A k \in Labels \ {l} : (k \in loaded' <=> k \in loaded) /\ jobs'[k] = jobs[k]
    BY <1>t, <1>4, Zenon DEF TickErase, Visit, Erased, TypeOK
  <2>2. ~jobs[l].enabled
    BY <1>w, <2>1, Zenon
  <2>3. stage(l) = "off" /\ stage(l)' = "absent"
    BY <1>b, <1>a, <2>1, <2>2, Zenon DEF StageIs
  <2> QED
    BY <1>m, <2>1, <2>3, Zenon
<1>5. ASSUME NEW l \in Labels, TickKill(l) \/ TickDrain(l) PROVE Goal
  <2> DEFINE d == Drained(jobs[l])
  <2>1. /\ phase = "tick" /\ phase' = phase
        /\ shuttingDown' = shuttingDown
        /\ loaded' = loaded
        /\ jobs[l].pid # NoPid
        /\ \A k \in Labels \ {l} : jobs'[k] = jobs[k]
        /\ \/ jobs'[l] = [d EXCEPT !.killed = TRUE, !.killLeft = KillTimer]
           \/ jobs'[l] = d
    BY <1>t, <1>5, Zenon DEF TickKill, TickDrain, Visit
  <2>2. /\ d \in Job
        /\ d.pid = jobs[l].pid
        /\ d.state = "stopping" <=> jobs[l].state = "stopping"
    BY <1>t, DrainedJob, Zenon
  <2> HIDE DEF d
  <2>3. jobs'[l].pid = jobs[l].pid /\ (jobs'[l].state = "stopping" <=> jobs[l].state = "stopping")
    BY <2>1, <2>2, Zenon DEF Job
  <2>4. stage(l)' = stage(l)
    BY <1>a, <1>b, <2>1, <2>3, Zenon DEF StageIs
  <2> QED
    BY <1>m, <2>1, <2>4, Zenon
<1>6. ASSUME NEW l \in Labels, TickSimulateExit(l) PROVE Goal
  <2>1. /\ phase = "tick" /\ phase' = phase
        /\ shuttingDown' = shuttingDown
        /\ l \in loaded /\ loaded' = loaded
        /\ jobs[l].pid # NoPid /\ jobs[l].state = "stopping"
        /\ \A k \in Labels \ {l} : jobs'[k] = jobs[k]
        /\ jobs'[l] = Exited(jobs[l])
    BY <1>t, <1>6, Zenon DEF TickSimulateExit, Visit, TypeOK
  <2>2. ~jobs[l].enabled
    BY <1>e, <2>1, Zenon
  <2>3. jobs'[l].pid = NoPid /\ jobs'[l].enabled = jobs[l].enabled
    BY <1>t, <2>1, ExitedJob
  <2>4. stage(l) = "ending" /\ stage(l)' = "off"
    BY <1>a, <1>b, <2>1, <2>2, <2>3, Zenon DEF StageIs
  <2> QED
    BY <1>m, <2>1, <2>4, Zenon
<1>7. ASSUME NEW l \in Labels, TickSpawn(l) \/ TickSpawnFails(l) PROVE Goal
  <2>1. /\ phase = "tick" /\ phase' = phase
        /\ shuttingDown' = shuttingDown /\ ~shuttingDown
        /\ l \in loaded /\ loaded' = loaded
        /\ jobs[l].pid = NoPid /\ jobs[l].state = "waiting"
        /\ \A k \in Labels \ {l} : jobs'[k] = jobs[k]
    BY <1>t, <1>7, Zenon DEF TickSpawn, TickSpawnFails, Visit, Due, TypeOK
  <2>2. jobs[l].enabled
    BY <1>w, <2>1, Zenon
  <2>3. stage(l) = "due"
    BY <1>b, <2>1, <2>2, Zenon DEF StageIs
  <2>4. CASE TickSpawn(l)
    <3>1. PICK p \in Pids :
             jobs'[l] = [jobs[l] EXCEPT !.pid = p, !.state = "launching", !.setup = TRUE,
                                        !.killed = FALSE, !.wait = config(l).throttle]
      BY <1>t, <2>4, Zenon DEF TickSpawn
    <3>2. jobs'[l].pid # NoPid /\ jobs'[l].state = "launching"
      BY <1>t, <3>1, LaunchdAssumption DEF Job
    <3>3. stage(l)' = "up"
      BY <1>a, <2>1, <3>2, Zenon DEF StageIs
    <3> QED
      BY <1>m, <2>1, <2>3, <3>3, Zenon DEF goingDown
  <2>5. CASE TickSpawnFails(l)
    <3> DEFINE s == IF jobs[l].enabled /\ config(l).keepAlive THEN "waiting" ELSE "idle"
    <3>1. jobs'[l] = [jobs[l] EXCEPT !.wait = config(l).throttle, !.state = s]
      BY <1>t, <2>5, Zenon DEF TickSpawnFails
    <3>2. jobs'[l].pid = NoPid /\ jobs'[l].enabled = jobs[l].enabled
      <4> HIDE DEF s
      <4> QED
        BY <1>t, <2>1, <3>1 DEF Job
    <3>3. stage(l)' \in {"due", "idle"}
      BY <1>a, <2>1, <2>2, <3>2, Zenon DEF StageIs
    <3> QED
      BY <1>m, <2>1, <2>3, <3>3, Zenon DEF goingDown
  <2> QED
    BY <1>7, <2>4, <2>5, Zenon
<1>8. CASE Collect
  <2> DEFINE S == {l \in loaded : jobs[l].pid = NoPid}
  <2>1. /\ phase = "tick" /\ phase' = "wait"
        /\ shuttingDown' = shuttingDown /\ shuttingDown
        /\ S \in SUBSET Labels
        /\ loaded' = loaded \ S
        /\ \A k \in loaded \ S : jobs'[k] = Stopped(jobs[k])
        /\ \A k \in Labels \ loaded : jobs'[k] = jobs[k]
    BY <1>t, <1>8, Zenon DEF Collect, CollectGarbage, Erased
  <2>2. \A l \in S : stage(l) = "off" /\ stage(l)' = "absent"
    BY <1>t, <1>a, <1>b, <1>w, <2>1, Zenon DEF StageIs
  <2>3. ASSUME NEW k \in Labels \ S PROVE Stays(k)
    <3>1. CASE k \notin loaded
      BY <1>a, <1>b, <2>1, <3>1, Zenon DEF StageIs, Stays
    <3>2. CASE k \in loaded
      <4>1. jobs[k].pid # NoPid /\ jobs[k].state = "stopping"
        BY <1>e, <1>w, <2>1, <3>2, Zenon
      <4>2. jobs'[k].pid = jobs[k].pid /\ jobs'[k].state = "stopping"
        BY <1>t, <2>1, <3>2, <4>1, StoppedJob, Zenon
      <4> QED
        BY <1>a, <1>b, <2>1, <3>2, <4>1, <4>2, Zenon DEF StageIs, Stays
    <3> QED
      BY <3>1, <3>2, Zenon
  <2> HIDE DEF S
  <2>4. goingDown' <=> goingDown
    BY <2>1, Zenon DEF goingDown
  <2> QED
    BY <2>1, <2>2, <2>3, <2>4, ServiceRemoves, Zenon DEF Goal
<1>9. CASE FinishShutdown \/ EmergencyDone
  <2>1. /\ \/ phase = "tick" /\ shuttingDown
           \/ phase = "emergency"
        /\ phase' = "done"
        /\ shuttingDown' = shuttingDown
        /\ loaded' = {}
        /\ \A l \in loaded : jobs[l].pid = NoPid
    BY <1>9, Zenon DEF FinishShutdown, EmergencyDone, Erased
  <2>2. \A l \in loaded : stage(l) = "off" /\ stage(l)' = "absent"
    BY <1>t, <1>a, <1>b, <1>w, <2>1, Zenon DEF StageIs
  <2>3. \A k \in Labels \ loaded : Stays(k)
    BY <1>a, <1>b, <2>1, Zenon DEF StageIs, Stays
  <2>4. goingDown' <=> goingDown
    BY <2>1, Zenon DEF goingDown
  <2> QED
    BY <1>t, <2>2, <2>3, <2>4, ServiceRemoves, Zenon DEF Goal
<1>10. ASSUME NEW e \in batch, Shutdown(e) PROVE Goal
  <2> DEFINE gone == {l \in loaded : jobs[l].pid = NoPid}
  <2>1. phase = "events" /\ phase' = phase /\ shuttingDown' = TRUE
    BY <1>10, Zenon DEF Shutdown, Event
  <2>2. CASE shuttingDown
    BY <1>g, <1>10, <2>1, <2>2, Zenon DEF Shutdown, goingDown
  <2>3. CASE ~shuttingDown
    <3>1. /\ loaded' = loaded \ gone
          /\ \A k \in loaded \ gone : jobs'[k] = Stopped(jobs[k])
      BY <1>t, <1>10, <2>3, Zenon DEF Shutdown, CollectGarbage, Erased
    <3>2. goingDown'
      BY <2>1, Zenon DEF goingDown
    <3>3. ASSUME NEW k \in Labels
          PROVE  /\ stage(k)' \in {"absent", "off", "ending"}
                 /\ stage(k) = "absent" => stage(k)' = "absent"
                 /\ stage(k) \in {"up", "ending"} <=> stage(k)' = "ending"
      <4>1. CASE k \notin loaded \ gone
        BY <1>a, <1>b, <2>1, <3>1, <4>1, Zenon DEF StageIs
      <4>2. CASE k \in loaded \ gone
        <5>1. jobs'[k].pid = jobs[k].pid /\ jobs[k].pid # NoPid /\ jobs'[k].state = "stopping"
          BY <1>t, <3>1, <4>2, StoppedJob, Zenon
        <5> QED
          BY <1>a, <1>b, <2>1, <3>1, <4>2, <5>1, Zenon DEF StageIs
      <4> QED
        BY <4>1, <4>2, Zenon
    <3> QED
      BY <3>2, <3>3, ServiceGoesDown, Zenon DEF Goal
  <2> QED
    BY <2>2, <2>3, Zenon
<1>11. ASSUME NEW e \in batch, Activate(e) PROVE Goal
  <2>1. phase = "events" /\ phase' = phase /\ shuttingDown' = shuttingDown /\ loaded' = loaded
    BY <1>11, Zenon DEF Activate, Event
  <2>2. CASE jobs' = jobs
    BY <1>g, <2>1, <2>2, Zenon DEF goingDown
  <2>3. CASE jobs' # jobs
    <3>1. PICK l \in loaded :
             /\ activatable(l) /\ ~shuttingDown
             /\ jobs' = [jobs EXCEPT ![l].state = "waiting"]
      BY <1>11, <2>3, Zenon DEF Activate
    <3>2. l \in Labels
      BY <1>t, <3>1, Zenon
    <3>3. jobs'[l] = [jobs[l] EXCEPT !.state = "waiting"]
      BY <1>t, <3>1, <3>2, Zenon
    <3>4. jobs'[l].pid = NoPid /\ jobs'[l].enabled = jobs[l].enabled /\ jobs'[l].state = "waiting"
      BY <1>t, <3>1, <3>2, <3>3, Zenon DEF activatable, Job
    <3>5. stage(l) = "idle" /\ stage(l)' = "due"
      BY <1>a, <1>b, <2>1, <3>1, <3>2, <3>4, Zenon DEF StageIs, activatable
    <3>6. \A k \in Labels \ {l} : jobs'[k] = jobs[k]
      BY <1>t, <3>1, Zenon
    <3> QED
      BY <1>m, <2>1, <3>1, <3>2, <3>5, <3>6, Zenon DEF goingDown
  <2> QED
    BY <2>2, <2>3, Zenon
<1>12. ASSUME NEW e \in batch, Load(e) PROVE Goal
  <2>1. e.arg \in Files
    BY <1>t, <1>12, EventArguments, Zenon DEF Load
  <2> QED
    BY <1>1, <1>12, <2>1, Zenon DEF Load, Event, goingDown
<1>13. ASSUME NEW e \in batch, Start(e) PROVE Goal
  <2> DEFINE l == e.arg
             s == IF jobs[l].pid = NoPid THEN "waiting" ELSE jobs[l].state
  <2>1. /\ phase = "events" /\ phase' = phase
        /\ shuttingDown' = shuttingDown /\ ~shuttingDown
        /\ loaded' = loaded
        /\ l \in loaded /\ jobs[l].state # "stopping"
    BY <1>13, Zenon DEF Start, Event
  <2>2. /\ l \in Labels
        /\ jobs'[l] = [jobs[l] EXCEPT !.enabled = TRUE, !.state = s]
        /\ \A k \in Labels \ {l} : jobs'[k] = jobs[k]
    BY <1>t, <1>13, <2>1, Zenon DEF Start
  <2>3. jobs'[l].pid = jobs[l].pid /\ jobs'[l].enabled = TRUE /\ jobs'[l].state = s
    <3> HIDE DEF s, l
    <3> QED
      BY <1>t, <2>2 DEF Job
  <2>4. CASE jobs[l].pid # NoPid
    <3>1. stage(l)' = stage(l)
      BY <1>a, <1>b, <2>1, <2>2, <2>3, <2>4, Zenon DEF StageIs
    <3> HIDE DEF l
    <3> QED
      BY <1>m, <2>1, <2>2, <3>1, Zenon
  <2>5. CASE jobs[l].pid = NoPid
    <3>1. stage(l) \in {"off", "idle", "due"} /\ stage(l)' = "due"
      BY <1>a, <1>b, <2>1, <2>2, <2>3, <2>5, Zenon DEF StageIs
    <3> HIDE DEF l
    <3> QED
      BY <1>m, <2>1, <2>2, <3>1, Zenon DEF goingDown
  <2> QED
    BY <2>4, <2>5, Zenon
<1>14. ASSUME NEW e \in batch, Stop(e) PROVE Goal
  <2> DEFINE l == e.arg
             d == Stopped(jobs[l])
  <2>1. /\ phase = "events" /\ phase' = phase
        /\ shuttingDown' = shuttingDown /\ ~shuttingDown
        /\ loaded' = loaded
        /\ l \in loaded
    BY <1>14, Zenon DEF Stop, Event
  <2>2. /\ l \in Labels
        /\ jobs'[l] = [d EXCEPT !.remove = @ \/ e.op = "unload"]
        /\ \A k \in Labels \ {l} : jobs'[k] = jobs[k]
    BY <1>t, <1>14, <2>1, Zenon DEF Stop
  <2>3. /\ d \in Job
        /\ d.pid = jobs[l].pid
        /\ d.enabled = FALSE
        /\ d.state = IF jobs[l].pid = NoPid THEN "idle" ELSE "stopping"
    BY <1>t, <2>1, <2>2, StoppedJob, Zenon
  <2>4. jobs'[l].pid = d.pid /\ jobs'[l].enabled = d.enabled /\ jobs'[l].state = d.state
    <3> HIDE DEF d, l
    <3> QED
      BY <2>2, <2>3, Zenon DEF Job
  <2> HIDE DEF d
  <2>5. CASE jobs[l].pid # NoPid
    <3>1. stage(l) \in {"up", "ending"} /\ stage(l)' = "ending"
      BY <1>a, <1>b, <2>1, <2>2, <2>3, <2>4, <2>5, Zenon DEF StageIs
    <3> HIDE DEF l
    <3> QED
      BY <1>m, <2>1, <2>2, <3>1, Zenon DEF goingDown
  <2>6. CASE jobs[l].pid = NoPid
    <3>1. stage(l) \in {"off", "idle", "due"} /\ stage(l)' = "off"
      BY <1>a, <1>b, <2>1, <2>2, <2>3, <2>4, <2>6, Zenon DEF StageIs
    <3> HIDE DEF l
    <3> QED
      BY <1>m, <2>1, <2>2, <3>1, Zenon DEF goingDown
  <2> QED
    BY <2>5, <2>6, Zenon
<1>15. ASSUME NEW e \in batch, Handle(e) PROVE Goal
  <2>1. CASE SetOverride(e) \/ Refuse(e)
    BY <1>g, <2>1, Zenon DEF SetOverride, Refuse, Event, goingDown
  <2> QED
    BY <1>10, <1>11, <1>12, <1>13, <1>14, <1>15, <2>1, Zenon DEF Handle
<1>16. ASSUME LoopFails PROVE Goal
  <2>1. phase \in {"reap", "wait"} /\ phase' = "emergency" /\ UNCHANGED <<loaded, jobs>>
    BY <1>16, Zenon DEF LoopFails
  <2>2. goingDown'
    BY <2>1, Zenon DEF goingDown
  <2>3. ASSUME NEW k \in Labels
        PROVE  /\ stage(k)' \in {"absent", "off", "ending"}
               /\ stage(k) = "absent" => stage(k)' = "absent"
               /\ stage(k) \in {"up", "ending"} <=> stage(k)' = "ending"
    BY <1>a, <1>b, <2>1, Zenon DEF StageIs
  <2> QED
    BY <2>2, <2>3, ServiceGoesDown, Zenon DEF Goal
<1>17. ASSUME NEW l \in Labels, EmergencyReap(l) PROVE Goal
  <2>1. /\ phase = "emergency" /\ phase' = phase
        /\ shuttingDown' = shuttingDown
        /\ l \in loaded /\ loaded' = loaded
        /\ jobs[l].pid # NoPid
        /\ jobs'[l] = [jobs[l] EXCEPT !.pid = NoPid]
        /\ \A k \in Labels \ {l} : jobs'[k] = jobs[k]
    BY <1>t, <1>17, Zenon DEF EmergencyReap
  <2>2. jobs'[l].pid = NoPid
    BY <1>t, <2>1, Zenon DEF Job
  <2>3. stage(l) = "ending" /\ stage(l)' = "off"
    BY <1>a, <1>b, <2>1, <2>2, Zenon DEF StageIs
  <2> QED
    BY <1>m, <2>1, <2>3, Zenon
<1>18. CASE ClockTick
  <2>1. phase' = phase /\ shuttingDown' = shuttingDown /\ loaded' = loaded
    BY <1>18, Zenon DEF ClockTick
  <2>2. ASSUME NEW k \in Labels PROVE Stays(k)
    <3>1. jobs'[k] = [jobs[k] EXCEPT !.wait = Down(@), !.stopLeft = Down(@), !.killLeft = Down(@)]
      BY <1>t, <1>18, Zenon DEF ClockTick
    <3>2. /\ jobs'[k].pid = jobs[k].pid
          /\ jobs'[k].state = jobs[k].state
          /\ jobs'[k].enabled = jobs[k].enabled
      BY <1>t, <3>1, Zenon DEF Job
    <3> QED
      BY <1>t, <2>1, <3>2, SameStage, Zenon
  <2> QED
    BY <2>1, <2>2, ServiceStutters, Zenon DEF goingDown, Goal
<1>19. CASE Run \/ ReapDone \/ Arm \/ Kevent \/ EventsDone \/ Ended
  BY <1>g, <1>19, Zenon DEF Run, ReapDone, Arm, Kevent, EventsDone, Ended, vars, goingDown
<1>20. ASSUME NEW l \in Labels, TickSkip(l) \/ Accept(l) PROVE Goal
  BY <1>g, <1>20, Zenon DEF TickSkip, Visit, Accept, goingDown
<1>21. ASSUME NEW p \in Pids,
              \/ Exec(p) \/ ChildFailure(p) \/ LeaderExits(p) \/ ForkHelper(p)
              \/ HelpersExit(p) \/ Wedge(p) \/ Unwedge(p) \/ ReapForever(p)
       PROVE  Goal
  BY <1>g, <1>21, Zenon DEF Exec, ChildFailure, LeaderExits, ForkHelper, HelpersExit, Wedge,
                     Unwedge, ReapForever, goingDown
<1>22. ASSUME NEW n \in Names, Connect(n) PROVE Goal
  BY <1>g, <1>22, Zenon DEF Connect, goingDown
<1> QED
  BY <1>2, <1>3, <1>4, <1>5, <1>6, <1>7, <1>8, <1>9, <1>15, <1>16, <1>17, <1>18, <1>19,
     <1>20, <1>21, <1>22, Zenon
  DEF Next, Loop, TickJob, Emergency, Kernel

-----------------------------------------------------------------------------
(* The theorems.                                                           *)

\* launchd keeps its inductive invariant, whatever jobs are configured and
\* whatever its clients and the jobs' processes do.
THEOREM InvariantHolds == Spec => []LaunchdInvariant
<1>1. Init => LaunchdInvariant
  <2> SUFFICES ASSUME Init PROVE LaunchdInvariant
    BY Zenon
  <2>1. TypeOK
    <3>1. jobs \in [Labels -> Job] /\ groups \in [Pids -> Group]
      BY BlankAndFree, Zenon DEF Init
    <3>2. overrides \in Overrides /\ startup \in Seq(Files)
      BY LaunchdAssumption, Zenon DEF Init
    <3>3. bound \in [Names -> Labels \union {Nobody}]
      BY Zenon DEF Init
    <3>4. shuttingDown \in BOOLEAN
      BY Zenon DEF Init
    <3>5. age \in [Labels -> Nat]
      BY Zenon DEF Init
    <3> QED
      BY <3>1, <3>2, <3>3, <3>4, <3>5, Zenon DEF Init, TypeOK, Phases
  <2>2. \A l \in Labels : jobs[l].pid = NoPid
    BY Zenon DEF Init, Blank
  <2>3. \A p \in Pids : ~Alive(groups[p])
    BY BlankAndFree, Zenon DEF Init
  <2>4. loaded = {} /\ phase = "boot" /\ ~shuttingDown
    BY Zenon DEF Init
  <2> QED
    BY <2>1, <2>2, <2>3, <2>4, Zenon DEF LaunchdInvariant, OwnProcesses, NoLostProcess,
                                  OnlyWantedJobsAreDue, StateMatchesProcess
<1>2. LaunchdInvariant /\ [Next]_vars => LaunchdInvariant'
  <2>1. CASE UNCHANGED vars
    BY Zenon, <2>1
       DEF vars, loopVars, jobVars, ioVars, LaunchdInvariant, TypeOK, config, OwnProcesses,
                NoLostProcess, OnlyWantedJobsAreDue, StateMatchesProcess
  <2> QED
    BY SMTT(30), <2>1, InvariantStep
<1> QED
  BY <1>1, <1>2, PTL DEF Spec

\* No process ID that launchd would signal can belong to another job, or to
\* nobody: a job's ID names the group forked for it until its leader is waited
\* for.
THEOREM SignalsReachOwnProcesses == Spec => []OwnProcesses
  BY InvariantHolds, PTL DEF LaunchdInvariant

\* No process of a job is forgotten: it belongs to a group a job still holds,
\* or to one that was sent SIGKILL.
THEOREM NoProcessIsLost == Spec => []NoLostProcess
  BY InvariantHolds, PTL DEF LaunchdInvariant

\* What is due for a launch is wanted: a stop, an unload and a shutdown are
\* never undone by KeepAlive, a connection or a failed attempt.
THEOREM DueJobsAreWanted == Spec => []OnlyWantedJobsAreDue
  BY InvariantHolds, PTL DEF LaunchdInvariant

\* ThrottleInterval separates any two attempts to launch a job, whatever the
\* intervals of the jobs and whatever asked for the second attempt.
THEOREM AttemptsAreThrottled == Spec => Throttled
<1> DEFINE Step == \A l \in Labels : Forks(l) => age[l] >= config(l).throttle
<1>1. Init => ThrottleInvariant
  BY Zenon DEF Init, ThrottleInvariant
<1>2. LaunchdInvariant /\ ThrottleInvariant /\ [Next]_vars => ThrottleInvariant'
  <2>1. CASE UNCHANGED vars
    BY <2>1, Zenon DEF vars, jobVars, ThrottleInvariant, config
  <2> QED
    BY <2>1, ThrottleStep, Zenon
<1>3. LaunchdInvariant /\ ThrottleInvariant /\ [Next]_vars => [Step]_vars
  <2> SUFFICES ASSUME LaunchdInvariant, ThrottleInvariant, Next, NEW l \in Labels, Forks(l)
               PROVE  age[l] >= config(l).throttle
    BY Zenon
  <2>1. l \in loaded /\ jobs[l].wait = 0
    BY ForkIsLaunch, Zenon DEF Due
  <2>2. age[l] \in Nat /\ config(l).throttle \in Nat
    BY <2>1, LoadedConfig, Zenon DEF LaunchdInvariant, TypeOK, Config
  <2> QED
    BY <2>1, <2>2 DEF ThrottleInvariant
<1> QED
  BY <1>1, <1>2, <1>3, InvariantHolds, PTL DEF Spec, Throttled

\* No process is killed before its time: SIGKILL follows SIGTERM by the whole
\* ExitTimeOut of the job, for every ExitTimeOut, however often it is stopped.
THEOREM StoppingIsGraceful == Spec => Graceful
<1> DEFINE Step == \A l \in loaded :
                     LET p == jobs[l].pid IN
                     /\ p # NoPid
                     /\ LeaderLives(groups[p])
                     /\ ~groups[p].killed
                     /\ groups'[p].killed
                     => \/ phase' = "emergency"
                        \/ groups[p].grace = 0 /\ config(l).exitTimeout # 0
<1>1. Init => GraceInvariant
  BY Zenon DEF Init, GraceInvariant
<1>2. LaunchdInvariant /\ GraceInvariant /\ [Next]_vars => GraceInvariant'
  <2>1. CASE UNCHANGED vars
    BY <2>1, Zenon DEF vars, jobVars, GraceInvariant
  <2> QED
    BY <2>1, GraceStep, Zenon
<1>3. LaunchdInvariant /\ GraceInvariant /\ [Next]_vars => [Step]_vars
  <2> SUFFICES ASSUME LaunchdInvariant, GraceInvariant, Next, NEW l \in loaded,
                      jobs[l].pid # NoPid, LeaderLives(groups[jobs[l].pid]),
                      ~groups[jobs[l].pid].killed, groups'[jobs[l].pid].killed,
                      phase' # "emergency"
               PROVE  groups[jobs[l].pid].grace = 0 /\ config(l).exitTimeout # 0
    BY Zenon
  <2>1. l \in Labels /\ jobs[l].pid \in Pids
    BY OneHolder, Zenon DEF LaunchdInvariant, TypeOK
  <2>2. groups[jobs[l].pid] # Free
    BY DEF Free, LeaderLives
  <2>3. ASSUME NEW k \in Labels, TickSpawn(k), groups'[jobs[l].pid] = Forked(k)
        PROVE  FALSE
    BY <2>1, <2>3, Zenon DEF Forked, Free
  <2>4. PICK k \in Labels : TickKill(k) /\ jobs[k].pid = jobs[l].pid
    BY <2>1, <2>3, GroupStep, Zenon
  <2>5. k = l
    BY <2>1, <2>4, OneHolder, Zenon
  <2>6. /\ jobs[l].state = "stopping"
        /\ config(l).exitTimeout # 0
        /\ jobs[l].stopLeft = 0
    BY <2>4, <2>5, Zenon DEF TickKill, stopDeadlinePassed
  <2>7. groups[jobs[l].pid].grace \in 0..jobs[l].stopLeft
    BY <2>6, Zenon DEF GraceInvariant, GivenTime
  <2> QED
    BY <2>6, <2>7
<1> QED
  BY <1>1, <1>2, <1>3, InvariantHolds, PTL DEF Spec, Graceful

\* Once shutdown began nothing is loaded, forked or made due, whatever requests
\* are still in flight and whatever the processes do.
THEOREM ShutdownIsQuiet == Spec => QuietShutdown
<1> DEFINE Step == shuttingDown =>
                     /\ loaded' \subseteq loaded
                     /\ \A l \in Labels : ~Forks(l)
                     /\ \A l \in loaded' : jobs'[l].state \notin {"waiting", "launching"}
                                           \/ jobs'[l].state = jobs[l].state
<1>1. LaunchdInvariant /\ [Next]_vars => [Step]_vars
  <2> SUFFICES ASSUME LaunchdInvariant, Next, shuttingDown
               PROVE  /\ loaded' \subseteq loaded
                      /\ \A l \in Labels : ~Forks(l)
                      /\ \A l \in loaded' : jobs'[l].state \notin {"waiting", "launching"}
                                            \/ jobs'[l].state = jobs[l].state
    BY Zenon
  <2>1. \A l \in Labels : ~Forks(l)
    BY ForkIsLaunch, Zenon DEF Due
  <2> QED
    BY <2>1, QuietStep, Zenon
<1> QED
  BY <1>1, InvariantHolds, PTL DEF Spec, QuietShutdown

\* A socket path of a loaded job reaches the listener of that job from its load
\* on, whatever is loaded, unloaded, refused or fails to load: only the load of a
\* file with another spelling of the path, which load() lets pass, takes it away.
THEOREM SocketsAreReached == Spec => SocketsReachTheirJob
<1>1. LaunchdInvariant /\ [Next]_vars =>
        [\A l \in loaded' : \A s \in config(l)'.sockets :
            \/ bound'[Resolve[s]] = l
            \/ l \in loaded /\ bound[Resolve[s]] # l
            \/ \E f \in Files :
                  /\ Loading(f) /\ Loadable(f) /\ SpelledOtherwise(f, s)
                  /\ bound'[Resolve[s]] \in {Plist[f].label, Nobody}]_vars
  <2> SUFFICES ASSUME LaunchdInvariant, Next,
                      NEW l \in loaded', NEW s \in Plist[jobs'[l].file].sockets,
                      l \in loaded => bound[Resolve[s]] = l
               PROVE  bound'[Resolve[s]] = l \/ TakesOver(s)
    BY Zenon DEF TakesOver, config
  <2> QED
    BY SocketsStep, Zenon
<1> QED
  BY <1>1, InvariantHolds, PTL DEF Spec, SocketsReachTheirJob

\* launchd implements the lifecycle that the users of launchctl are promised: what
\* Reap, tick(), the requests, shutdown() and emergencyStop() do to a job is one
\* move of Service, or nothing that Service speaks of.
THEOREM LaunchdImplementsService == Spec => ImplementsService
<1>1. Init => EnabledInvariant /\ Lifecycle!Init
  <2> SUFFICES ASSUME Init PROVE EnabledInvariant /\ Lifecycle!Init
    BY Zenon
  <2>1. EnabledInvariant
    BY Zenon DEF Init, EnabledInvariant
  <2>2. \A l \in Labels : stage(l) = "absent"
    <3>1. \A l \in Labels : l \notin loaded /\ jobs[l].pid = NoPid
      BY Zenon DEF Init, Blank
    <3> QED
      BY <3>1, Zenon DEF stage
  <2>3. (shuttingDown \/ phase \in {"emergency", "done"}) = FALSE
    BY Zenon DEF Init
  <2> QED
    BY <2>1, <2>2, <2>3, Zenon DEF Lifecycle!Init
<1>2. LaunchdInvariant /\ EnabledInvariant /\ [Next]_vars => EnabledInvariant'
  <2> SUFFICES ASSUME LaunchdInvariant, EnabledInvariant, [Next]_vars PROVE EnabledInvariant'
    BY Zenon
  <2>1. CASE Next
    BY <2>1, EnabledStep, Zenon
  <2>2. CASE UNCHANGED vars
    BY <2>2, Zenon DEF vars, jobVars, EnabledInvariant
  <2> QED
    BY <2>1, <2>2, Zenon
<1>3. LaunchdInvariant /\ LaunchdInvariant' /\ EnabledInvariant /\ [Next]_vars
         => [Lifecycle!Next]_(Lifecycle!vars)
  <2> SUFFICES ASSUME LaunchdInvariant, LaunchdInvariant', EnabledInvariant, [Next]_vars
               PROVE  Lifecycle!Next \/ UNCHANGED Lifecycle!vars
    BY Zenon
  <2>1. CASE Next
    BY <2>1, ServiceStep, Zenon
  <2>2. CASE UNCHANGED vars
    <3>1. \A k \in Labels : Stays(k)
      BY <2>2, Zenon DEF Stays, stage, vars, jobVars, loopVars
    <3> QED
      BY <2>2, <3>1, ServiceStutters, Zenon DEF goingDown, vars, jobVars, loopVars
  <2> QED
    BY <2>1, <2>2, Zenon
<1> QED
  BY <1>1, <1>2, <1>3, InvariantHolds, PTL DEF Spec, ImplementsService, Lifecycle!Spec
=============================================================================
