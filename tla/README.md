# Verification of MiniDarwin's own programs

MiniDarwin is mostly a build: Nix expressions and patches that turn Apple's
published sources into a small system. The programs that the repository itself
contributes are few, and the ones that can go wrong in interesting ways are
these:

| Part | Source | What is hard about it |
| --- | --- | --- |
| launchd | `pkgs/launchd/daemon.cpp`, `job.cpp` | process IDs that are reused, processes that ignore or survive signals, requests that arrive while a job changes state, shutdown |
| launchctl and the control channel | `daemon.cpp`, `client.cpp`, `common.cpp` | partial reads and writes, descriptor numbers that are reused, two launchds for one socket, a database written while power may fail |
| mdpkg, offline roots | `pkgs/installer/install.c` | being killed between two changes of the file system |
| mdpkg, payloads and receipts | `install.c`, `util.c`, `receipts.c` | links in the root and in the package, scripts and other programs that move things, undoing half an installation |
| mdpkg, packages | `package.c`, `installer-js.c`, `main.c` | choices that depend on each other |
| open and opend | `pkgs/open` | a worker pool, exiting while clients connect, process groups named by ID |
| string buffers | `pkgs/compat/sbuf/sbuf.c` | drains and allocations that fail half-way, nested sections |
| mdrootfs | `scripts/mdrootfs.py` | links that leave the tree, trees that change while they are read |
| kernel support | `pkgs/xnu/support`, `pkgs/libsystem` | reseeding and rejection sampling at the edges of integer ranges |

`PROJECT.json` lists every part with its status, the hazards at the lines
where they bite, the runs, the theorems, and the source lines each definition
stands for.

## What is here

```
Launchd        launchd's supervisor: loop, jobs, process groups, sockets, shutdown
Service        the life of a job as launchctl's users are promised it
LaunchdProofs  Launchd's invariants and action properties, and that it implements Service
MCLaunchd      instances of Launchd for TLC

Transaction        mdpkg on an offline root: lock, recovery, staging, publication
AtomicInstall      what mdpkg promises about such a root
TransactionProofs  Transaction's inductive invariant, and that it implements AtomicInstall
MCTransaction      an instance of Transaction for TLC

OverrideDatabase  the record of enable and disable: memory, file, the steps between
ControlChannel    launchd's control socket, its clients and launchctl, over OverrideDatabase
ControlProofs     the database is whole and agrees with memory, alone and through the
                  channel; who owns the endpoint, whom events reach, true answers
MCControlChannel  an instance of ControlChannel for TLC

PayloadPaths        trees with links, and the resolution of packaged paths in them
Install, MCInstall  one run of mdpkg install, live and offline, call by call
InstallProofs       what is replaced, what is left, and what the inventories say
Selection, MCSelection  which components of a product archive are installed
SelectionProofs     settling, loading and comparing versions, for any Distribution

Sbuf, MCSbuf    a string buffer, call by call
SbufProofs      its storage, its room, and that nothing is lost or miscounted

Opend, MCOpend              opend's loop, worker pool and idle exit
OpendProofs                 the inductive invariants of Opend and of OpenResolve, and what
                            follows from them
OpenRequest, MCOpenRequest  one request: the caller, its worker, the handlers
RequestProofs               OpenRequest's inductive invariant and what follows from it
OpenResolve, MCOpenResolve  how a worker finds and groups the handlers
```

## Launchd

launchd is one thread that repeats: `reap()`; a pass of `tick()` over the jobs
in the order of their labels; then either `collectGarbage()` during shutdown or
putting the listeners of idle on-demand jobs into the kqueue; then `kevent`
with a timeout of 100 ms; then the events it returned. The model's `phase` is
the place in this loop, and each of its actions is one iteration of one of the
loops in the code, because the kernel acts between any two of them:

| Action | Code |
| --- | --- |
| `LoadDirectories`, `Run` | constructor, `loadDirectories`, the entry of `run` |
| `Reap`, `ReapDone` | one turn of `reap()` |
| `TickErase`, `TickKill`, `TickSimulateExit`, `TickDrain`, `TickSpawn`, `TickSpawnFails`, `TickSkip` | the branches of `tick()` for one job, with `escalate`, `exited`, `drainExecError` and `spawn` |
| `Arm`, `Collect`, `FinishShutdown` | what follows `tick()` in `run()` |
| `Kevent`, `Shutdown`, `Activate`, `Load`, `Start`, `Stop`, `SetOverride`, `Refuse`, `EventsDone` | the events: signals first, then listeners and requests in any order |
| `LoopFails`, `EmergencyReap`, `EmergencyDone`, `ReapForever` | an exception in the loop: `emergencyStop`, `main`, `reapForever` |
| `Exec`, `ChildFailure`, `LeaderExits`, `ForkHelper`, `HelpersExit`, `Wedge`, `Unwedge`, `Connect`, `Accept`, `ClockTick` | the kernel, the jobs' programs and their clients |

A process group is a slot of `Pids`; its record says for which job it was
forked, what became of the leader, whether other members are alive, and which
signals it got. A slot is free for the next `fork` as soon as its leader was
waited for and it has no other member. The owner of a group is known to the
model and not to launchd, and that is what makes `OwnProcesses` a statement
about reuse of process IDs. Time is a step that counts every deadline down; it
does not happen within `tick()`, which reads the clock once.

Left out: exit statuses, log lines and launch errors that launchd only reports;
the standard streams and environment of a job; how a request travels (a request
here is a whole frame). The override database is one step; `ControlChannel` and
`OverrideDatabase` have the frames and the system calls.

`Service` has no processes, signals or clocks. The refinement mapping is
`stage(l)`: a job is `absent`, `off`, `idle`, `due`, `up` or `ending`.

### Runs

| Run | Instance | Shows |
| --- | --- | --- |
| `launchd_lifecycle` | one KeepAlive job whose program forks helpers and hangs; start, stop, unload, load, reboot, two requests in one batch, a failing loop, two process IDs | `LaunchdInvariant`, which has all the safety invariants as conjuncts, `Throttled`, `QuietShutdown`, and that launchd implements `Service` |
| `launchd_sockets` | two on-demand jobs, a disabled file that wants the first one's socket under the second one's label and another that spells its path differently, one job with ExitTimeOut 0 | `SocketsReachTheirJob`, with the one way in which a job loses its socket, `Graceful`, and `OwnProcesses` between two jobs |
| `launchd_live` | one label served by an on-demand file or a KeepAlive file, whose process hangs in the kernel, stopped again and again | stop, unload and shutdown end; a connection is served |

One job suffices for everything that concerns a job alone; two are needed where
jobs compete, for process IDs and socket files. Two process IDs let a job that
was given up and its successor exist together. Deadlines of one and two units
distinguish "before", "at" and "after". `MaxRequests` bounds the requests in
one batch; two in a batch is what makes stale events and repeated requests
happen.

Fairness (`FairSpec`) is weak fairness of the loop, whose steps never block (the
kevent has a timeout, `waitpid` is called on zombies or with WNOHANG, except in
`emergencyStop`, which is not under fairness), and strong fairness of time,
which cannot pass during `tick()`. Nothing is assumed of job processes or of
clients, except that a program that was sent nothing may stay.

### Proofs

`LaunchdProofs` proves `Spec => []LaunchdInvariant` for any sets of labels,
files, sockets and process IDs, any configurations and any requests, from
`LaunchdAssumption` (the constants have their types, and neither a process ID
nor a label is zero). `OwnProcesses`, `NoLostProcess` and `OnlyWantedJobsAreDue`
follow.

They are not inductive alone. A simulated exit (`TickSimulateExit`) gives up a
group whose leader still lives; nothing is lost only because that group was
sent SIGKILL before, and this is what the clause about `killed` says of each
loaded job. A group is given up in `EmergencyReap` as well, where `killed`
follows from the phase. `reap()` is safe because a zombie leader keeps its ID:
`OwnProcesses` says that a job's leader is unreaped. `StateMatchesProcess` is
needed for `Start`, which decides by `pid` and not by `state`, and
`phase = "boot" => ~shuttingDown` for loading. The proof has one lemma for the
types of each helper (`StoppedJob`, `SettleGroup`, ...), `TypeStep` for the type
invariant, lemmas for the steps that change the loaded jobs
(`LoadKeepsInvariant`, `CollectKeepsInvariant`), one group
(`GroupKeepsInvariant`) or no process at all (`SameProcesses`), and
`InvariantStep` with one step per action.

The action properties of the runs, the sockets and the refinement are proved on top of it:

* `Throttled`: `ThrottleInvariant` says that the time since the last attempt and the
  time left until the next one make up at least ThrottleInterval. Only `TickSpawn`
  forks, and it does so when no time is left.
* `Graceful`: `GraceInvariant` says of every group that a stopping job holds, and whose
  leader lives, that its own count since SIGTERM ends no later than the job's deadline,
  and of every other held group that it has had no SIGTERM.
* `QuietShutdown` needs no more than `LaunchdInvariant`.
* `SocketsReachTheirJob` is a property of steps: a path leads to its job when the job is
  loaded, and goes on doing so, unless a file is loaded in which the path has another
  spelling (see Observations). No hypothesis about spellings is needed; `SocketsStep` has one
  step per action, and what counts is that `load()` compares spellings before it binds, and
  that every other action removes only the sockets of a job that goes.
* `ImplementsService`: each action moves the stage of at most one job, by a move of
  `Service`, or all of them when launchd goes down. `EnabledInvariant` is needed to tell
  `up` from `ending`: a job with a process is stopping exactly if it is not enabled.

## Transaction

`mdpkg install` on an offline root takes a lock file, recovers what an earlier
run left, copies the root to `ROOT.mdpkg-transaction/new`, changes the copy, and
publishes it with two renames. Run `k` installs package `k`; `pc[k]` is its
place. A tree is the set of packages in it, whether it is whole, and the
packages whose scripts changed it without its owner's knowledge. Every change of
the file system is a step, and before each of them the run may be killed
(`Kill`) or fail (`Die`, `DieEarly`, `RemoveFails`, `RollbackRetains`).
`remove_tree` deletes the entries of the transaction directory in any order,
which is the order of `readdir`.

| Run | Shows |
| --- | --- |
| `transaction` | `TransactionInvariant`, by which the root, or the original it is rolled back to, is always whole and recoverable; installing implements `AtomicInstall`; a missing root comes back |
| `transaction_stuck` | violated: see Findings |

Two packages give two runs that compete for the lock and recover each other's
transactions; a third adds no new pair. One of them has a script. Fairness in
`transaction`: somebody tries to install again, the run takes its next step
unless it is killed, and not every recovery is killed or denied its rename. This
is an assumption about the user, not about the code; without it nothing recovers
the root, as nothing but a run of mdpkg looks at it.

`TransactionProofs` proves, for any packages and scripts,
`Spec => []TransactionInvariant`, `Spec => []RootRecoverable` and
`Spec => ImplementsAtomicInstall`. `TransactionInvariant` says for each place of
the run that holds the lock what it finds in the file system: before the first
rename the root exists and lacks the package, between the renames the original
lacks it and the stage is whole and has it, and so on. The refinement is shown
step by step: `Publish` is `Install(k)`, everything else leaves
`current.packages` alone, where `current` is the root, or the original while
there is no root.

## open and opend

Three modules, one for each time scale. `Opend` is the loop of opend's `main`
with launchd's activation around it: `Wait`, `Kevent`, `Reap`, `Accept` and
`Pause` are its parts in order, and clients, workers and launchd act between any
two of them. Time passes only in `Kevent`, where the loop waits. What a worker
does is one step there (`WorkerEnds`).

`OpenRequest` is what that step hides: `Receive`, `Resolve`, `Spawn`, `Status`,
`Collect`, `Reply`, `Refuse`, `WaitReap`, `Complete` and `CallerLeft` are the
worker (`worker`, `serve`, `spawn`); `Exec`, `FailChild` and `HolderEnds` the two
processes of a launch; `Ask`, `ReceiveReply`, `Forward` and the rest the caller
(`open.cpp`). Process IDs are reused as soon as they were waited for, by
`OtherGroup` among others, and either side may be killed. A holder ends when its handler
did: it ignores the signals that callers forward, and that somebody kills it alone (`open -W`
would then end before the handler) is left out.

`OpenResolve` is what `Resolve` hides: tables, bundles, the lookup of an
application or of an item's selectors, and the grouping of items into launches.
`Offers` and `Fit` are an independent reading of the README's list, against which
`FirstMatchWinsInRoom` compares the outcome. Pointers into `owned_` dangle once the
vector has moved, and then read anything.

| Run | Instance | Shows |
| --- | --- | --- |
| `opend` | three callers, a pool of two, one failing system call | an idle exit cuts off nobody; no caller waits for ever |
| `request` | up to two handlers, two process IDs, all combinations of terminal and `-W` | success is reported only for what ran and ended; hanging up reaches the right groups; both sides end |
| `resolve` | up to three items of nine kinds, competing tables and bundles | the documented first choice is launched; each item is passed to one launch, in order |

Three callers exceed the pool, so that the listener is disabled with a caller in
the backlog; two handlers are what it takes for one to end, and its ID to be
reused, while the worker still waits for the other. The room of `owned_` is 64
in the code; the run scales it down, so that requests within and beyond it occur;
the property is about those within (see Observations).
System calls of opend fail at most `MaxFailures` times: if they failed for ever,
nobody would be served.

Fairness: opend's loop waits at most a second; launchd starts an on-demand job
that has a connection, which is `ConnectionsAreServed` of `Launchd`; in `Opend` a
worker ends, which is what `BothEnd` of `OpenRequest` shows for a worker whose
caller has gone or whose handlers have ended. For a caller with `-W` this is an
assumption about the handler and not about opend: a full pool of callers that
wait for handlers that never end serves nobody else. Both sides of a request
have deadlines or wait for each other; in `OpenRequest` handlers may run for ever.

`OpendProofs` proves `WorkersKnown` and `IdleExitIsQuiet` for any callers, any
`MaxWorkers` and any batch, from `OpendAssumption`. The invariant `OpendInvariant`
adds to them that no worker is left while opend is absent, which `Launch` needs
because a new opend starts with an empty set, and that a caller who waits is in
the listener's queue, which the exit needs.

Of a worker's resolution it proves `EachItemOnce` and `FirstMatchWinsInRoom`, for any
files, bundles and requests and any room of `owned_`, from `OpenResolveAssumption`, which
says what parsing and `stat` guarantee of them: a file has at most one extension, which is
not the name of a type, and the origin of a handler, which is its file and line or its
bundle's path, tells a line from every other and from every bundle (`Given`). Without the
last of these two lines could be taken for one handler by `add`.

* `ResolveInvariant`: the launches so far hold exactly the items added so far that are to
  be passed, each in one launch and in order, and two launches of the same handler are
  `single` (`Grouped`, kept by `Add` in lemma `AddKeeps`).
* `MatchInvariant`: while `owned_` has not moved, a pointer leads to what
  `Resolver::item` found for its item, and a launch runs it.
* `FindIsBest` then says, of any tables and bundles, that what the code finds by going
  through selectors, tables, lines and bundles in turn is an offer that no other one
  precedes in the documented order. `LookupIs` has the same of one selector.

`RequestProofs` proves `WaitIsOver`, `FailureIsReported`, `HangupReachesHandlers` and
`HungUp` for any number of handlers and process IDs. `RequestInvariant` has four parts
beside the types. `GroupsAgree`: what a launch's pipe returns tells how far its handler
got. `LaunchesAgree`: while the worker has its launches in hand, the groups of this
request are exactly the launches that it has not waited for and the one under way; this
is what keeps SIGHUP from a process ID that is in use again. `FramesAgree`: a reply
comes first and a completion after it, neither before the worker is that far.
`FramesAreTrue`: what a frame on its way says is true, and remains true until it is
read, as no handler starts later and none comes back to life.

## The control channel and the override database

`OverrideDatabase` is `setOverride`, a system call at a time: unlink the sibling,
create it, write it (in pieces), sync it, then rename it over the database and
change memory. Any call may fail (`OverrideFails`), so may the reading of the database when a
launchd starts (`readOverrides`; `unread` remembers it), the process may be
killed, or the machine may lose power. `db` is the file as `open` sees it, and
`surviving` what it may be after a loss of power: a file whose data was not synced
may turn out `Torn`, and a rename may be undone, as the directory is not synced.
`versions` remembers every map that was ever meant.

`ControlChannel` composes it with the endpoint (`Lock`, `RemoveStale`, `Bind`,
`BindFails`, `CloseSocket`, `Unlock`: the constructor and destructor of `Endpoint`),
the part of `run()` that concerns descriptors (`CloseListeners`, `Arm`, `Kevent`, `Sigterm`,
`Activate`, `AcceptBegin`, `Accept`, `AcceptEnd`, `Drop`, `Read`, `Send`, `SendMore`), the
requests (`Reboot`, `List`, `Load`, `Refuse`, `SetOverride` and its steps) and launchctl
(`Connect`, `Write`, `Receive`, `GiveUp`). Of the jobs it has the descriptors of their
listeners, which come from the same numbers as the clients' and wait in the same queue:
`Load` opens one, and shutdown closes them. What requests do to jobs is `Launchd`'s. A message is counted in units: a header, then a
body; reads, writes and sends move any part of it. `batch` holds the events that
one `kevent` returned. They are served in any order, while descriptors are closed
and the lowest free number is given out again.

| Run | Shows |
| --- | --- |
| `control` | a running launchd has the lock and the socket; no event reaches a client that it is not about; a request takes effect once and whole, and its answer is true; the overrides launchd applies are a whole map that was once meant, or none if it could not read the database; every client's place becomes free again |

Two launchds, one after the other or at once; two connections for one place
(`MaxClients` is 32 in the code), so that a connection is turned away, and one that
is dropped hands its descriptor to the next within a batch; messages of two units
and a socket buffer of one, so that both directions go in pieces. Clients are served
one at a time here; several in one batch are covered by the proofs. There are two
descriptors and three pairs of requests: two changes of the database; a reboot, with a job
that has a listener, and a program that sends nothing; a load, which takes a descriptor, and a
list that sends more than its header says. So a listener that was in the batch is closed by a
shutdown, and a client gets its number before the event is looked at.

Fairness is that of the loop, which waits 100 ms at most, and of time. Nothing is assumed of
the programs that connect: `SlotsAreFreed` is about those that stop half-way.
Deadlock is not checked, as the processes of the instance are used up.

`ControlProofs` proves `OverridesAreWhole` and `MemoryMatchesDisk` of `OverrideSpec`
for any labels, from `OverrideAssumption` (the shipped database is a map).
`DatabaseInvariant` adds what makes them inductive: the sibling is whole before it is
synced and synced before it is renamed, and the database, and everything that may
come back after a loss of power, is a version. Both properties make an exception for a
launchd whose read failed, and only until it has written a database of its own.

It then shows both for `ControlChannel`: each of its actions is one of the
database's or leaves the database alone. The other theorems are about the channel
itself. `EndpointHasOneOwner` needs that whoever is between `flock` and the end of its
destructors has the lock. `EventsAreServed` needs that every event, in the queue or in
the batch, is one that `Watch` makes, for the client that has the descriptor now or without
a generation, and that no descriptor is in both (`EventTable`); that a client has a
generation that is not zero (`ClientTable`); and that the client whose request is
worked on is in neither (`LoopPlace`). Watching one filter at a time keeps a client's own
events fresh. The event of a listener may be stale, and for it the comparison of generations
in `run()` is needed: the mutant that compares descriptors only breaks
`EventsReachTheirOwner`.

`AnswersAreTrue` and `AppliedOnceWhole` need `AnswerInvariant`. A connection is in one
place only, the backlog or one client (`OnePlace`). Nothing was done or
said for one that still waits, and every reply that is framed, on its way or taken is what
became of the request (`TrueReplies`). And a request that is
worked on has arrived as a whole and has no reply yet (`WholeRequest`). The constants are
those of `ControlAssumption`: launchds, connections and descriptors are positive
numbers, the listeners of a start have some of the descriptors, and requests have sizes.

## Installing a payload

`PayloadPaths` has trees as functions from paths to nodes, `Walk`, which is
`resolve_target_path`, and the checks of paths and links. `Lookup` is an independent
definition of what a path means, by recursion on the path instead of by splicing
link targets. `Install` is `preflight`, `install_component` and `receipts_write`, for
the running root and for the staged copy of an offline one. Each `mkdir`, `symlink`,
`open` and final `write` is a step. Live, `journal` records what was made, and `Undo`
takes it back, newest first, each removal possibly failing. The undo goes by path, as
`lstat`, `unlink` and `rmdir` do: where a script has put a link in the place of a directory,
it reaches what the link leads to (`Reached`), and `astray` remembers what it removed in this
way. Between any two steps
another program may write (`Other`), the run may fail or be killed; scripts do any
two things of a small set (`RunHooks`), and may fail after it. A component without a
payload has nothing to extract (`NoPayload`). A path of more than `MaxNames` names stands
for one that `path_join` refuses as longer than PATH_MAX.

| Run | Shows |
| --- | --- |
| `install` | nothing existing is replaced, nor removed but by an undo through a script's link; a failed live install leaves nothing of its own but the lock and directories that hold something others touched, unless a removal fails too; a whole inventory describes a whole component, also after a kill during the undo; the inventories explain every difference of an offline install; entries are found under the names the package gives |

In the 96 roots two names are missing, files, directories or links to each other, out
of the root, to themselves and back over a directory, with and without a receipt of
an earlier install. The eight packages have one or two components, which write to these
names as files, directories and links, among them links that change what a later
path means, a second component whose scripts remove what the first one made or put a link
to another directory in its place, and one without a payload. Another program creates one file at most. `MaxHops` is 3 for 32. There is
no fairness: all properties are about safety. Deadlock is not checked, as a run ends.

Left out: modes, owners and times (and so the part of `restore_base_directories` that
puts them back), the private directory that scripts are unpacked into, and the texts of
the records.

`InstallProofs` proves `NothingIsReplaced`, `NothingIsLeft`, `InventoryIsLast` and
`InventoryExplains`, for any roots, packages, scripts and paths of other programs, from
`InstallAssumption`: a root is a tree, paths are sequences of names, the components of a
package have different identifiers (`package.c:85`), and what a script makes is marked as a
script's. The runs' instance satisfies it. The lemmas come in three layers: paths and
their prefixes; what `Put`, `Without` and `Apply` do to a tree; and what each action does,
in terms of these (`MadeDoes`, `UndoDoes`, `HooksDo`, ...). The inductive invariant has
five parts, each proved on top of the ones before it:

* `Types`: the tree is a tree, the payload was placed outside the reserved directories.
* `OwnInvariant`: what is in the journal is mdpkg's or was touched since; what others made
  was touched; nothing that was there before is inside what mdpkg made. The undo step of
  `NothingIsReplaced` needs the first of these.
* `JournalInvariant`: the journal has everything that mdpkg made, and a directory before
  what is in it, unless the directory was touched. While it is undone, a directory that is
  left is touched itself or has something touched in it that the journal does not have:
  what holds a directory up must not be about to be removed, or was removed astray.
* `InventoryInvariant`: while the run goes on, what is done of each component is there
  (`Written`), and an inventory is whole only once its component is past; after it failed,
  `InventoryIsLast` itself; and in the journal no part of a component follows its inventory,
  unless it was touched.
* `ExplainInvariant`: offline, the tree differs from the root only where the inventories
  will say so.

## Selecting components

`Selection` is `package_load`, `package_resolve` and `package_inspect_candidates`. The
JavaScript of a Distribution is abstracted to what matters to `settle_choices`:
an expression is a literal, a property of some choice or its negation, evaluated in
the order of the outline while others still change; the inline script assigns; a
check compares versions. The installation-check and the volume-check, which run one after
the other in the same way, are one check. References have directories and versions,
which must agree where two nodes name one package (`ReferenceIsSound`). Packages without a
Distribution, which are a single component, and the refusal of a Distribution that repeats an
element are left out. `compare_versions` works on digits as the code does, and
`CheckIsNumeric` compares it with the numbers that the digits stand for.

| Run | Shows |
| --- | --- |
| `selection` | a selection is a fixed point of all expressions; only a chain of `MaxPasses` dependencies, or a cycle, is refused as unstable; the directories loaded are those of active references of selected choices, once each and with the identifier that one of these gives; versions compare as numbers |

`MaxPasses` is 3 for 64. Two choices with up to three expressions form cycles, and
chains on both sides of that limit; versions have up to two components, with leading
zeros. There is no fairness, as the passes are counted and the program is sequential.
Deadlock is not checked, as a resolution ends.

`SelectionProofs` proves all four properties for any Distributions, any number of choices
and any limit, from `SituationsAssumption` (choices and references are what the parser
makes of them), `RootsAssumption` (the root's version is digits) and `MaxPassesAssumption`.
It also proves that no Distribution meets `load_component`'s refusal of a second component
with one identifier. `SelectionInvariant` has four parts:

* `BaseInvariant`: the types, and which way a Distribution takes through loading and
  resolving.
* `SettleInvariant`: a property is stale when its expression has another value than it
  has. A property that was evaluated in this pass and is stale now depends on one that
  changed after it, and so on back through the passes: whatever still changes in pass
  `n` is the start of a chain of `n` expressions that depend on each other
  (`UnstableHasReason`). If nothing changed in a pass, nothing is stale
  (`SelectionIsStable`).
* `LoadInvariant`: what was loaded are the directories of the references passed so far, once
  each, and each is what one of these references names it (`LoadedIsWanted`).
* `CheckInvariant`: an install is stopped exactly if the root's version is the smaller
  number. For digit sequences of any length, the longer significant part is the larger
  number (`LongerIsMore`), and at equal length the first difference decides
  (`FirstDecides`).

## String buffers

`Sbuf` has the calls of `sbuf.c`; those that loop (`cat`, `printf`, the padding of a
section, `finish`) are steps of one byte, one attempt or one drain, each of which may
fail; so may `vsnprintf` (`PrintError`). A drain is set and removed while the buffer is empty
(`SetDrain`). `text` is what was asked for, `out` what the drain took. Three variables record
what the properties except: `unreported` that a printf was cut or failed without an error,
`under` how far `s_len` is below zero after such a failure, `wrong` how many outer sections a
clear has left with the lengths they had.

| Run | Shows |
| --- | --- |
| `sbuf` | what was taken and what is held is the text, unless an error is latched or a printf failed; section lengths are those of the text, but for sections around a clear; every call returns |

Buffers of two and four bytes, and up to five bytes of text in pieces of one to three,
give exact fits, overflows by one, and growth to powers of two and to multiples of
`MaxExtend` (`MinExtend` and `MaxExtend` are 2 and 4, for 16 and 4096). Sections nest
twice and are padded to multiples of two. Fairness: a call
that can go on does.

`SbufProofs` proves `NothingLeaks` and `FinishDelivers` for buffers and texts of any
size. `BufferInvariant` adds that a buffer that is not there has no storage, and that
no call that appends is under way in a finished one.

`NoSilentLoss`, `SectionsCount` and `BufferHasRoom` (a buffer holds less than its size, so
that the terminating zero always has its place) need three invariants. `Shape` has the types
and the room; that `extendsize` gives at least what was asked for rests on 2^n >= n, which
is shown by counting subsets.
`TextInvariant` says that what was taken, what is held and some rest are the text, and that
without an error the rest is what the call has still to do. `SectionInvariant` says, also
where a saved length is -1, that the length of the innermost section is right and that
each saved length that is not the sign for none was right when it was saved. `Chars`, the
bytes a text is made of, may be any set.

## Findings

A run that TLC refutes, and a disagreement between a sentence of the repository and
its code.

* `transaction_stuck`: `remove_tree` may delete the marker file first. A run
  killed right after it leaves a transaction that every later run refuses.

## Observations

Behaviours met while modelling that have no run of their own. Where a property makes
an exception for one, its comment says so.

* launchd: `load()` compares socket paths as strings (`daemon.cpp:210`). Two spellings
  of one path get past it, and the second listener unlinks the first one's socket.
  `SocketsReachTheirJob` makes this exception and no other.
* launchd: an override database that cannot be read counts as empty (`daemon.cpp:225`), and
  the next enable or disable writes a database with that one entry over it. `unread` in
  `OverridesAreWhole` and `MemoryMatchesDisk`.
* launchd: `setOverride` does not enforce the limit of 16384 values that the parser has
  (`common.cpp:66`), so that it may write a database that the next launchd cannot read.
* mdpkg: a script outlives a killed run (`install.c:545`; the layout at `install.c:6`
  calls the copy private) and goes on writing to the
  path where the next run stages its copy.
* open: signals are forwarded to groups that the worker has already waited for,
  whose IDs may be in use again (`open.cpp:338`).
* opend: the 65th handler kept for a request moves the vector that earlier items
  point into (`opend.cpp:249`); `FirstMatchWinsInRoom` is about requests within it.
* opend: a worker reaped in a turn that no SIGCHLD event woke does not restart the
  idle time (`opend.cpp:752`), so opend may exit the moment its last worker ends;
  nobody is cut off by it (`IdleExitIsQuiet`).
* opend: a caller killed before the reply was sent leaves its terminal handlers without
  SIGHUP (`opend.cpp:603`): the worker looks for a caller that left only in its wait,
  and `HungUp` is about that wait.
* launchctl: an enable or disable that succeeded may be undone by a loss of power
  shortly after, as the directory is not synced (`daemon.cpp:252`).
* mdpkg: a link of the root that climbs back over a missing directory
  (`a` to `b/..`) is resolved literally (`install.c:172`); when the package then brings
  `b` as a link, the path means something else. `InstalledWhereNamed` excuses it.
* mdpkg: `live_lock` makes the inventory directory and the lock before `preflight`, and
  neither is journalled (`install.c:691`); they stay after a failure, although the
  installer's README (line 190) has the checks come before anything is written.
* mdpkg: a directory of the root that a script of a later component removed and that mdpkg
  then made anew is younger in the journal than what an earlier component had made in it
  (`install.c:451`). When something is there again in place of that entry, the undo first
  gives the directory up and then removes the entry, and the directory stays, empty.
  `NothingIsLeft` allows for a directory that was touched.
* mdpkg: the undo follows links above a journalled path (`install.c:455`). A live install of
  `a` and `a/x` whose script replaces `a` by a link to the existing directory `b`, and then
  fails, removes `b/x` although it did not make it. `NothingIsReplaced` allows for it, and
  `NothingIsLeft` and `InventoryIsLast` for what it removed.
* mdpkg: directories made only to hold an entry are not in the inventory;
  `InventoryExplains` allows for them.
* mdpkg: a second reference id to a directory that is already loaded is not compared
  with its identifier (`package.c:68`).
* mdpkg: with JavaScript the expression alone decides whether a choice is selected,
  without it the start value must be set too (the installer's README, line 142, says
  so of static Distributions).
* sbuf: a `printf` to an extending buffer for which there is no memory is cut without an
  error (`sbuf.c:449`), which `NoSilentLoss` excuses; one that fills a fixed buffer
  exactly latches ENOMEM although nothing was lost (`sbuf.c:467`).
* sbuf: a `printf` for which `vsnprintf` fails adds its -1 to `s_len` and returns 0
  (`sbuf.c:465`): a byte that was stored is lost, and in an empty buffer `s_len` becomes
  negative. `NoSilentLoss` excuses it too.
* sbuf: a clear within nested sections resets the innermost length only; the outer ones are
  with their callers and remain (`sbuf.c:219`). A negative section length is rounded up as a
  `size_t` (`sbuf.c:662`), which is a multiple only of numbers that divide 2^64.
  `SectionsCount` makes both exceptions.
* sbuf: a trim that takes one byte more than a section has makes its length -1, which
  `sbuf_start_section` then saves as its sign for no section (`sbuf.c:642`).

## Only model-checked

Liveness (`ShutdownCompletes`, `StopCompletes`, `ConnectionsAreServed`,
`RootComesBack`, `CallersAreAnswered`, `BothEnd`, `SlotsAreFreed`,
`CallsReturn`) is out of the prover's reach.

The library's induction rules are as well, since they have an operator as a parameter. Where
a proof needs an induction over a number (the digits of a version, the folders of a request,
the passes of a settling), it argues by the least counterexample instead, from the theorem
that the natural numbers are well-founded (`Smallest` and `UpTo` in the modules concerned).
One safety invariant of a run is not proved: `InstalledWhereNamed` compares two recursive
functions, `Walk` and `Lookup`, one on the tree in which an entry was placed and the other
on the tree in the end. Its proof would need that both recursions, over paths and links
followed, define functions, and an induction over the two together for every step that
adds to the tree. It is not done, and the property stays with TLC.

## Proved, and not part of a run

`NoLostProcess`, `OnlyWantedJobsAreDue`, `StateMatchesProcess` and `RootRecoverable` are
conjuncts of invariants that runs check. `WorkersKnown`, `MemoryMatchesDisk`,
`NothingLeaks`, `FinishDelivers` and `BufferHasRoom` are proved for all constants; no run
repeats them. The inductive invariants of `LaunchdProofs` beyond `LaunchdInvariant`, and
those of `RequestProofs`, `ControlProofs`, `SbufProofs`, `InstallProofs`,
`SelectionProofs` and `OpendProofs`, held on the instances of the runs when TLC checked them there.

The type invariants of `Launchd` and `Transaction` are conjuncts of the invariants
above. Those of `Opend`, `OpenRequest`, `ControlChannel`, `Install`, `Selection` and `Sbuf` held
on the instances of the runs when they were added to the configurations; they are
there for the reader.

## Not modelled

* mdrootfs (`scripts/mdrootfs.py`): manifests, a Merkle tree and the comparison of
  trees. A sequential tool of the release process that keeps no state between calls.
* Trust caches and random numbers of the kernel and of libSystem: lists under their
  caller's lock, a binary search, a deterministic generator that callers serialize, and
  rejection sampling. Small sequential functions; that every residue has equally many
  accepted values could be counted over small widths.
* Parsers of archives, XML and property lists, command lines, JavaScript bindings,
  cryptographic adapters and start-up glue: conversions without state that outlives a
  call.
* The Nix build, which has no concurrency of its own.
