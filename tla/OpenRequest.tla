---------------------------- MODULE OpenRequest ----------------------------
(***************************************************************************)
(* One request of open to opend (pkgs/open): the caller (open.cpp, main),  *)
(* the worker that serves it (opend.cpp, worker, serve and spawn), and the *)
(* handlers it launches.  The worker is forked and connected already.      *)
(*                                                                         *)
(* A launch makes two processes: a holder, whose process ID is reported    *)
(* and names the process group, and the handler in that group.  An ID is   *)
(* free again once the holder was waited for, and another program may get  *)
(* it.  Which handlers the items resolve to is part of the request; their  *)
(* arguments, streams and environment are left out.                        *)
(***************************************************************************)
EXTENDS Naturals, Sequences, FiniteSets

CONSTANTS
    Requests,   \* requests: the handlers resolved, by whether they use the
                \* caller's terminal, and whether the caller waits (-W)
    Pids        \* the process IDs fork can return

ASSUME OpenRequestAssumption ==
    Requests \subseteq [terminal : Seq(BOOLEAN), wait : BOOLEAN]

VARIABLES
    request,    \* what the caller asks
    caller,     \* where the caller is, or how it ended
    pendingSignal,  \* pendingSignal: a signal of the keyboard to be forwarded
    targets,    \* the process groups the caller forwards signals to
    worker,     \* where the worker is
    current,    \* the process ID of the launch under way
    launched,   \* launched: process IDs and terminal flags
    results,    \* results: the process IDs waited for
    inbox,      \* frames on their way to the caller
    sent,       \* whether the request was sent
    group,      \* what each process ID names
    failed      \* history: whether some handler could not be executed

callerVars == <<caller, pendingSignal, targets>>
workerVars == <<worker, current, launched, results>>
vars == <<request, callerVars, workerVars, inbox, sent, group, failed>>

NoPid == 0

\* A process group: whose it is, the two processes, what the pipe for exec
\* errors would return, whether it uses the terminal, whether it got SIGHUP.
Free == [whose |-> "nobody", holder |-> "none", handler |-> "none",
         status |-> "open", terminal |-> FALSE, hup |-> FALSE]
Other == [Free EXCEPT !.whose = "other"]
Launch(terminal) == [Free EXCEPT !.whose = "request", !.holder = "running",
                                 !.handler = "starting", !.terminal = terminal]

HandlerRuns(g) == g.handler \in {"starting", "running"}

Ended == {"exit0", "exit1", "killed"}
CallerOpen == caller \notin Ended
WorkerGone == {"exit", "killed"}

\* The reply's Waiting.
Waiting == request.wait \/ \E i \in DOMAIN launched : launched[i].terminal

launchedPids == {launched[i].pid : i \in DOMAIN launched}

-----------------------------------------------------------------------------
(* The worker.                                                             *)

Goto(from, to) == worker = from /\ worker' = to

\* receiveFrame returns the request.
Receive ==
    /\ Goto("receive", "resolve")
    /\ sent
    /\ UNCHANGED <<request, callerVars, current, launched, results, inbox, sent,
                   group, failed>>

\* The deadline passes, or the caller is gone.
ReceiveFails ==
    /\ Goto("receive", "exit")
    /\ ~sent
    /\ UNCHANGED <<request, callerVars, current, launched, results, inbox, sent,
                   group, failed>>

\* Everything is resolved before anything is launched.
Resolve ==
    /\ \/ Goto("resolve", "spawn")
       \/ Goto("resolve", "refuse")
    /\ UNCHANGED <<request, callerVars, current, launched, results, inbox, sent,
                   group, failed>>

\* spawn(), up to the return of fork.
Spawn ==
    /\ Goto("spawn", "status")
    /\ Len(launched) < Len(request.terminal)
    /\ \E p \in Pids :
          /\ group[p] = Free
          /\ current' = p
          /\ group' = [group EXCEPT ![p] =
                          Launch(request.terminal[Len(launched) + 1])]
    /\ UNCHANGED <<request, callerVars, launched, results, inbox, sent, failed>>

\* searchPath, pipe or fork fails; handlers launched before it stay.
SpawnFails ==
    /\ Goto("spawn", "refuse")
    /\ Len(launched) < Len(request.terminal)
    /\ UNCHANGED <<request, callerVars, current, launched, results, inbox, sent,
                   group, failed>>

SpawnDone ==
    /\ Goto("spawn", "reply")
    /\ Len(launched) = Len(request.terminal)
    /\ UNCHANGED <<request, callerVars, current, launched, results, inbox, sent,
                   group, failed>>

\* Mutant: whatever the pipe returns, the launch is taken to have succeeded.
StatusIgnored ==
    /\ Goto("status", "spawn")
    /\ group[current].status # "open"
    /\ launched' = Append(launched, [pid |-> current,
                                     terminal |-> group[current].terminal])
    /\ UNCHANGED <<request, callerVars, current, results, inbox, sent, group, failed>>

\* End of file on the pipe: the handler is executed.
Status ==
    /\ Goto("status", "spawn")
    /\ group[current].status = "eof"
    /\ launched' = Append(launched, [pid |-> current,
                                     terminal |-> group[current].terminal])
    /\ UNCHANGED <<request, callerVars, current, results, inbox, sent, group, failed>>

\* An error on the pipe: the holder is waited for.
Collect ==
    /\ Goto("status", "refuse")
    /\ group[current].status = "errno"
    /\ group[current].holder = "zombie"
    /\ group' = [group EXCEPT ![current] = Free]
    /\ UNCHANGED <<request, callerVars, current, launched, results, inbox, sent,
                   failed>>

\* sendFrame, if the caller is there to receive it.
Send(frame) == inbox' = IF CallerOpen THEN Append(inbox, frame) ELSE inbox

Refuse ==
    /\ Goto("refuse", "exit")
    /\ Send([kind |-> "reply", ok |-> FALSE, waiting |-> FALSE, pids |-> {}])
    /\ UNCHANGED <<request, callerVars, current, launched, results, sent, group,
                   failed>>

Reply ==
    /\ CallerOpen
    /\ Goto("reply", IF Waiting THEN "wait" ELSE "exit")
    /\ Send([kind |-> "reply", ok |-> TRUE, waiting |-> Waiting,
             pids |-> IF \E i \in DOMAIN launched : launched[i].terminal
                      THEN launchedPids ELSE {}])
    /\ UNCHANGED <<request, callerVars, current, launched, results, sent, group,
                   failed>>

\* sendFrame throws: the caller is gone, or launching took longer than ioTimeout.
SendFails ==
    /\ \/ Goto("reply", "exit")
       \/ Goto("refuse", "exit")
    /\ UNCHANGED <<request, callerVars, current, launched, results, inbox, sent,
                   group, failed>>

\* waitpid(WNOHANG) of one launched process.
WaitReap(p) ==
    /\ worker = "wait"
    /\ p \in launchedPids \ results
    /\ group[p].holder = "zombie"
    /\ results' = results \union {p}
    /\ group' = [group EXCEPT ![p] = Free]
    /\ UNCHANGED <<request, callerVars, worker, current, launched, inbox, sent, failed>>

\* Mutant: the wait ends with the first handler.
CompleteEarly ==
    /\ Goto("wait", "exit")
    /\ results # {}
    /\ Send([kind |-> "completion"])
    /\ UNCHANGED <<request, callerVars, current, launched, results, sent, group,
                   failed>>

Complete ==
    /\ Goto("wait", "exit")
    /\ results = launchedPids
    /\ Send([kind |-> "completion"])
    /\ UNCHANGED <<request, callerVars, current, launched, results, sent, group,
                   failed>>

\* Mutant: every terminal handler is signalled, those waited for included.
HangupAll == {launched[i].pid : i \in {j \in DOMAIN launched : launched[j].terminal}}

\* Mutant: only the last handler is signalled.
HangupLast ==
    IF launched[Len(launched)].terminal THEN {launched[Len(launched)].pid} \ results
    ELSE {}

\* The groups that are sent SIGHUP when the caller leaves.
Hangup ==
    {launched[i].pid : i \in {j \in DOMAIN launched : launched[j].terminal}} \ results

\* Mutant: the connection is watched for the sake of terminal handlers only.
CallerLeftTerminal ==
    /\ Goto("wait", "exit")
    /\ results # launchedPids
    /\ ~CallerOpen
    /\ Hangup # {}
    /\ group' = [p \in Pids |-> IF p \in Hangup THEN [group[p] EXCEPT !.hup = TRUE]
                                ELSE group[p]]
    /\ UNCHANGED <<request, callerVars, current, launched, results, inbox, sent,
                   failed>>

\* poll finds the connection closed.
CallerLeft ==
    /\ Goto("wait", "exit")
    /\ results # launchedPids
    /\ ~CallerOpen
    /\ group' = [p \in Pids |-> IF p \in Hangup THEN [group[p] EXCEPT !.hup = TRUE]
                                ELSE group[p]]
    /\ UNCHANGED <<request, callerVars, current, launched, results, inbox, sent,
                   failed>>

\* opend's job was stopped or opend failed: launchd kills the workers in its
\* group.  Holders and handlers have sessions of their own.
WorkerKilled ==
    /\ worker \notin WorkerGone
    /\ worker' = "killed"
    /\ UNCHANGED <<request, callerVars, current, launched, results, inbox, sent,
                   group, failed>>

-----------------------------------------------------------------------------
(* The handlers.                                                           *)

processVars == <<request, callerVars, workerVars, inbox, sent>>

\* execve in the handler.
Exec(p) ==
    /\ group[p].handler = "starting"
    /\ group' = [group EXCEPT ![p] = [@ EXCEPT !.handler = "running", !.status = "eof"]]
    /\ UNCHANGED <<processVars, failed>>

\* failChild, in the holder or in the handler.
FailChild(p) ==
    /\ group[p].handler = "starting"
    /\ group' = [group EXCEPT ![p] = [@ EXCEPT !.handler = "ended", !.status = "errno"]]
    /\ failed' = TRUE
    /\ UNCHANGED processVars

\* A handler exits or is killed, in which case it may not have got to execve.
HandlerEnds(p) ==
    /\ HandlerRuns(group[p])
    /\ group' = [group EXCEPT ![p] = [@ EXCEPT !.handler = "ended", !.status = "eof"]]
    /\ UNCHANGED <<processVars, failed>>

\* The holder waits for the handler, and exits as it did.  It ignores what is sent
\* to its group; that it is killed on its own is left out.
HolderEnds(p) ==
    /\ group[p].holder = "running"
    /\ group[p].handler = "ended"
    /\ group' = [group EXCEPT ![p].holder = "zombie"]
    /\ UNCHANGED <<processVars, failed>>

\* Once the worker is gone, process 1 waits for the holders.
Adopted(p) ==
    /\ worker \in WorkerGone
    /\ group[p].holder = "zombie"
    /\ group' = [group EXCEPT ![p] = Free]
    /\ UNCHANGED <<processVars, failed>>

\* Another program's process group gets a free ID, and gives it back.
OtherGroup(p) ==
    /\ \/ group[p] = Free /\ group' = [group EXCEPT ![p] = Other]
       \/ group[p].whose = "other" /\ group' = [group EXCEPT ![p] = Free]
    /\ UNCHANGED <<processVars, failed>>

-----------------------------------------------------------------------------
(* The caller.                                                             *)

callerRest == <<request, workerVars, group, failed>>

\* Its request is sent, and it waits for the reply.
Ask ==
    /\ caller = "send"
    /\ caller' = "reply"
    /\ sent' = TRUE
    /\ UNCHANGED <<callerRest, pendingSignal, targets, inbox>>

ReceiveReply ==
    /\ caller = "reply"
    /\ inbox # <<>>
    /\ caller' = IF ~Head(inbox).ok THEN "exit1"
                 ELSE IF Head(inbox).waiting THEN "wait" ELSE "exit0"
    /\ targets' = Head(inbox).pids
    /\ inbox' = Tail(inbox)
    /\ UNCHANGED <<callerRest, pendingSignal, sent>>

ReceiveCompletion ==
    /\ caller = "wait"
    /\ inbox # <<>>
    /\ caller' = "exit0"
    /\ inbox' = Tail(inbox)
    /\ UNCHANGED <<callerRest, pendingSignal, targets, sent>>

\* replyTimeout passes.
ReplyTimesOut ==
    /\ caller \in {"send", "reply"}
    /\ inbox = <<>>
    /\ caller' = "exit1"
    /\ UNCHANGED <<callerRest, pendingSignal, targets, inbox, sent>>

\* The connection was closed and nothing is left to read.
Closed ==
    /\ caller \in {"reply", "wait"}
    /\ inbox = <<>>
    /\ worker \in WorkerGone
    /\ caller' = "exit1"
    /\ UNCHANGED <<callerRest, pendingSignal, targets, inbox, sent>>

\* The keyboard's signals are remembered while handlers use the terminal.
Remember ==
    /\ caller = "wait"
    /\ targets # {}
    /\ ~pendingSignal
    /\ pendingSignal' = TRUE
    /\ UNCHANGED <<callerRest, caller, targets, inbox, sent>>

Forward ==
    /\ caller = "wait"
    /\ pendingSignal
    /\ pendingSignal' = FALSE
    /\ UNCHANGED <<callerRest, caller, targets, inbox, sent>>

\* Any other signal, or the keyboard's when nothing uses the terminal.
Killed ==
    /\ CallerOpen
    /\ caller' = "killed"
    /\ UNCHANGED <<callerRest, pendingSignal, targets, inbox, sent>>

-----------------------------------------------------------------------------
Init ==
    /\ request \in Requests
    /\ caller = "send"
    /\ pendingSignal = FALSE
    /\ targets = {}
    /\ worker = "receive"
    /\ current = NoPid
    /\ launched = <<>>
    /\ results = {}
    /\ inbox = <<>>
    /\ sent = FALSE
    /\ group = [p \in Pids |-> Free]
    /\ failed = FALSE

Worker ==
    \/ Receive \/ ReceiveFails \/ Resolve \/ Spawn \/ SpawnFails \/ SpawnDone
    \/ Status \/ Collect \/ Refuse \/ Reply \/ SendFails
    \/ \E p \in Pids : WaitReap(p)
    \/ Complete \/ CallerLeft

Caller == Ask \/ ReceiveReply \/ ReceiveCompletion \/ ReplyTimesOut \/ Closed

Processes(p) == Exec(p) \/ FailChild(p) \/ HolderEnds(p) \/ Adopted(p)

Next ==
    \/ Worker \/ WorkerKilled \/ Caller \/ Remember \/ Forward \/ Killed
    \/ \E p \in Pids : Processes(p) \/ HandlerEnds(p) \/ OtherGroup(p)

Spec == Init /\ [][Next]_vars

\* Worker and caller take their next step: every wait of theirs has a deadline,
\* or ends with the other side or with a handler, and each forwarded signal is
\* followed by a look at the connection.  A process that is started is
\* executed or fails, and a holder notices its handler's end.  Handlers may run
\* for ever, and nobody need be killed.
Fairness ==
    /\ WF_vars(Worker) /\ WF_vars(Caller) /\ WF_vars(Forward)
    /\ \A p \in Pids : WF_vars(Processes(p))

FairSpec == Spec /\ Fairness

-----------------------------------------------------------------------------
(* Properties.                                                             *)

Group == [whose : {"nobody", "request", "other"}, holder : {"none", "running", "zombie"},
          handler : {"none", "starting", "running", "ended"},
          status : {"open", "eof", "errno"}, terminal : BOOLEAN, hup : BOOLEAN]

\* The type invariant of the two sides of a request and of its handlers.
TypeOK ==
    /\ request \in Requests
    /\ caller \in {"send", "reply", "wait"} \union Ended
    /\ pendingSignal \in BOOLEAN
    /\ targets \subseteq Pids
    /\ worker \in {"receive", "resolve", "spawn", "status", "refuse", "reply", "wait"}
                  \union WorkerGone
    /\ current \in Pids \union {NoPid}
    /\ launched \in Seq([pid : Pids, terminal : BOOLEAN])
    /\ results \subseteq launchedPids
    /\ sent \in BOOLEAN
    /\ group \in [Pids -> Group]
    /\ failed \in BOOLEAN

\* open -W returns 0 only when every handler it launched has ended: the
\* completion frame is never early, and none is missed however the handlers'
\* ends interleave with the polls.
WaitIsOver ==
    caller = "exit0" /\ Waiting => \A p \in Pids : ~HandlerRuns(group[p])

\* A handler that could not be executed is never reported as launched: open
\* does not return 0.
FailureIsReported == failed => caller # "exit0"

\* Until the worker has waited for a process, its ID names the group it was
\* launched in, so the worker's SIGHUP reaches no other program's.
HangupReachesHandlers ==
    [][CallerLeft => \A p \in Hangup : group[p].whose = "request"]_vars

\* When a waiting worker ends, no handler is left on a terminal whose caller is
\* gone without having been hung up.
HungUp ==
    [][worker = "wait" /\ worker' = "exit" =>
         \A p \in Pids : HandlerRuns(group[p]) /\ group[p].terminal => group'[p].hup]_vars

\* A worker ends once its caller has ended, so it does not hold a place in
\* opend's pool for ever; and a caller ends once the handlers have, however
\* the two met their deadlines.
BothEnd ==
    /\ ~CallerOpen ~> worker \in WorkerGone
    /\ caller = "reply" ~> caller # "reply"
    /\ (caller = "wait" /\ \A p \in Pids : ~HandlerRuns(group[p])) ~> caller # "wait"
=============================================================================
