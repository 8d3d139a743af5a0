----------------------------- MODULE MCLaunchd -----------------------------
(***************************************************************************)
(* Instances of Launchd for TLC.  Each run picks job files, the requests   *)
(* that clients send and how the jobs' processes misbehave.                *)
(***************************************************************************)
EXTENDS Launchd

Plain(l) == [label |-> l, keepAlive |-> FALSE, runAtLoad |-> FALSE,
             disabled |-> FALSE, throttle |-> 1, exitTimeout |-> 1,
             sockets |-> {}]

Ask(ops, args) == [op : ops, arg : args]
Reboot == Ask({"reboot"}, {0})

NoneRecorded == {[l \in Labels |-> "none"]}

NoSockets == [s \in {} |-> s]

\* One KeepAlive job.
KeepAlivePlist == <<[Plain(1) EXCEPT !.keepAlive = TRUE]>>
LifecycleCommands == Ask({"start", "stop", "unload", "load"}, {1}) \union Reboot
LifecycleStartup == <<1>>

\* Two on-demand jobs with a socket each, a Disabled file that wants the first
\* one's socket under the second one's label, and a file that wants it under
\* another spelling of its path.
Spellings == [s \in {"/a", "/b", "//a"} |-> IF s = "//a" THEN "/a" ELSE s]
SocketPlist == <<[Plain(1) EXCEPT !.sockets = {"/a"}, !.exitTimeout = 0],
                 [Plain(2) EXCEPT !.sockets = {"/b"}, !.runAtLoad = TRUE],
                 [Plain(2) EXCEPT !.sockets = {"/a"}, !.disabled = TRUE],
                 [Plain(2) EXCEPT !.sockets = {"//a"}]>>
SocketStartup == <<1, 2>>
SocketCommands ==
    Ask({"unload"}, {1, 2}) \union Ask({"load"}, {1, 3, 4}) \union Ask({"enable"}, {2})

\* One label, served on demand by one file and kept alive by another, whose
\* processes hang.
LivePlist == <<[Plain(1) EXCEPT !.sockets = {"/a"}, !.exitTimeout = 2],
               [Plain(1) EXCEPT !.keepAlive = TRUE]>>
OneSocket == [s \in {"/a"} |-> s]
LiveCommands == Ask({"stop", "unload"}, {1}) \union Ask({"load"}, {2}) \union Reboot
=============================================================================
