------------------------- MODULE MCControlChannel -------------------------
EXTENDS ControlChannel, TLC

\* The image ships one job disabled.
MCShipped == [l \in Labels |-> IF l = 1 THEN "disabled" ELSE Unset]

Message(verb, name) ==
    [size |-> 1, sends |-> HeaderLen + 1, command |-> verb, label |-> name]

\* disable another job while the shipped one is enabled; reboot while a program
\* that is not launchctl sends nothing; load while one sends more than its frame.
MCRequests ==
    {<<Message("disable", 2), Message("enable", 1)>>,
     <<Message("reboot", 1), [Message("unknown", 2) EXCEPT !.sends = 0]>>,
     <<Message("load", 1), [Message("list", 2) EXCEPT !.sends = HeaderLen + 2]>>}

\* A job waits for connections where launchd is told to shut down.
MCListeners == [r \in MCRequests |-> IF r[1].command = "reboot" THEN {Min(Fds)} ELSE {}]
=============================================================================
