------------------------------ MODULE Service ------------------------------
(***************************************************************************)
(* What launchd promises the users of launchctl about the life of a job,   *)
(* with no process IDs, signals, clocks, sockets or event loop.            *)
(*                                                                         *)
(*     absent  not loaded                  due     to be launched          *)
(*     off     loaded, stopped on request  up      has a process           *)
(*     idle    loaded, could be launched   ending  told to end             *)
(***************************************************************************)
CONSTANT Labels

VARIABLES
    service,   \* the stage each job is in
    down       \* launchd is shutting down, or has failed

vars == <<service, down>>

Stages == {"absent", "off", "idle", "due", "up", "ending"}

Init ==
    /\ service = [l \in Labels |-> "absent"]
    /\ down = FALSE

\* Job l moves from one of the stages in `from' to the stage `to'.
Move(l, from, to) ==
    /\ service[l] \in from
    /\ service' = [service EXCEPT ![l] = to]
    /\ UNCHANGED down

Load(l) == ~down /\ (Move(l, {"absent"}, "idle") \/ Move(l, {"absent"}, "due"))

\* A start request; a job that is ending cannot be started.
Start(l) == ~down /\ Move(l, {"off", "idle"}, "due")

Activate(l) == ~down /\ Move(l, {"idle"}, "due")

Launch(l) == ~down /\ (Move(l, {"due"}, "up") \/ Move(l, {"due"}, "idle"))

\* A process that was not told to end does; a KeepAlive job is due again.
Exit(l) == ~down /\ (Move(l, {"up"}, "idle") \/ Move(l, {"up"}, "due"))

Stop(l) == ~down /\ (Move(l, {"idle", "due"}, "off") \/ Move(l, {"up"}, "ending"))

\* A job that was told to end stays off; only an off job is removed.
End(l) == Move(l, {"ending"}, "off")

Remove ==
    /\ \E S \in SUBSET {l \in Labels : service[l] = "off"} :
          service' = [l \in Labels |-> IF l \in S THEN "absent" ELSE service[l]]
    /\ UNCHANGED down

\* Every process is told to end; every other job is off at once.
GoDown ==
    /\ down' = TRUE
    /\ service' \in [Labels -> Stages]
    /\ \A l \in Labels :
          service'[l] \in CASE service[l] = "absent" -> {"absent"}
                            [] service[l] \in {"up", "ending"} -> {"ending"}
                            [] OTHER -> {"off", "absent"}

Next ==
    \/ \E l \in Labels : \/ Load(l) \/ Start(l) \/ Activate(l) \/ Launch(l)
                         \/ Exit(l) \/ Stop(l) \/ End(l)
    \/ Remove
    \/ GoDown

Spec == Init /\ [][Next]_vars
=============================================================================
