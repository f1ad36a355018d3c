---------------------------- MODULE MCJobProtocol ---------------------------
(***************************************************************************)
(* JobProtocol for TLC.  A behaviour is one of a scenario: some ADDJOB     *)
(* arguments, some commands, some faults, and the bounds that go with      *)
(* them.  The configurations give the constants of the first scenario.     *)
(***************************************************************************)
EXTENDS JobProtocol

VARIABLE scenario

mcvars == <<vars, scenario>>

Opt(repl, retry, delay, async) ==
    [repl |-> repl, retry |-> retry, delay |-> delay, async |-> async]

\* At-least-once jobs replicated to two nodes before the reply, the same with
\* DELAY or not, with the second copy best effort or not; at-most-once jobs.
Sync2 == {Opt(2, TRUE, FALSE, FALSE)}
Sync2Delay == {Opt(2, TRUE, d, FALSE) : d \in BOOLEAN}
SyncOrAsync2 == {Opt(2, TRUE, FALSE, a) : a \in BOOLEAN}
RetryZero == {Opt(1, FALSE, d, a) : d, a \in BOOLEAN}

\* Nodes short of memory and paused queues instead of crashes.
Pressure == INSTANCE JobProtocol WITH Options <- Sync2Delay, Commands <- {"GETJOB"},
    Faults <- {"lose", "memory", "pause"},
    MaxInFlight <- 2, MaxDeliveries <- 1, MaxCrashes <- 0

\* Nodes that queue the job at the same time; no client takes it.
Requeue == INSTANCE JobProtocol WITH Options <- Sync2Delay, Commands <- {"NACK"},
    Faults <- {"lose", "pause"},
    MaxInFlight <- 3, MaxDeliveries <- 0, MaxCrashes <- 0

DurableInit ==
    \/ scenario = "crash" /\ Init
    \/ scenario = "pressure" /\ Pressure!Init
    \/ scenario = "requeue" /\ Requeue!Init

DurableNext ==
    \/ scenario = "crash" /\ Next /\ UNCHANGED scenario
    \/ scenario = "pressure" /\ Pressure!Next /\ UNCHANGED scenario
    \/ scenario = "requeue" /\ Requeue!Next /\ UNCHANGED scenario

DurableSpec == DurableInit /\ [][DurableNext]_mcvars

\* Nodes that queued the job at the same time drop it from their queues when
\* they hear QUEUED from a greater node (cluster.c:1440): while no client takes
\* it, no node dies and ADDJOB did not fail, the job is never dropped from the
\* last queue it is in, however late the QUEUED messages come.
RequeueKeepsQueue ==
    [][scenario = "requeue" /\ Queued /\ client' # "failed" => Queued']_mcvars

-----------------------------------------------------------------------------
\* At-most-once jobs, and all the commands but DELJOB and FASTACK.
Once == INSTANCE JobProtocol WITH Options <- RetryZero,
    Commands <- {"GETJOB", "ACKJOB", "ENQUEUE", "NACK", "DEQUEUE", "WORKING", "NEEDJOBS"},
    Faults <- {"crash", "lose", "leaving"},
    MaxInFlight <- 2, MaxDeliveries <- 2, MaxCrashes <- 1

\* Nodes that hand the job to each other while it is acknowledged.
Federated == INSTANCE JobProtocol WITH Options <- Sync2,
    Commands <- {"GETJOB", "ACKJOB", "NEEDJOBS"}, Faults <- {},
    MaxInFlight <- 1, MaxDeliveries <- 1, MaxCrashes <- 0

AckedInit ==
    \/ scenario = "ack" /\ Init
    \/ scenario = "once" /\ Once!Init
    \/ scenario = "federated" /\ Federated!Init

AckedNext ==
    \/ scenario = "ack" /\ Next /\ UNCHANGED scenario
    \/ scenario = "once" /\ Once!Next /\ UNCHANGED scenario
    \/ scenario = "federated" /\ Federated!Next /\ UNCHANGED scenario

AckedSpec == AckedInit /\ [][AckedNext]_mcvars

-----------------------------------------------------------------------------
\* The scenario of the configuration alone.
OneSpec == Init /\ scenario = "one" /\ [][Next /\ UNCHANGED scenario]_mcvars
=============================================================================
