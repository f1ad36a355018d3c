------------------------------- MODULE MCLive -------------------------------
(***************************************************************************)
(* What must eventually happen inside a node, in parts that do not share   *)
(* state: the background threads, blocked clients, the append only file,   *)
(* the output of clients, the event loop.  Every behaviour exercises one   *)
(* part, named by `part', under the fairness of that part; the others stay *)
(* in their initial state.                                                 *)
(***************************************************************************)
EXTENDS BackgroundIO

CONSTANTS Null, q1, c1, j1, k1

VARIABLES part, srv, served,
          job, aof, unsent, replied, unlogged, now, cmds,
          c, queued, toClose, unblocked, monitors, paused,
          s, timers, clock, fired, pc, left, called

qvars == <<srv, served>>
avars == <<job, aof, unsent, replied, unlogged, now, cmds>>
ovars == <<c, queued, toClose, unblocked, monitors, paused>>
lvars == <<s, timers, clock, fired, pc, left, called>>

\* A client blocked on a queue that is paused and resumed.
Queue == INSTANCE Queues WITH
    QNames <- {q1}, Clients <- {c1}, Jobs <- {1}, QueueOf <- <<q1>>, Pauses <- {{}, {"out"}},
    GetJobs <- {[from |-> <<q1, q1>>, count |-> 2, nohang |-> FALSE]}

\* appendfsync everysec, switched on and off at runtime.
Aof == INSTANCE AppendOnlyFile WITH
    Jobs <- {j1}, Policies <- {"everysec"}, AppendOnly <- FALSE, NoFsyncOnRewrite <- FALSE,
    LoadTruncated <- TRUE, Faults <- {}, Admin <- {"config"}, MaxCmds <- 2, MaxTime <- 3, MaxFsyncs <- 1

\* A client whose write handler cannot always be installed.
Output == INSTANCE ClientOutput WITH
    pending <- queued, Clients <- {k1}, MaxClients <- 2, Commands <- {"reply", "quit", "block"},
    Sizes <- {3}, MaxMade <- 3, BufSize <- 2, Chunk <- 3, Hard <- 0, Soft <- 0, SoftSeconds <- 1,
    Failures <- {"aeCreateFileEvent"}

Loop0 == INSTANCE EventLoop WITH
    MaxFd <- 3, SetSize <- 3, MaxConns <- 3, Resizes <- FALSE, Sec <- 4,
    Periods <- [p \in {"serverCron", "processJobs"} |-> IF p = "serverCron" THEN 3 ELSE 1],
    MaxReal <- 2, Clocks <- {}, SkewAt <- {}, MaxSkews <- 0

-----------------------------------------------------------------------------
MCInit ==
    /\ part \in {"bio", "queue", "aof", "output", "loop"}
    /\ Init /\ Queue!Init /\ Aof!Init /\ Output!Init /\ Loop0!Init

MCNext ==
    /\ UNCHANGED part
    /\ \/ part = "bio" /\ Next /\ UNCHANGED <<qvars, avars, ovars, lvars>>
       \/ part = "queue" /\ Queue!Next /\ UNCHANGED <<vars, avars, ovars, lvars>>
       \/ part = "aof" /\ Aof!Next /\ UNCHANGED <<vars, qvars, ovars, lvars>>
       \/ part = "output" /\ Output!Next /\ UNCHANGED <<vars, qvars, avars, lvars>>
       \/ part = "loop" /\ Loop0!Next /\ UNCHANGED <<vars, qvars, avars, ovars>>

\* The fairness of each part, as in its module.
MCFairness ==
    /\ WF_vars(part = "bio" /\ Main) /\ SF_vars(part = "bio" /\ MainLock)
    /\ \A t \in Types : WF_vars(part = "bio" /\ Thread(t)) /\ SF_vars(part = "bio" /\ ThreadLock(t))
    /\ WF_qvars(part = "queue" /\ Queue!BeforeSleep)
    /\ WF_avars(part = "aof" /\ Aof!beforeSleep) /\ WF_avars(part = "aof" /\ Aof!serverCron)
    /\ WF_avars(part = "aof" /\ Aof!BioFsync) /\ WF_avars(part = "aof" /\ Aof!ChildAsksToStop)
    /\ WF_avars(part = "aof" /\ Aof!aofChildPipeReadable)
    /\ WF_avars(part = "aof" /\ Aof!ChildFinishes)
    /\ WF_ovars(part = "output" /\ Output!beforeSleep) /\ WF_ovars(part = "output" /\ Output!serverCron)
    /\ WF_ovars(part = "output" /\ Output!PauseTimeReached)
    /\ SF_ovars(part = "output" /\ Output!sendReplyToClient(k1))
    /\ WF_ovars(part = "output" /\ Output!Unblock(k1))
    /\ WF_lvars(part = "loop" /\ Loop0!Loop)

MCSpec == MCInit /\ [][MCNext]_<<part, vars, qvars, avars, ovars, lvars>> /\ MCFairness

-----------------------------------------------------------------------------
(* The properties of the parts; those of the threads are in BackgroundIO. *)

\* Nobody waits for ever for what the node could do: the buffered command of a
\* client that was unblocked is processed (processUnblockedClients), a client
\* blocked on a queue that is not paused gets a job that is there
\* (handleClientsBlockedOnQueues), data that arrived is read (aeProcessEvents),
\* the replies of a client that reads are delivered
\* (handleClientsWithPendingWrites, sendReplyToClient), and a client flagged
\* CLIENT_CLOSE_AFTER_REPLY is closed (writeToClient); unless the client goes
\* away.
ClientsServed ==
    /\ Queue!PendingProcessed
    /\ Queue!ServableServed
    /\ Loop0!DataIsServed
    /\ Output!RepliesDelivered
    /\ Output!CloseAfterReplyCloses

\* What is fed to the AOF is eventually written, also when a slow fsync
\* postponed the flush (flushAppendOnlyFile), and the first rewrite after
\* appendonly yes ends: parent and child do not block each other
\* (backgroundRewriteDoneHandler).
LogProgresses == Aof!EventuallyFlushed /\ Aof!RewriteEnds
=============================================================================
