------------------------------ MODULE MCServer ------------------------------
(***************************************************************************)
(* What a node does for its clients, its disk and its operator, in parts   *)
(* that do not share state: the event loop, the query buffer and the       *)
(* output of clients, clientsCron, the append only file, and disque.conf.  *)
(* Every behaviour exercises one part, named by `part'; the variables v1   *)
(* to v7 are those of that part, Off where it has fewer.                   *)
(***************************************************************************)
EXTENDS Integers, Sequences

CONSTANTS Off, j1, j2, k1, k2

VARIABLES part, v1, v2, v3, v4, v5, v6, v7

-----------------------------------------------------------------------------
(* The append only file. *)

\* Rewrites, of a child that may fail, while jobs come and go.
Rewrite == INSTANCE AppendOnlyFile WITH
    job <- v1, aof <- v2, unsent <- v3, replied <- v4, unlogged <- v5, now <- v6, cmds <- v7,
    Jobs <- {j1, j2}, Policies <- {"no"}, AppendOnly <- TRUE, NoFsyncOnRewrite <- FALSE,
    LoadTruncated <- TRUE, Faults <- {"child"}, Admin <- {"bgrewrite", "config", "federation"},
    MaxCmds <- 2, MaxTime <- 0, MaxFsyncs <- 2

\* Writes cut short, kills, a failed switch of files; repair and shutdown.
Errors == INSTANCE AppendOnlyFile WITH
    job <- v1, aof <- v2, unsent <- v3, replied <- v4, unlogged <- v5, now <- v6, cmds <- v7,
    Jobs <- {j1}, Policies <- {"everysec", "always"}, AppendOnly <- TRUE, NoFsyncOnRewrite <- FALSE,
    LoadTruncated <- FALSE, Faults <- {"write", "kill", "switch"},
    Admin <- {"bgrewrite", "fix", "shutdown"}, MaxCmds <- 2, MaxTime <- 2, MaxFsyncs <- 2

\* appendfsync always, with every fault but a failed switch.
Always == INSTANCE AppendOnlyFile WITH
    job <- v1, aof <- v2, unsent <- v3, replied <- v4, unlogged <- v5, now <- v6, cmds <- v7,
    Jobs <- {j1, j2}, Policies <- {"always"}, AppendOnly <- TRUE, NoFsyncOnRewrite <- FALSE,
    LoadTruncated <- TRUE, Faults <- {"write", "child", "power", "kill"}, Admin <- {"bgrewrite"},
    MaxCmds <- 2, MaxTime <- 1, MaxFsyncs <- 2

-----------------------------------------------------------------------------
(* disque.conf. *)

L(o, n) == [opt |-> o, val |-> [n |-> n, unit |-> "b"]]
Sized(o, n, unit) == [opt |-> o, val |-> [n |-> n, unit |-> unit]]
Comment == L("#", 0)
Blank == L("", 0)

\* Duplicates, comments, a directive the rewrite does not know, an include, a
\* line with unbalanced quotes, and what an earlier rewrite left.
Edited == INSTANCE Config WITH
    server <- v1, file <- v2, pc <- v3, size <- v4, synced <- v5, sets <- v6, loads <- v7,
    Options <- {"hz", "requirepass", "maxmemory-policy"},
    Values <- {-1, 0, 1, 2, 7, 300, 600, 32768 + 30},
    Files <- {<<>>,
              <<Comment, L("hz", 20), L("rename-command", 0), Blank, Blank, L("hz", 50)>>,
              <<L("include", 0), L("requirepass", 7), L("hz", 20), Comment, L("maxmemory-policy", 1)>>,
              <<L("maxmemory-policy", 1), L("\"", 0), Comment,
                L("# Generated by CONFIG REWRITE", 0), L("hz", 5)>>},
    Included <- <<L("hz", 99)>>, IntBits <- 16, Writes <- {"full", "error"}, MaxSets <- 2

\* Sizes with units, negative numbers, and the option that a start turns off.
Numbers == INSTANCE Config WITH
    server <- v1, file <- v2, pc <- v3, size <- v4, synced <- v5, sets <- v6, loads <- v7,
    Options <- {"maxmemory", "auto-aof-rewrite-min-size", "slowlog-max-len", "aof-enqueue-jobs-once"},
    Values <- {1, 1000, 4096, 3145728, 32767},
    Files <- {<<>>, <<L("aof-enqueue-jobs-once", 1), Sized("maxmemory", 2, "mb")>>,
              <<Sized("auto-aof-rewrite-min-size", 2, "g"), Comment, L("slowlog-max-len", -1)>>},
    Included <- <<>>, IntBits <- 16, Writes <- {"full"}, MaxSets <- 2

-----------------------------------------------------------------------------
(* The query buffer of a client, with CLIENT PAUSE.  Large has a CR and a  *)
(* star in it.                                                             *)

A == <<97>>
BC == <<98, 99>>
Large == <<97, 13, 42, 98>>

Query == INSTANCE QueryParser WITH
    requests <- v1, sent <- v2, c <- v3, paused <- v4,
    Bulks <- {<<A>>, <<A, BC>>, <<Large, <<>>>>, <<>>},
    Lines <- {<<A>>, <<BC, A>>, <<>>},
    Broken <- {<<42, 97, 13, 10>>, <<42, 49, 13, 10, 97, 13, 10>>,
               <<42, 49, 13, 10, 36, 57, 13, 10>>, <<97, 32, 34, 97, 13, 10>>},
    LLongMax <- 127, MaxRequests <- 2, InlineMax <- 60, BigArg <- 4, IoBuf <- 16, MaxBulks <- 3,
    MaxBulkLen <- 8, MaxQueryBuf <- 100, Blocking <- {<<A>>, <<A, BC>>}, Pauses <- TRUE

-----------------------------------------------------------------------------
(* The output of two clients. *)

Output == INSTANCE ClientOutput WITH
    c <- v1, pending <- v2, toClose <- v3, unblocked <- v4, monitors <- v5, paused <- v6,
    Clients <- {k1, k2}, MaxClients <- 2, Commands <- {"reply", "deferred", "block", "kill", "quit"},
    Sizes <- {1, 3}, MaxMade <- 3, BufSize <- 2, Chunk <- 3, Hard <- 5, Soft <- 0,
    SoftSeconds <- 1, Failures <- {"write"}

\* With MONITOR, CLIENT REPLY and CLIENT PAUSE.
Monitored == INSTANCE ClientOutput WITH
    c <- v1, pending <- v2, toClose <- v3, unblocked <- v4, monitors <- v5, paused <- v6,
    Clients <- {k1, k2}, MaxClients <- 2, Commands <- {"reply", "monitor", "on", "off", "pause"},
    Sizes <- {1}, MaxMade <- 2, BufSize <- 1, Chunk <- 3, Hard <- 0, Soft <- 2,
    SoftSeconds <- 0, Failures <- {"aeCreateFileEvent"}

-----------------------------------------------------------------------------
(* The event loop: serverCron runs every 3 ticks, processJobs every tick.  *)

Periods == [p \in {"serverCron", "processJobs"} |-> IF p = "serverCron" THEN 3 ELSE 1]

Loop == INSTANCE EventLoop WITH
    s <- v1, timers <- v2, clock <- v3, fired <- v4, pc <- v5, left <- v6, called <- v7,
    MaxFd <- 3, SetSize <- 3, MaxConns <- 5, Resizes <- FALSE, Sec <- 4, Periods <- Periods,
    MaxReal <- 3, Clocks <- {}, SkewAt <- {}, MaxSkews <- 0

\* CONFIG SET maxclients grows the tables.
Resized == INSTANCE EventLoop WITH
    s <- v1, timers <- v2, clock <- v3, fired <- v4, pc <- v5, left <- v6, called <- v7,
    MaxFd <- 3, SetSize <- 3, MaxConns <- 5, Resizes <- TRUE, Sec <- 4, Periods <- Periods,
    MaxReal <- 1, Clocks <- {}, SkewAt <- {}, MaxSkews <- 0

\* The clock is set; it is never in the first second of the epoch, which
\* when_sec = 0 stands for.
Skewed == INSTANCE EventLoop WITH
    s <- v1, timers <- v2, clock <- v3, fired <- v4, pc <- v5, left <- v6, called <- v7,
    MaxFd <- 3, SetSize <- 3, MaxConns <- 2, Resizes <- FALSE, Sec <- 4, Periods <- Periods,
    MaxReal <- 10, Clocks <- 4 .. 12, SkewAt <- {"poll"}, MaxSkews <- 2

-----------------------------------------------------------------------------
(* clientsCron. *)

Cron == INSTANCE ClientsCron WITH
    now <- v1, clients <- v2, client <- v3, leaving <- v4, told <- v5, visits <- v6,
    Clients <- {1, 2, 3}, Connected <- <<1, 2, 3>>, Hz <- 2, MinIterations <- 2, MaxIdle <- 2,
    BlockTimes <- {1, 2}, Arrivals <- FALSE, Commands <- TRUE, MaxNow <- 5

\* Clients connect and disconnect.
Churn == INSTANCE ClientsCron WITH
    now <- v1, clients <- v2, client <- v3, leaving <- v4, told <- v5, visits <- v6,
    Clients <- {1, 2, 3}, Connected <- <<1>>, Hz <- 2, MinIterations <- 2, MaxIdle <- 2,
    BlockTimes <- {1}, Arrivals <- TRUE, Commands <- TRUE, MaxNow <- 3

-----------------------------------------------------------------------------
MCInit ==
    \/ part = "rewrite" /\ Rewrite!Init
    \/ part = "errors" /\ Errors!Init
    \/ part = "always" /\ Always!Init
    \/ part = "edited" /\ Edited!Init
    \/ part = "numbers" /\ Numbers!Init
    \/ part = "query" /\ Query!Init /\ v5 = Off /\ v6 = Off /\ v7 = Off
    \/ part = "output" /\ Output!Init /\ v7 = Off
    \/ part = "monitored" /\ Monitored!Init /\ v7 = Off
    \/ part = "loop" /\ Loop!Init
    \/ part = "resized" /\ Resized!Init
    \/ part = "skewed" /\ Skewed!Init
    \/ part = "cron" /\ Cron!Init /\ v7 = Off
    \/ part = "churn" /\ Churn!Init /\ v7 = Off

MCNext ==
    /\ UNCHANGED part
    /\ \/ part = "rewrite" /\ Rewrite!Next
       \/ part = "errors" /\ Errors!Next
       \/ part = "always" /\ Always!Next
       \/ part = "edited" /\ Edited!Next
       \/ part = "numbers" /\ Numbers!Next
       \/ part = "query" /\ Query!Next /\ UNCHANGED <<v5, v6, v7>>
       \/ part = "output" /\ Output!Next /\ UNCHANGED v7
       \/ part = "monitored" /\ Monitored!Next /\ UNCHANGED v7
       \/ part = "loop" /\ Loop!Next
       \/ part = "resized" /\ Resized!Next
       \/ part = "skewed" /\ Skewed!Next
       \/ part = "cron" /\ Cron!Next /\ UNCHANGED v7
       \/ part = "churn" /\ Churn!Next /\ UNCHANGED v7

MCSpec == MCInit /\ [][MCNext]_<<part, v1, v2, v3, v4, v5, v6, v7>>

-----------------------------------------------------------------------------
(* The properties of the parts. *)

\* The append only file can be loaded and gives the jobs of the node: the file
\* and the buffer rebuild them through rewrites and restarts
\* (feedAppendOnlyFile), between fork() and the switch no difference is lost
\* (rewriteAppendOnlyFile, aofChildPipeReadable), a write cut short leaves no
\* half command before others (flushAppendOnlyFile), and a server that stopped
\* leaves a file that loads or can be repaired (loadAppendOnlyFile,
\* disque-check-aof.c).
LogLoads ==
    /\ part = "rewrite" => Rewrite!LogIsDataset /\ Rewrite!RewriteIsDataset
    /\ part = "errors" => Errors!LogWellFormed /\ Errors!NeverUnreadable

\* With appendfsync always a job whose producer got its reply survives every
\* crash (beforeSleep flushes before the replies are written).
RepliedDurable == part = "always" => Always!RepliedDurable

\* disque.conf keeps what the operator set: after CONFIG REWRITE the file loads
\* and gives the configuration of the server, also when the rewrite crashes
\* half way (rewriteConfig), rewriting twice changes nothing more, lines the
\* rewrite does not understand stay in their order
\* (rewriteConfigRemoveOrphaned), and jobs are put back into their queues by
\* one start after the operator asked for it (loadDataFromDisk).
ConfigKept ==
    /\ part = "edited" =>
           Edited!RewriteIsConfig /\ Edited!RewriteIsStable /\ Edited!UnknownKept
    /\ part = "numbers" =>
           Numbers!RewriteIsConfig /\ Numbers!RewriteIsStable /\ Numbers!EnqueuedOnce

\* The commands that are executed are those the peer sent, in their order,
\* however the bytes arrive (processInputBuffer); one that is complete in the
\* buffer of a client that may run it does not wait for more bytes
\* (processUnblockedClients); only a malformed request closes the connection
\* (setProtocolError), or a large argument that became complete while the
\* clients were paused.
CommandsExecuted ==
    part = "query" =>
        /\ Query!ExecutedAsSent /\ Query!NothingLeftBehind
        /\ Query!ClosedOnlyIfMalformed \/ Query!StarvedByPause

\* What a client is sent is what was made for it, in the order it was made
\* (prepareClientToWrite, _addReplyToBuffer, writeToClient), a client with
\* output is in clients_pending_write or has a write handler
\* (clientInstallWriteHandler), one over its hard limit is to be closed
\* (checkClientOutputBufferLimits), and no list of the server holds a client
\* that was freed (unlinkClient).
RepliesKept ==
    /\ part = "output" =>
           Output!RepliesInOrder /\ Output!PendingIsScheduled /\ Output!HardLimitCloses
           /\ Output!ListsAgree
    /\ part = "monitored" => Monitored!RepliesInOrder /\ Monitored!PendingIsScheduled

\* The event loop calls the handlers it should: the registrations in the kernel
\* are those of the table (ae_epoll.c), maxfd is the highest descriptor with an
\* event (aeDeleteFileEvent), a handler is called for the connection that owns
\* the descriptor now (aeProcessEvents), and no timer is late by more than a
\* second for every change of the clock (processTimeEvents).
HandlersCalled ==
    /\ part = "loop" => Loop!KernelAgrees /\ Loop!MaxfdIsMax /\ Loop!HandlerGetsLiveClient
    /\ part = "resized" => Resized!KernelAgrees /\ Resized!MaxfdIsMax
    /\ part = "skewed" => Skewed!TimersOnTime

\* clientsCron visits the clients in turn: one blocked longer than its timeout
\* is answered, one idle longer than maxidletime is closed, both in the time
\* a round takes (clientsCronHandleTimeout).
ClientsInTurn ==
    part = "cron" => Cron!RoundRobin /\ Cron!TimedOutInTime /\ Cron!IdleClosedInTime
=============================================================================
