----------------------------- MODULE MCDelivery -----------------------------
(***************************************************************************)
(* How jobs reach the clients that wait for them, in four parts that do    *)
(* not share state: the queues and the blocked clients of a node, the      *)
(* traffic of a queue between two nodes, the timers that put jobs back,    *)
(* and job IDs.  Every behaviour exercises one part, named by `part', from *)
(* its initial state; the variables of the others are Off, those of        *)
(* Federation stay as they are initially.                                  *)
(*                                                                         *)
(* The cfg gives Federation the constants of the part "share": jobs added  *)
(* to one node and consumed at two, with one rare event of any kind.       *)
(***************************************************************************)
EXTENDS Federation, TLC

CONSTANTS a, b, q1, q2, c1, c2, Null, Off

VARIABLES part, srv, served,
          clock, mstime, unixtm, tcron, timer, jobs, awake, paused, stuck,
          myself, hash, ttl, retry, id

qvars == <<srv, served>>
tvars == <<clock, mstime, unixtm, tcron, timer, jobs, awake, paused, stuck>>
ivars == <<myself, hash, ttl, retry, id>>

-----------------------------------------------------------------------------
\* A client waits at a for a job of b, longer than the longest interval
\* between two cluster-wide requests, until it gets the job.
Wait == INSTANCE Federation WITH
    Jobs <- {1}, Producers <- {b}, Consumers <- {a}, Watched <- {<<a, b>>}, Ticks <- {1000},
    MaxIdle <- 20, Events <- {}, MaxEvents <- 0, MaxTime <- 70000

\* Jobs are given away and queued again within the window of the import rate.
Return == INSTANCE Federation WITH
    Ticks <- {1000}, Events <- {"requeue"}, MaxTime <- 5000

\* Two queues, two clients; GETJOB on both queues or on one.
Queue == INSTANCE Queues WITH
    QNames <- {q1, q2}, Clients <- {c1, c2}, Jobs <- {1, 2}, QueueOf <- <<q1, q2>>,
    Pauses <- {{}, {"in", "out"}},
    GetJobs <- {[from |-> <<q1, q2>>, count |-> 2, nohang |-> FALSE],
                [from |-> <<q1>>, count |-> 1, nohang |-> TRUE]}

\* One job and all the commands but DELJOB.
Timer == INSTANCE JobTimers WITH
    cron <- tcron, unixtime <- unixtm,
    Jobs <- {1}, Retries <- {0, 1}, Delays <- {0, 1}, TTLs <- {2}, Second <- 3, Advance <- 1,
    TimeErr <- 2, GCMin <- 3, GCMax <- 4, GCCount <- 2, MaxPeriod <- 2, MaxJobs <- 2,
    Commands <- {"ADDJOB", "REPLJOB", "QUEUED", "ACKJOB", "ENQUEUE", "WORKING", "PAUSE",
                 "RESTART"},
    MaxClock <- 12

\* Two jobs, and a processJobs that looks at one of them in a call.
Timers == INSTANCE JobTimers WITH
    cron <- tcron, unixtime <- unixtm,
    Jobs <- {1, 2}, Retries <- {1}, Delays <- {0}, TTLs <- {2}, Second <- 2, Advance <- 1,
    TimeErr <- 2, GCMin <- 2, GCMax <- 4, GCCount <- 1, MaxPeriod <- 2, MaxJobs <- 1,
    Commands <- {"REPLJOB", "DELJOB"}, MaxClock <- 10

\* Names that differ in one character, early or late.
Name(p, c) == [i \in 1 .. 40 |-> IF i = p THEN c ELSE 48]

\* All bytes 0 but one.
Hash(p, c) == [i \in 1 .. 20 |-> IF i = p THEN c ELSE 0]

\* TTLs around the minutes, the two minutes, and the largest that an ID holds.
Id == INSTANCE JobId WITH
    Names <- {Name(1, 48), Name(1, 97), Name(25, 102), Name(40, 57)},
    Hashes <- {Hash(2, 64), Hash(19, 255)},
    TTLs <- {1, 119, 120, 65535 * 60 + 59, 10000000},
    Retries <- {0, 1}

-----------------------------------------------------------------------------
MCInit ==
    /\ \/ part = "wait" /\ Wait!Init
       \/ part = "return" /\ Return!Init
       \/ part \in {"share", "queue", "timer", "timers", "id"} /\ Init
    /\ IF part = "queue" THEN Queue!Init ELSE srv = Off /\ served = Off
    /\ IF part = "timer" THEN Timer!Init
       ELSE IF part = "timers" THEN Timers!Init
       ELSE /\ clock = Off /\ mstime = Off /\ unixtm = Off /\ tcron = Off /\ timer = Off
            /\ jobs = Off /\ awake = Off /\ paused = Off /\ stuck = Off
    /\ IF part = "id" THEN Id!Init
       ELSE myself = Off /\ hash = Off /\ ttl = Off /\ retry = Off /\ id = Off

MCNext ==
    /\ UNCHANGED part
    /\ \/ /\ \/ part = "share" /\ Next
             \/ part = "wait" /\ job[a][1] # "active" /\ Wait!Next
             \/ part = "return" /\ Return!Next
          /\ UNCHANGED <<qvars, tvars, ivars>>
       \/ part = "queue" /\ Queue!Next /\ UNCHANGED <<vars, tvars, ivars>>
       \/ part = "timer" /\ Timer!Next /\ UNCHANGED <<vars, qvars, ivars>>
       \/ part = "timers" /\ Timers!Next /\ UNCHANGED <<vars, qvars, ivars>>
       \/ part = "id" /\ Id!Next /\ UNCHANGED <<vars, qvars, tvars>>

Symmetry == Permutations({c1, c2})

MCSpec == MCInit /\ [][MCNext]_<<part, vars, qvars, tvars, ivars>>

-----------------------------------------------------------------------------
(* The properties of the parts, where the part is exercised; those of the  *)
(* traffic between nodes are in Federation.                                *)

\* The structures around the queues of a node agree: a client is in the list of
\* exactly the queues it is blocked for (unblockClientBlockedForJobs), a queued
\* job is in the queue it names and nowhere else (enqueueJob, dequeueJob), an
\* unblocked client with a buffered command is in the list that
\* processUnblockedClients works off, and there is no lost wake-up: a queue
\* with jobs and blocked clients that is not paused is in server.ready_queues
\* (signalQueueAsReady).
QueuesAgree ==
    part = "queue" =>
        Queue!LinksAgree /\ Queue!QueuedInQueue /\ Queue!PendingListed /\ Queue!ReadyIfServable

\* Every registered job is in the awakeme list once, at the place of its time,
\* and none is due earlier than it is awakened (updateJobAwakeTime), also when
\* processJobs is cut short.
AwakeInTime ==
    /\ part = "timer" => Timer!ListedOnce /\ Timer!AwakeInTime
    /\ part = "timers" => Timers!ListedOnce /\ Timers!AwakeInTime

\* What is due to a job happens in time: it is queued again shortly after its
\* requeue time, it does not outlive its TTL by more than two seconds, and
\* processJob never finds that it has nothing to do ("NOT PROCESSABLE JOB").
JobsOnTime ==
    /\ part = "timer" => Timer!RequeuedInTime /\ Timer!ExpiresInTime /\ ~stuck
    /\ part = "timers" => Timers!RequeuedInTime

\* An ID tells every node the same about its job: validateJobID accepts what
\* generateJobID makes, ACKJOB of an unknown job keeps an ACK exactly if the job
\* may be delivered again (the lowest bit of the TTL), the TTL read back is
\* right to two minutes (setJobTTLFromID), and the nodes are totally ordered
\* for the job (compareNodeIDsByJob).
IdsAgree ==
    part = "id" =>
        Id!GeneratedIsValid /\ Id!DummyAckOnlyForRetry /\ Id!TTLPrecision /\ Id!OrderIsTotal
=============================================================================
