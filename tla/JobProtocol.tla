----------------------------- MODULE JobProtocol ----------------------------
(***************************************************************************)
(* The life of one job in a Disque cluster: ADDJOB and its synchronous     *)
(* replication, queueing, delivery and requeueing, federation, the         *)
(* acknowledge and its garbage collection, with the interleavings of       *)
(* clients, timers and cluster messages that the event loops of the nodes  *)
(* allow.  Jobs do not interact, so one job is enough.                     *)
(*                                                                         *)
(* A handler runs to completion in the event loop of its node: it is one   *)
(* action.  Time is not modelled: a timer may fire whenever it is armed.   *)
(***************************************************************************)
EXTENDS Job

CONSTANTS Options,        \* the ADDJOB arguments clients use
          Commands,       \* the commands clients issue about the job
          Faults,         \* what the environment may do to the cluster
          MaxInFlight,    \* bound: messages in flight
          MaxDeliveries,  \* bound: deliveries to consumers
          MaxCrashes      \* bound: nodes that crash

\* repl is REPLICATE; retry and delay say that the argument is not zero.
ADDJOBOptions == [repl : Nat \ {0}, retry : BOOLEAN, delay : BOOLEAN,
                  async : BOOLEAN]
ASSUME OptionsAssumption == Options \subseteq ADDJOBOptions

VARIABLES jobs,       \* jobs[n]: the copy of the job at node n (server.jobs)
          net,        \* the bag of messages in flight
          client,     \* the ADDJOB client, see ClientStates
          origin,     \* the node the ADDJOB client is connected to
          opts        \* the arguments of ADDJOB

\* History of the run.  Handlers do not read it, except that `expired' is their
\* clock and that a delivery teaches a client the job ID.
VARIABLES acked,      \* a client acknowledged the job (ACKJOB, FASTACK)
          deleted,    \* a client deleted a copy (DELJOB)
          expired,    \* the TTL of the job elapsed
          deliveries, \* number of times a client fetched the job
          crashed,    \* nodes that lost their memory
          aborted     \* nodes killed by a failed assertion or a wild pointer

history == <<acked, deleted, expired, deliveries, crashed, aborted>>
vars == <<jobs, net, client, origin, opts, history>>

\* idle: ADDJOB not sent yet.  blocked: waiting for the replication.
\* dangling: waiting, but c->bpop.job was released.  ok: got the job ID.
\* failed: got an error or timed out, or the connection was closed.
ClientStates == {"idle", "blocked", "dangling", "ok", "failed"}

Init ==
    /\ jobs = [n \in Nodes |-> NoJob]
    /\ net = EmptyBag
    /\ client = "idle"
    /\ origin \in Nodes
    /\ opts \in Options
    /\ acked = FALSE /\ deleted = FALSE /\ expired = FALSE
    /\ deliveries = 0 /\ crashed = {} /\ aborted = {}

-----------------------------------------------------------------------------
(* Building blocks of the handlers *)

Has(n) == jobs[n] # NoJob
InState(n, states) == Has(n) /\ jobs[n].state \in states

\* A condition of the environment that a run may or may not include.
Holds(fault) == IF fault \in Faults THEN BOOLEAN ELSE {FALSE}

Transmit(in, out) ==
    /\ net' = Deliver(net, in, out)
    /\ BagCardinality(net') <= MaxInFlight

Store(n, j) == jobs' = [jobs EXCEPT ![n] = j]

\* unregisterJob(): a client waiting for the replication of the job gets an
\* error and the other nodes are told.  Releasing a job whose state is not
\* WAIT_REPL any longer leaves c->bpop.job of a blocked client dangling.
UnregisterMsgs(n) ==
    IF InState(n, {"wait_repl"}) THEN BroadcastDelJob(n, jobs[n]) ELSE {}

ClientAfter(n, new) ==
    IF Has(n) /\ new = NoJob /\ n = origin /\ client = "blocked"
    THEN IF InState(n, {"wait_repl"}) THEN "failed" ELSE "dangling"
    ELSE client

\* The end of a handler of node n that read `in', leaves the copy `new' and
\* wrote `out'.
Finish(n, new, in, out) ==
    /\ Store(n, new)
    /\ client' = ClientAfter(n, new)
    /\ Transmit(in, IF new = NoJob THEN out \cup UnregisterMsgs(n) ELSE out)
    /\ UNCHANGED <<origin, opts>>

\* The process of node n dies and is restarted with an empty memory; what its
\* links still had to read is lost, and so are its clients.
Restart(n) ==
    /\ jobs' = [jobs EXCEPT ![n] = NoJob]
    /\ net' = [m \in {x \in DOMAIN net : x.dst # n} |-> net[m]]
    /\ client' = IF n = origin /\ client \in {"blocked", "dangling"}
                 THEN "failed" ELSE client
    /\ crashed' = crashed \cup {n}
    /\ UNCHANGED <<origin, opts, acked, deleted, expired, deliveries>>

Abort(n) == Restart(n) /\ aborted' = aborted \cup {n}

-----------------------------------------------------------------------------
(* ADDJOB and synchronous replication *)

NewJob(n, extrepl) ==
    [state |-> "wait_repl", body |-> TRUE,
     delivered |-> IF extrepl THEN {} ELSE {n}, confirmed |-> {},
     qtime |-> TRUE, flags |-> {}]

\* clusterReplicateJob(): the nodes `added' become nodes that may have a copy,
\* and every node that may have one gets the job, unless it confirmed already
\* and there is nothing new to tell.
ReplicateJob(n, j, added, noreply) ==
    LET all == [j EXCEPT !.delivered = @ \cup added]
        acks(d) == d \in j.confirmed
    IN  [job |-> all,
         out |-> {SerializeJob("REPLJOB", n, d, all, noreply \/ acks(d)) :
                    d \in {x \in all.delivered \ {n} :
                             ~(acks(x) /\ added = {})}}]

\* The sets of nodes that clusterReplicateJob() may add, at most k of them:
\* fewer when reachable nodes have no link.
NewNodes(n, j, k) ==
    {T \in SUBSET (Nodes \ ({n} \cup j.delivered)) : Cardinality(T) <= k}

\* Guards of addjobCommand() that every variant shares.
AcceptsJob(extrepl) ==
    /\ client = "idle"
    /\ opts.repl = 1 \/ opts.retry
    /\ (IF extrepl THEN opts.repl ELSE opts.repl - 1) < Cardinality(Nodes)

\* ADDJOB blocks its client until REPLICATE nodes have the job.
AddJobSync(n) ==
    \E extrepl \in Holds("memory") \cup Holds("leaving") :
      LET new == [NewJob(n, extrepl) EXCEPT
                    !.confirmed = IF extrepl THEN {} ELSE {n}]
          k == IF extrepl THEN opts.repl ELSE opts.repl - 1
      IN  /\ n = origin /\ AcceptsJob(extrepl)
          /\ (opts.repl > 1 \/ extrepl) /\ ~opts.async
          /\ \E T \in NewNodes(n, new, k) :
               LET r == ReplicateJob(n, new, T, FALSE)
               IN  Store(n, r.job) /\ Transmit({}, r.out)
          /\ client' = "blocked"
          /\ UNCHANGED <<origin, opts, history>>

\* ADDJOB answers at once and replicates in the background, if at all.
AddJobLocal(n) ==
    LET new == NewJob(n, FALSE)
        q == IF opts.delay THEN [job |-> [new EXCEPT !.state = "active"], out |-> {}]
             ELSE EnqueueJob(n, new, opts.retry, FALSE)
    IN  /\ n = origin /\ AcceptsJob(FALSE)
        /\ opts.repl = 1 \/ opts.async
        /\ \E T \in NewNodes(n, new, opts.repl - 1) :
             LET r == ReplicateJob(n, q.job, T, TRUE)
             IN  Store(n, r.job) /\ Transmit({}, q.out \cup r.out)
        /\ client' = "ok"
        /\ UNCHANGED <<origin, opts, history>>

\* ADDJOB ASYNC on a node that takes no copy: the job is sent away, one of the
\* receivers is told to queue it, and no copy is registered here.
AddJobExternal(n) ==
    /\ TRUE \in Holds("memory") \cup Holds("leaving")
    /\ n = origin /\ AcceptsJob(TRUE) /\ opts.async
    /\ \E T \in NewNodes(n, NewJob(n, TRUE), opts.repl) :
         \E e \in IF T = {} THEN {n} ELSE T :
           LET r == ReplicateJob(n, NewJob(n, TRUE), T, TRUE)
           IN  Transmit({}, r.out \cup SendJobIDMessage("ENQUEUE", n, e,
                                         IF opts.delay THEN 1 ELSE 0))
    /\ client' = "ok"
    /\ UNCHANGED <<jobs, origin, opts, history>>

\* jobReplicationAchieved(): the job is queued here, or by the node e when this
\* node does not retain a copy.
ReplicationAchieved(n, j, e) ==
    LET active == [j EXCEPT !.state = "active", !.confirmed = {}]
    IN  IF n \notin j.delivered
        THEN [job |-> NoJob,
              out |-> SendJobIDMessage("ENQUEUE", n, e,
                                       IF opts.delay THEN 1 ELSE 0)]
        ELSE IF opts.delay THEN [job |-> active, out |-> {}]
        ELSE EnqueueJob(n, active, opts.retry, FALSE)

\* The nodes dictGetRandomKey(nodes_confirmed) may return.
EnqueueTargets(n, j) == IF j.confirmed = {} THEN {n} ELSE j.confirmed

\* clientsCronHandleDelayedJobReplication(): the replication takes long, try
\* one more node.  The state of the job is not looked at.
DelayedJobReplication ==
    /\ client = "blocked"
    /\ \E T \in NewNodes(origin, jobs[origin], 1) :
         LET r == ReplicateJob(origin, jobs[origin], T, FALSE)
         IN  Store(origin, r.job) /\ Transmit({}, r.out)
    /\ UNCHANGED <<client, origin, opts, history>>

\* Mutant: the replicas are told to forget the job, this node does not.
UnblockClientKeep ==
    /\ client = "blocked"
    /\ Transmit({}, BroadcastDelJob(origin, jobs[origin]))
    /\ client' = "failed"
    /\ UNCHANGED <<jobs, origin, opts, history>>

\* clientsCronHandleTimeout(), freeClient(): the blocked client times out, is
\* sent away by a node that leaves the cluster, or closes the connection.
\* unblockClientWaitingJobRepl() then forgets a job still being replicated.
UnblockClient ==
    /\ client = "blocked"
    /\ IF InState(origin, {"wait_repl"})
       THEN /\ Store(origin, NoJob)
            /\ Transmit({}, BroadcastDelJob(origin, jobs[origin]))
       ELSE UNCHANGED <<jobs, net>>
    /\ client' = "failed"
    /\ UNCHANGED <<origin, opts, history>>

\* The same timers with c->bpop.job dangling: the released memory may still
\* look like a job that needs nothing, or the access kills the node.
UnblockDangling ==
    /\ client = "dangling"
    /\ \/ client' = "failed" /\ UNCHANGED <<jobs, net, origin, opts, history>>
       \/ Abort(origin)

-----------------------------------------------------------------------------
(* Commands about the job.  Clients learn the job ID from the reply to ADDJOB *)
(* or with the job itself.                                                    *)

Issue(command) == command \in Commands /\ (client = "ok" \/ deliveries > 0)

\* GETJOB, either served at once or by handleClientsBlockedOnQueues().
GetJob(n) ==
    /\ "GETJOB" \in Commands /\ deliveries < MaxDeliveries
    /\ InState(n, {"queued"})
    /\ Finish(n, FetchJob(jobs[n]), {}, {})
    /\ deliveries' = deliveries + 1
    /\ UNCHANGED <<acked, deleted, expired, crashed, aborted>>

\* ACKJOB.  An unknown job is only remembered as acknowledged if it can be
\* delivered more than once, which the TTL in the job ID tells.
NewAck == [state |-> "acked", body |-> FALSE, delivered |-> {},
           confirmed |-> {}, qtime |-> FALSE, flags |-> {}]

AckJob(n) ==
    /\ Issue("ACKJOB")
    /\ \/ /\ ~Has(n) /\ (~opts.retry \/ Cardinality(Nodes) = 1
                            \/ TRUE \in Holds("leaving"))
          /\ UNCHANGED <<jobs, net, client, origin, opts>>
       \/ /\ Has(n) \/ (opts.retry /\ Cardinality(Nodes) > 1)
          /\ LET j == IF Has(n) THEN AcknowledgeJob(jobs[n]) ELSE NewAck
                 r == TryJobGC(n, j)
             IN  /\ Store(n, r.job)
                 /\ Transmit({}, r.out)
                 /\ client' = IF /\ r.job = NoJob
                                 /\ n = origin /\ client = "blocked"
                              THEN "dangling" ELSE client
                 /\ UNCHANGED <<origin, opts>>
    /\ acked' = TRUE
    /\ UNCHANGED <<deleted, expired, deliveries, crashed, aborted>>

\* FASTACK.  (Of a job being replicated DELJOB is sent twice; the second one
\* finds nothing to delete.)
FastAck(n) ==
    /\ Issue("FASTACK")
    /\ IF Has(n) THEN Finish(n, NoJob, {}, BroadcastDelJob(n, jobs[n]))
       ELSE Finish(n, NoJob, {}, BroadcastJobIDMessage("DELJOB", n, Nodes, 0))
    /\ acked' = TRUE
    /\ UNCHANGED <<deleted, expired, deliveries, crashed, aborted>>

\* ENQUEUE and NACK
EnqueueCommand(n) ==
    /\ \E nack \in BOOLEAN :
         /\ Issue(IF nack THEN "NACK" ELSE "ENQUEUE")
         /\ InState(n, {"active"})
         /\ LET r == EnqueueJob(n, jobs[n], opts.retry, nack)
            IN  Finish(n, r.job, {}, r.out)
    /\ UNCHANGED history

\* DEQUEUE
DequeueCommand(n) ==
    /\ Issue("DEQUEUE")
    /\ InState(n, {"queued"})
    /\ Finish(n, DequeueJob(jobs[n]), {}, {})
    /\ UNCHANGED history

\* WORKING, unless half of the TTL elapsed.
WorkingCommand(n) ==
    /\ Issue("WORKING")
    /\ Has(n)
    /\ LET j == DequeueJob(jobs[n])
       IN  Finish(n, [j EXCEPT !.flags = @ \cup {"BCAST_WILLQUEUE"}], {},
                  BroadcastJobIDMessage("WORKING", n, j.delivered, 0))
    /\ UNCHANGED history

\* DELJOB deletes the local copy only.
DelJobCommand(n) ==
    /\ Issue("DELJOB")
    /\ Has(n)
    /\ Finish(n, NoJob, {}, {})
    /\ deleted' = TRUE
    /\ UNCHANGED <<acked, expired, deliveries, crashed, aborted>>

-----------------------------------------------------------------------------
(* processJob(), called when the awake time of the job is reached, and the  *)
(* eviction of jobs under memory pressure                                   *)

ExpireJob(n) ==
    /\ expired /\ Has(n)
    /\ Finish(n, NoJob, {}, {})
    /\ UNCHANGED history

\* The job is active or queued.  Half a second before its queue time WILLQUEUE
\* asks the other nodes whether they have it queued; at the queue time (due) it
\* is queued, unless the queue is paused in input and the job has other chances.
ProcessJob(n) ==
    /\ InState(n, {"active", "queued"}) /\ jobs[n].qtime
    /\ \E due \in BOOLEAN, paused \in Holds("pause") :
         LET j == jobs[n]
             will == "BCAST_WILLQUEUE" \in j.flags
             told == [j EXCEPT !.flags = @ \ {"BCAST_WILLQUEUE"}]
             out == IF will /\ j.state = "active"
                    THEN BroadcastJobIDMessage("WILLQUEUE", n, j.delivered, 0)
                    ELSE {}
             r == IF j.state = "active" /\ ~(opts.retry /\ paused)
                  THEN EnqueueJob(n, told, opts.retry, FALSE)
                  ELSE [job |-> told, out |-> {}]
             again == [told EXCEPT !.flags = @ \cup RetryFlag(opts.retry)]
         IN  \/ ~due /\ will /\ Finish(n, told, {}, out)
             \/ due /\ j.state = "active" /\ Finish(n, r.job, {}, out \cup r.out)
             \/ due /\ j.state = "queued" /\ Finish(n, again, {}, {})
    /\ UNCHANGED history

\* The job is acknowledged.  If tryJobGC() releases it, processJob() goes on
\* to reschedule the released job: it may find the memory as it was, and then
\* the job is not in the skip list any longer and the assertion of
\* updateJobAwakeTime() kills the node.
GCJob(n) ==
    /\ InState(n, {"acked"})
    /\ LET r == TryJobGC(n, jobs[n])
       IN  \/ Finish(n, r.job, {}, r.out) /\ UNCHANGED history
           \/ r.job = NoJob /\ Abort(n)

\* freeMemoryIfNeeded()
EvictJob(n) ==
    /\ TRUE \in Holds("memory")
    /\ \/ InState(n, {"acked"})
       \/ Has(n) /\ ~opts.retry /\ "DELIVERED" \in jobs[n].flags
    /\ Finish(n, NoJob, {}, {})
    /\ UNCHANGED history

-----------------------------------------------------------------------------
(* clusterProcessPacket(): one action per type of message m, at n = m.dst *)

Received(type) == {m \in DOMAIN net : m.type = type}

\* The message leaves everything as it was.
Ignore(m) == Transmit({m}, {}) /\ UNCHANGED <<jobs, client, origin, opts>>

GotJob(m) == IF m.noreply THEN {} ELSE SendJobIDMessage("GOTJOB", m.dst, m.src, 0)

\* Mutant: the reply is sent before the job is refused.
RefuseReplJobLate(m) ==
    Transmit({m}, GotJob(m)) /\ UNCHANGED <<jobs, client, origin, opts>>

\* REPLJOB is refused by a node short of memory or leaving, and for a queue
\* paused in input.
RefuseReplJob(m) == Ignore(m)

RecvReplJob ==
    /\ \E m \in Received("REPLJOB") :
         LET n == m.dst
             copy == [DeserializeJob(m, opts.retry) EXCEPT
                        !.flags = @ \cup {"BCAST_QUEUED"}]
             new == IF Has(n) THEN [jobs[n] EXCEPT !.delivered = @ \cup m.delivered]
                    ELSE copy
         IN  \/ /\ TRUE \in Holds("memory") \cup Holds("leaving") \cup Holds("pause")
                /\ RefuseReplJob(m)
             \/ Finish(n, new, {m}, GotJob(m))
    /\ UNCHANGED history

RecvGotJob ==
    /\ \E m \in Received("GOTJOB") :
         LET n == m.dst
             j == [jobs[n] EXCEPT !.confirmed = @ \cup {m.src}]
         IN  \/ ~InState(n, {"wait_repl"}) /\ Ignore(m)
             \/ /\ InState(n, {"wait_repl"})
                /\ Cardinality(j.confirmed) # opts.repl
                /\ Finish(n, j, {m}, {})
             \/ /\ InState(n, {"wait_repl"})
                /\ Cardinality(j.confirmed) = opts.repl
                /\ \E e \in EnqueueTargets(n, j) :
                     LET r == ReplicationAchieved(n, j, e)
                     IN  Store(n, r.job) /\ Transmit({m}, r.out)
                /\ client' = "ok"
                /\ UNCHANGED <<origin, opts>>
    /\ UNCHANGED history

\* The part of the SETACK handler that follows the acknowledge of the copy j:
\* a node that knows more nodes than the sender takes over the collection.
AnswerSetAck(m, j) ==
    LET gc == TryJobGC(m.dst, j)
        gotAck == SendJobIDMessage("GOTACK", m.dst, m.src, 1)
    IN  IF Cardinality(j.delivered) <= m.aux THEN [job |-> j, out |-> gotAck]
        ELSE [job |-> gc.job,
              out |-> gc.out \cup (IF m.aux = 0 THEN gotAck ELSE {})]

RecvSetAck ==
    /\ \E m \in Received("SETACK") :
         LET n == m.dst
             a == AnswerSetAck(m, AcknowledgeJob(jobs[n]))
         IN  \/ /\ ~Has(n)
                /\ Finish(n, NoJob, {m}, SendJobIDMessage("GOTACK", n, m.src, 0))
             \/ /\ InState(n, States \ {"wait_repl"})
                /\ Finish(n, a.job, {m}, a.out)
             \/ /\ InState(n, {"wait_repl"})
                /\ \E e \in EnqueueTargets(n, jobs[n]) :
                     LET r == ReplicationAchieved(n, jobs[n], e)
                         b == AnswerSetAck(m, AcknowledgeJob(r.job))
                     IN  IF r.job = NoJob
                         THEN Store(n, NoJob) /\ Transmit({m}, r.out)
                         ELSE Store(n, b.job) /\ Transmit({m}, r.out \cup b.out)
                /\ client' = "ok"
                /\ UNCHANGED <<origin, opts>>
    /\ UNCHANGED history

RecvGotAck ==
    /\ \E m \in Received("GOTACK") :
         LET r == GotAckReceived(m.dst, m.src, jobs[m.dst], m.aux = 1)
         IN  \/ ~Has(m.dst) /\ Ignore(m)
             \/ Has(m.dst) /\ Finish(m.dst, r.job, {m}, r.out)
    /\ UNCHANGED history

RecvDelJob ==
    /\ \E m \in Received("DELJOB") :
         \/ ~Has(m.dst) /\ Ignore(m)
         \/ Has(m.dst) /\ Finish(m.dst, NoJob, {m}, {})
    /\ UNCHANGED history

\* ENQUEUE is discarded for a queue paused in input.
RecvEnqueue ==
    /\ \E m \in Received("ENQUEUE") :
         LET n == m.dst
             j == [jobs[n] EXCEPT !.flags = @ \ {"BCAST_QUEUED"}]
             r == IF m.aux = 0 THEN EnqueueJob(n, j, opts.retry, FALSE)
                  ELSE [job |-> j, out |-> {}]
         IN  \/ /\ ~InState(n, {"wait_repl", "active"}) \/ TRUE \in Holds("pause")
                /\ Ignore(m)
             \/ /\ InState(n, {"wait_repl", "active"})
                /\ Finish(n, r.job, {m}, r.out)
    /\ UNCHANGED history

\* Mutant: the order of the nodes is ignored.
GivesWayAlways(n, m) == TRUE

\* Of two nodes that queued the job the greater keeps it, and none keeps it when
\* a worker claims to work on it.
GivesWay(n, m) == m.type = "WORKING" \/ m.src > n

\* QUEUED and WORKING
RecvQueued ==
    /\ \E m \in Received("QUEUED") \cup Received("WORKING") :
         LET n == m.dst
             j == IF GivesWay(n, m) THEN DequeueJob(jobs[n]) ELSE jobs[n]
         IN  \/ ~Has(n) /\ Ignore(m)
             \/ /\ InState(n, States \ {"acked"})
                /\ Finish(n, [j EXCEPT !.flags = @ \cup RetryFlag(opts.retry)],
                          {m}, {})
             \/ /\ InState(n, {"acked"})
                /\ Finish(n, jobs[n], {m}, SendSetAck(n, m.src, jobs[n]))
    /\ UNCHANGED history

\* Mutant: the answers for a queued and an acknowledged job are swapped.
WillQueueReplySwapped(n, m, j) ==
    IF j.state = "queued" THEN SendSetAck(n, m.src, j)
    ELSE IF j.state = "acked" THEN BroadcastJobIDMessage("QUEUED", n, j.delivered, 0)
    ELSE {}

WillQueueReply(n, m, j) ==
    IF j.state = "queued" THEN BroadcastJobIDMessage("QUEUED", n, j.delivered, 0)
    ELSE IF j.state = "acked" THEN SendSetAck(n, m.src, j)
    ELSE {}

RecvWillQueue ==
    /\ \E m \in Received("WILLQUEUE") :
         LET n == m.dst
             j == [jobs[n] EXCEPT !.delivered = @ \cup {m.src}]
         IN  \/ ~InState(n, States \ {"wait_repl"}) /\ Ignore(m)
             \/ /\ InState(n, {"active", "queued"})
                /\ Finish(n, j, {m}, WillQueueReply(n, m, j))
             \/ /\ InState(n, {"acked"})
                /\ Finish(n, jobs[n], {m}, WillQueueReply(n, m, jobs[n]))
    /\ UNCHANGED history

-----------------------------------------------------------------------------
(* Federation *)

\* A job with RETRY 0 moves, any other stays here too.
KeptAfterMove(j) == IF opts.retry THEN j ELSE NoJob

\* receiveNeedJobs(): node d asked for jobs and n gives this one away.  NEEDJOBS
\* is about a queue and may arrive at any time.
NeedJobs(n, d) ==
    /\ "NEEDJOBS" \in Commands /\ n # d
    /\ InState(n, {"queued"})
    /\ LET j == FetchJob(jobs[n])
       IN  Finish(n, KeptAfterMove(j), {},
                  {SerializeJob("YOURJOBS", n, d, j, FALSE)})
    /\ UNCHANGED history

\* receiveYourJobs(): the copy this node already has, if any, is the one that
\* gets queued, whatever its state.  The ACK of an unknown job has no queue and
\* its retry and qtime were never set: either enqueueJob() refuses it or the
\* node dies looking up the queue.
RecvYourJobs ==
    \E m \in Received("YOURJOBS") :
      LET n == m.dst
          copy == IF Has(n) THEN jobs[n] ELSE DeserializeJob(m, opts.retry)
          j == [copy EXCEPT !.flags = @ \ {"BCAST_QUEUED"},
                            !.qtime = @ \/ ~opts.retry]
          r == EnqueueJob(n, j, opts.retry, FALSE)
      IN  \/ copy.body /\ Finish(n, r.job, {m}, r.out) /\ UNCHANGED history
          \/ ~copy.body /\ Finish(n, j, {m}, {}) /\ UNCHANGED history
          \/ ~copy.body /\ Abort(n)

-----------------------------------------------------------------------------
(* The environment *)

\* A message is lost: the link is down when it is sent, or breaks.
Lose ==
    /\ "lose" \in Faults
    /\ \E m \in DOMAIN net : Ignore(m)
    /\ UNCHANGED history

\* A node without persistence crashes and is restarted.
Crash(n) ==
    /\ "crash" \in Faults /\ Cardinality(crashed) < MaxCrashes
    /\ Restart(n)
    /\ UNCHANGED aborted

TTLElapses ==
    /\ "expire" \in Faults /\ ~expired /\ client # "idle"
    /\ expired' = TRUE
    /\ UNCHANGED <<jobs, net, client, origin, opts, acked, deleted, deliveries,
                   crashed, aborted>>

-----------------------------------------------------------------------------
AddJob(n) == AddJobSync(n) \/ AddJobLocal(n) \/ AddJobExternal(n)

Command(n) == \/ GetJob(n) \/ AckJob(n) \/ FastAck(n) \/ EnqueueCommand(n)
              \/ DequeueCommand(n) \/ WorkingCommand(n) \/ DelJobCommand(n)

Timer(n) == ExpireJob(n) \/ ProcessJob(n) \/ GCJob(n) \/ EvictJob(n)

Receive == \/ RecvReplJob \/ RecvGotJob \/ RecvSetAck \/ RecvGotAck
           \/ RecvDelJob \/ RecvEnqueue \/ RecvQueued \/ RecvWillQueue
           \/ RecvYourJobs

Next ==
    \/ \E n \in Nodes : AddJob(n) \/ Command(n) \/ Timer(n) \/ Crash(n)
    \/ \E n, d \in Nodes : NeedJobs(n, d)
    \/ DelayedJobReplication \/ UnblockClient \/ UnblockDangling
    \/ Receive \/ Lose \/ TTLElapses

Spec == Init /\ [][Next]_vars

-----------------------------------------------------------------------------
(* Properties *)

\* Every variable has its type; in particular the counts carried by SETACK are
\* never negative, though clusterSendSetAck() also runs for jobs no node has.
TypeOK ==
    /\ jobs \in [Nodes -> Job \cup {NoJob}]
    /\ IsABag(net) /\ DOMAIN net \subseteq Messages
    /\ client \in ClientStates /\ origin \in Nodes /\ opts \in Options
    /\ acked \in BOOLEAN /\ deleted \in BOOLEAN /\ expired \in BOOLEAN
    /\ deliveries \in Nat /\ crashed \subseteq Nodes /\ aborted \subseteq crashed

\* The job is over: copies may disappear.
Over == acked \/ deleted \/ expired

Holders == {n \in Nodes : Has(n) /\ jobs[n].body}

\* "it is replicated to W nodes before the client gets an acknowledgement ...
\* W-1 nodes can fail and the message will still be delivered" (README.md:61):
\* from the reply of a synchronous ADDJOB on, only a crash of a node, an
\* acknowledge, a DELJOB by a client or the TTL takes a copy away from the
\* REPLICATE copies.  Timeouts of ADDJOB, late or lost GOTJOB and DELJOB
\* messages, memory pressure and federation never do.
Durability ==
    client = "ok" /\ ~opts.async /\ opts.retry /\ ~Over
        => Cardinality(Holders \cup crashed) >= opts.repl

\* "it will get delivered either a single time or will never get delivered"
\* (README.md:120): with RETRY 0 no interleaving of GETJOB, ENQUEUE, NACK,
\* DEQUEUE, WORKING, of the timers and of federation delivers the job twice.
AtMostOnce == ~opts.retry => deliveries <= 1

\* A copy is acknowledged, or a node asked to acknowledge one, only if a client
\* acknowledged the job: the GC of acknowledged jobs never takes a live one.
NoPhantomAck ==
    /\ \A n \in Nodes : InState(n, {"acked"}) => acked
    /\ \A m \in DOMAIN net : m.type = "SETACK" => acked

\* jobReplicationAchieved() "can also assume that there is a client waiting to
\* be unblocked" (job.c:1026), and so can unregisterJob(): a copy still waiting
\* for its replicas is that of the node where the ADDJOB client is blocked.
WaitReplHasClient ==
    \A n \in Nodes : InState(n, {"wait_repl"}) => n = origin /\ client = "blocked"

Queued == \E n \in Nodes : InState(n, {"queued"})

\* Nodes that queued the job at the same time drop it from their queues when
\* they hear QUEUED from a greater node (cluster.c:1440): while no client takes
\* it, no node dies and ADDJOB did not fail, the job is never dropped from the
\* last queue it is in, however late the QUEUED messages come.
QueueStays == [][Queued /\ client' # "failed" => Queued']_vars

-----------------------------------------------------------------------------
(* What comments and documentation say, and the code does not do *)

\* "SETACK ... the job will no longer be considered active, and will never be
\* re-queued by the receiving node" (README.md:855): acknowledgeJob() is final.
AckedNeverRequeued ==
    [][\A n \in Nodes : InState(n, {"acked"}) => ~InState(n, {"queued"})']_vars

\* "Check ASAP if we already reached all the nodes" (ack.c:87): tryJobGC()
\* releases a copy only if all the other nodes that may have one confirmed.
GCReachedAll ==
    [][\A n \in Nodes : GCJob(n) /\ Has(n) /\ ~Has(n)' =>
         jobs[n].delivered \subseteq jobs[n].confirmed \cup {n}]_vars

\* "serverAssert(skiplistDelete(server.awakeme,j))" (job.c:411): the job that
\* processJob() reschedules after tryJobGC() is still in the skip list.
AwakeAssertion == [][\A n \in Nodes : GCJob(n) => aborted' = aborted]_vars

\* "Force the receiver to queue a job, if it has that job in an active state"
\* (cluster.c:1949)
EnqueueForcesQueue ==
    [][RecvEnqueue => \A m \in Received("ENQUEUE") :
         m.aux = 0 /\ InState(m.dst, {"active"}) => InState(m.dst, {"queued"})']_vars

\* "If there is a client blocked for this job, inform it that the job got
\* deleted, and unblock it" (job.c:300): c->bpop.job never dangles.
BlockedClientInformed == client # "dangling"
=============================================================================
