----------------------------- MODULE Federation -----------------------------
(***************************************************************************)
(* The traffic of one queue between nodes (queue.c): a node whose clients  *)
(* wait for jobs asks for them with NEEDJOBS, cluster-wide at growing      *)
(* intervals and more often to the nodes that gave it jobs lately, and is  *)
(* answered with YOURJOBS.                                                 *)
(*                                                                         *)
(* Times are milliseconds, with the delays of the code; `now' is both      *)
(* mstime() and the cached clocks.  A job is a number, in the order of     *)
(* creation.  Acknowledges, expiry and replication are in JobProtocol.     *)
(***************************************************************************)
EXTENDS Integers, Sequences, FiniteSets, FiniteSetsExt

CONSTANTS Nodes,
          Jobs,        \* numbers, added in this order
          AtMostOnce,  \* the jobs with retry 0
          Producers,   \* the nodes that clients add jobs to
          Consumers,   \* the nodes that clients get jobs from
          Watched,     \* pairs <<n, m>>: does n get the jobs of m in time?
          Ticks,       \* how much time may pass at once
          Prompt,      \* messages arrive before time passes
          MaxIdle,     \* seconds after which an empty queue is removed
          Events,      \* the rare events of this run
          MaxEvents,   \* bound: how many of them
          MaxClients,  \* bound: the clients waiting at a node
          MaxTime      \* bound: the time that passes

\* A queue is kept longer than its imports are remembered (300 s and 5 s).
ASSUME FederationAssumption ==
    /\ IsFiniteSet(Nodes) /\ IsFiniteSet(Jobs)
    /\ Jobs \subseteq Nat /\ AtMostOnce \subseteq Jobs
    /\ Ticks \subseteq Nat
    /\ MaxIdle \in Nat /\ MaxIdle >= 5

VARIABLES now,
          queue,    \* node -> the queue, NoQueue when there is none
          job,      \* node -> job -> its state
          waiting,  \* node -> the clients blocked in GETJOB
          cron,     \* node -> when clientsCron last visited them
          link,     \* node -> node -> the clusterNode and whether it is linked
          net,      \* <<from, to>> -> the messages in flight
          leaving,  \* the nodes that are leaving the cluster
          events,   \* rare events left
          added,    \* the jobs that were added
          asked,    \* history: node -> the last broadcast of this queue
          came,     \* history: node -> job -> where and when it came from
          since     \* history: watched <<n, m>> -> since when n could have got a job of m

hist == <<asked, came>>
vars == <<now, queue, job, waiting, cron, link, net, leaving, events, added, asked, came, since>>

Start == 100000             \* the clock is far from 0
ImportWindow == 5000        \* IMPORT_RATE_WINDOW
MinRequest == 5             \* NEEDJOBS_MIN_REQUEST
MaxRequest == 100           \* NEEDJOBS_MAX_REQUEST
BcastMin == 2000            \* NEEDJOBS_BCAST_ALL_MIN_DELAY
BcastMax == 30000           \* NEEDJOBS_BCAST_ALL_MAX_DELAY
AdhocMin == 25              \* NEEDJOBS_BCAST_ADHOC_MIN_DELAY
AdhocMax == 2000            \* NEEDJOBS_BCAST_ADHOC_MAX_DELAY
CronPeriod == 1000          \* clientsCron visits a client once in a second (see ClientsCron)

NoQueue == [exists |-> FALSE]
unixtime == now \div 1000

createQueue ==
    [exists |-> TRUE, atime |-> unixtime, paused |-> FALSE, bcastTime |-> 0, bcastAttempt |-> 0,
     adhocTime |-> 0, adhocAttempt |-> 0, responders |-> [m \in {} |-> 0],
     current |-> now, currentCount |-> 0, prev |-> now, prevCount |-> 0]

Existing(q) == IF q.exists THEN q ELSE createQueue

Queued(n) == {j \in Jobs : job[n][j] = "queued"}

\* Mutant: the jobs of the last seconds are not looked at.
RateForgets(q) ==
    IF now - q.current > 1000 THEN 0 ELSE (q.prevCount + q.currentCount)

\* Jobs imported in a second, rounded up; the interval is 50 ms at least.
getQueueImportRate(q) ==
    IF now - q.current > ImportWindow THEN 0
    ELSE LET elapsed == Max({now - q.prev, 50})
         IN  ((q.prevCount + q.currentCount) * 1000 + elapsed - 1) \div elapsed

updateQueueImportRate(q) ==
    IF now - q.current > 1000
    THEN [q EXCEPT !.prev = q.current, !.prevCount = q.currentCount,
                   !.current = now, !.currentCount = 1]
    ELSE [q EXCEPT !.currentCount = @ + 1]

\* The queue without the sources that did not give a job for 5 seconds.
getQueueValidResponders(q) ==
    [q EXCEPT !.responders = [m \in {x \in DOMAIN @ : unixtime - @[x].last <= 5} |-> @[m]]]

\* Mutant: the delay is not capped.
ShiftedUncapped(ms, attempt, cap) == {ms * 2 ^ attempt}

(***************************************************************************)
(* The delay before the next message: ms * (1 << attempt), of type int,    *)
(* capped.  Above 31 bits the product is undefined: the processor wraps it *)
(* and takes the shift modulo 32, or the compiler multiplied 64 bits.  All *)
(* the negative delays behave as -1.                                       *)
(***************************************************************************)
Delay(ms, attempt, cap) ==
    LET s == attempt % 32
        low == ms % 2 ^ (32 - s)
        wrapped == IF low >= 2 ^ (31 - s) THEN -1 ELSE low * 2 ^ s
        wide == IF s = 31 THEN -1 ELSE cap
    IN  {Min({d, cap}) : d \in IF s < 20 THEN {ms * 2 ^ s} ELSE {wrapped, wide}}

\* The nodes of a table that n has a link to: the key is the clusterNode.
Linked(n, table) == {m \in DOMAIN table \ {n} : link[n][m].up /\ link[n][m].node = table[m].node}

ToFetch(q) ==
    LET sources == Cardinality(DOMAIN q.responders)
        guess == IF sources = 0 THEN MinRequest ELSE getQueueImportRate(q) \div sources
    IN  Min({Max({guess, MinRequest}), MaxRequest})

\* clusterSendNeedJobs(): net with a message for each node of the table.
clusterSendNeedJobs(n, count, table, bus) ==
    [p \in DOMAIN bus |->
        IF p[1] = n /\ p[2] \in Linked(n, table)
        THEN Append(bus[p], [type |-> "NEEDJOBS", count |-> count]) ELSE bus[p]]

\* Mutant: the attempts of the broadcast are not counted.
BroadcastUncounted(n, r) ==
    [queue |-> [r.queue EXCEPT !.bcastTime = now],
     bus |-> clusterSendNeedJobs(n, 1, link[n], r.bus),
     asked |-> [time |-> now, times |-> r.asked.times + 1]]

Broadcast(n, r) ==
    [queue |-> [r.queue EXCEPT !.bcastTime = now, !.bcastAttempt = @ + 1],
     bus |-> clusterSendNeedJobs(n, 1, link[n], r.bus),
     asked |-> [time |-> now, times |-> r.asked.times + 1]]

AskSources(n, r) ==
    [queue |-> [r.queue EXCEPT !.adhocTime = now, !.adhocAttempt = @ + 1],
     bus |-> clusterSendNeedJobs(n, ToFetch(r.queue), r.queue.responders, r.bus),
     asked |-> r.asked]

\* r is [queue, bus, asked]; the results, one for each value of the delays.
needJobsForQueue(n, type, r) ==
    IF n \in leaving \/ (type = "REACHED_ZERO" /\ getQueueImportRate(r.queue) = 0) THEN {r}
    ELSE LET q == getQueueValidResponders(r.queue)
             r1 == [r EXCEPT !.queue = q]
         IN  {LET r2 == IF now - q.bcastTime > d[1] THEN Broadcast(n, r1) ELSE r1
              IN  IF /\ type = "REACHED_ZERO" \/ now - q.adhocTime > d[2]
                     /\ DOMAIN q.responders # {}
                  THEN AskSources(n, r2) ELSE r2 :
              d \in Delay(BcastMin, q.bcastAttempt, BcastMax)
                    \X Delay(AdhocMin, q.adhocAttempt, AdhocMax)}

Self(n) == [queue |-> Existing(queue[n]), bus |-> net, asked |-> asked[n]]

Becomes(n, r) ==
    /\ queue' = [queue EXCEPT ![n] = r.queue]
    /\ net' = r.bus
    /\ asked' = [asked EXCEPT ![n] = r.asked]

(***************************************************************************)
(* Clients.                                                                *)
(***************************************************************************)
\* queueFetchJob() for a client, and the request of more jobs at zero.
Fetch(n) ==
    LET j == Min(Queued(n))
        r == [Self(n) EXCEPT !.queue.atime = unixtime]
    IN  /\ job' = [job EXCEPT ![n][j] = "active"]
        /\ \E s \in IF Cardinality(Queued(n)) = 1 THEN needJobsForQueue(n, "REACHED_ZERO", r) ELSE {r} :
              Becomes(n, s)

getjobCommand(n) ==
    /\ n \in Consumers
    /\ waiting[n] < MaxClients
    /\ IF Queued(n) # {} /\ ~queue[n].paused
       THEN Fetch(n) /\ UNCHANGED <<waiting, cron>>
       ELSE /\ \E s \in needJobsForQueue(n, "CLIENTS_WAITING", Self(n)) : Becomes(n, s)
            /\ IF n \in leaving THEN UNCHANGED <<waiting, cron>>
               ELSE /\ waiting' = [waiting EXCEPT ![n] = @ + 1]
                    /\ cron' = [cron EXCEPT ![n] = IF waiting[n] = 0 THEN now ELSE @]
            /\ UNCHANGED job
    /\ UNCHANGED <<now, link, events, leaving, added, came>>

Servable(n) == waiting[n] > 0 /\ Queued(n) # {} /\ ~queue[n].paused

handleClientsBlockedOnQueues(n) ==
    /\ Servable(n)
    /\ Fetch(n)
    /\ waiting' = [waiting EXCEPT ![n] = @ - 1]
    /\ UNCHANGED <<now, cron, link, events, leaving, added, came>>

clientsCronSendNeedJobs(n) ==
    /\ waiting[n] > 0
    /\ cron[n] # now
    /\ cron' = [cron EXCEPT ![n] = now]
    /\ \E s \in needJobsForQueue(n, "CLIENTS_WAITING", Self(n)) : Becomes(n, s)
    /\ UNCHANGED <<now, job, waiting, link, events, leaving, added, came>>

(***************************************************************************)
(* enqueueJob() of a job that is not queued yet: by ADDJOB, or again after *)
(* its retry time.                                                         *)
(***************************************************************************)
Enqueue(n, j) ==
    /\ job' = [job EXCEPT ![n][j] = "queued"]
    /\ queue' = [queue EXCEPT ![n] = [Existing(@) EXCEPT !.atime = unixtime]]

addjobCommand(n) ==
    /\ n \in Producers
    /\ Jobs \ added # {}
    /\ LET j == Min(Jobs \ added)
       IN  Enqueue(n, j) /\ added' = added \cup {j}
    /\ UNCHANGED <<now, waiting, cron, link, net, leaving, events, hist>>

requeue(n, j) ==
    /\ "requeue" \in Events /\ events > 0
    /\ job[n][j] = "active" /\ j \notin AtMostOnce
    /\ Enqueue(n, j)
    /\ events' = events - 1
    /\ UNCHANGED <<now, waiting, cron, link, net, leaving, added, hist>>

(***************************************************************************)
(* The messages.  A message of a node that is not known is ignored.        *)
(***************************************************************************)
Known(n, m) == link[n][m].node # 0

Gives(n, q) == Queued(n) # {} /\ getQueueImportRate(q) = 0 /\ ~q.paused

\* The jobs for a request of count: half of the queue if it is short.
Reply(n, count) ==
    LET qlen == Cardinality(Queued(n))
        some == IF qlen < count * 2 THEN qlen \div 2 ELSE count
    IN  {j \in Queued(n) : Cardinality({x \in Queued(n) : x < j}) < Max({some, 1})}

\* Mutant: jobs with retry 0 stay registered after they were sent.
GivenKeep(j) == "active"

\* A job that was sent: with retry 0 it is unregistered.
Given(j) == IF j \in AtMostOnce THEN "none" ELSE "active"

\* Without a link nothing is sent.
clusterSendYourJobs(n, m, jobs, bus) ==
    IF link[n][m].up THEN [bus EXCEPT ![<<n, m>>] = Append(@, [type |-> "YOURJOBS", jobs |-> jobs])] ELSE bus

receiveNeedJobs(n, m, count, bus) ==
    IF ~queue[n].exists \/ ~Gives(n, Existing(queue[n])) THEN net' = bus /\ UNCHANGED <<queue, job>>
    ELSE LET jobs == Reply(n, count)
         IN  /\ job' = [job EXCEPT ![n] = [j \in Jobs |-> IF j \in jobs THEN Given(j) ELSE @[j]]]
             /\ queue' = [queue EXCEPT ![n].atime = unixtime]
             /\ net' = clusterSendYourJobs(n, m, jobs, bus)

\* dictAdd() finds a node by its name: the object of an older entry stays.
Source(q, node, m) ==
    IF m \in DOMAIN q.responders THEN [q EXCEPT !.responders[m].last = unixtime]
    ELSE [q EXCEPT !.bcastAttempt = 0,
                   !.responders = [x \in DOMAIN @ \cup {m} |->
                       IF x = m THEN [node |-> node, last |-> unixtime] ELSE @[x]]]

\* The queue after k jobs of m: the others count in the period of the first.
Imported(q, node, m, k) ==
    [updateQueueImportRate(Source([q EXCEPT !.atime = unixtime], node, m)) EXCEPT
        !.adhocAttempt = 0, !.currentCount = @ + k - 1]

NewJobs(n, jobs) ==
    {j \in jobs : job[n][j] = "none" \/ (job[n][j] = "active" /\ j \notin AtMostOnce)}

receiveYourJobs(n, m, jobs) ==
    LET new == NewJobs(n, jobs)
        q == IF new = {} THEN queue[n]
             ELSE Imported(Existing(queue[n]), link[n][m].node, m, Cardinality(new))
        first == new # {} /\ m \notin DOMAIN Existing(queue[n]).responders
    IN  /\ queue' = [queue EXCEPT ![n] = q]
        /\ job' = [job EXCEPT ![n] = [j \in Jobs |-> IF j \in new THEN "queued" ELSE @[j]]]
        /\ came' = [came EXCEPT ![n] = [j \in Jobs |-> IF j \in new THEN [from |-> m, time |-> now] ELSE @[j]]]
        /\ asked' = [asked EXCEPT ![n].times = IF first THEN 0 ELSE @]

clusterProcessPacket(m, n) ==
    /\ net[<<m, n>>] # <<>>
    /\ LET packet == Head(net[<<m, n>>])
           bus == [net EXCEPT ![<<m, n>>] = Tail(@)]
       IN  \/ ~Known(n, m) /\ net' = bus /\ UNCHANGED <<queue, job, hist>>
           \/ Known(n, m) /\ packet.type = "NEEDJOBS" /\ receiveNeedJobs(n, m, packet.count, bus) /\ UNCHANGED hist
           \/ Known(n, m) /\ packet.type = "YOURJOBS" /\ receiveYourJobs(n, m, packet.jobs) /\ net' = bus
    /\ UNCHANGED <<now, waiting, cron, link, events, leaving, added>>

(***************************************************************************)
(* Rare events: a queue paused in output or resumed, a node that leaves, a *)
(* link lost, a node forgotten and met again, with a new clusterNode.      *)
(***************************************************************************)
Rare(event) == event \in Events /\ events > 0 /\ events' = events - 1

\* Not in the iteration that filled the queue: Queues has that case.
pause(n) ==
    /\ Rare("pause")
    /\ ~Servable(n)
    /\ LET q == Existing(queue[n])
       IN  queue' = [queue EXCEPT ![n] = [q EXCEPT !.paused = ~q.paused]]
    /\ UNCHANGED <<now, job, waiting, cron, link, net, leaving, added, hist>>

\* CLUSTER LEAVING yes or no.
leave(n) ==
    /\ Rare("leave")
    /\ leaving' = IF n \in leaving THEN leaving \ {n} ELSE leaving \cup {n}
    /\ UNCHANGED <<now, queue, job, waiting, cron, link, net, added, hist>>

freeClusterLink(n, m) ==
    /\ Rare("disconnect")
    /\ link[n][m].up
    /\ link' = [link EXCEPT ![n][m].up = FALSE]
    /\ net' = [net EXCEPT ![<<n, m>>] = <<>>]
    /\ UNCHANGED <<now, queue, job, waiting, cron, leaving, added, hist>>

reconnect(n, m) ==
    /\ Known(n, m) /\ ~link[n][m].up
    /\ link' = [link EXCEPT ![n][m].up = TRUE]
    /\ UNCHANGED <<now, queue, job, waiting, cron, net, events, leaving, added, hist>>

\* CLUSTER FORGET, at most once for a node.
forget(n, m) ==
    /\ Rare("forget")
    /\ link[n][m].node = 1
    /\ link' = [link EXCEPT ![n][m] = [node |-> 0, up |-> FALSE]]
    /\ net' = [net EXCEPT ![<<n, m>>] = <<>>]
    /\ UNCHANGED <<now, queue, job, waiting, cron, leaving, added, hist>>

meet(n, m) ==
    /\ ~Known(n, m)
    /\ link' = [link EXCEPT ![n][m] = [node |-> 2, up |-> TRUE]]
    /\ UNCHANGED <<now, queue, job, waiting, cron, net, events, leaving, added, hist>>

\* GCQueue(): nobody waits, no job, not used for a while.
GCQueue(n) ==
    /\ queue[n].exists
    /\ unixtime - queue[n].atime >= MaxIdle
    /\ waiting[n] = 0 /\ Queued(n) = {} /\ ~queue[n].paused
    /\ queue' = [queue EXCEPT ![n] = NoQueue]
    /\ asked' = [asked EXCEPT ![n] = [time |-> 0, times |-> 0]]
    /\ UNCHANGED <<now, job, waiting, cron, link, net, events, leaving, added, came>>

\* The event loop is not late: clients that can be served are, and the cron
\* visits the others every second.
Tick ==
    /\ \E d \in Ticks :
          /\ now + d <= Start + MaxTime
          /\ \A n \in Nodes : waiting[n] > 0 => now + d <= cron[n] + CronPeriod
          /\ now' = now + d
    /\ \A n \in Nodes : ~Servable(n)
    /\ Prompt => \A p \in DOMAIN net : net[p] = <<>>
    /\ UNCHANGED <<queue, job, waiting, cron, link, net, events, leaving, added, hist>>

Step ==
    \/ \E n \in Nodes : \/ getjobCommand(n) \/ handleClientsBlockedOnQueues(n)
                        \/ clientsCronSendNeedJobs(n) \/ addjobCommand(n)
                        \/ pause(n) \/ leave(n) \/ GCQueue(n)
                        \/ \E j \in Jobs : requeue(n, j)
    \/ \E n \in Nodes, m \in Nodes :
          n # m /\ (\/ clusterProcessPacket(n, m) \/ freeClusterLink(n, m) \/ reconnect(n, m)
                    \/ forget(n, m) \/ meet(n, m))
    \/ Tick

\* A client waits at n, and m would answer a request.
CouldServe(n, m) ==
    /\ waiting[n] > 0 /\ Queued(n) = {} /\ n \notin leaving
    /\ link[n][m].up /\ link[m][n].up
    /\ queue[m].exists /\ Queued(m) # {} /\ ~queue[m].paused /\ getQueueImportRate(queue[m]) = 0

Watch ==
    since' = [p \in DOMAIN since |->
                 IF CouldServe(p[1], p[2]) /\ CouldServe(p[1], p[2])' THEN since[p] ELSE now']

Init ==
    /\ now = Start
    /\ queue = [n \in Nodes |-> NoQueue]
    /\ job = [n \in Nodes |-> [j \in Jobs |-> "none"]]
    /\ waiting = [n \in Nodes |-> 0]
    /\ cron = [n \in Nodes |-> Start]
    /\ link = [n \in Nodes |-> [m \in Nodes |-> [node |-> 1, up |-> m # n]]]
    /\ net = [p \in Nodes \X Nodes |-> <<>>]
    /\ leaving = {}
    /\ events = MaxEvents
    /\ added = {}
    /\ asked = [n \in Nodes |-> [time |-> 0, times |-> 0]]
    /\ came = [n \in Nodes |-> [j \in Jobs |-> [from |-> n, time |-> 0]]]
    /\ since = [p \in Watched |-> Start]

Next == Step /\ Watch

Spec == Init /\ [][Next]_vars

(***************************************************************************)
(* Properties.                                                             *)
(***************************************************************************)
TypeOK ==
    /\ now \in Start .. Start + MaxTime
    /\ \A n \in Nodes :
          /\ queue[n].exists =>
                /\ queue[n].prev <= queue[n].current /\ queue[n].current <= now
                /\ DOMAIN queue[n].responders \subseteq Nodes \ {n}
          /\ ~queue[n].exists => Queued(n) = {} /\ waiting[n] = 0
          /\ waiting[n] \in 0 .. MaxClients
    /\ job \in [Nodes -> [Jobs -> {"none", "active", "queued"}]]

\* What "exponential intervals (with a max time limit)" (queue.c) means: after
\* k cluster-wide requests since the last new source of jobs, the next one is
\* sent more than min(2 s * 2^k, 30 s) after the last.
BackoffRespected ==
    [][\A n \in Nodes :
          (asked'[n].time # asked[n].time /\ asked'[n].time # 0 /\ asked[n].time # 0) =>
              asked'[n].time - asked[n].time
                  > (IF asked[n].times >= 4 THEN BcastMax ELSE BcastMin * 2 ^ asked[n].times)]_vars

\* A client that waits at a node gets a job that another node has and would
\* give, at the latest when the longest interval between two cluster-wide
\* requests has passed and the cron has visited the client: whatever the
\* history of the queue is, the federation finds the job.
ServedInTime ==
    \A p \in DOMAIN since :
        now - since[p] <= BcastMax + 2 * CronPeriod

\* Jobs do not travel back and forth: a job that a node got from another one
\* is not given back to it in the next four seconds, because a node that
\* imports jobs does not answer NEEDJOBS (receiveNeedJobs).
NoPingPong ==
    [][\A n \in Nodes, m \in Nodes : \A j \in DOMAIN came[n] :
          LET sent == net'[<<n, m>>]
          IN  (/\ n # m /\ Len(sent) > Len(net[<<n, m>>])
               /\ sent[Len(sent)].type = "YOURJOBS" /\ j \in sent[Len(sent)].jobs
               /\ came[n][j].from = m) => now - came[n][j].time >= ImportWindow - 1000]_vars

\* The message i of net[p] brings job j.
Carries(p, i, j) ==
    /\ i \in DOMAIN net[p] /\ net[p][i].type = "YOURJOBS"
    /\ j \in net[p][i].jobs

\* A job with retry 0 has one copy "by contract" (receiveNeedJobs): it is
\* registered at one node or travels in one YOURJOBS message, whatever links
\* break and whatever nodes are forgotten.
OneCopy ==
    \A j \in AtMostOnce :
        /\ \A n, m \in Nodes : job[n][j] # "none" /\ job[m][j] # "none" => n = m
        /\ \A p, q \in Nodes \X Nodes : \A i \in DOMAIN net[p], k \in DOMAIN net[q] :
              Carries(p, i, j) /\ Carries(q, k, j) => p = q /\ i = k
        /\ \A n \in Nodes, p \in Nodes \X Nodes : \A i \in DOMAIN net[p] :
              ~ (job[n][j] # "none" /\ Carries(p, i, j))

\* The "nodes known to be sources for this queue" (needJobsForQueue) can be
\* asked: when a node has just given jobs, its entry in the list of sources is
\* the object that the messages for the node are sent through.
SourceIsCurrent ==
    [][\A n \in Nodes : \A m \in Nodes :
          came'[n] # came[n] /\ queue'[n].exists /\ m \in DOMAIN queue'[n].responders
          /\ (\E j \in Jobs : came'[n][j] # came[n][j] /\ came'[n][j].from = m)
          => queue'[n].responders[m].node = link[n][m].node]_vars

=============================================================================
