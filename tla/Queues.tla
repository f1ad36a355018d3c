------------------------------- MODULE Queues -------------------------------
(***************************************************************************)
(* The queues of one node and the clients blocked on them (queue.c,        *)
(* blocked.c): creation, idle eviction and pausing of queues; GETJOB on    *)
(* several queues; the set of ready queues served after every command and  *)
(* before the event loop sleeps; the list of unblocked clients whose       *)
(* buffered command is processed then.                                     *)
(*                                                                         *)
(* srv stands for the global server structure; the operators below take it *)
(* and return it, as the C functions change it.  A job is a natural, its   *)
(* creation time.                                                          *)
(***************************************************************************)
EXTENDS Integers, Sequences, FiniteSets, SequencesExt

CONSTANTS
    QNames,      \* queue names
    Jobs,        \* jobs, ordered like their ctime
    QueueOf,     \* QueueOf[j]: job->queue
    Clients,
    Pauses,      \* the paused states that PAUSE sets, sets of "in" and "out"
    GetJobs,     \* GETJOB arguments: [from: Seq(QNames), count, nohang]
    Null

VARIABLES srv, served
\* srv.queues[q]     Null or [jobs, clients: Seq(Clients), paused, idle]
\* srv.job[j]        "none", "active" or "queued"
\* srv.ready         server.ready_queues
\* srv.blocked[c]    the queues of c->bpop.queues, {} if c is not blocked
\* srv.unblocked     server.unblocked_clients
\* srv.pending[c]    the command in the query buffer of c, Null if none
\* srv.leaving       the LEAVING flag of this node
\* srv.phase         "events", or "unblock" in the second half of beforeSleep
\* served            the <<queue, job>> pairs the last step gave to clients

vars == <<srv, served>>

-----------------------------------------------------------------------------
(* Queues *)

Exists(s, q) == s.queues[q] # Null
Len0(s, q) == IF Exists(s, q) THEN Cardinality(s.queues[q].jobs) ELSE 0
Paused(s, q) == Exists(s, q) /\ "out" \in s.queues[q].paused

\* createQueue, when the lookup fails
WithQueue(s, q) ==
    IF Exists(s, q) THEN s
    ELSE [s EXCEPT !.queues[q] = [jobs |-> {}, clients |-> <<>>, paused |-> {},
                                  idle |-> FALSE]]

\* The guards of GCQueue.
Collectable(s, q) ==
    /\ Exists(s, q) /\ s.queues[q].idle
    /\ s.queues[q].clients = <<>>
    /\ s.queues[q].jobs = {}
    /\ s.queues[q].paused = {}

GCQueue(s, q) == IF Collectable(s, q) THEN [s EXCEPT !.queues[q] = Null] ELSE s

signalQueueAsReady(s, q) ==
    IF s.queues[q].clients = <<>> THEN s ELSE [s EXCEPT !.ready = @ \cup {q}]

\* enqueueJob for a job that may be queued
enqueueJob(s, j) ==
    LET q == QueueOf[j]
        t == [WithQueue(s, q) EXCEPT !.job[j] = "queued",
                                     !.queues[q].jobs = @ \cup {j},
                                     !.queues[q].idle = FALSE]
    IN  IF s.job[j] # "active" THEN s
        ELSE IF Paused(t, q) THEN t ELSE signalQueueAsReady(t, q)

dequeueJob(s, j) ==
    IF s.job[j] # "queued" \/ ~Exists(s, QueueOf[j]) THEN s
    ELSE [s EXCEPT !.job[j] = "active", !.queues[QueueOf[j]].jobs = @ \ {j}]

\* The oldest job, which queueFetchJob pops.
Oldest(s, q) == CHOOSE j \in s.queues[q].jobs : \A k \in s.queues[q].jobs : j <= k

queueFetchJob(s, q) ==
    LET j == Oldest(s, q)
    IN  [s EXCEPT !.job[j] = "active", !.queues[q].jobs = @ \ {j},
                  !.queues[q].idle = FALSE]

-----------------------------------------------------------------------------
(* Blocked clients *)

blockForJobs(s, c, from) ==
    LET Add(t, q) == LET u == WithQueue(t, q)
                     IN  IF q \in u.blocked[c] THEN u
                         ELSE [u EXCEPT !.blocked[c] = @ \cup {q},
                                        !.queues[q].clients = Append(@, c)]
    IN  FoldLeft(Add, s, from)

\* unblockClientBlockedForJobs
LeaveQueues(s, c) ==
    LET left == [q \in QNames |->
            IF q \in s.blocked[c]
            THEN [s.queues[q] EXCEPT !.clients = Remove(@, c)] ELSE s.queues[q]]
        t == [s EXCEPT !.queues = left, !.blocked[c] = {}]
    IN  [t EXCEPT !.queues = [q \in QNames |->
            IF q \in s.blocked[c] /\ left[q].clients = <<>>
            THEN GCQueue(t, q).queues[q] ELSE left[q]]]

unblockClient(s, c) ==
    LET t == LeaveQueues(s, c)
    IN  IF Contains(s.unblocked, c) THEN t ELSE [t EXCEPT !.unblocked = Append(@, c)]

\* The loop of handleClientsBlockedOnQueues for one ready queue; r carries the
\* server and the pairs served so far.
ServeQueue(r, q) ==
    LET Turn(x, i) ==
            IF ~Exists(x.s, q) \/ Len0(x.s, q) = 0 THEN x
            ELSE [s |-> unblockClient(queueFetchJob(x.s, q), Head(x.s.queues[q].clients)),
                  got |-> x.got \cup {<<q, Oldest(x.s, q)>>}]
    IN  IF ~Exists(r.s, q) THEN r
        ELSE FoldLeft(Turn, r, [i \in 1 .. Len(r.s.queues[q].clients) |-> i])

\* handleClientsBlockedOnQueues, visiting the ready queues in some order
handleClients(r, order) ==
    LET x == FoldLeft(ServeQueue, r, order)
    IN  [x EXCEPT !.s.ready = {}]

Serving(r) == {handleClients(r, order) : order \in SetToSeqs(r.s.ready)}

-----------------------------------------------------------------------------
(* Commands *)

\* One attempt of getjobCommand on queue q: r also carries the count left.
FetchFrom(r, q) ==
    IF r.count = 0 THEN r
    ELSE IF Len0(r.s, q) = 0 \/ Paused(r.s, q)
         THEN [r EXCEPT !.s = WithQueue(@, q)]   \* needJobsForQueueName
    ELSE [s |-> queueFetchJob(r.s, q), count |-> r.count - 1,
          got |-> r.got \cup {<<q, Oldest(r.s, q)>>}]

getjob(s, c, cmd) ==
    LET Scan(r, i) == FoldLeft(FetchFrom, r, cmd.from)
        r == FoldLeft(Scan, [s |-> s, got |-> {}, count |-> cmd.count],
                      [i \in 1 .. cmd.count |-> i])
    IN  [s |-> IF r.got # {} \/ cmd.nohang \/ s.leaving THEN r.s
               ELSE blockForJobs(r.s, c, cmd.from),
         got |-> r.got]

\* Mutant: clearing the pause does not serve the blocked clients.
changePausedStateQuietly(s, q, flags) == [s EXCEPT !.queues[q].paused = flags]

\* queueChangePausedState, for both directions
changePausedState(s, q, flags) ==
    LET t == [s EXCEPT !.queues[q].paused = flags]
    IN  IF Paused(s, q) /\ ~Paused(t, q) THEN signalQueueAsReady(t, q) ELSE t

\* pauseCommand and receivePauseQueue: a missing queue is created unless the
\* pause is cleared.
pause(s, q, flags) ==
    IF ~Exists(s, q) /\ flags = {} THEN s
    ELSE changePausedState(WithQueue(s, q), q, flags)

\* What processCommand leaves behind: the command, then the ready queues.
Process(s, c, cmd) == Serving(getjob([s EXCEPT !.pending[c] = Null], c, cmd))

-----------------------------------------------------------------------------
(* The events of the node *)

Nothing(s) == [s |-> s, got |-> {}]

Continues(r) == srv' = r.s /\ served' = r.got

\* Events are handled outside beforeSleep.
Becomes(r) == srv.phase = "events" /\ Continues(r)

Init ==
    /\ srv = [queues |-> [q \in QNames |-> Null],
              job |-> [j \in Jobs |-> "none"],
              ready |-> {},
              blocked |-> [c \in Clients |-> {}],
              unblocked |-> <<>>,
              pending |-> [c \in Clients |-> Null],
              leaving |-> FALSE,
              phase |-> "events"]
    /\ served = {}

\* readQueryFromClient: a blocked client's command stays in its buffer.
GetJob(c, cmd) ==
    /\ srv.pending[c] = Null
    /\ IF srv.blocked[c] # {}
       THEN Becomes(Nothing([srv EXCEPT !.pending[c] = cmd]))
       ELSE \E r \in Process(srv, c, cmd) : Becomes(r)

\* ADDJOB or ENQUEUE on this node, by a client that is not blocked on queues
EnqueueCommand(j) ==
    /\ srv.job[j] # "queued"
    /\ \E r \in Serving(Nothing(enqueueJob([srv EXCEPT !.job[j] = "active"], j))) : Becomes(r)

DequeueCommand(j) ==
    /\ srv.job[j] = "queued"
    /\ \E r \in Serving(Nothing(dequeueJob(srv, j))) : Becomes(r)

PauseCommand(q, flags) ==
    \E r \in Serving(Nothing(pause(srv, q, flags))) : Becomes(r)

\* The timer of the job or a YOURJOBS message: nobody is served yet.
EnqueueEvent(j) ==
    /\ srv.job[j] = "active"
    /\ Becomes(Nothing(enqueueJob(srv, j)))

\* The job is acknowledged or expires: unregisterJob.
JobGone(j) ==
    /\ srv.job[j] # "none"
    /\ Becomes(Nothing([dequeueJob(srv, j) EXCEPT !.job[j] = "none"]))

\* A PAUSE message of another node
PauseMessage(q, flags) == Becomes(Nothing(pause(srv, q, flags)))

\* clientsCronHandleTimeout: the timeout elapsed or this node is leaving
ClientTimeout(c) ==
    /\ srv.blocked[c] # {}
    /\ Becomes(Nothing(unblockClient(srv, c)))

\* freeClient; the slot is then reused by a new client
ClientGone(c) ==
    /\ LET t == LeaveQueues(srv, c)
       IN  Becomes(Nothing([t EXCEPT !.unblocked = Remove(@, c), !.pending[c] = Null]))

\* QUEUE_MAX_IDLE_TIME passes without an access.
QueueIdle(q) ==
    /\ Exists(srv, q)
    /\ Becomes(Nothing([srv EXCEPT !.queues[q].idle = TRUE]))

\* evictIdleQueues
EvictQueue(q) ==
    /\ Collectable(srv, q)
    /\ Becomes(Nothing(GCQueue(srv, q)))

SetLeaving == Becomes(Nothing([srv EXCEPT !.leaving = ~@]))

\* flushServerData: jobs, then the blocked clients, then the queues
Flush ==
    LET t == FoldLeft(unblockClient, [srv EXCEPT !.job = [j \in Jobs |-> "none"],
                         !.queues = [q \in QNames |-> IF Exists(srv, q)
                                        THEN [srv.queues[q] EXCEPT !.jobs = {}] ELSE Null]],
                      SetToSeq({c \in Clients : srv.blocked[c] # {}}))
    IN  Becomes(Nothing([t EXCEPT !.queues = [q \in QNames |-> Null]]))

\* beforeSleep, between two rounds of events: handleClientsBlockedOnQueues,
\* then processUnblockedClients until its list is empty.
HandleReady ==
    /\ srv.phase = "events"
    /\ \E r \in Serving(Nothing([srv EXCEPT !.phase = "unblock"])) : Continues(r)

ProcessUnblocked ==
    /\ srv.phase = "unblock" /\ srv.unblocked # <<>>
    /\ LET c == Head(srv.unblocked)
           t == [srv EXCEPT !.unblocked = Tail(@)]
       IN  IF t.blocked[c] # {} \/ t.pending[c] = Null
           THEN Continues(Nothing(t))
           ELSE \E r \in Process(t, c, t.pending[c]) : Continues(r)

Sleep ==
    /\ srv.phase = "unblock" /\ srv.unblocked = <<>>
    /\ Continues(Nothing([srv EXCEPT !.phase = "events"]))

BeforeSleep == HandleReady \/ ProcessUnblocked \/ Sleep

Event ==
    \/ \E c \in Clients : \/ \E cmd \in GetJobs : GetJob(c, cmd)
                          \/ ClientTimeout(c) \/ ClientGone(c)
    \/ \E j \in Jobs : \/ EnqueueCommand(j) \/ DequeueCommand(j)
                       \/ EnqueueEvent(j) \/ JobGone(j)
    \/ \E q \in QNames : \/ \E flags \in Pauses : PauseCommand(q, flags) \/ PauseMessage(q, flags)
                         \/ QueueIdle(q) \/ EvictQueue(q)
    \/ SetLeaving \/ Flush

Next == Event \/ BeforeSleep

Spec == Init /\ [][Next]_vars

\* The event loop calls beforeSleep in every turn.
FairSpec == Spec /\ WF_vars(BeforeSleep)

-----------------------------------------------------------------------------
(* Properties *)

\* The links between clients and queues agree in both directions: a client is
\* in the list of exactly the queues it is blocked for, once.  The assertions
\* of unblockClientBlockedForJobs and destroyQueue rest on it.
LinksAgree ==
    \A c \in Clients, q \in QNames :
        Cardinality({i \in 1 .. (IF Exists(srv, q) THEN Len(srv.queues[q].clients) ELSE 0) :
                        srv.queues[q].clients[i] = c})
          = IF q \in srv.blocked[c] THEN 1 ELSE 0

\* A queued job is in the queue it names and nowhere else (the assertions of
\* enqueueJob and dequeueJob), so no queue with jobs is ever destroyed.
QueuedInQueue ==
    \A j \in Jobs, q \in QNames :
        (Exists(srv, q) /\ j \in srv.queues[q].jobs) <=> (srv.job[j] = "queued" /\ QueueOf[j] = q)

\* No lost wake-up: a queue that has jobs and blocked clients and is not paused
\* in output is in server.ready_queues, so beforeSleep will serve it.
ReadyIfServable ==
    \A q \in QNames :
        /\ Len0(srv, q) > 0 /\ ~Paused(srv, q) /\ srv.queues[q].clients # <<>>
        => q \in srv.ready

\* A client that is unblocked while a command waits in its buffer is in the
\* list that processUnblockedClients works off.
PendingListed ==
    \A c \in Clients :
        srv.pending[c] # Null /\ srv.blocked[c] = {} => Contains(srv.unblocked, c)

\* A command in the buffer of a client that was unblocked is processed, or the
\* client blocks again or goes away.
PendingProcessed ==
    \A c \in Clients :
        (srv.pending[c] # Null /\ srv.blocked[c] = {})
            ~> (srv.pending[c] = Null \/ srv.blocked[c] # {})

\* A job in a queue that is not paused and a client blocked on that queue do
\* not both wait for ever.
ServableServed ==
    \A q \in QNames :
        (Len0(srv, q) > 0 /\ ~Paused(srv, q) /\ srv.queues[q].clients # <<>>)
            ~> (Len0(srv, q) = 0 \/ Paused(srv, q) \/ srv.queues[q].clients = <<>>)

\* README:604: a queue paused in output does not serve its jobs.
PausedServesNothing == [][\A x \in served' : ~Paused(srv', x[1])]_vars
=============================================================================
