------------------------------ MODULE JobTimers ------------------------------
(***************************************************************************)
(* The timers of the jobs of one node: the awakeme list (job.c), which     *)
(* orders all the registered jobs by the time something is due for them,   *)
(* processJobs(), which the event loop calls as a timer, and every command *)
(* and message that changes when a job is due.                             *)
(*                                                                         *)
(* Time is counted in ticks of `clock'; server.mstime and server.unixtime  *)
(* are its cached copies.  The event loop is never late: time does not     *)
(* pass a timer that is due.  What a job holds besides its timers (body,   *)
(* nodes, queue position) is left to JobProtocol and Queues.               *)
(***************************************************************************)
EXTENDS Integers, Sequences, FiniteSets, SequencesExt

CONSTANTS Jobs,       \* numbers, in the order of ctime and ID
          Retries,    \* RETRY arguments, in seconds
          Delays,     \* DELAY arguments, in seconds
          TTLs,       \* TTL arguments, in seconds
          Second,     \* ticks of a second
          Advance,    \* JOB_WILLQUEUE_ADVANCE
          TimeErr,    \* DISQUE_TIME_ERR
          GCMin,      \* JOB_GC_RETRY_MIN_PERIOD
          GCMax,      \* JOB_GC_RETRY_MAX_PERIOD
          GCCount,    \* JOB_GC_RETRY_COUNT_MAX
          MaxPeriod,  \* the 100 milliseconds of processJobs and of serverCron
          MaxJobs,    \* jobs that one call of processJobs looks at
          Commands,   \* the commands and messages of this run
          MaxClock    \* bound: the clock

VARIABLES clock,     \* mstime()
          mstime,    \* server.mstime
          unixtime,  \* server.unixtime
          cron,      \* when serverCron is called next
          timer,     \* when processJobs is called next
          jobs,      \* Jobs -> job, NoJob when not registered
          awake,     \* server.awakeme: pairs <<awakeme, job>>
          paused,    \* the queue of the jobs is paused in input
          stuck      \* a job was logged as not processable

vars == <<clock, mstime, unixtime, cron, timer, jobs, awake, paused, stuck>>

NoJob == [state |-> "none"]

(***************************************************************************)
(* A node seen by the functions below: s.now is server.mstime, s.unixtime  *)
(* is server.unixtime.  A function that draws a random time error returns  *)
(* the set of its results.                                                 *)
(***************************************************************************)
randomTimeError(err) == (0 - err \div 2) .. (err - 1 - err \div 2)

\* Whichever time comes first.
Earliest(a, b) == IF a < b THEN a ELSE b

getNextGCRetryTime(x, now) ==
    {now + Earliest(GCMin * 2 ^ x.gc, GCMax) + e : e \in randomTimeError(TimeErr)}

EvictTime(x) == x.etime * Second + Second

\* The times updateJobAwakeTime(j,0) may compute.
AwakeTimes(x, now) ==
    IF x.state = "acked" THEN {Earliest(EvictTime(x), t) : t \in getNextGCRetryTime(x, now)}
    ELSE IF x.state \in {"active", "queued"} /\ x.qtime # 0
    THEN {Earliest(EvictTime(x), x.qtime - (IF x.willqueue THEN Advance ELSE 0))}
    ELSE {EvictTime(x)}

\* The place in the list is found with the old time of the job.
Move(s, j, x, at) ==
    [s EXCEPT !.jobs[j] = [x EXCEPT !.awakeme = at],
              !.awake = (@ \ {<<x.awakeme, j>>}) \cup {<<at, j>>}]

\* updateJobAwakeTime(j,0) for job j with the fields x.
updateJobAwakeTime(s, j, x) == {Move(s, j, x, at) : at \in AwakeTimes(x, s.now)}

Store(s, j, x) == [s EXCEPT !.jobs[j] = x]

updateJobRequeueTime(s, j, x, qtime) ==
    IF x.retry = 0 \/ x.qtime = 0 THEN {Store(s, j, x)}
    ELSE updateJobAwakeTime(s, j, [x EXCEPT !.qtime = qtime])

RetryTimes(x, now) == {now + x.retry * Second + e : e \in randomTimeError(TimeErr)}

\* The requeue time is a retry time away.
Postpone(s, j, x) == UNION {updateJobRequeueTime(s, j, x, q) : q \in RetryTimes(x, s.now)}

unregisterJob(s, j) ==
    [s EXCEPT !.jobs[j] = NoJob, !.awake = @ \ {<<s.jobs[j].awakeme, j>>}]

enqueueJob(s, j, x) ==
    IF x.state = "queued" \/ x.qtime = 0 \/ (x.retry = 0 /\ x.delivered) THEN {Store(s, j, x)}
    ELSE UNION {updateJobAwakeTime(s, j, [x EXCEPT !.state = "queued", !.qtime = q,
                                                   !.willqueue = @ \/ x.retry # 0]) :
                   q \in IF x.retry = 0 THEN {0} ELSE RetryTimes(x, s.now)}

dequeueJob(x) == IF x.state = "queued" THEN [x EXCEPT !.state = "active"] ELSE x

\* Some node has not confirmed: the job stays.
tryJobGC(x) == IF x.gc = GCCount THEN x ELSE [x EXCEPT !.gc = @ + 1]

(***************************************************************************)
(* processJob(), one operator for each of its paragraphs.                  *)
(***************************************************************************)
WillQueue(s, j) ==
    LET x == s.jobs[j] IN
    IF x.state \in {"active", "queued"} /\ x.willqueue /\ x.qtime - Advance <= s.now
    THEN updateJobAwakeTime(s, j, [x EXCEPT !.willqueue = FALSE])
    ELSE {s}

\* Mutant: a job with retry 0 waits for the queue too.
RequeueWait(s, j) ==
    LET x == s.jobs[j] IN
    IF x.state # "active" \/ x.qtime > s.now THEN {s}
    ELSE IF s.paused THEN Postpone(s, j, x)
    ELSE enqueueJob(s, j, x)

\* In a queue paused in input a job that can be queued later is postponed.
Requeue(s, j) ==
    LET x == s.jobs[j] IN
    IF x.state # "active" \/ x.qtime > s.now THEN {s}
    ELSE IF x.retry # 0 /\ s.paused THEN Postpone(s, j, x)
    ELSE enqueueJob(s, j, x)

PostponeQueued(s, j) ==
    LET x == s.jobs[j] IN
    IF x.state # "queued" \/ x.qtime > s.now \/ x.retry = 0 THEN {s}
    ELSE UNION {updateJobAwakeTime(s, j, [x EXCEPT !.willqueue = TRUE, !.qtime = q]) :
                   q \in RetryTimes(x, s.now)}

CollectGarbage(s, j) ==
    IF s.jobs[j].state = "acked" THEN updateJobAwakeTime(s, j, tryJobGC(s.jobs[j])) ELSE {s}

\* Applies an operator to every state of a set.
Then(S, Op(_, _), j) == UNION {Op(s, j) : s \in S}

processJob(s, j) ==
    IF s.jobs[j].etime <= s.unixtime THEN {unregisterJob(s, j)}
    ELSE {[r EXCEPT !.stuck = @ \/ r.jobs[j].awakeme = s.jobs[j].awakeme] :
             r \in Then(Then(Then(Then({s}, WillQueue, j), Requeue, j), PostponeQueued, j),
                        CollectGarbage, j)}

(***************************************************************************)
(* processJobs().                                                          *)
(***************************************************************************)
Before(p, q) == p[1] < q[1] \/ (p[1] = q[1] /\ p[2] < q[2])
AwakeSeq(s) == SetToSortSeq(s.awake, Before)

\* The first element of the list after p.
Forward(s, p) == SelectSeq(AwakeSeq(s), LAMBDA q : Before(p, q))

\* Looks at cur[1], the head of a list; next is read before the job is moved.
Visit(s, cur, k) ==
    IF cur = <<>> \/ cur[1][1] > s.now THEN {[s EXCEPT !.cur = <<>>]}
    ELSE {[r EXCEPT !.cur = Forward(s, cur[1])] : r \in processJob(s, cur[1][2])}

VisitAll(s) ==
    FoldLeft(LAMBDA S, k : UNION {Visit(r, r.cur, k) : r \in S},
             {[s EXCEPT !.cur = AwakeSeq(s)]}, [k \in 1 .. MaxJobs |-> k])

\* The time since the first job was due, between 1 and 100 milliseconds.
NextPeriod(s) ==
    IF s.awake = {} THEN MaxPeriod
    ELSE LET period == s.now - AwakeSeq(s)[1][1]
         IN  IF period < 1 THEN 1 ELSE Earliest(period, MaxPeriod)

-----------------------------------------------------------------------------
Node == [jobs |-> jobs, awake |-> awake, paused |-> paused, stuck |-> stuck,
         now |-> mstime, unixtime |-> unixtime, cur |-> <<>>]

\* The step to a node s; the clocks are left alone.
Become(s) ==
    /\ jobs' = s.jobs /\ awake' = s.awake /\ stuck' = s.stuck
    /\ UNCHANGED <<clock, unixtime, cron, paused>>

Handler(S) ==
    /\ \E s \in S : Become(s)
    /\ UNCHANGED <<mstime, timer>>

processJobs ==
    /\ clock = timer
    /\ \E s \in VisitAll([Node EXCEPT !.now = clock]) :
         Become(s) /\ timer' = clock + NextPeriod(s)
    /\ mstime' = clock

serverCron ==
    /\ clock = cron
    /\ mstime' = clock /\ unixtime' = clock \div Second /\ cron' = clock + MaxPeriod
    /\ UNCHANGED <<clock, timer, jobs, awake, paused, stuck>>

Tick ==
    /\ clock < MaxClock /\ clock < timer /\ clock < cron
    /\ clock' = clock + 1
    /\ UNCHANGED <<mstime, unixtime, cron, timer, jobs, awake, paused, stuck>>

(***************************************************************************)
(* Commands and messages.                                                  *)
(***************************************************************************)
\* since: when the job left wait_repl, for the properties.
Job(state, retry, delay, ttl, qtime, willqueue) ==
    [state |-> state, retry |-> retry, delay |-> delay, etime |-> unixtime + ttl,
     ctime |-> clock, since |-> clock, qtime |-> qtime, willqueue |-> willqueue, delivered |-> FALSE, gc |-> 0, awakeme |-> 0]

\* createJob(), registerJob() and what ADDJOB does with the job.
addjobCommand(j, retry, delay, ttl, sync) ==
    /\ jobs[j] = NoJob /\ ~paused
    /\ delay < ttl /\ retry < ttl
    /\ LET x == Job("wait_repl", retry, delay, ttl,
                    mstime + (IF delay # 0 THEN delay ELSE retry) * Second, FALSE)
       IN  Handler(UNION {IF sync THEN {s}
                        ELSE IF delay = 0 THEN enqueueJob(s, j, s.jobs[j])
                        ELSE updateJobAwakeTime(s, j, [s.jobs[j] EXCEPT !.state = "active"]) :
                           s \in updateJobAwakeTime(Node, j, x)})

\* Mutant: a delayed job is not scheduled when its replication is achieved.
AchievedAsleep(j) ==
    /\ jobs[j].state = "wait_repl"
    /\ LET x == [jobs[j] EXCEPT !.state = "active", !.since = clock] IN
       Handler(IF x.delay # 0 THEN {Store(Node, j, x)} ELSE enqueueJob(Node, j, x))

jobReplicationAchieved(j) ==
    /\ jobs[j].state = "wait_repl"
    /\ LET x == [jobs[j] EXCEPT !.state = "active", !.since = clock] IN
       Handler(IF x.delay # 0 THEN updateJobAwakeTime(Node, j, x) ELSE enqueueJob(Node, j, x))

\* The copy that REPLJOB, YOURJOBS and LOADJOB carry.
deserializeJob(retry, delay, ttl) ==
    IF retry = 0 THEN {Job("active", 0, delay, ttl, 0, FALSE)}
    ELSE {Job("active", retry, delay, ttl, mstime + (delay + retry) * Second + e, TRUE) :
             e \in randomTimeError(TimeErr)}

\* REPLJOB registers the job, unless the queue is paused; YOURJOBS enqueues it.
Receive(j, retry, delay, ttl, yours) ==
    /\ jobs[j] = NoJob /\ (yours \/ ~paused)
    /\ Handler(UNION {IF ~yours THEN {s}
                    ELSE enqueueJob(s, j, IF retry # 0 THEN s.jobs[j]
                                          ELSE [s.jobs[j] EXCEPT !.qtime = mstime]) :
                s \in UNION {updateJobAwakeTime(Node, j, x) : x \in deserializeJob(retry, delay, ttl)}})

queueFetchJob(j) ==
    /\ jobs[j].state = "queued"
    /\ Handler({Store(Node, j, [jobs[j] EXCEPT !.state = "active", !.delivered = TRUE])})

\* ENQUEUE and NACK.
enqueueCommand(j) ==
    /\ jobs[j].state = "active"
    /\ Handler(enqueueJob(Node, j, jobs[j]))

dequeueCommand(j) ==
    /\ jobs[j].state = "queued"
    /\ Handler({Store(Node, j, dequeueJob(jobs[j]))})

TooLate(x) ==
    LET ttl == x.etime * Second - x.ctime IN ttl > 0 /\ mstime - x.ctime > ttl \div 2

workingCommand(j) ==
    /\ jobs[j] # NoJob /\ ~TooLate(jobs[j])
    /\ Handler(Postpone(Node, j, [dequeueJob(jobs[j]) EXCEPT !.willqueue = TRUE]))

\* The message ENQUEUE.
ReceiveEnqueue(j, delay) ==
    /\ jobs[j].state \in {"wait_repl", "active"} /\ ~paused
    /\ Handler(IF delay = 0 THEN enqueueJob(Node, j, jobs[j])
             ELSE updateJobRequeueTime(Node, j, jobs[j], mstime + delay * Second))

\* QUEUED and WORKING; gives says that the job is to leave the queue.
ReceiveQueued(j, gives) ==
    /\ jobs[j].state \in {"wait_repl", "active", "queued"}
    /\ LET x == IF gives THEN dequeueJob(jobs[j]) ELSE jobs[j] IN
       Handler(IF x.retry = 0 THEN {Store(Node, j, x)}
             ELSE Postpone(Node, j, [x EXCEPT !.willqueue = TRUE]))

\* ACKJOB and SETACK: acknowledgeJob(), and for ACKJOB a first tryJobGC().
acknowledgeJob(j, collect) ==
    /\ jobs[j] # NoJob /\ jobs[j].state # "acked"
    /\ Handler({IF collect THEN Store(s, j, tryJobGC(s.jobs[j])) ELSE s :
                s \in updateJobAwakeTime(Node, j, [jobs[j] EXCEPT !.state = "acked"])})

\* DELJOB, the last GOTACK, a replication that timed out.
Delete(j) == jobs[j] # NoJob /\ Handler({unregisterJob(Node, j)})

\* LOADJOB of a job written with the fields x, with aof-enqueue-jobs-once.
loadjobCommand(s, j, x) ==
    IF x.etime <= s.unixtime THEN {s}
    ELSE UNION {IF x.state = "queued" THEN enqueueJob(r, j, r.jobs[j]) ELSE {r} :
                   r \in UNION {updateJobAwakeTime(s, j, [y EXCEPT !.etime = x.etime, !.ctime = x.ctime]) :
                                   y \in deserializeJob(x.retry, x.delay, 0)}}

\* A controlled restart: SHUTDOWN REWRITE-AOF writes the jobs that are active
\* or queued, and the next start loads them.
Restart ==
    LET Logged == SetToSeq({j \in Jobs : jobs[j].state \in {"active", "queued"}}) IN
    /\ Handler(FoldLeft(LAMBDA S, j : UNION {loadjobCommand(s, j, jobs[j]) : s \in S},
                        {[Node EXCEPT !.jobs = [j \in Jobs |-> NoJob], !.awake = {}]}, Logged))

Pause ==
    /\ paused' = ~paused
    /\ UNCHANGED <<clock, mstime, unixtime, cron, timer, jobs, awake, stuck>>

-----------------------------------------------------------------------------
\* The server starts in the middle of a second.
Init ==
    /\ clock = Second + 1 /\ mstime = clock /\ unixtime = clock \div Second
    /\ cron = clock /\ timer = clock
    /\ jobs = [j \in Jobs |-> NoJob] /\ awake = {}
    /\ paused = FALSE /\ stuck = FALSE

Command(j) ==
    \/ \E retry \in Retries, delay \in Delays, ttl \in TTLs, b \in BOOLEAN :
         \/ "ADDJOB" \in Commands /\ addjobCommand(j, retry, delay, ttl, b)
         \/ "REPLJOB" \in Commands /\ Receive(j, retry, delay, ttl, b)
    \/ jobReplicationAchieved(j) \/ queueFetchJob(j)
    \/ \E b \in BOOLEAN : \/ "QUEUED" \in Commands /\ ReceiveQueued(j, b)
                          \/ "ACKJOB" \in Commands /\ acknowledgeJob(j, b)
    \/ "ENQUEUE" \in Commands /\ \/ \E delay \in Delays : ReceiveEnqueue(j, delay)
                                 \/ enqueueCommand(j) \/ dequeueCommand(j)
    \/ "WORKING" \in Commands /\ workingCommand(j)
    \/ "DELJOB" \in Commands /\ Delete(j)

Next ==
    \/ processJobs \/ serverCron \/ Tick
    \/ "PAUSE" \in Commands /\ Pause
    \/ "RESTART" \in Commands /\ Restart
    \/ \E j \in Jobs : Command(j)

Spec == Init /\ [][Next]_vars

(***************************************************************************)
(* Properties.                                                             *)
(***************************************************************************)
\* Type invariant.
TypeOK ==
    /\ clock \in Nat /\ mstime <= clock /\ unixtime * Second <= clock
    /\ timer >= clock /\ cron >= clock
    /\ \A j \in Jobs : jobs[j] # NoJob =>
         /\ jobs[j].state \in {"wait_repl", "active", "queued", "acked"}
         /\ jobs[j].qtime \in Nat /\ jobs[j].gc \in 0 .. GCCount
         /\ jobs[j].awakeme \in Nat \ {0}

\* Every registered job is in the awakeme list, once, at the place its
\* awakeme time gives it; else skiplistDelete() fails its assertion or the
\* job is forgotten.
ListedOnce == awake = {<<jobs[j].awakeme, j>> : j \in {i \in Jobs : jobs[i] # NoJob}}

\* No job is due earlier than it is awakened, whatever changed its state, its
\* flags or its requeue time (every such place calls updateJobAwakeTime).
AwakeInTime ==
    \A j \in Jobs : LET x == jobs[j] IN
        x # NoJob =>
            /\ x.awakeme <= EvictTime(x)
            /\ x.state \in {"active", "queued"} /\ x.qtime # 0 =>
                 x.awakeme <= x.qtime - (IF x.willqueue /\ x.retry # 0 THEN Advance ELSE 0)
            /\ x.state = "acked" => x.awakeme <= mstime + GCMax + TimeErr

\* processJob() finds something to do for every job it is called for: the
\* warning "NOT PROCESSABLE JOB" is never logged, and the list never holds a
\* job that is looked at on every call.
AlwaysProcessable == ~stuck

\* How late a call of processJobs may be, when it does not reach all jobs.
Late == MaxPeriod * Cardinality(Jobs)

\* A job that is not in a queue is put there, or its time is moved, shortly
\* after its requeue time, or after its replication if that came later: no interleaving of commands loses the retry.
RequeuedInTime ==
    \A j \in Jobs : jobs[j].state = "active" /\ jobs[j].qtime # 0 =>
        clock <= Late + (IF jobs[j].since > jobs[j].qtime THEN jobs[j].since ELSE jobs[j].qtime)

\* No job outlives its TTL by more than two seconds, though the expiration is
\* tested against a cached time.
ExpiresInTime ==
    \A j \in Jobs : jobs[j] # NoJob => clock <= (jobs[j].etime + 1) * Second + Late

\* processJobs() sleeps until the next job is due, at most 100 milliseconds.
SleepsUntilNext ==
    LET next == AwakeSeq(Node)[1][1] IN
    mstime = clock /\ timer > clock /\ awake # {} /\ next > clock =>
        timer >= Earliest(next, clock + MaxPeriod)

\* A controlled restart with aof-enqueue-jobs-once puts every job that was in
\* a queue, and is not expired, back into it.
RestartKeepsQueues ==
    [][Restart => \A j \in Jobs : jobs[j].state = "queued" /\ jobs[j].etime > unixtime =>
                                     jobs'[j].state = "queued"]_vars

\* ENQUEUE puts an active job into its queue, also one with retry 0.
EnqueueQueues ==
    \A j \in Jobs : jobs[j].state = "active" =>
        \A s \in enqueueJob(Node, j, jobs[j]) : s.jobs[j].state = "queued"

\* WORKING postpones a job only if it is not acknowledged.
WorkingNotAcked == [][\A j \in Jobs : workingCommand(j) => jobs[j].state # "acked"]_vars
=============================================================================
