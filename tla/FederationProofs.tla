-------------------------- MODULE FederationProofs --------------------------
(***************************************************************************)
(* Proofs about the traffic of a queue between nodes, for every cluster,   *)
(* every set of jobs, every rare event and every bound: a job with retry 0 *)
(* has one copy (OneCopy), and jobs do not travel back and forth           *)
(* (NoPingPong).                                                           *)
(***************************************************************************)
EXTENDS Federation, FiniteSetTheorems, WellFoundedInduction, TLAPS

Packet == [type : {"NEEDJOBS"}, count : Int] \cup [type : {"YOURJOBS"}, jobs : SUBSET Jobs]
Pairs == Nodes \X Nodes
Bus == [Pairs -> Seq(Packet)]
Sources == UNION {[S -> [node : Int, last : Int]] : S \in SUBSET Nodes}
QueueRecord ==
    [exists : {TRUE}, atime : Int, paused : BOOLEAN, bcastTime : Int, bcastAttempt : Int,
     adhocTime : Int, adhocAttempt : Int, responders : Sources,
     current : Int, currentCount : Nat, prev : Int, prevCount : Nat]
Asking == [queue : QueueRecord, bus : Bus, asked : [time : Int, times : Int]]

Types ==
    /\ now \in Nat /\ now >= Start
    /\ queue \in [Nodes -> QueueRecord \cup {NoQueue}]
    /\ job \in [Nodes -> [Jobs -> {"none", "active", "queued"}]]
    /\ link \in [Nodes -> [Nodes -> [node : Int, up : BOOLEAN]]]
    /\ net \in Bus
    /\ added \in SUBSET Jobs
    /\ asked \in [Nodes -> [time : Int, times : Int]]
    /\ came \in [Nodes -> [Jobs -> [from : Nodes, time : Int]]]

-----------------------------------------------------------------------------
(* Arithmetic *)

\* The larger of two integers, as the C macros and conditionals compute it.
LEMMA MaxTwo ==
    ASSUME NEW x \in Int, NEW y \in Int
    PROVE  Max({x, y}) \in Int /\ Max({x, y}) >= x /\ Max({x, y}) >= y
<1>1. \E z \in {x, y} : \A w \in {x, y} : z >= w
  OBVIOUS
<1> QED
  BY <1>1 DEF Max

\* The smaller of two integers.
LEMMA MinTwo ==
    ASSUME NEW x \in Int, NEW y \in Int
    PROVE  Min({x, y}) \in Int
<1>1. \E z \in {x, y} : \A w \in {x, y} : z <= w
  OBVIOUS
<1> QED
  BY <1>1 DEF Min

\* Min() finds the least of some jobs.
LEMMA MinIn ==
    ASSUME NEW S \in SUBSET Jobs, S # {}
    PROVE  Min(S) \in S
<1>1. S \subseteq Nat
  BY FederationAssumption
<1> DEFINE R == {ss \in Nat \X Nat : ss[1] < ss[2]}
<1>2. IsWellFoundedOn(R, Nat)
  BY NatLessThanWellFounded, Zenon DEF OpToRel
<1>3. \A x, y \in Nat : ~ (<<y, x>> \in R) => x <= y
  OBVIOUS
<1> HIDE DEF R
<1>4. PICK x \in S : \A y \in S : ~ (<<y, x>> \in R)
  BY <1>1, <1>2, WFMin
<1>5. \A y \in S : x <= y
  BY <1>1, <1>3, <1>4
<1> QED
  BY <1>5 DEF Min

\* getQueueImportRate() of a queue that imported a job in the last seconds.
LEMMA RatePositive ==
    ASSUME NEW q \in QueueRecord, now \in Nat, now - q.current <= ImportWindow,
           q.currentCount >= 1
    PROVE  getQueueImportRate(q) # 0
<1> DEFINE e == Max({now - q.prev, 50})
           c == (q.prevCount + q.currentCount) * 1000 + e - 1
<1>1. e \in Int /\ e >= 50
  <2>1. now - q.prev \in Int /\ 50 \in Int
    BY DEF QueueRecord
  <2> QED
    BY <2>1, MaxTwo
<1>2. c \in Int /\ c >= e
  <2> HIDE DEF e
  <2> QED BY <1>1 DEF QueueRecord
<1>3. getQueueImportRate(q) = c \div e
  BY DEF getQueueImportRate, ImportWindow, QueueRecord
<1> HIDE DEF c, e
<1>4. c \div e >= 1
  BY <1>1, <1>2
<1> QED
  BY <1>1, <1>2, <1>3, <1>4

\* getQueueImportRate() returns an integer.
LEMMA RateType ==
    ASSUME NEW q \in QueueRecord, now \in Nat
    PROVE  getQueueImportRate(q) \in Int
<1> DEFINE e == Max({now - q.prev, 50})
<1>1. e \in Int /\ e >= 50
  <2>1. now - q.prev \in Int /\ 50 \in Int
    BY DEF QueueRecord
  <2> QED
    BY <2>1, MaxTwo
<1>2. ((q.prevCount + q.currentCount) * 1000 + e - 1) \in Int
  <2> HIDE DEF e
  <2> QED BY <1>1 DEF QueueRecord
<1> HIDE DEF e
<1>3. ((q.prevCount + q.currentCount) * 1000 + e - 1) \div e \in Int
  BY <1>1, <1>2
<1> QED
  BY <1>3 DEF e, getQueueImportRate

-----------------------------------------------------------------------------
(* Requests for jobs *)

\* A queue that knows no source has an empty responders dictionary.
LEMMA NoSources == [m \in {} |-> 0] \in Sources
<1>1. [m \in {} |-> 0] \in [{} -> [node : Int, last : Int]]
  OBVIOUS
<1> QED
  BY <1>1 DEF Sources

\* The messages of c are those of b, with more NEEDJOBS at the end.
Asked(b, c) ==
    \A p \in Pairs :
      /\ Len(b[p]) <= Len(c[p])
      /\ \A i \in 1 .. Len(b[p]) : c[p][i] = b[p][i]
      /\ \A i \in 1 .. Len(c[p]) : i > Len(b[p]) => c[p][i].type = "NEEDJOBS"

\* Sending nothing adds no request.
LEMMA AskedSame == ASSUME NEW b \in Bus PROVE Asked(b, b)
BY DEF Asked, Bus

\* Requests added to requests are requests.
LEMMA AskedTwice ==
    ASSUME NEW b \in Bus, NEW c \in Bus, NEW d \in Bus, Asked(b, c), Asked(c, d)
    PROVE  Asked(b, d)
<1> SUFFICES ASSUME NEW p \in Pairs
             PROVE  /\ Len(b[p]) <= Len(d[p])
                    /\ \A i \in 1 .. Len(b[p]) : d[p][i] = b[p][i]
                    /\ \A i \in 1 .. Len(d[p]) : i > Len(b[p]) => d[p][i].type = "NEEDJOBS"
  BY DEF Asked
<1>1. Len(b[p]) \in Nat /\ Len(c[p]) \in Nat /\ Len(d[p]) \in Nat
  BY DEF Bus
<1> QED
  BY <1>1 DEF Asked

\* clusterSendNeedJobs() only adds requests.
LEMMA SendAsks ==
    ASSUME NEW b \in Bus, NEW n, NEW count \in Int, NEW table
    PROVE  LET c == clusterSendNeedJobs(n, count, table, b)
           IN  c \in Bus /\ Asked(b, c)
<1> DEFINE c == clusterSendNeedJobs(n, count, table, b)
           pk == [type |-> "NEEDJOBS", count |-> count]
<1>1. pk \in Packet /\ pk.type = "NEEDJOBS"
  BY DEF Packet
<1>2. DOMAIN c = Pairs /\ \A p \in Pairs : c[p] = Append(b[p], pk) \/ c[p] = b[p]
  BY DEF clusterSendNeedJobs, Bus
<1>3. c = [p \in Pairs |-> c[p]]
  BY DEF clusterSendNeedJobs, Bus
<1> HIDE DEF c, pk
<1>4. ASSUME NEW p \in Pairs
      PROVE  /\ c[p] \in Seq(Packet) /\ Len(b[p]) <= Len(c[p])
             /\ \A i \in 1 .. Len(b[p]) : c[p][i] = b[p][i]
             /\ \A i \in 1 .. Len(c[p]) : i > Len(b[p]) => c[p][i].type = "NEEDJOBS"
  <2>1. b[p] \in Seq(Packet) /\ Len(b[p]) \in Nat
    BY DEF Bus
  <2>2. CASE c[p] = b[p]
    BY <2>1, <2>2
  <2>3. CASE c[p] = Append(b[p], pk)
    <3>1. /\ Append(b[p], pk) \in Seq(Packet) /\ Len(Append(b[p], pk)) = Len(b[p]) + 1
          /\ \A i \in 1 .. Len(b[p]) : Append(b[p], pk)[i] = b[p][i]
          /\ Append(b[p], pk)[Len(b[p]) + 1] = pk
      BY <1>1, <2>1
    <3> QED
      BY <1>1, <2>1, <2>3, <3>1
  <2> QED
    BY <1>2, <2>2, <2>3
<1>5. c \in Bus
  BY <1>3, <1>4 DEF Bus
<1>6. Asked(b, c)
  BY <1>4 DEF Asked
<1> QED
  BY <1>5, <1>6 DEF c

\* What needJobsForQueue() leaves alone in the queue.
SameImports(q, r) ==
    /\ r.exists = q.exists /\ r.atime = q.atime /\ r.paused = q.paused
    /\ r.current = q.current /\ r.currentCount = q.currentCount
    /\ r.prev = q.prev /\ r.prevCount = q.prevCount

\* The fields of a queue that neither the import rate nor GCQueue() reads.
LEMMA FieldSet ==
    ASSUME NEW q \in QueueRecord, NEW t \in Int, NEW k \in Int, NEW v \in Sources
    PROVE  /\ [q EXCEPT !.bcastTime = t, !.bcastAttempt = k] \in QueueRecord
           /\ [q EXCEPT !.adhocTime = t, !.adhocAttempt = k] \in QueueRecord
           /\ [q EXCEPT !.bcastAttempt = k, !.responders = v] \in QueueRecord
BY DEF QueueRecord

\* The request times and counters of a queue are not its import statistics.
LEMMA FieldSetSame ==
    ASSUME NEW q \in QueueRecord, NEW t \in Int, NEW k \in Int, NEW v \in Sources
    PROVE  /\ SameImports(q, [q EXCEPT !.bcastTime = t, !.bcastAttempt = k])
           /\ SameImports(q, [q EXCEPT !.adhocTime = t, !.adhocAttempt = k])
           /\ SameImports(q, [q EXCEPT !.bcastAttempt = k, !.responders = v])
BY DEF QueueRecord, SameImports

\* getQueueValidResponders() drops old sources and keeps the statistics.
LEMMA ResponderFacts ==
    ASSUME NEW q \in QueueRecord
    PROVE  /\ getQueueValidResponders(q) \in QueueRecord
           /\ SameImports(q, getQueueValidResponders(q))
<1> DEFINE v == [m \in {x \in DOMAIN q.responders : unixtime - q.responders[x].last <= 5}
                   |-> q.responders[m]]
<1>1. q.responders \in Sources
  BY DEF QueueRecord
<1>2. PICK S \in SUBSET Nodes : q.responders \in [S -> [node : Int, last : Int]]
  BY <1>1 DEF Sources
<1> DEFINE V == {x \in S : unixtime - q.responders[x].last <= 5}
<1>3. V \in SUBSET Nodes /\ v \in [V -> [node : Int, last : Int]]
  BY <1>2
<1>4. v \in Sources
  BY <1>3 DEF Sources
<1>5. getQueueValidResponders(q) = [q EXCEPT !.responders = v]
  BY DEF getQueueValidResponders
<1> HIDE DEF v
<1> QED
  BY <1>4, <1>5 DEF QueueRecord, SameImports

\* The number of jobs that needJobsForQueue() asks for is an integer.
LEMMA ToFetchType ==
    ASSUME Types, NEW q \in QueueRecord
    PROVE  ToFetch(q) \in Int
<1> DEFINE sources == Cardinality(DOMAIN q.responders)
           guess == IF sources = 0 THEN MinRequest ELSE getQueueImportRate(q) \div sources
<1>1. DOMAIN q.responders \subseteq Nodes
  BY DEF QueueRecord, Sources
<1>2. sources \in Nat
  BY <1>1, FederationAssumption, FS_Subset, FS_CardinalityType
<1>3. getQueueImportRate(q) \in Int
  BY RateType DEF Types
<1> HIDE DEF sources
<1>4. guess \in Int
  BY <1>2, <1>3 DEF MinRequest
<1>5. ToFetch(q) = Min({Max({guess, MinRequest}), MaxRequest})
  BY DEF ToFetch, sources
<1> HIDE DEF guess
<1>6. Max({guess, MinRequest}) \in Int
  BY <1>4, MaxTwo DEF MinRequest
<1> QED
  BY <1>5, <1>6, MinTwo DEF MaxRequest

\* needJobsForQueue() adds requests and counts its attempts, and nothing else.
Asks(r, s) == s \in Asking /\ Asked(r.bus, s.bus) /\ SameImports(r.queue, s.queue)

\* The cluster-wide request of needJobsForQueue().
LEMMA BroadcastAsks ==
    ASSUME Types, NEW n \in Nodes, NEW r \in Asking
    PROVE  Asks(r, Broadcast(n, r))
<1> DEFINE q == [r.queue EXCEPT !.bcastTime = now, !.bcastAttempt = @ + 1]
           c == clusterSendNeedJobs(n, 1, link[n], r.bus)
           a == [time |-> now, times |-> r.asked.times + 1]
<1>1. r.queue \in QueueRecord /\ r.bus \in Bus /\ r.asked \in [time : Int, times : Int]
  BY DEF Asking
<1>2. q \in QueueRecord /\ SameImports(r.queue, q)
  <2> DEFINE x == r.queue
             k == x.bcastAttempt + 1
  <2>1. x \in QueueRecord
    BY <1>1
  <2>2. x.bcastAttempt \in Int
    <3> HIDE DEF x, q
    <3> QED
      BY ONLY <2>1 DEF QueueRecord
  <2>3. now \in Int
    BY DEF Types
  <2>4. x \in QueueRecord /\ now \in Int /\ k \in Int
    <3> HIDE DEF x, q
    <3> QED
      BY ONLY <2>1, <2>2, <2>3
  <2>5. q = [x EXCEPT !.bcastTime = now, !.bcastAttempt = k]
    OBVIOUS
  <2> HIDE DEF x, k, q
  <2>6. [m \in {} |-> 0] \in Sources
    BY NoSources
  <2> QED
    BY <2>4, <2>5, <2>6, FieldSet, FieldSetSame DEF x
<1>3. c \in Bus /\ Asked(r.bus, c)
  BY <1>1, SendAsks
<1>4. a \in [time : Int, times : Int]
  BY <1>1 DEF Types
<1>5. Broadcast(n, r) = [queue |-> q, bus |-> c, asked |-> a]
  BY DEF Broadcast
<1> HIDE DEF q, c, a
<1> QED
  BY <1>2, <1>3, <1>4, <1>5 DEF Asks, Asking

\* The request of needJobsForQueue() to the nodes that answered before.
LEMMA AskSourcesAsks ==
    ASSUME Types, NEW n \in Nodes, NEW r \in Asking
    PROVE  Asks(r, AskSources(n, r))
<1> DEFINE q == [r.queue EXCEPT !.adhocTime = now, !.adhocAttempt = @ + 1]
           c == clusterSendNeedJobs(n, ToFetch(r.queue), r.queue.responders, r.bus)
<1>1. r.queue \in QueueRecord /\ r.bus \in Bus /\ r.asked \in [time : Int, times : Int]
  BY DEF Asking
<1>2. q \in QueueRecord /\ SameImports(r.queue, q)
  <2> DEFINE x == r.queue
             k == x.adhocAttempt + 1
  <2>1. x \in QueueRecord
    BY <1>1
  <2>2. x.adhocAttempt \in Int
    <3> HIDE DEF x, q
    <3> QED
      BY ONLY <2>1 DEF QueueRecord
  <2>3. now \in Int
    BY DEF Types
  <2>4. x \in QueueRecord /\ now \in Int /\ k \in Int
    <3> HIDE DEF x, q
    <3> QED
      BY ONLY <2>1, <2>2, <2>3
  <2>5. q = [x EXCEPT !.adhocTime = now, !.adhocAttempt = k]
    OBVIOUS
  <2> HIDE DEF x, k, q
  <2>6. [m \in {} |-> 0] \in Sources
    BY NoSources
  <2> QED
    BY <2>4, <2>5, <2>6, FieldSet, FieldSetSame DEF x
<1>3. c \in Bus /\ Asked(r.bus, c)
  BY <1>1, SendAsks, ToFetchType
<1>4. AskSources(n, r) = [queue |-> q, bus |-> c, asked |-> r.asked]
  BY DEF AskSources
<1> HIDE DEF q, c
<1> QED
  BY <1>1, <1>2, <1>3, <1>4 DEF Asks, Asking

\* needJobsForQueue() may send both requests, one after the other.
LEMMA AsksTwice ==
    ASSUME NEW r \in Asking, NEW s, NEW t, Asks(r, s), Asks(s, t)
    PROVE  Asks(r, t)
BY AskedTwice DEF Asks, Asking, SameImports

\* Whatever needJobsForQueue() decides, it only asks.
LEMMA NeedJobsAsks ==
    ASSUME Types, NEW n \in Nodes, NEW type, NEW r \in Asking,
           NEW s \in needJobsForQueue(n, type, r)
    PROVE  Asks(r, s)
<1>1. r.queue \in QueueRecord /\ r.bus \in Bus /\ r.asked \in [time : Int, times : Int]
  BY DEF Asking
<1>2. CASE s = r
  BY <1>1, <1>2, AskedSame DEF Asks, SameImports
<1> DEFINE q == getQueueValidResponders(r.queue)
           r1 == [r EXCEPT !.queue = q]
<1>3. r1 \in Asking /\ Asks(r, r1)
  <2>1. q \in QueueRecord /\ SameImports(r.queue, q)
    BY <1>1, ResponderFacts
  <2> HIDE DEF q
  <2> QED
    BY <1>1, <2>1, AskedSame DEF Asks, Asking
<1>4. CASE \E d : LET r2 == IF now - q.bcastTime > d[1] THEN Broadcast(n, r1) ELSE r1
                  IN  s = IF /\ type = "REACHED_ZERO" \/ now - q.adhocTime > d[2]
                             /\ DOMAIN q.responders # {}
                          THEN AskSources(n, r2) ELSE r2
  <2>1. PICK r2 : r2 \in {Broadcast(n, r1), r1} /\ s \in {AskSources(n, r2), r2}
    BY <1>4
  <2> HIDE DEF r1
  <2>2. Asks(r1, r1)
    BY <1>3, AskedSame DEF Asks, Asking, SameImports
  <2>3. Asks(r1, r2)
    BY <1>3, <2>1, <2>2, BroadcastAsks
  <2>4. r2 \in Asking /\ Asks(r2, r2)
    BY <2>3, AskedSame DEF Asks, Asking, SameImports
  <2>5. Asks(r2, s)
    BY <2>1, <2>4, AskSourcesAsks
  <2> QED
    BY <1>3, <2>3, <2>5, AsksTwice
<1> QED
  BY <1>2, <1>4 DEF needJobsForQueue

-----------------------------------------------------------------------------
(* The shape of a step that gives no jobs to another node *)

\* server.unixtime is mstime() rounded down to seconds.
LEMMA UnixFacts ==
    ASSUME now \in Nat
    PROVE  unixtime \in Int /\ 1000 * unixtime <= now /\ now < 1000 * unixtime + 1000
BY DEF unixtime

\* createQueue() makes a queue where lookupQueue() finds none.
LEMMA ExistingFacts ==
    ASSUME Types, NEW n \in Nodes
    PROVE  /\ Existing(queue[n]) \in QueueRecord
           /\ queue[n].exists => Existing(queue[n]) = queue[n]
           /\ queue[n].exists \in BOOLEAN
<1>2. [m \in {} |-> 0] \in Sources
  BY NoSources
<1>3. createQueue \in QueueRecord
  BY <1>2, UnixFacts DEF createQueue, QueueRecord, Types
<1>4. queue[n] \in QueueRecord \/ queue[n] = NoQueue
  BY DEF Types
<1>5. \A q \in QueueRecord : q.exists = TRUE
  BY DEF QueueRecord
<1>6. CASE queue[n] \in QueueRecord
  BY <1>5, <1>6 DEF Existing
<1>7. CASE queue[n] = NoQueue
  <2>1. queue[n].exists = FALSE
    BY <1>7 DEF NoQueue
  <2> QED
    BY <1>3, <2>1 DEF Existing
<1> QED
  BY <1>4, <1>6, <1>7

\* What an action does to a queue that exists, unless GCQueue() removes it.
Younger(q, r) ==
    /\ r.exists /\ r.current >= q.current
    /\ q.currentCount >= 1 => r.currentCount >= 1
    /\ r.atime = q.atime \/ r.atime = unixtime

\* No message with jobs is sent.
NoGift ==
    \A p \in Pairs : \A i \in DOMAIN net'[p] :
        net'[p][i].type = "YOURJOBS" => i \in DOMAIN net[p] /\ net'[p][i] = net[p][i]

OldQueues ==
    \A n \in Nodes : queue[n].exists =>
        Younger(queue[n], queue'[n]) \/ unixtime - queue[n].atime >= MaxIdle

Steady ==
    /\ queue' \in [Nodes -> QueueRecord \cup {NoQueue}]
    /\ net' \in Bus
    /\ asked' \in [Nodes -> [time : Int, times : Int]]
    /\ OldQueues /\ NoGift

Calm ==
    /\ Steady
    /\ now' \in Nat /\ now' >= now
    /\ job' \in [Nodes -> [Jobs -> {"none", "active", "queued"}]]
    /\ \A n \in Nodes, j \in AtMostOnce : job'[n][j] # "none" => job[n][j] # "none"
    /\ link' \in [Nodes -> [Nodes -> [node : Int, up : BOOLEAN]]]
    /\ added' = added /\ came' = came

\* A queue after its atime was set: nothing else that Younger() is about changes.
Touched(q, r) ==
    /\ r.exists = q.exists /\ r.current = q.current /\ r.currentCount = q.currentCount
    /\ r.atime = unixtime

\* A queue that was only accessed is not older.
LEMMA TouchedYounger ==
    ASSUME NEW q, NEW r, Touched(q, r), Younger(q, q)
    PROVE  Younger(q, r)
BY DEF Touched, Younger

\* A queue is as young as itself.
LEMMA YoungerSame ==
    ASSUME Types, NEW n \in Nodes, queue[n].exists
    PROVE  Younger(queue[n], queue[n])
<1>1. queue[n] \in QueueRecord
  BY ExistingFacts
<1>2. queue[n].current \in Int
  BY <1>1 DEF QueueRecord
<1> QED
  BY <1>2 DEF Younger

\* A step that leaves queues, messages and requests alone is steady.
LEMMA SameSteady ==
    ASSUME Types, UNCHANGED <<queue, net, asked>>
    PROVE  Steady
BY YoungerSame DEF Steady, OldQueues, NoGift, Types

\* A step that writes one queue, which does not become older.
LEMMA QueueSteady ==
    ASSUME Types, NEW n \in Nodes, NEW q \in QueueRecord,
           queue' = [queue EXCEPT ![n] = q],
           queue[n].exists => Younger(queue[n], q)
    PROVE  queue' \in [Nodes -> QueueRecord \cup {NoQueue}] /\ OldQueues
<1>1. queue' \in [Nodes -> QueueRecord \cup {NoQueue}]
  BY DEF Types
<1>2. ASSUME NEW m \in Nodes, queue[m].exists
      PROVE  Younger(queue[m], queue'[m])
  <2>1. CASE m = n
    BY <1>2, <2>1 DEF Types
  <2>2. CASE m # n
    <3>1. queue'[m] = queue[m]
      BY <2>2 DEF Types
    <3> QED
      BY <1>2, <3>1, YoungerSame
  <2> QED
    BY <2>1, <2>2
<1> QED
  BY <1>1, <1>2 DEF OldQueues

\* A step that adds only requests gives no job.
LEMMA AskedNoGift ==
    ASSUME Types, net' \in Bus, Asked(net, net')
    PROVE  NoGift
<1> SUFFICES ASSUME NEW p \in Pairs, NEW i \in DOMAIN net'[p], net'[p][i].type = "YOURJOBS"
             PROVE  i \in DOMAIN net[p] /\ net'[p][i] = net[p][i]
  BY DEF NoGift
<1>1. /\ net[p] \in Seq(Packet) /\ net'[p] \in Seq(Packet)
      /\ DOMAIN net[p] = 1 .. Len(net[p]) /\ DOMAIN net'[p] = 1 .. Len(net'[p])
      /\ Len(net[p]) \in Nat /\ Len(net'[p]) \in Nat
  BY DEF Types, Bus
<1>2. ~ (i > Len(net[p]))
  BY <1>1 DEF Asked
<1>3. i \in 1 .. Len(net[p])
  BY <1>1, <1>2
<1> QED
  BY <1>1, <1>3 DEF Asked

\* The requests of a node for its queue.
LEMMA AskingSteady ==
    ASSUME Types, NEW n \in Nodes, NEW r \in Asking, NEW s, Asks(r, s), Becomes(n, s),
           r.bus = net, queue[n].exists => Younger(queue[n], r.queue)
    PROVE  Steady
<1>1. /\ s \in Asking /\ s.queue \in QueueRecord /\ s.bus \in Bus
      /\ s.asked \in [time : Int, times : Int] /\ Asked(net, s.bus)
      /\ SameImports(r.queue, s.queue)
  BY DEF Asks, Asking
<1>2. queue[n].exists => Younger(queue[n], s.queue)
  BY <1>1 DEF Younger, SameImports
<1>3. queue' \in [Nodes -> QueueRecord \cup {NoQueue}] /\ OldQueues
  BY <1>1, <1>2, QueueSteady DEF Becomes
<1>4. net' \in Bus /\ NoGift
  BY <1>1, AskedNoGift DEF Becomes
<1>5. asked' \in [Nodes -> [time : Int, times : Int]]
  BY <1>1 DEF Becomes, Types
<1> QED
  BY <1>3, <1>4, <1>5 DEF Steady

\* A node's queue, created or accessed, before it asks for jobs.
LEMMA SelfFacts ==
    ASSUME Types, NEW n \in Nodes
    PROVE  /\ Self(n) \in Asking /\ Self(n).bus = net
           /\ queue[n].exists => Younger(queue[n], Self(n).queue)
           /\ [Self(n) EXCEPT !.queue.atime = unixtime] \in Asking
           /\ [Self(n) EXCEPT !.queue.atime = unixtime].bus = net
           /\ queue[n].exists =>
                 Younger(queue[n], [Self(n) EXCEPT !.queue.atime = unixtime].queue)
<1> DEFINE q == Existing(queue[n])
           q2 == [q EXCEPT !.atime = unixtime]
           t == [queue |-> q2, bus |-> net, asked |-> asked[n]]
<1>1. q \in QueueRecord /\ (queue[n].exists => q = queue[n])
  BY ExistingFacts
<1>2. queue[n].exists => Younger(queue[n], q)
  BY <1>1, YoungerSame
<1>3. q2 \in QueueRecord
  <2>1. unixtime \in Int
    BY UnixFacts DEF Types
  <2> HIDE DEF q
  <2> QED
    BY <1>1, <2>1 DEF QueueRecord
<1>4. queue[n].exists => Younger(queue[n], q2)
  BY <1>1, <1>2 DEF Younger, QueueRecord
<1>5. asked[n] \in [time : Int, times : Int] /\ net \in Bus
  BY DEF Types
<1>6. Self(n) = [queue |-> q, bus |-> net, asked |-> asked[n]]
  BY DEF Self
<1>7. [Self(n) EXCEPT !.queue.atime = unixtime] = t
  BY <1>6
<1> HIDE DEF q, q2
<1>8. t \in Asking /\ t.bus = net /\ t.queue = q2
  BY <1>3, <1>5 DEF Asking
<1> HIDE DEF t
<1> QED
  BY <1>1, <1>2, <1>4, <1>5, <1>6, <1>7, <1>8 DEF Asking

\* queueFetchJob() takes a job from the queue and, for the last ones, asks.
LEMMA FetchFacts ==
    ASSUME Types, NEW n \in Nodes, Fetch(n), Queued(n) # {}
    PROVE  /\ Steady
           /\ job' \in [Nodes -> [Jobs -> {"none", "active", "queued"}]]
           /\ \A m \in Nodes, j \in AtMostOnce : job'[m][j] # "none" => job[m][j] # "none"
<1> DEFINE j == Min(Queued(n))
           r == [Self(n) EXCEPT !.queue.atime = unixtime]
<1>1. j \in Queued(n) /\ j \in Jobs
  BY MinIn DEF Queued
<1>2. r \in Asking /\ r.bus = net /\ (queue[n].exists => Younger(queue[n], r.queue))
  BY SelfFacts
<1>3. job' = [job EXCEPT ![n][j] = "active"]
  BY DEF Fetch
<1>4. PICK s : /\ s = r \/ s \in needJobsForQueue(n, "REACHED_ZERO", r)
               /\ Becomes(n, s)
  BY DEF Fetch
<1> HIDE DEF r, j
<1>5. Asks(r, r)
  BY <1>2, AskedSame DEF Asks, Asking, SameImports
<1>6. Asks(r, s)
  BY <1>2, <1>4, <1>5, NeedJobsAsks
<1>7. Steady
  BY <1>2, <1>4, <1>6, AskingSteady
<1>8. job' \in [Nodes -> [Jobs -> {"none", "active", "queued"}]]
  BY <1>1, <1>3 DEF Types
<1>9. ASSUME NEW m \in Nodes, NEW k \in AtMostOnce, job'[m][k] # "none"
      PROVE  job[m][k] # "none"
  BY <1>1, <1>3, <1>9, FederationAssumption DEF Types, Queued
<1> QED
  BY <1>7, <1>8, <1>9

\* A blocked client makes its node ask.
LEMMA WaitingFacts ==
    ASSUME Types, NEW n \in Nodes, NEW s \in needJobsForQueue(n, "CLIENTS_WAITING", Self(n)),
           Becomes(n, s)
    PROVE  Steady
<1>1. Asks(Self(n), s)
  BY SelfFacts, NeedJobsAsks
<1> QED
  BY <1>1, SelfFacts, AskingSteady

\* GETJOB gives its node no second copy and no job to another node.
LEMMA getjobCommandCalm ==
    ASSUME Types, NEW n \in Nodes, getjobCommand(n)
    PROVE  Calm
<1>1. UNCHANGED <<now, link, added, came>>
  BY DEF getjobCommand
<1>2. /\ Steady
      /\ job' \in [Nodes -> [Jobs -> {"none", "active", "queued"}]]
      /\ \A m \in Nodes, j \in AtMostOnce : job'[m][j] # "none" => job[m][j] # "none"
  <2>1. CASE Queued(n) # {} /\ ~queue[n].paused
    BY <2>1, FetchFacts DEF getjobCommand
  <2>2. CASE ~ (Queued(n) # {} /\ ~queue[n].paused)
    <3>1. Steady
      BY <2>2, WaitingFacts DEF getjobCommand
    <3>2. job' = job
      BY <2>2 DEF getjobCommand
    <3> QED
      BY <3>1, <3>2 DEF Types
  <2> QED
    BY <2>1, <2>2
<1> QED
  BY <1>1, <1>2 DEF Calm, Types

\* Serving the blocked clients is a GETJOB that was postponed.
LEMMA handleClientsCalm ==
    ASSUME Types, NEW n \in Nodes, handleClientsBlockedOnQueues(n)
    PROVE  Calm
<1>1. UNCHANGED <<now, link, added, came>> /\ Queued(n) # {} /\ Fetch(n)
  BY DEF handleClientsBlockedOnQueues, Servable
<1> QED
  BY <1>1, FetchFacts DEF Calm, Types

\* clientsCronSendNeedJobs() only asks.
LEMMA clientsCronCalm ==
    ASSUME Types, NEW n \in Nodes, clientsCronSendNeedJobs(n)
    PROVE  Calm
<1>1. UNCHANGED <<now, job, link, added, came>>
  BY DEF clientsCronSendNeedJobs
<1>2. Steady
  BY WaitingFacts DEF clientsCronSendNeedJobs
<1> QED
  BY <1>1, <1>2 DEF Calm, Types

\* enqueueJob() touches the queue of the node only.
LEMMA EnqueueSteady ==
    ASSUME Types, NEW n \in Nodes, NEW j \in Jobs, Enqueue(n, j), UNCHANGED <<net, asked>>
    PROVE  Steady /\ job' \in [Nodes -> [Jobs -> {"none", "active", "queued"}]]
<1> DEFINE q == [Existing(queue[n]) EXCEPT !.atime = unixtime]
<1>1. q \in QueueRecord /\ (queue[n].exists => Younger(queue[n], q))
  <2> DEFINE e == Existing(queue[n])
  <2>1. /\ e \in QueueRecord /\ unixtime \in Int
        /\ queue[n].exists => e = queue[n] /\ Younger(queue[n], queue[n])
    BY ExistingFacts, UnixFacts, YoungerSame DEF Types
  <2> HIDE DEF e
  <2>2. [e EXCEPT !.atime = unixtime] \in QueueRecord
    BY <2>1 DEF QueueRecord
  <2>3. Touched(e, [e EXCEPT !.atime = unixtime])
    BY <2>1 DEF QueueRecord, Touched
  <2> QED
    BY <2>1, <2>2, <2>3, TouchedYounger DEF e
<1>2. queue' = [queue EXCEPT ![n] = q]
  BY DEF Enqueue
<1> HIDE DEF q
<1>3. queue' \in [Nodes -> QueueRecord \cup {NoQueue}] /\ OldQueues
  BY <1>1, <1>2, QueueSteady
<1>4. net' \in Bus /\ NoGift /\ asked' \in [Nodes -> [time : Int, times : Int]]
  BY DEF Types, NoGift
<1>5. job' \in [Nodes -> [Jobs -> {"none", "active", "queued"}]]
  BY DEF Enqueue, Types
<1> QED
  BY <1>3, <1>4, <1>5 DEF Steady

\* A retry puts a job that the node holds back in its queue.
LEMMA requeueCalm ==
    ASSUME Types, NEW n \in Nodes, NEW j \in Jobs, requeue(n, j)
    PROVE  Calm
<1>1. /\ UNCHANGED <<now, link, net, added, asked, came>>
      /\ Enqueue(n, j) /\ j \notin AtMostOnce
  BY DEF requeue, hist
<1>2. Steady /\ job' \in [Nodes -> [Jobs -> {"none", "active", "queued"}]]
  BY <1>1, EnqueueSteady
<1>3. ASSUME NEW m \in Nodes, NEW k \in AtMostOnce
      PROVE  job'[m][k] = job[m][k]
  BY <1>1, FederationAssumption DEF Enqueue, Types
<1>4. now' \in Nat /\ now' >= now /\ link' \in [Nodes -> [Nodes -> [node : Int, up : BOOLEAN]]]
  BY <1>1 DEF Types
<1> QED
  BY <1>1, <1>2, <1>3, <1>4 DEF Calm

\* PAUSE changes a flag of the queue.
LEMMA pauseCalm ==
    ASSUME Types, NEW n \in Nodes, pause(n)
    PROVE  Calm
<1> DEFINE q == [Existing(queue[n]) EXCEPT !.paused = ~@]
<1>1. UNCHANGED <<now, job, link, net, added, asked, came>> /\ queue' = [queue EXCEPT ![n] = q]
  <2>1. UNCHANGED <<now, job, link, net, added, asked, came>>
    BY DEF pause, hist
  <2>2. queue' = [queue EXCEPT ![n] = q]
    BY DEF pause
  <2> QED
    BY <2>1, <2>2
<1>2. q \in QueueRecord /\ (queue[n].exists => Younger(queue[n], q))
  <2>1. Existing(queue[n]) \in QueueRecord /\ (queue[n].exists => Existing(queue[n]) = queue[n])
    BY ExistingFacts
  <2>2. (~Existing(queue[n]).paused) \in BOOLEAN
    OBVIOUS
  <2>3. q \in QueueRecord
    BY <2>1, <2>2 DEF QueueRecord
  <2> QED
    BY <2>1, <2>3, YoungerSame DEF Younger, QueueRecord
<1> HIDE DEF q
<1>3. queue' \in [Nodes -> QueueRecord \cup {NoQueue}] /\ OldQueues
  BY <1>1, <1>2, QueueSteady
<1>4. Steady
  BY <1>1, <1>3 DEF Steady, NoGift, Types
<1> QED
  BY <1>1, <1>4 DEF Calm, Types

\* CLUSTER LEAVING changes a flag of the node.
LEMMA leaveCalm ==
    ASSUME Types, NEW n \in Nodes, leave(n)
    PROVE  Calm
<1>1. UNCHANGED <<now, queue, job, link, net, added, asked, came>>
  BY DEF leave, hist
<1> QED
  BY <1>1, SameSteady DEF Calm, Types

\* GCQueue() removes a queue that nobody used for MaxIdle seconds.
LEMMA GCQueueCalm ==
    ASSUME Types, NEW n \in Nodes, GCQueue(n)
    PROVE  Calm
<1>1. /\ UNCHANGED <<now, job, link, net, added, came>>
      /\ unixtime - queue[n].atime >= MaxIdle
      /\ queue' = [queue EXCEPT ![n] = NoQueue]
      /\ asked' = [asked EXCEPT ![n] = [time |-> 0, times |-> 0]]
  BY DEF GCQueue
<1>2. queue' \in [Nodes -> QueueRecord \cup {NoQueue}]
  BY <1>1 DEF Types
<1>3. ASSUME NEW m \in Nodes, queue[m].exists
      PROVE  Younger(queue[m], queue'[m]) \/ unixtime - queue[m].atime >= MaxIdle
  <2>1. CASE m = n
    BY <1>1, <2>1
  <2>2. CASE m # n
    <3>1. queue'[m] = queue[m]
      BY <1>1, <2>2 DEF Types
    <3> QED
      BY <1>3, <3>1, YoungerSame
  <2> QED
    BY <2>1, <2>2
<1>4. asked' \in [Nodes -> [time : Int, times : Int]]
  BY <1>1 DEF Types
<1>5. Steady
  BY <1>1, <1>2, <1>3, <1>4 DEF Steady, OldQueues, NoGift, Types
<1> QED
  BY <1>1, <1>5 DEF Calm, Types

\* Time passes: the cron refreshes mstime() and the unix time.
LEMMA TickCalm ==
    ASSUME Types, Tick
    PROVE  Calm
<1>1. UNCHANGED <<queue, job, link, net, added, asked, came>>
  BY DEF Tick, hist
<1>2. now' \in Nat /\ now' >= now
  BY FederationAssumption DEF Tick, Types
<1> QED
  BY <1>1, <1>2, SameSteady DEF Calm, Types

\* The messages of a connection are lost with it.
LEMMA CutSteady ==
    ASSUME Types, NEW p \in Pairs, net' = [net EXCEPT ![p] = <<>>], UNCHANGED <<queue, asked>>
    PROVE  Steady
<1>1. <<>> \in Seq(Packet) /\ DOMAIN <<>> = {}
  OBVIOUS
<1>2. net' \in Bus
  BY <1>1 DEF Types, Bus
<1>3. \A q \in Pairs : net'[q] = <<>> \/ net'[q] = net[q]
  BY DEF Types, Bus
<1>4. NoGift
  BY <1>1, <1>3 DEF NoGift
<1>5. queue' \in [Nodes -> QueueRecord \cup {NoQueue}] /\ OldQueues
  BY YoungerSame DEF OldQueues, Types
<1>6. asked' \in [Nodes -> [time : Int, times : Int]]
  BY DEF Types
<1> QED
  BY <1>2, <1>4, <1>5, <1>6 DEF Steady

\* A link that breaks or is made again, a node forgotten or met, may lose
\* messages and creates none.
LEMMA LinkCalm ==
    ASSUME Types, NEW n \in Nodes, NEW m \in Nodes,
           freeClusterLink(n, m) \/ reconnect(n, m) \/ forget(n, m) \/ meet(n, m)
    PROVE  Calm
<1>1. /\ UNCHANGED <<now, queue, job, added, asked, came>>
      /\ net' = net \/ net' = [net EXCEPT ![<<n, m>>] = <<>>]
  BY DEF freeClusterLink, reconnect, forget, meet, hist
<1> DEFINE Line == [node : Int, up : BOOLEAN]
<1>2. link[n] \in [Nodes -> Line] /\ link[n][m] \in Line
  BY DEF Types
<1>3. link' \in [Nodes -> [Nodes -> Line]]
  <2>1. ASSUME NEW l \in Line, link' = [link EXCEPT ![n] = [link[n] EXCEPT ![m] = l]]
        PROVE  link' \in [Nodes -> [Nodes -> Line]]
    <3>1. [link[n] EXCEPT ![m] = l] \in [Nodes -> Line]
      BY <1>2
    <3> QED
      BY <2>1, <3>1 DEF Types
  <2>2. CASE freeClusterLink(n, m)
    <3>1. link' = [link EXCEPT ![n] = [link[n] EXCEPT ![m] = [link[n][m] EXCEPT !.up = FALSE]]]
      BY <2>2 DEF freeClusterLink
    <3>2. [link[n][m] EXCEPT !.up = FALSE] \in Line
      BY <1>2
    <3> QED
      BY <2>1, <3>1, <3>2
  <2>3. CASE reconnect(n, m)
    <3>1. link' = [link EXCEPT ![n] = [link[n] EXCEPT ![m] = [link[n][m] EXCEPT !.up = TRUE]]]
      BY <2>3 DEF reconnect
    <3>2. [link[n][m] EXCEPT !.up = TRUE] \in Line
      BY <1>2
    <3> QED
      BY <2>1, <3>1, <3>2
  <2>4. CASE forget(n, m)
    <3>1. link' = [link EXCEPT ![n] = [link[n] EXCEPT ![m] = [node |-> 0, up |-> FALSE]]]
      BY <2>4 DEF forget
    <3>2. [node |-> 0, up |-> FALSE] \in Line
      OBVIOUS
    <3> QED
      BY <2>1, <3>1, <3>2
  <2>5. CASE meet(n, m)
    <3>1. link' = [link EXCEPT ![n] = [link[n] EXCEPT ![m] = [node |-> 2, up |-> TRUE]]]
      BY <2>5 DEF meet
    <3>2. [node |-> 2, up |-> TRUE] \in Line
      OBVIOUS
    <3> QED
      BY <2>1, <3>1, <3>2
  <2> QED
    BY <2>2, <2>3, <2>4, <2>5
<1>4. <<n, m>> \in Pairs
  BY DEF Pairs
<1>5. Steady
  BY <1>1, <1>4, CutSteady, SameSteady
<1> QED
  BY <1>1, <1>3, <1>5 DEF Calm, Types

-----------------------------------------------------------------------------
(* A job with retry 0 has one copy *)

Nowhere(j) ==
    /\ \A n \in Nodes : job[n][j] = "none"
    /\ \A p \in Pairs : \A i \in DOMAIN net[p] : ~ Carries(p, i, j)

\* The inductive invariant of OneCopy: a job not yet added has no copy.
OneInv == OneCopy /\ \A j \in AtMostOnce \ added : Nowhere(j)

\* A job with one copy at most.
Single(j) ==
    /\ \A n, m \in Nodes : job[n][j] # "none" /\ job[m][j] # "none" => n = m
    /\ \A p, q \in Pairs : \A i \in DOMAIN net[p], k \in DOMAIN net[q] :
          Carries(p, i, j) /\ Carries(q, k, j) => p = q /\ i = k
    /\ \A n \in Nodes, p \in Pairs : \A i \in DOMAIN net[p] :
          ~ (job[n][j] # "none" /\ Carries(p, i, j))

\* OneCopy, job by job.
LEMMA SingleIsOneCopy == OneCopy <=> \A j \in AtMostOnce : Single(j)
BY DEF OneCopy, Single, Pairs

\* The copies after a step are copies of before, at places that a shift of the
\* messages tells apart.
FewerCopies(j, shift) ==
    /\ \A n \in Nodes : job'[n][j] # "none" => job[n][j] # "none"
    /\ \A p \in Pairs : \A i \in DOMAIN net'[p] :
          Carries(p, i, j)' => i + shift[p] \in DOMAIN net[p] /\ Carries(p, i + shift[p], j)

\* A step that only loses copies keeps the last one the only one.
LEMMA FewerSingle ==
    ASSUME NEW j, NEW shift \in [Pairs -> Nat], FewerCopies(j, shift), Types, net' \in Bus
    PROVE  (Single(j) => Single(j)') /\ (Nowhere(j) => Nowhere(j)')
<1>1. \A p \in Pairs : DOMAIN net'[p] \subseteq Nat
  BY DEF Bus
<1>2. Nowhere(j) => Nowhere(j)'
  BY DEF Nowhere, FewerCopies
<1>3. ASSUME Single(j) PROVE Single(j)'
  <2>1. \A n, m \in Nodes : job'[n][j] # "none" /\ job'[m][j] # "none" => n = m
    BY <1>3 DEF Single, FewerCopies
  <2>2. ASSUME NEW p \in Pairs, NEW q \in Pairs, NEW i \in DOMAIN net'[p], NEW k \in DOMAIN net'[q],
               Carries(p, i, j)', Carries(q, k, j)'
        PROVE  p = q /\ i = k
    <3>1. /\ i + shift[p] \in DOMAIN net[p] /\ Carries(p, i + shift[p], j)
          /\ k + shift[q] \in DOMAIN net[q] /\ Carries(q, k + shift[q], j)
      BY <2>2 DEF FewerCopies
    <3>2. p = q /\ i + shift[p] = k + shift[q]
      BY <1>3, <3>1 DEF Single
    <3>3. i \in Nat /\ k \in Nat /\ shift[p] \in Nat
      BY <1>1
    <3> QED
      BY <3>2, <3>3
  <2>3. \A n \in Nodes, p \in Pairs : \A i \in DOMAIN net'[p] :
          ~ (job'[n][j] # "none" /\ Carries(p, i, j)')
    BY <1>3 DEF Single, FewerCopies
  <2> QED
    BY <2>1, <2>2, <2>3 DEF Single
<1> QED
  BY <1>2, <1>3

\* The invariant of OneCopy after a step that adds a job or loses copies.
LEMMA OneKept ==
    ASSUME OneInv, Types, net' \in Bus, added \subseteq added',
           \A j \in AtMostOnce : \/ \E shift \in [Pairs -> Nat] : FewerCopies(j, shift)
                                 \/ j \in added' /\ Single(j)'
    PROVE  OneInv'
<1>1. \A j \in AtMostOnce : Single(j)
  BY SingleIsOneCopy DEF OneInv
<1>2. \A j \in AtMostOnce : Single(j)' /\ (j \in added' \/ (Nowhere(j) => Nowhere(j)'))
  BY <1>1, FewerSingle
<1>3. OneCopy' <=> \A j \in AtMostOnce : Single(j)'
  BY DEF OneCopy, Single, Pairs, Carries
<1>4. \A j \in AtMostOnce \ added' : Nowhere(j)'
  BY <1>2 DEF OneInv
<1> QED
  BY <1>2, <1>3, <1>4 DEF OneInv

\* A calm step makes no copy of a job with retry 0.
LEMMA CalmOne ==
    ASSUME OneInv, Types, Calm
    PROVE  OneInv'
<1> DEFINE shift == [p \in Pairs |-> 0]
<1>1. shift \in [Pairs -> Nat] /\ \A p \in Pairs : shift[p] = 0
  OBVIOUS
<1> HIDE DEF shift
<1>2. ASSUME NEW j \in AtMostOnce PROVE FewerCopies(j, shift)
  <2>1. ASSUME NEW p \in Pairs, NEW i \in DOMAIN net'[p], Carries(p, i, j)'
        PROVE  i + shift[p] \in DOMAIN net[p] /\ Carries(p, i + shift[p], j)
    <3>1. i \in DOMAIN net[p] /\ net'[p][i] = net[p][i]
      BY <2>1 DEF Carries, Calm, Steady, NoGift
    <3>2. i + shift[p] = i
      BY <1>1, <3>1 DEF Types, Bus
    <3> QED
      BY <2>1, <3>1, <3>2 DEF Carries
  <2> QED
    BY <2>1 DEF FewerCopies, Calm
<1> QED
  BY <1>1, <1>2, OneKept DEF Calm, Steady

\* ADDJOB makes the first copy of a job, at one node.
LEMMA addjobOne ==
    ASSUME OneInv, Types, NEW n \in Nodes, addjobCommand(n)
    PROVE  /\ OneInv' /\ Steady /\ job' \in [Nodes -> [Jobs -> {"none", "active", "queued"}]]
           /\ added' \in SUBSET Jobs /\ UNCHANGED <<now, link, net, came>>
<1>0. PICK j : j = Min(Jobs \ added)
  OBVIOUS
<1>1. /\ Jobs \ added # {} /\ Enqueue(n, j) /\ added' = added \cup {j}
      /\ UNCHANGED <<now, link, net, asked, came>>
  BY <1>0 DEF addjobCommand, hist
<1>2. j \in Jobs /\ j \notin added
  BY <1>0, <1>1, MinIn
<1>3. Steady /\ job' \in [Nodes -> [Jobs -> {"none", "active", "queued"}]]
  BY <1>1, <1>2, EnqueueSteady
<1>4. \A m \in Nodes, k \in Jobs : job'[m][k] = IF m = n /\ k = j THEN "queued" ELSE job[m][k]
  BY <1>1, <1>2 DEF Enqueue, Types
<1> DEFINE shift == [p \in Pairs |-> 0]
<1>5. shift \in [Pairs -> Nat] /\ \A p \in Pairs : shift[p] = 0
  OBVIOUS
<1> HIDE DEF shift
<1>6. ASSUME NEW k \in AtMostOnce, k # j PROVE FewerCopies(k, shift)
  <2>1. \A m \in Nodes : job'[m][k] = job[m][k]
    BY <1>4, <1>6, FederationAssumption
  <2>2. \A p \in Pairs : \A i \in DOMAIN net[p] : i + shift[p] = i
    BY <1>5 DEF Types, Bus
  <2> QED
    BY <1>1, <2>1, <2>2 DEF FewerCopies, Carries
<1>7. ASSUME j \in AtMostOnce PROVE Single(j)'
  <2>1. Nowhere(j)
    BY <1>2, <1>7 DEF OneInv
  <2>2. \A p \in Pairs : \A i \in DOMAIN net'[p] : ~ Carries(p, i, j)'
    BY <1>1, <2>1 DEF Nowhere, Carries
  <2>3. \A m \in Nodes : job'[m][j] # "none" => m = n
    BY <1>2, <1>4, <2>1 DEF Nowhere
  <2> QED
    BY <2>2, <2>3 DEF Single
<1>8. OneInv'
  <2>1. \A k \in AtMostOnce : \/ \E s \in [Pairs -> Nat] : FewerCopies(k, s)
                              \/ k \in added' /\ Single(k)'
    BY <1>1, <1>5, <1>6, <1>7
  <2>2. net' \in Bus /\ added \subseteq added'
    BY <1>1, <1>3 DEF Steady
  <2> QED
    BY <2>1, <2>2, OneKept
<1> QED
  BY <1>1, <1>2, <1>3, <1>8 DEF Types

-----------------------------------------------------------------------------
(* A message is read *)

\* The connection after its first message was read.
Read(p0, bus, shift) ==
    /\ bus \in Bus /\ shift \in [Pairs -> Nat] /\ shift[p0] = 1
    /\ \A p \in Pairs : p # p0 => bus[p] = net[p]
    /\ Len(bus[p0]) + 1 = Len(net[p0])
    /\ \A p \in Pairs : \A i \in DOMAIN bus[p] :
          i + shift[p] \in DOMAIN net[p] /\ bus[p][i] = net[p][i + shift[p]]

\* Reading a packet removes the first message of a link.
LEMMA ReadFacts ==
    ASSUME Types, NEW p0 \in Pairs, net[p0] # <<>>
    PROVE  /\ \E shift : Read(p0, [net EXCEPT ![p0] = Tail(@)], shift)
           /\ Head(net[p0]) \in Packet /\ 1 \in DOMAIN net[p0] /\ net[p0][1] = Head(net[p0])
<1> DEFINE bus == [net EXCEPT ![p0] = Tail(@)]
           shift == [p \in Pairs |-> IF p = p0 THEN 1 ELSE 0]
<1>1. net[p0] \in Seq(Packet)
  BY DEF Types, Bus
<1>2. /\ Tail(net[p0]) \in Seq(Packet) /\ Len(Tail(net[p0])) + 1 = Len(net[p0])
      /\ DOMAIN net[p0] = 1 .. Len(net[p0]) /\ Len(net[p0]) \in Nat
      /\ DOMAIN Tail(net[p0]) = 1 .. Len(Tail(net[p0])) /\ Len(Tail(net[p0])) \in Nat
  BY <1>1
<1>3. \A i \in 1 .. Len(Tail(net[p0])) : Tail(net[p0])[i] = net[p0][i + 1]
  BY <1>1
<1>4. Head(net[p0]) \in Packet /\ 1 \in DOMAIN net[p0] /\ net[p0][1] = Head(net[p0])
  BY <1>1
<1>5. /\ bus \in Bus /\ bus[p0] = Tail(net[p0])
      /\ \A p \in Pairs : p # p0 => bus[p] = net[p]
  BY <1>2 DEF Types, Bus
<1>6. /\ shift \in [Pairs -> Nat] /\ shift[p0] = 1
      /\ \A p \in Pairs : p # p0 => shift[p] = 0
  OBVIOUS
<1> HIDE DEF bus, shift
<1>7. ASSUME NEW p \in Pairs, NEW i \in DOMAIN bus[p]
      PROVE  i + shift[p] \in DOMAIN net[p] /\ bus[p][i] = net[p][i + shift[p]]
  <2>1. CASE p = p0
    <3>1. i \in 1 .. Len(Tail(net[p0])) /\ i + shift[p] = i + 1
      BY <1>2, <1>5, <1>6, <2>1
    <3>2. i + 1 \in 1 .. Len(net[p0])
      BY <1>2, <3>1
    <3>3. bus[p][i] = net[p0][i + 1]
      BY <1>3, <1>5, <2>1, <3>1
    <3> QED
      BY <1>2, <2>1, <3>1, <3>2, <3>3
  <2>2. CASE p # p0
    <3>1. bus[p] = net[p] /\ shift[p] = 0 /\ i \in Nat
      BY <1>5, <1>6, <2>2 DEF Types, Bus
    <3> QED
      BY <3>1
  <2> QED
    BY <2>1, <2>2
<1>8. Read(p0, bus, shift)
  BY <1>2, <1>5, <1>6, <1>7 DEF Read
<1> QED
  BY <1>4, <1>8 DEF bus

\* A message that brings no new job.
LEMMA ReadFewer ==
    ASSUME NEW p0 \in Pairs, NEW bus, NEW shift, Read(p0, bus, shift), net' = bus,
           NEW j, \A n \in Nodes : job'[n][j] # "none" => job[n][j] # "none"
    PROVE  FewerCopies(j, shift)
BY DEF FewerCopies, Carries, Read

\* receiveNeedJobs(): a job with retry 0 goes from the node into the message.
LEMMA GiftOne ==
    ASSUME OneInv, Types, NEW n \in Nodes, NEW m \in Nodes, NEW p0 \in Pairs, NEW bus, NEW shift,
           Read(p0, bus, shift), NEW jobs \in SUBSET Queued(n),
           job' = [job EXCEPT ![n] = [j \in Jobs |-> IF j \in jobs THEN Given(j) ELSE @[j]]],
           net' = clusterSendYourJobs(n, m, jobs, bus), added' = added
    PROVE  /\ OneInv' /\ net' \in Bus
           /\ job' \in [Nodes -> [Jobs -> {"none", "active", "queued"}]]
           /\ \A p \in Pairs : Len(net'[p]) > Len(net[p]) => p = <<n, m>>
<1> DEFINE gift == [type |-> "YOURJOBS", jobs |-> jobs]
           p1 == <<n, m>>
<1>1. p1 \in Pairs /\ jobs \subseteq Jobs /\ gift \in Packet /\ bus \in Bus
  BY DEF Pairs, Queued, Packet, Read
<1>2. job' \in [Nodes -> [Jobs -> {"none", "active", "queued"}]]
  BY DEF Given, Types
<1>3. \A k \in Nodes, j \in AtMostOnce :
          job'[k][j] = IF k = n /\ j \in jobs THEN "none" ELSE job[k][j]
  BY FederationAssumption DEF Given, Types
<1>4. /\ Append(bus[p1], gift) \in Seq(Packet) /\ Len(Append(bus[p1], gift)) = Len(bus[p1]) + 1
      /\ \A i \in 1 .. Len(bus[p1]) : Append(bus[p1], gift)[i] = bus[p1][i]
      /\ Append(bus[p1], gift)[Len(bus[p1]) + 1] = gift
      /\ DOMAIN bus[p1] = 1 .. Len(bus[p1]) /\ Len(bus[p1]) \in Nat
  <2> DEFINE s == bus[p1]
  <2>1. s \in Seq(Packet) /\ gift \in Packet
    BY <1>1 DEF Bus
  <2> HIDE DEF s, gift
  <2>2. /\ Append(s, gift) \in Seq(Packet) /\ Len(Append(s, gift)) = Len(s) + 1
        /\ \A i \in 1 .. Len(s) : Append(s, gift)[i] = s[i]
        /\ Append(s, gift)[Len(s) + 1] = gift
        /\ DOMAIN s = 1 .. Len(s) /\ Len(s) \in Nat
    BY ONLY <2>1
  <2> QED
    BY <2>2 DEF s
<1>5. \/ net' = bus
      \/ net' = [bus EXCEPT ![p1] = Append(bus[p1], gift)]
  BY DEF clusterSendYourJobs
<1> HIDE DEF gift, p1
<1>6. net' \in Bus
  BY <1>1, <1>4, <1>5 DEF Bus
<1>7. /\ \A p \in Pairs : p # p1 => net'[p] = bus[p]
      /\ net'[p1] = bus[p1] \/ net'[p1] = Append(bus[p1], gift)
  BY <1>1, <1>5 DEF Bus
<1>8. ASSUME NEW p \in Pairs, NEW i \in DOMAIN net'[p]
      PROVE  \/ i \in DOMAIN bus[p] /\ net'[p][i] = bus[p][i]
             \/ p = p1 /\ i = Len(bus[p1]) + 1 /\ net'[p][i] = gift
  <2>1. CASE net'[p] = bus[p]
    BY <2>1
  <2>2. CASE p = p1 /\ net'[p1] = Append(bus[p1], gift)
    <3>1. i \in 1 .. Len(bus[p1]) + 1
      BY <1>4, <2>2, SMTT(30)
    <3> QED
      BY <1>4, <2>2, <3>1
  <2> QED
    BY <1>7, <2>1, <2>2
<1>9. gift.jobs = jobs
  BY DEF gift
<1>10. ASSUME NEW j \in AtMostOnce, j \notin jobs PROVE FewerCopies(j, shift)
  <2>1. \A k \in Nodes : job'[k][j] = job[k][j]
    BY <1>3, <1>10
  <2>2. ASSUME NEW p \in Pairs, NEW i \in DOMAIN net'[p], Carries(p, i, j)'
        PROVE  i + shift[p] \in DOMAIN net[p] /\ Carries(p, i + shift[p], j)
    <3>1. i \in DOMAIN bus[p] /\ net'[p][i] = bus[p][i]
      BY <1>8, <1>9, <1>10, <2>2 DEF Carries
    <3> QED
      BY <2>2, <3>1 DEF Carries, Read
  <2> QED
    BY <2>1, <2>2 DEF FewerCopies
<1>11. ASSUME NEW j \in AtMostOnce, j \in jobs PROVE j \in added' /\ Single(j)'
  <2>1. job[n][j] # "none" /\ Single(j)
    BY <1>11, SingleIsOneCopy DEF Queued, OneInv
  <2>2. j \in added
    BY <2>1 DEF OneInv, Nowhere
  <2>3. \A k \in Nodes : job'[k][j] = "none"
    BY <1>3, <1>11, <2>1, SMTT(30) DEF Single
  <2>4. ASSUME NEW p \in Pairs, NEW i \in DOMAIN net'[p], Carries(p, i, j)'
        PROVE  p = p1 /\ i = Len(bus[p1]) + 1
    <3>1. SUFFICES ASSUME i \in DOMAIN bus[p], net'[p][i] = bus[p][i] PROVE FALSE
      BY <1>8
    <3>2. i + shift[p] \in DOMAIN net[p] /\ Carries(p, i + shift[p], j)
      BY <2>4, <3>1 DEF Carries, Read
    <3> QED
      BY <2>1, <3>2 DEF Single
  <2>5. Single(j)'
    BY <2>3, <2>4 DEF Single
  <2> QED
    BY <2>2, <2>5
<1>12. OneInv'
  <2>1. \A j \in AtMostOnce : \/ \E s \in [Pairs -> Nat] : FewerCopies(j, s)
                              \/ j \in added' /\ Single(j)'
    BY <1>10, <1>11 DEF Read
  <2> QED
    BY <1>6, <2>1, OneKept
<1>13. ASSUME NEW p \in Pairs, Len(net'[p]) > Len(net[p]) PROVE p = p1
  <2>1. SUFFICES ASSUME p # p1 PROVE FALSE
    OBVIOUS
  <2>2. Len(net'[p]) = Len(bus[p]) /\ Len(net[p]) \in Nat /\ Len(bus[p]) \in Nat
    BY <1>1, <1>7, <2>1 DEF Bus, Types
  <2>3. Len(bus[p]) = Len(net[p]) \/ Len(bus[p]) + 1 = Len(net[p])
    BY DEF Read
  <2> QED
    BY <1>13, <2>2, <2>3
<1> QED
  BY <1>2, <1>6, <1>12, <1>13 DEF p1

\* receiveYourJobs(): a job with retry 0 goes from the message into the node.
LEMMA ImportOne ==
    ASSUME OneInv, Types, NEW n \in Nodes, NEW p0 \in Pairs, NEW bus, NEW shift,
           Read(p0, bus, shift), net' = bus, added' = added,
           net[p0][1].type = "YOURJOBS", 1 \in DOMAIN net[p0],
           NEW new \in SUBSET Jobs, new \subseteq net[p0][1].jobs,
           job' = [job EXCEPT ![n] = [j \in Jobs |-> IF j \in new THEN "queued" ELSE @[j]]]
    PROVE  OneInv' /\ job' \in [Nodes -> [Jobs -> {"none", "active", "queued"}]]
<1>1. job' \in [Nodes -> [Jobs -> {"none", "active", "queued"}]]
  BY DEF Types
<1>2. \A k \in Nodes, j \in AtMostOnce :
          job'[k][j] = IF k = n /\ j \in new THEN "queued" ELSE job[k][j]
  BY FederationAssumption DEF Types
<1>3. ASSUME NEW j \in AtMostOnce, j \notin new PROVE FewerCopies(j, shift)
  <2>1. \A k \in Nodes : job'[k][j] = job[k][j]
    BY <1>2, <1>3
  <2> QED
    BY <2>1, ReadFewer
<1>4. ASSUME NEW j \in AtMostOnce, j \in new PROVE j \in added' /\ Single(j)'
  <2>1. Carries(p0, 1, j) /\ Single(j)
    BY <1>4, SingleIsOneCopy DEF Carries, OneInv
  <2>2. j \in added
    BY <2>1 DEF OneInv, Nowhere
  <2>3. \A k \in Nodes : job'[k][j] # "none" => k = n
    BY <1>2, <2>1 DEF Single
  <2>4. ASSUME NEW p \in Pairs, NEW i \in DOMAIN net'[p], Carries(p, i, j)'
        PROVE  FALSE
    <3>1. i + shift[p] \in DOMAIN net[p] /\ Carries(p, i + shift[p], j)
      BY <2>4 DEF Carries, Read
    <3>2. p = p0 /\ i + shift[p] = 1
      BY <2>1, <3>1 DEF Single
    <3>3. bus \in Bus /\ shift[p0] = 1
      BY DEF Read
    <3>4. i \in Nat /\ i # 0
      BY <3>3 DEF Bus
    <3> QED
      BY <3>2, <3>3, <3>4
  <2>5. Single(j)'
    BY <2>3, <2>4 DEF Single
  <2> QED
    BY <2>2, <2>5
<1>5. \A j \in AtMostOnce : \/ \E s \in [Pairs -> Nat] : FewerCopies(j, s)
                            \/ j \in added' /\ Single(j)'
  BY <1>3, <1>4 DEF Read
<1>6. net' \in Bus
  BY DEF Read
<1>7. OneInv'
  BY <1>5, <1>6, OneKept
<1> QED
  BY <1>1, <1>7

-----------------------------------------------------------------------------
(* A node that imports jobs gives none *)

Recent(n, j) == now - came[n][j].time < ImportWindow - 1000

\* The inductive invariant of NoPingPong: a queue remembers the job it got in
\* the last four seconds, and it was not removed since then.
Remembered(n, j) ==
    /\ came[n][j].time <= now
    /\ Recent(n, j) =>
          /\ queue[n].exists
          /\ queue[n].current >= came[n][j].time - 1000
          /\ queue[n].currentCount >= 1
          /\ 1000 * queue[n].atime + 1000 > came[n][j].time

PingInv == \A n \in Nodes, j \in Jobs : Remembered(n, j)

\* What was less than four seconds ago still was when the clock showed less.
LEMMA Earlier ==
    ASSUME NEW a \in Nat, NEW b \in Nat, NEW t \in Int, b - t < 4000, a <= b
    PROVE  a - t < 4000
OBVIOUS

\* A queue that imported a job in the last four seconds still knows it,
\* because its statistics are not forgotten and GCQueue() leaves it alone.
LEMMA OldQueuesPing ==
    ASSUME Types, Types', PingInv, OldQueues, now' >= now,
           NEW n \in Nodes, NEW j \in Jobs, came'[n][j] = came[n][j]
    PROVE  Remembered(n, j)'
<1> DEFINE t == came[n][j].time
           q == queue[n]
           r == queue'[n]
<1>1. t \in Int /\ now \in Nat /\ now' \in Nat /\ t <= now
  BY DEF Types, PingInv, Remembered
<1>2. came'[n][j].time = t
  OBVIOUS
<1>3. ASSUME now' - t < 4000
      PROVE  r.exists /\ r.current >= t - 1000 /\ r.currentCount >= 1 /\ 1000 * r.atime + 1000 > t
  <2>1. Recent(n, j)
    BY <1>1, <1>3 DEF Recent, ImportWindow
  <2>2. q.exists /\ q.current >= t - 1000 /\ q.currentCount >= 1 /\ 1000 * q.atime + 1000 > t
    BY <2>1 DEF PingInv, Remembered
  <2>3. q \in QueueRecord
    BY <2>2 DEF Types, NoQueue
  <2>4. q.atime \in Int /\ q.current \in Int
    BY <2>3 DEF QueueRecord
  <2>5. unixtime \in Int /\ 1000 * unixtime <= now /\ now < 1000 * unixtime + 1000
    BY <1>1, UnixFacts
  <2>6. Younger(q, r) \/ unixtime - q.atime >= MaxIdle
    BY <2>2 DEF OldQueues
  <2>7. now - t < 4000
    BY <1>1, <1>3, Earlier
  <2> HIDE DEF t, q, r
  <2>8. ~ (unixtime - q.atime >= MaxIdle)
    <3>1. MaxIdle \in Nat /\ MaxIdle >= 5
      BY FederationAssumption
    <3> DEFINE a == q.atime
               u == unixtime
    <3>2. /\ a \in Int /\ u \in Int /\ t \in Int /\ now \in Nat
          /\ 1000 * u <= now /\ now - t < 4000 /\ 1000 * a + 1000 > t
      BY <1>1, <2>2, <2>4, <2>5, <2>7
    <3> HIDE DEF a, u
    <3>3. u - a < 5
      BY <3>2
    <3>4. ~ (u - a >= MaxIdle)
      BY ONLY <3>1, <3>2, <3>3
    <3> QED
      BY <3>4 DEF a, u
  <2>9. Younger(q, r)
    BY <2>6, <2>8
  <2>10. r.exists /\ r.current >= q.current /\ r.currentCount >= 1 /\ r.atime \in {q.atime, unixtime}
    BY <2>2, <2>9 DEF Younger
  <2>11. r \in QueueRecord
    BY <2>10 DEF Types, NoQueue, r
  <2>12. r.atime \in Int /\ r.current \in Int
    BY <2>11 DEF QueueRecord
  <2> QED
    BY <1>1, <2>2, <2>4, <2>5, <2>10, <2>12
<1>4. came'[n][j].time <= now'
  BY <1>1, <1>2
<1>5. Recent(n, j)' => now' - t < 4000
  BY <1>1, <1>2 DEF Recent, ImportWindow
<1> QED
  BY <1>2, <1>3, <1>4, <1>5 DEF Remembered

\* Updating the responders of a queue keeps its statistics.
LEMMA SourceFacts ==
    ASSUME NEW q \in QueueRecord, now \in Nat, NEW node \in Int, NEW m \in Nodes
    PROVE  Source(q, node, m) \in QueueRecord /\ SameImports(q, Source(q, node, m))
<1>1. q.responders \in Sources
  BY DEF QueueRecord
<1>2. PICK S \in SUBSET Nodes : q.responders \in [S -> [node : Int, last : Int]]
  BY <1>1 DEF Sources
<1>3. CASE m \in DOMAIN q.responders
  <2> DEFINE v == [q.responders EXCEPT ![m].last = unixtime]
  <2>1. v \in [S -> [node : Int, last : Int]]
    BY <1>2, <1>3, UnixFacts
  <2>2. v \in Sources
    BY <2>1 DEF Sources
  <2>3. Source(q, node, m) = [q EXCEPT !.responders = v]
    BY <1>3 DEF Source
  <2> HIDE DEF v
  <2> QED
    BY <2>2, <2>3 DEF QueueRecord, SameImports
<1>4. CASE m \notin DOMAIN q.responders
  <2> DEFINE v == [x \in DOMAIN q.responders \cup {m} |->
                       IF x = m THEN [node |-> node, last |-> unixtime] ELSE q.responders[x]]
  <2>1. S \cup {m} \in SUBSET Nodes /\ v \in [S \cup {m} -> [node : Int, last : Int]]
    BY <1>2, UnixFacts
  <2>2. v \in Sources
    BY <2>1 DEF Sources
  <2>3. Source(q, node, m) = [q EXCEPT !.bcastAttempt = 0, !.responders = v]
    BY <1>4 DEF Source
  <2> HIDE DEF v
  <2> DEFINE zero == 0
             z == [q EXCEPT !.bcastAttempt = zero, !.responders = v]
  <2>4. Source(q, node, m) = z /\ zero \in Int
    BY <2>3
  <2> HIDE DEF zero
  <2>5. z \in QueueRecord /\ SameImports(q, z)
    BY <2>2, <2>4, FieldSet, FieldSetSame
  <2> HIDE DEF z
  <2> QED
    BY <2>4, <2>5
<1> QED
  BY <1>3, <1>4

\* The queue r after q imported jobs: the period of its import rate began in
\* the last second.
Importing(q, r) ==
    /\ r \in QueueRecord /\ r.exists /\ r.atime = unixtime
    /\ r.current >= q.current /\ r.current >= now - 1000 /\ r.currentCount >= 1

\* The queue d is q with its period begun at t and k jobs in it.
Counted(q, d, t, k) ==
    /\ d \in QueueRecord /\ d.exists /\ d.atime = q.atime
    /\ d.current = t /\ d.currentCount = k

\* updateQueueImportRate() when a second has passed: a new period.
LEMMA PeriodSet ==
    ASSUME NEW q \in QueueRecord, NEW c \in Int, NEW l \in Nat, NEW t \in Int, NEW k \in Nat
    PROVE  Counted(q, [q EXCEPT !.prev = c, !.prevCount = l, !.current = t, !.currentCount = k], t, k)
BY DEF QueueRecord, Counted

\* updateQueueImportRate() within the second: one job more.
LEMMA CountSet ==
    ASSUME NEW q \in QueueRecord, NEW t \in Int, NEW k \in Nat
    PROVE  /\ Counted(q, [q EXCEPT !.currentCount = k], q.current, k)
           /\ Counted(q, [q EXCEPT !.adhocAttempt = t, !.currentCount = k], q.current, k)
BY DEF QueueRecord, Counted

\* updateQueueImportRate() counts the import in the current second.
LEMMA RateUpdated ==
    ASSUME NEW q \in QueueRecord, now \in Nat, q.atime = unixtime
    PROVE  Importing(q, updateQueueImportRate(q))
<1> DEFINE c == q.current
           l == q.currentCount
           one == 1
           more == l + 1
           d == [q EXCEPT !.prev = c, !.prevCount = l, !.current = now, !.currentCount = one]
           e == [q EXCEPT !.currentCount = more]
<1>1. c \in Int /\ l \in Nat /\ one \in Nat /\ one = 1 /\ more \in Nat /\ more >= 1 /\ now \in Int
  BY DEF QueueRecord
<1>2. CASE now - q.current > 1000
  <2>1. updateQueueImportRate(q) = d /\ now >= q.current
    BY <1>1, <1>2 DEF updateQueueImportRate
  <2> HIDE DEF c, l, one
  <2>2. Counted(q, d, now, one)
    BY <1>1, PeriodSet
  <2> HIDE DEF d
  <2> QED
    BY <1>1, <2>1, <2>2 DEF Importing, Counted
<1>3. CASE ~ (now - q.current > 1000)
  <2>1. updateQueueImportRate(q) = e /\ q.current >= now - 1000 /\ q.current >= q.current
    BY <1>1, <1>3 DEF updateQueueImportRate
  <2> HIDE DEF more
  <2>2. Counted(q, e, q.current, more)
    BY <1>1, CountSet
  <2> HIDE DEF e
  <2> QED
    BY <1>1, <2>1, <2>2 DEF Importing, Counted
<1> QED
  BY <1>2, <1>3

\* The queue of a node that got k jobs remembers that it imports.
LEMMA ImportedFacts ==
    ASSUME NEW q \in QueueRecord, now \in Nat, NEW node \in Int, NEW m \in Nodes, NEW k \in Nat, k >= 1
    PROVE  Importing(q, Imported(q, node, m, k))
<1> DEFINE q1 == [q EXCEPT !.atime = unixtime]
           q2 == Source(q1, node, m)
           q3 == updateQueueImportRate(q2)
           zero == 0
           count == q3.currentCount + k - 1
           r == [q3 EXCEPT !.adhocAttempt = zero, !.currentCount = count]
<1>1. Imported(q, node, m, k) = r
  BY DEF Imported
<1>2. q1 \in QueueRecord /\ q1.atime = unixtime /\ q1.current = q.current
  <2>1. unixtime \in Int
    BY UnixFacts
  <2> QED
    BY <2>1 DEF QueueRecord
<1> HIDE DEF q1
<1>3. q2 \in QueueRecord /\ q2.atime = unixtime /\ q2.current = q.current
  BY <1>2, SourceFacts DEF SameImports
<1> HIDE DEF q2
<1>4. /\ q3 \in QueueRecord /\ q3.atime = unixtime
      /\ q3.current >= q.current /\ q3.current >= now - 1000 /\ q3.currentCount >= 1
  BY <1>3, RateUpdated DEF Importing
<1> HIDE DEF q3
<1>5. count \in Nat /\ count >= 1 /\ zero \in Int
  BY <1>4 DEF QueueRecord
<1> HIDE DEF zero, count
<1>6. Counted(q3, r, q3.current, count)
  BY <1>4, <1>5, CountSet
<1> HIDE DEF r
<1> QED
  BY <1>1, <1>4, <1>5, <1>6 DEF Importing, Counted

\* What a step may do with a job that its node got from another one.
GiftAllowed ==
    \A n \in Nodes, m \in Nodes : \A j \in DOMAIN came[n] :
        LET sent == net'[<<n, m>>]
        IN  (/\ n # m /\ Len(sent) > Len(net[<<n, m>>])
             /\ sent[Len(sent)].type = "YOURJOBS" /\ j \in sent[Len(sent)].jobs
             /\ came[n][j].from = m) => now - came[n][j].time >= ImportWindow - 1000

\* A step that gives no job gives none back.
LEMMA NoGiftAllowed ==
    ASSUME Types, net' \in Bus, NoGift
    PROVE  GiftAllowed
<1> SUFFICES ASSUME NEW n \in Nodes, NEW m \in Nodes,
                    Len(net'[<<n, m>>]) > Len(net[<<n, m>>]),
                    net'[<<n, m>>][Len(net'[<<n, m>>])].type = "YOURJOBS"
             PROVE  FALSE
  BY DEF GiftAllowed
<1> DEFINE p == <<n, m>>
<1>1. p \in Pairs
  BY DEF Pairs
<1> HIDE DEF p
<1>2. /\ DOMAIN net[p] = 1 .. Len(net[p]) /\ DOMAIN net'[p] = 1 .. Len(net'[p])
      /\ Len(net[p]) \in Nat /\ Len(net'[p]) \in Nat
  BY <1>1 DEF Types, Bus
<1>3. Len(net'[p]) > Len(net[p]) /\ net'[p][Len(net'[p])].type = "YOURJOBS"
  BY DEF p
<1>4. Len(net'[p]) \in DOMAIN net'[p] /\ Len(net'[p]) \notin DOMAIN net[p]
  BY <1>2, <1>3
<1> QED
  BY <1>1, <1>3, <1>4 DEF NoGift

\* A step after which no link has more messages gives no job back.
LEMMA ShorterAllowed ==
    ASSUME Types, \A p \in Pairs : ~ (Len(net'[p]) > Len(net[p]))
    PROVE  GiftAllowed
BY DEF GiftAllowed, Pairs

\* Reading a packet makes no link longer.
LEMMA ReadShorter ==
    ASSUME Types, NEW p0 \in Pairs, NEW bus, NEW shift, Read(p0, bus, shift), NEW p \in Pairs
    PROVE  ~ (Len(bus[p]) > Len(net[p]))
<1>1. Len(bus[p]) \in Nat /\ Len(net[p]) \in Nat
  BY DEF Read, Bus, Types
<1>2. Len(bus[p]) = Len(net[p]) \/ Len(bus[p]) + 1 = Len(net[p])
  BY DEF Read
<1> QED
  BY <1>1, <1>2

\* A node whose queue imported a job lately does not answer NEEDJOBS.
LEMMA GivesLate ==
    ASSUME Types, PingInv, NEW n \in Nodes, NEW j \in Jobs, queue[n].exists,
           Gives(n, Existing(queue[n]))
    PROVE  now - came[n][j].time >= ImportWindow - 1000
<1> SUFFICES ASSUME ~ (now - came[n][j].time >= ImportWindow - 1000) PROVE FALSE
  OBVIOUS
<1>1. Existing(queue[n]) = queue[n] /\ queue[n] \in QueueRecord
  BY ExistingFacts
<1>2. came[n][j].time \in Int /\ now \in Nat
  BY DEF Types
<1>3. Recent(n, j)
  BY <1>2 DEF Recent, ImportWindow
<1>4. queue[n].current >= came[n][j].time - 1000 /\ queue[n].currentCount >= 1
  BY <1>3 DEF PingInv, Remembered
<1>5. queue[n].current \in Int
  BY <1>1 DEF QueueRecord
<1>6. now - queue[n].current <= ImportWindow
  BY <1>2, <1>3, <1>4, <1>5 DEF Recent, ImportWindow
<1> QED
  BY <1>1, <1>2, <1>4, <1>6, RatePositive DEF Gives

-----------------------------------------------------------------------------
(* The theorems *)

FedInv == Types /\ OneInv /\ PingInv

Good == FedInv' /\ GiftAllowed

\* A calm step keeps the invariant and gives no job back.
LEMMA CalmGood ==
    ASSUME FedInv, Calm
    PROVE  Good
<1>1. Types'
  BY DEF FedInv, Calm, Steady, Types, Start
<1>2. OneInv'
  BY CalmOne DEF FedInv
<1>3. PingInv'
  <2>1. OldQueues /\ now' >= now /\ came' = came
    BY DEF Calm, Steady
  <2> QED
    BY <1>1, <2>1, OldQueuesPing DEF PingInv, FedInv
<1>4. GiftAllowed
  BY NoGiftAllowed DEF FedInv, Calm, Steady
<1> QED
  BY <1>1, <1>2, <1>3, <1>4 DEF Good, FedInv

\* ADDJOB keeps the invariant and gives no job back.
LEMMA addjobGood ==
    ASSUME FedInv, NEW n \in Nodes, addjobCommand(n)
    PROVE  Good
<1>1. /\ OneInv' /\ Steady /\ job' \in [Nodes -> [Jobs -> {"none", "active", "queued"}]]
      /\ added' \in SUBSET Jobs /\ UNCHANGED <<now, link, net, came>>
  BY addjobOne DEF FedInv
<1>2. Types'
  BY <1>1 DEF FedInv, Steady, Types
<1>3. PingInv'
  <2>1. OldQueues /\ now' >= now /\ came' = came
    BY <1>1 DEF Steady, FedInv, Types
  <2> QED
    BY <1>2, <2>1, OldQueuesPing DEF PingInv, FedInv
<1>4. GiftAllowed
  BY <1>1, NoGiftAllowed DEF FedInv, Steady
<1> QED
  BY <1>1, <1>2, <1>3, <1>4 DEF Good, FedInv

\* A packet that the receiver ignores: its sender is unknown, or it has no
\* queue to serve.
LEMMA IgnoredGood ==
    ASSUME FedInv, NEW p0 \in Pairs, NEW bus, NEW shift, Read(p0, bus, shift), net' = bus,
           UNCHANGED <<queue, job, asked, came, now, link, added>>
    PROVE  Good
<1>1. bus \in Bus /\ shift \in [Pairs -> Nat]
  BY DEF Read
<1>2. Types'
  BY <1>1 DEF FedInv, Types
<1>3. OneInv'
  <2>1. \A j \in AtMostOnce : FewerCopies(j, shift)
    BY ReadFewer
  <2> QED
    BY <1>1, <2>1, OneKept DEF FedInv
<1>4. OldQueues
  BY YoungerSame DEF OldQueues, FedInv
<1>5. PingInv'
  <2>1. now' >= now
    BY DEF FedInv, Types
  <2> QED
    BY <1>2, <1>4, <2>1, OldQueuesPing DEF PingInv, FedInv
<1>6. GiftAllowed
  BY ReadShorter, ShorterAllowed DEF FedInv
<1> QED
  BY <1>2, <1>3, <1>5, <1>6 DEF Good, FedInv

\* receiveNeedJobs(): the jobs with retry 0 that are given are unregistered,
\* and a node that imports gives none.
LEMMA receiveNeedJobsGood ==
    ASSUME FedInv, NEW n \in Nodes, NEW m \in Nodes, NEW count,
           NEW p0 \in Pairs, NEW bus, NEW shift, Read(p0, bus, shift),
           receiveNeedJobs(n, m, count, bus), UNCHANGED <<asked, came, now, link, added>>
    PROVE  Good
<1>1. CASE ~queue[n].exists \/ ~Gives(n, Existing(queue[n]))
  <2>1. net' = bus /\ UNCHANGED <<queue, job>>
    BY <1>1 DEF receiveNeedJobs
  <2> QED
    BY <2>1, IgnoredGood
<1>2. CASE queue[n].exists /\ Gives(n, Existing(queue[n]))
  <2> DEFINE jobs == Reply(n, count)
             q == [queue[n] EXCEPT !.atime = unixtime]
  <2>1. /\ job' = [job EXCEPT ![n] = [j \in Jobs |-> IF j \in jobs THEN Given(j) ELSE @[j]]]
        /\ queue' = [queue EXCEPT ![n] = q]
        /\ net' = clusterSendYourJobs(n, m, jobs, bus)
    BY <1>2 DEF receiveNeedJobs
  <2>2. jobs \in SUBSET Queued(n)
    BY DEF Reply
  <2>3. Types
    BY DEF FedInv
  <2>4. q \in QueueRecord /\ Younger(queue[n], q)
    <3>1. queue[n] \in QueueRecord /\ Younger(queue[n], queue[n])
      BY <1>2, <2>3, ExistingFacts, YoungerSame
    <3>2. unixtime \in Int
      BY <2>3, UnixFacts DEF Types
    <3> DEFINE e == queue[n]
    <3>3. e \in QueueRecord
      BY <3>1
    <3> HIDE DEF e
    <3>4. [e EXCEPT !.atime = unixtime] \in QueueRecord
      BY <3>2, <3>3 DEF QueueRecord
    <3>5. Touched(e, [e EXCEPT !.atime = unixtime])
      BY <3>2, <3>3 DEF QueueRecord, Touched
    <3> QED
      BY <3>1, <3>4, <3>5, TouchedYounger DEF e
  <2> HIDE DEF jobs, q
  <2>5. /\ OneInv' /\ net' \in Bus
        /\ job' \in [Nodes -> [Jobs -> {"none", "active", "queued"}]]
        /\ \A p \in Pairs : Len(net'[p]) > Len(net[p]) => p = <<n, m>>
    BY <2>1, <2>2, GiftOne DEF FedInv
  <2>6. queue' \in [Nodes -> QueueRecord \cup {NoQueue}] /\ OldQueues
    BY <2>1, <2>3, <2>4, QueueSteady
  <2>7. Types'
    BY <2>3, <2>5, <2>6 DEF Types
  <2>8. PingInv'
    <3>1. now' >= now /\ OldQueues /\ PingInv /\ came' = came
      BY <2>3, <2>6 DEF Types, FedInv
    <3>2. \A a \in Nodes, j \in Jobs : Remembered(a, j)'
      BY <2>3, <2>7, <3>1, OldQueuesPing
    <3> QED
      BY <3>2 DEF PingInv
  <2>9. GiftAllowed
    <3>1. ASSUME NEW a \in Nodes, NEW b \in Nodes, NEW j \in DOMAIN came[a],
                 Len(net'[<<a, b>>]) > Len(net[<<a, b>>])
          PROVE  now - came[a][j].time >= ImportWindow - 1000
      <4>1. <<a, b>> \in Pairs
        BY DEF Pairs
      <4>2. a = n
        BY <2>5, <3>1, <4>1
      <4>3. j \in Jobs
        BY <2>3 DEF Types
      <4> QED
        BY <1>2, <2>3, <4>2, <4>3, GivesLate, ZenonT(40) DEF FedInv
    <3> QED
      BY ONLY <3>1 DEF GiftAllowed
  <2> QED
    BY <2>5, <2>7, <2>8, <2>9 DEF Good, FedInv
<1> QED
  BY <1>1, <1>2

\* An import leaves statistics that are not older.
LEMMA ImportingYounger ==
    ASSUME NEW q, NEW r, Importing(q, r)
    PROVE  Younger(q, r)
BY DEF Importing, Younger

\* receiveYourJobs(): a job that arrives is registered, and the queue
\* remembers the import.
LEMMA receiveYourJobsGood ==
    ASSUME FedInv, NEW n \in Nodes, NEW m \in Nodes,
           NEW p0 \in Pairs, NEW bus, NEW shift, Read(p0, bus, shift), net' = bus,
           net[p0][1] \in Packet, 1 \in DOMAIN net[p0], net[p0][1].type = "YOURJOBS",
           receiveYourJobs(n, m, net[p0][1].jobs), UNCHANGED <<now, link, added>>
    PROVE  Good
<1> DEFINE new == NewJobs(n, net[p0][1].jobs)
           i == Imported(Existing(queue[n]), link[n][m].node, m, Cardinality(new))
           q == IF new = {} THEN queue[n] ELSE i
           first == new # {} /\ m \notin DOMAIN Existing(queue[n]).responders
<1>1. /\ queue' = [queue EXCEPT ![n] = q]
      /\ job' = [job EXCEPT ![n] = [j \in Jobs |-> IF j \in new THEN "queued" ELSE @[j]]]
      /\ came' = [came EXCEPT ![n] = [j \in Jobs |->
                    IF j \in new THEN [from |-> m, time |-> now] ELSE @[j]]]
      /\ asked' = [asked EXCEPT ![n].times = IF first THEN 0 ELSE @]
  BY DEF receiveYourJobs
<1>2. Types /\ OneInv /\ PingInv
  BY DEF FedInv
<1>3. net[p0][1].jobs \in SUBSET Jobs
  BY DEF Packet
<1>4. new \in SUBSET Jobs /\ new \subseteq net[p0][1].jobs
  BY <1>3 DEF NewJobs
<1>5. Cardinality(new) \in Nat /\ (new # {} => Cardinality(new) >= 1)
  <2>1. IsFiniteSet(new)
    BY <1>4, FederationAssumption, FS_Subset
  <2>2. Cardinality(new) \in Nat
    BY <2>1, FS_CardinalityType
  <2>3. Cardinality(new) = 0 <=> new = {}
    BY <2>1, FS_EmptySet
  <2> QED
    BY ONLY <2>2, <2>3
<1>6. /\ Existing(queue[n]) \in QueueRecord /\ now \in Nat /\ link[n][m].node \in Int
      /\ queue[n].exists => Existing(queue[n]) = queue[n]
  BY <1>2, ExistingFacts DEF Types
<1> DEFINE k == Cardinality(new)
           e == Existing(queue[n])
           l == link[n][m].node
<1> HIDE DEF new, first, k, e, l
<1>7. ASSUME new # {}
      PROVE  Importing(e, i)
  <2>1. e \in QueueRecord /\ now \in Nat /\ l \in Int /\ k \in Nat /\ k >= 1
    BY <1>5, <1>6, <1>7 DEF e, k, l
  <2>2. i = Imported(e, l, m, k)
    BY DEF e, k, l
  <2>3. Importing(e, Imported(e, l, m, k))
    BY ONLY <2>1, ImportedFacts, m \in Nodes
  <2> HIDE DEF i
  <2> QED
    BY <2>2, <2>3
<1> HIDE DEF i
<1>8. OneInv' /\ job' \in [Nodes -> [Jobs -> {"none", "active", "queued"}]]
  BY <1>1, <1>2, <1>4, ImportOne
<1>9. queue' \in [Nodes -> QueueRecord \cup {NoQueue}] /\ OldQueues
  <2>1. CASE new = {}
    <3>1. queue' = queue
      BY <1>1, <1>2, <2>1 DEF Types
    <3> QED
      BY <1>2, <3>1, YoungerSame DEF OldQueues, Types
  <2>2. CASE new # {}
    <3>1. queue' = [queue EXCEPT ![n] = i]
      BY <1>1, <2>2
    <3>2. queue[n].exists => Younger(queue[n], i)
      <4>1. queue[n].exists => e = queue[n]
        BY <1>6 DEF e
      <4> QED
        BY ONLY <1>7, <2>2, <4>1, ImportingYounger
    <3>3. i \in QueueRecord
      BY ONLY <1>7, <2>2 DEF Importing
    <3> QED
      BY <1>2, <3>1, <3>2, <3>3, QueueSteady
  <2> QED
    BY <2>1, <2>2
<1>10. came' \in [Nodes -> [Jobs -> [from : Nodes, time : Int]]]
  BY <1>1, <1>2 DEF Types
<1>11. asked' \in [Nodes -> [time : Int, times : Int]]
  <2> DEFINE v == IF first THEN 0 ELSE asked[n].times
             r == [asked[n] EXCEPT !.times = v]
  <2>1. asked' = [asked EXCEPT ![n] = r]
    BY <1>1
  <2>2. asked[n] \in [time : Int, times : Int]
    BY <1>2 DEF Types
  <2>3. v \in Int
    BY ONLY <2>2 DEF v
  <2> HIDE DEF v
  <2>4. r \in [time : Int, times : Int]
    BY <2>2, <2>3
  <2> HIDE DEF r
  <2> QED
    BY <1>2, <2>1, <2>4 DEF Types
<1>12. net' \in Bus
  BY DEF Read
<1>13. Types'
  BY <1>2, <1>8, <1>9, <1>10, <1>11, <1>12 DEF Types
<1>14. ASSUME NEW a \in Nodes, NEW j \in Jobs
       PROVE  Remembered(a, j)'
  <2>1. CASE a = n /\ j \in new
    <3>1. came'[a][j].time = now /\ queue'[a] = i /\ new # {}
      BY <1>1, <1>2, <2>1 DEF Types
    <3>2. unixtime \in Int /\ now < 1000 * unixtime + 1000
      BY ONLY <1>6, UnixFacts
    <3>3. i.exists /\ i.atime = unixtime /\ i.current >= now - 1000 /\ i.currentCount >= 1
      BY ONLY <1>7, <3>1 DEF Importing
    <3>4. now' = now
      OBVIOUS
    <3>5. now <= now /\ i.current >= now - 1000 /\ 1000 * i.atime + 1000 > now
      BY ONLY <1>6, <3>2, <3>3
    <3> DEFINE t == came'[a][j].time
               r == queue'[a]
    <3>6. t = now /\ r = i
      BY ONLY <3>1
    <3> HIDE DEF t, r
    <3>7. t <= now' /\ r.exists /\ r.current >= t - 1000 /\ r.currentCount >= 1
      BY ONLY <3>3, <3>4, <3>5, <3>6
    <3>8. 1000 * r.atime + 1000 > t
      BY ONLY <3>5, <3>6
    <3> QED
      BY ONLY <3>7, <3>8 DEF Remembered, t, r
  <2>2. CASE ~ (a = n /\ j \in new)
    <3>1. came'[a][j] = came[a][j]
      BY <1>1, <1>2, <2>2 DEF Types
    <3>2. now' >= now
      <4>1. now' = now
        OBVIOUS
      <4> QED
        BY ONLY <1>6, <4>1
    <3> QED
      BY <1>2, <1>9, <1>13, <3>1, <3>2, OldQueuesPing
  <2> QED
    BY <2>1, <2>2
<1>15. PingInv'
  BY <1>14 DEF PingInv
<1>16. GiftAllowed
  BY <1>2, ReadShorter, ShorterAllowed
<1> QED
  BY <1>8, <1>13, <1>15, <1>16 DEF Good, FedInv

\* clusterProcessPacket() dispatches to one of the handlers.
LEMMA PacketGood ==
    ASSUME FedInv, NEW m \in Nodes, NEW n \in Nodes, clusterProcessPacket(m, n)
    PROVE  Good
<1> DEFINE p0 == <<m, n>>
           bus == [net EXCEPT ![p0] = Tail(@)]
<1>1. p0 \in Pairs /\ net[p0] # <<>>
  BY DEF Pairs, clusterProcessPacket
<1>2. PICK shift : Read(p0, bus, shift)
  BY <1>1, ReadFacts DEF FedInv
<1>3. Head(net[p0]) \in Packet /\ 1 \in DOMAIN net[p0] /\ net[p0][1] = Head(net[p0])
  BY <1>1, ReadFacts DEF FedInv
<1>4. UNCHANGED <<now, link, added>>
  BY DEF clusterProcessPacket
<1>5. \/ net' = bus /\ UNCHANGED <<queue, job, asked, came>>
      \/ receiveNeedJobs(n, m, Head(net[p0]).count, bus) /\ UNCHANGED <<asked, came>>
      \/ /\ Head(net[p0]).type = "YOURJOBS" /\ receiveYourJobs(n, m, Head(net[p0]).jobs)
         /\ net' = bus
  BY DEF clusterProcessPacket, hist
<1> HIDE DEF p0, bus
<1>6. CASE net' = bus /\ UNCHANGED <<queue, job, asked, came>>
  BY <1>1, <1>2, <1>4, <1>6, IgnoredGood
<1>7. CASE receiveNeedJobs(n, m, Head(net[p0]).count, bus) /\ UNCHANGED <<asked, came>>
  BY <1>1, <1>2, <1>4, <1>7, receiveNeedJobsGood
<1>8. CASE /\ Head(net[p0]).type = "YOURJOBS" /\ receiveYourJobs(n, m, Head(net[p0]).jobs)
           /\ net' = bus
  <2>1. net[p0][1] \in Packet /\ net[p0][1].type = "YOURJOBS" /\ receiveYourJobs(n, m, net[p0][1].jobs)
    BY <1>3, <1>8
  <2> QED
    BY <1>1, <1>2, <1>3, <1>4, <1>8, <2>1, receiveYourJobsGood
<1> QED
  BY <1>5, <1>6, <1>7, <1>8

\* FedInv holds at the start.
LEMMA InitFed == Init => FedInv
<1> SUFFICES ASSUME Init PROVE FedInv
  OBVIOUS
<1>1. <<>> \in Seq(Packet) /\ DOMAIN <<>> = {}
  OBVIOUS
<1>2. Types
  <2>1. now \in Nat /\ now >= Start
    BY DEF Init, Start
  <2>2. queue \in [Nodes -> QueueRecord \cup {NoQueue}]
    BY DEF Init
  <2>3. job \in [Nodes -> [Jobs -> {"none", "active", "queued"}]]
    BY DEF Init
  <2>4. link \in [Nodes -> [Nodes -> [node : Int, up : BOOLEAN]]]
    <3>1. link = [n \in Nodes |-> [m \in Nodes |-> [node |-> 1, up |-> m # n]]]
      BY DEF Init
    <3> QED
      BY ONLY <3>1
  <2>5. net \in Bus
    BY <1>1 DEF Init, Bus, Pairs
  <2>6. added \in SUBSET Jobs
    BY DEF Init
  <2>7. asked \in [Nodes -> [time : Int, times : Int]]
    BY DEF Init
  <2>8. came \in [Nodes -> [Jobs -> [from : Nodes, time : Int]]]
    BY DEF Init
  <2> QED
    BY <2>1, <2>2, <2>3, <2>4, <2>5, <2>6, <2>7, <2>8 DEF Types
<1>3. \A p \in Pairs : net[p] = <<>>
  BY DEF Init, Pairs
<1>4. \A n \in Nodes, j \in AtMostOnce : job[n][j] = "none"
  BY FederationAssumption DEF Init
<1>5. \A j \in AtMostOnce : Single(j) /\ Nowhere(j)
  BY <1>1, <1>3, <1>4 DEF Single, Nowhere
<1>6. OneInv
  BY <1>5, SingleIsOneCopy DEF OneInv
<1>7. \A n \in Nodes, j \in Jobs : came[n][j].time = 0 /\ now = 100000
  <2>1. /\ came = [n \in Nodes |-> [j \in Jobs |-> [from |-> n, time |-> 0]]]
        /\ now = 100000
    BY DEF Init, Start
  <2> QED
    BY ONLY <2>1
<1>8. PingInv
  BY <1>7 DEF PingInv, Remembered, Recent, ImportWindow
<1> QED
  BY <1>2, <1>6, <1>8 DEF FedInv

\* Every step keeps FedInv, and gives back no job that came lately.
LEMMA NextGood == FedInv /\ Next => Good
<1> SUFFICES ASSUME FedInv, Step PROVE Good
  BY DEF Next
<1>1. Types
  BY DEF FedInv
<1>2. ASSUME NEW n \in Nodes, getjobCommand(n) \/ handleClientsBlockedOnQueues(n)
                              \/ clientsCronSendNeedJobs(n)
      PROVE  Good
  BY <1>1, <1>2, getjobCommandCalm, handleClientsCalm, clientsCronCalm, CalmGood
<1>3. ASSUME NEW n \in Nodes, pause(n) \/ leave(n) \/ GCQueue(n) PROVE Good
  BY <1>1, <1>3, pauseCalm, leaveCalm, GCQueueCalm, CalmGood
<1>4. ASSUME NEW n \in Nodes, addjobCommand(n) PROVE Good
  BY <1>4, addjobGood
<1>5. ASSUME NEW n \in Nodes, NEW j \in Jobs, requeue(n, j) PROVE Good
  BY <1>1, <1>5, requeueCalm, CalmGood
<1>6. ASSUME NEW n \in Nodes, NEW m \in Nodes, clusterProcessPacket(n, m) PROVE Good
  BY <1>6, PacketGood
<1>7. ASSUME NEW n \in Nodes, NEW m \in Nodes,
             freeClusterLink(n, m) \/ reconnect(n, m) \/ forget(n, m) \/ meet(n, m)
      PROVE  Good
  BY <1>1, <1>7, LinkCalm, CalmGood
<1>8. ASSUME Tick PROVE Good
  BY <1>1, <1>8, TickCalm, CalmGood
<1> QED
  BY <1>2, <1>3, <1>4, <1>5, <1>6, <1>7, <1>8 DEF Step

\* A step that changes nothing.
LEMMA StutterFed == FedInv /\ UNCHANGED vars => FedInv'
<1> SUFFICES ASSUME FedInv, UNCHANGED vars PROVE FedInv'
  OBVIOUS
<1>1. UNCHANGED <<now, queue, job, link, net, added, asked, came>>
  BY DEF vars
<1>2. Calm
  BY <1>1, SameSteady DEF FedInv, Calm, Types
<1> QED
  BY <1>2, CalmGood DEF Good

\* The invariant holds in every reachable state.
LEMMA FedAlways == Spec => []FedInv
<1>1. FedInv /\ [Next]_vars => FedInv'
  BY NextGood, StutterFed DEF Good
<1> QED
  BY <1>1, InitFed, PTL DEF Spec

\* A job with retry 0 has one copy: it is registered at one node or travels
\* in one YOURJOBS message, in every cluster and whatever happens to the links.
THEOREM OneCopyAlways == Spec => []OneCopy
<1>1. FedInv => OneCopy
  BY DEF FedInv, OneInv
<1> QED
  BY <1>1, FedAlways, PTL

\* A job that a node got is not given back in the next four seconds.
THEOREM JobsDoNotPingPong == Spec => NoPingPong
<1>1. FedInv /\ [Next]_vars => [GiftAllowed]_vars
  BY NextGood DEF Good
<1>2. Spec => [][GiftAllowed]_vars
  BY <1>1, FedAlways, PTL DEF Spec
<1> QED
  BY <1>2 DEF NoPingPong, GiftAllowed
=============================================================================
