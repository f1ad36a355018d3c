--------------------------- MODULE AtMostOnceProofs --------------------------
(***************************************************************************)
(* The proof that a job with RETRY 0 is delivered at most once, for every  *)
(* cluster, every sequence of commands and faults, and every bound.        *)
(*                                                                         *)
(* The argument is that of a token: the right to be delivered is with one  *)
(* copy that can be queued and was not delivered, or with one YOURJOBS     *)
(* message, and it is spent by the delivery.  ADDJOB creates the token;    *)
(* REPLJOB does not, because a copy it makes has no queue time.            *)
(***************************************************************************)
EXTENDS JobProtocolProofs

\* The copy j can be delivered, now or after it is queued.
Token(j) == j # NoJob /\ "DELIVERED" \notin j.flags /\ (j.state = "queued" \/ j.qtime)

\* A job in a queue was not delivered from it.
Fresh(j) == j # NoJob /\ j.state = "queued" => "DELIVERED" \notin j.flags

\* The copy `new' that takes the place of `old' has no right that `old' had not.
Tame(new, old) == (Token(new) => Token(old)) /\ Fresh(new)

\* The job on its way to another node.
Moving == {m \in DOMAIN net : m.type = "YOURJOBS"}

\* There is one token at most, none before ADDJOB and none after a delivery.
OnceInv ==
    ~opts.retry =>
      /\ \A n \in Nodes : Fresh(jobs[n])
      /\ \A a, b \in Nodes : Token(jobs[a]) /\ Token(jobs[b]) => a = b
      /\ \A m, k \in Moving : m = k
      /\ \A m \in Moving : net[m] = 1
      /\ Moving # {} => deliveries = 0 /\ \A n \in Nodes : ~Token(jobs[n])
      /\ \A n \in Nodes : Token(jobs[n]) => deliveries = 0
      /\ client = "idle" => /\ deliveries = 0 /\ Moving = {}
                            /\ \A n \in Nodes : ~Token(jobs[n])
      /\ deliveries <= 1

-----------------------------------------------------------------------------
(* Messages *)

\* How many copies of a message are in flight after a handler ran.
LEMMA DeliverCount ==
    ASSUME NEW B, IsABag(B), NEW in, NEW out,
           NEW m \in DOMAIN Deliver(B, in, out)
    PROVE  /\ m \in DOMAIN B \/ m \in out
           /\ Deliver(B, in, out)[m] =
                (IF m \in DOMAIN B THEN B[m] - (IF m \in in THEN 1 ELSE 0) ELSE 0)
                + (IF m \in out THEN 1 ELSE 0)
           /\ Deliver(B, in, out)[m] > 0
<1> DEFINE S == SetToBag(in)
           D == [e \in DOMAIN B |-> IF e \in DOMAIN S THEN B[e] - S[e] ELSE B[e]]
           M == B (-) S
           T == SetToBag(out)
<1>1. \A e \in DOMAIN B : B[e] \in Nat /\ B[e] > 0
  BY DEF IsABag
<1>2. DOMAIN D = DOMAIN B /\ \A e \in DOMAIN B : D[e] = B[e] - (IF e \in in THEN 1 ELSE 0)
  BY <1>1 DEF SetToBag
<1>3. M = [e \in {d \in DOMAIN D : D[d] > 0} |-> D[e]]
  BY DEF (-)
<1>4. DOMAIN T = out /\ \A e \in out : T[e] = 1
  BY DEF SetToBag
<1> HIDE DEF S, D, M, T
<1>5. /\ DOMAIN M = {e \in DOMAIN B : B[e] - (IF e \in in THEN 1 ELSE 0) > 0}
      /\ \A e \in DOMAIN M : M[e] = B[e] - (IF e \in in THEN 1 ELSE 0)
  BY <1>2, <1>3
<1>6. M (+) T = [e \in DOMAIN M \cup DOMAIN T |->
                   (IF e \in DOMAIN M THEN M[e] ELSE 0)
                   + (IF e \in DOMAIN T THEN T[e] ELSE 0)]
  BY DEF (+)
<1>7. Deliver(B, in, out) = M (+) T
  BY DEF Deliver, M, S, T
<1>8. m \in DOMAIN M \cup out
  BY <1>4, <1>6, <1>7
<1>9. Deliver(B, in, out)[m] = (IF m \in DOMAIN M THEN M[m] ELSE 0)
                               + (IF m \in out THEN 1 ELSE 0)
  BY <1>4, <1>6, <1>7, <1>8
<1>10. m \in DOMAIN B /\ m \notin DOMAIN M => B[m] - (IF m \in in THEN 1 ELSE 0) = 0
  BY <1>1, <1>5
<1>11. m \in DOMAIN M => m \in DOMAIN B /\ M[m] \in Nat /\ M[m] > 0
  BY <1>1, <1>5
<1> QED
  BY <1>5, <1>8, <1>9, <1>10, <1>11

\* None of the messages is a YOURJOBS message.
NoYours(out) == \A m \in out : m.type # "YOURJOBS"

\* The job is not sent away, and no message is doubled.
NetQuiet == \A m \in DOMAIN net' : m.type = "YOURJOBS" =>
               m \in DOMAIN net /\ net'[m] <= net[m] /\ net'[m] \in Nat \ {0}

\* Messages other than YOURJOBS carry no job that can be delivered.
LEMMA TransmitQuiet ==
    ASSUME TypeOK, TypeOK', NEW in, NEW out, NoYours(out), Transmit(in, out)
    PROVE  NetQuiet
<1>1. net' = Deliver(net, in, out) /\ IsABag(net) /\ IsABag(net')
  BY DEF Transmit, TypeOK
<1>2. SUFFICES ASSUME NEW m \in DOMAIN net', m.type = "YOURJOBS"
               PROVE  m \in DOMAIN net /\ net'[m] <= net[m] /\ net'[m] \in Nat \ {0}
  BY DEF NetQuiet
<1>3. m \notin out
  BY <1>2 DEF NoYours
<1>4. /\ m \in DOMAIN net
      /\ net'[m] = net[m] - (IF m \in in THEN 1 ELSE 0)
  <2>1. net[m] \in Nat \/ m \notin DOMAIN net
    BY <1>1 DEF IsABag
  <2> QED
    BY <1>1, <1>3, <2>1, DeliverCount
<1>5. net[m] \in Nat /\ net'[m] \in Nat \ {0}
  BY <1>1, <1>2, <1>4 DEF IsABag
<1> QED
  BY <1>4, <1>5

\* Which messages are none.
LEMMA IDsAreNoYours ==
    ASSUME NEW type, type # "YOURJOBS", NEW src, NEW dst, NEW aux
    PROVE  /\ NoYours(SendJobIDMessage(type, src, dst, aux))
           /\ NoYours(BroadcastJobIDMessage(type, src, dst, aux))
BY DEF NoYours, SendJobIDMessage, BroadcastJobIDMessage

\* Sets of messages without YOURJOBS.
LEMMA UnionNoYours ==
    ASSUME NEW A, NEW B, NoYours(A), NoYours(B)
    PROVE  NoYours(A \cup B) /\ NoYours({})
BY DEF NoYours

-----------------------------------------------------------------------------
(* Steps that create no token *)

\* A step that sends no YOURJOBS and makes no copy deliverable again.
LEMMA QuietKeepsOnce ==
    ASSUME OnceInv, TypeOK, opts' = opts, deliveries' = deliveries, NetQuiet,
           client' = "idle" => client = "idle",
           ~opts.retry => \A x \in Nodes : Tame(jobs'[x], jobs[x])
    PROVE  OnceInv'
<1> SUFFICES ASSUME ~opts.retry PROVE OnceInv'
  BY DEF OnceInv
<1>1. \A x \in Nodes : Fresh(jobs'[x]) /\ (Token(jobs'[x]) => Token(jobs[x]))
  BY DEF Tame
<1>2. Moving' \subseteq Moving
  BY DEF NetQuiet, Moving
<1>3. \A m \in Moving' : net'[m] = 1
  <2> SUFFICES ASSUME NEW m \in Moving' PROVE net'[m] = 1
    OBVIOUS
  <2>1. m \in Moving /\ net'[m] <= net[m] /\ net'[m] \in Nat \ {0}
    BY DEF NetQuiet, Moving
  <2>2. net[m] = 1
    BY <2>1 DEF OnceInv
  <2> QED BY <2>1, <2>2
<1> QED
  BY <1>1, <1>2, <1>3 DEF OnceInv

\* The same, for a handler that writes the copy of one node.
LEMMA StoreKeepsOnce ==
    ASSUME OnceInv, TypeOK, TypeOK', NEW n \in Nodes, NEW new, NEW in, NEW out,
           Store(n, new), Transmit(in, out), NoYours(out),
           opts' = opts, deliveries' = deliveries,
           client' = "idle" => client = "idle",
           ~opts.retry => Tame(new, jobs[n])
    PROVE  OnceInv'
<1>1. \A x \in Nodes : jobs'[x] = IF x = n THEN new ELSE jobs[x]
  BY DEF Store, TypeOK
<1>2. ~opts.retry => \A x \in Nodes : Tame(jobs'[x], jobs[x])
  BY <1>1 DEF OnceInv, Tame
<1>3. NetQuiet
  BY TransmitQuiet
<1> QED
  BY <1>2, <1>3, QuietKeepsOnce

\* What Finish() adds: the client that unregisterJob() informs.
LEMMA FinishKeepsOnce ==
    ASSUME OnceInv, TypeOK, TypeOK', NEW n \in Nodes, NEW new, NEW in, NEW out,
           Finish(n, new, in, out), NoYours(out), deliveries' = deliveries,
           ~opts.retry => Tame(new, jobs[n])
    PROVE  OnceInv'
<1> DEFINE all == IF new = NoJob THEN out \cup UnregisterMsgs(n) ELSE out
<1>1. NoYours(all)
  BY IDsAreNoYours DEF UnregisterMsgs, BroadcastDelJob, NoYours
<1>2. Store(n, new) /\ Transmit(in, all) /\ opts' = opts
  BY DEF Finish
<1>3. client' = "idle" => client = "idle"
  BY DEF Finish, ClientAfter
<1> HIDE DEF all
<1> QED
  BY <1>1, <1>2, <1>3, StoreKeepsOnce

\* A message that its receiver ignores.
LEMMA IgnoreKeepsOnce ==
    ASSUME OnceInv, TypeOK, TypeOK', NEW m, Ignore(m), deliveries' = deliveries
    PROVE  OnceInv'
<1>1. NetQuiet
  BY TransmitQuiet DEF Ignore, NoYours
<1>2. ~opts.retry => \A x \in Nodes : Tame(jobs'[x], jobs[x])
  BY DEF Ignore, OnceInv, Tame
<1> QED
  BY <1>1, <1>2, QuietKeepsOnce DEF Ignore

\* A node that restarts has an empty memory, and so no token.
LEMMA RestartKeepsOnce ==
    ASSUME OnceInv, TypeOK, TypeOK', NEW n \in Nodes, Restart(n)
    PROVE  OnceInv'
<1>1. NetQuiet
  BY DEF Restart, NetQuiet, TypeOK, IsABag
<1>2. \A x \in Nodes : jobs'[x] = IF x = n THEN NoJob ELSE jobs[x]
  BY DEF Restart, TypeOK
<1>3. ~opts.retry => \A x \in Nodes : Tame(jobs'[x], jobs[x])
  BY <1>2 DEF OnceInv, Tame, Token, Fresh
<1> QED
  BY <1>1, <1>3, QuietKeepsOnce DEF Restart

-----------------------------------------------------------------------------
(* The functions on a copy, for a job with RETRY 0 *)

\* A copy that is freed is not delivered.
LEMMA NoCopyTame == ASSUME NEW old PROVE Tame(NoJob, old)
BY DEF Tame, Token, Fresh

\* Functions that leave the state, the queue time and the flag DELIVERED alone.
LEMMA SameTame ==
    ASSUME NEW j \in Job, NEW k \in Job, k.state = j.state, k.qtime = j.qtime,
           "DELIVERED" \in k.flags <=> "DELIVERED" \in j.flags, Fresh(j)
    PROVE  Tame(k, j)
BY NoJobAssumption DEF Tame, Token, Fresh

\* enqueueJob() queues a copy that has the token, and keeps the token there.
LEMMA EnqueueTame ==
    ASSUME NEW n \in Nodes, NEW j \in Job, NEW nack, Fresh(j)
    PROVE  /\ Tame(EnqueueJob(n, j, FALSE, nack).job, j)
           /\ NoYours(EnqueueJob(n, j, FALSE, nack).out)
<1>1. NoYours(EnqueueJob(n, j, FALSE, nack).out)
  BY IDsAreNoYours DEF EnqueueJob, NoYours
<1>2. CASE CanEnqueue(j, FALSE)
  <2> DEFINE k == EnqueueJob(n, j, FALSE, nack).job
  <2>1. /\ Token(j)
        /\ k = [j EXCEPT !.state = "queued", !.qtime = FALSE,
                         !.flags = @ \cup {} \cup
                                   (IF nack THEN {} ELSE {"BCAST_QUEUED"})]
    BY <1>2, NoJobAssumption DEF EnqueueJob, CanEnqueue, Token, RetryFlag
  <2> HIDE DEF k
  <2>2. "DELIVERED" \notin k.flags
    <3>1. k.flags = j.flags \cup (IF nack THEN {} ELSE {"BCAST_QUEUED"})
      BY <2>1 DEF Job
    <3> QED
      BY <2>1, <3>1 DEF Token
  <2>3. Tame(k, j)
    BY <2>1, <2>2 DEF Tame, Fresh
  <2> QED
    BY <1>1, <2>3 DEF k
<1>3. CASE ~CanEnqueue(j, FALSE)
  BY <1>1, <1>3 DEF EnqueueJob, Tame
<1> QED
  BY <1>2, <1>3

\* dequeueJob() leaves the copy without a queue time.
LEMMA DequeueTame ==
    ASSUME NEW j \in Job, Fresh(j)
    PROVE  Tame(DequeueJob(j), j) /\ DequeueJob(j) \in Job
BY NoJobAssumption DEF Tame, Token, Fresh, DequeueJob, Job, States

\* acknowledgeJob() does not give a copy what it had not.
LEMMA AcknowledgeTame ==
    ASSUME NEW j \in Job, Fresh(j)
    PROVE  Tame(AcknowledgeJob(j), j) /\ AcknowledgeJob(j) \in Job
BY NoJobAssumption DEF Tame, Token, Fresh, AcknowledgeJob, Job, States

\* Handlers of one step, one after the other.
LEMMA TameTransitive ==
    ASSUME NEW a, NEW b, NEW c, Tame(a, b), Tame(b, c)
    PROVE  Tame(a, c)
BY DEF Tame

\* tryJobGC() releases the copy or remembers who confirmed.
LEMMA TryJobGCTame ==
    ASSUME NEW n \in Nodes, NEW j \in Job, Fresh(j)
    PROVE  Tame(TryJobGC(n, j).job, j) /\ NoYours(TryJobGC(n, j).out)
<1> DEFINE confirmed == IF j.confirmed = {} THEN {n} ELSE j.confirmed
           kept == [j EXCEPT !.confirmed = confirmed]
<1>1. TryJobGC(n, j).job = NoJob \/ TryJobGC(n, j).job = kept
  BY DEF TryJobGC
<1>2. kept \in Job /\ kept.state = j.state /\ kept.qtime = j.qtime /\ kept.flags = j.flags
  BY DEF Job
<1> HIDE DEF kept
<1>3. Tame(kept, j)
  BY <1>2, SameTame
<1>4. NoYours(TryJobGC(n, j).out)
  BY TryJobGCFacts DEF NoYours
<1> QED
  BY <1>1, <1>3, <1>4, NoCopyTame

\* gotAckReceived() releases the copy or counts one more confirmation.
LEMMA GotAckTame ==
    ASSUME NEW n \in Nodes, NEW src \in Nodes, NEW j \in Job,
           NEW known \in BOOLEAN, Fresh(j)
    PROVE  /\ Tame(GotAckReceived(n, src, j, known).job, j)
           /\ NoYours(GotAckReceived(n, src, j, known).out)
<1> DEFINE may == known \/ src \in j.delivered
           merged == [j EXCEPT
             !.delivered = IF may THEN @ \cup {src} ELSE @,
             !.confirmed = IF DummyAck(j) \/ (may /\ @ # {}) THEN @ \cup {src}
                           ELSE @]
           r == GotAckReceived(n, src, j, known)
<1>1. r.job \in {NoJob, j, merged}
  <2>1. CASE j.state # "acked"
    BY <2>1 DEF GotAckReceived
  <2>2. CASE j.state = "acked" /\ DummyAck(j)
    BY <2>2 DEF GotAckReceived
  <2>3. CASE j.state = "acked" /\ ~DummyAck(j)
    BY <2>3 DEF GotAckReceived
  <2> QED BY <2>1, <2>2, <2>3
<1>2. /\ merged \in Job /\ merged.state = j.state
      /\ merged.qtime = j.qtime /\ merged.flags = j.flags
  BY DEF Job
<1>3. NoYours(r.out)
  BY GotAckReceivedFacts DEF NoYours
<1> HIDE DEF merged, r
<1>4. Tame(merged, j) /\ Tame(j, j)
  BY <1>2, SameTame
<1>5. Tame(r.job, j)
  BY <1>1, <1>4, NoCopyTame
<1> QED
  BY <1>3, <1>5 DEF r

\* clusterReplicateJob() only adds nodes that may have a copy.
LEMMA ReplicasAreNoYours ==
    ASSUME NEW n, NEW j, NEW added, NEW noreply
    PROVE  NoYours(ReplicateJob(n, j, added, noreply).out)
BY DEF ReplicateJob, NoYours, SerializeJob

\* replicateJobInCluster() sends copies that are not enqueued.
LEMMA ReplicateTame ==
    ASSUME NEW n \in Nodes, NEW j \in Job, NEW added \in SUBSET Nodes,
           NEW noreply \in BOOLEAN, Fresh(j)
    PROVE  /\ Tame(ReplicateJob(n, j, added, noreply).job, j)
           /\ NoYours(ReplicateJob(n, j, added, noreply).out)
<1> DEFINE all == [j EXCEPT !.delivered = @ \cup added]
<1>1. ReplicateJob(n, j, added, noreply).job = all
  BY DEF ReplicateJob
<1>2. NoYours(ReplicateJob(n, j, added, noreply).out)
  BY ReplicasAreNoYours
<1>3. all \in Job /\ all.state = j.state /\ all.qtime = j.qtime /\ all.flags = j.flags
  BY DEF Job
<1> HIDE DEF all
<1> QED
  BY <1>1, <1>2, <1>3, SameTame

\* jobReplicationAchieved() queues the copy, or leaves it to another node.
LEMMA AchievedTame ==
    ASSUME NEW n \in Nodes, NEW j \in Job, NEW e, ~opts.retry, Fresh(j),
           j.state = "wait_repl", opts.retry \in BOOLEAN
    PROVE  /\ Tame(ReplicationAchieved(n, j, e).job, j)
           /\ NoYours(ReplicationAchieved(n, j, e).out)
<1> DEFINE active == [j EXCEPT !.state = "active", !.confirmed = {}]
<1>1. active \in Job
  BY DEF Job, States
<1>2. Fresh(active) /\ Tame(active, j)
  BY NoJobAssumption DEF Job, Fresh, Tame, Token
<1>3. opts.retry = FALSE
  OBVIOUS
<1>4. CASE n \notin j.delivered
  BY <1>4, NoCopyTame, IDsAreNoYours DEF ReplicationAchieved
<1>5. CASE n \in j.delivered /\ opts.delay
  <2>1. ReplicationAchieved(n, j, e) = [job |-> active, out |-> {}]
    BY <1>5 DEF ReplicationAchieved
  <2> QED BY <1>2, <2>1 DEF NoYours
<1>6. CASE n \in j.delivered /\ ~opts.delay
  <2>1. ReplicationAchieved(n, j, e) = EnqueueJob(n, active, FALSE, FALSE)
    BY <1>3, <1>6 DEF ReplicationAchieved
  <2> HIDE DEF active
  <2>2. /\ Tame(EnqueueJob(n, active, FALSE, FALSE).job, active)
        /\ NoYours(EnqueueJob(n, active, FALSE, FALSE).out)
    BY <1>1, <1>2, EnqueueTame
  <2> QED BY <1>2, <2>1, <2>2, TameTransitive
<1> QED
  BY <1>4, <1>5, <1>6

-----------------------------------------------------------------------------
(* The steps of a run with RETRY 0 *)

\* What the invariant says of the copy of one node.
LEMMA OnceFacts ==
    ASSUME OnceInv, TypeOK, ~opts.retry, NEW n \in Nodes
    PROVE  /\ Fresh(jobs[n]) /\ (Has(n) => jobs[n] \in Job)
           /\ opts.retry = FALSE
BY OptionsAssumption DEF OnceInv, TypeOK, Has, ADDJOBOptions

\* GETJOB spends the token.
LEMMA GetJobOnce ==
    ASSUME OnceInv, TypeOK, TypeOK', ~opts.retry, NEW n \in Nodes, GetJob(n)
    PROVE  OnceInv'
<1> DEFINE new == FetchJob(jobs[n])
<1>1. jobs[n] \in Job /\ jobs[n].state = "queued" /\ Token(jobs[n])
  BY OnceFacts DEF GetJob, InState, Has, Fresh, Token
<1>2. new \in Job /\ new.state = "active" /\ "DELIVERED" \in new.flags
  BY <1>1 DEF FetchJob, Job, States, Flags
<1> HIDE DEF new
<1>3. /\ Finish(n, new, {}, {}) /\ deliveries' = deliveries + 1
      /\ new # NoJob
  BY <1>2, NoJobAssumption DEF GetJob, new
<1>4. \A x \in Nodes : jobs'[x] = IF x = n THEN new ELSE jobs[x]
  BY <1>3 DEF Finish, Store, TypeOK
<1>5. Moving = {} /\ deliveries = 0 /\ client # "idle"
  BY <1>1 DEF OnceInv
<1>6. Transmit({}, {}) /\ opts' = opts /\ client' = client
  BY <1>3 DEF Finish, ClientAfter
<1>7. NetQuiet
  BY <1>6, TransmitQuiet DEF NoYours
<1>8. Moving' = {}
  BY <1>5, <1>7 DEF NetQuiet, Moving
<1>9. \A x \in Nodes : ~Token(jobs'[x]) /\ Fresh(jobs'[x])
  BY <1>1, <1>2, <1>4 DEF Token, Fresh, OnceInv
<1> QED
  BY <1>3, <1>5, <1>6, <1>8, <1>9 DEF OnceInv

\* ACKJOB turns the copy, or a dummy, into an acknowledged one.
LEMMA AckJobOnce ==
    ASSUME OnceInv, TypeOK, TypeOK', ~opts.retry, NEW n \in Nodes, AckJob(n)
    PROVE  OnceInv'
<1>1. deliveries' = deliveries
  BY DEF AckJob
<1>2. CASE UNCHANGED <<jobs, net, client, origin, opts>>
  <2>1. NetQuiet
    BY <1>2 DEF NetQuiet, TypeOK, IsABag
  <2>2. \A x \in Nodes : Tame(jobs'[x], jobs[x])
    BY <1>2, OnceFacts DEF Tame
  <2> QED BY <1>1, <1>2, <2>1, <2>2, QuietKeepsOnce
<1>3. CASE /\ Has(n)
           /\ LET r == TryJobGC(n, AcknowledgeJob(jobs[n]))
              IN  /\ Store(n, r.job) /\ Transmit({}, r.out)
                  /\ client' \in {"dangling", client} /\ opts' = opts
  <2> DEFINE a == AcknowledgeJob(jobs[n])
             r == TryJobGC(n, a)
  <2>1. a \in Job /\ Tame(a, jobs[n])
    BY <1>3, OnceFacts, AcknowledgeTame
  <2>2. Store(n, r.job) /\ Transmit({}, r.out) /\ client' \in {"dangling", client} /\ opts' = opts
    BY <1>3
  <2> HIDE DEF a
  <2>3. Tame(r.job, a) /\ NoYours(r.out)
    BY <2>1, TryJobGCTame DEF Tame
  <2> HIDE DEF r
  <2>4. Tame(r.job, jobs[n])
    BY <2>1, <2>3, TameTransitive
  <2> QED BY <1>1, <2>2, <2>3, <2>4, StoreKeepsOnce
<1> QED
  BY <1>2, <1>3 DEF AckJob

\* FASTACK frees the copy.
LEMMA FastAckOnce ==
    ASSUME OnceInv, TypeOK, TypeOK', NEW n \in Nodes, FastAck(n)
    PROVE  OnceInv'
<1>1. PICK out : Finish(n, NoJob, {}, out) /\ NoYours(out)
  BY IDsAreNoYours DEF FastAck, BroadcastDelJob
<1>2. deliveries' = deliveries
  BY DEF FastAck
<1> QED
  BY <1>1, <1>2, NoCopyTame, FinishKeepsOnce

\* ENQUEUE and NACK queue a copy only where the token is (enqueueJob()).
LEMMA EnqueueCommandOnce ==
    ASSUME OnceInv, TypeOK, TypeOK', ~opts.retry, NEW n \in Nodes, EnqueueCommand(n)
    PROVE  OnceInv'
<1>1. /\ jobs[n] \in Job /\ Fresh(jobs[n]) /\ opts.retry = FALSE
      /\ deliveries' = deliveries
  BY OnceFacts DEF EnqueueCommand, InState, history
<1>2. PICK nack \in BOOLEAN :
        Finish(n, EnqueueJob(n, jobs[n], FALSE, nack).job, {},
                  EnqueueJob(n, jobs[n], FALSE, nack).out)
  BY <1>1 DEF EnqueueCommand
<1>3. /\ Tame(EnqueueJob(n, jobs[n], FALSE, nack).job, jobs[n])
      /\ NoYours(EnqueueJob(n, jobs[n], FALSE, nack).out)
  BY <1>1, EnqueueTame
<1> QED
  BY <1>1, <1>2, <1>3, FinishKeepsOnce

\* DEQUEUE takes the copy out of the queue.
LEMMA DequeueCommandOnce ==
    ASSUME OnceInv, TypeOK, TypeOK', ~opts.retry, NEW n \in Nodes, DequeueCommand(n)
    PROVE  OnceInv'
<1>1. /\ Finish(n, DequeueJob(jobs[n]), {}, {}) /\ deliveries' = deliveries
      /\ Tame(DequeueJob(jobs[n]), jobs[n])
  BY OnceFacts, DequeueTame DEF DequeueCommand, InState, history
<1> QED
  BY <1>1, FinishKeepsOnce DEF NoYours

\* WORKING takes the copy out of the queue and announces it.
LEMMA WorkingCommandOnce ==
    ASSUME OnceInv, TypeOK, TypeOK', ~opts.retry, NEW n \in Nodes, WorkingCommand(n)
    PROVE  OnceInv'
<1> DEFINE j == DequeueJob(jobs[n])
           k == [j EXCEPT !.flags = @ \cup {"BCAST_WILLQUEUE"}]
           out == BroadcastJobIDMessage("WORKING", n, j.delivered, 0)
<1>1. j \in Job /\ Tame(j, jobs[n])
  BY OnceFacts, DequeueTame DEF WorkingCommand
<1>2. Finish(n, k, {}, out) /\ deliveries' = deliveries
  BY DEF WorkingCommand, history
<1>3. NoYours(out)
  BY IDsAreNoYours
<1> HIDE DEF j, out
<1>4. /\ k \in Job /\ k.state = j.state /\ k.qtime = j.qtime
      /\ "DELIVERED" \in k.flags <=> "DELIVERED" \in j.flags
  BY <1>1 DEF Job, Flags, WireFlags
<1> HIDE DEF k
<1>5. Tame(k, jobs[n])
  BY <1>1, <1>4, SameTame, TameTransitive DEF Tame
<1> QED
  BY <1>2, <1>3, <1>5, FinishKeepsOnce

\* DELJOB, expiry and eviction take the copy away.
LEMMA ReleaseOnce ==
    ASSUME OnceInv, TypeOK, TypeOK', NEW n \in Nodes,
           DelJobCommand(n) \/ ExpireJob(n) \/ EvictJob(n)
    PROVE  OnceInv'
<1>1. Finish(n, NoJob, {}, {}) /\ deliveries' = deliveries
  BY DEF DelJobCommand, ExpireJob, EvictJob, history
<1> QED
  BY <1>1, NoCopyTame, FinishKeepsOnce DEF NoYours

\* tryJobGC() sends SETACK and frees copies.
LEMMA GCJobOnce ==
    ASSUME OnceInv, TypeOK, TypeOK', ~opts.retry, NEW n \in Nodes, GCJob(n)
    PROVE  OnceInv'
<1> DEFINE r == TryJobGC(n, jobs[n])
<1>1. Tame(r.job, jobs[n]) /\ NoYours(r.out)
  BY OnceFacts, TryJobGCTame DEF GCJob, InState
<1>2. CASE Finish(n, r.job, {}, r.out) /\ UNCHANGED history
  <2> HIDE DEF r
  <2> QED BY <1>1, <1>2, FinishKeepsOnce DEF history
<1>3. CASE Abort(n)
  BY <1>3, RestartKeepsOnce DEF Abort
<1> QED
  BY <1>2, <1>3 DEF GCJob

\* processJob(): a job with retry 0 is enqueued once, when its delay ends.
LEMMA ProcessJobOnce ==
    ASSUME OnceInv, TypeOK, TypeOK', ~opts.retry, NEW n \in Nodes, ProcessJob(n)
    PROVE  OnceInv'
<1> DEFINE j == jobs[n]
           told == [j EXCEPT !.flags = @ \ {"BCAST_WILLQUEUE"}]
           out == IF "BCAST_WILLQUEUE" \in j.flags /\ j.state = "active"
                  THEN BroadcastJobIDMessage("WILLQUEUE", n, j.delivered, 0)
                  ELSE {}
           r == EnqueueJob(n, told, FALSE, FALSE)
           again == [told EXCEPT !.flags = @ \cup {}]
<1>1. /\ j \in Job /\ Fresh(j) /\ opts.retry = FALSE
      /\ deliveries' = deliveries
  BY OnceFacts DEF ProcessJob, InState, history
<1>2. NoYours(out)
  BY IDsAreNoYours DEF NoYours
<1>3. \/ Finish(n, told, {}, out)
      \/ Finish(n, r.job, {}, out \cup r.out)
      \/ Finish(n, again, {}, {})
  BY <1>1 DEF ProcessJob, RetryFlag
<1> HIDE DEF out
<1>4. /\ told \in Job /\ told.state = j.state /\ told.qtime = j.qtime
      /\ "DELIVERED" \in told.flags <=> "DELIVERED" \in j.flags
      /\ again = told
  BY <1>1 DEF Job, Flags, WireFlags
<1> HIDE DEF j, told, again
<1>5. Tame(told, j)
  BY <1>1, <1>4, SameTame
<1>6. Tame(r.job, told) /\ NoYours(r.out)
  BY <1>4, <1>5, EnqueueTame DEF Tame
<1> HIDE DEF r
<1>7. Tame(r.job, j) /\ NoYours(out \cup r.out) /\ NoYours({})
  BY <1>2, <1>5, <1>6, TameTransitive, UnionNoYours
<1> QED
  BY <1>1, <1>2, <1>3, <1>4, <1>5, <1>7, FinishKeepsOnce DEF j

\* ADDJOB makes the token, at most one because it runs once.
LEMMA NewTokenOnce ==
    ASSUME OnceInv, TypeOK, TypeOK', ~opts.retry, NEW n \in Nodes, NEW new,
           NEW out, Store(n, new), Transmit({}, out), NoYours(out), Fresh(new),
           client = "idle", opts' = opts, deliveries' = deliveries,
           client' # "idle"
    PROVE  OnceInv'
<1>1. \A x \in Nodes : jobs'[x] = IF x = n THEN new ELSE jobs[x]
  BY DEF Store, TypeOK
<1>2. Moving = {} /\ deliveries = 0 /\ \A x \in Nodes : ~Token(jobs[x]) /\ Fresh(jobs[x])
  BY DEF OnceInv
<1>3. NetQuiet
  BY TransmitQuiet
<1>4. Moving' = {}
  BY <1>2, <1>3 DEF NetQuiet, Moving
<1> QED
  BY <1>1, <1>2, <1>4 DEF OnceInv

\* ADDJOB with synchronous replication: the copy waits for its replicas.
LEMMA AddJobSyncOnce ==
    ASSUME OnceInv, TypeOK, TypeOK', ~opts.retry, NEW n \in Nodes, AddJobSync(n)
    PROVE  OnceInv'
<1>1. PICK extrepl \in BOOLEAN : \E T \in SUBSET Nodes :
        LET new == [NewJob(n, extrepl) EXCEPT !.confirmed = IF extrepl THEN {} ELSE {n}]
            r == ReplicateJob(n, new, T, FALSE)
        IN  Store(n, r.job) /\ Transmit({}, r.out)
  BY DEF AddJobSync, Holds, NewNodes
<1>2. /\ client = "idle" /\ opts' = opts /\ deliveries' = deliveries /\ client' = "blocked"
  BY DEF AddJobSync, AcceptsJob, history
<1> DEFINE new == [NewJob(n, extrepl) EXCEPT !.confirmed = IF extrepl THEN {} ELSE {n}]
<1>3. new \in Job /\ new.state = "wait_repl"
  BY DEF NewJob, Job, States, Flags
<1>4. PICK T \in SUBSET Nodes : /\ Store(n, ReplicateJob(n, new, T, FALSE).job)
                                /\ Transmit({}, ReplicateJob(n, new, T, FALSE).out)
  BY <1>1
<1> HIDE DEF new
<1>5. Fresh(new)
  BY <1>3 DEF Fresh
<1>6. /\ Fresh(ReplicateJob(n, new, T, FALSE).job)
      /\ NoYours(ReplicateJob(n, new, T, FALSE).out)
  BY <1>3, <1>5, ReplicateTame DEF Tame
<1> QED
  BY <1>2, <1>4, <1>6, NewTokenOnce

\* ADDJOB without synchronous replication: the copy is queued at once.
LEMMA AddJobLocalOnce ==
    ASSUME OnceInv, TypeOK, TypeOK', ~opts.retry, NEW n \in Nodes, AddJobLocal(n)
    PROVE  OnceInv'
<1> DEFINE new == NewJob(n, FALSE)
           q == IF opts.delay THEN [job |-> [new EXCEPT !.state = "active"], out |-> {}]
                ELSE EnqueueJob(n, new, FALSE, FALSE)
<1>1. /\ client = "idle" /\ opts' = opts /\ deliveries' = deliveries /\ client' = "ok"
      /\ opts.retry = FALSE
  BY OnceFacts DEF AddJobLocal, AcceptsJob, history
<1>2. PICK T \in SUBSET Nodes :
        /\ Store(n, ReplicateJob(n, q.job, T, TRUE).job)
        /\ Transmit({}, q.out \cup ReplicateJob(n, q.job, T, TRUE).out)
  BY <1>1 DEF AddJobLocal, NewNodes
<1>3. new \in Job /\ new.state = "wait_repl" /\ Fresh(new)
  BY DEF NewJob, Job, States, Flags, Fresh
<1>4. q.job \in Job /\ Fresh(q.job) /\ NoYours(q.out)
  <2>1. CASE opts.delay
    <3>1. [new EXCEPT !.state = "active"] \in Job
      BY <1>3 DEF Job, States
    <3> HIDE DEF new
    <3> QED
      BY <2>1, <3>1 DEF Fresh, NoYours, Job
  <2>2. CASE ~opts.delay
    <3>1. q = EnqueueJob(n, new, FALSE, FALSE)
      BY <2>2
    <3> HIDE DEF new, q
    <3>2. Enqueued(EnqueueJob(n, new, FALSE, FALSE), new)
      BY <1>3, EnqueueJobFacts
    <3> QED
      BY <1>3, <3>1, <3>2, EnqueueTame DEF Tame, Enqueued
  <2> QED BY <2>1, <2>2
<1> HIDE DEF q
<1>5. /\ Fresh(ReplicateJob(n, q.job, T, TRUE).job)
      /\ NoYours(ReplicateJob(n, q.job, T, TRUE).out)
  BY <1>4, ReplicateTame DEF Tame
<1>6. NoYours(q.out \cup ReplicateJob(n, q.job, T, TRUE).out)
  BY <1>4, <1>5, UnionNoYours
<1> QED
  BY <1>1, <1>2, <1>5, <1>6, NewTokenOnce

\* Without a copy here there is no token at all.
LEMMA AddJobExternalOnce ==
    ASSUME OnceInv, TypeOK, TypeOK', ~opts.retry, NEW n \in Nodes, AddJobExternal(n)
    PROVE  OnceInv'
<1>1. PICK T, e : Transmit({}, ReplicateJob(n, NewJob(n, TRUE), T, TRUE).out
                          \cup SendJobIDMessage("ENQUEUE", n, e, IF opts.delay THEN 1 ELSE 0))
  BY DEF AddJobExternal
<1>2. NoYours(ReplicateJob(n, NewJob(n, TRUE), T, TRUE).out)
  BY ReplicasAreNoYours
<1>3. NoYours(SendJobIDMessage("ENQUEUE", n, e, IF opts.delay THEN 1 ELSE 0))
  BY IDsAreNoYours
<1>4. NetQuiet
  BY <1>1, <1>2, <1>3, UnionNoYours, TransmitQuiet
<1>5. UNCHANGED <<jobs, opts, deliveries>> /\ client' # "idle"
  BY DEF AddJobExternal, history
<1>6. \A x \in Nodes : Tame(jobs'[x], jobs[x])
  BY <1>5, OnceFacts DEF Tame
<1> QED
  BY <1>4, <1>5, <1>6, QuietKeepsOnce

\* The replication to more nodes when some did not answer.
LEMMA DelayedJobReplicationOnce ==
    ASSUME OnceInv, IInv, TypeOK', ~opts.retry, DelayedJobReplication
    PROVE  OnceInv'
<1>1. /\ TypeOK /\ origin \in Nodes /\ jobs[origin] \in Job /\ Fresh(jobs[origin])
      /\ UNCHANGED <<client, opts, deliveries>>
  BY OnceFacts DEF DelayedJobReplication, IInv, TypeOK, history
<1>2. PICK T \in SUBSET Nodes :
        /\ Store(origin, ReplicateJob(origin, jobs[origin], T, FALSE).job)
        /\ Transmit({}, ReplicateJob(origin, jobs[origin], T, FALSE).out)
  BY DEF DelayedJobReplication, NewNodes
<1>3. /\ Tame(ReplicateJob(origin, jobs[origin], T, FALSE).job, jobs[origin])
      /\ NoYours(ReplicateJob(origin, jobs[origin], T, FALSE).out)
  BY <1>1, ReplicateTame
<1> QED
  BY <1>1, <1>2, <1>3, StoreKeepsOnce

\* The end of a client that waits for the replication.
LEMMA UnblockClientOnce ==
    ASSUME OnceInv, TypeOK, TypeOK', ~opts.retry, UnblockClient \/ UnblockDangling
    PROVE  OnceInv'
<1>1. origin \in Nodes
  BY DEF TypeOK
<1>2. CASE Store(origin, NoJob) /\ Transmit({}, BroadcastDelJob(origin, jobs[origin]))
           /\ client' = "failed" /\ UNCHANGED <<opts, history>>
  <2>1. NoYours(BroadcastDelJob(origin, jobs[origin]))
    BY IDsAreNoYours DEF BroadcastDelJob
  <2> QED
    BY <1>1, <1>2, <2>1, NoCopyTame, StoreKeepsOnce DEF history
<1>3. CASE client' = "failed" /\ UNCHANGED <<jobs, net, opts, history>>
  <2>1. NetQuiet
    BY <1>3 DEF NetQuiet, TypeOK, IsABag
  <2>2. \A x \in Nodes : Tame(jobs'[x], jobs[x])
    BY <1>3, OnceFacts DEF Tame
  <2> QED
    BY <1>3, <2>1, <2>2, QuietKeepsOnce DEF history
<1>4. CASE Abort(origin)
  BY <1>1, <1>4, RestartKeepsOnce DEF Abort
<1> QED
  BY <1>2, <1>3, <1>4 DEF UnblockClient, UnblockDangling

-----------------------------------------------------------------------------
(* The messages *)

\* A copy made by REPLJOB has no queue time: it is never queued.
LEMMA RecvReplJobOnce ==
    ASSUME OnceInv, IInv, TypeOK', ~opts.retry, RecvReplJob
    PROVE  OnceInv'
<1>1. TypeOK /\ deliveries' = deliveries
  BY DEF RecvReplJob, history, IInv
<1>2. PICK m \in Received("REPLJOB") :
        LET n == m.dst
            copy == [DeserializeJob(m, opts.retry) EXCEPT
                       !.flags = @ \cup {"BCAST_QUEUED"}]
            new == IF Has(n) THEN [jobs[n] EXCEPT !.delivered = @ \cup m.delivered]
                   ELSE copy
        IN  RefuseReplJob(m) \/ Finish(n, new, {m}, GotJob(m))
  BY DEF RecvReplJob
<1> DEFINE n == m.dst
           copy == [DeserializeJob(m, opts.retry) EXCEPT !.flags = @ \cup {"BCAST_QUEUED"}]
           more == [jobs[n] EXCEPT !.delivered = @ \cup m.delivered]
<1>3. /\ n \in Nodes /\ Fresh(jobs[n]) /\ (Has(n) => jobs[n] \in Job)
      /\ opts.retry = FALSE /\ m.delivered \subseteq Nodes
  BY <1>1, OnceFacts, MessageFacts DEF Received
<1>4. NoYours(GotJob(m))
  BY IDsAreNoYours DEF GotJob, NoYours
<1>5. CASE RefuseReplJob(m)
  BY <1>1, <1>5, IgnoreKeepsOnce DEF RefuseReplJob
<1>6. CASE ~Has(n) /\ Finish(n, copy, {m}, GotJob(m))
  <2>1. copy.state = "active" /\ copy.qtime = FALSE
    BY <1>3 DEF DeserializeJob
  <2> HIDE DEF copy
  <2>2. Tame(copy, jobs[n])
    BY <2>1 DEF Tame, Token, Fresh
  <2> QED
    BY <1>1, <1>3, <1>4, <1>6, <2>2, FinishKeepsOnce
<1>7. CASE Has(n) /\ Finish(n, more, {m}, GotJob(m))
  <2>1. /\ more \in Job /\ more.state = jobs[n].state
        /\ more.qtime = jobs[n].qtime /\ more.flags = jobs[n].flags
    BY <1>3, <1>7 DEF Job
  <2> HIDE DEF more
  <2>2. Tame(more, jobs[n])
    BY <1>3, <1>7, <2>1, SameTame
  <2> QED
    BY <1>1, <1>3, <1>4, <1>7, <2>2, FinishKeepsOnce
<1> QED
  BY <1>2, <1>5, <1>6, <1>7

\* GOTJOB: the last confirmation queues the copy of the creator.
LEMMA RecvGotJobOnce ==
    ASSUME OnceInv, IInv, TypeOK', ~opts.retry, RecvGotJob
    PROVE  OnceInv'
<1>1. TypeOK /\ deliveries' = deliveries
  BY DEF RecvGotJob, history, IInv
<1>2. PICK m \in Received("GOTJOB") :
        \/ Ignore(m)
        \/ /\ InState(m.dst, {"wait_repl"})
           /\ LET j == [jobs[m.dst] EXCEPT !.confirmed = @ \cup {m.src}]
              IN  \/ Finish(m.dst, j, {m}, {})
                  \/ /\ \E e : LET r == ReplicationAchieved(m.dst, j, e)
                                IN  Store(m.dst, r.job) /\ Transmit({m}, r.out)
                     /\ client' = "ok" /\ opts' = opts
  BY DEF RecvGotJob
<1> DEFINE n == m.dst
           j == [jobs[n] EXCEPT !.confirmed = @ \cup {m.src}]
<1>3. /\ n \in Nodes /\ m.src \in Nodes /\ Fresh(jobs[n])
      /\ (Has(n) => jobs[n] \in Job) /\ opts.retry = FALSE
  BY <1>1, OnceFacts, MessageFacts DEF Received
<1>4. CASE Ignore(m)
  BY <1>1, <1>4, IgnoreKeepsOnce
<1>5. ASSUME InState(n, {"wait_repl"})
      PROVE  j \in Job /\ Tame(j, jobs[n]) /\ Fresh(j) /\ j.state = "wait_repl"
  <2>1. /\ j \in Job /\ j.state = "wait_repl" /\ j.state = jobs[n].state
        /\ j.qtime = jobs[n].qtime /\ j.flags = jobs[n].flags /\ jobs[n] \in Job
    BY <1>3, <1>5 DEF Job, InState
  <2> HIDE DEF j
  <2> QED
    BY <1>3, <2>1, SameTame DEF Tame
<1>6. CASE InState(n, {"wait_repl"}) /\ Finish(n, j, {m}, {})
  <2>1. Tame(j, jobs[n])
    BY <1>5, <1>6
  <2> HIDE DEF j
  <2> QED
    BY <1>1, <1>3, <1>6, <2>1, FinishKeepsOnce DEF NoYours
<1>7. CASE /\ InState(n, {"wait_repl"})
           /\ \E e : LET r == ReplicationAchieved(n, j, e)
                     IN  Store(n, r.job) /\ Transmit({m}, r.out)
           /\ client' = "ok" /\ opts' = opts
  <2>1. PICK e : /\ Store(n, ReplicationAchieved(n, j, e).job)
                 /\ Transmit({m}, ReplicationAchieved(n, j, e).out)
    BY <1>7
  <2>2. j \in Job /\ Tame(j, jobs[n]) /\ Fresh(j) /\ j.state = "wait_repl"
    BY <1>5, <1>7
  <2> HIDE DEF j
  <2>3. /\ Tame(ReplicationAchieved(n, j, e).job, j)
        /\ NoYours(ReplicationAchieved(n, j, e).out)
    BY <1>3, <2>2, AchievedTame
  <2>4. Tame(ReplicationAchieved(n, j, e).job, jobs[n])
    BY <2>2, <2>3, TameTransitive
  <2> QED
    BY <1>1, <1>3, <1>7, <2>1, <2>3, <2>4, StoreKeepsOnce
<1> QED
  BY <1>2, <1>4, <1>6, <1>7

\* A SETACK turns the copy into an acknowledged one.
LEMMA AnswerTame ==
    ASSUME NEW m, m.dst \in Nodes, NEW j \in Job, Fresh(j)
    PROVE  Tame(AnswerSetAck(m, j).job, j) /\ NoYours(AnswerSetAck(m, j).out)
<1> DEFINE gc == TryJobGC(m.dst, j)
           gotAck == SendJobIDMessage("GOTACK", m.dst, m.src, 1)
<1>1. Tame(gc.job, j) /\ NoYours(gc.out)
  BY TryJobGCTame
<1>2. NoYours(gotAck)
  BY IDsAreNoYours
<1>3. /\ AnswerSetAck(m, j).job \in {j, gc.job}
      /\ AnswerSetAck(m, j).out \subseteq gc.out \cup gotAck
  BY DEF AnswerSetAck
<1> HIDE DEF gc, gotAck
<1> QED
  BY <1>1, <1>2, <1>3 DEF Tame, NoYours

\* SETACK acknowledges the copy, or makes a dummy that is acknowledged.
LEMMA RecvSetAckOnce ==
    ASSUME OnceInv, IInv, TypeOK', ~opts.retry, RecvSetAck
    PROVE  OnceInv'
<1>1. TypeOK /\ deliveries' = deliveries
  BY DEF RecvSetAck, history, IInv
<1>2. PICK m \in Received("SETACK") :
        LET n == m.dst
            a == AnswerSetAck(m, AcknowledgeJob(jobs[n]))
        IN  \/ /\ ~Has(n)
               /\ Finish(n, NoJob, {m}, SendJobIDMessage("GOTACK", n, m.src, 0))
            \/ Has(n) /\ Finish(n, a.job, {m}, a.out)
            \/ /\ InState(n, {"wait_repl"})
               /\ \E e : LET r == ReplicationAchieved(n, jobs[n], e)
                             b == AnswerSetAck(m, AcknowledgeJob(r.job))
                         IN  IF r.job = NoJob
                             THEN Store(n, NoJob) /\ Transmit({m}, r.out)
                             ELSE Store(n, b.job) /\ Transmit({m}, r.out \cup b.out)
               /\ client' = "ok" /\ opts' = opts
  BY DEF RecvSetAck, InState
<1> DEFINE n == m.dst
           a == AnswerSetAck(m, AcknowledgeJob(jobs[n]))
<1>3. /\ n \in Nodes /\ Fresh(jobs[n])
      /\ (Has(n) => jobs[n] \in Job) /\ opts.retry = FALSE
  BY <1>1, OnceFacts, MessageFacts DEF Received
<1>4. CASE Finish(n, NoJob, {m}, SendJobIDMessage("GOTACK", n, m.src, 0))
  <2>1. NoYours(SendJobIDMessage("GOTACK", n, m.src, 0))
    BY IDsAreNoYours
  <2> QED
    BY <1>1, <1>3, <1>4, <2>1, NoCopyTame, FinishKeepsOnce
<1>5. CASE Has(n) /\ Finish(n, a.job, {m}, a.out)
  <2> DEFINE k == AcknowledgeJob(jobs[n])
  <2>1. k \in Job /\ Tame(k, jobs[n])
    BY <1>3, <1>5, AcknowledgeTame
  <2>2. a = AnswerSetAck(m, k)
    OBVIOUS
  <2> HIDE DEF k, a
  <2>3. Tame(a.job, k) /\ NoYours(a.out)
    BY <1>3, <2>1, <2>2, AnswerTame DEF Tame
  <2>4. Tame(a.job, jobs[n])
    BY <2>1, <2>3, TameTransitive
  <2> QED
    BY <1>1, <1>3, <1>5, <2>3, <2>4, FinishKeepsOnce
<1>6. CASE /\ InState(n, {"wait_repl"})
           /\ \E e : LET r == ReplicationAchieved(n, jobs[n], e)
                         b == AnswerSetAck(m, AcknowledgeJob(r.job))
                     IN  IF r.job = NoJob
                         THEN Store(n, NoJob) /\ Transmit({m}, r.out)
                         ELSE Store(n, b.job) /\ Transmit({m}, r.out \cup b.out)
           /\ client' = "ok" /\ opts' = opts
  <2>1. PICK e : LET r == ReplicationAchieved(n, jobs[n], e)
                     b == AnswerSetAck(m, AcknowledgeJob(r.job))
                 IN  IF r.job = NoJob
                     THEN Store(n, NoJob) /\ Transmit({m}, r.out)
                     ELSE Store(n, b.job) /\ Transmit({m}, r.out \cup b.out)
    BY <1>6
  <2> DEFINE r == ReplicationAchieved(n, jobs[n], e)
             k == AcknowledgeJob(r.job)
             b == AnswerSetAck(m, k)
  <2>2. jobs[n] \in Job /\ jobs[n].state = "wait_repl"
    BY <1>3, <1>6 DEF InState
  <2>3. Tame(r.job, jobs[n]) /\ NoYours(r.out)
    BY <1>3, <2>2, AchievedTame
  <2>4. r.job \in Job \cup {NoJob}
    <3>1. [jobs[n] EXCEPT !.state = "active", !.confirmed = {}] \in Job
      BY <2>2 DEF Job, States
    <3>2. Enqueued(EnqueueJob(n, [jobs[n] EXCEPT !.state = "active", !.confirmed = {}],
                              opts.retry, FALSE),
                   [jobs[n] EXCEPT !.state = "active", !.confirmed = {}])
      BY <1>3, <3>1, EnqueueJobFacts
    <3> QED
      BY <3>1, <3>2 DEF ReplicationAchieved, Enqueued
  <2>5. \/ Store(n, NoJob) /\ Transmit({m}, r.out)
        \/ r.job \in Job /\ Store(n, b.job) /\ Transmit({m}, r.out \cup b.out)
    BY <2>1, <2>4
  <2> HIDE DEF r
  <2>6. CASE Store(n, NoJob) /\ Transmit({m}, r.out)
    BY <1>1, <1>3, <1>6, <2>3, <2>6, NoCopyTame, StoreKeepsOnce
  <2>7. CASE r.job \in Job /\ Store(n, b.job) /\ Transmit({m}, r.out \cup b.out)
    <3>1. k \in Job /\ Tame(k, r.job)
      BY <2>3, <2>7, AcknowledgeTame DEF Tame
    <3> HIDE DEF k
    <3>2. Tame(b.job, k) /\ NoYours(b.out)
      BY <1>3, <3>1, AnswerTame DEF Tame
    <3> HIDE DEF b
    <3>3. Tame(b.job, jobs[n]) /\ NoYours(r.out \cup b.out)
      BY <2>3, <3>1, <3>2, TameTransitive, UnionNoYours
    <3> QED
      BY <1>1, <1>3, <1>6, <2>7, <3>3, StoreKeepsOnce
  <2> QED
    BY <2>5, <2>6, <2>7
<1> QED
  BY <1>2, <1>4, <1>5, <1>6

\* GOTACK counts a confirmation and may free the copy.
LEMMA RecvGotAckOnce ==
    ASSUME OnceInv, IInv, TypeOK', ~opts.retry, RecvGotAck
    PROVE  OnceInv'
<1>1. TypeOK /\ deliveries' = deliveries
  BY DEF RecvGotAck, history, IInv
<1>2. PICK m \in Received("GOTACK") :
        \/ Ignore(m)
        \/ /\ Has(m.dst)
           /\ LET r == GotAckReceived(m.dst, m.src, jobs[m.dst], m.aux = 1)
              IN  Finish(m.dst, r.job, {m}, r.out)
  BY DEF RecvGotAck
<1>3. CASE Ignore(m)
  BY <1>1, <1>3, IgnoreKeepsOnce
<1>4. CASE /\ Has(m.dst)
           /\ LET r == GotAckReceived(m.dst, m.src, jobs[m.dst], m.aux = 1)
              IN  Finish(m.dst, r.job, {m}, r.out)
  <2> DEFINE known == m.aux = 1
             r == GotAckReceived(m.dst, m.src, jobs[m.dst], known)
  <2>1. Finish(m.dst, r.job, {m}, r.out)
    BY <1>4
  <2>2. /\ m.dst \in Nodes /\ m.src \in Nodes /\ Fresh(jobs[m.dst])
        /\ jobs[m.dst] \in Job
    BY <1>1, <1>4, OnceFacts, MessageFacts DEF Received
  <2>3. known \in BOOLEAN
    OBVIOUS
  <2> HIDE DEF known
  <2>4. Tame(r.job, jobs[m.dst]) /\ NoYours(r.out)
    BY ONLY <2>2, <2>3, GotAckTame
  <2> HIDE DEF r
  <2> QED
    BY <1>1, <2>1, <2>2, <2>4, FinishKeepsOnce
<1> QED
  BY <1>2, <1>3, <1>4

\* DELJOB frees the copy.
LEMMA RecvDelJobOnce ==
    ASSUME OnceInv, IInv, TypeOK', RecvDelJob
    PROVE  OnceInv'
<1>1. TypeOK /\ deliveries' = deliveries
  BY DEF RecvDelJob, history, IInv
<1>2. PICK m \in Received("DELJOB") : Ignore(m) \/ Finish(m.dst, NoJob, {m}, {})
  BY DEF RecvDelJob
<1>3. m.dst \in Nodes
  BY MessageFacts DEF Received
<1> QED
  BY <1>1, <1>2, <1>3, NoCopyTame, IgnoreKeepsOnce, FinishKeepsOnce DEF NoYours

\* ENQUEUE from another node queues a copy only where the token is.
LEMMA RecvEnqueueOnce ==
    ASSUME OnceInv, IInv, TypeOK', ~opts.retry, RecvEnqueue
    PROVE  OnceInv'
<1>1. TypeOK /\ deliveries' = deliveries
  BY DEF RecvEnqueue, history, IInv
<1>2. PICK m \in Received("ENQUEUE") :
        LET n == m.dst
            j == [jobs[n] EXCEPT !.flags = @ \ {"BCAST_QUEUED"}]
            r == IF m.aux = 0 THEN EnqueueJob(n, j, opts.retry, FALSE)
                 ELSE [job |-> j, out |-> {}]
        IN  \/ Ignore(m)
            \/ Has(n) /\ Finish(n, r.job, {m}, r.out)
  BY DEF RecvEnqueue, InState
<1> DEFINE n == m.dst
           j == [jobs[n] EXCEPT !.flags = @ \ {"BCAST_QUEUED"}]
           q == EnqueueJob(n, j, FALSE, FALSE)
<1>3. /\ n \in Nodes /\ Fresh(jobs[n]) /\ (Has(n) => jobs[n] \in Job)
      /\ opts.retry = FALSE
  BY <1>1, OnceFacts, MessageFacts DEF Received
<1>4. \/ Ignore(m)
      \/ Has(n) /\ Finish(n, q.job, {m}, q.out)
      \/ Has(n) /\ Finish(n, j, {m}, {})
  BY <1>2, <1>3
<1>5. Has(n) => /\ j \in Job /\ j.state = jobs[n].state /\ j.qtime = jobs[n].qtime
                /\ "DELIVERED" \in j.flags <=> "DELIVERED" \in jobs[n].flags
  BY <1>3 DEF Job
<1> HIDE DEF j
<1>6. Has(n) => Tame(j, jobs[n])
  <2> SUFFICES ASSUME Has(n) PROVE Tame(j, jobs[n])
    OBVIOUS
  <2> DEFINE old == jobs[n]
  <2>1. /\ old \in Job /\ j \in Job /\ j.state = old.state /\ j.qtime = old.qtime
        /\ "DELIVERED" \in j.flags <=> "DELIVERED" \in old.flags
        /\ Fresh(old)
    BY <1>3, <1>5
  <2> HIDE DEF old
  <2>2. Tame(j, old)
    BY ONLY <2>1, SameTame
  <2> QED
    BY <2>2 DEF old
<1>7. Has(n) => Tame(q.job, j) /\ NoYours(q.out)
  <2> SUFFICES ASSUME Has(n) PROVE Tame(q.job, j) /\ NoYours(q.out)
    OBVIOUS
  <2>1. n \in Nodes /\ j \in Job /\ Fresh(j)
    BY <1>3, <1>5, <1>6 DEF Tame
  <2> QED
    BY ONLY <2>1, EnqueueTame
<1> HIDE DEF q
<1>8. Has(n) => Tame(q.job, jobs[n])
  BY <1>6, <1>7, TameTransitive
<1>9. NoYours({})
  BY DEF NoYours
<1> QED
  BY <1>1, <1>3, <1>4, <1>6, <1>7, <1>8, <1>9, IgnoreKeepsOnce, FinishKeepsOnce

\* QUEUED takes the copy of the receiver out of its queue.
LEMMA RecvQueuedOnce ==
    ASSUME OnceInv, IInv, TypeOK', ~opts.retry, RecvQueued
    PROVE  OnceInv'
<1>1. TypeOK /\ deliveries' = deliveries
  BY DEF RecvQueued, history, IInv
<1>2. PICK m \in Received("QUEUED") \cup Received("WORKING") :
        LET n == m.dst
            j == IF GivesWay(n, m) THEN DequeueJob(jobs[n]) ELSE jobs[n]
        IN  \/ Ignore(m)
            \/ Has(n) /\ Finish(n, [j EXCEPT !.flags = @ \cup RetryFlag(opts.retry)], {m}, {})
            \/ Has(n) /\ Finish(n, jobs[n], {m}, SendSetAck(n, m.src, jobs[n]))
  BY DEF RecvQueued, InState
<1> DEFINE n == m.dst
           j == IF GivesWay(n, m) THEN DequeueJob(jobs[n]) ELSE jobs[n]
           k == [j EXCEPT !.flags = @ \cup {}]
<1>3. /\ n \in Nodes /\ Fresh(jobs[n]) /\ (Has(n) => jobs[n] \in Job)
      /\ opts.retry = FALSE
  BY <1>1, OnceFacts, MessageFacts DEF Received
<1>4. \/ Ignore(m)
      \/ Has(n) /\ Finish(n, k, {m}, {})
      \/ Has(n) /\ Finish(n, jobs[n], {m}, SendSetAck(n, m.src, jobs[n]))
  BY <1>2, <1>3 DEF RetryFlag
<1>5. Has(n) => j \in Job /\ Tame(j, jobs[n])
  BY <1>3, DequeueTame DEF Tame
<1> HIDE DEF j
<1>6. Has(n) => k = j
  BY <1>5 DEF Job
<1> HIDE DEF k
<1>7. Has(n) => Tame(k, jobs[n])
  BY <1>5, <1>6
<1>8. NoYours({}) /\ NoYours(SendSetAck(n, m.src, jobs[n])) /\ Tame(jobs[n], jobs[n])
  BY <1>3, IDsAreNoYours DEF NoYours, SendSetAck, Tame
<1> QED
  BY <1>1, <1>3, <1>4, <1>7, <1>8, IgnoreKeepsOnce, FinishKeepsOnce

\* WILLQUEUE is answered by QUEUED, by SETACK or not at all.
LEMMA RecvWillQueueOnce ==
    ASSUME OnceInv, IInv, TypeOK', ~opts.retry, RecvWillQueue
    PROVE  OnceInv'
<1>1. TypeOK /\ deliveries' = deliveries
  BY DEF RecvWillQueue, history, IInv
<1>2. PICK m \in Received("WILLQUEUE") :
        LET n == m.dst
            j == [jobs[n] EXCEPT !.delivered = @ \cup {m.src}]
        IN  \/ Ignore(m)
            \/ Has(n) /\ Finish(n, j, {m}, WillQueueReply(n, m, j))
            \/ Has(n) /\ Finish(n, jobs[n], {m}, WillQueueReply(n, m, jobs[n]))
  BY DEF RecvWillQueue, InState
<1> DEFINE n == m.dst
           j == [jobs[n] EXCEPT !.delivered = @ \cup {m.src}]
<1>3. /\ n \in Nodes /\ m.src \in Nodes /\ Fresh(jobs[n])
      /\ (Has(n) => jobs[n] \in Job)
  BY <1>1, OnceFacts, MessageFacts DEF Received
<1>4. \A x : NoYours(WillQueueReply(n, m, x))
  BY IDsAreNoYours DEF WillQueueReply, SendSetAck, NoYours
<1>5. Has(n) => /\ j \in Job /\ j.state = jobs[n].state
                /\ j.qtime = jobs[n].qtime /\ j.flags = jobs[n].flags
  BY <1>3 DEF Job
<1>6. \/ Ignore(m)
      \/ Has(n) /\ Finish(n, j, {m}, WillQueueReply(n, m, j))
      \/ Has(n) /\ Finish(n, jobs[n], {m}, WillQueueReply(n, m, jobs[n]))
  BY <1>2
<1> HIDE DEF j
<1>7. Has(n) => Tame(j, jobs[n]) /\ Tame(jobs[n], jobs[n])
  BY <1>3, <1>5, SameTame
<1> QED
  BY <1>1, <1>3, <1>4, <1>6, <1>7, IgnoreKeepsOnce, FinishKeepsOnce

-----------------------------------------------------------------------------
(* Federation moves the token *)

\* NEEDJOBS: the giver unregisters its copy and sends the only one.
LEMMA NeedJobsOnce ==
    ASSUME OnceInv, TypeOK, TypeOK', ~opts.retry, NEW n \in Nodes, NEW d \in Nodes,
           NeedJobs(n, d)
    PROVE  OnceInv'
<1> DEFINE y == SerializeJob("YOURJOBS", n, d, FetchJob(jobs[n]), FALSE)
<1>1. jobs[n] \in Job /\ jobs[n].state = "queued" /\ Token(jobs[n])
  BY OnceFacts DEF NeedJobs, InState, Has, Fresh, Token
<1>2. /\ Finish(n, NoJob, {}, {y}) /\ deliveries' = deliveries
  BY DEF NeedJobs, KeptAfterMove, history
<1> HIDE DEF y
<1>3. UnregisterMsgs(n) = {}
  BY <1>1 DEF UnregisterMsgs, InState
<1>4. /\ net' = Deliver(net, {}, {y}) /\ opts' = opts
      /\ \A x \in Nodes : jobs'[x] = IF x = n THEN NoJob ELSE jobs[x]
  BY <1>2, <1>3 DEF Finish, Transmit, Store, TypeOK
<1>5. Moving = {} /\ deliveries = 0 /\ client # "idle"
  BY <1>1 DEF OnceInv
<1>6. client' # "idle"
  BY <1>2, <1>5 DEF Finish, ClientAfter
<1>7. \A x \in Nodes : ~Token(jobs'[x]) /\ Fresh(jobs'[x])
  BY <1>1, <1>4 DEF Token, Fresh, OnceInv
<1>8. \A m \in Moving' : m = y /\ net'[m] = 1
  <2> SUFFICES ASSUME NEW m \in Moving' PROVE m = y /\ net'[m] = 1
    OBVIOUS
  <2>1. m \in DOMAIN Deliver(net, {}, {y}) /\ m \notin DOMAIN net
    BY <1>4, <1>5 DEF Moving
  <2> QED
    <3>1. IsABag(net)
      BY DEF TypeOK
    <3>2. /\ m \in DOMAIN net \/ m \in {y}
          /\ Deliver(net, {}, {y})[m] =
               (IF m \in DOMAIN net THEN net[m] - (IF m \in {} THEN 1 ELSE 0) ELSE 0)
               + (IF m \in {y} THEN 1 ELSE 0)
      BY ONLY <2>1, <3>1, DeliverCount
    <3> QED
      BY <1>4, <2>1, <3>2, SMTT(30)
<1> QED
  BY <1>2, <1>4, <1>5, <1>6, <1>7, <1>8 DEF OnceInv

\* YOURJOBS: the receiver registers and queues what it got.
LEMMA RecvYourJobsOnce ==
    ASSUME OnceInv, IInv, TypeOK', ~opts.retry, RecvYourJobs
    PROVE  OnceInv'
<1>1. TypeOK
  BY DEF IInv
<1>2. PICK m \in Received("YOURJOBS") :
        LET n == m.dst
            copy == IF Has(n) THEN jobs[n] ELSE DeserializeJob(m, opts.retry)
            j == [copy EXCEPT !.flags = @ \ {"BCAST_QUEUED"},
                              !.qtime = @ \/ ~opts.retry]
            r == EnqueueJob(n, j, opts.retry, FALSE)
        IN  \/ Finish(n, r.job, {m}, r.out) /\ UNCHANGED history
            \/ Finish(n, j, {m}, {}) /\ UNCHANGED history
            \/ Abort(n)
  BY DEF RecvYourJobs
<1> DEFINE n == m.dst
           copy == IF Has(n) THEN jobs[n] ELSE DeserializeJob(m, opts.retry)
           j == [copy EXCEPT !.flags = @ \ {"BCAST_QUEUED"}, !.qtime = @ \/ ~opts.retry]
           r == EnqueueJob(n, j, FALSE, FALSE)
<1>3. /\ n \in Nodes /\ Fresh(jobs[n]) /\ (Has(n) => jobs[n] \in Job)
      /\ opts.retry = FALSE
      /\ m.delivered \subseteq Nodes /\ m.flags \subseteq WireFlags
      /\ m \in Moving
  BY <1>1, OnceFacts, MessageFacts DEF Received, Moving
<1>4. \/ Finish(n, r.job, {m}, r.out) /\ UNCHANGED history
      \/ Finish(n, j, {m}, {}) /\ UNCHANGED history
      \/ Abort(n)
  BY <1>2, <1>3
<1>5. copy \in Job /\ Fresh(copy)
  <2>1. CASE Has(n)
    BY <1>3, <2>1
  <2>2. CASE ~Has(n)
    BY <1>3, <2>2 DEF DeserializeJob, Job, States, Flags, RetryFlag, Fresh
  <2> QED BY <2>1, <2>2
<1>6. j \in Job /\ Fresh(j)
  <2> HIDE DEF copy
  <2>1. j \in Job /\ j.state = copy.state /\ j.flags = copy.flags \ {"BCAST_QUEUED"}
    BY <1>3, <1>5 DEF Job
  <2> HIDE DEF j
  <2> QED
    BY <1>5, <2>1, NoJobAssumption DEF Fresh
<1> HIDE DEF copy, j
<1>7. Fresh(r.job) /\ NoYours(r.out) /\ NoYours({})
  BY <1>3, <1>6, EnqueueTame DEF Tame, NoYours
<1> HIDE DEF r
<1>8. CASE Abort(n)
  BY <1>1, <1>3, <1>8, RestartKeepsOnce DEF Abort
<1>9. ASSUME NEW new, NEW out, Finish(n, new, {m}, out), UNCHANGED history,
             Fresh(new), NoYours(out)
      PROVE  OnceInv'
  <2> DEFINE all == IF new = NoJob THEN out \cup UnregisterMsgs(n) ELSE out
  <2>1. NoYours(all)
    BY <1>9, IDsAreNoYours DEF UnregisterMsgs, BroadcastDelJob, NoYours
  <2>2. /\ net' = Deliver(net, {m}, all) /\ opts' = opts /\ deliveries' = deliveries
        /\ \A x \in Nodes : jobs'[x] = IF x = n THEN new ELSE jobs[x]
    BY <1>1, <1>3, <1>9 DEF Finish, Transmit, Store, TypeOK, history
  <2> HIDE DEF all
  <2>3. /\ deliveries = 0 /\ client # "idle"
        /\ \A x \in Nodes : ~Token(jobs[x]) /\ Fresh(jobs[x])
        /\ net[m] = 1 /\ \A k \in Moving : k = m
    BY <1>3 DEF OnceInv
  <2>4. client' # "idle"
    BY <1>9, <2>3 DEF Finish, ClientAfter
  <2>5. Moving' = {}
    <3> SUFFICES ASSUME NEW k \in Moving' PROVE FALSE
      OBVIOUS
    <3>1. k \in DOMAIN Deliver(net, {m}, all) /\ k \notin all
      BY <2>1, <2>2 DEF Moving, NoYours
    <3>2. IsABag(net)
      BY <1>1 DEF TypeOK
    <3>3. /\ k \in DOMAIN net /\ Deliver(net, {m}, all)[k] > 0
          /\ Deliver(net, {m}, all)[k] =
               (IF k \in DOMAIN net THEN net[k] - (IF k \in {m} THEN 1 ELSE 0) ELSE 0)
               + (IF k \in all THEN 1 ELSE 0)
      BY ONLY <3>1, <3>2, DeliverCount, SMTT(30)
    <3>4. k = m
      BY <2>3, <3>3 DEF Moving
    <3> QED
      BY <2>3, <3>1, <3>3, <3>4
  <2>6. \A a, b \in Nodes : Token(jobs'[a]) /\ Token(jobs'[b]) => a = b
    BY <2>2, <2>3
  <2>7. \A x \in Nodes : Fresh(jobs'[x])
    BY <1>9, <2>2, <2>3
  <2> QED
    BY <2>2, <2>3, <2>4, <2>5, <2>6, <2>7 DEF OnceInv
<1> QED
  BY <1>4, <1>6, <1>7, <1>8, <1>9

-----------------------------------------------------------------------------
\* No copy exists before ADDJOB.
LEMMA InitOnce == Init => OnceInv
BY NoJobAssumption DEF Init, OnceInv, Moving, EmptyBag, SetToBag, Token, Fresh

\* Every step keeps the invariant.
LEMMA NextOnce == IInv /\ IInv' /\ OnceInv /\ [Next]_vars => OnceInv'
<1> SUFFICES ASSUME IInv, IInv', OnceInv, [Next]_vars PROVE OnceInv'
  OBVIOUS
<1>1. TypeOK /\ TypeOK'
  BY DEF IInv
<1>2. opts' = opts
  <2>1. ASSUME NEW n \in Nodes, AddJob(n) PROVE opts' = opts
    BY <2>1 DEF AddJob, AddJobSync, AddJobLocal, AddJobExternal
  <2>2. ASSUME NEW n \in Nodes, Command(n) PROVE opts' = opts
    BY <2>2 DEF Command, GetJob, AckJob, FastAck, EnqueueCommand, DequeueCommand,
       WorkingCommand, DelJobCommand, Finish
  <2>3. ASSUME NEW n \in Nodes, Timer(n) PROVE opts' = opts
    BY <2>3 DEF Timer, ExpireJob, ProcessJob, GCJob, EvictJob, Finish, Abort, Restart
  <2>4. ASSUME NEW n \in Nodes, Crash(n) PROVE opts' = opts
    BY <2>4 DEF Crash, Restart
  <2>5. ASSUME NEW n \in Nodes, NEW d \in Nodes, NeedJobs(n, d) PROVE opts' = opts
    BY <2>5 DEF NeedJobs, Finish
  <2>6. CASE DelayedJobReplication \/ UnblockClient \/ UnblockDangling
    BY <2>6 DEF DelayedJobReplication, UnblockClient, UnblockDangling, Abort, Restart
  <2>7. CASE Receive
    <3>1. CASE RecvReplJob \/ RecvGotJob
      BY <3>1 DEF RecvReplJob, RefuseReplJob, RecvGotJob, Finish, Ignore
    <3>2. CASE RecvSetAck \/ RecvGotAck \/ RecvDelJob
      BY <3>2 DEF RecvSetAck, RecvGotAck, RecvDelJob, Finish, Ignore
    <3>3. CASE RecvEnqueue \/ RecvQueued \/ RecvWillQueue
      BY <3>3 DEF RecvEnqueue, RecvQueued, RecvWillQueue, Finish, Ignore
    <3>4. CASE RecvYourJobs
      BY <3>4 DEF RecvYourJobs, Finish, Abort, Restart
    <3> QED
      BY <2>7, <3>1, <3>2, <3>3, <3>4 DEF Receive
  <2>8. CASE Lose \/ TTLElapses \/ UNCHANGED vars
    BY <2>8 DEF Lose, Ignore, TTLElapses, vars
  <2> QED
    BY <2>1, <2>2, <2>3, <2>4, <2>5, <2>6, <2>7, <2>8 DEF Next
<1> SUFFICES ASSUME ~opts.retry PROVE OnceInv'
  BY <1>2 DEF OnceInv
<1>3. ASSUME NEW n \in Nodes, AddJob(n) PROVE OnceInv'
  BY <1>1, <1>3, AddJobSyncOnce, AddJobLocalOnce, AddJobExternalOnce DEF AddJob
<1>4. ASSUME NEW n \in Nodes, Command(n) PROVE OnceInv'
  BY <1>1, <1>4, GetJobOnce, AckJobOnce, FastAckOnce, EnqueueCommandOnce,
     DequeueCommandOnce, WorkingCommandOnce, ReleaseOnce DEF Command
<1>5. ASSUME NEW n \in Nodes, Timer(n) PROVE OnceInv'
  BY <1>1, <1>5, ProcessJobOnce, GCJobOnce, ReleaseOnce DEF Timer
<1>6. ASSUME NEW n \in Nodes, Crash(n) PROVE OnceInv'
  BY <1>1, <1>6, RestartKeepsOnce DEF Crash
<1>7. ASSUME NEW n \in Nodes, NEW d \in Nodes, NeedJobs(n, d) PROVE OnceInv'
  BY <1>1, <1>7, NeedJobsOnce
<1>8. CASE DelayedJobReplication \/ UnblockClient \/ UnblockDangling
  BY <1>1, <1>8, DelayedJobReplicationOnce, UnblockClientOnce
<1>9. CASE Receive
  BY <1>1, <1>9, RecvReplJobOnce, RecvGotJobOnce, RecvSetAckOnce, RecvGotAckOnce,
     RecvDelJobOnce, RecvEnqueueOnce, RecvQueuedOnce, RecvWillQueueOnce,
     RecvYourJobsOnce DEF Receive
<1>10. CASE Lose
  BY <1>1, <1>10, IgnoreKeepsOnce DEF Lose, history
<1>11. CASE TTLElapses \/ UNCHANGED vars
  <2>1. UNCHANGED <<jobs, net, client, opts, deliveries>>
    BY <1>11 DEF TTLElapses, vars, history
  <2>2. NetQuiet
    BY <1>1, <2>1 DEF NetQuiet, TypeOK, IsABag
  <2>3. \A x \in Nodes : Tame(jobs'[x], jobs[x])
    BY <1>1, <2>1, OnceFacts DEF Tame
  <2> QED
    BY <1>1, <2>1, <2>2, <2>3, QuietKeepsOnce
<1> QED
  BY <1>3, <1>4, <1>5, <1>6, <1>7, <1>8, <1>9, <1>10, <1>11 DEF Next

\* "it will get delivered either a single time or will never get delivered"
\* (README.md:120): in every cluster, under every sequence of commands, timers,
\* messages, losses and crashes, queueFetchJob() hands a job with RETRY 0 to at
\* most one client.
THEOREM DeliveredAtMostOnce == Spec => []AtMostOnce
<1>1. OnceInv => AtMostOnce
  BY DEF OnceInv, AtMostOnce
<1>2. Spec => []OnceInv
  BY Invariance, InitOnce, NextOnce, PTL DEF Spec
<1> QED
  BY <1>1, <1>2, PTL
=============================================================================
