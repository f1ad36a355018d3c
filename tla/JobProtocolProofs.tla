-------------------------- MODULE JobProtocolProofs -------------------------
(***************************************************************************)
(* Proofs about JobProtocol, for every cluster, every set of ADDJOB        *)
(* options, commands and faults, and every bound.                          *)
(***************************************************************************)
EXTENDS JobProtocol, FiniteSetTheorems, TLAPS

-----------------------------------------------------------------------------
(* The cluster bus *)

\* What a node reads and writes turns a bag of messages into a bag of messages,
\* and no message appears that was not written.
LEMMA DeliverFacts ==
    ASSUME NEW B, IsABag(B), NEW in, NEW out
    PROVE  /\ IsABag(Deliver(B, in, out))
           /\ DOMAIN Deliver(B, in, out) \subseteq DOMAIN B \cup out
<1> DEFINE S == SetToBag(in)
           D == [e \in DOMAIN B |-> IF e \in DOMAIN S THEN B[e] - S[e] ELSE B[e]]
           M == B (-) S
           T == SetToBag(out)
<1>1. \A e \in DOMAIN B : B[e] \in Nat /\ B[e] > 0
  BY DEF IsABag
<1>2. \A e \in DOMAIN B : D[e] \in Int
  BY <1>1 DEF SetToBag
<1>3. M = [e \in {d \in DOMAIN D : D[d] > 0} |-> D[e]]
  BY DEF (-)
<1>4. /\ DOMAIN M \subseteq DOMAIN B
      /\ \A e \in DOMAIN M : M[e] \in Nat /\ M[e] > 0
  BY <1>2, <1>3
<1>5. DOMAIN T = out /\ \A e \in out : T[e] = 1
  BY DEF SetToBag
<1> HIDE DEF S, D, M, T
<1>6. M (+) T = [e \in DOMAIN M \cup DOMAIN T |->
                   (IF e \in DOMAIN M THEN M[e] ELSE 0)
                   + (IF e \in DOMAIN T THEN T[e] ELSE 0)]
  BY DEF (+)
<1>7. \A e \in DOMAIN (M (+) T) : (M (+) T)[e] \in Nat /\ (M (+) T)[e] > 0
  BY <1>4, <1>5, <1>6
<1>8. DOMAIN (M (+) T) = DOMAIN M \cup out
  BY <1>5, <1>6
<1>9. M (+) T = [e \in DOMAIN (M (+) T) |-> (M (+) T)[e]]
  BY <1>6
<1>10. IsABag(M (+) T)
  BY <1>7, <1>9 DEF IsABag
<1>11. Deliver(B, in, out) = M (+) T
  BY DEF Deliver, M, S, T
<1> QED
  BY <1>4, <1>8, <1>10, <1>11

\* The messages clusterSendJobIDMessage() and clusterBroadcastJobIDMessage()
\* write are messages, of the type and from the node they are given.
LEMMA SendFacts ==
    ASSUME NEW type \in IDTypes, NEW src \in Nodes, NEW dst \in Nodes,
           NEW aux \in Nat
    PROVE  /\ SendJobIDMessage(type, src, dst, aux) \subseteq Messages
           /\ \A m \in SendJobIDMessage(type, src, dst, aux) :
                m.type = type /\ m.src = src
BY DEF SendJobIDMessage, Messages, IDMessages

LEMMA BroadcastFacts ==
    ASSUME NEW type \in IDTypes, NEW src \in Nodes, NEW dsts \in SUBSET Nodes,
           NEW aux \in Nat
    PROVE  /\ BroadcastJobIDMessage(type, src, dsts, aux) \subseteq Messages
           /\ \A m \in BroadcastJobIDMessage(type, src, dsts, aux) :
                m.type = type /\ m.src = src
BY DEF BroadcastJobIDMessage, Messages, IDMessages

-----------------------------------------------------------------------------
(* The functions on a copy of the job *)

LEMMA CardinalityNat == ASSUME NEW S \in SUBSET Nodes
                        PROVE  IsFiniteSet(S) /\ Cardinality(S) \in Nat
BY NodesAssumption, FS_Subset, FS_CardinalityType

LEMMA SetAckFacts ==
    ASSUME NEW n \in Nodes, NEW d \in Nodes, NEW j \in Job
    PROVE  /\ SendSetAck(n, d, j) \subseteq Messages
           /\ \A m \in SendSetAck(n, d, j) : m.type = "SETACK"
<1>1. Cardinality(j.delivered) \in Nat
  BY CardinalityNat DEF Job
<1> QED
  BY <1>1, SendFacts DEF SendSetAck, IDTypes

LEMMA DelJobFacts ==
    ASSUME NEW n \in Nodes, NEW j \in Job
    PROVE  /\ BroadcastDelJob(n, j) \subseteq Messages
           /\ \A m \in BroadcastDelJob(n, j) : m.type = "DELJOB"
BY BroadcastFacts DEF BroadcastDelJob, Job, IDTypes

\* enqueueJob() only queues the copy, and only tells QUEUED.
Enqueued(r, j) ==
    /\ r.job \in Job /\ r.job.state \in {j.state, "queued"}
    /\ r.job.body = j.body /\ r.job.delivered = j.delivered
    /\ r.job.confirmed = j.confirmed
    /\ r.out \subseteq Messages
    /\ \A m \in r.out : m.type = "QUEUED"

LEMMA EnqueueJobFacts ==
    ASSUME NEW n \in Nodes, NEW j \in Job, NEW retry \in BOOLEAN, NEW nack
    PROVE  Enqueued(EnqueueJob(n, j, retry, nack), j)
<1>1. /\ BroadcastJobIDMessage("QUEUED", n, j.delivered, 0) \subseteq Messages
      /\ \A m \in BroadcastJobIDMessage("QUEUED", n, j.delivered, 0) :
           m.type = "QUEUED"
  BY BroadcastFacts DEF Job, IDTypes
<1> QED
  BY <1>1 DEF Enqueued, EnqueueJob, Job, States, Flags, WireFlags, RetryFlag

\* tryJobGC() releases the copy or keeps it acknowledged, and only tells SETACK.
LEMMA TryJobGCFacts ==
    ASSUME NEW n \in Nodes, NEW j \in Job
    PROVE  LET r == TryJobGC(n, j)
           IN  /\ r.job \in Job \cup {NoJob}
               /\ r.job # NoJob => /\ r.job.state = j.state
                                   /\ r.job.body = j.body
               /\ r.out \subseteq Messages
               /\ \A m \in r.out : m.type = "SETACK"
<1> DEFINE confirmed == IF j.confirmed = {} THEN {n} ELSE j.confirmed
           targets == IF DummyAck(j) THEN Nodes ELSE j.delivered
           out == UNION {SendSetAck(n, d, j) : d \in targets \ confirmed}
           kept == [j EXCEPT !.confirmed = confirmed]
<1>1. confirmed \in SUBSET Nodes /\ targets \in SUBSET Nodes
  BY DEF Job
<1>2. out \subseteq Messages /\ \A m \in out : m.type = "SETACK"
  BY <1>1, SetAckFacts
<1>3. kept \in Job /\ kept.state = j.state /\ kept.body = j.body
  BY <1>1 DEF Job
<1>4. \/ TryJobGC(n, j) = [job |-> NoJob, out |-> {}]
      \/ TryJobGC(n, j) = [job |-> kept, out |-> out]
  BY DEF TryJobGC
<1> HIDE DEF out, kept
<1> QED
  BY <1>2, <1>3, <1>4, NoJobAssumption

\* What gotAckReceived() may make of the copy j.
GotAcked(r, j) ==
    /\ r.job \in Job \cup {NoJob}
    /\ j.state # "acked" => r.job = j /\ r.out = {}
    /\ r.job # NoJob => r.job.state = j.state /\ r.job.body = j.body
    /\ r.out \subseteq Messages
    /\ \A m \in r.out : m.type = "DELJOB"

\* gotAckReceived() does nothing to a copy that is not acknowledged, else it
\* releases it or keeps it acknowledged, and only tells DELJOB.
LEMMA GotAckReceivedFacts ==
    ASSUME NEW n \in Nodes, NEW src \in Nodes, NEW j \in Job,
           NEW known \in BOOLEAN
    PROVE  LET r == GotAckReceived(n, src, j, known)
           IN  /\ r.job \in Job \cup {NoJob}
               /\ j.state # "acked" => r.job = j /\ r.out = {}
               /\ r.job # NoJob => /\ r.job.state = j.state
                                   /\ r.job.body = j.body
               /\ r.out \subseteq Messages
               /\ \A m \in r.out : m.type = "DELJOB"
<1> DEFINE may == known \/ src \in j.delivered
           merged == [j EXCEPT
             !.delivered = IF may THEN @ \cup {src} ELSE @,
             !.confirmed = IF DummyAck(j) \/ (may /\ @ # {}) THEN @ \cup {src}
                           ELSE @]
           r == GotAckReceived(n, src, j, known)
<1>1. merged \in Job /\ merged.state = j.state /\ merged.body = j.body
  BY DEF Job
<1>2. /\ BroadcastDelJob(n, merged) \subseteq Messages
      /\ \A m \in BroadcastDelJob(n, merged) : m.type = "DELJOB"
  <2> HIDE DEF merged
  <2> QED
    BY <1>1, DelJobFacts
<1>3. CASE j.state # "acked"
  <2>1. r = [job |-> j, out |-> {}]
    BY <1>3 DEF GotAckReceived
  <2> QED
    BY <2>1, NoJobAssumption
<1>4. CASE j.state = "acked" /\ DummyAck(j)
  <2>1. \/ r = [job |-> NoJob, out |-> {}]
        \/ r = [job |-> merged, out |-> {}]
    BY <1>4 DEF GotAckReceived
  <2> HIDE DEF merged
  <2> QED
    BY <1>1, <1>4, <2>1
<1>5. CASE j.state = "acked" /\ ~DummyAck(j)
  <2>1. \/ r = [job |-> NoJob, out |-> BroadcastDelJob(n, merged)]
        \/ r = [job |-> merged, out |-> {}]
    BY <1>5 DEF GotAckReceived
  <2> HIDE DEF merged
  <2> QED
    BY <1>1, <1>2, <1>5, <2>1
<1> QED
  BY <1>3, <1>4, <1>5

LEMMA GotAckReceivedOK ==
    ASSUME NEW n \in Nodes, NEW src \in Nodes, NEW j \in Job,
           NEW known \in BOOLEAN
    PROVE  GotAcked(GotAckReceived(n, src, j, known), j)
BY GotAckReceivedFacts DEF GotAcked

-----------------------------------------------------------------------------
(* The inductive invariant *)

\* A copy is safe: the job is wanted, and ADDJOB did not fail.
Live == opts.retry /\ ~Over /\ client # "failed"

\* The nodes that have the job, or lost it in a crash.
Kept == Holders \cup crashed

\* What makes Durability inductive: the confirmations on which the reply to
\* ADDJOB rests are true when they are sent (RecvReplJob), while they travel, and
\* while they are counted; and nothing in flight can make a live copy disappear.
IInv ==
    /\ TypeOK /\ NoPhantomAck /\ WaitReplHasClient
    /\ client = "blocked" => Has(origin)
    /\ \A n \in Nodes : Has(n) /\ ~jobs[n].body => acked
    /\ \A m \in DOMAIN net :
         /\ m.type = "DELJOB" => Over \/ client = "failed"
         /\ m.type = "REPLJOB" => m.dst # origin
         /\ m.type = "GOTJOB" => m.src # origin /\ (Live => m.src \in Kept)
    /\ InState(origin, {"wait_repl"}) =>
         /\ origin \in jobs[origin].confirmed => origin \in jobs[origin].delivered
         /\ Live => jobs[origin].confirmed \subseteq Kept
    /\ client = "ok" /\ ~opts.async /\ Live => Cardinality(Kept) >= opts.repl

\* What every step does to the history.
HistoryGrows ==
    /\ acked' \in BOOLEAN /\ (acked => acked')
    /\ deleted' \in BOOLEAN /\ (deleted => deleted')
    /\ expired' \in BOOLEAN /\ (expired => expired')
    /\ deliveries' \in Nat
    /\ crashed \subseteq crashed' /\ crashed' \subseteq Nodes
    /\ aborted' \subseteq crashed'

\* A step of node n that leaves the copy `new' and writes `out' preserves the
\* invariant if it meets these conditions.
StepOK(n, new, out) ==
    /\ jobs' = [jobs EXCEPT ![n] = new]
    /\ IsABag(net') /\ DOMAIN net' \subseteq DOMAIN net \cup out
    /\ client' \in ClientStates /\ origin' = origin /\ opts' = opts
    /\ HistoryGrows
    /\ client = "failed" => client' = "failed"
    /\ client' = "blocked" => IF n = origin THEN new # NoJob ELSE client = "blocked"
    /\ client = "blocked" /\ client' # "blocked" => n = origin
    /\ client' = "ok" /\ client # "ok" /\ ~opts.async /\ Live'
         => Cardinality(Kept') >= opts.repl
    /\ new # NoJob =>
         /\ new.state = "acked" \/ ~new.body => acked'
         /\ new.state = "wait_repl" =>
              /\ n = origin /\ client' = "blocked"
              /\ origin \in new.confirmed => origin \in new.delivered
              /\ Live' => new.confirmed \subseteq Kept'
    /\ Live' /\ Has(n) /\ jobs[n].body =>
         \/ new # NoJob /\ new.body
         \/ n \in crashed'
         \/ n = origin /\ client # "ok" /\ new = NoJob
    /\ \A m \in out :
         /\ m.type = "SETACK" => acked'
         /\ m.type = "DELJOB" => Over' \/ client' = "failed"
         /\ m.type = "REPLJOB" => m.dst # origin
         /\ m.type = "GOTJOB" => m.src # origin /\ (Live' => m.src \in Kept')

LEMMA StepPreserves ==
    ASSUME IInv, NEW n \in Nodes, NEW new \in Job \cup {NoJob},
           NEW out \in SUBSET Messages, StepOK(n, new, out)
    PROVE  IInv'
<1>1. /\ jobs' \in [Nodes -> Job \cup {NoJob}]
      /\ jobs'[n] = new /\ \A x \in Nodes \ {n} : jobs'[x] = jobs[x]
  BY DEF StepOK, IInv, TypeOK
<1>2. TypeOK'
  BY <1>1 DEF StepOK, IInv, TypeOK, HistoryGrows
<1>3. NoPhantomAck'
  BY <1>1 DEF StepOK, IInv, NoPhantomAck, InState, Has, HistoryGrows
<1>4. WaitReplHasClient'
  BY <1>1 DEF StepOK, IInv, WaitReplHasClient, InState, Has
<1>5. (client = "blocked" => Has(origin))'
  BY <1>1 DEF StepOK, IInv, TypeOK, Has
<1>6. (\A x \in Nodes : Has(x) /\ ~jobs[x].body => acked)'
  BY <1>1 DEF StepOK, IInv, Has, HistoryGrows
<1>7. Over => Over'
  BY DEF StepOK, HistoryGrows, Over
<1>8. Live' => Live
  BY <1>7 DEF StepOK, Live
<1>9. ASSUME Live', NEW x \in Kept, x # origin \/ client = "ok"
      PROVE  x \in Kept'
  <2>1. CASE x \in crashed
    BY <2>1 DEF StepOK, HistoryGrows, Kept
  <2>2. CASE x \in Holders
    <3>1. x \in Nodes /\ Has(x) /\ jobs[x].body
      BY <2>2 DEF Holders
    <3>2. CASE x # n
      BY <1>1, <3>1, <3>2 DEF Kept, Holders, Has
    <3>3. CASE x = n
      BY <1>1, <1>9, <3>1, <3>3 DEF StepOK, Kept, Holders, Has
    <3> QED BY <3>2, <3>3
  <2> QED BY <2>1, <2>2 DEF Kept
<1>10. (\A m \in DOMAIN net :
          /\ m.type = "DELJOB" => Over \/ client = "failed"
          /\ m.type = "REPLJOB" => m.dst # origin
          /\ m.type = "GOTJOB" => m.src # origin /\ (Live => m.src \in Kept))'
  <2> SUFFICES ASSUME NEW m \in DOMAIN net'
               PROVE  /\ m.type = "DELJOB" => Over' \/ client' = "failed"
                      /\ m.type = "REPLJOB" => m.dst # origin'
                      /\ m.type = "GOTJOB" =>
                           m.src # origin' /\ (Live' => m.src \in Kept')
    OBVIOUS
  <2>1. origin' = origin /\ (m \in DOMAIN net \/ m \in out)
    BY DEF StepOK
  <2>2. CASE m \in out
    BY <2>1, <2>2 DEF StepOK
  <2>3. CASE m \in DOMAIN net
    BY <1>7, <1>8, <1>9, <2>1, <2>3 DEF StepOK, IInv
  <2> QED BY <2>1, <2>2, <2>3
<1>11. (InState(origin, {"wait_repl"}) =>
          /\ origin \in jobs[origin].confirmed => origin \in jobs[origin].delivered
          /\ Live => jobs[origin].confirmed \subseteq Kept)'
  <2> SUFFICES ASSUME InState(origin, {"wait_repl"})'
               PROVE  /\ origin \in jobs'[origin].confirmed
                            => origin \in jobs'[origin].delivered
                      /\ Live' => jobs'[origin].confirmed \subseteq Kept'
    BY DEF StepOK
  <2>1. origin \in Nodes /\ jobs'[origin] # NoJob /\ jobs'[origin].state = "wait_repl"
    BY DEF InState, Has, StepOK, IInv, TypeOK
  <2>2. CASE n = origin
    BY <1>1, <2>1, <2>2 DEF StepOK
  <2>3. CASE n # origin
    <3>1. jobs'[origin] = jobs[origin] /\ InState(origin, {"wait_repl"})
      BY <1>1, <2>1, <2>3 DEF InState, Has
    <3>2. origin \in Kept /\ Live' => origin \in Kept'
      BY <1>1, <2>1, <2>3, <3>1 DEF StepOK, HistoryGrows, Kept, Holders, Has
    <3> QED
      BY <1>8, <1>9, <3>1, <3>2 DEF IInv
  <2> QED BY <2>2, <2>3
<1>12. (client = "ok" /\ ~opts.async /\ Live => Cardinality(Kept) >= opts.repl)'
  <2> SUFFICES ASSUME client' = "ok", ~opts.async, Live'
               PROVE  Cardinality(Kept') >= opts.repl
    BY DEF StepOK
  <2>1. CASE client # "ok"
    BY <2>1 DEF StepOK
  <2>2. CASE client = "ok"
    <3>1. Kept \subseteq Kept'
      BY <1>9, <2>2
    <3>2. Kept \in SUBSET Nodes /\ Kept' \in SUBSET Nodes
      BY <1>2 DEF IInv, TypeOK, Kept, Holders
    <3>3. Cardinality(Kept) <= Cardinality(Kept')
      BY <3>1, <3>2, CardinalityNat, FS_Subset
    <3>4. Cardinality(Kept) >= opts.repl
      BY <1>8, <2>2 DEF IInv
    <3>5. opts.repl \in Nat
      BY OptionsAssumption DEF IInv, TypeOK, ADDJOBOptions
    <3> QED
      BY <3>2, <3>3, <3>4, <3>5, CardinalityNat
  <2> QED BY <2>1, <2>2
<1> QED
  BY <1>2, <1>3, <1>4, <1>5, <1>6, <1>10, <1>11, <1>12 DEF IInv

-----------------------------------------------------------------------------
(* Handlers that end in Finish *)

\* The conditions of StepOK for a handler that only changes its own copy.
FinishOK(n, new, out) ==
    /\ HistoryGrows
    /\ new # NoJob =>
         /\ new.state = "acked" \/ ~new.body => acked'
         /\ new.state = "wait_repl" =>
              /\ InState(n, {"wait_repl"})
              /\ new.confirmed = jobs[n].confirmed
              /\ jobs[n].delivered \subseteq new.delivered
    /\ opts.retry /\ ~Over' /\ client # "failed" /\ Has(n) /\ jobs[n].body
         => new # NoJob /\ new.body
    /\ \A m \in out :
         /\ m.type = "SETACK" => acked'
         /\ m.type = "DELJOB" => Over'
         /\ m.type # "REPLJOB"
         /\ m.type = "GOTJOB" => m.src = n /\ n # origin /\ new # NoJob

LEMMA FinishStep ==
    ASSUME IInv, NEW n \in Nodes, NEW new \in Job \cup {NoJob}, NEW in,
           NEW out \in SUBSET Messages, Finish(n, new, in, out),
           FinishOK(n, new, out)
    PROVE  IInv'
<1> DEFINE all == IF new = NoJob THEN out \cup UnregisterMsgs(n) ELSE out
<1>1. /\ UnregisterMsgs(n) \subseteq Messages
      /\ \A m \in UnregisterMsgs(n) : m.type = "DELJOB" /\ InState(n, {"wait_repl"})
  <2>1. CASE InState(n, {"wait_repl"})
    <3>1. jobs[n] \in Job
      BY <2>1 DEF InState, Has, IInv, TypeOK
    <3> QED
      BY <2>1, <3>1, DelJobFacts DEF UnregisterMsgs
  <2>2. CASE ~InState(n, {"wait_repl"})
    BY <2>2 DEF UnregisterMsgs
  <2> QED BY <2>1, <2>2
<1>2. all \in SUBSET Messages
  BY <1>1
<1>3. /\ jobs' = [jobs EXCEPT ![n] = new] /\ client' = ClientAfter(n, new)
      /\ net' = Deliver(net, in, all) /\ origin' = origin /\ opts' = opts
  BY DEF Finish, Store, Transmit
<1>4. IsABag(net') /\ DOMAIN net' \subseteq DOMAIN net \cup all
  <2> HIDE DEF all
  <2> QED
    BY <1>3, DeliverFacts DEF IInv, TypeOK
<1>5. /\ client' \in ClientStates
      /\ client = "failed" => client' = "failed"
      /\ client' = "blocked" => IF n = origin THEN new # NoJob ELSE client = "blocked"
      /\ client = "blocked" /\ client' # "blocked" => n = origin
      /\ client' = "ok" => client = "ok"
      /\ new = NoJob /\ InState(n, {"wait_repl"}) => client' = "failed"
      /\ new # NoJob => client' = client
  BY <1>3 DEF ClientAfter, ClientStates, IInv, TypeOK, WaitReplHasClient, InState, Has
<1>6. jobs'[n] = new
  BY <1>3 DEF IInv, TypeOK
<1>7. \A m \in all :
         /\ m.type = "SETACK" => acked'
         /\ m.type = "DELJOB" => Over' \/ client' = "failed"
         /\ m.type = "REPLJOB" => m.dst # origin
         /\ m.type = "GOTJOB" => m.src # origin /\ (Live' => m.src \in Kept')
  <2>1. \A m \in UnregisterMsgs(n) :
          new = NoJob => m.type = "DELJOB" /\ client' = "failed"
    BY <1>1, <1>5
  <2>2. \A m \in out : m.type = "GOTJOB" /\ Live' => n \in Kept'
    BY <1>6 DEF FinishOK, Live, Over, Kept, Holders, Has
  <2> QED
    BY <2>1, <2>2 DEF FinishOK
<1>8. new # NoJob =>
        /\ new.state = "acked" \/ ~new.body => acked'
        /\ new.state = "wait_repl" =>
             /\ n = origin /\ client' = "blocked"
             /\ origin \in new.confirmed => origin \in new.delivered
             /\ Live' => new.confirmed \subseteq Kept'
  <2> SUFFICES ASSUME new # NoJob, new.state = "wait_repl"
               PROVE  /\ n = origin /\ client' = "blocked"
                      /\ origin \in new.confirmed => origin \in new.delivered
                      /\ Live' => new.confirmed \subseteq Kept'
    BY DEF FinishOK
  <2>1. /\ InState(n, {"wait_repl"}) /\ new.confirmed = jobs[n].confirmed
        /\ jobs[n].delivered \subseteq new.delivered
    BY DEF FinishOK
  <2>2. n = origin /\ client = "blocked" /\ client' = client
    BY <1>5, <2>1 DEF IInv, WaitReplHasClient
  <2>3. Live' => Live
    BY <1>3, <2>2 DEF FinishOK, HistoryGrows, Live, Over
  <2>4. Live' => Kept \subseteq Kept'
    BY <1>3, <1>6, <2>2 DEF FinishOK, HistoryGrows, Live, Kept, Holders, Has, IInv, TypeOK
  <2> QED
    BY <2>1, <2>2, <2>3, <2>4 DEF IInv
<1>9. Live' /\ Has(n) /\ jobs[n].body => new # NoJob /\ new.body
  BY <1>3, <1>5 DEF FinishOK, Live
<1>10. StepOK(n, new, all)
  <2> HIDE DEF all
  <2> QED
    BY <1>3, <1>4, <1>5, <1>7, <1>8, <1>9 DEF StepOK, FinishOK
<1> HIDE DEF all
<1> QED
  BY <1>2, <1>10, StepPreserves

\* The same for a handler that writes no message.
LEMMA FinishSilently ==
    ASSUME IInv, NEW n \in Nodes, NEW new \in Job \cup {NoJob}, NEW in,
           Finish(n, new, in, {}), FinishOK(n, new, {})
    PROVE  IInv'
<1>1. {} \in SUBSET Messages
  OBVIOUS
<1> QED
  BY <1>1, FinishStep

\* A step that changes no copy and sends nothing: a message is read or lost, or
\* only the history grows.
LEMMA QuietStep ==
    ASSUME IInv, HistoryGrows, UNCHANGED <<jobs, client, origin, opts>>,
           IsABag(net'), DOMAIN net' \subseteq DOMAIN net
    PROVE  IInv'
<1>1. origin \in Nodes /\ jobs[origin] \in Job \cup {NoJob}
  BY DEF IInv, TypeOK
<1>2. jobs' = [jobs EXCEPT ![origin] = jobs[origin]]
  BY DEF IInv, TypeOK
<1>3. (Live' => Live) /\ Kept \subseteq Kept'
  BY DEF HistoryGrows, Live, Over, Kept, Holders, Has
<1>4. jobs[origin] # NoJob =>
         /\ jobs[origin].state = "acked" \/ ~jobs[origin].body => acked'
         /\ jobs[origin].state = "wait_repl" =>
              /\ origin = origin /\ client' = "blocked"
              /\ origin \in jobs[origin].confirmed => origin \in jobs[origin].delivered
              /\ Live' => jobs[origin].confirmed \subseteq Kept'
  BY <1>1, <1>3 DEF IInv, NoPhantomAck, WaitReplHasClient, InState, Has, HistoryGrows
<1>5. /\ client' \in ClientStates
      /\ client' = "blocked" => jobs[origin] # NoJob
      /\ Has(origin) /\ jobs[origin].body => jobs[origin] # NoJob /\ jobs[origin].body
  BY DEF IInv, TypeOK, Has
<1>6. StepOK(origin, jobs[origin], {})
  BY <1>2, <1>4, <1>5 DEF StepOK
<1> QED
  BY <1>1, <1>6, StepPreserves

LEMMA SameHistory == ASSUME IInv, UNCHANGED history PROVE HistoryGrows
BY DEF history, HistoryGrows, IInv, TypeOK

LEMMA IgnoreStep ==
    ASSUME IInv, NEW m \in DOMAIN net, Ignore(m), UNCHANGED history
    PROVE  IInv'
<1>1. IsABag(net') /\ DOMAIN net' \subseteq DOMAIN net
  BY DeliverFacts DEF Ignore, Transmit, IInv, TypeOK
<1> QED
  BY <1>1, SameHistory, QuietStep DEF Ignore

\* A node that dies takes its copy, its messages and its clients along.
LEMMA RestartStep ==
    ASSUME IInv, NEW n \in Nodes, Restart(n), aborted' \subseteq crashed'
    PROVE  IInv'
<1>1. IsABag(net') /\ DOMAIN net' \subseteq DOMAIN net \cup {}
  BY DEF Restart, IInv, TypeOK, IsABag
<1>2. HistoryGrows /\ n \in crashed'
  BY DEF Restart, HistoryGrows, IInv, TypeOK
<1>3. /\ client' \in ClientStates
      /\ client = "failed" => client' = "failed"
      /\ client' = "blocked" => n # origin /\ client = "blocked"
      /\ client = "blocked" /\ client' # "blocked" => n = origin
      /\ client' = "ok" => client = "ok"
  BY DEF Restart, ClientStates, IInv, TypeOK
<1>4. StepOK(n, NoJob, {})
  BY <1>1, <1>2, <1>3 DEF StepOK, Restart
<1> QED
  BY <1>4, StepPreserves

\* A message in flight is one of those clusterProcessPacket() knows.
LEMMA MessageFacts ==
    ASSUME IInv, NEW m \in DOMAIN net
    PROVE  /\ m.src \in Nodes /\ m.dst \in Nodes
           /\ m.type \in IDTypes => m.aux \in Nat
           /\ m.type \in {"REPLJOB", "YOURJOBS"} =>
                /\ m.delivered \subseteq Nodes /\ m.flags \subseteq WireFlags
BY DEF IInv, TypeOK, Messages, IDMessages, JobMessages, IDTypes

LEMMA CopyFacts ==
    ASSUME IInv, NEW n \in Nodes
    PROVE  /\ jobs[n] \in Job \cup {NoJob}
           /\ Has(n) => jobs[n] \in Job
           /\ opts.retry \in BOOLEAN /\ opts.delay \in BOOLEAN
           /\ opts.async \in BOOLEAN /\ opts.repl \in Nat \ {0}
BY OptionsAssumption DEF IInv, TypeOK, Has, ADDJOBOptions

-----------------------------------------------------------------------------
(* Commands about the job *)

LEMMA GetJobStep == ASSUME IInv, NEW n \in Nodes, GetJob(n) PROVE IInv'
<1> DEFINE new == FetchJob(jobs[n])
<1>1. jobs[n] \in Job /\ jobs[n] # NoJob /\ jobs[n].state = "queued"
  BY CopyFacts DEF GetJob, InState, Has
<1>2. new \in Job /\ new.state = "active" /\ new.body = jobs[n].body
  BY <1>1 DEF FetchJob, Job, States, Flags
<1>3. Finish(n, new, {}, {}) /\ HistoryGrows
  <2>1. /\ Finish(n, new, {}, {}) /\ deliveries' = deliveries + 1
        /\ UNCHANGED <<acked, deleted, expired, crashed, aborted>>
    BY DEF GetJob
  <2>2. /\ acked \in BOOLEAN /\ deleted \in BOOLEAN /\ expired \in BOOLEAN
        /\ deliveries \in Nat /\ crashed \subseteq Nodes /\ aborted \subseteq crashed
    BY DEF IInv, TypeOK
  <2> HIDE DEF new
  <2> QED
    BY <2>1, <2>2 DEF HistoryGrows
<1>4. ~new.body => acked'
  BY <1>1, <1>2 DEF GetJob, IInv, Has
<1> HIDE DEF new
<1>5. FinishOK(n, new, {})
  BY <1>2, <1>3, <1>4, NoJobAssumption DEF FinishOK
<1> QED
  BY <1>2, <1>3, <1>5, FinishStep

LEMMA FastAckStep == ASSUME IInv, NEW n \in Nodes, FastAck(n) PROVE IInv'
<1>1. PICK out \in SUBSET Messages :
        /\ \A m \in out : m.type = "DELJOB"
        /\ Finish(n, NoJob, {}, out)
  <2>1. CASE Has(n)
    BY <2>1, CopyFacts, DelJobFacts DEF FastAck
  <2>2. CASE ~Has(n)
    BY <2>2, BroadcastFacts DEF FastAck, IDTypes
  <2> QED BY <2>1, <2>2
<1>2. HistoryGrows /\ Over'
  BY DEF FastAck, HistoryGrows, Over, IInv, TypeOK
<1>3. FinishOK(n, NoJob, out)
  BY <1>1, <1>2 DEF FinishOK
<1> QED
  BY <1>1, <1>3, FinishStep

LEMMA EnqueueCommandStep ==
    ASSUME IInv, NEW n \in Nodes, EnqueueCommand(n) PROVE IInv'
<1>1. PICK nack \in BOOLEAN :
        /\ InState(n, {"active"})
        /\ LET r == EnqueueJob(n, jobs[n], opts.retry, nack)
           IN  Finish(n, r.job, {}, r.out)
  BY DEF EnqueueCommand
<1> DEFINE r == EnqueueJob(n, jobs[n], opts.retry, nack)
<1>2. jobs[n] \in Job /\ Has(n) /\ jobs[n].state = "active"
  BY <1>1, CopyFacts DEF InState
<1>3. Enqueued(r, jobs[n])
  BY <1>2, CopyFacts, EnqueueJobFacts
<1>4. Finish(n, r.job, {}, r.out) /\ HistoryGrows /\ acked' = acked
  BY <1>1, SameHistory DEF EnqueueCommand, history
<1> HIDE DEF r
<1>5. FinishOK(n, r.job, r.out)
  BY <1>2, <1>3, <1>4, NoJobAssumption DEF FinishOK, IInv, Enqueued
<1> QED
  BY <1>3, <1>4, <1>5, FinishStep DEF Enqueued

LEMMA DequeueCommandStep ==
    ASSUME IInv, NEW n \in Nodes, DequeueCommand(n) PROVE IInv'
<1> DEFINE new == DequeueJob(jobs[n])
<1>1. jobs[n] \in Job /\ Has(n) /\ jobs[n].state = "queued"
  BY CopyFacts DEF DequeueCommand, InState
<1>2. new \in Job /\ new.state = "active" /\ new.body = jobs[n].body
  BY <1>1 DEF DequeueJob, Job, States
<1>3. Finish(n, new, {}, {}) /\ HistoryGrows /\ acked' = acked
  BY SameHistory DEF DequeueCommand, history
<1> HIDE DEF new
<1>4. FinishOK(n, new, {})
  BY <1>1, <1>2, <1>3, NoJobAssumption DEF FinishOK, IInv
<1> QED
  BY <1>2, <1>3, <1>4, FinishStep

LEMMA DelJobCommandStep ==
    ASSUME IInv, NEW n \in Nodes, DelJobCommand(n) PROVE IInv'
<1>1. Finish(n, NoJob, {}, {}) /\ HistoryGrows /\ Over'
  BY DEF DelJobCommand, HistoryGrows, Over, IInv, TypeOK
<1>2. FinishOK(n, NoJob, {})
  BY <1>1 DEF FinishOK
<1> QED
  BY <1>1, <1>2, FinishStep

LEMMA WorkingCommandStep ==
    ASSUME IInv, NEW n \in Nodes, WorkingCommand(n) PROVE IInv'
<1> DEFINE j == DequeueJob(jobs[n])
           new == [j EXCEPT !.flags = @ \cup {"BCAST_WILLQUEUE"}]
           out == BroadcastJobIDMessage("WORKING", n, j.delivered, 0)
<1>1. jobs[n] \in Job /\ Has(n)
  BY CopyFacts DEF WorkingCommand
<1>2. /\ new \in Job /\ new.body = jobs[n].body
      /\ new.state \in {"acked", "wait_repl"} => new.state = jobs[n].state
      /\ new.delivered = jobs[n].delivered /\ new.confirmed = jobs[n].confirmed
  BY <1>1 DEF DequeueJob, Job, States, Flags, WireFlags
<1>3. out \subseteq Messages /\ \A m \in out : m.type = "WORKING"
  BY <1>1, BroadcastFacts DEF DequeueJob, Job, IDTypes
<1>4. Finish(n, new, {}, out) /\ HistoryGrows /\ acked' = acked
  BY SameHistory DEF WorkingCommand, history
<1> HIDE DEF new, out
<1>5. FinishOK(n, new, out)
  BY <1>1, <1>2, <1>3, <1>4, NoJobAssumption
     DEF FinishOK, IInv, NoPhantomAck, InState
<1> QED
  BY <1>2, <1>3, <1>4, <1>5, FinishStep

LEMMA AcknowledgeFacts ==
    ASSUME NEW j \in Job
    PROVE  /\ AcknowledgeJob(j) \in Job /\ AcknowledgeJob(j).state = "acked"
           /\ AcknowledgeJob(j).body = j.body
BY DEF AcknowledgeJob, Job, States

LEMMA AckJobStep == ASSUME IInv, NEW n \in Nodes, AckJob(n) PROVE IInv'
<1>1. HistoryGrows /\ acked' /\ Over' /\ ~Live'
  BY DEF AckJob, HistoryGrows, Over, Live, IInv, TypeOK
<1>2. CASE UNCHANGED <<jobs, net, client, origin, opts>>
  BY <1>1, <1>2, QuietStep DEF IInv, TypeOK
<1>3. CASE ~UNCHANGED <<jobs, net, client, origin, opts>>
  <2> DEFINE j == IF Has(n) THEN AcknowledgeJob(jobs[n]) ELSE NewAck
             r == TryJobGC(n, j)
  <2>1. j \in Job /\ j.state = "acked"
    BY CopyFacts, AcknowledgeFacts DEF NewAck, Job, States
  <2>2. /\ r.job \in Job \cup {NoJob} /\ (r.job # NoJob => r.job.state = "acked")
        /\ r.out \subseteq Messages /\ \A m \in r.out : m.type = "SETACK"
    <3> HIDE DEF j
    <3> QED BY <2>1, TryJobGCFacts
  <2>3. /\ Store(n, r.job) /\ Transmit({}, r.out)
        /\ client' = IF r.job = NoJob /\ n = origin /\ client = "blocked"
                     THEN "dangling" ELSE client
        /\ UNCHANGED <<origin, opts>>
    BY <1>3 DEF AckJob
  <2> HIDE DEF r
  <2>4. IsABag(net') /\ DOMAIN net' \subseteq DOMAIN net \cup r.out
    BY <2>3, DeliverFacts DEF Transmit, IInv, TypeOK
  <2>5. StepOK(n, r.job, r.out)
    BY <1>1, <2>2, <2>3, <2>4 DEF StepOK, Store, ClientStates, IInv, TypeOK
  <2> QED
    BY <2>2, <2>5, StepPreserves
<1> QED BY <1>2, <1>3

-----------------------------------------------------------------------------
(* Timers *)

LEMMA ExpireJobStep == ASSUME IInv, NEW n \in Nodes, ExpireJob(n) PROVE IInv'
<1>1. Finish(n, NoJob, {}, {}) /\ HistoryGrows /\ Over'
  BY SameHistory DEF ExpireJob, Over, history
<1>2. FinishOK(n, NoJob, {})
  BY <1>1 DEF FinishOK
<1> QED
  BY <1>1, <1>2, FinishStep

LEMMA EvictJobStep == ASSUME IInv, NEW n \in Nodes, EvictJob(n) PROVE IInv'
<1>1. Finish(n, NoJob, {}, {}) /\ HistoryGrows /\ (opts.retry => Over')
  BY SameHistory DEF EvictJob, Over, history, IInv, NoPhantomAck
<1>2. FinishOK(n, NoJob, {})
  BY <1>1 DEF FinishOK
<1> QED
  BY <1>1, <1>2, FinishStep

LEMMA GCJobStep == ASSUME IInv, NEW n \in Nodes, GCJob(n) PROVE IInv'
<1> DEFINE r == TryJobGC(n, jobs[n])
<1>1. jobs[n] \in Job /\ jobs[n].state = "acked" /\ acked
  BY CopyFacts DEF GCJob, InState, IInv, NoPhantomAck
<1>2. /\ r.job \in Job \cup {NoJob} /\ (r.job # NoJob => r.job.state = "acked")
      /\ r.out \subseteq Messages /\ \A m \in r.out : m.type = "SETACK"
  BY <1>1, TryJobGCFacts
<1>3. CASE Finish(n, r.job, {}, r.out) /\ UNCHANGED history
  <2> HIDE DEF r
  <2>1. HistoryGrows /\ acked' /\ Over'
    BY <1>1, <1>3, SameHistory DEF history, Over
  <2>2. FinishOK(n, r.job, r.out)
    BY <1>2, <2>1 DEF FinishOK
  <2> QED
    BY <1>2, <1>3, <2>2, FinishStep
<1>4. CASE Abort(n)
  BY <1>4, RestartStep DEF Abort, Restart, IInv, TypeOK
<1> QED BY <1>3, <1>4 DEF GCJob

LEMMA ProcessJobStep == ASSUME IInv, NEW n \in Nodes, ProcessJob(n) PROVE IInv'
<1> DEFINE j == jobs[n]
           told == [j EXCEPT !.flags = @ \ {"BCAST_WILLQUEUE"}]
           again == [told EXCEPT !.flags = @ \cup RetryFlag(opts.retry)]
           queue == EnqueueJob(n, told, opts.retry, FALSE)
           all == BroadcastJobIDMessage("WILLQUEUE", n, j.delivered, 0)
<1>1. j \in Job /\ Has(n) /\ j.state \in {"active", "queued"}
  BY CopyFacts DEF ProcessJob, InState
<1>2. told \in Job /\ told.state = j.state /\ told.body = j.body
  BY <1>1 DEF Job
<1>3. again \in Job /\ again.state = j.state /\ again.body = j.body
  BY <1>1 DEF Job, RetryFlag, Flags, WireFlags
<1>4. /\ queue.job \in Job /\ queue.job.state \in {j.state, "queued"}
      /\ queue.job.body = j.body /\ queue.out \subseteq Messages
      /\ \A m \in queue.out : m.type = "QUEUED"
  <2>1. Enqueued(queue, told)
    <3>1. opts.retry \in BOOLEAN
      BY CopyFacts
    <3> HIDE DEF told
    <3> QED BY <1>2, <3>1, EnqueueJobFacts
  <2> HIDE DEF told, queue
  <2> QED BY <1>2, <2>1 DEF Enqueued
<1>5. all \subseteq Messages /\ \A m \in all : m.type = "WILLQUEUE"
  BY <1>1, BroadcastFacts DEF Job, IDTypes
<1>6. \E new \in {told, again, queue.job} :
        \E out \in {{}, all, queue.out, all \cup queue.out} :
          Finish(n, new, {}, out)
  BY DEF ProcessJob
<1> HIDE DEF told, again, queue, all
<1>7. PICK new \in Job, out \in SUBSET Messages :
        /\ Finish(n, new, {}, out) /\ new.body = j.body
        /\ new.state \in {"active", "queued"}
        /\ \A m \in out : m.type \in {"WILLQUEUE", "QUEUED"}
  BY <1>1, <1>2, <1>3, <1>4, <1>5, <1>6
<1>8. HistoryGrows /\ acked' = acked
  BY SameHistory DEF ProcessJob, history
<1>9. FinishOK(n, new, out)
  BY <1>1, <1>7, <1>8, NoJobAssumption DEF FinishOK, IInv
<1> QED
  BY <1>7, <1>9, FinishStep

-----------------------------------------------------------------------------
(* ADDJOB and its replication *)

\* The job on its way to nodes other than n.
ReplicasFor(n) == {m \in Messages : m.type = "REPLJOB" /\ m.dst # n}

\* What replicateJobInCluster() leaves: the copy with the new nodes among the
\* ones it was sent to, and REPLJOB messages to other nodes.
Replicated(r, n, j, T) ==
    /\ r.job \in Job /\ r.job.state = j.state /\ r.job.body = j.body
    /\ r.job.delivered = j.delivered \cup T
    /\ r.job.confirmed = j.confirmed
    /\ r.out \subseteq ReplicasFor(n)

\* clusterReplicateJob() only adds to the nodes that may have the job, and sends
\* it to other nodes.
LEMMA ReplicateJobFacts ==
    ASSUME NEW n \in Nodes, NEW j \in Job, NEW T \in SUBSET Nodes, NEW noreply
    PROVE  LET r == ReplicateJob(n, j, T, noreply)
           IN  /\ r.job \in Job /\ r.job.state = j.state /\ r.job.body = j.body
               /\ r.job.delivered = j.delivered \cup T
               /\ r.job.confirmed = j.confirmed
               /\ r.out \subseteq ReplicasFor(n)
<1> DEFINE all == [j EXCEPT !.delivered = @ \cup T]
           dsts == {x \in all.delivered \ {n} : ~(x \in j.confirmed /\ T = {})}
           out == {SerializeJob("REPLJOB", n, d, all, noreply \/ d \in j.confirmed) :
                     d \in dsts}
<1>1. /\ all \in Job /\ all.state = j.state /\ all.body = j.body
      /\ all.delivered = j.delivered \cup T /\ all.confirmed = j.confirmed
      /\ all.flags = j.flags
  BY DEF Job
<1>2. dsts \subseteq Nodes \ {n}
  BY <1>1 DEF Job
<1>3. ReplicateJob(n, j, T, noreply) = [job |-> all, out |-> out]
  BY DEF ReplicateJob
<1> HIDE DEF all, dsts
<1>4. \A d \in dsts :
        LET m == SerializeJob("REPLJOB", n, d, all, noreply \/ d \in j.confirmed)
        IN  m \in Messages /\ m.type = "REPLJOB" /\ m.dst # n
  BY <1>1, <1>2 DEF SerializeJob, Messages, JobMessages, Job, Flags
<1>5. out \subseteq ReplicasFor(n)
  BY <1>4 DEF ReplicasFor
<1> HIDE DEF out
<1> QED
  BY <1>1, <1>3, <1>5, SMTT(30)

LEMMA ReplicatedJob ==
    ASSUME NEW n \in Nodes, NEW j \in Job, NEW T \in SUBSET Nodes, NEW noreply
    PROVE  Replicated(ReplicateJob(n, j, T, noreply), n, j, T)
BY ReplicateJobFacts DEF Replicated

LEMMA NewJobFacts ==
    ASSUME NEW n \in Nodes, NEW extrepl \in BOOLEAN
    PROVE  /\ NewJob(n, extrepl) \in Job
           /\ NewJob(n, extrepl).body
           /\ NewJob(n, extrepl).confirmed = {}
           /\ CanEnqueue(NewJob(n, extrepl), opts.retry)
BY DEF NewJob, Job, States, Flags, CanEnqueue

LEMMA AddJobSyncStep == ASSUME IInv, NEW n \in Nodes, AddJobSync(n) PROVE IInv'
<1>1. PICK extrepl \in BOOLEAN, T \in SUBSET Nodes :
        LET new == [NewJob(n, extrepl) EXCEPT
                      !.confirmed = IF extrepl THEN {} ELSE {n}]
            r == ReplicateJob(n, new, T, FALSE)
        IN  Store(n, r.job) /\ Transmit({}, r.out)
  BY DEF AddJobSync, NewNodes, Holds
<1>2. /\ n = origin /\ client = "idle" /\ client' = "blocked"
      /\ UNCHANGED <<origin, opts, history>>
  BY DEF AddJobSync, AcceptsJob
<1> DEFINE new == [NewJob(n, extrepl) EXCEPT
                     !.confirmed = IF extrepl THEN {} ELSE {n}]
           noreply == FALSE
           r == ReplicateJob(n, new, T, noreply)
<1>3. /\ new \in Job /\ new.body /\ new.state = "wait_repl"
      /\ new.confirmed \subseteq {n} /\ new.confirmed \subseteq new.delivered
  BY DEF NewJob, Job, States, Flags
<1>4. /\ r.job \in Job /\ r.job.body /\ r.job.state = "wait_repl"
      /\ r.job.confirmed \subseteq {n} /\ r.job.confirmed \subseteq r.job.delivered
      /\ r.out \subseteq Messages
      /\ \A m \in r.out : m.type = "REPLJOB" /\ m.dst # n
  <2> HIDE DEF new, noreply
  <2>1. /\ r.job \in Job /\ r.job.state = new.state /\ r.job.body = new.body
        /\ r.job.delivered = new.delivered \cup T
        /\ r.job.confirmed = new.confirmed
        /\ r.out \subseteq ReplicasFor(n)
    BY <1>3, ReplicateJobFacts
  <2> HIDE DEF r
  <2> QED BY <1>3, <2>1 DEF ReplicasFor
<1>5. Store(n, r.job) /\ Transmit({}, r.out)
  BY <1>1
<1> HIDE DEF r
<1>6. IsABag(net') /\ DOMAIN net' \subseteq DOMAIN net \cup r.out
  BY <1>5, DeliverFacts DEF Transmit, IInv, TypeOK
<1>7. n \in Kept'
  BY <1>4, <1>5, NoJobAssumption DEF Store, Kept, Holders, Has, IInv, TypeOK
<1>8. StepOK(n, r.job, r.out)
  BY <1>2, <1>4, <1>5, <1>6, <1>7, SameHistory, NoJobAssumption
     DEF StepOK, Store, ClientStates
<1> QED
  BY <1>4, <1>8, StepPreserves

LEMMA AddJobLocalStep == ASSUME IInv, NEW n \in Nodes, AddJobLocal(n) PROVE IInv'
<1> DEFINE new == NewJob(n, FALSE)
           queue == EnqueueJob(n, new, opts.retry, FALSE)
           q == IF opts.delay THEN [job |-> [new EXCEPT !.state = "active"], out |-> {}]
                ELSE queue
           noreply == TRUE
<1>1. PICK T \in SUBSET Nodes :
        LET r == ReplicateJob(n, q.job, T, noreply)
        IN  Store(n, r.job) /\ Transmit({}, q.out \cup r.out)
  BY DEF AddJobLocal, NewNodes
<1>2. /\ n = origin /\ client = "idle" /\ client' = "ok"
      /\ (opts.repl = 1 \/ opts.async) /\ UNCHANGED <<origin, opts, history>>
  BY DEF AddJobLocal, AcceptsJob
<1>3. new \in Job /\ new.body = TRUE /\ CanEnqueue(new, opts.retry)
  BY DEF NewJob, Job, States, Flags, CanEnqueue
<1>4. /\ q.job \in Job /\ q.job.state \in {"active", "queued"} /\ q.job.body = TRUE
      /\ q.out \subseteq Messages /\ \A m \in q.out : m.type = "QUEUED"
  <2>1. opts.retry \in BOOLEAN
    BY CopyFacts
  <2> HIDE DEF new
  <2>2. CASE opts.delay
    BY <1>3, <2>2 DEF Job, States
  <2>3. CASE ~opts.delay
    <3>1. Enqueued(queue, new)
      BY <1>3, <2>1, EnqueueJobFacts
    <3>2. queue.job.state = "queued"
      BY <1>3 DEF EnqueueJob, Job
    <3> HIDE DEF queue
    <3> QED BY <1>3, <2>3, <3>1, <3>2 DEF Enqueued
  <2> QED BY <2>2, <2>3
<1> HIDE DEF q, noreply
<1> DEFINE r == ReplicateJob(n, q.job, T, noreply)
           out == q.out \cup r.out
<1>5. /\ r.job \in Job /\ r.job.state = q.job.state /\ r.job.body = q.job.body
      /\ r.out \subseteq ReplicasFor(n)
  BY <1>4, ReplicateJobFacts
<1>6. Store(n, r.job) /\ Transmit({}, out)
  BY <1>1
<1> HIDE DEF r
<1>7. /\ out \subseteq Messages
      /\ \A m \in out : m.type = "QUEUED" \/ (m.type = "REPLJOB" /\ m.dst # n)
  BY <1>4, <1>5 DEF ReplicasFor
<1> HIDE DEF out
<1>8. IsABag(net') /\ DOMAIN net' \subseteq DOMAIN net \cup out
  BY <1>6, DeliverFacts DEF Transmit, IInv, TypeOK
<1>9. ~opts.async => Cardinality(Kept') >= opts.repl
  <2>1. {n} \subseteq Kept' /\ Kept' \in SUBSET Nodes
    BY <1>2, <1>4, <1>5, <1>6, NoJobAssumption
       DEF Store, Kept, Holders, Has, IInv, TypeOK, history
  <2>2. Cardinality({n}) = 1 /\ Cardinality({n}) <= Cardinality(Kept')
    BY <2>1, CardinalityNat, FS_Subset, FS_Singleton
  <2> QED
    BY <1>2, <2>1, <2>2, CardinalityNat
<1>10. StepOK(n, r.job, out)
  BY <1>2, <1>4, <1>5, <1>6, <1>7, <1>8, <1>9, SameHistory, NoJobAssumption
     DEF StepOK, Store, ClientStates
<1> QED
  BY <1>5, <1>7, <1>10, StepPreserves

\* A step of the node of the ADDJOB client that leaves its copy as it is, while
\* the copy is not waiting for replicas.
LEMMA SendStep ==
    ASSUME IInv, NEW out \in SUBSET Messages, UNCHANGED <<jobs, origin, opts, history>>,
           ~InState(origin, {"wait_repl"}), client # "failed",
           client' \in {"ok", "failed"}, client' = "ok" => opts.async,
           IsABag(net'), DOMAIN net' \subseteq DOMAIN net \cup out,
           \A m \in out : \/ m.type = "ENQUEUE"
                          \/ m.type = "REPLJOB" /\ m.dst # origin
    PROVE  IInv'
<1>1. origin \in Nodes /\ jobs[origin] \in Job \cup {NoJob} /\ HistoryGrows
  BY SameHistory DEF IInv, TypeOK
<1>2. jobs' = [jobs EXCEPT ![origin] = jobs[origin]]
  BY DEF IInv, TypeOK
<1>3. jobs[origin] # NoJob =>
         /\ jobs[origin].state = "acked" \/ ~jobs[origin].body => acked'
         /\ jobs[origin].state # "wait_repl"
  BY <1>1 DEF IInv, NoPhantomAck, InState, Has, HistoryGrows
<1>4. StepOK(origin, jobs[origin], out)
  BY <1>1, <1>2, <1>3 DEF StepOK, ClientStates, Has
<1> QED
  BY <1>1, <1>4, StepPreserves

LEMMA AddJobExternalStep ==
    ASSUME IInv, NEW n \in Nodes, AddJobExternal(n) PROVE IInv'
<1> DEFINE j == NewJob(n, TRUE)
           noreply == TRUE
<1>1. PICK T \in SUBSET Nodes, e \in Nodes :
        LET r == ReplicateJob(n, j, T, noreply)
        IN  Transmit({}, r.out \cup SendJobIDMessage("ENQUEUE", n, e,
                                      IF opts.delay THEN 1 ELSE 0))
  BY DEF AddJobExternal, NewNodes
<1>2. /\ n = origin /\ client = "idle" /\ client' = "ok" /\ opts.async
      /\ UNCHANGED <<jobs, origin, opts, history>>
  BY DEF AddJobExternal, AcceptsJob
<1> DEFINE r == ReplicateJob(n, j, T, noreply)
           enqueue == SendJobIDMessage("ENQUEUE", n, e, IF opts.delay THEN 1 ELSE 0)
           out == r.out \cup enqueue
<1>3. r.out \subseteq ReplicasFor(n)
  <2>1. j \in Job
    BY DEF NewJob, Job, States, Flags
  <2> HIDE DEF j, noreply
  <2> QED BY <2>1, ReplicateJobFacts
<1>4. enqueue \subseteq Messages /\ \A m \in enqueue : m.type = "ENQUEUE"
  BY SendFacts DEF IDTypes
<1>5. Transmit({}, out)
  BY <1>1
<1> HIDE DEF r, enqueue
<1>6. /\ out \subseteq Messages
      /\ \A m \in out : m.type = "ENQUEUE" \/ (m.type = "REPLJOB" /\ m.dst # n)
  BY <1>3, <1>4 DEF ReplicasFor
<1> HIDE DEF out
<1>7. IsABag(net') /\ DOMAIN net' \subseteq DOMAIN net \cup out
  BY <1>5, DeliverFacts DEF Transmit, IInv, TypeOK
<1>8. ~InState(origin, {"wait_repl"})
  BY <1>2 DEF IInv, WaitReplHasClient, TypeOK
<1> QED
  BY <1>2, <1>6, <1>7, <1>8, SendStep

LEMMA DelayedJobReplicationStep ==
    ASSUME IInv, DelayedJobReplication PROVE IInv'
<1> DEFINE j == jobs[origin]
           noreply == FALSE
<1>1. PICK T \in SUBSET Nodes :
        LET r == ReplicateJob(origin, j, T, noreply)
        IN  Store(origin, r.job) /\ Transmit({}, r.out)
  BY DEF DelayedJobReplication, NewNodes
<1>2. /\ client = "blocked" /\ UNCHANGED <<client, origin, opts, history>>
      /\ origin \in Nodes /\ Has(origin) /\ HistoryGrows
  BY SameHistory DEF DelayedJobReplication, IInv, TypeOK
<1>3. j \in Job
  BY <1>2, CopyFacts
<1> DEFINE r == ReplicateJob(origin, j, T, noreply)
<1> HIDE DEF noreply
<1>4. /\ r.job \in Job /\ r.job.state = j.state /\ r.job.body = j.body
      /\ r.job.delivered = j.delivered \cup T /\ r.job.confirmed = j.confirmed
      /\ r.out \subseteq ReplicasFor(origin)
  <2>1. origin \in Nodes /\ j \in Job /\ T \in SUBSET Nodes
    BY <1>2, <1>3
  <2> HIDE DEF j
  <2>2. Replicated(r, origin, j, T)
    BY ONLY <2>1, ReplicatedJob
  <2> HIDE DEF r
  <2> QED
    BY <2>2 DEF Replicated
<1>5. Store(origin, r.job) /\ Transmit({}, r.out)
  BY <1>1
<1> HIDE DEF r
<1>6. /\ r.out \subseteq Messages
      /\ \A m \in r.out : m.type = "REPLJOB" /\ m.dst # origin
  BY <1>4 DEF ReplicasFor
<1>7. IsABag(net') /\ DOMAIN net' \subseteq DOMAIN net \cup r.out
  BY <1>5, DeliverFacts DEF Transmit, IInv, TypeOK
<1>8. jobs' = [jobs EXCEPT ![origin] = r.job] /\ jobs'[origin] = r.job
  BY <1>2, <1>5 DEF Store, IInv, TypeOK
<1>9. (Live' => Live) /\ Kept \subseteq Kept'
  BY <1>2, <1>4, <1>8, NoJobAssumption
     DEF HistoryGrows, Live, Over, Kept, Holders, Has, IInv, TypeOK
<1>10. /\ r.job.state = "acked" \/ ~r.job.body => acked'
       /\ r.job.state = "wait_repl" =>
            /\ origin \in r.job.confirmed => origin \in r.job.delivered
            /\ Live' => r.job.confirmed \subseteq Kept'
  BY <1>2, <1>4, <1>9 DEF IInv, NoPhantomAck, InState, HistoryGrows
<1>11. r.job # NoJob /\ (Has(origin) /\ jobs[origin].body => r.job.body)
  BY <1>4, NoJobAssumption
<1>12. StepOK(origin, r.job, r.out)
  BY <1>2, <1>6, <1>7, <1>8, <1>10, <1>11 DEF StepOK, ClientStates
<1> QED
  BY <1>2, <1>4, <1>6, <1>12, StepPreserves

LEMMA UnblockClientStep == ASSUME IInv, UnblockClient PROVE IInv'
<1>1. /\ client = "blocked" /\ client' = "failed" /\ ~Live' /\ HistoryGrows
      /\ origin \in Nodes /\ UNCHANGED <<origin, opts, history>>
  BY SameHistory DEF UnblockClient, Live, IInv, TypeOK
<1>2. CASE ~InState(origin, {"wait_repl"})
  <2>1. jobs' = jobs /\ net' = net
    BY <1>2 DEF UnblockClient
  <2> DEFINE out == {}
  <2>2. /\ out \subseteq Messages /\ IsABag(net')
        /\ DOMAIN net' \subseteq DOMAIN net \cup out /\ \A m \in out : FALSE
    BY <2>1 DEF IInv, TypeOK
  <2> HIDE DEF out
  <2> QED
    BY <1>1, <1>2, <2>1, <2>2, SendStep
<1>3. CASE InState(origin, {"wait_repl"})
  <2> DEFINE out == BroadcastDelJob(origin, jobs[origin])
  <2>1. Store(origin, NoJob) /\ Transmit({}, out)
    BY <1>3 DEF UnblockClient
  <2>2. out \subseteq Messages /\ \A m \in out : m.type = "DELJOB"
    BY <1>1, <1>3, CopyFacts, DelJobFacts DEF InState
  <2> HIDE DEF out
  <2>3. IsABag(net') /\ DOMAIN net' \subseteq DOMAIN net \cup out
    BY <2>1, DeliverFacts DEF Transmit, IInv, TypeOK
  <2>4. StepOK(origin, NoJob, out)
    BY <1>1, <2>1, <2>2, <2>3 DEF StepOK, Store, ClientStates
  <2> QED
    BY <1>1, <2>2, <2>4, StepPreserves
<1> QED BY <1>2, <1>3

LEMMA UnblockDanglingStep == ASSUME IInv, UnblockDangling PROVE IInv'
<1>1. client = "dangling" /\ origin \in Nodes
  BY DEF UnblockDangling, IInv, TypeOK
<1>2. CASE Abort(origin)
  BY <1>1, <1>2, RestartStep DEF Abort, Restart, IInv, TypeOK
<1>3. CASE client' = "failed" /\ UNCHANGED <<jobs, net, origin, opts, history>>
  <2>1. ~InState(origin, {"wait_repl"})
    BY <1>1 DEF IInv, WaitReplHasClient
  <2> DEFINE out == {}
  <2>2. /\ out \subseteq Messages /\ IsABag(net')
        /\ DOMAIN net' \subseteq DOMAIN net \cup out /\ \A m \in out : FALSE
    BY <1>3 DEF IInv, TypeOK
  <2> HIDE DEF out
  <2> QED
    BY <1>1, <1>3, <2>1, <2>2, SendStep
<1> QED BY <1>2, <1>3 DEF UnblockDangling

-----------------------------------------------------------------------------
(* Messages *)

LEMMA RecvReplJobStep == ASSUME IInv, RecvReplJob PROVE IInv'
<1>1. PICK m \in Received("REPLJOB") :
        LET n == m.dst
            copy == [DeserializeJob(m, opts.retry) EXCEPT
                       !.flags = @ \cup {"BCAST_QUEUED"}]
            new == IF Has(n) THEN [jobs[n] EXCEPT !.delivered = @ \cup m.delivered]
                   ELSE copy
        IN  Ignore(m) \/ Finish(n, new, {m}, GotJob(m))
  BY DEF RecvReplJob, RefuseReplJob
<1> DEFINE n == m.dst
           old == [jobs[n] EXCEPT !.delivered = @ \cup m.delivered]
           copy == [DeserializeJob(m, opts.retry) EXCEPT
                      !.flags = @ \cup {"BCAST_QUEUED"}]
           new == IF Has(n) THEN old ELSE copy
<1>2. /\ m \in DOMAIN net /\ m.type = "REPLJOB" /\ n \in Nodes /\ n # origin
      /\ m.src \in Nodes /\ m.delivered \subseteq Nodes /\ m.flags \subseteq WireFlags
  BY MessageFacts DEF Received, IInv
<1>3. UNCHANGED history /\ HistoryGrows /\ opts.retry \in BOOLEAN
  BY SameHistory, <1>2, CopyFacts DEF RecvReplJob
<1>4. copy \in Job /\ copy.state = "active" /\ copy.body = TRUE
  BY <1>2, <1>3 DEF DeserializeJob, Job, States, Flags, WireFlags, RetryFlag
<1>5. Has(n) => /\ old \in Job /\ old.state = jobs[n].state /\ old.body = jobs[n].body
                /\ old.confirmed = jobs[n].confirmed
                /\ jobs[n].delivered \subseteq old.delivered
  BY <1>2, CopyFacts DEF Job
<1>6. /\ GotJob(m) \subseteq Messages
      /\ \A x \in GotJob(m) : x.type = "GOTJOB" /\ x.src = n
  <2>1. n \in Nodes /\ m.src \in Nodes /\ "GOTJOB" \in IDTypes /\ 0 \in Nat
    BY <1>2 DEF IDTypes
  <2>2. LET s == SendJobIDMessage("GOTJOB", n, m.src, 0)
        IN  s \subseteq Messages /\ \A x \in s : x.type = "GOTJOB" /\ x.src = n
    BY <2>1, SendFacts
  <2> QED
    BY <2>2 DEF GotJob
<1>7. CASE Ignore(m)
  BY <1>2, <1>3, <1>7, IgnoreStep
<1>8. CASE Finish(n, new, {m}, GotJob(m))
  <2> HIDE DEF old, copy
  <2>1. new \in Job
    BY <1>4, <1>5
  <2>2. FinishOK(n, new, GotJob(m))
    BY <1>2, <1>3, <1>4, <1>5, <1>6, <2>1, NoJobAssumption
       DEF FinishOK, IInv, NoPhantomAck, InState, history
  <2> HIDE DEF new
  <2> QED
    BY <1>2, <1>6, <1>8, <2>1, <2>2, FinishStep
<1> QED BY <1>1, <1>7, <1>8

\* jobReplicationAchieved() ends the wait: the copy is released when it was not
\* to be kept here, else it is active or queued.
LEMMA ReplicationAchievedFacts ==
    ASSUME NEW n \in Nodes, NEW j \in Job, NEW e \in Nodes, opts.retry \in BOOLEAN
    PROVE  LET r == ReplicationAchieved(n, j, e)
           IN  /\ r.job \in Job \cup {NoJob}
               /\ r.job = NoJob => n \notin j.delivered
               /\ r.job # NoJob => /\ r.job.state \in {"active", "queued"}
                                   /\ r.job.body = j.body
               /\ r.out \subseteq Messages
               /\ \A m \in r.out : m.type \in {"QUEUED", "ENQUEUE"}
<1> DEFINE active == [j EXCEPT !.state = "active", !.confirmed = {}]
           aux == IF opts.delay THEN 1 ELSE 0
           queue == EnqueueJob(n, active, opts.retry, FALSE)
           r == ReplicationAchieved(n, j, e)
<1>1. /\ SendJobIDMessage("ENQUEUE", n, e, aux) \subseteq Messages
      /\ \A m \in SendJobIDMessage("ENQUEUE", n, e, aux) : m.type = "ENQUEUE"
  BY SendFacts DEF IDTypes
<1>2. active \in Job /\ active.state = "active" /\ active.body = j.body
  BY DEF Job, States
<1>3. Enqueued(queue, active)
  <2> HIDE DEF active
  <2> QED BY <1>2, EnqueueJobFacts
<1>4. \/ /\ n \notin j.delivered
         /\ r = [job |-> NoJob, out |-> SendJobIDMessage("ENQUEUE", n, e, aux)]
      \/ r = [job |-> active, out |-> {}]
      \/ r = queue
  BY DEF ReplicationAchieved
<1> HIDE DEF active, queue, aux, r
<1>5. /\ r.job \in Job \cup {NoJob}
      /\ r.job = NoJob => n \notin j.delivered
      /\ r.job # NoJob => /\ r.job.state \in {"active", "queued"}
                          /\ r.job.body = j.body
      /\ r.out \subseteq Messages
      /\ \A m \in r.out : m.type \in {"QUEUED", "ENQUEUE"}
  BY <1>1, <1>2, <1>3, <1>4, NoJobAssumption, SMTT(30) DEF Enqueued
<1> QED BY <1>5 DEF r

LEMMA RecvGotJobStep == ASSUME IInv, RecvGotJob PROVE IInv'
<1>1. PICK m \in Received("GOTJOB") :
        LET n == m.dst
            j == [jobs[n] EXCEPT !.confirmed = @ \cup {m.src}]
        IN  \/ Ignore(m)
            \/ InState(n, {"wait_repl"}) /\ Finish(n, j, {m}, {})
            \/ /\ InState(n, {"wait_repl"})
               /\ Cardinality(j.confirmed) = opts.repl
               /\ \E e \in EnqueueTargets(n, j) :
                    LET r == ReplicationAchieved(n, j, e)
                    IN  Store(n, r.job) /\ Transmit({m}, r.out)
               /\ client' = "ok"
               /\ UNCHANGED <<origin, opts>>
  BY DEF RecvGotJob
<1>2. /\ m \in DOMAIN net /\ m.dst \in Nodes /\ m.src \in Nodes
      /\ m.src # origin /\ (Live => m.src \in Kept)
      /\ UNCHANGED history /\ HistoryGrows /\ acked' = acked
  BY MessageFacts, SameHistory DEF Received, IInv, RecvGotJob, history
<1>3. CASE Ignore(m)
  BY <1>2, <1>3, IgnoreStep
<1>4. CASE InState(m.dst, {"wait_repl"})
  <2> DEFINE j == [jobs[origin] EXCEPT !.confirmed = @ \cup {m.src}]
  <2>1. m.dst = origin /\ client = "blocked" /\ jobs[origin] \in Job /\ Has(origin)
    BY <1>2, <1>4, CopyFacts DEF IInv, WaitReplHasClient, InState
  <2>2. /\ j \in Job /\ j.state = "wait_repl" /\ j.body = jobs[origin].body
        /\ j.delivered = jobs[origin].delivered
        /\ j.confirmed = jobs[origin].confirmed \cup {m.src}
    BY <1>2, <1>4, <2>1 DEF InState, Job
  <2>3. /\ origin \in j.confirmed => origin \in j.delivered
        /\ Live => j.confirmed \subseteq Kept
    BY <1>2, <1>4, <2>1, <2>2 DEF IInv
  <2>4. j.body \/ acked'
    BY <1>2, <2>1, <2>2 DEF IInv
  <2>5. CASE Finish(origin, j, {m}, {})
    <3> HIDE DEF j
    <3>1. j # NoJob
      BY <2>2, NoJobAssumption
    <3>2. /\ jobs' = [jobs EXCEPT ![origin] = j] /\ client' = client
          /\ UNCHANGED <<origin, opts>> /\ Transmit({m}, {})
      BY <2>5, <3>1 DEF Finish, Store, ClientAfter
    <3>3. IsABag(net') /\ DOMAIN net' \subseteq DOMAIN net \cup {}
      BY <3>2, DeliverFacts DEF Transmit, IInv, TypeOK
    <3>4. (Live' => Live) /\ Kept \subseteq Kept'
      BY <1>2, <2>2, <3>1, <3>2
         DEF HistoryGrows, Live, Over, Kept, Holders, Has, IInv, TypeOK
    <3>5. StepOK(origin, j, {})
      BY <1>2, <2>1, <2>2, <2>3, <2>4, <3>1, <3>2, <3>3, <3>4 DEF StepOK, ClientStates
    <3> QED
      <4>1. /\ IInv /\ origin \in Nodes /\ j \in Job \cup {NoJob}
            /\ {} \in SUBSET Messages /\ StepOK(origin, j, {})
        BY <1>2, <2>1, <2>2, <3>5
      <4> QED
        BY ONLY <4>1, StepPreserves
  <2>6. ASSUME NEW e \in EnqueueTargets(origin, j), Cardinality(j.confirmed) = opts.repl,
               LET r == ReplicationAchieved(origin, j, e)
               IN  Store(origin, r.job) /\ Transmit({m}, r.out),
               client' = "ok", UNCHANGED <<origin, opts>>
        PROVE  IInv'
    <3> DEFINE r == ReplicationAchieved(origin, j, e)
    <3> HIDE DEF j
    <3>1. e \in Nodes /\ opts.retry \in BOOLEAN /\ origin \in Nodes
      BY <1>2, <2>1, <2>2, <2>6, CopyFacts DEF EnqueueTargets, Job
    <3>2. /\ r.job \in Job \cup {NoJob}
          /\ r.job = NoJob => origin \notin j.delivered
          /\ r.job # NoJob => /\ r.job.state \in {"active", "queued"}
                              /\ r.job.body = j.body
          /\ r.out \subseteq Messages
          /\ \A x \in r.out : x.type \in {"QUEUED", "ENQUEUE"}
      BY <2>2, <3>1, ReplicationAchievedFacts
    <3>3. Store(origin, r.job) /\ Transmit({m}, r.out)
      BY <2>6
    <3> HIDE DEF r
    <3>4. IsABag(net') /\ DOMAIN net' \subseteq DOMAIN net \cup r.out
      BY <3>3, DeliverFacts DEF Transmit, IInv, TypeOK
    <3>5. jobs' = [jobs EXCEPT ![origin] = r.job]
      BY <3>3 DEF Store
    <3>6. Live' => Live /\ j.confirmed \subseteq Kept'
      <4>1. Live' => Live
        BY <1>2, <2>1, <2>6 DEF HistoryGrows, Live, Over
      <4>2. Kept \ {origin} \subseteq Kept'
        BY <1>2, <3>5 DEF HistoryGrows, Kept, Holders, Has, IInv, TypeOK
      <4>3. r.job # NoJob => Kept \subseteq Kept'
        BY <1>2, <2>2, <3>1, <3>2, <3>5, <4>2
           DEF HistoryGrows, Kept, Holders, Has, IInv, TypeOK
      <4> QED BY <2>3, <3>2, <4>1, <4>2, <4>3
    <3>7. Live' => Cardinality(Kept') >= opts.repl
      <4>1. Kept' \in SUBSET Nodes /\ j.confirmed \in SUBSET Nodes
        BY <1>2, <2>2 DEF HistoryGrows, Kept, Holders, Job
      <4>2. j.confirmed \subseteq Kept' => Cardinality(j.confirmed) <= Cardinality(Kept')
        BY <4>1, CardinalityNat, FS_Subset
      <4> QED BY <2>6, <3>6, <4>1, <4>2, CardinalityNat
    <3>8. StepOK(origin, r.job, r.out)
      BY <1>2, <2>1, <2>2, <2>4, <2>6, <3>2, <3>4, <3>5, <3>7 DEF StepOK, ClientStates
    <3> QED
      BY <3>1, <3>2, <3>8, StepPreserves
  <2> QED
    BY <1>1, <1>3, <2>1, <2>5, <2>6
<1> QED BY <1>1, <1>3, <1>4

\* The SETACK handler keeps the copy acknowledged, or releases it.
LEMMA AnswerSetAckFacts ==
    ASSUME NEW m, m.src \in Nodes, m.dst \in Nodes, NEW j \in Job, j.state = "acked"
    PROVE  LET a == AnswerSetAck(m, j)
           IN  /\ a.job \in Job \cup {NoJob}
               /\ a.job # NoJob => a.job.state = "acked"
               /\ a.out \subseteq Messages
               /\ \A x \in a.out : x.type \in {"SETACK", "GOTACK"}
<1> DEFINE gc == TryJobGC(m.dst, j)
           gotAck == SendJobIDMessage("GOTACK", m.dst, m.src, 1)
           a == AnswerSetAck(m, j)
<1>1. /\ gc.job \in Job \cup {NoJob} /\ (gc.job # NoJob => gc.job.state = "acked")
      /\ gc.out \subseteq Messages /\ \A x \in gc.out : x.type = "SETACK"
  BY TryJobGCFacts
<1>2. gotAck \subseteq Messages /\ \A x \in gotAck : x.type = "GOTACK"
  BY SendFacts DEF IDTypes
<1>3. \/ a.job = j /\ a.out = gotAck
      \/ a.job = gc.job /\ a.out = gc.out \cup gotAck
      \/ a.job = gc.job /\ a.out = gc.out
  BY DEF AnswerSetAck
<1> HIDE DEF gc, gotAck, a
<1>4. /\ a.job \in Job \cup {NoJob}
      /\ a.job # NoJob => a.job.state = "acked"
      /\ a.out \subseteq Messages
      /\ \A x \in a.out : x.type \in {"SETACK", "GOTACK"}
  BY <1>1, <1>2, <1>3
<1> QED BY <1>4 DEF a

LEMMA RecvSetAckStep == ASSUME IInv, RecvSetAck PROVE IInv'
<1>1. PICK m \in Received("SETACK") :
        LET n == m.dst
            a == AnswerSetAck(m, AcknowledgeJob(jobs[n]))
        IN  \/ /\ ~Has(n)
               /\ Finish(n, NoJob, {m}, SendJobIDMessage("GOTACK", n, m.src, 0))
            \/ Has(n) /\ Finish(n, a.job, {m}, a.out)
            \/ /\ InState(n, {"wait_repl"})
               /\ \E e \in EnqueueTargets(n, jobs[n]) :
                    LET r == ReplicationAchieved(n, jobs[n], e)
                        b == AnswerSetAck(m, AcknowledgeJob(r.job))
                    IN  IF r.job = NoJob
                        THEN Store(n, NoJob) /\ Transmit({m}, r.out)
                        ELSE Store(n, b.job) /\ Transmit({m}, r.out \cup b.out)
               /\ client' = "ok"
               /\ UNCHANGED <<origin, opts>>
  BY DEF RecvSetAck, InState
<1> DEFINE n == m.dst
<1>2. /\ m \in DOMAIN net /\ n \in Nodes /\ m.src \in Nodes /\ acked' /\ Over'
      /\ ~Live' /\ HistoryGrows
  BY MessageFacts, SameHistory
     DEF Received, IInv, NoPhantomAck, RecvSetAck, history, Over, Live
<1>3. CASE ~Has(n) /\ Finish(n, NoJob, {m}, SendJobIDMessage("GOTACK", n, m.src, 0))
  <2> DEFINE out == SendJobIDMessage("GOTACK", n, m.src, 0)
  <2>1. out \subseteq Messages /\ \A x \in out : x.type = "GOTACK"
    BY <1>2, SendFacts DEF IDTypes
  <2> HIDE DEF out
  <2>2. FinishOK(n, NoJob, out)
    BY <1>2, <2>1 DEF FinishOK
  <2>3. Finish(n, NoJob, {m}, out)
    BY <1>3 DEF out
  <2> QED
    BY <1>2, <2>1, <2>2, <2>3, FinishStep
<1>4. CASE /\ Has(n)
           /\ LET a == AnswerSetAck(m, AcknowledgeJob(jobs[n]))
              IN  Finish(n, a.job, {m}, a.out)
  <2> DEFINE a == AnswerSetAck(m, AcknowledgeJob(jobs[n]))
  <2>1. AcknowledgeJob(jobs[n]) \in Job /\ AcknowledgeJob(jobs[n]).state = "acked"
    BY <1>2, <1>4, CopyFacts, AcknowledgeFacts
  <2>2. /\ a.job \in Job \cup {NoJob} /\ (a.job # NoJob => a.job.state = "acked")
        /\ a.out \subseteq Messages /\ \A x \in a.out : x.type \in {"SETACK", "GOTACK"}
    BY <1>2, <2>1, AnswerSetAckFacts
  <2>3. Finish(n, a.job, {m}, a.out)
    BY <1>4
  <2> HIDE DEF a
  <2>4. FinishOK(n, a.job, a.out)
    BY <1>2, <2>2 DEF FinishOK
  <2> QED
    BY <1>2, <2>2, <2>3, <2>4, FinishStep
<1>5. ASSUME InState(n, {"wait_repl"}), NEW e \in EnqueueTargets(n, jobs[n]),
             LET r == ReplicationAchieved(n, jobs[n], e)
                 b == AnswerSetAck(m, AcknowledgeJob(r.job))
             IN  IF r.job = NoJob
                 THEN Store(n, NoJob) /\ Transmit({m}, r.out)
                 ELSE Store(n, b.job) /\ Transmit({m}, r.out \cup b.out),
             client' = "ok", UNCHANGED <<origin, opts>>
      PROVE  IInv'
  <2> DEFINE r == ReplicationAchieved(n, jobs[n], e)
             b == AnswerSetAck(m, AcknowledgeJob(r.job))
             new == IF r.job = NoJob THEN NoJob ELSE b.job
             out == IF r.job = NoJob THEN r.out ELSE r.out \cup b.out
  <2>1. /\ n = origin /\ client = "blocked" /\ jobs[n] \in Job /\ e \in Nodes
        /\ opts.retry \in BOOLEAN
    BY <1>2, <1>5, CopyFacts DEF IInv, WaitReplHasClient, InState, EnqueueTargets, Job
  <2>2. /\ r.job \in Job \cup {NoJob} /\ r.out \subseteq Messages
        /\ \A x \in r.out : x.type \in {"QUEUED", "ENQUEUE"}
    BY <1>2, <2>1, ReplicationAchievedFacts
  <2>3. Store(n, new) /\ Transmit({m}, out)
    BY <1>5
  <2> HIDE DEF r
  <2>4. r.job # NoJob =>
          /\ b.job \in Job \cup {NoJob} /\ (b.job # NoJob => b.job.state = "acked")
          /\ b.out \subseteq Messages
          /\ \A x \in b.out : x.type \in {"SETACK", "GOTACK"}
    BY <1>2, <2>2, AcknowledgeFacts, AnswerSetAckFacts
  <2> HIDE DEF b
  <2>5. /\ new \in Job \cup {NoJob} /\ (new # NoJob => new.state = "acked")
        /\ out \subseteq Messages
        /\ \A x \in out : x.type \in {"SETACK", "GOTACK", "QUEUED", "ENQUEUE"}
    BY <2>2, <2>4
  <2> HIDE DEF new, out
  <2>6. IsABag(net') /\ DOMAIN net' \subseteq DOMAIN net \cup out
    BY <2>3, DeliverFacts DEF Transmit, IInv, TypeOK
  <2>7. StepOK(n, new, out)
    BY <1>2, <1>5, <2>1, <2>3, <2>5, <2>6 DEF StepOK, Store, ClientStates
  <2> QED
    BY <1>2, <2>5, <2>7, StepPreserves
<1> QED BY <1>1, <1>3, <1>4, <1>5

LEMMA RecvGotAckStep == ASSUME IInv, RecvGotAck PROVE IInv'
<1>1. PICK m \in Received("GOTACK") :
        \/ Ignore(m)
        \/ /\ Has(m.dst)
           /\ LET r == GotAckReceived(m.dst, m.src, jobs[m.dst], m.aux = 1)
              IN  Finish(m.dst, r.job, {m}, r.out)
  BY DEF RecvGotAck
<1>2. /\ m \in DOMAIN net /\ m.dst \in Nodes /\ m.src \in Nodes
      /\ UNCHANGED history /\ HistoryGrows /\ acked' = acked
  BY MessageFacts, SameHistory DEF Received, RecvGotAck, history
<1>3. CASE Ignore(m)
  BY <1>2, <1>3, IgnoreStep
<1>4. CASE /\ Has(m.dst)
           /\ LET r == GotAckReceived(m.dst, m.src, jobs[m.dst], m.aux = 1)
              IN  Finish(m.dst, r.job, {m}, r.out)
  <2> DEFINE j == jobs[m.dst]
             known == m.aux = 1
             r == GotAckReceived(m.dst, m.src, j, known)
  <2>1. j \in Job /\ Finish(m.dst, r.job, {m}, r.out)
    BY <1>2, <1>4, CopyFacts
  <2>2. known \in BOOLEAN
    OBVIOUS
  <2> HIDE DEF known
  <2>3. /\ r.job \in Job \cup {NoJob}
        /\ j.state # "acked" => r.job = j /\ r.out = {}
        /\ r.job # NoJob => r.job.state = j.state /\ r.job.body = j.body
        /\ r.out \subseteq Messages
        /\ \A x \in r.out : x.type = "DELJOB"
    <3>1. m.dst \in Nodes /\ m.src \in Nodes /\ j \in Job
      BY <1>2, <2>1
    <3> HIDE DEF j
    <3>2. GotAcked(r, j)
      BY ONLY <3>1, <2>2, GotAckReceivedOK
    <3> HIDE DEF r
    <3> QED
      BY <3>2 DEF GotAcked
  <2> HIDE DEF r
  <2>4. /\ j.state = "acked" \/ ~j.body => acked'
        /\ j.state = "acked" => Over'
    BY <1>2, <1>4 DEF IInv, NoPhantomAck, InState, Over
  <2>5. FinishOK(m.dst, r.job, r.out)
    BY <1>2, <1>4, <2>1, <2>3, <2>4, NoJobAssumption DEF FinishOK, InState
  <2> QED
    BY <1>2, <2>1, <2>3, <2>5, FinishStep
<1> QED BY <1>1, <1>3, <1>4

LEMMA RecvDelJobStep == ASSUME IInv, RecvDelJob PROVE IInv'
<1>1. PICK m \in Received("DELJOB") : Ignore(m) \/ Finish(m.dst, NoJob, {m}, {})
  BY DEF RecvDelJob
<1>2. /\ m \in DOMAIN net /\ m.dst \in Nodes /\ (Over \/ client = "failed")
      /\ UNCHANGED history /\ HistoryGrows /\ (Over => Over')
  BY MessageFacts, SameHistory DEF Received, RecvDelJob, history, IInv, Over
<1>3. CASE Ignore(m)
  BY <1>2, <1>3, IgnoreStep
<1>4. CASE Finish(m.dst, NoJob, {m}, {})
  <2>1. FinishOK(m.dst, NoJob, {})
    BY <1>2 DEF FinishOK
  <2> QED
    BY <1>2, <1>4, <2>1, FinishStep
<1> QED BY <1>1, <1>3, <1>4

LEMMA RecvEnqueueStep == ASSUME IInv, RecvEnqueue PROVE IInv'
<1>1. PICK m \in Received("ENQUEUE") :
        LET n == m.dst
            j == [jobs[n] EXCEPT !.flags = @ \ {"BCAST_QUEUED"}]
            r == EnqueueJob(n, j, opts.retry, FALSE)
        IN  \/ Ignore(m)
            \/ InState(n, {"wait_repl", "active"}) /\ Finish(n, r.job, {m}, r.out)
            \/ InState(n, {"wait_repl", "active"}) /\ Finish(n, j, {m}, {})
  BY DEF RecvEnqueue
<1> DEFINE n == m.dst
           j == [jobs[n] EXCEPT !.flags = @ \ {"BCAST_QUEUED"}]
           r == EnqueueJob(n, j, opts.retry, FALSE)
<1>2. /\ m \in DOMAIN net /\ n \in Nodes /\ opts.retry \in BOOLEAN
      /\ UNCHANGED history /\ HistoryGrows /\ acked' = acked
  BY MessageFacts, CopyFacts, SameHistory DEF Received, RecvEnqueue, history
<1>3. CASE Ignore(m)
  BY <1>2, <1>3, IgnoreStep
<1>4. CASE InState(n, {"wait_repl", "active"})
  <2>1. /\ jobs[n] \in Job /\ Has(n) /\ jobs[n].state \in {"wait_repl", "active"}
    BY <1>2, <1>4, CopyFacts DEF InState
  <2>2. /\ j \in Job /\ j.state = jobs[n].state /\ j.body = jobs[n].body
        /\ j.delivered = jobs[n].delivered /\ j.confirmed = jobs[n].confirmed
    BY <2>1 DEF Job
  <2>3. Enqueued(r, j)
    <3> HIDE DEF j
    <3> QED BY <1>2, <2>2, EnqueueJobFacts
  <2>4. ~jobs[n].body => acked'
    BY <1>2, <2>1 DEF IInv
  <2>5. CASE Finish(n, r.job, {m}, r.out)
    <3> HIDE DEF j, r
    <3>1. FinishOK(n, r.job, r.out)
      BY <1>2, <2>1, <2>2, <2>3, <2>4, NoJobAssumption DEF FinishOK, Enqueued, InState
    <3> QED
      BY <1>2, <2>3, <2>5, <3>1, FinishStep DEF Enqueued
  <2>6. CASE Finish(n, j, {m}, {})
    <3> HIDE DEF j
    <3>1. FinishOK(n, j, {})
      BY <1>2, <2>1, <2>2, <2>4, NoJobAssumption DEF FinishOK, InState
    <3> QED
      BY <1>2, <2>2, <2>6, <3>1, FinishSilently
  <2> QED BY <1>1, <1>3, <2>5, <2>6
<1> QED BY <1>1, <1>3, <1>4

LEMMA RecvQueuedStep == ASSUME IInv, RecvQueued PROVE IInv'
<1>1. PICK m \in DOMAIN net :
        LET n == m.dst
            j == IF GivesWay(n, m) THEN DequeueJob(jobs[n]) ELSE jobs[n]
        IN  \/ Ignore(m)
            \/ /\ Has(n) /\ jobs[n].state # "acked"
               /\ Finish(n, [j EXCEPT !.flags = @ \cup RetryFlag(opts.retry)], {m}, {})
            \/ /\ InState(n, {"acked"})
               /\ Finish(n, jobs[n], {m}, SendSetAck(n, m.src, jobs[n]))
  BY DEF RecvQueued, Received, InState, States
<1> DEFINE n == m.dst
           j == IF GivesWay(n, m) THEN DequeueJob(jobs[n]) ELSE jobs[n]
           new == [j EXCEPT !.flags = @ \cup RetryFlag(opts.retry)]
           out == SendSetAck(n, m.src, jobs[n])
<1>2. /\ n \in Nodes /\ m.src \in Nodes
      /\ UNCHANGED history /\ HistoryGrows /\ acked' = acked
  BY MessageFacts, SameHistory DEF RecvQueued, history
<1>3. CASE Ignore(m)
  BY <1>2, <1>3, IgnoreStep
<1>4. CASE Has(n) /\ jobs[n].state # "acked" /\ Finish(n, new, {m}, {})
  <2>1. jobs[n] \in Job /\ (~jobs[n].body => acked')
    BY <1>2, <1>4, CopyFacts DEF IInv
  <2>2. /\ j \in Job /\ j.state \in {jobs[n].state, "active"} /\ j.body = jobs[n].body
        /\ j.delivered = jobs[n].delivered /\ j.confirmed = jobs[n].confirmed
    BY <2>1 DEF DequeueJob, Job, States
  <2>3. /\ new \in Job /\ new.state = j.state /\ new.body = j.body
        /\ new.delivered = j.delivered /\ new.confirmed = j.confirmed
    <3> HIDE DEF j
    <3> QED BY <2>2 DEF Job, RetryFlag, Flags, WireFlags
  <2> HIDE DEF j, new
  <2>4. FinishOK(n, new, {})
    BY <1>2, <1>4, <2>1, <2>2, <2>3, NoJobAssumption DEF FinishOK, InState
  <2> QED
    BY <1>2, <1>4, <2>3, <2>4, FinishSilently
<1>5. CASE InState(n, {"acked"}) /\ Finish(n, jobs[n], {m}, out)
  <2>1. jobs[n] \in Job /\ jobs[n].state = "acked" /\ acked'
    BY <1>2, <1>5, CopyFacts DEF InState, IInv, NoPhantomAck
  <2>2. out \subseteq Messages /\ \A x \in out : x.type = "SETACK"
    BY <1>2, <2>1, SetAckFacts
  <2> HIDE DEF out
  <2>3. FinishOK(n, jobs[n], out)
    BY <1>2, <2>1, <2>2, NoJobAssumption DEF FinishOK, Over
  <2> QED
    BY <1>2, <1>5, <2>1, <2>2, <2>3, FinishStep
<1> QED BY <1>1, <1>3, <1>4, <1>5

LEMMA RecvWillQueueStep == ASSUME IInv, RecvWillQueue PROVE IInv'
<1>1. PICK m \in DOMAIN net :
        LET n == m.dst
            j == [jobs[n] EXCEPT !.delivered = @ \cup {m.src}]
        IN  \/ Ignore(m)
            \/ /\ InState(n, {"active", "queued"})
               /\ Finish(n, j, {m}, WillQueueReply(n, m, j))
            \/ /\ InState(n, {"acked"})
               /\ Finish(n, jobs[n], {m}, WillQueueReply(n, m, jobs[n]))
  BY DEF RecvWillQueue, Received
<1> DEFINE n == m.dst
           j == [jobs[n] EXCEPT !.delivered = @ \cup {m.src}]
<1>2. /\ n \in Nodes /\ m.src \in Nodes
      /\ UNCHANGED history /\ HistoryGrows /\ acked' = acked
  BY MessageFacts, SameHistory DEF RecvWillQueue, history
<1>3. ASSUME NEW x \in Job
      PROVE  /\ WillQueueReply(n, m, x) \subseteq Messages
             /\ \A y \in WillQueueReply(n, m, x) :
                  \/ y.type = "QUEUED"
                  \/ y.type = "SETACK" /\ x.state = "acked"
  <2> DEFINE queued == BroadcastJobIDMessage("QUEUED", n, x.delivered, 0)
             setAck == SendSetAck(n, m.src, x)
  <2>1. queued \subseteq Messages /\ \A y \in queued : y.type = "QUEUED"
    <3>1. x.delivered \subseteq Nodes /\ "QUEUED" \in IDTypes /\ 0 \in Nat
      BY DEF Job, IDTypes
    <3> QED
      BY <1>2, <3>1, BroadcastFacts
  <2>2. setAck \subseteq Messages /\ \A y \in setAck : y.type = "SETACK"
    BY <1>2, SetAckFacts
  <2>3. \/ WillQueueReply(n, m, x) = queued
        \/ WillQueueReply(n, m, x) = setAck /\ x.state = "acked"
        \/ WillQueueReply(n, m, x) = {}
    BY DEF WillQueueReply
  <2> HIDE DEF queued, setAck
  <2> QED BY <2>1, <2>2, <2>3
<1>4. CASE Ignore(m)
  BY <1>2, <1>4, IgnoreStep
<1>5. CASE /\ InState(n, {"active", "queued"})
           /\ Finish(n, j, {m}, WillQueueReply(n, m, j))
  <2>1. /\ jobs[n] \in Job /\ jobs[n].state \in {"active", "queued"}
        /\ ~jobs[n].body => acked'
    BY <1>2, <1>5, CopyFacts DEF InState, IInv
  <2>2. j \in Job /\ j.state = jobs[n].state /\ j.body = jobs[n].body
    BY <1>2, <2>1 DEF Job
  <2> HIDE DEF j
  <2>3. FinishOK(n, j, WillQueueReply(n, m, j))
    BY <1>2, <1>3, <2>1, <2>2, NoJobAssumption DEF FinishOK
  <2> QED
    BY <1>2, <1>3, <1>5, <2>2, <2>3, FinishStep
<1>6. CASE /\ InState(n, {"acked"})
           /\ Finish(n, jobs[n], {m}, WillQueueReply(n, m, jobs[n]))
  <2>1. jobs[n] \in Job /\ jobs[n].state = "acked" /\ acked'
    BY <1>2, <1>6, CopyFacts DEF InState, IInv, NoPhantomAck
  <2>2. FinishOK(n, jobs[n], WillQueueReply(n, m, jobs[n]))
    BY <1>2, <1>3, <2>1, NoJobAssumption DEF FinishOK, Over
  <2> QED
    BY <1>2, <1>3, <1>6, <2>1, <2>2, FinishStep
<1> QED BY <1>1, <1>4, <1>5, <1>6

-----------------------------------------------------------------------------
(* Federation *)

LEMMA NeedJobsStep ==
    ASSUME IInv, NEW n \in Nodes, NEW d \in Nodes, NeedJobs(n, d) PROVE IInv'
<1> DEFINE j == FetchJob(jobs[n])
           new == KeptAfterMove(j)
           m == SerializeJob("YOURJOBS", n, d, j, FALSE)
<1>1. jobs[n] \in Job /\ Has(n) /\ jobs[n].state = "queued"
  BY CopyFacts DEF NeedJobs, InState
<1>2. Finish(n, new, {}, {m}) /\ HistoryGrows /\ acked' = acked
  BY SameHistory, SMTT(30) DEF NeedJobs, history
<1>3. j \in Job /\ j.state = "active" /\ j.body = jobs[n].body
  BY <1>1 DEF FetchJob, Job, States, Flags
<1> HIDE DEF j
<1>4. {m} \subseteq Messages /\ m.type = "YOURJOBS"
  BY <1>3 DEF SerializeJob, Messages, JobMessages, Job, Flags
<1>5. new \in {j, NoJob} /\ (opts.retry => new = j)
  BY DEF KeptAfterMove
<1> HIDE DEF new, m
<1>6. FinishOK(n, new, {m})
  BY <1>1, <1>2, <1>3, <1>4, <1>5, NoJobAssumption DEF FinishOK, IInv
<1> QED
  BY <1>2, <1>3, <1>4, <1>5, <1>6, FinishStep

LEMMA RecvYourJobsStep == ASSUME IInv, RecvYourJobs PROVE IInv'
<1>1. PICK m \in Received("YOURJOBS") :
        LET n == m.dst
            copy == IF Has(n) THEN jobs[n] ELSE DeserializeJob(m, opts.retry)
            j == [copy EXCEPT !.flags = @ \ {"BCAST_QUEUED"},
                              !.qtime = @ \/ ~opts.retry]
            r == EnqueueJob(n, j, opts.retry, FALSE)
        IN  \/ Finish(n, r.job, {m}, r.out) /\ UNCHANGED history
            \/ Finish(n, j, {m}, {}) /\ UNCHANGED history
            \/ Abort(n)
  BY DEF RecvYourJobs
<1> DEFINE n == m.dst
           copy == IF Has(n) THEN jobs[n] ELSE DeserializeJob(m, opts.retry)
           j == [copy EXCEPT !.flags = @ \ {"BCAST_QUEUED"},
                             !.qtime = @ \/ ~opts.retry]
           r == EnqueueJob(n, j, opts.retry, FALSE)
<1>2. /\ m \in DOMAIN net /\ n \in Nodes /\ opts.retry \in BOOLEAN
      /\ m.delivered \subseteq Nodes /\ m.flags \subseteq WireFlags
  BY MessageFacts, CopyFacts DEF Received
<1>3. /\ copy \in Job
      /\ Has(n) => copy = jobs[n]
      /\ ~Has(n) => copy.state = "active" /\ copy.body = TRUE
  BY <1>2, CopyFacts DEF DeserializeJob, Job, States, Flags, RetryFlag, WireFlags
<1> HIDE DEF copy
<1>4. /\ j \in Job /\ j.state = copy.state /\ j.body = copy.body
      /\ j.delivered = copy.delivered /\ j.confirmed = copy.confirmed
  BY <1>3 DEF Job
<1> HIDE DEF j
<1>5. Enqueued(r, j)
  BY <1>2, <1>4, EnqueueJobFacts
<1> HIDE DEF r
<1>6. /\ copy.state = "acked" \/ ~copy.body => acked
      /\ copy.state = "wait_repl" => InState(n, {"wait_repl"}) /\ copy = jobs[n]
  BY <1>2, <1>3 DEF IInv, NoPhantomAck, InState
<1>7. CASE Finish(n, r.job, {m}, r.out) /\ UNCHANGED history
  <2>1. HistoryGrows /\ acked' = acked
    BY <1>7, SameHistory DEF history
  <2>2. FinishOK(n, r.job, r.out)
    BY <1>3, <1>4, <1>5, <1>6, <2>1, NoJobAssumption DEF FinishOK, Enqueued
  <2> QED
    BY <1>2, <1>5, <1>7, <2>2, FinishStep DEF Enqueued
<1>8. CASE Finish(n, j, {m}, {}) /\ UNCHANGED history
  <2>1. HistoryGrows /\ acked' = acked
    BY <1>8, SameHistory DEF history
  <2>2. FinishOK(n, j, {})
    BY <1>3, <1>4, <1>6, <2>1, NoJobAssumption DEF FinishOK
  <2> QED
    BY <1>2, <1>4, <1>8, <2>2, FinishSilently
<1>9. CASE Abort(n)
  BY <1>2, <1>9, RestartStep DEF Abort, Restart, IInv, TypeOK
<1> QED BY <1>1, <1>7, <1>8, <1>9 DEF r, j, copy

-----------------------------------------------------------------------------
(* The theorems *)

LEMMA InitInvariant == Init => IInv
<1> SUFFICES ASSUME Init PROVE IInv
  OBVIOUS
<1>1. IsABag(net) /\ DOMAIN net = {}
  BY DEF Init, EmptyBag, SetToBag, IsABag
<1>2. jobs \in [Nodes -> Job \cup {NoJob}] /\ \A n \in Nodes : ~Has(n)
  BY DEF Init, Has
<1>3. TypeOK
  BY <1>1, <1>2 DEF Init, TypeOK, ClientStates
<1>4. client = "idle" /\ ~InState(origin, {"wait_repl"})
  BY <1>2 DEF Init, InState
<1> QED
  BY <1>1, <1>2, <1>3, <1>4 DEF IInv, NoPhantomAck, WaitReplHasClient, InState

LEMMA NextInvariant == IInv /\ [Next]_vars => IInv'
<1> SUFFICES ASSUME IInv, [Next]_vars PROVE IInv'
  OBVIOUS
<1>1. ASSUME NEW n \in Nodes, AddJob(n) PROVE IInv'
  BY <1>1, AddJobSyncStep, AddJobLocalStep, AddJobExternalStep DEF AddJob
<1>2. ASSUME NEW n \in Nodes, Command(n) PROVE IInv'
  BY <1>2, GetJobStep, AckJobStep, FastAckStep, EnqueueCommandStep,
     DequeueCommandStep, WorkingCommandStep, DelJobCommandStep DEF Command
<1>3. ASSUME NEW n \in Nodes, Timer(n) PROVE IInv'
  BY <1>3, ExpireJobStep, ProcessJobStep, GCJobStep, EvictJobStep DEF Timer
<1>4. ASSUME NEW n \in Nodes, Crash(n) PROVE IInv'
  BY <1>4, RestartStep DEF Crash, Restart, IInv, TypeOK
<1>5. ASSUME NEW n \in Nodes, NEW d \in Nodes, NeedJobs(n, d) PROVE IInv'
  BY <1>5, NeedJobsStep
<1>6. CASE DelayedJobReplication \/ UnblockClient \/ UnblockDangling
  BY <1>6, DelayedJobReplicationStep, UnblockClientStep, UnblockDanglingStep
<1>7. CASE Receive
  BY <1>7, RecvReplJobStep, RecvGotJobStep, RecvSetAckStep, RecvGotAckStep,
     RecvDelJobStep, RecvEnqueueStep, RecvQueuedStep, RecvWillQueueStep,
     RecvYourJobsStep DEF Receive
<1>8. CASE Lose
  BY <1>8, IgnoreStep DEF Lose
<1>9. CASE TTLElapses
  BY <1>9, QuietStep DEF TTLElapses, HistoryGrows, IInv, TypeOK
<1>10. CASE UNCHANGED vars
  BY <1>10, QuietStep, SameHistory DEF vars, IInv, TypeOK
<1> QED
  BY <1>1, <1>2, <1>3, <1>4, <1>5, <1>6, <1>7, <1>8, <1>9, <1>10 DEF Next

LEMMA Invariance == Spec => []IInv
BY InitInvariant, NextInvariant, PTL DEF Spec

\* In every run of every cluster the variables keep their types; in particular
\* clusterSendSetAck() never sends a negative count.
THEOREM TypeCorrect == Spec => []TypeOK
<1>1. IInv => TypeOK
  BY DEF IInv
<1> QED
  BY <1>1, Invariance, PTL

\* acknowledgeJob() is only reached, directly or through SETACK, because a client
\* acknowledged the job.
THEOREM AckFromClient == Spec => []NoPhantomAck
<1>1. IInv => NoPhantomAck
  BY DEF IInv
<1> QED
  BY <1>1, Invariance, PTL

\* What jobReplicationAchieved() and unregisterJob() take for granted: a copy in
\* state WAIT_REPL has a client blocked for it, at the same node.
THEOREM ReplicationHasClient == Spec => []WaitReplHasClient
<1>1. IInv => WaitReplHasClient
  BY DEF IInv
<1> QED
  BY <1>1, Invariance, PTL

\* The reply to a synchronous ADDJOB is kept: whatever timeouts, losses,
\* reorderings, memory pressure and federation do, REPLICATE nodes have the job
\* or lost it in a crash, until it is acknowledged, deleted or expires.
THEOREM ReplyIsDurable == Spec => []Durability
<1>1. IInv => Durability
  <2> SUFFICES ASSUME IInv, client = "ok", ~opts.async, opts.retry, ~Over
               PROVE  Cardinality(Kept) >= opts.repl
    BY DEF Durability, Kept
  <2>1. Live
    BY DEF Live
  <2> QED
    BY <2>1 DEF IInv
<1> QED
  BY <1>1, Invariance, PTL
=============================================================================
