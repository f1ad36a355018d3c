------------------------ MODULE FailureDetectorProofs ------------------------
(***************************************************************************)
(* For any number of nodes, any timeout and any order of failures, repairs *)
(* and packets: a node is declared failed only when a majority found it    *)
(* unreachable (FailNeedsMajority); and a minority of failing paths never  *)
(* makes the cluster declare it failed, as long as the answers of the      *)
(* reachable nodes are timely (MinorityCannotFail).                        *)
(***************************************************************************)
EXTENDS FailureDetector, FiniteSetTheorems, TLAPS

\* Each node has one report at most.
OncePerNode(rs) == \A r, q \in rs : r.node = q.node => r = q

\* The failure is settled: a majority of the nodes found the subject out.
Settled == Cardinality(accused) >= Quorum

\* Before that nobody flags FAIL, PFAIL is the node's own finding, and gossip
\* and reports only carry the findings of others, one report for each.
Honest ==
    /\ flag \in [Observers -> {"ok", "pfail"}]
    /\ bus \in [Observers -> [Observers -> SUBSET {"healthy", "failing"}]]
    /\ DOMAIN reports = Observers
    /\ \A o \in Observers :
         /\ flag[o] = "pfail" => o \in accused
         /\ reports[o] \subseteq [node : accused \ {o}, age : Nat] /\ OncePerNode(reports[o])
         /\ bus[o][o] = {}
         /\ \A p \in Observers : "failing" \in bus[o][p] => o \in accused

FInv == accused \subseteq Observers /\ (Settled \/ Honest)

\* Sets of accusers are finite, and majorities are numbers.
LEMMA FiniteAccused == ASSUME IsFiniteSet(Observers), accused \subseteq Observers
  PROVE IsFiniteSet(accused) /\ Cardinality(accused) \in Nat /\ Quorum \in Int
<1>1. IsFiniteSet(accused) /\ Cardinality(Observers) \in Nat /\ Cardinality(accused) \in Nat
  BY FS_Subset, FS_CardinalityType
<1> QED BY <1>1 DEF Quorum

\* No step takes back that a node found the subject unreachable.
LEMMA SettledStays ==
  ASSUME IsFiniteSet(Observers), accused \subseteq Observers, [Next]_vars
  PROVE /\ accused \subseteq accused' /\ accused' \subseteq Observers
        /\ Settled => Settled'
<1>1. accused \subseteq accused' /\ accused' \subseteq Observers
  <2>1. ASSUME NEW o \in Observers, clusterCron(o) PROVE accused' \in {accused, accused \cup {o}}
    BY <2>1 DEF clusterCron
  <2>2. ASSUME NEW o \in Observers, NEW p \in Observers,
               ReceivePong(o) \/ LinkError(o) \/ clusterSendPing(o, p) \/ ReceiveGossip(o, p)
                 \/ Gossip(o, p) \/ ReceiveFail(o, p) \/ LosePackets(o, p)
        PROVE  accused' = accused
    BY <2>2 DEF ReceivePong, LinkError, clusterSendPing, ReceiveGossip, Gossip,
       ProcessGossipSection, ReceiveFail, LosePackets
  <2>3. ASSUME NEW os, NEW error, Repair(os) \/ Fail(os, error) \/ Tick \/ UNCHANGED vars
        PROVE  accused' = accused
    BY <2>3 DEF Repair, Fail, Tick, vars
  <2> QED
    BY <2>1, <2>2, <2>3 DEF Next
<1>2. /\ IsFiniteSet(accused') /\ Cardinality(accused) <= Cardinality(accused')
      /\ Cardinality(accused) \in Nat /\ Cardinality(accused') \in Nat
  BY <1>1, FS_Subset, FS_CardinalityType
<1> QED
  BY <1>1, <1>2, FiniteAccused DEF Settled, Quorum

\* markNodeAsFailingIfNeeded: reports that reach the quorum together with the
\* finding of p come from as many different accusers.
LEMMA MarkNeedsMajority ==
    ASSUME IsFiniteSet(Observers), accused \subseteq Observers, NEW p \in accused,
           NEW rs \in SUBSET [node : accused \ {p}, age : Nat], OncePerNode(rs),
           Cardinality(rs) + 1 >= Quorum
    PROVE  Settled
<1>1. IsFiniteSet(accused) /\ Cardinality(accused) \in Nat /\ Quorum \in Int
  BY FiniteAccused
<1>2. IsFiniteSet(accused \ {p}) /\ Cardinality(accused \ {p}) = Cardinality(accused) - 1
  BY <1>1, FS_RemoveElement
<1> DEFINE f == [r \in rs |-> r.node]
<1>3. f \in Injection(rs, accused \ {p})
  BY DEF Injection, IsInjective, OncePerNode
<1>4. Cardinality(rs) <= Cardinality(accused \ {p}) /\ Cardinality(rs) \in Nat
  BY <1>2, <1>3, FS_Injection, FS_CardinalityType
<1> QED
  BY <1>1, <1>2, <1>4 DEF Settled

\* An entry of o about the subject, be it in flight or handled at once.
LEMMA GossipKeepsFInv ==
    ASSUME IsFiniteSet(Observers), FInv, Honest, NEW o \in Observers, NEW p \in Observers, o # p,
           NEW entry, entry = "failing" => o \in accused,
           NEW took \in [Observers -> [Observers -> SUBSET {"healthy", "failing"}]],
           \A x, y \in Observers : took[x][y] \subseteq bus[x][y],
           ProcessGossipSection(o, p, entry, took)
    PROVE  FInv'
<1> DEFINE rs == IF entry = "failing" THEN AddFailureReport(reports[p], o)
                 ELSE DelFailureReport(reports[p], o)
           mark == entry = "failing" /\ Marked(p, rs)
           K == [node : accused \ {p}, age : Nat]
<1>1. /\ reports' = [reports EXCEPT ![p] = CleanupFailureReports(rs)]
      /\ flag' = IF mark THEN [flag EXCEPT ![p] = "fail"] ELSE flag
      /\ bus' = IF mark THEN SendFail(p, took) ELSE took
      /\ accused' = accused
  BY DEF ProcessGossipSection
<1>2. rs \subseteq K /\ OncePerNode(rs)
  <2>1. reports[p] \subseteq K /\ OncePerNode(reports[p])
    BY DEF Honest
  <2>2. CASE entry = "failing"
    <3>1. [node |-> o, age |-> 0] \in K
      BY <2>2
    <3>2. AddFailureReport(reports[p], o) \subseteq K
      BY <2>1, <3>1 DEF AddFailureReport
    <3>3. OncePerNode(AddFailureReport(reports[p], o))
      BY <2>1 DEF AddFailureReport, OncePerNode
    <3> QED
      BY <2>2, <3>2, <3>3
  <2>3. CASE entry # "failing"
    BY <2>1, <2>3 DEF DelFailureReport, OncePerNode
  <2> QED
    BY <2>2, <2>3
<1> HIDE DEF rs
<1>3. CleanupFailureReports(rs) \subseteq K /\ OncePerNode(CleanupFailureReports(rs))
  BY <1>2 DEF CleanupFailureReports, OncePerNode
<1>4. CASE mark
  <2>1. p \in accused
    BY <1>4 DEF Marked, Honest
  <2>2. Settled
    BY <1>3, <1>4, <2>1, MarkNeedsMajority DEF Marked, FInv
  <2> QED
    BY <1>1, <2>2 DEF FInv, Settled
<1>5. CASE ~mark
  <2>1. flag' = flag /\ bus' = took /\ accused' = accused
    BY <1>1, <1>5
  <2>2. /\ DOMAIN reports' = Observers
        /\ \A x \in Observers : /\ reports'[x] \subseteq [node : accused \ {x}, age : Nat]
                                /\ OncePerNode(reports'[x])
    BY <1>1, <1>3 DEF Honest
  <2>3. Honest'
    BY <2>1, <2>2 DEF Honest, OncePerNode
  <2> QED
    BY <2>1, <2>3 DEF FInv
<1> QED
  BY <1>4, <1>5

LEMMA StepFInv == IsFiniteSet(Observers) /\ FInv /\ [Next]_vars => FInv'
<1> SUFFICES ASSUME IsFiniteSet(Observers), FInv, [Next]_vars, Honest PROVE FInv'
  BY SettledStays DEF FInv
<1>0. accused' \subseteq Observers /\ accused \subseteq accused'
  BY SettledStays DEF FInv
<1>1. ASSUME NEW o \in Observers, clusterCron(o) PROVE Honest'
  <2>1. PICK s \in RandomPing(Connect(o, Subject(o))) :
          LET t == CheckPong(Recycle(s))
          IN  /\ flag' = [flag EXCEPT ![o] = t.flag]
              /\ accused' = IF t.flag = "pfail" THEN accused \cup {o} ELSE accused
              /\ UNCHANGED <<net, pong, reports, bus>>
    BY <1>1 DEF clusterCron
  <2> DEFINE t == CheckPong(Recycle(s))
             Same(x) == /\ x = [flag |-> x.flag, ping |-> x.ping, pong |-> x.pong, link |-> x.link]
                        /\ x.flag = flag[o]
  <2>2. Same(Connect(o, Subject(o)))
    BY DEF Connect, Subject
  <2>3. Same(Recycle(s))
    BY <2>2 DEF RandomPing, Pinged, Recycle
  <2>4. t.flag \in {flag[o], "pfail"}
    BY <2>3 DEF CheckPong, Pinged
  <2>5. /\ flag' = [flag EXCEPT ![o] = t.flag]
        /\ accused' = IF t.flag = "pfail" THEN accused \cup {o} ELSE accused
        /\ reports' = reports /\ bus' = bus
    BY <2>1
  <2> HIDE DEF t
  <2> QED
    BY <2>4, <2>5 DEF Honest, OncePerNode
<1>2. ASSUME NEW o \in Observers, ReceivePong(o) \/ LinkError(o) PROVE Honest'
  BY <1>2 DEF ReceivePong, LinkError, Honest, OncePerNode
<1>3. ASSUME NEW o \in Observers, NEW p \in Observers, Gossip(o, p) PROVE FInv'
  BY <1>3, GossipKeepsFInv DEF Gossip, Entry, Honest
<1>4. ASSUME NEW o \in Observers, NEW p \in Observers, ReceiveGossip(o, p) PROVE FInv'
  <2>1. PICK entry \in bus[o][p] \ {"FAIL"} :
             ProcessGossipSection(o, p, entry, [bus EXCEPT ![o][p] = @ \ {entry}])
    BY <1>4 DEF ReceiveGossip
  <2> DEFINE took == [bus EXCEPT ![o][p] = @ \ {entry}]
  <2>2. /\ took \in [Observers -> [Observers -> SUBSET {"healthy", "failing"}]]
        /\ \A x, y \in Observers : took[x][y] \subseteq bus[x][y]
        /\ o # p /\ (entry = "failing" => o \in accused)
    BY DEF Honest
  <2> HIDE DEF took
  <2> QED
    BY <2>1, <2>2, GossipKeepsFInv DEF took
<1>5. ASSUME NEW o \in Observers, NEW p \in Observers,
             clusterSendPing(o, p) \/ ReceiveFail(o, p) \/ LosePackets(o, p)
      PROVE  Honest'
  <2>1. CASE clusterSendPing(o, p)
    BY <2>1 DEF clusterSendPing, Entry, Honest, OncePerNode
  <2>2. CASE ReceiveFail(o, p)
    BY <2>2 DEF ReceiveFail, Honest
  <2>3. CASE LosePackets(o, p)
    BY <2>3 DEF LosePackets, Honest, OncePerNode
  <2> QED
    BY <1>5, <2>1, <2>2, <2>3
<1>6. ASSUME NEW os \in Failures,
             Repair(os) \/ \E error \in Errors : Fail(os, error)
      PROVE  Honest'
  BY <1>6 DEF Repair, Fail, Honest, OncePerNode
<1>7. ASSUME Tick PROVE Honest'
  <2>1. ASSUME NEW o \in Observers
        PROVE  reports'[o] \subseteq [node : accused \ {o}, age : Nat] /\ OncePerNode(reports'[o])
    <3> DEFINE K == [node : accused \ {o}, age : Nat]
               older == {[r EXCEPT !.age = @ + 1] : r \in reports[o]}
    <3>1. \A r \in reports[o] :
             /\ r \in K /\ [r EXCEPT !.age = @ + 1] \in K
             /\ [r EXCEPT !.age = @ + 1].node = r.node
      BY DEF Honest
    <3>2. older \subseteq K /\ OncePerNode(older)
      BY <3>1 DEF Honest, OncePerNode
    <3>3. reports'[o] = CleanupFailureReports(older)
      BY <1>7 DEF Tick
    <3> QED
      BY <3>2, <3>3 DEF CleanupFailureReports, OncePerNode
  <2>2. DOMAIN reports' = Observers /\ UNCHANGED <<flag, bus, accused>>
    BY <1>7 DEF Tick
  <2> QED
    BY <2>1, <2>2 DEF Honest, OncePerNode
<1>8. ASSUME UNCHANGED vars PROVE Honest'
  <2>1. UNCHANGED <<flag, reports, bus, accused>>
    BY <1>8 DEF vars
  <2> QED
    BY <2>1 DEF Honest, OncePerNode
<1>9. Honest' => FInv'
  BY <1>0 DEF FInv
<1> QED
  BY <1>1, <1>2, <1>3, <1>4, <1>5, <1>6, <1>7, <1>8, <1>9 DEF Next

\* Wherever the subject is flagged FAIL a majority of the cluster found it
\* unreachable by their own pings: gossip, reports that expire, FAIL packets and
\* lost or late packets never make up a majority that was not there.
THEOREM FailureIsMajority ==
    ASSUME IsFiniteSet(Observers)
    PROVE  Spec => []FailNeedsMajority
<1>1. Init => FInv
  BY DEF Init, FInv, Honest, OncePerNode
<1>2. FInv /\ [Next]_vars => FInv'
  BY StepFInv
<1>3. FInv => FailNeedsMajority
  BY DEF FInv, Honest, Settled, FailNeedsMajority
<1> QED
  BY <1>1, <1>2, <1>3, PTL DEF Spec

-----------------------------------------------------------------------------
\* The observers that may lose the subject from sight.
Cut == UNION Failures

\* The cluster the theorem is about: the observers that can be cut off, one
\* report each, are fewer than markNodeAsFailingIfNeeded needs.
Minority ==
    /\ IsFiniteSet(Observers) /\ Failures \subseteq SUBSET Observers
    /\ Cardinality(Cut) < Quorum
    /\ "up" \notin Errors /\ Timely = TRUE /\ Timeout \in Nat

Kinds ==
    /\ net \in [Observers -> Errors \cup {"up"}]
    /\ flag \in [Observers -> {"ok", "pfail"}]
    /\ ping \in [Observers -> Int]
    /\ bus = [o \in Observers |-> [p \in Observers |-> {}]]

\* An observer that is not cut off gets its answers before the clock moves.
Trusting ==
    \A o \in Observers \ Cut : net[o] = "up" /\ flag[o] = "ok" /\ ping[o] \in {None, 0}

Report(o) == [node : Cut \ {o}, age : Nat]

\* Reports come from observers that may be cut off, one from each.
Reporting ==
    /\ DOMAIN reports = Observers
    /\ \A o \in Observers : reports[o] \subseteq Report(o) /\ OncePerNode(reports[o])

MInv == Kinds /\ Trusting /\ Reporting

-----------------------------------------------------------------------------
\* A node in PFAIL state that is itself cut off cannot find a majority among
\* the reports of the others (clusterNodeFailureReportsCount).
LEMMA FewReports ==
    ASSUME Minority, NEW p \in Cut, NEW rs \in SUBSET Report(p), OncePerNode(rs)
    PROVE  /\ Cardinality(rs) \in Nat /\ Quorum \in Int
           /\ Cardinality(rs) + 1 < Quorum
<1>1. Cut \subseteq Observers /\ IsFiniteSet(Cut)
  <2>1. Cut \subseteq Observers
    BY DEF Minority, Cut
  <2> QED
    BY <2>1, FS_Subset DEF Minority
<1>2. /\ IsFiniteSet(Cut \ {p}) /\ Cardinality(Cut \ {p}) = Cardinality(Cut) - 1
      /\ Cardinality(Cut) \in Nat
  BY <1>1, FS_RemoveElement, FS_CardinalityType
<1> DEFINE f == [r \in rs |-> r.node]
<1>3. f \in Injection(rs, Cut \ {p})
  BY DEF Injection, IsInjective, OncePerNode, Report
<1>4. IsFiniteSet(rs) /\ Cardinality(rs) <= Cardinality(Cut \ {p})
  BY <1>2, <1>3, FS_Injection
<1>5. Cardinality(rs) \in Nat /\ Cardinality(Observers) \in Nat
  BY <1>4, FS_CardinalityType DEF Minority
<1>6. Quorum \in Int /\ Cardinality(Cut) < Quorum
  BY <1>5 DEF Quorum, Minority
<1> QED
  BY <1>2, <1>4, <1>5, <1>6

LEMMA InitMInv == Minority /\ Init => MInv
BY DEF Minority, Init, MInv, Kinds, Trusting, Reporting, OncePerNode, None

\* clusterCron of a node that is not cut off neither dates a ping nor flags
\* the subject; of any node, it flags PFAIL at most.
LEMMA CronFacts ==
    ASSUME Timeout \in Nat, NEW o \in Observers, flag[o] \in {"ok", "pfail"}, ping[o] \in Int,
           NEW s \in RandomPing(Connect(o, Subject(o)))
    PROVE  LET t == CheckPong(Recycle(s)) IN
           /\ t.flag \in {"ok", "pfail"} /\ t.ping \in Int
           /\ (flag[o] = "ok" /\ ping[o] \in {None, 0}) => (t.flag = "ok" /\ t.ping \in {None, 0})
<1> DEFINE c == Connect(o, Subject(o))
           Known(x) == /\ x = [flag |-> x.flag, ping |-> x.ping, pong |-> x.pong, link |-> x.link]
                       /\ x.flag = flag[o] /\ x.ping \in {ping[o], 0}
<1>1. Known(c)
  BY DEF Connect, Subject
<1>2. Known(s)
  BY <1>1 DEF RandomPing, Pinged
<1>3. Known(Recycle(s))
  BY <1>2 DEF Recycle
<1> QED
  BY <1>3 DEF CheckPong, Pinged, None

LEMMA StepMInv == Minority /\ MInv /\ [Next]_vars => MInv'
<1> SUFFICES ASSUME Minority, MInv, [Next]_vars PROVE MInv'
  OBVIOUS
<1> USE DEF MInv
<1>1. ASSUME NEW o \in Observers, clusterCron(o) PROVE MInv'
  <2>1. PICK s \in RandomPing(Connect(o, Subject(o))) :
          LET t == CheckPong(Recycle(s))
          IN  /\ flag' = [flag EXCEPT ![o] = t.flag]
              /\ ping' = [ping EXCEPT ![o] = t.ping]
              /\ link' = [link EXCEPT ![o] = t.link]
              /\ UNCHANGED <<net, pong, reports, bus>>
    BY <1>1 DEF clusterCron
  <2> DEFINE t == CheckPong(Recycle(s))
  <2>2. /\ t.flag \in {"ok", "pfail"} /\ t.ping \in Int
        /\ (flag[o] = "ok" /\ ping[o] \in {None, 0}) => (t.flag = "ok" /\ t.ping \in {None, 0})
    BY CronFacts DEF Kinds, Minority
  <2>3. /\ flag' = [flag EXCEPT ![o] = t.flag] /\ ping' = [ping EXCEPT ![o] = t.ping]
        /\ UNCHANGED <<net, reports, bus>>
    BY <2>1
  <2> HIDE DEF t
  <2> QED
    BY <2>2, <2>3 DEF Kinds, Trusting, Reporting, OncePerNode
<1>2. ASSUME NEW o \in Observers, ReceivePong(o) \/ LinkError(o) PROVE MInv'
  <2>1. CASE ReceivePong(o)
    <3>1. Kinds'
      BY <2>1 DEF ReceivePong, Kinds, None
    <3>2. Trusting' /\ Reporting'
      BY <2>1 DEF ReceivePong, Kinds, Trusting, Reporting, OncePerNode
    <3> QED
      BY <3>1, <3>2
  <2>2. CASE LinkError(o)
    BY <2>2 DEF LinkError, Kinds, Trusting, Reporting, OncePerNode
  <2> QED
    BY <1>2, <2>1, <2>2
<1>3. ASSUME NEW o \in Observers, NEW p \in Observers, Gossip(o, p) PROVE MInv'
  <2> DEFINE add == AddFailureReport(reports[p], o)
             del == DelFailureReport(reports[p], o)
             rs == IF Entry(o) = "failing" THEN add ELSE del
             mark == Entry(o) = "failing" /\ Marked(p, rs)
  <2>1. /\ reports' = [reports EXCEPT ![p] = CleanupFailureReports(rs)]
        /\ flag' = IF mark THEN [flag EXCEPT ![p] = "fail"] ELSE flag
        /\ bus' = IF mark THEN SendFail(p, bus) ELSE bus
        /\ UNCHANGED <<net, ping>>
    BY <1>3 DEF Gossip, ProcessGossipSection
  <2>2. reports[p] \subseteq Report(p) /\ OncePerNode(reports[p])
    BY DEF Reporting
  <2>3. Entry(o) = "failing" => o \in Cut \ {p}
    BY <1>3 DEF Gossip, Entry, Kinds, Trusting
  <2>4. rs \subseteq Report(p) /\ OncePerNode(rs)
    <3>1. CASE Entry(o) = "failing"
      <4>1. add \subseteq Report(p)
        BY <2>2, <2>3, <3>1 DEF AddFailureReport, Report
      <4>2. OncePerNode(add)
        BY <2>2 DEF AddFailureReport, OncePerNode
      <4> QED
        BY <3>1, <4>1, <4>2
    <3>2. CASE Entry(o) # "failing"
      BY <2>2, <3>2 DEF DelFailureReport, OncePerNode
    <3> QED
      BY <3>1, <3>2
  <2> HIDE DEF rs
  <2>5. CleanupFailureReports(rs) \subseteq Report(p) /\ OncePerNode(CleanupFailureReports(rs))
    BY <2>4 DEF CleanupFailureReports, OncePerNode
  <2>6. ~Marked(p, rs)
    <3>1. SUFFICES ASSUME flag[p] = "pfail" PROVE ~Marked(p, rs)
      BY DEF Marked
    <3>2. p \in Cut
      BY <3>1 DEF Trusting
    <3> QED
      BY <2>5, <3>2, FewReports DEF Marked
  <2>7. Kinds' /\ Trusting'
    BY <2>1, <2>6 DEF Kinds, Trusting
  <2>8. Reporting'
    BY <2>1, <2>5 DEF Reporting
  <2> QED
    BY <2>7, <2>8
<1>4. ASSUME NEW o \in Observers, NEW p \in Observers,
             clusterSendPing(o, p) \/ ReceiveGossip(o, p) \/ ReceiveFail(o, p) \/ LosePackets(o, p)
      PROVE  MInv'
  BY <1>4 DEF clusterSendPing, ReceiveGossip, ReceiveFail, LosePackets, Kinds, Minority
<1>5. ASSUME NEW os \in Failures, Repair(os) PROVE MInv'
  BY <1>5 DEF Repair, Kinds, Trusting, Reporting, OncePerNode
<1>6. ASSUME NEW os \in Failures, NEW error \in Errors, Fail(os, error) PROVE MInv'
  <2>1. os \subseteq Cut
    BY DEF Cut
  <2> QED
    BY <1>6, <2>1 DEF Fail, Kinds, Trusting, Reporting, OncePerNode
<1>7. CASE Tick
  <2>1. Kinds'
    BY <1>7 DEF Tick, Kinds, Older, Capped, None, Minority
  <2>2. Trusting'
    BY <1>7 DEF Tick, Trusting, Kinds, Older, None, Minority
  <2>3. ASSUME NEW o \in Observers
        PROVE  LET rs == CleanupFailureReports({[r EXCEPT !.age = @ + 1] : r \in reports[o]})
               IN  rs \subseteq Report(o) /\ OncePerNode(rs)
    <3> DEFINE older == {[r EXCEPT !.age = @ + 1] : r \in reports[o]}
    <3>1. \A r \in reports[o] :
             /\ r \in Report(o) /\ [r EXCEPT !.age = @ + 1] \in Report(o)
             /\ [r EXCEPT !.age = @ + 1].node = r.node
      BY DEF Reporting, Report
    <3>2. older \subseteq Report(o)
      BY <3>1
    <3>3. OncePerNode(older)
      <4> SUFFICES ASSUME NEW a \in older, NEW b \in older, a.node = b.node PROVE a = b
        BY DEF OncePerNode
      <4>1. PICK r \in reports[o] : a = [r EXCEPT !.age = @ + 1]
        OBVIOUS
      <4>2. PICK q \in reports[o] : b = [q EXCEPT !.age = @ + 1]
        OBVIOUS
      <4>3. r.node = q.node
        BY <3>1, <4>1, <4>2
      <4>4. r = q
        BY <4>3 DEF Reporting, OncePerNode
      <4> QED
        BY <4>1, <4>2, <4>4
    <3> QED
      BY <3>2, <3>3 DEF CleanupFailureReports, OncePerNode
  <2>4. Reporting'
    BY <1>7, <2>3 DEF Tick, Reporting
  <2> QED
    BY <2>1, <2>2, <2>4
<1>8. CASE UNCHANGED vars
  BY <1>8 DEF vars, Kinds, Trusting, Reporting, OncePerNode
<1> QED
  BY <1>1, <1>2, <1>3, <1>4, <1>5, <1>6, <1>7, <1>8 DEF Next

\* While the paths that fail are those of a minority and pongs are timely, no
\* observer flags the subject FAIL (cluster.c: markNodeAsFailingIfNeeded), for
\* any cluster and any order of cron calls, gossip, failures and repairs.
THEOREM MinorityCannotFailAlways ==
    ASSUME Minority
    PROVE  Spec => []MinorityCannotFail
<1>1. Init => MInv
  BY InitMInv
<1>2. MInv /\ [Next]_vars => MInv'
  BY StepMInv
<1>3. MInv => MinorityCannotFail
  BY DEF MInv, Kinds, MinorityCannotFail
<1> QED
  BY <1>1, <1>2, <1>3, PTL DEF Spec
=============================================================================
