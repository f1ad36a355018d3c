------------------------------- MODULE JobGC --------------------------------
(***************************************************************************)
(* Does the garbage collection of an acknowledged job end?  JobProtocol    *)
(* with fairness: a job is replicated, acknowledged at any nodes, some      *)
(* messages are lost and a node may crash, then the links work.            *)
(*                                                                         *)
(* The requeue timers of JobProtocol do not fire here: they are due RETRY  *)
(* seconds after the job was queued, the first attempts to collect it      *)
(* within seconds (getNextGCRetryTime(), ack.c:60).                        *)
(***************************************************************************)
EXTENDS JobProtocol

CONSTANTS Budgets,      \* bounds: [acks, losses, crashes] of a run: ACKJOB commands,
                        \* messages lost before the links are stable, crashes
          MaxDelayed    \* bound: messages in flight when the job is sent again

VARIABLES budget,       \* that of this run
          spent         \* what happened so far

gcvars == <<vars, budget, spent>>

\* The collection does not look at the order of the nodes: any of them may be
\* the one ADDJOB was sent to.
GCInit == /\ Init /\ origin = (CHOOSE n \in Nodes : TRUE)
          /\ budget \in Budgets /\ spent = [k \in DOMAIN budget |-> 0]

Keep == UNCHANGED <<budget, spent>>

Spend(what) ==
    /\ spent[what] < budget[what]
    /\ spent' = [spent EXCEPT ![what] = @ + 1] /\ UNCHANGED budget

\* A client acknowledges the job at node n.
Acknowledge(n) == Spend("acks") /\ AckJob(n)

\* The period of the attempts is at least one second: what the attempts before
\* caused was delivered or lost when a node makes the next one.
Collect(n) == net = EmptyBag /\ GCJob(n) /\ Keep

LoseOne == Spend("losses") /\ Lose

CrashOne(n) == Spend("crashes") /\ Crash(n)

\* The job is sent to one more node when the replication takes long, at most
\* MaxDelayed messages being still on their way.
Replicate ==
    /\ BagCardinality(net) <= MaxDelayed
    /\ (\E n \in Nodes : AddJobSync(n)) \/ DelayedJobReplication
    /\ Keep

\* The job was sent on the same link before m was.
Overtakes(m) ==
    \E r \in Received("REPLJOB") : r # m /\ r.src = m.src /\ r.dst = m.dst

\* Node n reads a message.  The links do not reconnect here: what is sent about
\* a job after the job itself arrives after it.
Handle(n) ==
    /\ \/ RecvReplJob \/ RecvGotJob \/ RecvSetAck \/ RecvGotAck \/ RecvDelJob
    /\ \E m \in DOMAIN net : m.dst = n /\ ~Overtakes(m)
                            /\ CopiesIn(m, net') < CopiesIn(m, net)
    /\ Keep

GCNext ==
    \/ Replicate \/ LoseOne
    \/ \E n \in Nodes : Handle(n) \/ Acknowledge(n) \/ Collect(n) \/ CrashOne(n)

\* Timers fire, and a node reads what its links carry.
GCFairness == \A n \in Nodes : WF_gcvars(Collect(n)) /\ WF_gcvars(Handle(n))

GCSpec == GCInit /\ [][GCNext]_gcvars /\ GCFairness

\* "Actually we'll keep trying forever" (ack.c:76): tryJobGC(), SETACK, GOTACK,
\* the node that knows more taking over and the ACKs of unknown jobs together
\* release every acknowledged copy, whatever was lost before and whoever died;
\* and where no message is lost and no node crashes, there is a time after the
\* acknowledge when no node has a copy.
CollectionEnds ==
    /\ \A n \in Nodes : InState(n, {"acked"}) ~> ~InState(n, {"acked"})
    /\ (acked /\ budget.losses = 0 /\ budget.crashes = 0) ~> \A n \in Nodes : ~Has(n)

\* "the job can be evicted when we are confident the job will not be reissued"
\* (ack.c:80): when the collection is over no node has the job again.
CollectedStaysOut ==
    [][acked /\ (\A n \in Nodes : ~Has(n)) => \A n \in Nodes : ~Has(n)']_gcvars
=============================================================================
