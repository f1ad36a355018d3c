-------------------------------- MODULE Job ---------------------------------
(***************************************************************************)
(* The copy of a job that a node holds (struct job) and the functions of   *)
(* job.c, queue.c and ack.c that change it.  A function that both changes  *)
(* the copy and writes to the cluster bus returns [job, out]: the copy     *)
(* afterwards, or NoJob when the function released it, and the messages.   *)
(*                                                                         *)
(* n is always the node that runs the function ("myself"), retry says      *)
(* whether the RETRY of the job is not zero.                               *)
(***************************************************************************)
EXTENDS ClusterBus

CONSTANT NoJob          \* lookupJob() returned NULL

States == {"wait_repl", "active", "queued", "acked"}
Flags == WireFlags \cup {"DELIVERED"}

\* body: the copy has a queue and a body, FALSE for an ACK of an unknown job.
\* qtime: job->qtime is not zero.  confirmed: job->nodes_confirmed, {} for NULL
\* (an empty table is only found while the job waits for its replicas, where
\* no function tells it from NULL).
Job == [state : States, body : BOOLEAN, delivered : SUBSET Nodes,
        confirmed : SUBSET Nodes, qtime : BOOLEAN, flags : SUBSET Flags]

ASSUME NoJobAssumption == NoJob \notin Job

RetryFlag(retry) == IF retry THEN {"BCAST_WILLQUEUE"} ELSE {}

\* deserializeJob(): the copy made from a REPLJOB or YOURJOBS message.
DeserializeJob(m, retry) ==
    [state |-> "active", body |-> TRUE, delivered |-> m.delivered,
     confirmed |-> {}, qtime |-> retry, flags |-> m.flags \cup RetryFlag(retry)]

\* serializeJob(): the message that carries j; DELIVERED is a local flag.
SerializeJob(type, n, d, j, noreply) ==
    [type |-> type, src |-> n, dst |-> d, delivered |-> j.delivered,
     flags |-> j.flags \ {"DELIVERED"}, noreply |-> noreply]

BroadcastDelJob(n, j) == BroadcastJobIDMessage("DELJOB", n, j.delivered, 0)

\* Mutant: the sender does not count itself.
SendSetAckOthers(n, d, j) ==
    SendJobIDMessage("SETACK", n, d, Cardinality(j.delivered) - 1)

SendSetAck(n, d, j) ==
    SendJobIDMessage("SETACK", n, d, Cardinality(j.delivered))

-----------------------------------------------------------------------------
(* queue.c *)

\* Mutant: a job with RETRY 0 is queued like any other.
CanEnqueueAgain(j, retry) == j.state # "queued"

CanEnqueue(j, retry) ==
    /\ j.state # "queued"
    /\ j.qtime
    /\ retry \/ "DELIVERED" \notin j.flags

\* enqueueJob(): requeues after the first one, and NACKs, are announced.
EnqueueJob(n, j, retry, nack) ==
    IF CanEnqueue(j, retry)
    THEN [job |-> [j EXCEPT !.state = "queued", !.qtime = retry,
                            !.flags = @ \cup RetryFlag(retry) \cup
                                      (IF nack THEN {} ELSE {"BCAST_QUEUED"})],
          out |-> IF "BCAST_QUEUED" \in j.flags \/ nack
                  THEN BroadcastJobIDMessage("QUEUED", n, j.delivered, 0)
                  ELSE {}]
    ELSE [job |-> j, out |-> {}]

\* dequeueJob()
DequeueJob(j) == IF j.state = "queued" THEN [j EXCEPT !.state = "active"] ELSE j

\* queueFetchJob()
FetchJob(j) == [j EXCEPT !.state = "active", !.flags = @ \cup {"DELIVERED"}]

-----------------------------------------------------------------------------
(* ack.c *)

\* acknowledgeJob()
AcknowledgeJob(j) ==
    IF j.state = "acked" THEN j
    ELSE [j EXCEPT !.state = "acked", !.confirmed = {}]

DummyAck(j) == j.delivered = {}

\* tryJobGC(), for an acknowledged job: the job is released when as many nodes
\* confirmed the acknowledge as may have the job, else it is sent to the others.
TryJobGC(n, j) ==
    LET confirmed == IF j.confirmed = {} THEN {n} ELSE j.confirmed
        allNodesReached ==
            ~DummyAck(j) /\ Cardinality(j.delivered) = Cardinality(confirmed)
        dummyAckSingleNode == DummyAck(j) /\ Cardinality(Nodes) = 1
        targets == IF DummyAck(j) THEN Nodes ELSE j.delivered
    IN  IF allNodesReached \/ dummyAckSingleNode
        THEN [job |-> NoJob, out |-> {}]
        ELSE [job |-> [j EXCEPT !.confirmed = confirmed],
              out |-> UNION {SendSetAck(n, d, j) : d \in targets \ confirmed}]

\* gotAckReceived(): known says whether the sender has a copy.
GotAckReceived(n, src, j, known) ==
    LET may == known \/ src \in j.delivered
        merged == [j EXCEPT
            !.delivered = IF may THEN @ \cup {src} ELSE @,
            !.confirmed = IF DummyAck(j) \/ (may /\ @ # {}) THEN @ \cup {src}
                          ELSE @]
    IN  CASE j.state # "acked"     -> [job |-> j, out |-> {}]
          [] j.state = "acked" /\ DummyAck(j) ->
               [job |-> IF \/ known
                           \/ Cardinality(merged.confirmed) >= Cardinality(Nodes)
                        THEN NoJob ELSE merged,
                out |-> {}]
          [] j.state = "acked" /\ ~DummyAck(j) ->
               IF /\ merged.confirmed # {}
                  /\ Cardinality(merged.confirmed) >= Cardinality(merged.delivered)
               THEN [job |-> NoJob, out |-> BroadcastDelJob(n, merged)]
               ELSE [job |-> merged, out |-> {}]
=============================================================================
