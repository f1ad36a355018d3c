----------------------------- MODULE ClusterBus -----------------------------
(***************************************************************************)
(* The messages about one job that Disque nodes exchange on the cluster    *)
(* bus, and the state of the links between the nodes.                      *)
(*                                                                         *)
(* A message is delivered at most once, and after any delay.  Messages are *)
(* not ordered: two nodes write to different links, and after a reconnection *)
(* the data of the old and of the new link between the same two nodes can  *)
(* be read in either order.                                                *)
(***************************************************************************)
EXTENDS Integers, FiniteSets, Bags

CONSTANT Nodes          \* the nodes of the cluster (server.cluster->nodes)

\* compareNodeIDsByJob() orders the nodes, for every job, in a total order:
\* a node is its rank in the order of the job the model is about.
ASSUME NodesAssumption == Nodes \subseteq Nat /\ IsFiniteSet(Nodes)

\* The job flags that travel with a serialized job (JOB_FLAG_*).
WireFlags == {"BCAST_QUEUED", "BCAST_WILLQUEUE"}

\* Messages that carry the job ID and an auxiliary number.
IDTypes == {"GOTJOB", "SETACK", "GOTACK", "DELJOB", "ENQUEUE", "QUEUED",
            "WORKING", "WILLQUEUE"}
IDMessages == [type : IDTypes, src : Nodes, dst : Nodes, aux : Nat]

\* Messages that carry the serialized job.  Of the job they carry what the
\* protocol does not fix once and for all: the nodes that may have a copy and
\* the flags.  noreply is CLUSTERMSG_FLAG0_NOREPLY.
JobMessages ==
    [type : {"REPLJOB", "YOURJOBS"}, src : Nodes, dst : Nodes,
     delivered : SUBSET Nodes, flags : SUBSET WireFlags, noreply : BOOLEAN]

Messages == IDMessages \cup JobMessages

\* clusterSendJobIDMessage(): one message; a node has no link to itself.
SendJobIDMessage(type, src, dst, aux) ==
    IF src = dst THEN {}
    ELSE {[type |-> type, src |-> src, dst |-> dst, aux |-> aux]}

\* clusterBroadcastJobIDMessage(): the same message to every other node.
BroadcastJobIDMessage(type, src, dsts, aux) ==
    {[type |-> type, src |-> src, dst |-> d, aux |-> aux] : d \in dsts \ {src}}

\* The bag of messages in flight after `in' was read and `out' was written.
Deliver(net, in, out) == (net (-) SetToBag(in)) (+) SetToBag(out)
=============================================================================
