-------------------------- MODULE FailureDetector --------------------------
(***************************************************************************)
(* The failure detector of cluster.c, seen as what the nodes of a cluster  *)
(* (Observers) come to believe about one more node, the subject.  Each     *)
(* observer pings the subject over a link of its own, flags it PFAIL when  *)
(* a PONG is late, tells the others in the gossip section of its pings and *)
(* pongs, and flags it FAIL when a majority agrees or says so.             *)
(*                                                                         *)
(* Times are kept as ages in ticks, up to the first age that no comparison *)
(* tells from later ones.                                                  *)
(***************************************************************************)
EXTENDS Integers, FiniteSets

CONSTANTS Observers,  \* the nodes that watch the subject
          Failures,   \* sets of observers whose paths to the subject fail
                      \* together: all of them when the subject crashes
          Errors,     \* how a connection to a failed node ends: subset of
                      \* {"sync", "refused", "silent"}
          Timely,     \* pongs and gossip arrive at once, FAIL packets at any time
          Timeout,    \* cluster_node_timeout, in ticks
          Losses      \* whether the observers lose each other's packets

VARIABLES net,      \* path of an observer to the subject: "up" or an error
          flag,     \* "ok", "pfail", "fail": flags of the subject's node
          ping,     \* age of ping_sent, None when 0
          pong,     \* age of pong_received
          link,     \* age of link->ctime, None when link is NULL
          reports,  \* fail_reports: records of a reporter and an age
          bus,      \* packets in flight from an observer to another
          accused   \* history: the observers whose own pings led to PFAIL

vars == <<net, flag, ping, pong, link, reports, bus, accused>>

None == -1
Validity == 2 * Timeout         \* CLUSTER_FAIL_REPORT_VALIDITY_MULT
Quorum == ((Cardinality(Observers) + 1) \div 2) + 1
Capped(n, cap) == IF n < cap THEN n ELSE cap
Older(age, cap) == IF age = None THEN None ELSE Capped(age + 1, cap)

Init ==
    /\ net = [o \in Observers |-> "up"]
    /\ flag = [o \in Observers |-> "ok"]
    /\ ping = [o \in Observers |-> None]
    /\ pong = [o \in Observers |-> Timeout]
    /\ link = [o \in Observers |-> None]
    /\ reports = [o \in Observers |-> {}]
    /\ bus = [o \in Observers |-> [p \in Observers |-> {}]]
    /\ accused = {}

(***************************************************************************)
(* Failure reports.                                                        *)
(***************************************************************************)
\* Mutant: a second report of the same node is appended, not refreshed.
AddReportTwice(rs, sender) == rs \cup {[node |-> sender, age |-> 0]}

AddFailureReport(rs, sender) ==
    {r \in rs : r.node # sender} \cup {[node |-> sender, age |-> 0]}

DelFailureReport(rs, sender) == {r \in rs : r.node # sender}

CleanupFailureReports(rs) == {r \in rs : r.age <= Validity}

\* Mutant: the node need not be in PFAIL state here.
MarkedByOthers(o, rs) ==
    /\ flag[o] # "fail"
    /\ Cardinality(CleanupFailureReports(rs)) + 1 >= Quorum

Marked(o, rs) ==
    /\ flag[o] = "pfail"
    /\ Cardinality(CleanupFailureReports(rs)) + 1 >= Quorum

(***************************************************************************)
(* The gossip section of a packet from o to p has an entry about the       *)
(* subject only when o has a link to it; which of the nodes get an entry   *)
(* is random.  Packets of the two links between o and p may pass each      *)
(* other, so the bus is a set.                                             *)
(***************************************************************************)
\* Mutant: nodes in PFAIL state are gossiped as healthy.
EntryWithoutPfail(o) == IF flag[o] = "fail" THEN "failing" ELSE "healthy"

Entry(o) == IF flag[o] = "ok" THEN "healthy" ELSE "failing"

clusterSendPing(o, p) ==
    /\ o # p /\ ~Timely
    /\ link[o] # None
    /\ bus[o][p] \subseteq {"FAIL"}   \* bound: one entry in flight
    /\ bus' = [bus EXCEPT ![o][p] = @ \cup {Entry(o)}]
    /\ UNCHANGED <<net, flag, ping, pong, link, reports, accused>>

SendFail(o, b) == [b EXCEPT ![o] = [p \in Observers |->
                     IF p = o THEN b[o][p] ELSE b[o][p] \cup {"FAIL"}]]

\* Node p, with the bus left as it is in took, finds an entry of o.
ProcessGossipSection(o, p, entry, took) ==
    LET rs == IF entry = "failing" THEN AddFailureReport(reports[p], o)
              ELSE DelFailureReport(reports[p], o)
        mark == entry = "failing" /\ Marked(p, rs)
    IN  /\ reports' = [reports EXCEPT ![p] = CleanupFailureReports(rs)]
        /\ flag' = IF mark THEN [flag EXCEPT ![p] = "fail"] ELSE flag
        /\ bus' = IF mark THEN SendFail(p, took) ELSE took
        /\ UNCHANGED <<net, ping, pong, link, accused>>

ReceiveGossip(o, p) ==
    \E entry \in bus[o][p] \ {"FAIL"} :
        ProcessGossipSection(o, p, entry, [bus EXCEPT ![o][p] = @ \ {entry}])

\* The same without delay.
Gossip(o, p) ==
    /\ o # p /\ Timely
    /\ link[o] # None
    /\ ProcessGossipSection(o, p, Entry(o), bus)

ReceiveFail(o, p) ==
    /\ "FAIL" \in bus[o][p]
    /\ bus' = [bus EXCEPT ![o][p] = @ \ {"FAIL"}]
    /\ flag' = [flag EXCEPT ![p] = "fail"]
    /\ UNCHANGED <<net, ping, pong, link, reports, accused>>

(***************************************************************************)
(* clusterCron: connect if there is no link, ping at random or because the *)
(* last pong is old, recycle a link that does not answer, flag PFAIL.  The *)
(* state of the subject's node is a record, transformed step by step.      *)
(***************************************************************************)
Subject(o) == [flag |-> flag[o], ping |-> ping[o], pong |-> pong[o], link |-> link[o]]

Pinged(s) == [s EXCEPT !.ping = 0]

Connect(o, s) ==
    IF s.link # None THEN s
    ELSE IF net[o] = "sync" THEN [s EXCEPT !.ping = IF @ = None THEN 0 ELSE @]
    ELSE [s EXCEPT !.link = 0, !.ping = IF @ = None THEN 0 ELSE @]

RandomPing(s) == {s} \cup (IF s.link # None /\ s.ping = None THEN {Pinged(s)} ELSE {})

Recycle(s) ==
    IF s.link > Timeout /\ s.ping > Timeout \div 2
    THEN [s EXCEPT !.link = None] ELSE s

CheckPong(s) ==
    IF s.link # None /\ s.ping = None /\ s.pong > Timeout \div 2 THEN Pinged(s)
    ELSE IF s.ping > Timeout /\ s.flag = "ok" THEN [s EXCEPT !.flag = "pfail"]
    ELSE s

clusterCron(o) ==
    \E s \in RandomPing(Connect(o, Subject(o))) :
      LET t == CheckPong(Recycle(s))
      IN  /\ flag' = [flag EXCEPT ![o] = t.flag]
          /\ ping' = [ping EXCEPT ![o] = t.ping]
          /\ link' = [link EXCEPT ![o] = t.link]
          /\ accused' = IF t.flag = "pfail" THEN accused \cup {o} ELSE accused
          /\ UNCHANGED <<net, pong, reports, bus>>

(***************************************************************************)
(* The subject and the network.                                            *)
(***************************************************************************)
\* On a link with an active ping a PING has been sent: the subject, when it
\* is reachable, answers.
ReceivePong(o) ==
    /\ link[o] # None /\ ping[o] # None /\ net[o] = "up"
    /\ ping' = [ping EXCEPT ![o] = None]
    /\ pong' = [pong EXCEPT ![o] = 0]
    /\ flag' = [flag EXCEPT ![o] = "ok"]
    /\ UNCHANGED <<net, link, reports, bus, accused>>

\* The socket reports an error: handleLinkIOError frees the link.
LinkError(o) ==
    /\ link[o] # None /\ net[o] \in {"refused", "sync"}
    /\ link' = [link EXCEPT ![o] = None]
    /\ UNCHANGED <<net, flag, ping, pong, reports, bus, accused>>

\* A link that went silent is dead once the path is back: a new connection
\* is needed, which the error of the old one or clusterCron brings about.
Repair(os) ==
    /\ \A o \in os : net[o] # "up"
    /\ net' = [o \in Observers |-> IF o \in os THEN "up" ELSE net[o]]
    /\ link' = [o \in Observers |-> IF o \in os THEN None ELSE link[o]]
    /\ UNCHANGED <<flag, ping, pong, reports, bus, accused>>

Fail(os, error) ==
    /\ \A o \in os : net[o] = "up"
    /\ net' = [o \in Observers |-> IF o \in os THEN error ELSE net[o]]
    /\ UNCHANGED <<flag, ping, pong, link, reports, bus, accused>>

LosePackets(o, p) ==
    /\ Losses /\ bus[o][p] # {}
    /\ bus' = [bus EXCEPT ![o][p] = {}]
    /\ UNCHANGED <<net, flag, ping, pong, link, reports, accused>>

\* Time passes; when pongs are timely, not before the expected ones arrived.
Tick ==
    /\ Timely => \A o \in Observers :
         net[o] = "up" => link[o] # None /\ ping[o] = None
    /\ ping' = [o \in Observers |-> Older(ping[o], Timeout + 1)]
    /\ pong' = [o \in Observers |-> Older(pong[o], Timeout)]
    /\ link' = [o \in Observers |-> Older(link[o], Timeout + 1)]
    /\ reports' = [o \in Observers |-> CleanupFailureReports(
                     {[r EXCEPT !.age = @ + 1] : r \in reports[o]})]
    /\ UNCHANGED <<net, flag, bus, accused>>

Next ==
    \/ \E o \in Observers : clusterCron(o) \/ ReceivePong(o) \/ LinkError(o)
    \/ \E o, p \in Observers :
         \/ clusterSendPing(o, p) \/ ReceiveGossip(o, p) \/ Gossip(o, p)
         \/ ReceiveFail(o, p) \/ LosePackets(o, p)
    \/ \E os \in Failures : Repair(os) \/ \E error \in Errors : Fail(os, error)
    \/ Tick

Spec == Init /\ [][Next]_vars

(***************************************************************************)
(* The event loop runs clusterCron ten times a second and the handlers of  *)
(* ready sockets at every iteration; the random choice of gossip entries   *)
(* picks the subject again and again.                                      *)
(***************************************************************************)
Fairness ==
    /\ WF_vars(Tick)
    /\ \A o \in Observers :
         /\ WF_vars(clusterCron(o))
         /\ WF_vars(ReceivePong(o)) /\ WF_vars(LinkError(o))
    /\ \A o, p \in Observers :
         SF_vars(Gossip(o, p)) /\ WF_vars(ReceiveFail(o, p))

FairSpec == Spec /\ Fairness
-----------------------------------------------------------------------------
TypeOK ==
    /\ flag \in [Observers -> {"ok", "pfail", "fail"}]
    /\ ping \in [Observers -> None..(Timeout + 1)]
    /\ link \in [Observers -> None..(Timeout + 1)]
    /\ \A o \in Observers : \A r \in reports[o] : r.node # o /\ r.age \in 0..Validity

\* Wherever the subject is flagged FAIL, a majority of the cluster found it
\* unreachable by its own pings: markNodeAsFailingIfNeeded counts each
\* reporter once, and FAIL packets only spread what a majority established.
FailNeedsMajority ==
    (\E o \in Observers : flag[o] = "fail") => Cardinality(accused) >= Quorum

\* While the failed paths are those of a minority, and pongs arrive in time,
\* no node is ever flagged FAIL, whatever the order of gossip, expiry and loss.
MinorityCannotFail == \A o \in Observers : flag[o] # "fail"

\* The observers come to agree: a subject that stays unreachable is eventually
\* flagged FAIL by everybody for good (PFAIL by clusterCron, FAIL by gossip or
\* by a FAIL packet), one that stays reachable is trusted again by everybody
\* (the PONG clears both flags and late FAIL packets do not last).
ObserversAgree ==
    /\ <>[](\A o \in Observers : net[o] # "up") => <>[](\A o \in Observers : flag[o] = "fail")
    /\ <>[](\A o \in Observers : net[o] = "up") => <>[](\A o \in Observers : flag[o] = "ok")
=============================================================================
