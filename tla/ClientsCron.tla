----------------------------- MODULE ClientsCron -----------------------------
(***************************************************************************)
(* clientsCron() (server.c), which serverCron() calls hz times per second: *)
(* every call visits a few clients of server.clients and closes those that *)
(* are idle, answers those whose blocking time is over.                    *)
(*                                                                         *)
(* Time is counted in calls.  server.clients is a sequence here:           *)
(* LinkedList shows that adlist.c implements one.  What else a visit does  *)
(* is in Federation (NEEDJOBS) and JobProtocol (delayed replication).      *)
(***************************************************************************)
EXTENDS Integers, Sequences, FiniteSets, SequencesExt, FiniteSetsExt

CONSTANTS Clients,
          Connected,     \* those connected from the beginning, in a sequence
          Hz,            \* server.hz
          MinIterations, \* CLIENTS_CRON_MIN_ITERATIONS
          MaxIdle,       \* server.maxidletime in calls, 0: no limit
          BlockTimes,    \* timeouts of blocking commands, in calls
          Arrivals,      \* clients connect while the server runs
          Commands,      \* clients send commands and disconnect
          MaxNow         \* bound: the time, which then stands still

VARIABLES now,      \* calls of clientsCron so far
          clients,  \* server.clients
          client,   \* client -> [blocked, timeout, last], last: lastinteraction
          leaving,  \* this node is leaving the cluster
          told,     \* clients that the last call answered
          visits    \* history: <<c, d>> -> visits of d since the last of c, 2 for more;
                    \* <<c, c>> -> 1 when c was visited

vars == <<now, clients, client, leaving, told, visits>>

Idle(t) == [blocked |-> FALSE, timeout |-> 0, last |-> t]

Init ==
    /\ now = 0
    /\ clients = Connected
    /\ client = [c \in Clients |-> Idle(0)]
    /\ leaving = FALSE
    /\ told = {}
    /\ visits = [p \in Clients \X Clients |-> 0]

Member(c) == Contains(clients, c)

\* How many clients a call visits.
Iterations(n) == IF n \div Hz < MinIterations THEN Min({n, MinIterations}) ELSE n \div Hz

\* clientsCronHandleTimeout() of s; the answer is written before the next call,
\* which is an interaction.  s is [list, client, told, seen]; the
\* head is the client of this iteration.
HandleTimeout(s) ==
    LET c == s.list[1]
        x == s.client[c]
    IN  IF MaxIdle # 0 /\ ~x.blocked /\ now - x.last > MaxIdle
        THEN [s EXCEPT !.list = Tail(@)]                                 \* freeClient()
        ELSE IF x.blocked /\ ((x.timeout # 0 /\ x.timeout < now) \/ leaving)
        THEN [s EXCEPT !.client[c] = Idle(now), !.told = @ \cup {c}]
        ELSE s

\* Mutant: the list is not rotated, its head is taken each time.
VisitHead(s) == IF s.list = <<>> THEN s ELSE HandleTimeout([s EXCEPT !.seen = Append(@, s.list[1])])

\* listRotate(), then the client at the head.
Visit(s) ==
    IF s.list = <<>> THEN s
    ELSE LET rotated == <<Last(s.list)>> \o Front(s.list)
         IN  HandleTimeout([s EXCEPT !.list = rotated, !.seen = Append(@, rotated[1])])

\* visits with one more visit of d.
Count(v, d) == [p \in DOMAIN v |-> 
    IF p = <<d, d>> THEN 1 ELSE IF p[1] = d THEN 0
    ELSE IF p[2] = d THEN Min({v[p] + 1, 2}) ELSE v[p]]

clientsCron ==
    \E s \in {FoldLeft(LAMBDA x, i : Visit(x),
                       [list |-> clients, client |-> client, told |-> {}, seen |-> <<>>],
                       [i \in 1 .. Iterations(Len(clients)) |-> i])} :
        /\ now' = Min({now + 1, MaxNow})
        /\ clients' = s.list
        /\ client' = s.client
        /\ told' = s.told
        /\ visits' = FoldLeft(Count, visits, s.seen)
        /\ UNCHANGED leaving

\* createClient(): listAddNodeTail().
createClient(c) ==
    /\ Arrivals /\ ~Member(c)
    /\ clients' = Append(clients, c)
    /\ client' = [client EXCEPT ![c] = Idle(now)]
    /\ visits' = [p \in DOMAIN visits |-> IF c \in {p[1], p[2]} THEN 0 ELSE visits[p]]
    /\ UNCHANGED <<now, leaving, told>>

\* unlinkClient(), when the connection is closed.
freeClient(c) ==
    /\ Commands /\ Member(c)
    /\ clients' = Remove(clients, c)
    /\ UNCHANGED <<now, client, leaving, told, visits>>

processCommand(c) ==
    /\ Commands /\ Member(c) /\ ~client[c].blocked /\ client[c].last # now
    /\ client' = [client EXCEPT ![c].last = now]
    /\ UNCHANGED <<now, clients, leaving, told, visits>>

\* blockClient(), by a command with a timeout.
blockClient(c, t) ==
    /\ Member(c) /\ ~client[c].blocked /\ ~leaving /\ c \notin told
    /\ now + t < MaxNow
    /\ client' = [client EXCEPT ![c] = [blocked |-> TRUE, timeout |-> now + t, last |-> now]]
    /\ UNCHANGED <<now, clients, leaving, told, visits>>

leave ==
    /\ Commands /\ ~leaving
    /\ leaving' = TRUE
    /\ UNCHANGED <<now, clients, client, told, visits>>

Next ==
    \/ \E c \in Clients : \/ createClient(c) \/ freeClient(c) \/ processCommand(c)
                          \/ \E t \in BlockTimes : blockClient(c, t)
    \/ clientsCron
    \/ leave

Spec == Init /\ [][Next]_vars

\* The timer of serverCron() fires as long as the server runs.
FairSpec == Spec /\ WF_vars(clientsCron)

-----------------------------------------------------------------------------
TypeOK ==
    /\ IsInjective(clients)
    /\ ToSet(clients) \subseteq Clients
    /\ \A c \in Clients : client[c].last <= now /\ (client[c].blocked => client[c].timeout <= now + Max(BlockTimes))

\* Visits are fair: between two visits of a client no other client is visited
\* twice, however many clients are closed in between, by themselves or by the
\* visit.
RoundRobin == \A c \in ToSet(clients), d \in Clients : visits[c, d] <= 1

\* Calls until every one of the first clients was visited.
Lap == (Len(Connected) + MinIterations - 1) \div MinIterations

\* A client blocked with a timeout is answered at the latest when all the
\* clients were visited once after it.
TimedOutInTime ==
    \A c \in ToSet(clients) : client[c].blocked => now <= client[c].timeout + Lap + 1

\* An idle client is closed at the latest when all the clients were visited
\* once after its time is over; one that was active in time is not.
IdleClosedInTime ==
    \A c \in ToSet(clients) :
        (MaxIdle # 0 /\ ~client[c].blocked) => now - client[c].last <= MaxIdle + Lap + 1

\* "In the worst case we process all the clients in 1 second" (clientsCron):
\* hz calls visit every client that is connected all the time.
AllInOneSecond == now = Hz => \A c \in ToSet(clients) : visits[c, c] = 1

\* The "contract of processing each client once per second" (clientsCron): a
\* blocked client whose time is over is answered in the end, whoever connects
\* and disconnects.
TimedOutAnswered ==
    \A c \in Clients : (Member(c) /\ client[c].blocked) ~> (~client[c].blocked \/ ~Member(c))
=============================================================================
