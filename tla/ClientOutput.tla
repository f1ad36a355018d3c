---------------------------- MODULE ClientOutput ----------------------------
(***************************************************************************)
(* The life of the clients of a node and of the replies on their way to    *)
(* them (networking.c, blocked.c): creation and release, the static buffer *)
(* and the list of replies, the list of clients with pending writes that   *)
(* is served before the event loop sleeps, the write handler for what did  *)
(* not fit, the limits of the output buffers, the asynchronous close, and  *)
(* the CLIENT command.                                                     *)
(*                                                                         *)
(* A byte of a reply is its number in the order in which the commands of   *)
(* the client produced them; a client is the pointer to its structure, so  *)
(* a list that still holds a released client shows as such.                *)
(***************************************************************************)
EXTENDS Integers, Sequences, SequencesExt, FiniteSets, FiniteSetsExt

CONSTANTS Clients,     \* pointers to client structures
          MaxClients,  \* server.maxclients
          Commands,    \* the kinds of commands clients send
          Sizes,       \* the sizes of replies
          MaxMade,     \* bound: no command starts once so many bytes were made
          BufSize,     \* PROTO_REPLY_CHUNK_BYTES, the static buffer
          Chunk,       \* PROTO_REPLY_CHUNK_BYTES, a node of the list
          Hard,        \* hard_limit_bytes, 0 for none
          Soft,        \* soft_limit_bytes, 0 for none
          SoftSeconds, \* soft_limit_seconds
          Failures     \* which calls may fail: a subset of {"write", "aeCreateFileEvent"}

VARIABLES c,          \* the client structures
          pending,    \* server.clients_pending_write
          toClose,    \* server.clients_to_close
          unblocked,  \* server.unblocked_clients
          monitors,   \* server.monitors
          paused      \* server.clients_paused

vars == <<c, pending, toClose, unblocked, monitors, paused>>

\* The lists and structures as one value: what the functions below work on.
Server == [c |-> c, pending |-> pending, toClose |-> toClose, unblocked |-> unblocked,
           monitors |-> monitors]
Becomes(t) == \E s \in {t} : /\ c' = s.c /\ pending' = s.pending /\ toClose' = s.toClose
                              /\ unblocked' = s.unblocked /\ monitors' = s.monitors

\* createClient. A node of the reply list is a sequence of bytes; NULL, the
\* placeholder of a length not known yet, is the sequence <<0>>.
Fresh == [live |-> FALSE, buf |-> <<>>, sentlen |-> 0, reply |-> <<>>, reply_bytes |-> 0,
          PENDING_WRITE |-> FALSE, CLOSE_AFTER_REPLY |-> FALSE, CLOSE_ASAP |-> FALSE,
          REPLY_OFF |-> FALSE, REPLY_SKIP |-> FALSE, REPLY_SKIP_NEXT |-> FALSE,
          BLOCKED |-> FALSE, UNBLOCKED |-> FALSE, MONITOR |-> FALSE,
          handler |-> FALSE,     \* sendReplyToClient is installed
          soft_since |-> -1,     \* seconds since obuf_soft_limit_reached_time, -1 unset
          over |-> -1,           \* seconds the soft limit was really exceeded for, -1 not
          skipped |-> FALSE,     \* the command being served followed a CLIENT REPLY SKIP
          made |-> 0,            \* the bytes of replies the client must get
          written |-> 0]         \* the bytes of them the socket took
createClient == [Fresh EXCEPT !.live = TRUE]
NULL == <<0>>

MinOf(a, b) == IF a < b THEN a ELSE b
Live(s) == {k \in Clients : s.c[k].live}
Drop(k, list) == SelectSeq(list, LAMBDA x : x # k)

-----------------------------------------------------------------------------
(* Closing.                                                                *)

\* unblockClient, for the operation a client was blocked for.
unblockClient(s, k) ==
    [s EXCEPT !.c[k].BLOCKED = FALSE, !.c[k].UNBLOCKED = TRUE,
              !.unblocked = IF s.c[k].UNBLOCKED THEN @ ELSE Append(@, k)]

\* unlinkClient: the lists are searched by the flags of the client.
unlinkClient(s, k) ==
    [s EXCEPT !.pending = IF s.c[k].PENDING_WRITE THEN Drop(k, @) ELSE @,
              !.unblocked = IF s.c[k].UNBLOCKED THEN Drop(k, @) ELSE @]

freeClient(s, k) ==
    LET u == unlinkClient(IF s.c[k].BLOCKED THEN unblockClient(s, k) ELSE s, k)
    IN [u EXCEPT !.monitors = IF s.c[k].MONITOR THEN Drop(k, @) ELSE @,
                 !.toClose = IF s.c[k].CLOSE_ASAP THEN Drop(k, @) ELSE @,
                 !.c[k] = Fresh]

freeClientAsync(s, k) ==
    IF s.c[k].CLOSE_ASAP THEN s
    ELSE [s EXCEPT !.c[k].CLOSE_ASAP = TRUE, !.toClose = Append(@, k)]

\* freeClientsInAsyncFreeQueue.
FreeQueued(s) == FoldLeft(LAMBDA acc, k : [freeClient([acc EXCEPT !.c[k].CLOSE_ASAP = FALSE], k)
                                              EXCEPT !.toClose = Tail(@)], s, s.toClose)

-----------------------------------------------------------------------------
(* The output buffers.                                                     *)

TotalLen(list) == FoldLeft(LAMBDA n, node : n + Len(node), 0, list)
clientHasPendingReplies(k) == k.buf # <<>> \/ k.reply # <<>>

\* What is still to be written, in the order writeToClient takes it.
Unsent(k) ==
    LET all == IF k.buf # <<>> THEN k.buf \o FlattenSeq(k.reply) ELSE FlattenSeq(k.reply)
    IN SubSeq(all, k.sentlen + 1, Len(all))

\* getClientOutputBufferMemoryUsage; a node of the list counts for one byte.
MemoryUsage(k) == k.reply_bytes + Len(k.reply)

OverHard(k) == Hard # 0 /\ MemoryUsage(k) >= Hard
OverSoft(k) == Soft # 0 /\ MemoryUsage(k) >= Soft

\* checkClientOutputBufferLimits: its answer, and the time it notes.
SoftReached(k) == OverSoft(k) /\ k.soft_since > SoftSeconds
NoteSoft(k) == IF ~ OverSoft(k) THEN -1 ELSE IF k.soft_since = -1 THEN 0 ELSE k.soft_since

\* The real time over the soft limit, for the property (not in the code).
Measure(k) == [k EXCEPT !.over = IF ~ OverSoft(k) THEN -1 ELSE IF @ = -1 THEN 0 ELSE @]

asyncCloseClientOnOutputBufferLimitReached(s, k) ==
    LET x == s.c[k]
        noted == [s EXCEPT !.c[k] = Measure([x EXCEPT !.soft_since = NoteSoft(x)])]
    IN IF x.reply_bytes = 0 \/ x.CLOSE_ASAP THEN s
       ELSE IF OverHard(x) \/ SoftReached(x) THEN freeClientAsync(noted, k) ELSE noted

\* prepareClientToWrite: whether a reply may be added, and the client put into
\* the list of the ones to write to.
MayWrite(x) == ~ x.REPLY_OFF /\ ~ x.REPLY_SKIP
\* Mutant: only the flag is looked at, and set only by the first reply.
ScheduleOnce(s, k) ==
    IF s.c[k].made > 0 \/ s.c[k].PENDING_WRITE THEN s
    ELSE [s EXCEPT !.c[k].PENDING_WRITE = TRUE, !.pending = <<k>> \o @]
Schedule(s, k) ==
    IF clientHasPendingReplies(s.c[k]) \/ s.c[k].PENDING_WRITE THEN s
    ELSE [s EXCEPT !.c[k].PENDING_WRITE = TRUE, !.pending = <<k>> \o @]

\* _addReplyToBuffer: only while the list is empty and the bytes fit.
\* Mutant: the list is not checked to be empty.
FitsBufferAlways(x, n) == n <= BufSize - Len(x.buf)
FitsBuffer(x, n) == x.reply = <<>> /\ n <= BufSize - Len(x.buf)

\* The three _addReply...ToList functions.
AddToList(list, data) ==
    IF list = <<>> \/ Last(list) = NULL \/ Len(Last(list)) + Len(data) > Chunk
    THEN Append(list, data)
    ELSE Front(list) \o << Last(list) \o data >>

\* addReply and its variants, for n bytes.
addReply(s, k, n) ==
    LET x == s.c[k]
        data == [i \in 1 .. n |-> x.made + i]
        p == Schedule(s, k)
    IN IF ~ MayWrite(x) THEN s
       ELSE IF x.CLOSE_AFTER_REPLY THEN p
       ELSE IF FitsBuffer(x, n)
       THEN [p EXCEPT !.c[k].buf = @ \o data, !.c[k].made = @ + n]
       ELSE asyncCloseClientOnOutputBufferLimitReached(
                [p EXCEPT !.c[k].reply = AddToList(@, data), !.c[k].reply_bytes = @ + n,
                          !.c[k].made = @ + n], k)

\* setDeferredMultiBulkLength of the node at i: its byte len, glued to the next node.
setDeferredMultiBulkLength(s, k, i, len) ==
    LET list == s.c[k].reply
        node == IF i < Len(list) THEN <<len>> \o list[i + 1] ELSE <<len>>
    IN asyncCloseClientOnOutputBufferLimitReached(
           [s EXCEPT !.c[k].reply = SubSeq(list, 1, i - 1) \o <<node>> \o SubSeq(list, i + 2, Len(list)),
                     !.c[k].reply_bytes = @ + 1], k)

\* A reply with a length only known at its end: addDeferredMultiBulkLength, two
\* elements, setDeferredMultiBulkLength.
DeferredReply(s, k, n) ==
    LET first == s.c[k].made + 1
        p == [Schedule(s, k) EXCEPT !.c[k].reply = Append(@, NULL), !.c[k].made = first]
        i == Len(p.c[k].reply)
    IN IF ~ MayWrite(s.c[k]) THEN s
       ELSE setDeferredMultiBulkLength(addReply(addReply(p, k, n), k, n), k, i, first)

-----------------------------------------------------------------------------
(* Writing.                                                                *)

\* The writes of writeToClient: the socket takes w bytes more. The buffer and
\* the nodes that were sent are cleared, an empty node with them; sentlen is
\* how much of the first one left was sent.
WriteBytes(x, w) ==
    LET nodes == IF x.buf = <<>> THEN x.reply ELSE <<x.buf>> \o x.reply
        upTo(n) == TotalLen(SubSeq(nodes, 1, n))
        sent == Max({n \in 0 .. Len(nodes) : upTo(n) <= x.sentlen + w})
        left == SubSeq(nodes, sent + 1, Len(nodes))
        reply == IF sent = 0 THEN x.reply ELSE left
    IN [x EXCEPT !.buf = IF sent = 0 THEN @ ELSE <<>>,
                 !.reply = reply,
                 !.reply_bytes = @ - (TotalLen(x.reply) - TotalLen(reply)),
                 !.sentlen = @ + w - upTo(sent),
                 !.written = @ + w]

\* What a socket does with a write: takes some bytes, then blocks or fails.
Outcomes(s, k) ==
    [taken : 0 .. Len(Unsent(s.c[k])), fails : IF "write" \in Failures THEN BOOLEAN ELSE {FALSE}]

writeToClient(s, k, o) ==
    LET x == WriteBytes(s.c[k], o.taken)
        w == [s EXCEPT !.c[k] = Measure(x)]
    IN IF o.fails /\ clientHasPendingReplies(x) THEN freeClient(w, k)
       ELSE IF clientHasPendingReplies(x) THEN w
       ELSE IF x.CLOSE_AFTER_REPLY THEN freeClient(w, k)
       ELSE [w EXCEPT !.c[k].sentlen = 0, !.c[k].handler = FALSE]

\* The write handler is installed for what could not be written at once.
InstallHandler(s, k) ==
    IF ~ s.c[k].live \/ ~ clientHasPendingReplies(s.c[k]) THEN {s}
    ELSE {[s EXCEPT !.c[k].handler = TRUE]}
         \cup (IF "aeCreateFileEvent" \in Failures THEN {freeClientAsync(s, k)} ELSE {})

\* handleClientsWithPendingWrites: what it may leave, over all socket outcomes.
RECURSIVE PendingWrites(_)
PendingWrites(s) ==
    IF s.pending = <<>> THEN {s}
    ELSE LET k == Head(s.pending)
             taken == [s EXCEPT !.c[k].PENDING_WRITE = FALSE, !.pending = Tail(@)]
             written == {writeToClient(t, k, o) : t \in {taken}, o \in Outcomes(s, k)}
         IN UNION {PendingWrites(r) : r \in UNION {InstallHandler(w, k) : w \in written}}

-----------------------------------------------------------------------------
(* The actions.                                                            *)

Init == /\ c = [k \in Clients |-> Fresh]
        /\ pending = <<>> /\ toClose = <<>> /\ unblocked = <<>> /\ monitors = <<>>
        /\ paused = "no"

\* acceptCommonHandler: a client too many is created, told and released.
acceptCommonHandler ==
    \E k \in Clients :
        /\ ~ c[k].live
        /\ LET s == [Server EXCEPT !.c[k] = createClient]
           IN Becomes(IF Cardinality(Live(s)) > MaxClients THEN freeClient(s, k) ELSE s)
        /\ UNCHANGED paused

\* replicationFeedMonitors, called for every command.
FeedMonitors(s) == FoldLeft(LAMBDA acc, k : addReply(acc, k, 1), s, s.monitors)

\* CLIENT KILL of the clients in victims, by client k.
ClientKill(s, k, victims) ==
    LET others == SetToSeq((victims \cap Live(s)) \ {k})
        killed == addReply(FoldLeft(LAMBDA acc, v : freeClient(acc, v), s, others), k, 1)
    IN IF k \in victims THEN [killed EXCEPT !.c[k].CLOSE_AFTER_REPLY = TRUE] ELSE killed

\* What command cmd of client k may leave.
Execute(s, k, cmd) ==
    CASE cmd = "reply" -> {addReply(s, k, n) : n \in Sizes}
      [] cmd = "deferred" -> {DeferredReply(s, k, n) : n \in Sizes \cup {0}}
      [] cmd = "block" -> {[s EXCEPT !.c[k].BLOCKED = TRUE]}
      [] cmd = "off" -> {[s EXCEPT !.c[k].REPLY_OFF = TRUE]}
      [] cmd = "on" -> {addReply([s EXCEPT !.c[k].REPLY_OFF = FALSE, !.c[k].REPLY_SKIP = FALSE], k, 1)}
      [] cmd = "skip" -> {[s EXCEPT !.c[k].REPLY_SKIP_NEXT = @ \/ ~ s.c[k].REPLY_OFF]}
      [] cmd = "kill" -> {ClientKill(s, k, victims) : victims \in SUBSET Clients}
      [] cmd = "monitor" -> {IF s.c[k].MONITOR THEN s
                             ELSE addReply([s EXCEPT !.c[k].MONITOR = TRUE, !.monitors = Append(@, k)], k, 1)}
      [] cmd = "quit" -> {[addReply(s, k, 1) EXCEPT !.c[k].CLOSE_AFTER_REPLY = TRUE]}
      [] cmd = "pause" -> {addReply(s, k, 1)}

\* resetClient, what it does to the CLIENT REPLY SKIP flags.
resetClient(s, k) ==
    [s EXCEPT !.c[k].REPLY_SKIP = s.c[k].REPLY_SKIP_NEXT, !.c[k].REPLY_SKIP_NEXT = FALSE]

\* Bound: the entries a pause finds in the list of unblocked clients.
MaxListed == Cardinality(Clients)

\* One command of client k, from processInputBuffer: QUIT and a killed client
\* are not reset.
Command(k, cmd) ==
    /\ c[k].live /\ ~ c[k].BLOCKED /\ ~ c[k].CLOSE_AFTER_REPLY /\ paused # "yes"
    /\ \A j \in Live(Server) : c[j].made < MaxMade
    /\ cmd = "pause" => Len(unblocked) <= MaxListed
    /\ LET fed == FeedMonitors([Server EXCEPT !.c[k].skipped = c[k].REPLY_SKIP \/ c[k].REPLY_OFF])
       IN \E s \in Execute(IF cmd = "quit" THEN Server ELSE fed, k, cmd) :
             Becomes(IF cmd = "quit" THEN s ELSE resetClient(s, k))
    /\ paused' = IF cmd = "pause" THEN "yes" ELSE paused

\* The operation a client is blocked for ends: it is answered and unblocked.
Unblock(k) == /\ c[k].live /\ c[k].BLOCKED
              /\ Becomes(unblockClient(addReply(Server, k, 1), k))
              /\ UNCHANGED paused

\* The read handler meets the end of the connection, or an error.
PeerCloses(k) == c[k].live /\ Becomes(freeClient(Server, k)) /\ UNCHANGED paused

\* processUnblockedClients: the commands it then runs are actions of their own.
UnblockedProcessed(s) ==
    [s EXCEPT !.c = [k \in Clients |-> [s.c[k] EXCEPT !.UNBLOCKED = @ /\ ~ Contains(s.unblocked, k)]],
              !.unblocked = <<>>]

\* beforeSleep: processUnblockedClients, then the pending writes.
beforeSleep ==
    /\ unblocked # <<>> \/ pending # <<>>
    /\ \E r \in PendingWrites(UnblockedProcessed(Server)) : Becomes(r)
    /\ UNCHANGED paused

\* sendReplyToClient: the socket is writable.
sendReplyToClient(k) ==
    /\ c[k].live /\ c[k].handler
    /\ \E o \in Outcomes(Server, k) : (o.taken > 0 \/ o.fails) /\ Becomes(writeToClient(Server, k, o))
    /\ UNCHANGED paused

\* serverCron: the asynchronous closes, then the end of a pause, which puts all
\* the clients into the list of unblocked ones.
EndPause(s) == [s EXCEPT !.unblocked = @ \o SetToSeq(Live(s))]
serverCron ==
    /\ toClose # <<>> \/ paused = "over"
    /\ LET s == FreeQueued(Server)
       IN Becomes(IF paused = "over" THEN EndPause(s) ELSE s)
    /\ paused' = IF paused = "over" THEN "no" ELSE paused

PauseTimeReached == paused = "yes" /\ paused' = "over"
                    /\ UNCHANGED <<c, pending, toClose, unblocked, monitors>>

\* A second passes.
Older(t) == IF t = -1 THEN -1 ELSE MinOf(t + 1, SoftSeconds + 1)
Tick == /\ Soft # 0
        /\ c' = [k \in Clients |-> [c[k] EXCEPT !.soft_since = Older(@), !.over = Older(@)]]
        /\ UNCHANGED <<pending, toClose, unblocked, monitors, paused>>

Next == \/ acceptCommonHandler \/ beforeSleep \/ serverCron \/ PauseTimeReached \/ Tick
        \/ \E k \in Clients : \/ \E cmd \in Commands : Command(k, cmd)
                              \/ Unblock(k) \/ PeerCloses(k) \/ sendReplyToClient(k)

Spec == Init /\ [][Next]_vars

\* beforeSleep runs in every turn of the event loop and serverCron on its timer;
\* a peer that reads makes its socket writable again, and a blocking command
\* has its answer or times out.
Fairness == /\ WF_vars(beforeSleep) /\ WF_vars(serverCron) /\ WF_vars(PauseTimeReached)
            /\ \A k \in Clients : SF_vars(sendReplyToClient(k)) /\ WF_vars(Unblock(k))
FairSpec == Spec /\ Fairness

-----------------------------------------------------------------------------
TypeOK == /\ \A k \in Clients : c[k].sentlen \in 0 .. c[k].made /\ c[k].written \in 0 .. c[k].made
          /\ Cardinality(Live(Server)) <= MaxClients
          /\ \A k \in Clients : c[k].reply_bytes = TotalLen(c[k].reply)

\* The client gets its replies whole, in order and once: what was written and
\* what the static buffer and the list still hold are all the bytes made for
\* it. Switching between buffer and list, gluing nodes and writes cut short by
\* the socket lose, repeat and reorder nothing.
RepliesInOrder ==
    \A k \in Clients : Unsent(c[k]) = [i \in 1 .. c[k].made - c[k].written |-> c[k].written + i]

\* No reply is stranded: a client with something to write is in the list that
\* beforeSleep serves, or has its write handler installed, or is about to be
\* closed (the condition under which prepareClientToWrite does nothing).
PendingIsScheduled ==
    \A k \in Clients : clientHasPendingReplies(c[k])
                          => c[k].PENDING_WRITE \/ c[k].handler \/ c[k].CLOSE_ASAP

\* The global lists hold live clients, each at most once, exactly the ones that
\* carry the flag by which unlinkClient and freeClient look for them.
ListOf(list, flagged) == ToSet(list) = {k \in Clients : flagged[k]} /\ IsInjective(list)
ListsAgree ==
    /\ ListOf(pending, [k \in Clients |-> c[k].live /\ c[k].PENDING_WRITE])
    /\ ListOf(toClose, [k \in Clients |-> c[k].live /\ c[k].CLOSE_ASAP])
    /\ ListOf(unblocked, [k \in Clients |-> c[k].live /\ c[k].UNBLOCKED])
    /\ ListOf(monitors, [k \in Clients |-> c[k].live /\ c[k].MONITOR])

\* A released client is in no list, whatever happened before its release
\* ("Remove the specified client from global lists where the client could be
\* referenced", networking.c:622).
ListsAlive == ToSet(pending) \cup ToSet(toClose) \cup ToSet(unblocked) \cup ToSet(monitors) \subseteq Live(Server)

\* A client whose list of replies exceeds the hard limit is scheduled to be
\* closed: no way of adding to the list escapes the check.
HardLimitCloses ==
    \A k \in Clients : c[k].reply_bytes # 0 /\ Hard # 0 /\ MemoryUsage(c[k]) >= Hard => c[k].CLOSE_ASAP

\* A client is closed for the soft limit only after it was above it all the
\* time ("We need to check if the soft limit is reached continuously for the
\* specified amount of seconds", networking.c:1556).
SoftIsContinuous ==
    [][\A k \in Clients : (~ c[k].CLOSE_ASAP /\ c'[k].CLOSE_ASAP /\ ~ OverHard(c'[k]))
                              => Measure(c[k]).over > SoftSeconds]_vars

\* The reply of a command sent after CLIENT REPLY SKIP (or OFF) is not sent,
\* also when the command blocks and is answered later ("Don't send just this
\* reply", server.h:197).
SkipOutlastsBlocking ==
    \A k \in Clients : c[k].BLOCKED /\ c[k].skipped => c[k].REPLY_SKIP \/ c[k].REPLY_OFF

\* Every byte of a reply reaches a peer that reads, or the client is closed.
RepliesDelivered ==
    \A k \in Clients : clientHasPendingReplies(c[k]) ~> (~ clientHasPendingReplies(c[k]) \/ ~ c[k].live)

\* A client flagged CLIENT_CLOSE_AFTER_REPLY (QUIT, CLIENT KILL of itself, a
\* protocol error) is closed ("closes the connection once the reply is written
\* to the client", networking.c:1073).
CloseAfterReplyCloses == \A k \in Clients : c[k].CLOSE_AFTER_REPLY ~> ~ c[k].CLOSE_AFTER_REPLY
=============================================================================
