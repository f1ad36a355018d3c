---------------------------- MODULE QueryParser ----------------------------
(***************************************************************************)
(* How networking.c turns the bytes of a connection into commands:         *)
(* readQueryFromClient appends what one read returned to the query buffer, *)
(* processInputBuffer executes every complete request the buffer holds,    *)
(* and the rest waits, across a blocking command and a CLIENT PAUSE too.   *)
(*                                                                         *)
(* The peer writes a sequence of requests, each with the arguments it      *)
(* means; the kernel may hand over their bytes in pieces of any size.      *)
(***************************************************************************)
EXTENDS Strings

CONSTANTS Bulks,        \* the multi bulk requests a peer may write: their arguments
          Lines,        \* the inline requests: their words
          Broken,       \* malformed requests: their bytes
          MaxRequests,  \* how many of them
          InlineMax,    \* PROTO_INLINE_MAX_SIZE
          BigArg,       \* PROTO_MBULK_BIG_ARG
          IoBuf,        \* PROTO_IOBUF_LEN
          MaxBulks,     \* the limit of a multi bulk length
          MaxBulkLen,   \* the limit of a bulk length
          MaxQueryBuf,  \* client_max_querybuf_len
          Blocking,     \* the commands that block the client (GETJOB, ADDJOB)
          Pauses        \* whether CLIENT PAUSE is used

VARIABLES requests,  \* what the peer writes
          sent,      \* how many of its bytes were read
          c,         \* the client structure
          paused     \* server.clients_paused: "no", "yes", or "over" once its end
                     \* is reached and nobody looked yet

vars == <<requests, sent, c, paused>>

STAR == 42
DOLLAR == 36

\* A request of the peer: its bytes, the arguments it means (none for an empty
\* request), and whether it keeps to the protocol.
Request(bytes, argv, ok) == [bytes |-> bytes, argv |-> argv, ok |-> ok]

Line(words, eol) ==
    Request(FlattenSeq([i \in 1 .. Len(words) |-> IF i = 1 THEN words[i] ELSE <<SP>> \o words[i]]) \o eol,
            words, TRUE)
Bulk(arg) == <<DOLLAR>> \o ll2string(Len(arg), 32) \o <<CR, LF>> \o arg \o <<CR, LF>>
MultiBulk(argv) ==
    Request(<<STAR>> \o ll2string(Len(argv), 32) \o <<CR, LF>>
                \o FlattenSeq([i \in 1 .. Len(argv) |-> Bulk(argv[i])]),
            argv, TRUE)
Malformed(bytes) == Request(bytes, <<>>, FALSE)

Requests ==
    {MultiBulk(argv) : argv \in Bulks} \cup {Line(words, <<CR, LF>>) : words \in Lines}
    \cup {Malformed(bytes) : bytes \in Broken}

stream == FlattenSeq([i \in 1 .. Len(requests) |-> requests[i].bytes])

-----------------------------------------------------------------------------
(* The client structure.                                                   *)

createClient == [querybuf |-> <<>>, reqtype |-> "none", multibulklen |-> 0, bulklen |-> -1,
                 argv |-> <<>>, blocked |-> FALSE, unblocked |-> FALSE,
                 closing |-> FALSE,   \* CLIENT_CLOSE_AFTER_REPLY, after a protocol error
                 state |-> "open",    \* "freed": by the server; "gone": by the peer
                 executed |-> <<>>]   \* the commands given to processCommand

resetClient(k) == [k EXCEPT !.argv = <<>>, !.reqtype = "none", !.multibulklen = 0, !.bulklen = -1]

\* The bytes of the query buffer before pos are dropped (sdsrange).
Trim(k, pos) == [k EXCEPT !.querybuf = From(k.querybuf, pos + 1)]

\* strchr from the byte after pos: the position of the first b, 0 when there is
\* none before a zero byte.
Find(s, pos, b) ==
    LET i == SelectInSubSeq(s, pos + 1, Len(s), LAMBDA x : x \in {0, b})
    IN IF i # 0 /\ s[i] = b THEN i ELSE 0

setProtocolError(k, pos) == [Trim(k, pos) EXCEPT !.closing = TRUE]

\* What the parsers return: C_OK or C_ERR, and the client.
Ok(k) == [ok |-> TRUE, k |-> k]
Err(k) == [ok |-> FALSE, k |-> k]
\* An incomplete first line: the rest is waited for, up to a limit.
Wait(k) == IF Len(k.querybuf) > InlineMax THEN Err(setProtocolError(k, 0)) ELSE Err(k)

processInlineBuffer(k) ==
    LET q == k.querybuf
        newline == Find(q, 0, LF)
        querylen == IF newline > 1 /\ q[newline - 1] = CR THEN newline - 2 ELSE newline - 1
        split == sdssplitargs(SubSeq(q, 1, querylen))
    IN IF newline = 0 THEN Wait(k)
       ELSE IF ~ split.ok THEN Err(setProtocolError(k, 0))
       ELSE Ok([Trim(k, querylen + 2) EXCEPT !.argv = SelectSeq(split.argv, LAMBDA a : a # <<>>)])

\* One argument, once its length is known and all its bytes are there: the
\* query buffer itself becomes a large argument that fills it.
TakeArgument(k, pos) ==
    LET whole == pos = 0 /\ k.bulklen >= BigArg /\ Len(k.querybuf) = k.bulklen + 2
    IN [k |-> [k EXCEPT !.argv = Append(@, SubSeq(k.querybuf, pos + 1, pos + k.bulklen)),
                        !.querybuf = IF whole THEN <<>> ELSE @,
                        !.bulklen = -1, !.multibulklen = @ - 1],
        pos |-> IF whole THEN 0 ELSE pos + k.bulklen + 2]

\* The loop over the arguments; pos bytes of the buffer are used up.
RECURSIVE ReadBulks(_, _)
ReadBulks(k, pos) ==
    LET q == k.querybuf
        newline == Find(q, pos, CR)
        len == string2ll(SubSeq(q, pos + 2, newline - 1))
        \* The bytes before a large argument are dropped at once.
        start == IF len.value >= BigArg
                 THEN [k |-> [Trim(k, newline + 1) EXCEPT !.bulklen = len.value], pos |-> 0]
                 ELSE [k |-> [k EXCEPT !.bulklen = len.value], pos |-> newline + 1]
        taken == TakeArgument(k, pos)
        stop == Err(Trim(k, pos))
    IN IF k.multibulklen = 0 THEN Ok(Trim(k, pos))
       ELSE IF k.bulklen = -1
       THEN IF newline = 0
            THEN IF Len(q) > InlineMax THEN Err(setProtocolError(k, 0)) ELSE stop
            ELSE IF newline - 1 > Len(q) - 2 THEN stop
            ELSE IF q[pos + 1] # DOLLAR \/ ~ len.ok \/ len.value \notin 0 .. MaxBulkLen
            THEN Err(setProtocolError(k, pos))
            ELSE ReadBulks(start.k, start.pos)
       ELSE IF Len(q) - pos < k.bulklen + 2 THEN stop
       ELSE ReadBulks(taken.k, taken.pos)

processMultibulkBuffer(k) ==
    LET q == k.querybuf
        newline == Find(q, 0, CR)
        count == string2ll(SubSeq(q, 2, newline - 1))
    IN IF k.multibulklen # 0 THEN ReadBulks(k, 0)
       ELSE IF newline = 0 THEN Wait(k)
       ELSE IF newline - 1 > Len(q) - 2 THEN Err(k)
       ELSE IF ~ count.ok \/ count.value > MaxBulks THEN Err(setProtocolError(k, 0))
       ELSE IF count.value <= 0 THEN Ok(Trim(k, newline + 1))
       ELSE ReadBulks([k EXCEPT !.multibulklen = count.value], newline + 1)

\* What the model keeps of processCommand: the command ran, and may have
\* blocked the client.
processCommand(k) == [k EXCEPT !.executed = Append(@, k.argv), !.blocked = k.argv \in Blocking]

\* clientsArePaused, asked with a pause that is over, ends it and puts every
\* client into the list of unblocked clients.
EndPause(k) == [k EXCEPT !.unblocked = TRUE]

Processes(k, p) == k.querybuf # <<>> /\ p # "yes" /\ ~ k.blocked /\ ~ k.closing

\* processInputBuffer for client k while the pause is p (not "over").
RECURSIVE InputLoop(_, _)
InputLoop(k, p) ==
    LET reqtype == IF k.reqtype # "none" THEN k.reqtype
                   ELSE IF k.querybuf[1] = STAR THEN "multibulk" ELSE "inline"
        typed == [k EXCEPT !.reqtype = reqtype]
        r == IF reqtype = "inline" THEN processInlineBuffer(typed) ELSE processMultibulkBuffer(typed)
    IN IF ~ Processes(k, p) THEN k
       ELSE IF ~ r.ok THEN r.k
       ELSE InputLoop(resetClient(IF r.k.argv = <<>> THEN r.k ELSE processCommand(r.k)), p)

processInputBuffer(k) ==
    LET ends == paused = "over" /\ k.querybuf # <<>>
        p == IF ends THEN "no" ELSE paused
    IN /\ c' = InputLoop(IF ends THEN EndPause(k) ELSE k, p)
       /\ paused' = p

-----------------------------------------------------------------------------
(* The actions.                                                            *)

ArgsOfLen(n) == [1 .. n -> Requests]

Init == /\ requests \in UNION {ArgsOfLen(n) : n \in 1 .. MaxRequests}
        /\ sent = 0
        /\ c = createClient
        /\ paused = "no"

MinOf(a, b) == IF a < b THEN a ELSE b

\* readlen of readQueryFromClient: while a large argument is incomplete, not
\* one byte more than it needs is asked for.
ReadLen(k) ==
    IF k.reqtype = "multibulk" /\ k.multibulklen # 0 /\ k.bulklen # -1 /\ k.bulklen >= BigArg
    THEN MinOf(IoBuf, k.bulklen + 2 - Len(k.querybuf)) ELSE IoBuf

\* readQueryFromClient with data on the socket: read(2) returns some of it. A
\* read of no bytes returns 0, which the handler takes for the end of the
\* connection.
readQueryFromClient ==
    /\ c.state = "open" /\ sent < Len(stream)
    /\ IF ReadLen(c) = 0
       THEN c' = [c EXCEPT !.state = "freed"] /\ UNCHANGED <<sent, paused>>
       ELSE \E n \in 1 .. MinOf(ReadLen(c), Len(stream) - sent) :
            LET k == [c EXCEPT !.querybuf = @ \o SubSeq(stream, sent + 1, sent + n)]
            IN /\ sent' = sent + n
               /\ IF Len(k.querybuf) > MaxQueryBuf
                  THEN c' = [k EXCEPT !.state = "freed"] /\ UNCHANGED paused
                  ELSE processInputBuffer(k)
    /\ UNCHANGED requests

\* The peer closes, or read(2) fails.
PeerCloses == /\ c.state = "open"
              /\ c' = [c EXCEPT !.state = "gone"]
              /\ UNCHANGED <<requests, sent, paused>>

\* Mutant: the client is not put into the list of unblocked clients.
unblockClientUnlisted == /\ c.state = "open" /\ c.blocked
                         /\ c' = [c EXCEPT !.blocked = FALSE]
                         /\ UNCHANGED <<requests, sent, paused>>
\* The operation the client was blocked for ends.
unblockClient == /\ c.state = "open" /\ c.blocked
                 /\ c' = [c EXCEPT !.blocked = FALSE, !.unblocked = TRUE]
                 /\ UNCHANGED <<requests, sent, paused>>

\* Before the event loop sleeps.
processUnblockedClients ==
    /\ c.state = "open" /\ c.unblocked
    /\ LET k == [c EXCEPT !.unblocked = FALSE]
       IN IF k.blocked \/ k.querybuf = <<>> THEN c' = k /\ UNCHANGED paused
          ELSE processInputBuffer(k)
    /\ UNCHANGED <<requests, sent>>

\* Another client asks for a pause, its time passes, and serverCron ends it.
pauseClients == /\ Pauses /\ c.state = "open" /\ paused # "yes"
                /\ paused' = "yes"
                /\ UNCHANGED <<requests, sent, c>>
PauseTimeReached == /\ paused = "yes" /\ c.state = "open"
                    /\ paused' = "over"
                    /\ UNCHANGED <<requests, sent, c>>
serverCron == /\ paused = "over" /\ c.state = "open"
              /\ paused' = "no"
              /\ c' = EndPause(c)
              /\ UNCHANGED <<requests, sent>>

Next == \/ readQueryFromClient \/ PeerCloses \/ unblockClient \/ processUnblockedClients
        \/ pauseClients \/ PauseTimeReached \/ serverCron

Spec == Init /\ [][Next]_vars

-----------------------------------------------------------------------------
\* The state of the parser between two reads: the length of a pending argument
\* is only known inside a multi bulk request, and no request that is complete
\* keeps arguments of an earlier one.
TypeOK ==
    /\ sent \in 0 .. Len(stream)
    /\ paused \in {"no", "yes", "over"}
    /\ c.state \in {"open", "freed", "gone"}
    /\ c.multibulklen \in 0 .. MaxBulks /\ c.bulklen \in -1 .. MaxBulkLen
    /\ c.bulklen # -1 => c.reqtype = "multibulk" /\ c.multibulklen # 0
    /\ c.multibulklen = 0 /\ ~ c.closing => c.argv = <<>>

\* What the peer meant: the arguments of its requests, up to the first one
\* that breaks the protocol.
Meant ==
    LET bad == SelectInSeq(requests, LAMBDA r : ~ r.ok)
        good == IF bad = 0 THEN requests ELSE SubSeq(requests, 1, bad - 1)
    IN SelectSeq([i \in 1 .. Len(good) |-> good[i].argv], LAMBDA a : a # <<>>)

\* Whatever the sizes of the reads and wherever the client blocks or is paused,
\* the commands executed are the requests of the peer, whole and in order: no
\* byte of one request is taken for another ("Leave data after the first line
\* of the query in the buffer", networking.c:892).
ExecutedAsSent == IsPrefix(c.executed, Meant)

\* Nothing is forgotten in the query buffer: once every byte was read and the
\* client is neither blocked nor paused nor waiting in the list of unblocked
\* clients, every request was executed. A request that came in one piece with a
\* blocking command is not left there until the peer happens to write again.
NothingLeftBehind ==
    (sent = Len(stream) /\ c.state = "open" /\ ~ c.blocked /\ ~ c.unblocked /\ paused = "no")
        => c.executed = Meant

\* A large argument became complete while the clients were paused, and is not
\* processed yet: the next read asks for no bytes.
StarvedByPause == (paused # "no" \/ c.unblocked) /\ ReadLen(c) = 0

\* The server gives a connection up only for a request that breaks the
\* protocol: a peer that keeps to it is not closed because of where its bytes
\* were split, or because it was blocked or paused while they came ("client
\* query buffer is not longer processed, but accumulated, and will be processed
\* when the client is unblocked", blocked.c:97).
ClosedOnlyIfMalformed ==
    (c.closing \/ c.state = "freed") => \E i \in 1 .. Len(requests) : ~ requests[i].ok
=============================================================================
