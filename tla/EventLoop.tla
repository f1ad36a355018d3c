------------------------------ MODULE EventLoop ------------------------------
(***************************************************************************)
(* The event loop of ae.c over ae_epoll.c: the table of file events, the   *)
(* mirror of it the kernel keeps, the batch of fired events a poll         *)
(* returns, and the two time events a server has.  Handlers are the ones   *)
(* the server installs, reduced to what they do to the loop: accept a      *)
(* connection, release their own client or another one, install or remove  *)
(* the write handler, resize the table (CONFIG SET maxclients).            *)
(*                                                                         *)
(* Time is counted in ticks, Sec of them to a second.  Handlers take no    *)
(* time.  No handler deletes a time event or returns AE_NOMORE, so ids and *)
(* deletion of time events are left out.                                   *)
(***************************************************************************)
EXTENDS Integers, FiniteSets, FiniteSetsExt

CONSTANTS MaxFd,      \* descriptors are 0 .. MaxFd, 0 is the listening socket
          SetSize,    \* setsize the loop is created with
          MaxConns,   \* bound: connections ever accepted or waiting
          Resizes,    \* whether CONFIG SET maxclients is sent
          Sec,        \* ticks in a second
          Periods,    \* what serverCron and processJobs return
          MaxReal,    \* bound: ticks that pass
          Clocks,     \* values the system clock is set to
          SkewAt,     \* where in the loop it is set
          MaxSkews    \* bound: how often it is set

VARIABLES s,       \* loop and kernel, see Init
          timers,  \* time events: when, and the real time they were armed at
          clock,   \* system clock, real time, lastTime, clock changes so far
          fired,   \* events of the last poll not dispatched yet
          pc,      \* "sleep", "poll", "dispatch"
          left,    \* what is left of the timeout of the poll
          called   \* handlers the last step called

vars == <<s, timers, clock, fired, pc, left, called>>

FDs == 0 .. MaxFd
Procs == {"serverCron", "processJobs"}
NoConn == 0
Listener == 1

Init ==
    /\ s = [ev |-> [fd \in FDs |-> [mask |-> IF fd = 0 THEN {"R"} ELSE {},
                                    data |-> IF fd = 0 THEN Listener ELSE NoConn]],
            setsize |-> SetSize, maxfd |-> 0, before |-> {},
            open |-> [fd \in FDs |-> IF fd = 0 THEN Listener ELSE NoConn],
            interest |-> [fd \in FDs |-> IF fd = 0 THEN {"R"} ELSE {}],
            readable |-> {}, backlog |-> 0, made |-> 1]
    /\ clock = [now |-> 2 * Sec, real |-> 0, last |-> 2 * Sec, skews |-> 0]
    /\ timers = [p \in Procs |-> [when |-> 2 * Sec + 1, armed |-> 0]]
    /\ fired = {} /\ pc = "sleep" /\ left = 0 /\ called = {}

Mask(t, fd) == t.ev[fd].mask

(***************************************************************************)
(* File events.                                                            *)
(***************************************************************************)
\* epoll_ctl refuses to add a registered descriptor or modify another one.
ApiFails(t, fd) == (Mask(t, fd) = {}) # (t.interest[fd] = {})

aeApiAddEvent(t, fd, mask) == [t EXCEPT !.interest[fd] = mask \cup Mask(t, fd)]

aeApiDelEvent(t, fd, mask) == [t EXCEPT !.interest[fd] = Mask(t, fd) \ mask]

CanCreate(t, fd) == fd < t.setsize /\ ~ApiFails(t, fd)

aeCreateFileEvent(t, fd, mask, data) ==
    [aeApiAddEvent(t, fd, mask) EXCEPT
        !.ev[fd] = [mask |-> @.mask \cup mask, data |-> data],
        !.maxfd = IF fd > @ THEN fd ELSE @]

NextMaxfd(t, fd) == Max({j \in 0 .. fd - 1 : Mask(t, j) # {}} \cup {-1})

aeDeleteFileEvent(t, fd, mask) ==
    IF fd >= t.setsize \/ Mask(t, fd) = {} THEN t
    ELSE LET u == [aeApiDelEvent(t, fd, mask) EXCEPT !.ev[fd].mask = @ \ mask]
         IN  [u EXCEPT !.maxfd = IF fd = @ /\ Mask(u, fd) = {} THEN NextMaxfd(u, fd) ELSE @]

\* zrealloc may move the table: who holds a pointer to an entry still sees
\* what was there.  New entries, past maxfd, are cleared.
aeResizeSetSize(t, setsize) ==
    IF t.maxfd >= setsize THEN t
    ELSE [t EXCEPT !.setsize = setsize,
            !.before = {[fd |-> fd, fe |-> t.ev[fd]] : fd \in FDs},
            !.ev = [fd \in FDs |-> IF fd > t.maxfd THEN [t.ev[fd] EXCEPT !.mask = {}]
                                   ELSE t.ev[fd]]]

\* close(fd): the kernel drops the registration with the descriptor.
CloseFd(t, fd) == [t EXCEPT !.open[fd] = NoConn, !.interest[fd] = {}, !.readable = @ \ {fd}]

(***************************************************************************)
(* Handlers: the states a call may lead to.                                *)
(***************************************************************************)
ClientFds(t) == {fd \in FDs : t.open[fd] > Listener}

freeClient(t, fd) ==
    CloseFd(aeDeleteFileEvent(aeDeleteFileEvent(t, fd, {"R"}), fd, {"W"}), fd)

\* accept returns the lowest free descriptor; createClient may fail.
AcceptOne(t) ==
    LET fd == Min({d \in FDs : t.open[d] = NoConn})
        u  == [t EXCEPT !.open[fd] = t.made + 1, !.made = @ + 1, !.backlog = @ - 1]
    IN  IF CanCreate(u, fd) THEN aeCreateFileEvent(u, fd, {"R"}, u.made)
        ELSE CloseFd(u, fd)

\* Accepts until nothing waits (EWOULDBLOCK) or descriptors run out.
acceptTcpHandler(t) ==
    FoldSet(LAMBDA i, u : IF \E d \in FDs : u.open[d] = NoConn THEN AcceptOne(u) ELSE u,
            t, 1 .. t.backlog)

\* Nothing to read is EAGAIN.  A command may release this client, or another
\* one (CLIENT KILL), and CONFIG SET maxclients may come before it.
readQueryFromClient(t, fd) ==
    IF fd \notin t.readable THEN {t}
    ELSE LET got == [t EXCEPT !.readable = @ \ {fd}]
             big == aeResizeSetSize(got, MaxFd + 1)
         IN  {got} \cup {freeClient(got, o) : o \in ClientFds(got)}
             \cup IF Resizes /\ got.setsize < MaxFd + 1 THEN {big, freeClient(big, fd)} ELSE {}

sendReplyToClient(t, fd) == {t, aeDeleteFileEvent(t, fd, {"W"}), freeClient(t, fd)}

ReadHandler(t, fd) == IF t.open[fd] = Listener THEN {acceptTcpHandler(t)} ELSE readQueryFromClient(t, fd)

\* A write handler that is given a client that is gone does what it may; the
\* call itself is what the properties are about.
WriteHandler(t, fd, data) == IF t.open[fd] = data THEN sendReplyToClient(t, fd) ELSE {t}

(***************************************************************************)
(* The loop.                                                               *)
(***************************************************************************)
aeSearchNearestTimer == CHOOSE p \in Procs : \A q \in Procs : timers[p].when <= timers[q].when

\* handleClientsWithPendingWrites installs write handlers, then the timeout
\* of the poll is computed.
beforeSleep ==
    /\ pc = "sleep"
    /\ \E F \in SUBSET {fd \in ClientFds(s) : "W" \notin Mask(s, fd)} :
         s' = FoldSet(LAMBDA fd, t : IF CanCreate(t, fd)
                                     THEN aeCreateFileEvent(t, fd, {"W"}, t.open[fd]) ELSE t,
                      [s EXCEPT !.before = {}], F)
    /\ left' = Max({0, timers[aeSearchNearestTimer].when - clock.now})
    /\ pc' = "poll" /\ called' = {}
    /\ UNCHANGED <<timers, clock, fired>>

ReadyMask(fd) ==
    s.interest[fd] \cap ({"W"} \cup IF fd \in s.readable \/ (s.open[fd] = Listener /\ s.backlog > 0)
                                    THEN {"R"} ELSE {})

\* Events come in any order: fired is a set, dispatched one by one.
aeApiPoll ==
    /\ pc = "poll"
    /\ fired' = {[fd |-> fd, mask |-> ReadyMask(fd), conn |-> s.open[fd]] :
                    fd \in {d \in FDs : ReadyMask(d) # {}}}
    /\ fired' # {} \/ left = 0
    /\ pc' = "dispatch" /\ UNCHANGED <<s, timers, clock, left, called>>

\* The entry the second test of the mask reads: fe may point to the table
\* that the first handler made the loop give up.
FileEvents(t, fd) == {t.ev[fd]} \cup {b.fe : b \in {x \in t.before : x.fd = fd}}

Call(t, e, data) == [data |-> data, owner |-> t.open[e.fd], polled |-> e.conn]

\* Mutant: the mask of the table is not looked at again.
StillValidPolled(fe, e, ev) == ev \in e.mask

StillValid(fe, e, ev) == ev \in fe.mask \cap e.mask

Dispatch(e) ==
    LET rfired == StillValid(s.ev[e.fd], e, "R") IN
    \E t \in IF rfired THEN ReadHandler(s, e.fd) ELSE {s} :
    \E fe \in IF rfired THEN FileEvents(t, e.fd) ELSE {t.ev[e.fd]} :
    \E u \in IF StillValid(fe, e, "W") THEN WriteHandler(t, e.fd, fe.data) ELSE {t} :
        /\ s' = [u EXCEPT !.before = {}]
        /\ called' = (IF rfired THEN {Call(s, e, s.ev[e.fd].data)} ELSE {})
                     \cup (IF StillValid(fe, e, "W") THEN {Call(t, e, fe.data)} ELSE {})

aeProcessEvents ==
    /\ pc = "dispatch"
    /\ \E e \in fired : Dispatch(e) /\ fired' = fired \ {e}
    /\ UNCHANGED <<timers, clock, pc, left>>

Skewed == clock.now \div Sec < clock.last \div Sec

\* when_sec is set to 0 and when_ms kept.
When(p) == IF Skewed THEN timers[p].when % Sec ELSE timers[p].when

\* serverCron also releases the clients queued by freeClientAsync.
processTimeEvents ==
    /\ pc = "dispatch" /\ fired = {}
    /\ timers' = [p \in Procs |->
                    IF clock.now >= When(p)
                    THEN [when |-> clock.now + Periods[p], armed |-> clock.real]
                    ELSE [timers[p] EXCEPT !.when = When(p)]]
    /\ clock' = [clock EXCEPT !.last = clock.now]
    /\ \E F \in IF clock.now >= When("serverCron") THEN SUBSET ClientFds(s) ELSE {{}} :
         s' = FoldSet(LAMBDA fd, t : freeClient(t, fd), s, F)
    /\ pc' = "sleep" /\ called' = {}
    /\ UNCHANGED <<fired, left>>

(***************************************************************************)
(* The world.                                                              *)
(***************************************************************************)
Connect ==
    /\ s.made + s.backlog < MaxConns
    /\ s' = [s EXCEPT !.backlog = @ + 1]
    /\ UNCHANGED <<timers, clock, fired, pc, left, called>>

DataArrives ==
    /\ \E fd \in ClientFds(s) \ s.readable : s' = [s EXCEPT !.readable = @ \cup {fd}]
    /\ UNCHANGED <<timers, clock, fired, pc, left, called>>

\* epoll_wait sleeps for a time that changes of the clock do not touch.
Tick ==
    /\ pc = "poll" /\ left > 0 /\ clock.real < MaxReal
    /\ \A fd \in FDs : ReadyMask(fd) = {}
    /\ clock' = [clock EXCEPT !.now = @ + 1, !.real = @ + 1]
    /\ left' = left - 1 /\ UNCHANGED <<s, timers, fired, pc, called>>

SetClock ==
    /\ clock.skews < MaxSkews /\ pc \in SkewAt
    /\ \E c \in Clocks : clock' = [clock EXCEPT !.now = c, !.skews = @ + 1]
    /\ UNCHANGED <<s, timers, fired, pc, left, called>>

Loop == beforeSleep \/ aeApiPoll \/ aeProcessEvents \/ processTimeEvents

Next == Loop \/ Connect \/ DataArrives \/ Tick \/ SetClock

Spec == Init /\ [][Next]_vars

\* The loop never stops by itself.
FairSpec == Spec /\ WF_vars(Loop)

(***************************************************************************)
(* Properties.                                                             *)
(***************************************************************************)
\* Type invariant.
TypeOK ==
    /\ s.ev \in [FDs -> [mask : SUBSET {"R", "W"}, data : 0 .. MaxConns]]
    /\ s.open \in [FDs -> 0 .. MaxConns] /\ s.interest \in [FDs -> SUBSET {"R", "W"}]
    /\ s.setsize \in {SetSize, MaxFd + 1} /\ s.maxfd \in -1 .. MaxFd
    /\ s.readable \subseteq FDs /\ s.backlog \in 0 .. MaxConns /\ s.made \in 1 .. MaxConns
    /\ pc \in {"sleep", "poll", "dispatch"} /\ left \in 0 .. MaxReal + Max(Clocks \cup {2 * Sec})

\* The registrations in the kernel are those of the table, whatever is
\* created, deleted, closed, reused and resized in between (ae_epoll.c merges
\* and removes masks from the table's value), and every entry in use belongs
\* to the connection that owns the descriptor.
KernelAgrees ==
    \A fd \in FDs : /\ s.interest[fd] = Mask(s, fd)
                    /\ Mask(s, fd) # {} => s.ev[fd].data = s.open[fd]

\* maxfd is the highest descriptor with an event: aeProcessEvents polls only
\* if there is one, and aeResizeSetSize clears every entry past it.
MaxfdIsMax == s.maxfd = Max({fd \in FDs : Mask(s, fd) # {}} \cup {-1})

\* A handler is called for the connection that owns the descriptor at the
\* time of the call, never for a client released by an earlier handler of the
\* same batch (the second look at fe->mask in aeProcessEvents).
HandlerGetsLiveClient == \A c \in called : c.data = c.owner

\* An event reaches the connection it fired for.
FiredReachesItsConnection == \A c \in called : c.data = c.polled

\* A time event is never later than its period and one second for every
\* change of the clock, by the time that really passed: a clock set back is
\* detected (processTimeEvents), or it was moved by less than a second.
TimersOnTime ==
    \A p \in Procs : clock.real - timers[p].armed <= Periods[p] + Sec * clock.skews

\* Data that arrived is read, or the client is released: an event that is
\* still pending fires again at the next poll.
DataIsServed == \A fd \in FDs : (fd \in s.readable) ~> (fd \notin s.readable)
=============================================================================
