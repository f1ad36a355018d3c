--------------------------- MODULE AppendOnlyFile ---------------------------
(***************************************************************************)
(* The append only file of one node (aof.c): the commands LOADJOB and      *)
(* DELJOB that a node feeds to it, the buffer flushed before the event     *)
(* loop sleeps, the three fsync policies, the background rewrite (a forked *)
(* child, the difference buffer, the data pipe and the stop handshake),    *)
(* CONFIG SET appendonly, SHUTDOWN, crashes and the reload at restart.     *)
(*                                                                         *)
(* A command is two tokens, so that a write cut short can leave half of    *)
(* it in the file.  `synced' is the length of the prefix of the file that  *)
(* an fsync has made durable: a power loss may drop anything beyond it.    *)
(***************************************************************************)
EXTENDS Integers, SequencesExt

CONSTANTS Jobs,           \* job IDs
          Policies,       \* appendfsync values the operator may configure
          AppendOnly,     \* "appendonly" of the configuration file
          NoFsyncOnRewrite, \* no-appendfsync-on-rewrite
          LoadTruncated,  \* aof-load-truncated
          Faults,         \* which of "write", "child", "kill", "power", "switch"
          Admin,          \* which of "config", "shutdown", "fix", "bgrewrite",
                          \* "federation"
          MaxCmds,        \* bound: commands fed over the whole behaviour
          MaxTime,        \* bound: server.unixtime
          MaxFsyncs       \* bound: fsyncs queued to the bio.c thread

VARIABLES job,     \* server.jobs: the state of each job of the node
          aof,     \* the aof_* fields of server, the child and the files
          unsent,  \* jobs whose +ID reply is still in an output buffer
          replied, \* jobs confirmed to their producer while the AOF was on, and
                   \* not acknowledged or deleted since
          unlogged, \* jobs received with YOURJOBS, which no command logs
          now,     \* server.unixtime
          cmds     \* commands fed so far

vars == <<job, aof, unsent, replied, unlogged, now, cmds>>

States == {"none", "waitrepl", "active", "acked"}
Cmd(op, j) == << <<op, j, 1>>, <<op, j, 2>> >>
Tokens == {"LOADJOB", "DELJOB"} \X Jobs \X {1, 2}

\* What an absent child looks like.
NoChild == [pc |-> "none", snap |-> <<>>, diff |-> <<>>, pipe |-> <<>>]

Init ==
    /\ job = [j \in Jobs |-> "none"]
    /\ \E p \in Policies :
         aof = [up |-> "up", policy |-> p,
                state |-> IF AppendOnly THEN "on" ELSE "off",
                fd |-> IF AppendOnly THEN "open" ELSE "none",
                buf |-> <<>>, status |-> "ok", postponed |-> 0, last |-> 0,
                scheduled |-> FALSE, child |-> NoChild, rbuf |-> <<>>,
                stop |-> FALSE, file |-> <<>>, synced |-> 0, fsyncs |-> <<>>]
    /\ unsent = {} /\ replied = {} /\ unlogged = {}
    /\ now = 1 /\ cmds = 0

Up == aof.up = "up"
Live == {j \in Jobs : job[j] = "active"}

(***************************************************************************)
(* Reading a file back.                                                    *)
(***************************************************************************)
\* The jobs registered after every complete command of f was executed.
Replay(f) ==
    FoldLeft(LAMBDA live, t : IF t[3] = 1 THEN live
                              ELSE IF t[1] = "LOADJOB" THEN live \cup {t[2]}
                              ELSE live \ {t[2]}, {}, f)

\* f is a sequence of whole commands, but for a command cut at the end.
WellFormed(f) ==
    \A i \in 1..Len(f) :
        /\ f[i][3] = IF i % 2 = 1 THEN 1 ELSE 2
        /\ i % 2 = 0 => <<f[i][1], f[i][2]>> = <<f[i-1][1], f[i-1][2]>>

ValidUpTo(f) == 2 * (Len(f) \div 2)

(***************************************************************************)
(* Feeding a command: to the buffer when the AOF is on, and to the         *)
(* difference buffer while a child rewrites the file.                      *)
(***************************************************************************)
\* The difference buffer: a list of blocks in the code, one sequence here.
aofRewriteBufferAppend(s, c) == [s EXCEPT !.rbuf = @ \o c]

feedAppendOnlyFile(s, c) ==
    LET t == IF s.state = "on" THEN [s EXCEPT !.buf = @ \o c] ELSE s
    IN IF s.state # "off" /\ s.child.pc # "none" THEN aofRewriteBufferAppend(t, c) ELSE t

(***************************************************************************)
(* flushAppendOnlyFile: the set of states it may leave the server in.      *)
(***************************************************************************)
\* fsync after a complete write, according to the policy.
Fsync(s, t) ==
    IF NoFsyncOnRewrite /\ s.child.pc # "none" THEN s
    ELSE IF s.policy = "always" THEN [s EXCEPT !.synced = Len(s.file), !.last = t]
    ELSE IF s.policy = "everysec" /\ t > s.last
         THEN [s EXCEPT !.fsyncs = IF @ = <<>> THEN <<TRUE>> ELSE @, !.last = t]
    ELSE s

Written(s, t) ==
    Fsync([s EXCEPT !.file = @ \o s.buf, !.buf = <<>>, !.postponed = 0, !.status = "ok"], t)

\* A failed write; n > 0 tokens of it stay in the file when ftruncate fails.
WriteFailed(s, n) ==
    IF s.policy = "always" THEN [s EXCEPT !.up = "exited", !.file = @ \o SubSeq(s.buf, 1, n)]
    ELSE [s EXCEPT !.postponed = 0, !.status = "err",
                   !.file = @ \o SubSeq(s.buf, 1, n),
                   !.buf = SubSeq(@, n + 1, Len(@))]

flushAppendOnlyFile(s, force, t) ==
    LET busy == s.policy = "everysec" /\ ~force /\ s.fsyncs # <<>> IN
    IF s.buf = <<>> THEN {s}
    ELSE IF busy /\ s.postponed = 0 THEN {[s EXCEPT !.postponed = t]}
    ELSE IF busy /\ t - s.postponed < 2 THEN {s}
    ELSE IF s.fd # "open" THEN {WriteFailed(s, 0)}
    ELSE {Written(s, t)} \cup
         (IF "write" \in Faults THEN {WriteFailed(s, n) : n \in 0..(Len(s.buf) - 1)} ELSE {})

(***************************************************************************)
(* The operations on jobs that reach the AOF.                              *)
(***************************************************************************)
\* Commands of clients with the write flag are refused after a write error.
WriteAllowed(client) == client => aof.status = "ok"

Feed(op, j) ==
    /\ cmds < MaxCmds
    /\ cmds' = cmds + 1
    /\ aof' = feedAppendOnlyFile(aof, Cmd(op, j))

\* ADDJOB of a client whose replication level is already achieved, or ADDJOB
\* received from another node, which no client waits for.
AddJob(j, client) ==
    /\ Up /\ job[j] = "none" /\ WriteAllowed(client)
    /\ job' = [job EXCEPT ![j] = "active"]
    /\ Feed("LOADJOB", j)
    /\ unsent' = IF client THEN unsent \cup {j} ELSE unsent
    /\ UNCHANGED <<replied, unlogged, now>>

\* ADDJOB that must wait for other nodes: nothing is logged yet.
AddJobWaitRepl(j) ==
    /\ Up /\ job[j] = "none" /\ WriteAllowed(TRUE)
    /\ cmds < MaxCmds
    /\ job' = [job EXCEPT ![j] = "waitrepl"]
    /\ UNCHANGED <<aof, unsent, replied, unlogged, now, cmds>>

jobReplicationAchieved(j) ==
    /\ Up /\ job[j] = "waitrepl"
    /\ job' = [job EXCEPT ![j] = "active"]
    /\ Feed("LOADJOB", j)
    /\ unsent' = unsent \cup {j}
    /\ UNCHANGED <<replied, unlogged, now>>

\* YOURJOBS: the job is registered and queued, and no command is fed.
receiveYourJobs(j) ==
    /\ Up /\ "federation" \in Admin /\ job[j] = "none"
    /\ job' = [job EXCEPT ![j] = "active"]
    /\ unlogged' = unlogged \cup {j}
    /\ UNCHANGED <<aof, unsent, replied, now, cmds>>

\* ACKJOB or SETACK, also for a job the node does not know.
acknowledgeJob(j) ==
    /\ Up /\ job[j] \in {"active", "none"}
    /\ job' = [job EXCEPT ![j] = "acked"]
    /\ Feed("DELJOB", j)
    /\ replied' = replied \ {j} /\ unsent' = unsent \ {j} /\ unlogged' = unlogged \ {j}
    /\ UNCHANGED now

\* DELJOB, expiration, eviction and the end of the ACK garbage collection.
unregisterJob(j) ==
    /\ Up /\ job[j] # "none"
    /\ job' = [job EXCEPT ![j] = "none"]
    /\ IF job[j] = "active" THEN Feed("DELJOB", j) ELSE UNCHANGED <<aof, cmds>>
    /\ replied' = replied \ {j} /\ unsent' = unsent \ {j} /\ unlogged' = unlogged \ {j}
    /\ UNCHANGED now

\* The last thing before the loop sleeps: flush, then write the replies.
\* Mutant: the replies are written first and the flush is left to the cron.
RepliesFirst ==
    /\ Up
    /\ replied' = IF aof.state = "on" THEN replied \cup unsent ELSE replied
    /\ unsent' = {}
    /\ UNCHANGED <<job, aof, unlogged, now, cmds>>

beforeSleep ==
    /\ Up
    /\ \E s \in flushAppendOnlyFile(aof, FALSE, now) :
         /\ aof' = s
         /\ replied' = IF s.up = "up" /\ s.state = "on" THEN replied \cup unsent ELSE replied
    /\ unsent' = {}
    /\ UNCHANGED <<job, unlogged, now, cmds>>

(***************************************************************************)
(* Background rewrite.                                                     *)
(***************************************************************************)
SnapshotOf(live) == FoldLeft(LAMBDA f, j : f \o Cmd("LOADJOB", j), <<>>, SetToSeq(live))

\* fork(): the child sees the jobs of this instant; the pipes are fresh.
rewriteAppendOnlyFileBackground(s) ==
    [s EXCEPT !.scheduled = FALSE, !.stop = FALSE,
              !.child = [NoChild EXCEPT !.pc = "rewriting", !.snap = SnapshotOf(Live)]]

bgrewriteaofCommand ==
    /\ Up /\ "bgrewrite" \in Admin /\ aof.child.pc = "none"
    /\ aof' = rewriteAppendOnlyFileBackground(aof)
    /\ UNCHANGED <<job, unsent, replied, unlogged, now, cmds>>

\* The data pipe takes any prefix of the buffer until the child says stop.
SendDiff(s, n) ==
    [s EXCEPT !.child.pipe = @ \o SubSeq(s.rbuf, 1, n),
              !.rbuf = SubSeq(@, n + 1, Len(@))]

aofChildWriteDiffData ==
    /\ Up /\ aof.child.pc # "none" /\ ~aof.stop
    /\ \E n \in 1..Len(aof.rbuf) : aof' = SendDiff(aof, n)
    /\ UNCHANGED <<job, unsent, replied, unlogged, now, cmds>>

aofReadDiffFromParent ==
    /\ Up /\ aof.child.pc = "rewriting" /\ aof.child.pipe # <<>>
    /\ aof' = [aof EXCEPT !.child.diff = @ \o aof.child.pipe, !.child.pipe = <<>>]
    /\ UNCHANGED <<job, unsent, replied, unlogged, now, cmds>>

\* The child has no more data for a while: it asks the parent to stop.
ChildAsksToStop ==
    /\ Up /\ aof.child.pc = "rewriting"
    /\ aof' = [aof EXCEPT !.child.pc = "asking"]
    /\ UNCHANGED <<job, unsent, replied, unlogged, now, cmds>>

\* Mutant: the ACK to the child is lost and the child does not time out.
ReadableDropsAck == FALSE /\ UNCHANGED vars

aofChildPipeReadable ==
    /\ Up /\ aof.child.pc = "asking" /\ ~aof.stop
    /\ aof' = [aof EXCEPT !.stop = TRUE]
    /\ UNCHANGED <<job, unsent, replied, unlogged, now, cmds>>

\* The ACK arrived: read what is left in the pipe, write, fsync, rename, exit 0.
\* Mutant: the child exits without the final read of the pipe.
FinishNoFinalRead(ch) == [ch EXCEPT !.pc = "ok", !.pipe = <<>>]

FinishRewrite(ch) == [ch EXCEPT !.pc = "ok", !.diff = @ \o ch.pipe, !.pipe = <<>>]

ChildFinishes ==
    /\ Up /\ aof.child.pc = "asking" /\ aof.stop
    /\ aof' = [aof EXCEPT !.child = FinishRewrite(@)]
    /\ UNCHANGED <<job, unsent, replied, unlogged, now, cmds>>

\* A write error in the child, its 5 seconds timeout on the ACK, a signal.
ChildFails ==
    /\ Up /\ "child" \in Faults /\ aof.child.pc \in {"rewriting", "asking"}
    /\ aof' = [aof EXCEPT !.child.pc = "err"]
    /\ UNCHANGED <<job, unsent, replied, unlogged, now, cmds>>

\* `cleanup:' of backgroundRewriteDoneHandler.
RewriteCleanup(s) ==
    [s EXCEPT !.child = NoChild, !.rbuf = <<>>,
              !.scheduled = IF s.state = "wait_rewrite" THEN TRUE ELSE @]

\* The rewritten file with what the parent has not sent appended to it.
NewFile(s) == s.child.snap \o s.child.diff \o s.rbuf
ChildSynced(s) == Len(s.child.snap \o s.child.diff)

\* The switch to the rewritten file; an AOF that is off has no descriptor.
SwitchFile(s) ==
    IF s.fd = "none"
    THEN RewriteCleanup([s EXCEPT !.file = NewFile(s), !.synced = ChildSynced(s)])
    ELSE LET t == [s EXCEPT !.file = NewFile(s), !.synced = ChildSynced(s), !.fd = "open",
                            !.buf = <<>>, !.state = IF @ = "wait_rewrite" THEN "on" ELSE @,
                            !.fsyncs = [i \in DOMAIN @ |-> FALSE]]
         IN RewriteCleanup(CASE s.policy = "always" -> [t EXCEPT !.synced = Len(t.file)]
                             [] s.policy = "everysec" -> [t EXCEPT !.fsyncs = Append(@, TRUE)]
                             [] OTHER -> t)

\* open(), the write of the residual difference or rename() may fail.
backgroundRewriteDoneHandler(s) ==
    IF s.child.pc = "err" THEN {RewriteCleanup(s)}
    ELSE {SwitchFile(s)} \cup (IF "write" \in Faults THEN {RewriteCleanup(s)} ELSE {})

(***************************************************************************)
(* serverCron: a scheduled rewrite, or the end of the running one, or an   *)
(* automatic one; then the postponed flush and the retry after an error.   *)
(***************************************************************************)
CronRewrite(s) ==
    LET s1 == IF s.child.pc = "none" /\ s.scheduled
              THEN rewriteAppendOnlyFileBackground(s) ELSE s
    IN CASE s1.child.pc \in {"ok", "err"} -> backgroundRewriteDoneHandler(s1)
         [] s1.child.pc = "none" /\ "bgrewrite" \in Admin ->
              {s1, rewriteAppendOnlyFileBackground(s1)}
         [] OTHER -> {s1}

CronAof(s, t) ==
    UNION {IF s1.postponed # 0 \/ s1.status = "err"
           THEN flushAppendOnlyFile(s1, FALSE, t) ELSE {s1} : s1 \in CronRewrite(s)}

serverCron ==
    /\ Up
    /\ now' \in {now, now + 1} /\ now' <= MaxTime
    /\ \E s \in CronAof(aof, now') : aof' = s /\ Len(s.fsyncs) <= MaxFsyncs
    /\ UNCHANGED <<job, unsent, replied, unlogged, cmds>>

\* The bio.c thread: the first pending fsync completes.
BioFsync ==
    /\ Up /\ aof.fsyncs # <<>>
    /\ aof' = [aof EXCEPT !.fsyncs = Tail(@),
                          !.synced = IF Head(aof.fsyncs) THEN Len(aof.file) ELSE @]
    /\ UNCHANGED <<job, unsent, replied, unlogged, now, cmds>>

(***************************************************************************)
(* CONFIG SET appendonly, SHUTDOWN, crashes and restart.                   *)
(***************************************************************************)
stopAppendOnly ==
    /\ Up /\ "config" \in Admin /\ aof.state # "off"
    /\ \E s \in flushAppendOnlyFile(aof, TRUE, now) :
         aof' = IF s.up # "up" THEN s
                ELSE [s EXCEPT !.synced = Len(s.file), !.fd = "none", !.state = "off",
                               !.child = NoChild, !.rbuf = <<>>,
                               !.fsyncs = [i \in DOMAIN @ |-> FALSE]]
    /\ replied' = {}
    /\ UNCHANGED <<job, unsent, unlogged, now, cmds>>

\* A rewrite already running makes it fail after the file was opened: the
\* descriptor is closed but server.aof_fd still names it.
startAppendOnly ==
    /\ Up /\ "config" \in Admin /\ aof.state = "off"
    /\ aof' = IF aof.child.pc # "none"
              THEN [aof EXCEPT !.last = now, !.fd = "closed"]
              ELSE [rewriteAppendOnlyFileBackground(aof) EXCEPT
                       !.last = now, !.fd = "open", !.state = "wait_rewrite"]
    /\ UNCHANGED <<job, unsent, replied, unlogged, now, cmds>>

\* SHUTDOWN and SIGTERM; REWRITE-AOF writes the jobs of memory to the file.
shutdownCommand(rewrite) ==
    /\ Up /\ "shutdown" \in Admin
    /\ ~(aof.state = "wait_rewrite" /\ aof.child.pc # "none")
    /\ LET f == IF rewrite THEN SnapshotOf(Live) ELSE aof.file
       IN aof' = [aof EXCEPT !.up = "shutdown", !.file = f, !.child = NoChild,
                             !.synced = IF rewrite \/ aof.state # "off" THEN Len(f) ELSE @]
    /\ UNCHANGED <<job, unsent, replied, unlogged, now, cmds>>

Down(f) == [aof EXCEPT !.up = "crashed", !.file = f, !.child = NoChild]

\* The process dies; what it wrote is still in the file.
Kill ==
    /\ Up /\ "kill" \in Faults
    /\ aof' = Down(aof.file)
    /\ UNCHANGED <<job, unsent, replied, unlogged, now, cmds>>

\* The machine dies: what was not fsynced may be lost.
PowerLoss ==
    /\ Up /\ "power" \in Faults
    /\ \E k \in aof.synced..Len(aof.file) : aof' = Down(SubSeq(aof.file, 1, k))
    /\ UNCHANGED <<job, unsent, replied, unlogged, now, cmds>>

\* The machine dies inside backgroundRewriteDoneHandler, after rename() and
\* before the fsync of the new descriptor.
PowerLossAfterRename ==
    /\ Up /\ "switch" \in Faults /\ aof.child.pc = "ok"
    /\ \E k \in ChildSynced(aof)..Len(NewFile(aof)) :
         aof' = Down(SubSeq(NewFile(aof), 1, k))
    /\ UNCHANGED <<job, unsent, replied, unlogged, now, cmds>>

\* loadAppendOnlyFile: a command cut at the end is dropped when
\* aof-load-truncated is set, and stops the server otherwise.
Loads(f) == WellFormed(f) /\ (LoadTruncated \/ Len(f) = ValidUpTo(f))

loadAppendOnlyFile ==
    /\ aof.up \in {"crashed", "exited", "shutdown"} /\ AppendOnly
    /\ LET f == SubSeq(aof.file, 1, ValidUpTo(aof.file)) IN
       IF Loads(aof.file)
       THEN /\ job' = [j \in Jobs |-> IF j \in Replay(f) THEN "active" ELSE "none"]
            /\ aof' = [aof EXCEPT !.up = "up", !.state = "on", !.fd = "open", !.buf = <<>>,
                          !.status = "ok", !.postponed = 0, !.last = 0, !.scheduled = FALSE,
                          !.child = NoChild, !.rbuf = <<>>, !.stop = FALSE, !.fsyncs = <<>>,
                          !.file = f, !.synced = IF @ > Len(f) THEN Len(f) ELSE @]
       ELSE aof' = [aof EXCEPT !.up = "refused"] /\ UNCHANGED job
    /\ unsent' = {}
    /\ unlogged' = IF aof'.up = "up" THEN {} ELSE unlogged
    /\ UNCHANGED <<replied, now, cmds>>

\* disque-check-aof --fix keeps the commands before the first incomplete one.
CheckAofFix ==
    /\ aof.up = "refused" /\ "fix" \in Admin
    /\ aof' = [aof EXCEPT !.up = "shutdown",
                          !.file = SubSeq(@, 1, ValidUpTo(@)),
                          !.synced = IF @ > ValidUpTo(aof.file) THEN ValidUpTo(aof.file) ELSE @]
    /\ UNCHANGED <<job, unsent, replied, unlogged, now, cmds>>

Next ==
    \/ \E j \in Jobs : \/ \E client \in BOOLEAN : AddJob(j, client)
                       \/ AddJobWaitRepl(j) \/ jobReplicationAchieved(j)
                       \/ receiveYourJobs(j)
                       \/ acknowledgeJob(j) \/ unregisterJob(j)
    \/ beforeSleep \/ serverCron \/ BioFsync
    \/ bgrewriteaofCommand \/ aofChildWriteDiffData \/ aofReadDiffFromParent
    \/ ChildAsksToStop \/ aofChildPipeReadable \/ ChildFinishes \/ ChildFails
    \/ stopAppendOnly \/ startAppendOnly
    \/ \E rewrite \in BOOLEAN : shutdownCommand(rewrite)
    \/ Kill \/ PowerLoss \/ PowerLossAfterRename
    \/ loadAppendOnlyFile \/ CheckAofFix

Spec == Init /\ [][Next]_vars

\* The event loop keeps turning, the bio thread and the child keep running.
Fairness ==
    /\ WF_vars(beforeSleep) /\ WF_vars(serverCron) /\ WF_vars(BioFsync)
    /\ WF_vars(ChildAsksToStop) /\ WF_vars(aofChildPipeReadable) /\ WF_vars(ChildFinishes)

FairSpec == Spec /\ Fairness

(***************************************************************************)
(* Properties.                                                             *)
(***************************************************************************)
\* Type invariant.
TypeOK ==
    /\ job \in [Jobs -> States]
    /\ aof.up \in {"up", "exited", "shutdown", "crashed", "refused"}
    /\ aof.state \in {"off", "on", "wait_rewrite"}
    /\ aof.fd \in {"none", "open", "closed"}
    /\ aof.buf \in Seq(Tokens) /\ aof.rbuf \in Seq(Tokens) /\ aof.file \in Seq(Tokens)
    /\ aof.child.pc \in {"none", "rewriting", "asking", "ok", "err"}
    /\ aof.synced \in 0..Len(aof.file)
    /\ unsent \subseteq Jobs /\ replied \subseteq Jobs

\* The file followed by the buffer is a sequence of whole commands, whatever
\* write was cut short and wherever the file was switched, so the loader
\* never meets a format error in the middle (aof.c: flushAppendOnlyFile trims
\* the buffer by what reached the file, the rewrite handler empties it).
LogWellFormed ==
    aof.state = "on" /\ Up =>
        WellFormed(aof.file \o aof.buf) /\ Len(aof.file \o aof.buf) % 2 = 0

\* Replaying the file and the buffer rebuilds exactly the jobs of the node
\* that are active or queued (those handed over by another node excepted, see
\* LogHasEveryJob), at every instant the AOF is on: through short writes, postponed flushes, rewrites and restarts (aof.c: feedAppendOnlyFile,
\* backgroundRewriteDoneHandler, loadAppendOnlyFile).
LogIsDataset ==
    aof.state = "on" /\ Up => Replay(aof.file \o aof.buf) \ unlogged = Live \ unlogged

\* README: the AOF is where "jobs creations and evictions are logged on
\* disk": every active or queued job can be reloaded.
LogHasEveryJob ==
    aof.state = "on" /\ Up => Live \subseteq Replay(aof.file \o aof.buf)

\* While the child has not failed, what it wrote, what it read, what is in
\* the pipe and what the parent still holds rebuild the jobs of the node: no
\* difference is lost between fork() and the switch (aof.c: the stop
\* handshake of rewriteAppendOnlyFile and aofChildPipeReadable).
RewriteIsDataset ==
    aof.state # "off" /\ Up /\ aof.child.pc \in {"rewriting", "asking", "ok"} =>
        Replay(aof.child.snap \o aof.child.diff \o aof.child.pipe \o aof.rbuf)
            \ unlogged = Live \ unlogged

\* With appendfsync always a job whose producer got its reply is in the
\* durable part of the file, and after a crash in the file that is left
\* (aof.c: "on acknowledged write data is synced on disk").
RepliedDurable ==
    aof.policy = "always" /\ aof.state = "on" =>
        replied \subseteq Replay(SubSeq(aof.file, 1,
                              IF aof.up = "crashed" THEN Len(aof.file) ELSE aof.synced))

\* A server that stopped leaves a file the next start can load or that
\* disque-check-aof repairs to one: what is reloaded after a process crash is
\* the state of the last flush (aof.c: loadAppendOnlyFile, disque-check-aof.c).
NeverUnreadable == ~Up => WellFormed(aof.file)

\* Server.c: "AOF write errors: in this case we have a buffer to flush as
\* well", so that the retry of serverCron can clear the error.
ErrorHasBuffer == aof.status = "err" /\ Up => aof.buf # <<>>

\* Server.c, prepareForShutdown: the AOF "contains the full dataset anyway",
\* the jobs already confirmed to their producers at least.
ShutdownKeepsDataset ==
    aof.up = "shutdown" /\ aof.state = "on" => replied \subseteq Replay(aof.file)

\* Server.c, prepareForShutdown: "If we have AOF enabled but haven't written
\* the AOF yet, don't shutdown or else the dataset will be lost".
ShutdownWaitsForInitialAof ==
    aof.up = "shutdown" /\ aof.state # "off" => Live \subseteq Replay(aof.file)

\* Aof.c, backgroundRewriteDoneHandler: a descriptor other than -1 means
\* "AOF enabled".
DescriptorMeansEnabled == Up /\ aof.fd # "none" => aof.state # "off"

\* Whatever is fed is eventually written to the file: a flush postponed by a
\* slow fsync is taken up by the cron (server.c: aof_flush_postponed_start).
EventuallyFlushed == (aof.buf # <<>>) ~> (aof.buf = <<>>)

\* A node switched to appendonly yes does not wait for ever for its first
\* file: the stop handshake between parent and child cannot block, and the
\* cron takes up the new file (aof.c: backgroundRewriteDoneHandler).
RewriteEnds == (aof.state = "wait_rewrite") ~> (aof.state # "wait_rewrite")

\* Disque.conf: with everysec the file is fsynced "one time every second".
EventuallySynced == (aof.synced < Len(aof.file)) ~> (aof.synced = Len(aof.file))
=============================================================================
