-------------------------------- MODULE Config --------------------------------
(***************************************************************************)
(* The configuration of a server (config.c): loading disque.conf, CONFIG   *)
(* SET, and CONFIG REWRITE, which merges the running configuration into    *)
(* the lines of the old file, with crashes and restarts in between.        *)
(*                                                                         *)
(* Every value is a number: 0 and 1 for no and yes, the position of a name *)
(* in its enumeration, 0 for a NULL string, Empty for "" and other numbers *)
(* for other strings.  In a file a number may have a unit.  A line is an   *)
(* option with a value; comments and blank lines are options of their own. *)
(* An int has IntBits bits.                                                *)
(***************************************************************************)
EXTENDS Integers, Sequences, SequencesExt

CONSTANTS Options,   \* the options of this run, others keep their default
          Values,    \* numbers CONFIG SET is called with
          Files,     \* files disque.conf may be edited to
          Included,  \* what the file named by an include directive holds
          IntBits,   \* width of an int
          Writes,    \* outcomes of write: "full", "error", "short"
          MaxSets    \* bound: accepted CONFIG SETs

VARIABLES server,  \* option -> value, of the running server
          file,    \* lines of disque.conf
          pc,      \* "run", "written" (before ftruncate), "down", "loading", "refused"
          size,    \* length of the content the rewrite has written
          synced,  \* CONFIG REWRITE replied OK and nothing changed since
          sets,    \* accepted CONFIG SETs so far
          loads    \* starts that put jobs into queues, since that was asked for

vars == <<server, file, pc, size, synced, sets, loads>>

Infinity == 2147483647
Empty == 1
Once == "aof-enqueue-jobs-once"

(***************************************************************************)
(* The options: how the value is kept, its default, and the range the file *)
(* parser accepts.                                                         *)
(***************************************************************************)
Number(width, default, min, max) ==
    [kind |-> "number", width |-> width, default |-> default, min |-> min, max |-> max]
Bytes(default, min) == [Number("longlong", default, min, Infinity) EXCEPT !.kind = "bytes"]
YesNo(default) == [Number("int", default, 0, 1) EXCEPT !.kind = "yesno"]
Enum(default, names) == [Number("int", default, 0, names - 1) EXCEPT !.kind = "enum"]
String(default) == [Number("char*", default, 0, Infinity) EXCEPT !.kind = "string"]

GeneralOptions ==
    ("timeout"          :> Number("int", 0, 0, Infinity)) @@
    ("tcp-keepalive"    :> Number("int", 0, 0, Infinity)) @@
    ("port"             :> Number("int", 7711, 0, 65535)) @@
    ("tcp-backlog"      :> Number("int", 511, 0, Infinity)) @@
    ("bind"             :> String(0)) @@
    ("unixsocket"       :> String(0)) @@
    ("unixsocketperm"   :> Number("int", 0, 0, 511)) @@
    ("loglevel"         :> Enum(2, 4)) @@
    ("logfile"          :> String(Empty)) @@
    ("syslog-enabled"   :> YesNo(0)) @@
    ("syslog-ident"     :> String(2)) @@
    ("syslog-facility"  :> Enum(1, 9)) @@
    ("maxclients"       :> Number("longlong", 10000, 1, Infinity)) @@
    ("maxmemory"        :> Bytes(1073741824, 1)) @@
    ("maxmemory-policy" :> Enum(0, 2)) @@
    ("maxmemory-samples" :> Number("int", 5, 1, Infinity)) @@
    ("activerehashing"  :> YesNo(1)) @@
    ("daemonize"        :> YesNo(0)) @@
    ("hz"               :> Number("hz", 10, -Infinity, Infinity))

StorageOptions ==
    ("appendonly"       :> YesNo(0)) @@
    ("appendfilename"   :> String(3)) @@
    ("no-appendfsync-on-rewrite" :> YesNo(0)) @@
    ("appendfsync"      :> Enum(0, 3)) @@
    ("auto-aof-rewrite-percentage" :> Number("int", 100, 0, Infinity)) @@
    ("auto-aof-rewrite-min-size"   :> Bytes(67108864, -Infinity)) @@
    ("aof-rewrite-incremental-fsync" :> YesNo(1)) @@
    ("aof-load-truncated"    :> YesNo(1)) @@
    ("aof-enqueue-jobs-once" :> YesNo(0)) @@
    ("requirepass"           :> String(0)) @@
    ("pidfile"               :> String(4)) @@
    ("cluster-config-file"   :> String(5)) @@
    ("cluster-node-timeout"  :> Number("longlong", 15000, 1, Infinity)) @@
    ("slowlog-log-slower-than" :> Number("longlong", 10000, -Infinity, Infinity)) @@
    ("latency-monitor-threshold" :> Number("longlong", 0, 0, Infinity)) @@
    ("slowlog-max-len"       :> Number("longlong", 128, -Infinity, Infinity)) @@
    ("client-output-buffer-limit" :> Number("longlong", 0, 0, Infinity))

Table == GeneralOptions @@ StorageOptions

\* The order rewriteConfig writes them in.
RewriteOrder ==
    <<"daemonize", "pidfile", "port", "tcp-backlog", "bind", "unixsocket", "unixsocketperm",
      "timeout", "tcp-keepalive", "loglevel", "logfile", "syslog-enabled", "syslog-ident",
      "syslog-facility", "requirepass", "maxclients", "maxmemory", "maxmemory-policy",
      "maxmemory-samples", "appendonly", "appendfilename", "appendfsync",
      "no-appendfsync-on-rewrite", "auto-aof-rewrite-percentage", "auto-aof-rewrite-min-size",
      "cluster-config-file", "cluster-node-timeout", "slowlog-log-slower-than",
      "latency-monitor-threshold", "slowlog-max-len", "activerehashing",
      "client-output-buffer-limit", "hz", "aof-rewrite-incremental-fsync",
      "aof-load-truncated", "aof-enqueue-jobs-once">>

initServerConfig == [o \in Options |-> Table[o].default]

(***************************************************************************)
(* Values in a file.                                                       *)
(***************************************************************************)
Text(n) == [n |-> n, unit |-> "b"]

Multiplier ==
    ("b" :> 1) @@ ("k" :> 1000) @@ ("kb" :> 1024) @@ ("m" :> 1000000) @@ ("mb" :> 1048576) @@
    ("g" :> 1000000000) @@ ("gb" :> 1073741824)

memtoll(t) == t.n * Multiplier[t.unit]

rewriteConfigFormatMemory(v) ==
    LET fits == {u \in {"gb", "mb", "kb"} : v # 0 /\ v % Multiplier[u] = 0} IN
    IF fits = {} THEN Text(v)
    ELSE LET u == CHOOSE x \in fits : \A y \in fits : Multiplier[x] >= Multiplier[y]
         IN  [n |-> v \div Multiplier[u], unit |-> u]

\* The value a variable of a width has after an assignment.
Assign(width, v) ==
    LET half == 2 ^ (IntBits - 1)
        int  == ((v + half) % (2 * half)) - half
    IN  CASE width = "int" -> int
          [] width = "hz"  -> IF int < 1 THEN 1 ELSE IF int > 500 THEN 500 ELSE int
          [] OTHER -> v

(***************************************************************************)
(* Loading.  A comment, also one longer than CONFIG_MAX_LINE, and a blank  *)
(* line are skipped; an unknown directive or a bad value is fatal.         *)
(***************************************************************************)
Line(o, t) == [opt |-> o, val |-> t]
Blank == Line("", Text(0))
Comment == Line("#", Text(0))
Signature == Line("# Generated by CONFIG REWRITE", Text(0))
LongComment == Line("#...", Text(0))  \* a comment longer than CONFIG_MAX_LINE
Rest == Line("...", Text(0))          \* what of it is past CONFIG_MAX_LINE
Unbalanced == Line("\"", Text(0))     \* a line with unbalanced quotes
Skipped == {Blank, Comment, Signature, LongComment}

LoadLine(c, l) ==
    IF ~c.ok \/ l \in Skipped \/ l.opt = "rename-command" THEN c
    ELSE IF l.opt \notin Options THEN [c EXCEPT !.ok = FALSE]
    ELSE LET row == Table[l.opt]
             v   == Assign(row.width, IF row.kind = "bytes" THEN memtoll(l.val) ELSE l.val.n)
         IN  IF row.min <= v /\ v <= row.max THEN [c EXCEPT !.cfg[l.opt] = v]
             ELSE [c EXCEPT !.ok = FALSE]

\* An include directive loads its file where it stands.
LoadLines(c, lines) ==
    FoldLeft(LAMBDA d, l : IF d.ok /\ l.opt = "include" THEN FoldLeft(LoadLine, d, Included)
                           ELSE LoadLine(d, l),
             c, lines)

loadServerConfig(f) == LoadLines([ok |-> TRUE, cfg |-> initServerConfig], f)

(***************************************************************************)
(* CONFIG SET.                                                             *)
(***************************************************************************)
\* The options that can be set, with the check of their value.
SetYesNo == {"aof-rewrite-incremental-fsync", "aof-load-truncated", "activerehashing",
             "tcp-keepalive", "aof-enqueue-jobs-once", "appendonly"}
SetFrom0 == {"timeout", "auto-aof-rewrite-percentage", "auto-aof-rewrite-min-size",
             "slowlog-log-slower-than", "slowlog-max-len", "latency-monitor-threshold",
             "cluster-node-timeout", "hz", "maxmemory", "client-output-buffer-limit"}
SetFrom1 == {"maxmemory-samples", "maxclients"}
SetEnum == {"loglevel", "maxmemory-policy", "appendfsync"}

Accepts(o, v) ==
    \/ o \in SetYesNo /\ v \in {0, 1}
    \/ o \in SetFrom0 /\ v >= 0
    \/ o \in SetFrom1 /\ v >= 1
    \/ o \in SetEnum /\ v \in Table[o].min .. Table[o].max
    \/ o = "requirepass" /\ v > 0

\* requirepass "" turns the password off.
configSetCommand(o, v) ==
    /\ pc = "run" /\ sets < MaxSets
    /\ Accepts(o, v)
    /\ server' = [server EXCEPT ![o] = IF o = "requirepass" /\ v = Empty THEN 0
                                       ELSE Assign(Table[o].width, v)]
    /\ synced' = FALSE /\ sets' = sets + 1
    /\ loads' = IF o = Once THEN 0 ELSE loads
    /\ UNCHANGED <<file, pc, size>>

(***************************************************************************)
(* CONFIG REWRITE: the state is the lines, the lines of each option not    *)
(* used yet, the options processed, and whether the signature is there.    *)
(***************************************************************************)
AppendLine(st, l) == [st EXCEPT !.lines = Append(@, l)]

AddLineNumberToOption(st, o) ==
    [st EXCEPT !.numbers = (o :> Append(IF o \in DOMAIN @ THEN @[o] ELSE <<>>, Len(st.lines))) @@ @]

\* fgets returns a long comment in two pieces.
ReadOldLine(st, l) ==
    CASE l = LongComment -> AddLineNumberToOption(AppendLine(AppendLine(st, Comment), Rest), Rest.opt)
      [] l \in Skipped   -> [AppendLine(st, l) EXCEPT !.tail = @ \/ l = Signature]
      [] l = Unbalanced  -> AppendLine(st, Comment)
      [] OTHER           -> AddLineNumberToOption(AppendLine(st, l), l.opt)

rewriteConfigReadOldFile(f) ==
    FoldLeft(ReadOldLine, [lines |-> <<>>, numbers |-> <<>>, done |-> {}, tail |-> FALSE], f)

MarkAsProcessed(st, o) == [st EXCEPT !.done = @ \cup {o}]

UseLine(st, o, l) ==
    [st EXCEPT !.lines[Head(st.numbers[o])] = l, !.numbers[o] = Tail(@)]

AppendNew(st, l) ==
    AppendLine(IF st.tail THEN st ELSE [AppendLine(st, Signature) EXCEPT !.tail = TRUE], l)

HasLine(st, o) == o \in DOMAIN st.numbers /\ st.numbers[o] # <<>>

rewriteConfigRewriteLine(st, o, l, force) ==
    IF HasLine(st, o) THEN UseLine(MarkAsProcessed(st, o), o, l)
    ELSE IF force THEN AppendNew(MarkAsProcessed(st, o), l)
    ELSE MarkAsProcessed(st, o)

\* A string without a default is written even if nothing changed it; a NULL
\* string is not written at all.
RewriteOption(st, o, v) ==
    LET row == Table[o] IN
    IF row.kind = "string" /\ v = 0 THEN MarkAsProcessed(st, o)
    ELSE rewriteConfigRewriteLine(st, o,
            Line(o, IF row.kind = "bytes" THEN rewriteConfigFormatMemory(v) ELSE Text(v)),
            v # row.default)

\* Mutant: lines left over are kept.
KeepOrphaned(st) == st

rewriteConfigRemoveOrphaned(st) ==
    LET orphans == UNION {{st.numbers[o][i] : i \in DOMAIN st.numbers[o]} :
                            o \in st.done \cap DOMAIN st.numbers}
    IN  [st EXCEPT !.lines = [i \in DOMAIN @ |-> IF i \in orphans THEN Blank ELSE @[i]]]

\* A cluster of empty lines becomes one.
rewriteConfigGetContentFromState(st) ==
    FoldLeft(LAMBDA c, l : IF l = Blank /\ c # <<>> /\ Last(c) = Blank THEN c ELSE Append(c, l),
             <<>>, st.lines)

Content(f, cfg) ==
    rewriteConfigGetContentFromState(rewriteConfigRemoveOrphaned(
        FoldLeft(LAMBDA st, o : RewriteOption(st, o, cfg[o]), rewriteConfigReadOldFile(f),
                 SelectSeq(RewriteOrder, LAMBDA o : o \in Options))))

\* The padding: a newline and # up to the size of the old file.
Padding(old, new) ==
    IF Len(new) >= Len(old) THEN <<>>
    ELSE <<Blank>> \o [i \in 1 .. Len(old) - Len(new) - 1 |-> Comment]

\* rewriteConfig of a configuration, up to the write: all of it, none of it,
\* or the first lines.  A short write is not an error for the caller.
rewriteConfigOverwriteFile(cfg, outcome) ==
    LET new    == Content(file, cfg)
        padded == new \o Padding(file, new)
    IN  CASE outcome = "error" -> pc' = "run" /\ UNCHANGED <<file, size, synced>>
          [] outcome = "full"  -> /\ file' = padded /\ pc' = "written"
                                  /\ size' = Len(new) /\ synced' = TRUE
          [] OTHER -> \E n \in 0 .. Len(padded) - 1 :
                         /\ file' = SubSeq(padded, 1, n) \o SubSeq(file, n + 1, Len(file))
                         /\ pc' = "written" /\ size' = Len(new) /\ synced' = TRUE

rewriteConfig(outcome) ==
    /\ pc = "run"
    /\ rewriteConfigOverwriteFile(server, outcome)
    /\ UNCHANGED <<server, sets, loads>>

Truncate(f, n) == IF Len(f) <= n THEN f ELSE SubSeq(f, 1, n)

ftruncate ==
    /\ pc = "written"
    /\ file' = Truncate(file, size) /\ pc' = "run" /\ size' = 0
    /\ UNCHANGED <<server, synced, sets, loads>>

(***************************************************************************)
(* The process and its operator.                                           *)
(***************************************************************************)
Init ==
    /\ file \in {f \in Files : loadServerConfig(f).ok}
    /\ server = loadServerConfig(file).cfg
    /\ pc = "run" /\ size = 0 /\ synced = FALSE /\ sets = 0 /\ loads = 0

Crash ==
    /\ pc \in {"run", "written", "loading"} /\ pc' = "down" /\ size' = 0
    /\ UNCHANGED <<server, file, synced, sets, loads>>

\* DEBUG RESTART: the rewrite, all of it, then execve.
restartServer ==
    /\ pc = "run" /\ "full" \in Writes
    /\ file' = Content(file, server) /\ synced' = TRUE /\ pc' = "down"
    /\ UNCHANGED <<server, size, sets, loads>>

Start ==
    /\ pc = "down"
    /\ LET loaded == loadServerConfig(file) IN
         /\ server' = loaded.cfg
         /\ pc' = IF loaded.ok THEN "loading" ELSE "refused"
    /\ UNCHANGED <<file, size, synced, sets, loads>>

TurnOff(outcome) == rewriteConfigOverwriteFile([server EXCEPT ![Once] = 0], outcome)

\* aof-enqueue-jobs-once puts jobs back into their queues and turns itself
\* off; that the rewrite failed is only logged.
loadDataFromDisk(outcome) ==
    /\ pc = "loading"
    /\ IF Once \in Options /\ server[Once] = 1
       THEN /\ server' = [server EXCEPT ![Once] = 0] /\ loads' = loads + 1
            /\ TurnOff(outcome)
       ELSE pc' = "run" /\ UNCHANGED <<server, file, size, synced, loads>>
    /\ UNCHANGED sets

Edit ==
    /\ pc \in {"run", "refused"} /\ file' \in Files /\ synced' = FALSE
    /\ pc' = IF pc = "refused" THEN "down" ELSE pc
    /\ loads' = 0
    /\ UNCHANGED <<server, size, sets>>

Next ==
    \/ \E o \in Options, v \in Values : configSetCommand(o, v)
    \/ \E w \in Writes : rewriteConfig(w) \/ loadDataFromDisk(w)
    \/ ftruncate \/ Crash \/ restartServer \/ Start \/ Edit

Spec == Init /\ [][Next]_vars

(***************************************************************************)
(* Properties.                                                             *)
(***************************************************************************)
\* Type invariant.
TypeOK ==
    /\ DOMAIN server = Options /\ \A o \in Options : server[o] \in Int
    /\ pc \in {"run", "written", "down", "loading", "refused"} /\ size >= 0 /\ synced \in BOOLEAN
    /\ \A i \in DOMAIN file : file[i].val.unit \in DOMAIN Multiplier

\* After CONFIG REWRITE replied OK, and while it is between its write and its
\* ftruncate, the file loads and gives the configuration of the server, so
\* that a restart, or a crash at any of those points, keeps it.
RewriteIsConfig ==
    synced => LET loaded == loadServerConfig(file) IN
                /\ loaded.ok
                /\ pc \in {"run", "written"} => loaded.cfg = server

\* Rewriting twice changes nothing more: the file does not grow.
RewriteIsStable ==
    pc = "run" => LET once == Content(file, server) IN Content(once, server) = once

\* Jobs are put back into their queues by one start after the operator asked
\* for it (aof-enqueue-jobs-once, loadDataFromDisk): a second one could
\* deliver a job twice that is to be delivered at most once.
EnqueuedOnce == loads <= 1

\* Lines the rewrite does not understand stay, in their order.
UnknownKept ==
    LET unknown(f) == SelectSeq(f, LAMBDA l : l.opt \in {"rename-command", "include"})
    IN  pc = "run" => unknown(Content(file, server)) = unknown(file)
=============================================================================
