--------------------------- MODULE LatencyMonitor ---------------------------
(***************************************************************************)
(* latency.c: for every kind of event a ring of samples, one for a second  *)
(* in which the event was slow, and what LATENCY reports of it.            *)
(***************************************************************************)
EXTENDS Integers, Sequences, FiniteSets, SequencesExt, FiniteSetsExt

CONSTANTS Events,
          TsLen,      \* LATENCY_TS_LEN
          Threshold,  \* server.latency_monitor_threshold
          Latencies,  \* the durations that are measured
          MaxTime     \* bound: seconds

VARIABLES now,      \* time(NULL)
          series,   \* event -> time series, NoSeries when there is none
          seen      \* history: event -> the latencies added since the last reset, [time, latency]

vars == <<now, series, seen>>

NoSeries == [idx |-> 0, max |-> 0, samples |-> <<>>]
NewSeries == [idx |-> 0, max |-> 0, samples |-> [i \in 1 .. TsLen |-> [time |-> 0, latency |-> 0]]]

Exists(e) == series[e] # NoSeries

Init ==
    /\ now = 1
    /\ series = [e \in Events |-> NoSeries]
    /\ seen = [e \in Events |-> <<>>]

\* samples[idx] of the code is samples[idx + 1] here.
Previous(ts) == ((ts.idx + TsLen - 1) % TsLen) + 1

\* In the second of the last sample: the higher of the two.
InSecond(ts, l) == [ts EXCEPT !.samples[Previous(ts)].latency = Max({@, l})]

\* Mutant: the index runs to the end of the array.
StoreLong(ts, l) ==
    [ts EXCEPT !.samples[ts.idx + 1] = [time |-> now, latency |-> l],
               !.max = Max({@, l}),
               !.idx = IF ts.idx + 2 >= TsLen THEN 0 ELSE @ + 1]

Store(ts, l) ==
    [ts EXCEPT !.samples[ts.idx + 1] = [time |-> now, latency |-> l],
               !.max = Max({@, l}),
               !.idx = IF ts.idx + 1 = TsLen THEN 0 ELSE @ + 1]

\* latencyAddSampleIfNeeded() and latencyAddSample()
latencyAddSample(e, l) ==
    /\ l >= Threshold
    /\ LET ts == IF Exists(e) THEN series[e] ELSE NewSeries
       IN  series' = [series EXCEPT ![e] =
                         IF ts.samples[Previous(ts)].time = now THEN InSecond(ts, l) ELSE Store(ts, l)]
    /\ seen' = [seen EXCEPT ![e] = Append(@, [time |-> now, latency |-> l])]
    /\ UNCHANGED now

latencyResetEvent(E) ==
    /\ \E e \in E : Exists(e)
    /\ series' = [e \in Events |-> IF e \in E THEN NoSeries ELSE series[e]]
    /\ seen' = [e \in Events |-> IF e \in E THEN <<>> ELSE seen[e]]
    /\ UNCHANGED now

Tick == now < MaxTime /\ now' = now + 1 /\ UNCHANGED <<series, seen>>

\* Two measurements of an event in a second are enough to tell them apart.
Next ==
    \/ \E e \in Events, l \in Latencies :
          /\ Cardinality({i \in DOMAIN seen[e] : seen[e][i].time = now}) < 2
          /\ latencyAddSample(e, l)
    \/ \E E \in {Events} \cup {{e} : e \in Events} : latencyResetEvent(E)
    \/ Tick

Spec == Init /\ [][Next]_vars

-----------------------------------------------------------------------------
(* What LATENCY replies *)

Taken(ts) == {i \in DOMAIN ts.samples : ts.samples[i].time # 0}

\* LATENCY HISTORY: the samples from the oldest, without the empty ones.
latencyCommandReplyWithSamples(ts) ==
    SelectSeq([j \in 1 .. TsLen |-> ts.samples[((ts.idx + j - 1) % TsLen) + 1]],
              LAMBDA s : s.time # 0)

\* LATENCY LATEST: time and latency of the last sample, and the highest.
latencyCommandReplyWithLatestEvents(ts) ==
    [time |-> ts.samples[Previous(ts)].time, latency |-> ts.samples[Previous(ts)].latency, max |-> ts.max]

Total(f) == FoldFunction(+, 0, f)

\* LATENCY DOCTOR, of a series with samples.
analyzeLatencyForEvent(ts) ==
    LET n == Cardinality(Taken(ts))
        avg == Total([i \in Taken(ts) |-> ts.samples[i].latency]) \div n
        dist(l) == IF l < avg THEN avg - l ELSE l - avg
        L == {ts.samples[i].latency : i \in Taken(ts)}
        oldest == Min({ts.samples[i].time : i \in Taken(ts)})
    IN  [samples |-> n, min |-> Min(L), max |-> Max(L), avg |-> avg,
         mad |-> Total([i \in Taken(ts) |-> dist(ts.samples[i].latency)]) \div n,
         period |-> Max({now - oldest, 1})]

-----------------------------------------------------------------------------
\* The worst latency of each second with a slow event, from the oldest.
Worst(e) ==
    LET T == {seen[e][i].time : i \in DOMAIN seen[e]}
        worst(t) == Max({seen[e][i].latency : i \in {k \in DOMAIN seen[e] : seen[e][k].time = t}})
        times == SetToSortSeq(T, <)
    IN  [k \in DOMAIN times |-> [time |-> times[k], latency |-> worst(times[k])]]

Latest(s, n) == IF Len(s) <= n THEN s ELSE SubSeq(s, Len(s) - n + 1, Len(s))

\* LATENCY HISTORY returns, oldest first, the worst latency of each of the last
\* LATENCY_TS_LEN seconds in which the event was slow: none is lost, repeated
\* or out of order when the ring wraps or is reset.
HistoryIsRecent ==
    \A e \in Events : Exists(e) => latencyCommandReplyWithSamples(series[e]) = Latest(Worst(e), TsLen)

\* LATENCY LATEST and LATENCY DOCTOR speak of the same samples as LATENCY
\* HISTORY: the last of them, their number and their bounds, an average and a
\* deviation that lie within the bounds, and the age of the oldest.
ReportsAgree ==
    \A e \in Events : Exists(e) =>
        LET h == latencyCommandReplyWithSamples(series[e])
            s == analyzeLatencyForEvent(series[e])
            latest == latencyCommandReplyWithLatestEvents(series[e])
        IN  /\ latest.time = Last(h).time /\ latest.latency = Last(h).latency
            /\ s.samples = Len(h)
            /\ \A i \in DOMAIN h : s.min <= h[i].latency /\ h[i].latency <= s.max
            /\ s.min <= s.avg /\ s.avg <= s.max
            /\ s.mad <= s.max - s.min
            /\ s.period = Max({now - h[1].time, 1})

\* The all time high is the "absolute max observed since latest reset"
\* (latency.h).
AllTimeHigh ==
    \A e \in Events : Exists(e) =>
        latencyCommandReplyWithLatestEvents(series[e]).max = Max({seen[e][i].latency : i \in DOMAIN seen[e]})
=============================================================================
