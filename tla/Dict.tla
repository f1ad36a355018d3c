-------------------------------- MODULE Dict --------------------------------
(***************************************************************************)
(* dict.c: the chained hash table that holds the jobs, the queues and the  *)
(* nodes.  A dictionary has two tables; while it is resized its buckets    *)
(* move one by one from ht[0] to ht[1], a step at every operation and      *)
(* many in serverCron.  JSCAN and QSCAN walk it with a cursor across       *)
(* commands, the handlers with safe iterators inside one command.          *)
(***************************************************************************)
EXTENDS Integers, Sequences, FiniteSets, SequencesExt

CONSTANTS
    Keys,              \* the keys that may be added
    Hash,              \* Hash[k]: the value of the hash function
    InitialSize,       \* DICT_HT_INITIAL_SIZE, a power of two
    ForceResizeRatio,  \* dict_force_resize_ratio
    MinFill,           \* HASHTABLE_MIN_FILL, a percentage
    RehashBatch,       \* the buckets dictRehashMilliseconds moves between two
                       \* looks at the clock
    CursorBits,        \* the width of the unsigned long of a cursor
    Matching,          \* the keys that the filter of a SCAN command accepts
    Counts,            \* COUNT arguments of a SCAN command
    Nil

VARIABLES
    dict,        \* [ht0, ht1, rehashidx, iterators]
    canResize,   \* dict_can_resize
    reply,       \* the last add, delete or find and whether it succeeded
    iter,        \* the safe iterator of the running handler
    scan         \* the SCAN iteration of a client and what it was promised

vars == <<dict, canResize, reply, iter, scan>>

-----------------------------------------------------------------------------
(* Tables *)

NullTable == [size |-> 0, used |-> 0, table |-> <<>>]

NewTable(n) == [size |-> n, used |-> 0, table |-> [i \in 0 .. n - 1 |-> <<>>]]

EmptyDict == [ht0 |-> NullTable, ht1 |-> NullTable,
              rehashidx |-> -1, iterators |-> 0]

Rehashing(d) == d.rehashidx # -1

Bucket(ht, k) == Hash[k] % ht.size

InTable(ht, k) == ht.size > 0 /\ Contains(ht.table[Bucket(ht, k)], k)

Members(d) == {k \in Keys : InTable(d.ht0, k) \/ (Rehashing(d) /\ InTable(d.ht1, k))}

\* Insert at the head of the chain.
Push(ht, k) ==
    [ht EXCEPT !.used = @ + 1,
               !.table[Bucket(ht, k)] = <<k>> \o @]

Unlink(ht, k) ==
    [ht EXCEPT !.used = @ - 1,
               !.table[Bucket(ht, k)] = RemoveFirst(@, k)]

-----------------------------------------------------------------------------
(* Resizing and rehashing *)

NextPower(size) ==
    LET p[i \in Nat] == IF i >= size THEN i ELSE p[2 * i]
    IN  p[InitialSize]

\* dictExpand: start the life of the dictionary, or a rehashing.
Expand(d, size) ==
    LET n == NextPower(size)
    IN  IF Rehashing(d) \/ d.ht0.used > size \/ n = d.ht0.size THEN d
        ELSE IF d.ht0.size = 0 THEN [d EXCEPT !.ht0 = NewTable(n)]
        ELSE [d EXCEPT !.ht1 = NewTable(n), !.rehashidx = 0]

\* One turn of the loop of dictRehash: skip empty buckets, at most "visits"
\* of them, then move every entry of the next bucket.
RehashBucket(st) ==
    LET d == st.d
        full == {i \in d.rehashidx .. d.ht0.size - 1 : d.ht0.table[i] # <<>>}
        i == CHOOSE j \in full : \A l \in full : j <= l
        bucket == d.ht0.table[i]
    IN  IF st.visits = 0 \/ d.ht0.used = 0 THEN st
        ELSE IF i - d.rehashidx >= st.visits
             THEN [d |-> [d EXCEPT !.rehashidx = @ + st.visits], visits |-> 0]
        ELSE [d |-> [d EXCEPT !.ht0.used = @ - Len(bucket),
                              !.ht0.table[i] = <<>>,
                              !.ht1 = FoldLeft(Push, @, bucket),
                              !.rehashidx = i + 1],
              visits |-> st.visits - (i - d.rehashidx)]

\* dictRehash(d, n); the new table takes over once the old one is empty, which
\* takes as many turns as the old one has buckets at most.
Rehash(d, n) ==
    LET turns == IF n < d.ht0.size THEN n ELSE d.ht0.size
        st == FoldLeft(LAMBDA s, t : RehashBucket(s),
                       [d |-> d, visits |-> n * 10], [t \in 1 .. turns |-> t])
    IN  IF ~Rehashing(d) THEN d
        ELSE IF st.visits > 0 /\ st.d.ht0.used = 0
             THEN [st.d EXCEPT !.ht0 = st.d.ht1, !.ht1 = NullTable, !.rehashidx = -1]
        ELSE st.d

\* _dictRehashStep: not while a safe iterator walks the tables.
RehashStep(d) == IF d.iterators = 0 THEN Rehash(d, 1) ELSE d

\* _dictExpandIfNeeded
ExpandIfNeeded(d) ==
    IF Rehashing(d) THEN d
    ELSE IF d.ht0.size = 0 THEN Expand(d, InitialSize)
    ELSE IF /\ d.ht0.used >= d.ht0.size
            /\ canResize \/ d.ht0.used \div d.ht0.size > ForceResizeRatio
         THEN Expand(d, d.ht0.used * 2)
    ELSE d

\* htNeedsResize: the table is nearly empty.
NeedsResize(d) ==
    LET size == d.ht0.size + d.ht1.size
        used == d.ht0.used + d.ht1.used
    IN  /\ size > InitialSize /\ used > 0
        /\ (used * 100) \div size < MinFill

\* dictResize
ResizeToFit(d) ==
    IF ~canResize \/ Rehashing(d) THEN d
    ELSE Expand(d, IF d.ht0.used < InitialSize THEN InitialSize ELSE d.ht0.used)

-----------------------------------------------------------------------------
(* Operations: [d |-> the dictionary, ok |-> the result] *)

\* dictAddRaw
AddRaw(d, k) ==
    LET e == ExpandIfNeeded(RehashStep(d))
    IN  IF k \in Members(e) THEN [d |-> e, ok |-> FALSE]
        ELSE [d |-> IF Rehashing(e) THEN [e EXCEPT !.ht1 = Push(@, k)]
                                    ELSE [e EXCEPT !.ht0 = Push(@, k)],
              ok |-> TRUE]

\* Mutant: only the first table is searched.
GenericDeleteOld(d, k) ==
    LET e == RehashStep(d)
    IN  IF d.ht0.size > 0 /\ InTable(e.ht0, k)
        THEN [d |-> [e EXCEPT !.ht0 = Unlink(@, k)], ok |-> TRUE]
        ELSE [d |-> e, ok |-> FALSE]

\* dictGenericDelete
GenericDelete(d, k) ==
    LET e == RehashStep(d)
    IN  IF d.ht0.size = 0 THEN [d |-> d, ok |-> FALSE]
        ELSE IF InTable(e.ht0, k)
             THEN [d |-> [e EXCEPT !.ht0 = Unlink(@, k)], ok |-> TRUE]
        ELSE IF Rehashing(e) /\ InTable(e.ht1, k)
             THEN [d |-> [e EXCEPT !.ht1 = Unlink(@, k)], ok |-> TRUE]
        ELSE [d |-> e, ok |-> FALSE]

\* The buckets dictGetRandomKey draws from, after its rehashing step.
RandomBuckets(d) ==
    IF Rehashing(d)
    THEN {IF h >= d.ht0.size THEN d.ht1.table[h - d.ht0.size] ELSE d.ht0.table[h] :
             h \in d.rehashidx .. d.ht0.size + d.ht1.size - 1}
    ELSE {d.ht0.table[h] : h \in 0 .. d.ht0.size - 1}

-----------------------------------------------------------------------------
(* Safe iterators *)

NoIter == [on |-> FALSE, table |-> 0, index |-> -1, entry |-> Nil, next |-> Nil,
           owed |-> {}, seen |-> {}, twice |-> {}]

TableOf(d, n) == IF n = 0 THEN d.ht0 ELSE d.ht1

\* The entry the chain of bucket i of table n holds after k.
After(d, n, i, k) ==
    LET chain == TableOf(d, n).table[i]
        at == SelectInSeq(chain, LAMBDA x : x = k)
    IN  IF at = Len(chain) THEN Nil ELSE chain[at + 1]

\* The positions <<table, index>> dictNext visits next, table 1 only if a
\* rehashing is in progress when the end of table 0 is met.
Ahead(d, it) ==
    {<<it.table, i>> : i \in it.index + 1 .. TableOf(d, it.table).size - 1}
      \cup (IF it.table = 0 /\ Rehashing(d)
            THEN {<<1, i>> : i \in 0 .. d.ht1.size - 1} ELSE {})

At(d, it, pos, k) ==
    [it EXCEPT !.table = pos[1], !.index = pos[2], !.entry = k,
               !.next = After(d, pos[1], pos[2], k),
               !.seen = @ \cup {k},
               !.twice = IF k \in it.seen THEN @ \cup {k} ELSE @]

\* dictNext; entry is Nil when there is nothing left.
IterNext(d, it) ==
    LET full == {p \in Ahead(d, it) : TableOf(d, p[1]).table[p[2]] # <<>>}
        pos == CHOOSE p \in full : \A q \in full :
                   p[1] < q[1] \/ (p[1] = q[1] /\ p[2] <= q[2])
    IN  IF it.next # Nil THEN At(d, it, <<it.table, it.index>>, it.next)
        ELSE IF full = {} THEN [it EXCEPT !.entry = Nil]
        ELSE At(d, it, pos, Head(TableOf(d, pos[1]).table[pos[2]]))

-----------------------------------------------------------------------------
(* dictScan: the cursor counts with its bits reversed *)

Width == 2 ^ CursorBits

Bit(v, i) == (v \div 2 ^ i) % 2

rev(v) == MapThenSumSet(LAMBDA i : Bit(v, i) * 2 ^ (CursorBits - 1 - i),
                        0 .. CursorBits - 1)

\* Set the bits above the mask of the small table, then count.
NextCursor(v, size) == rev((rev((v % size) + Width - size) + 1) % Width)

Small(d) == IF d.ht0.size <= d.ht1.size THEN d.ht0 ELSE d.ht1
Large(d) == IF d.ht0.size <= d.ht1.size THEN d.ht1 ELSE d.ht0

\* Mutant: the expansions in the large table are forgotten.
ScanBucketsSmall(d, v) ==
    IF ~Rehashing(d) THEN {d.ht0.table[v % d.ht0.size]}
    ELSE {Small(d).table[v % Small(d).size]}

\* While rehashing: the bucket of the small table, and in the large one its
\* expansions from the cursor up.
ScanBuckets(d, v) ==
    IF ~Rehashing(d) THEN {d.ht0.table[v % d.ht0.size]}
    ELSE {Small(d).table[v % Small(d).size]} \cup
         {Large(d).table[i] : i \in {j \in 0 .. Large(d).size - 1 :
              j % Small(d).size = v % Small(d).size /\ j >= v % Large(d).size}}

\* dictScan: what the callback gets and the next cursor.
Scan(d, v) ==
    IF d.ht0.used + d.ht1.used = 0 THEN [keys |-> {}, cursor |-> 0]
    ELSE [keys |-> UNION {ToSet(b) : b \in ScanBuckets(d, v)},
          cursor |-> NextCursor(v, IF Rehashing(d) THEN Small(d).size ELSE d.ht0.size)]

\* The loop of jscanCommand and qscanCommand.
ScanLoop(d, v, count, busyloop) ==
    LET Turn(st, t) ==
            IF st.done THEN st
            ELSE LET r == Scan(d, st.cursor)
                     got == st.got \cup (r.keys \cap Matching)
                 IN  [cursor |-> r.cursor, got |-> got, left |-> st.left - 1,
                      done |-> \/ r.cursor = 0
                               \/ ~busyloop /\ (st.left = 0 \/ Cardinality(got) >= count)]
    IN  FoldLeft(Turn, [cursor |-> v, got |-> {}, left |-> count * 10, done |-> FALSE],
                 [t \in 1 .. Width |-> t])

-----------------------------------------------------------------------------
(* The state machine *)

NoScan == [on |-> FALSE, cursor |-> 0, owed |-> {}, got |-> {}]

Init ==
    /\ dict = EmptyDict
    /\ canResize = TRUE
    /\ reply = <<"none", Nil, FALSE>>
    /\ iter = NoIter
    /\ scan = NoScan

\* A deleted key is no longer owed to the walks in progress.
Forget(S) ==
    /\ iter' = [iter EXCEPT !.owed = @ \ S, !.seen = @ \ S]
    /\ scan' = [scan EXCEPT !.owed = @ \ S]

Apply(name, k, op) == dict' = op.d /\ reply' = <<name, k, op.ok>>

\* dictAdd; also from the body of a loop over a safe iterator
Add(k) ==
    /\ Apply("add", k, AddRaw(dict, k))
    /\ UNCHANGED <<canResize, iter, scan>>

Delete(k) ==
    /\ ~iter.on
    /\ Apply("delete", k, GenericDelete(dict, k))
    /\ Forget({k})
    /\ UNCHANGED canResize

Find(k) ==
    /\ IF dict.ht0.size = 0 THEN dict' = dict ELSE dict' = RehashStep(dict)
    /\ reply' = <<"find", k, k \in Members(dict')>>
    /\ UNCHANGED <<canResize, iter, scan>>

\* dictEmpty
Empty ==
    /\ ~iter.on
    /\ dict' = EmptyDict
    /\ Forget(Keys)
    /\ UNCHANGED <<canResize, reply>>

\* databasesCron, when no AOF rewrite runs: tryResizeHashTables, then
\* incrementallyRehash, whose millisecond is enough for one batch or for two
Cron ==
    /\ ~iter.on /\ canResize
    /\ LET d == IF NeedsResize(dict) THEN ResizeToFit(dict) ELSE dict
           once == Rehash(d, RehashBatch)
       IN  dict' = once \/ dict' = Rehash(once, RehashBatch)
    /\ UNCHANGED <<canResize, reply, iter, scan>>

\* updateDictResizePolicy, when an AOF rewrite starts or ends
ResizePolicy ==
    /\ ~iter.on
    /\ canResize' = ~canResize
    /\ UNCHANGED <<dict, reply, iter, scan>>

\* dictGetSafeIterator and the first dictNext
IterStart ==
    /\ ~iter.on
    /\ dict' = [dict EXCEPT !.iterators = @ + 1]
    /\ iter' = IterNext(dict, [NoIter EXCEPT !.on = TRUE, !.owed = Members(dict)])
    /\ UNCHANGED <<canResize, reply, scan>>

IterStep ==
    /\ iter.on /\ iter.entry # Nil
    /\ iter' = IterNext(dict, iter)
    /\ UNCHANGED <<dict, canResize, reply, scan>>

\* The body of the loop deletes the entry it was given.
IterDelete ==
    /\ iter.on /\ iter.entry \in Members(dict)
    /\ Apply("delete", iter.entry, GenericDelete(dict, iter.entry))
    /\ Forget({iter.entry})
    /\ UNCHANGED canResize

\* dictReleaseIterator, at the end or after a break
IterRelease ==
    /\ iter.on
    /\ dict' = [dict EXCEPT !.iterators = @ - 1]
    /\ iter' = NoIter
    /\ UNCHANGED <<canResize, reply, scan>>

\* JSCAN or QSCAN with the cursor of the previous reply, or 0
ScanCommand(count, busyloop) ==
    LET cursor == IF scan.on THEN scan.cursor ELSE 0
        r == ScanLoop(dict, cursor, count, busyloop)
    IN  /\ ~iter.on
        /\ scan' = [on |-> r.cursor # 0, cursor |-> r.cursor,
                    owed |-> IF scan.on THEN scan.owed ELSE Members(dict) \cap Matching,
                    got |-> IF scan.on THEN scan.got \cup r.got ELSE r.got]
        /\ UNCHANGED <<dict, canResize, reply, iter>>

Operation ==
    \/ \E k \in Keys : Add(k) \/ Delete(k) \/ Find(k)
    \/ Empty \/ Cron \/ ResizePolicy

Iteration == IterStart \/ IterStep \/ IterDelete \/ IterRelease

\* An iterator lives inside one handler and a scan between handlers: each is
\* checked with the operations, not with the other.
Next == Operation \/ Iteration

ScanNext ==
    \/ Operation
    \/ \E count \in Counts, busyloop \in BOOLEAN : ScanCommand(count, busyloop)

Spec == Init /\ [][Next]_vars

-----------------------------------------------------------------------------
(* Properties *)

\* Well-formedness of the tables: every key is in the bucket its hash selects,
\* nothing is left below rehashidx, "used" counts the entries (the loop of
\* dictRehash and its assertion rely on it), and rehashidx stays inside ht[0].
TablesOK ==
    /\ \A ht \in {dict.ht0, dict.ht1} :
          /\ DOMAIN ht.table = 0 .. ht.size - 1
          /\ ht.used = MapThenSumSet(LAMBDA i : Len(ht.table[i]), DOMAIN ht.table)
          /\ \A i \in DOMAIN ht.table : \A k \in ToSet(ht.table[i]) : Bucket(ht, k) = i
    /\ IF Rehashing(dict)
       THEN /\ dict.ht0.used > 0 => dict.rehashidx < dict.ht0.size
            /\ \A i \in 0 .. dict.rehashidx - 1 : dict.ht0.table[i] = <<>>
       ELSE dict.ht1 = NullTable

\* dictGetRandomKey finds a non empty bucket (its loops end) and can return
\* every key of a non empty dictionary, in the middle of a rehashing too.
RandomKeyReachesAll ==
    LET d == RehashStep(dict)
    IN  Members(dict) # {} => UNION {ToSet(b) : b \in RandomBuckets(d)} = Members(dict)

\* A loop over a safe iterator sees every key that was there when it started
\* and that it did not delete itself, exactly once, whatever it adds.
SafeIteration ==
    /\ iter.twice \cap iter.owed = {}
    /\ iter.on /\ iter.entry = Nil => iter.owed \subseteq iter.seen

\* dict.c:774 and job.c:1504: when the cursor comes back as 0, every element
\* that was there from the first to the last call was returned.
ScanComplete == ~scan.on => scan.owed \subseteq scan.got

\* The dictionary is a set for its callers.
Abstract == INSTANCE DictSet WITH members <- Members(dict), reply <- reply
ImplementsSet == Abstract!Spec
=============================================================================
