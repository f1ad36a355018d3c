---------------------------- MODULE MCStructures ----------------------------
(***************************************************************************)
(* The data structures and the pure functions of the code, in parts that   *)
(* do not share state: linked lists, dictionaries, skip lists, the ring of *)
(* latencies, and strings.  Every behaviour exercises one part, named by   *)
(* `part'.  The lists, the dictionary and the skip list of the other parts *)
(* stay empty; v1 to v3 are the variables of the ring and of the strings.  *)
(***************************************************************************)
EXTENDS LinkedList

CONSTANTS Off

VARIABLES part, dict, canResize, reply, iter, scan,
          node, level, length, tail, found,
          v1, v2, v3

dvars == <<dict, canResize, reply, iter, scan>>
svars == <<node, level, length, tail, found>>
rest == <<v1, v2, v3>>

\* The hash is the identity on naturals that share buckets in the small tables
\* and part in larger ones.
Keys == {0, 2, 3}

Table == INSTANCE Dict WITH
    Hash <- [k \in Keys |-> k], InitialSize <- 1, ForceResizeRatio <- 1, MinFill <- 30,
    RehashBatch <- 2, CursorBits <- 4, Matching <- Keys, Counts <- {}, Nil <- Null

\* The same with SCAN commands.
Scanned == INSTANCE Dict WITH
    Hash <- [k \in Keys |-> k], InitialSize <- 1, ForceResizeRatio <- 1, MinFill <- 0,
    RehashBatch <- 2, CursorBits <- 4, Matching <- Keys, Counts <- {1}, Nil <- Null

Skip == INSTANCE Skiplist WITH Elems <- 1 .. 4, MaxLevel <- 3, result <- found

Ring == INSTANCE LatencyMonitor WITH
    now <- v1, series <- v2, seen <- v3,
    Events <- {"command"}, TsLen <- 3, Threshold <- 2, Latencies <- {1, 2, 5}, MaxTime <- 5

\* The bytes that sdscatrepr and sdssplitargs treat in their own way, and some
\* that they do not.
Quoted == INSTANCE StringCases WITH
    text <- v1, pattern <- v2, LLongMax <- 127,
    Alphabet <- {0, 7, 10, 34, 39, 92, 54, 97, 120, 200}, MaxText <- 4, MaxPattern <- 0

\* Signs, digits, and a letter.
Digits == INSTANCE StringCases WITH
    text <- v1, pattern <- v2, LLongMax <- 127,
    Alphabet <- {45, 48, 49, 50, 56, 57, 97}, MaxText <- 4, MaxPattern <- 0

Globs == INSTANCE StringCases WITH
    text <- v1, pattern <- v2, LLongMax <- 127,
    Alphabet <- {97, 98, 99, 42}, MaxText <- 3, MaxPattern <- 3

-----------------------------------------------------------------------------
MCInit ==
    /\ Init /\ Table!Init /\ Skip!Init
    /\ \/ part \in {"list", "table", "scanned", "skip"} /\ v1 = Off /\ v2 = Off /\ v3 = Off
       \/ part = "ring" /\ Ring!Init
       \/ part \in {"quoted", "digits", "globs"} /\ Globs!Init /\ v3 = Off

MCNext ==
    /\ UNCHANGED part
    /\ \/ part = "list" /\ Next /\ UNCHANGED <<dvars, svars, rest>>
       \/ part = "table" /\ Table!Next /\ UNCHANGED <<vars, svars, rest>>
       \/ part = "scanned" /\ Scanned!ScanNext /\ UNCHANGED <<vars, svars, rest>>
       \/ part = "skip" /\ Skip!Next /\ UNCHANGED <<vars, dvars, rest>>
       \/ /\ \/ part = "ring" /\ Ring!Next
             \/ part = "quoted" /\ Quoted!Next /\ UNCHANGED v3
             \/ part = "digits" /\ Digits!Next /\ UNCHANGED v3
             \/ part = "globs" /\ Globs!Next /\ UNCHANGED v3
          /\ UNCHANGED <<vars, dvars, svars>>

MCSpec == MCInit /\ [][MCNext]_<<part, vars, dvars, svars, rest>>

-----------------------------------------------------------------------------
(* The properties of the parts; that of the lists alone is in LinkedList. *)

\* No key of a dictionary is lost, whatever rehashing moves: every key is in
\* the bucket its hash selects (dictRehash), dictGetRandomKey can return it, a
\* loop over a safe iterator sees it once (dictNext), and a SCAN that began
\* when it was there returns it, whatever is added, deleted or resized in
\* between (dictScan).
DictionaryComplete ==
    /\ part \in {"table", "scanned"} =>
           Table!TablesOK /\ Table!RandomKeyReachesAll /\ Table!SafeIteration
    /\ part = "scanned" => Scanned!ScanComplete

\* LATENCY HISTORY returns the worst latency of each of the last slow seconds
\* (latencyAddSample), and LATENCY LATEST and DOCTOR speak of the same samples
\* (analyzeLatencyForEvent).
SamplesAgree == part = "ring" => Ring!HistoryIsRecent /\ Ring!ReportsAgree

\* The string functions agree with their reference definitions: sdssplitargs
\* reads back what sdscatrepr wrote, merges no two arguments and drops none;
\* string2ll accepts exactly what ll2string can write; stringmatchlen decides
\* whether the elements of a pattern match a text.
StringsAgree ==
    /\ part = "quoted" => Quoted!ReprRoundTrip /\ Quoted!SplitsEveryArgument
    /\ part = "digits" => Digits!NumberRoundTrip
    /\ part = "globs" => Globs!GlobAgrees

\* Levels, spans, backward pointers and tail of the skip list agree
\* (skiplistInsert, skiplistDeleteNode).
SkipLinked == part = "skip" => Skip!Linked

\* For their callers a linked list is a sequence with a cursor (adlist.c), a
\* dictionary is a set (dictAdd, dictGenericDelete, dictFind) and a skip list
\* is a sorted set (skiplistInsert, skiplistDelete, skiplistPopHead) whose
\* levels, spans and pointers agree.
StructuresImplement ==
    /\ ImplementsSequence
    /\ Table!ImplementsSet
    /\ Skip!ImplementsSortedSet
    /\ []SkipLinked
=============================================================================
