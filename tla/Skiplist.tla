------------------------------ MODULE Skiplist ------------------------------
(***************************************************************************)
(* skiplist.c: the jobs of a queue in order of creation and the jobs of a  *)
(* node in order of their next awakening are kept in skip lists.  A node   *)
(* is named by its element; the header is element 0.  Level i of the C     *)
(* arrays is level i + 1 here.                                             *)
(***************************************************************************)
EXTENDS Integers, Sequences, FiniteSets

CONSTANTS Elems,     \* naturals above 0, ordered like compare() orders objects
          MaxLevel,  \* SKIPLIST_MAXLEVEL
          Null

VARIABLES
    node,    \* node[x]: [fwd, span: one entry per level, back], Null if not inside
    level,   \* sl->level
    length,  \* sl->length
    tail,    \* sl->tail
    result   \* the last operation and what it returned

vars == <<node, level, length, tail, result>>

Header == 0
Places == {Header} \cup Elems

\* skiplistCreateNode and the initialisation of the header in skiplistCreate
NewNode(n) == [fwd |-> [i \in 1 .. n |-> Null], span |-> [i \in 1 .. n |-> 0],
               back |-> Null]

Init ==
    /\ node = [x \in Places |-> IF x = Header THEN NewNode(MaxLevel) ELSE Null]
    /\ level = 1
    /\ length = 0
    /\ tail = Null
    /\ result = <<"create", Null>>

-----------------------------------------------------------------------------
(* The search that insertion, deletion and lookup share *)

\* From x, with rank r, along level i as long as the next element is smaller.
Walk(x, r, i, e) ==
    LET walk[p \in Places \X Nat] ==
            LET f == node[p[1]].fwd[i]
            IN  IF f # Null /\ f < e THEN walk[<<f, p[2] + node[p[1]].span[i]>>] ELSE p
    IN  walk[<<x, r>>]

\* update[i] and rank[i], for every level in use.
Path(e) ==
    LET path[i \in 1 .. level] ==
            IF i = level THEN Walk(Header, 0, i, e)
            ELSE Walk(path[i + 1][1], path[i + 1][2], i, e)
    IN  path

\* The first element that is not smaller than e.
Ceiling(e) == node[Path(e)[1][1]].fwd[1]

-----------------------------------------------------------------------------
(* Operations *)

\* The levels the new node does not reach cross one more element.
SpansAbove(nd, path, n) ==
    [x \in Places |->
        IF nd[x] = Null THEN Null
        ELSE [nd[x] EXCEPT !.span = [i \in DOMAIN @ |->
                IF i > n /\ i <= level /\ path[i][1] = x THEN @[i] + 1 ELSE @[i]]]]

\* skiplistInsert, with n levels drawn by skiplistRandomLevel
InsertNode(e, n) ==
    LET old == Path(e)
        top == IF n > level THEN n ELSE level
        path == [i \in 1 .. top |-> IF i <= level THEN old[i] ELSE <<Header, 0>>]
        \* new levels start at the header and span the whole list
        nd == [node EXCEPT ![Header].span =
                  [i \in DOMAIN @ |-> IF i > level /\ i <= n THEN length ELSE @[i]]]
        d(i) == old[1][2] - path[i][2]
        new == [fwd |-> [i \in 1 .. n |-> nd[path[i][1]].fwd[i]],
                span |-> [i \in 1 .. n |-> nd[path[i][1]].span[i] - d(i)],
                back |-> IF old[1][1] = Header THEN Null ELSE old[1][1]]
        linked == [x \in Places |->
            IF x = e THEN new ELSE IF nd[x] = Null THEN Null
            ELSE [fwd |-> [i \in DOMAIN nd[x].fwd |->
                             IF i <= n /\ path[i][1] = x THEN e ELSE nd[x].fwd[i]],
                  span |-> [i \in DOMAIN nd[x].span |->
                             IF i <= n /\ path[i][1] = x THEN d(i) + 1 ELSE nd[x].span[i]],
                  back |-> IF x = new.fwd[1] THEN e ELSE nd[x].back]]
    IN  /\ node' = SpansAbove(linked, path, n)
        /\ level' = top
        /\ tail' = IF new.fwd[1] = Null THEN e ELSE tail
        /\ length' = length + 1
        /\ result' = <<"insert", e>>

Fail(name) == result' = <<name, Null>> /\ UNCHANGED <<node, level, length, tail>>

Insert(e, n) ==
    IF Ceiling(e) = e
    THEN Fail("insert")
    ELSE InsertNode(e, n)

\* The loop at the end of skiplistDeleteNode.
Shrunk(nd) ==
    LET used == {i \in 1 .. level : nd[Header].fwd[i] # Null}
    IN  IF used = {} THEN 1 ELSE CHOOSE i \in used : \A j \in used : j <= i

BackAfter(e, x) == IF x = node[e].fwd[1] THEN node[e].back ELSE node[x].back

\* skiplistDeleteNode and skiplistFreeNode
DeleteNode(e, name) ==
    LET path == Path(e)
        nd == [x \in Places |->
            IF x = e \/ node[x] = Null THEN Null
            ELSE [fwd |-> [i \in DOMAIN node[x].fwd |->
                             IF i <= level /\ node[x].fwd[i] = e /\ path[i][1] = x
                             THEN node[e].fwd[i] ELSE node[x].fwd[i]],
                  span |-> [i \in DOMAIN node[x].span |->
                             IF i > level \/ path[i][1] # x THEN node[x].span[i]
                             ELSE IF node[x].fwd[i] = e
                                  THEN node[x].span[i] + node[e].span[i] - 1
                             ELSE node[x].span[i] - 1],
                  back |-> BackAfter(e, x)]]
    IN  /\ node' = nd
        /\ tail' = IF node[e].fwd[1] = Null THEN node[e].back ELSE tail
        /\ level' = Shrunk(nd)
        /\ length' = length - 1
        /\ result' = <<name, e>>

\* skiplistDelete, called under the given name
DeleteFor(e, name) == IF Ceiling(e) = e THEN DeleteNode(e, name) ELSE Fail(name)

Delete(e) == DeleteFor(e, "delete")

Find(e) ==
    /\ result' = <<"find", IF Ceiling(e) = e THEN e ELSE Null>>
    /\ UNCHANGED <<node, level, length, tail>>

PopHead ==
    LET x == node[Header].fwd[1]
    IN  IF x = Null THEN Fail("pophead") ELSE DeleteFor(x, "pophead")

PopTail == IF tail = Null THEN Fail("poptail") ELSE DeleteFor(tail, "poptail")

Next ==
    \/ \E e \in Elems : \/ \E n \in 1 .. MaxLevel : Insert(e, n)
                        \/ Delete(e) \/ Find(e)
    \/ PopHead \/ PopTail

Spec == Init /\ [][Next]_vars

-----------------------------------------------------------------------------
(* Properties *)

Inside == {e \in Elems : node[e] # Null}
Rank(x) == Cardinality({e \in Inside : e <= x})
Height(x) == Len(node[x].fwd)

\* The structure every search relies on: a level links exactly the nodes that
\* are high enough, in order; a span is the number of elements a link crosses
\* (to the end of the list for the last link); backward pointers and tail
\* mirror the first level; no level in use is empty, and none above is linked.
Linked ==
    /\ length = Cardinality(Inside)
    /\ \A x \in {Header} \cup Inside : \A i \in 1 .. Height(x) :
          LET above == {e \in Inside : e > x /\ Height(e) >= i}
              f == node[x].fwd[i]
          IN  /\ IF above = {} THEN f = Null
                 ELSE f \in above /\ \A e \in above : f <= e
              /\ i <= level => node[x].span[i] =
                                 (IF f = Null THEN length ELSE Rank(f)) - Rank(x)
    /\ \A e \in Inside : node[e].back =
          (IF Rank(e) = 1 THEN Null ELSE CHOOSE p \in Inside : Rank(p) = Rank(e) - 1)
    /\ IF Inside = {} THEN tail = Null ELSE tail \in Inside /\ Rank(tail) = length
    /\ level = (IF Inside = {} THEN 1
                ELSE CHOOSE h \in 1 .. MaxLevel : /\ \E e \in Inside : Height(e) = h
                                                  /\ \A e \in Inside : Height(e) <= h)

\* For its callers the skip list is a sorted set: a pop takes the element at
\* that end, an insertion fails only for an element that is inside.
Abstract == INSTANCE SortedSet WITH elems <- Inside, result <- result
ImplementsSortedSet == Abstract!Spec
=============================================================================
