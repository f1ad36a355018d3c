----------------------------- MODULE LinkedList -----------------------------
(***************************************************************************)
(* adlist.c: the doubly linked lists of clients, of replies, of blocked    *)
(* and unblocked clients, of failure reports.  A node is named by its      *)
(* address; a freed address may be used again.                             *)
(***************************************************************************)
EXTENDS Integers, Sequences, FiniteSets

CONSTANTS Nodes, Values, Null,
          MaxIndex    \* bound: the arguments of listIndex

\* listNode, of adlist.h
Cell == [prev : Nodes \cup {Null}, next : Nodes \cup {Null}, value : Values]

\* NULL is not the address of a node, nor is it a node.
ASSUME ListAssumption == Null \notin Nodes /\ Null \notin Cell /\ MaxIndex \in Nat /\ IsFiniteSet(Nodes)

VARIABLES heap,     \* node -> [prev, next, value], Null when not allocated
          list,     \* [head, tail, len]
          li,       \* the iterator: [on, direction, next]
          current,  \* the node that the iterator returned, until it is removed
          result    \* the last operation that returns something, and what it returned

vars == <<heap, list, li, current, result>>

listCreate == [head |-> Null, tail |-> Null, len |-> 0]
NoIter == [on |-> FALSE, direction |-> "head", next |-> Null]

Init ==
    /\ heap = [n \in Nodes |-> Null]
    /\ list = listCreate
    /\ li = NoIter
    /\ current = Null
    /\ result = Null

Free == {n \in Nodes : heap[n] = Null}
Used == Nodes \ Free

\* The heap with a field of a node changed, if there is a node.
SetNext(h, n, x) == IF n = Null THEN h ELSE [h EXCEPT ![n].next = x]
SetPrev(h, n, x) == IF n = Null THEN h ELSE [h EXCEPT ![n].prev = x]

Allocate(h, n, prev, next, v) == [h EXCEPT ![n] = [prev |-> prev, next |-> next, value |-> v]]

listAddNodeHead(n, v) ==
    /\ heap' = SetPrev(Allocate(heap, n, Null, list.head, v), list.head, n)
    /\ list' = [head |-> n, tail |-> IF list.len = 0 THEN n ELSE list.tail, len |-> list.len + 1]
    /\ result' = Null /\ UNCHANGED <<li, current>>

listAddNodeTail(n, v) ==
    /\ heap' = SetNext(Allocate(heap, n, list.tail, Null, v), list.tail, n)
    /\ list' = [head |-> IF list.len = 0 THEN n ELSE list.head, tail |-> n, len |-> list.len + 1]
    /\ result' = Null /\ UNCHANGED <<li, current>>

listInsertNode(n, v, old, after) ==
    LET prev == IF after THEN old ELSE heap[old].prev
        next == IF after THEN heap[old].next ELSE old
    IN  /\ heap' = SetPrev(SetNext(Allocate(heap, n, prev, next, v), prev, n), next, n)
        /\ list' = [head |-> IF ~after /\ list.head = old THEN n ELSE list.head,
                    tail |-> IF after /\ list.tail = old THEN n ELSE list.tail,
                    len |-> list.len + 1]
        /\ result' = Null /\ UNCHANGED <<li, current>>

\* It is valid to remove the element the iterator returned, no other one.
MayDelete(n) == li.on => current = n

listDelNode(n) ==
    LET x == heap[n]
    IN  /\ MayDelete(n)
        /\ heap' = [SetPrev(SetNext(heap, x.prev, x.next), x.next, x.prev) EXCEPT ![n] = Null]
        /\ list' = [head |-> IF x.prev = Null THEN x.next ELSE list.head,
                    tail |-> IF x.next = Null THEN x.prev ELSE list.tail,
                    len |-> list.len - 1]
        /\ current' = Null
        /\ result' = Null /\ UNCHANGED li

\* listGetIterator(), listRewind(), listRewindTail()
listGetIterator(direction) ==
    /\ li' = [on |-> TRUE, direction |-> direction,
              next |-> IF direction = "head" THEN list.head ELSE list.tail]
    /\ current' = Null
    /\ result' = Null /\ UNCHANGED <<heap, list>>

\* Mutant: the iterator keeps the node and follows its link at the next call.
NextLate ==
    /\ li.on
    /\ LET x == IF current = Null THEN li.next ELSE
                IF li.direction = "head" THEN heap[current].next ELSE heap[current].prev
       IN  /\ result' = <<"next", x>>
           /\ current' = x
           /\ li' = IF x = Null THEN NoIter ELSE li
    /\ UNCHANGED <<heap, list>>

\* The link is followed before the node is returned.
listNext ==
    /\ li.on
    /\ result' = <<"next", li.next>>
    /\ current' = li.next
    /\ li' = IF li.next = Null THEN NoIter    \* listReleaseIterator()
             ELSE [li EXCEPT !.next = IF li.direction = "head" THEN heap[@].next ELSE heap[@].prev]
    /\ UNCHANGED <<heap, list>>

\* The node that is reached from n by following at most k links.
Follow(n, k, forward) ==
    LET f[i \in 0 .. k] ==
            IF i = 0 THEN n
            ELSE IF f[i - 1] = Null THEN Null
            ELSE IF forward THEN heap[f[i - 1]].next ELSE heap[f[i - 1]].prev
    IN  f[k]

\* An iteration from the head, as the functions below do it.
Walk == [i \in 1 .. Cardinality(Used) + 1 |-> Follow(list.head, i - 1, TRUE)]

listSearchKey(v) ==
    /\ LET hits == {i \in DOMAIN Walk : Walk[i] # Null /\ heap[Walk[i]].value = v}
       IN  result' = <<"search", v, IF hits = {} THEN Null
                                    ELSE Walk[CHOOSE i \in hits : \A j \in hits : i <= j]>>
    /\ UNCHANGED <<heap, list, li, current>>

listIndex(i) ==
    /\ result' = <<"index", i, IF i < 0 THEN Follow(list.tail, (-i) - 1, FALSE) ELSE Follow(list.head, i, TRUE)>>
    /\ UNCHANGED <<heap, list, li, current>>

\* The values of the copy.
listDup ==
    /\ LET nodes == SelectSeq(Walk, LAMBDA n : n # Null)
       IN  result' = <<"dup", [i \in DOMAIN nodes |-> heap[nodes[i]].value]>>
    /\ UNCHANGED <<heap, list, li, current>>

\* No iteration is going on when its caller, clientsCron(), rotates the list.
listRotate ==
    /\ ~li.on
    /\ list.len > 1
    /\ LET t == list.tail
           p == heap[t].prev
           h == SetPrev(SetNext(heap, p, Null), list.head, t)
       IN  /\ heap' = [h EXCEPT ![t].prev = Null, ![t].next = list.head]
           /\ list' = [list EXCEPT !.head = t, !.tail = p]
    /\ result' = Null /\ UNCHANGED <<li, current>>

Next ==
    \/ \E n \in Free, v \in Values :
          \/ listAddNodeHead(n, v) \/ listAddNodeTail(n, v)
          \/ \E old \in Used, after \in BOOLEAN : listInsertNode(n, v, old, after)
    \/ \E n \in Used : listDelNode(n)
    \/ \E direction \in {"head", "tail"} : listGetIterator(direction)
    \/ \E v \in Values : listSearchKey(v)
    \/ \E i \in -MaxIndex .. MaxIndex : listIndex(i)
    \/ listNext \/ listDup \/ listRotate

Spec == Init /\ [][Next]_vars

-----------------------------------------------------------------------------
\* The nodes of the list, in order.
Chain == [i \in 1 .. list.len |-> Follow(list.head, i - 1, TRUE)]

\* What the iterator will return.
Todo ==
    LET forward == li.direction = "head"
        t == [i \in 1 .. Cardinality(Used) |-> Follow(li.next, i - 1, forward)]
    IN  SelectSeq(t, LAMBDA n : n # Null)

Abstract == INSTANCE ListSeq WITH
    seq <- [i \in DOMAIN Chain |-> [node |-> Chain[i], value |-> heap[Chain[i]].value]],
    iter <- [on |-> li.on, dir |-> li.direction, current |-> current, todo |-> Todo]

\* The linked nodes behave as a sequence with an iterator, whichever calls
\* follow one another: no element is lost, repeated or out of order, also for
\* an iteration during which its last element is removed and others are added.
ImplementsSequence == Abstract!Spec

\* The two directions of the list agree: the allocated nodes have an order in
\* which each is linked from both its neighbours, both ends are where the list
\* says, and len counts them; no node is lost and none is linked twice.
LinksAgree ==
    \E c \in [1 .. list.len -> Used] :
        /\ \A n \in Used : \E i \in 1 .. list.len : c[i] = n
        /\ \A i, j \in 1 .. list.len : c[i] = c[j] => i = j
        /\ list.head = (IF list.len = 0 THEN Null ELSE c[1])
        /\ list.tail = (IF list.len = 0 THEN Null ELSE c[list.len])
        /\ \A i \in 1 .. list.len :
              /\ heap[c[i]].prev = (IF i = 1 THEN Null ELSE c[i - 1])
              /\ heap[c[i]].next = (IF i = list.len THEN Null ELSE c[i + 1])

\* The iterator never points to a freed node.
IteratorAlive == li.next \in Used \cup {Null}

\* After any calls of adlist.c the list is linked both ways, and an iterator
\* over it can be advanced: listDelNode, listRotate and the insertions leave
\* neither a gap nor a freed node to be followed.
ListSound == LinksAgree /\ IteratorAlive
=============================================================================
